---------------------------- MODULE SessionsProofs ----------------------------
(***************************************************************************)
(* Proofs about Sessions: its types, that a page never sends one refresh   *)
(* token twice, that a log-out sticks, and that it ends its session.       *)
(***************************************************************************)
EXTENDS Sessions, FiniteSetTheorems, TLAPS

(***************************************************************************)
(* Pairs are issued in order, and nobody holds one that was not issued.    *)
(***************************************************************************)

Known(p) == row[p] # "none"
Held(p)  == p # NoPair => Known(p)

Numbering ==
  /\ \A p \in Pairs : Known(p) <=> p <= Issued
  /\ \A p \in Pairs : Known(p) => root[p] \in 1..p

HeldBy(e) ==
  /\ Held(e.pair) /\ Held(e.child)
  /\ e.pc \in {"asked", "found", "done"} => e.pair # NoPair
  /\ e.pc = "done" <=> e.child # NoPair

Holding ==
  /\ Held(stored)
  /\ \A x \in Exchanges : HeldBy(exch[x])
  /\ \A t \in Tabs : Held(leave[t].pair) /\ (leave[t].pc = "asked" => leave[t].pair # NoPair)
  /\ \A r \in ended : Known(r)

Base == TypeOK /\ Numbering /\ Holding

\* The number of issued pairs lies within the bound.
LEMMA CountBounded ==
  ASSUME NEW f
  PROVE  Cardinality({p \in Pairs : f[p] # "none"}) \in 0..PairBound
<1>1. IsFiniteSet(Pairs) /\ Cardinality(Pairs) = PairBound
  BY FS_Interval, BoundsAssumption DEF Pairs
<1> QED BY <1>1, FS_Subset, FS_CardinalityType, BoundsAssumption

\* When the issued pairs are the first n, there are n of them.
LEMMA Counting ==
  ASSUME NEW f, NEW n \in 0..PairBound,
         \A p \in Pairs : f[p] # "none" <=> p <= n
  PROVE  Cardinality({p \in Pairs : f[p] # "none"}) = n
<1>1. {p \in Pairs : f[p] # "none"} = 1..n
  BY BoundsAssumption DEF Pairs
<1>2. Cardinality(1..n) = n
  BY FS_Interval
<1> QED BY <1>1, <1>2

LEMMA IssuedType == Issued \in 0..PairBound /\ Issued' \in 0..PairBound
<1>1. Issued \in 0..PairBound BY CountBounded DEF Issued
<1>2. Issued' \in 0..PairBound BY CountBounded DEF Issued
<1> QED BY <1>1, <1>2

\* A step that issues no pair keeps the numbering.
LEMMA NothingIssued ==
  ASSUME Numbering, root' = root, \A p \in Pairs : Known(p)' <=> Known(p)
  PROVE  Numbering' /\ Issued' = Issued
<1>1. \A p \in Pairs : row'[p] # "none" <=> p <= Issued
  BY DEF Numbering, Known
<1>2. Issued' = Issued
  BY <1>1, Counting, IssuedType DEF Issued
<1> QED BY <1>2 DEF Numbering, Known

\* A step that issues the next pair keeps it too.
LEMMA OneIssued ==
  ASSUME Numbering, NEW p \in Pairs, p = Issued + 1, NEW r \in 1..p,
         row'[p] # "none", \A q \in Pairs \ {p} : Known(q)' <=> Known(q),
         root \in [Pairs -> MaybePair], root' = [root EXCEPT ![p] = r]
  PROVE  Numbering' /\ ~Known(p) /\ \A q \in Pairs : Known(q) => q < p
<1>1. \A q \in Pairs : row'[q] # "none" <=> q <= p
  BY IssuedType DEF Numbering, Known, Pairs
<1>2. Issued' = p
  <2>1. p \in 0..PairBound BY BoundsAssumption DEF Pairs
  <2> QED BY <1>1, <2>1, Counting DEF Issued
<1> QED BY <1>1, <1>2, IssuedType DEF Numbering, Known, Pairs

\* What a pair that is held descends from was issued.
LEMMA RootsIssued ==
  ASSUME Base
  PROVE  /\ \A p \in Pairs : Known(p) => root[p] \in Pairs /\ root[p] <= p /\ Known(root[p])
         /\ \A p \in MaybePair : Held(p) => RootOf(p) \in SUBSET Pairs
<1>1. \A p \in Pairs : Known(p) => root[p] \in Pairs /\ root[p] <= p /\ Known(root[p])
  BY IssuedType, BoundsAssumption DEF Base, Numbering, Pairs
<1> QED BY <1>1 DEF RootOf, Held, MaybePair

LEMMA Initially == Init => Base
<1> SUFFICES ASSUME Init PROVE Base
  OBVIOUS
<1> USE DEF Init
<1>1. TypeOK
  <2>1. IdleCall \in Call /\ FreeExch \in Exchange /\ NotLeaving \in Leave
    BY DEF Call, Exchange, Leave, IdleCall, FreeExch, NotLeaving, MaybePair
  <2>2. 0 \in 0..PairBound /\ 0 \in 0..FaultBound
    BY BoundsAssumption
  <2> QED BY <2>1, <2>2 DEF TypeOK, MaybePair
<1>2. \A p \in Pairs : row[p] # "none" <=> p <= 0
  BY DEF Pairs
<1>3. Issued = 0
  BY <1>2, Counting, BoundsAssumption DEF Issued
<1>4. Numbering
  BY <1>2, <1>3 DEF Numbering, Known
<1>5. Holding
  BY DEF Holding, Held, HeldBy, FreeExch, NotLeaving
<1> QED BY <1>1, <1>4, <1>5 DEF Base

(***************************************************************************)
(* One lemma per part of Base, one step per action.                        *)
(***************************************************************************)

LEMMA TypesKept ==
  ASSUME Base, [Next]_vars
  PROVE  TypeOK'
<1>0. /\ TypeOK
      /\ RootOf(stored) \in SUBSET Pairs
      /\ \A x \in Exchanges : /\ RootOf(exch[x].child) \in SUBSET Pairs
                              /\ exch[x].pc = "found" => root[exch[x].pair] \in Pairs
      /\ \A t \in Tabs : leave[t].pc = "asked" => root[leave[t].pair] \in Pairs
  <2>1. /\ \A x \in Exchanges : exch[x].pair \in MaybePair /\ exch[x].child \in MaybePair
        /\ \A t \in Tabs : leave[t].pair \in MaybePair
        /\ stored \in MaybePair
    BY DEF Base, TypeOK, Exchange, Leave
  <2> QED BY <2>1, RootsIssued DEF Base, Holding, HeldBy, Held, MaybePair
<1>1. ASSUME NEW t \in Tabs, LoadNothing(t) PROVE TypeOK'
  BY <1>0, <1>1 DEF LoadNothing, server, history, TypeOK, MaybePair, Call, Exchange,
     Leave, IdleCall, FreeExch, Refusal, NotLeaving
<1>2. ASSUME NEW t \in Tabs, LoadUser(t) PROVE TypeOK'
  BY <1>0, <1>2 DEF LoadUser, server, history, TypeOK, MaybePair, Call, Exchange, Leave,
     IdleCall, FreeExch, Refusal, NotLeaving
<1>3. ASSUME NEW t \in Tabs, ExchangeArrives(t) PROVE TypeOK'
  <2> DEFINE x == pending[t]
  <2>1. x \in Exchanges /\ exch[x].pc = "done" /\ exch[x].child \in MaybePair
    BY <1>0, <1>3 DEF ExchangeArrives, TypeOK, Exchange
  <2>2. /\ forked' \in SUBSET Pairs /\ stored' \in MaybePair /\ asked' \in SUBSET Tabs
        /\ exch' \in [Exchanges -> Exchange]
    BY <1>0, <1>3, <2>1 DEF ExchangeArrives, Store, Overwrites, TypeOK, MaybePair,
       Exchange, FreeExch
  <2>3. Waiters(t, "again") \in [Calls -> Call]
    BY <1>0 DEF Waiters, TypeOK, Call
  <2> QED BY <1>0, <1>3, <2>2, <2>3 DEF ExchangeArrives, TypeOK, server
<1>4. ASSUME NEW t \in Tabs, SignedOut(t) PROVE TypeOK'
  BY <1>0, <1>4 DEF SignedOut, NewPage, Clear, Store, server, TypeOK, MaybePair, Call,
     Exchange, Leave, IdleCall, FreeExch, Refusal, NotLeaving
<1>5. ASSUME NEW t \in Tabs, LogoutDeletes(t) PROVE TypeOK'
  BY <1>0, <1>5 DEF LogoutDeletes, TypeOK, MaybePair, Call, Exchange, Leave, IdleCall,
     FreeExch, Refusal, NotLeaving
<1>6. ASSUME NEW t \in Tabs, LogoutFinishes(t) PROVE TypeOK'
  BY <1>0, <1>6 DEF LogoutFinishes, Store, Overwrites, Expecting, server, TypeOK,
     MaybePair, Call, Exchange, Leave, IdleCall, FreeExch, Refusal, NotLeaving
<1>7. ASSUME NEW t \in Tabs, NEW p \in Pairs, Login(t, p) PROVE TypeOK'
  BY <1>0, <1>7 DEF Login, Issue, Overwrites, Store, TypeOK, MaybePair, Call, Exchange,
     Leave, IdleCall, FreeExch, Refusal, NotLeaving
<1>8. ASSUME NEW t \in Tabs, Logout(t) PROVE TypeOK'
  BY <1>0, <1>8 DEF Logout, server, history, TypeOK, MaybePair, Call, Exchange, Leave,
     IdleCall, FreeExch, Refusal, NotLeaving
<1>9. ASSUME NEW t \in Tabs, Reload(t) PROVE TypeOK'
  BY <1>0, <1>9, BoundsAssumption DEF Reload, NewPage, Fault, server, TypeOK, MaybePair,
     Call, Exchange, Leave, IdleCall, FreeExch, Refusal, NotLeaving
<1>10. ASSUME NEW t \in Tabs, LogoutLost(t) PROVE TypeOK'
  BY <1>0, <1>10, BoundsAssumption DEF LogoutLost, Fault, server, history, TypeOK,
     MaybePair, Call, Exchange, Leave, IdleCall, FreeExch, Refusal, NotLeaving
<1>11. ASSUME NEW t \in Tabs, LoadFails(t) PROVE TypeOK'
  BY <1>0, <1>11, BoundsAssumption DEF LoadFails, SignOut, Clear, Store, Fault, server,
     TypeOK, MaybePair, Call, Exchange, Leave, IdleCall, FreeExch, Refusal, NotLeaving
<1>12. ASSUME NEW t \in Tabs, NEW p \in Pairs, LoginLost(t, p) PROVE TypeOK'
  <2>1. /\ forked' \in SUBSET Pairs
        /\ row' \in [Pairs -> {"none", "live", "revoked", "expired", "gone"}]
    BY <1>0, <1>12 DEF LoginLost, Issue, TypeOK
  <2>2. root' \in [Pairs -> MaybePair] /\ faults' \in 0..FaultBound
    BY <1>0, <1>12, BoundsAssumption DEF LoginLost, Issue, Fault, TypeOK, MaybePair
  <2> QED BY <1>0, <1>12, <2>1, <2>2 DEF LoginLost, Issue, TypeOK
<1>13. ASSUME NEW c \in Calls, CallFails(c) PROVE TypeOK'
  BY <1>0, <1>13, BoundsAssumption DEF CallFails, Throws, SignOut, Clear, Store, Fault,
     server, TypeOK, MaybePair, Call, Exchange, Leave, IdleCall, FreeExch, Refusal,
     NotLeaving
<1>14. ASSUME NEW c \in Calls, SendRefused(c) PROVE TypeOK'
  BY <1>0, <1>14 DEF SendRefused, server, history, TypeOK, MaybePair, Call, Exchange,
     Leave, IdleCall, FreeExch, Refusal, NotLeaving
<1>15. ASSUME NEW c \in Calls, Resend(c) PROVE TypeOK'
  <2>1. call' \in [Calls -> Call]
    <3>1. IdleCall \in Call /\ [call[c] EXCEPT !.pc = "final"] \in Call
      BY <1>0 DEF TypeOK, Call, IdleCall
    <3>2. \E k \in Call : call' = [call EXCEPT ![c] = k]
      BY <1>0, <1>15, <3>1 DEF Resend, TypeOK
    <3> QED BY <1>0, <3>2 DEF TypeOK
  <2>2. view' \in [Tabs -> {"loading", "in", "out"}]
    BY <1>0, <1>15 DEF Resend, TypeOK
  <2> QED BY <1>0, <1>15, <2>1, <2>2 DEF Resend, server, history, TypeOK
<1>16. ASSUME NEW c \in Calls, Refused(c) PROVE TypeOK'
  BY <1>0, <1>16 DEF Refused, Throws, SignOut, Clear, Store, server, TypeOK, MaybePair,
     Call, Exchange, Leave, IdleCall, FreeExch, Refusal, NotLeaving
<1>17. ASSUME NEW c \in Calls, Unauthorized(c) PROVE TypeOK'
  <2>1. call' \in [Calls -> Call]
    BY <1>0, <1>17 DEF Unauthorized, TypeOK, Call
  <2>2. TabOf[c] \in Tabs
    BY TabOfAssumption
  <2>3. /\ pending' \in [Tabs -> Exchanges \cup {NoExchange}] /\ exch' \in [Exchanges -> Exchange]
        /\ asked' \in SUBSET Tabs /\ again' \in SUBSET Tabs
    <3>1. CASE pending[TabOf[c]] # NoExchange
      BY <1>0, <1>17, <3>1 DEF Unauthorized, SharedRefresh, TypeOK
    <3>2. ASSUME NEW x \in Exchanges, StartExchange(TabOf[c], x)
          PROVE  /\ pending' \in [Tabs -> Exchanges \cup {NoExchange}]
                 /\ exch' \in [Exchanges -> Exchange]
                 /\ asked' \in SUBSET Tabs /\ again' \in SUBSET Tabs
      BY <1>0, <2>2, <3>2 DEF StartExchange, TypeOK, Exchange, MaybePair
    <3> QED BY <1>17, <3>1, <3>2 DEF Unauthorized, SharedRefresh
  <2> QED BY <1>0, <1>17, <2>1, <2>3 DEF Unauthorized, server, TypeOK
<1>18. ASSUME NEW x \in Exchanges, LookUp(x) PROVE TypeOK'
  BY <1>0, <1>18 DEF LookUp, server, history, TypeOK, MaybePair, Call, Exchange, Leave,
     IdleCall, FreeExch, Refusal, NotLeaving
<1>19. ASSUME NEW x \in Exchanges, NEW p \in Pairs, Rotate(x, p) PROVE TypeOK'
  <2>1. exch' \in [Exchanges -> Exchange]
    <3>1. exch[x] \in Exchange
      BY <1>0 DEF TypeOK
    <3>2. exch' = [exch EXCEPT ![x] = [exch[x] EXCEPT !.pc = "done", !.child = p]]
      BY <1>0, <1>19 DEF Rotate, TypeOK
    <3>3. [exch[x] EXCEPT !.pc = "done", !.child = p] \in Exchange
      BY <3>1 DEF Exchange, MaybePair
    <3> QED BY <1>0, <3>2, <3>3 DEF TypeOK
  <2>2. /\ row' \in [Pairs -> {"none", "live", "revoked", "expired", "gone"}]
        /\ root' \in [Pairs -> MaybePair] /\ forked' \in SUBSET Pairs
    BY <1>0, <1>19 DEF Rotate, TypeOK, MaybePair
  <2> QED BY <1>0, <1>19, <2>1, <2>2 DEF Rotate, TypeOK
<1>20. ASSUME NEW x \in Exchanges, RotateRefused(x) PROVE TypeOK'
  BY <1>0, <1>20 DEF RotateRefused, server, history, TypeOK, MaybePair, Call, Exchange,
     Leave, IdleCall, FreeExch, Refusal, NotLeaving
<1>21. ASSUME NEW x \in Exchanges, AnswerDropped(x) PROVE TypeOK'
  BY <1>0, <1>21 DEF AnswerDropped, server, TypeOK, MaybePair, Call, Exchange, Leave,
     IdleCall, FreeExch, Refusal, NotLeaving
<1>22. ASSUME NEW x \in Exchanges, ExchangeFails(x) PROVE TypeOK'
  BY <1>0, <1>22, BoundsAssumption DEF ExchangeFails, Fault, server, TypeOK, MaybePair,
     Call, Exchange, Leave, IdleCall, FreeExch, Refusal, NotLeaving
<1>23. ASSUME NEW p \in Pairs, ExpireRefresh(p) PROVE TypeOK'
  BY <1>0, <1>23, BoundsAssumption DEF ExpireRefresh, Fault, history, TypeOK, MaybePair,
     Call, Exchange, Leave, IdleCall, FreeExch, Refusal, NotLeaving
<1>24. CASE ExpireAccess
  <2>1. oldest' \in 0..PairBound
    BY <1>0, <1>24, IssuedType, BoundsAssumption DEF ExpireAccess, TypeOK
  <2> QED BY <1>0, <1>24, <2>1 DEF ExpireAccess, history, TypeOK
<1>25. CASE UNCHANGED vars
  BY <1>0, <1>25 DEF vars, TypeOK
<1> QED
  BY <1>1, <1>2, <1>3, <1>4, <1>5, <1>6, <1>7, <1>8, <1>9, <1>10, <1>11, <1>12,
     <1>13, <1>14, <1>15, <1>16, <1>17, <1>18, <1>19, <1>20, <1>21, <1>22, <1>23, <1>24, <1>25
  DEF Next, TabStep, User, CallStep, ServerStep, Faults

\* The actions that write a row of refresh_tokens.
LEMMA RowsChange ==
  ASSUME [Next]_vars
  PROVE  \/ UNCHANGED <<row, root>>
         \/ \E t \in Tabs, p \in Pairs : Login(t, p) \/ LoginLost(t, p)
         \/ \E t \in Tabs : LogoutDeletes(t)
         \/ \E x \in Exchanges, p \in Pairs : Rotate(x, p)
         \/ \E p \in Pairs : ExpireRefresh(p)
<1>1. ASSUME NEW t \in Tabs, TabStep(t) \/ User(t), row' # row \/ root' # root
      PROVE  LogoutDeletes(t) \/ \E p \in Pairs : Login(t, p)
  BY <1>1 DEF TabStep, User, LoadNothing, LoadUser, ExchangeArrives, SignedOut,
     LogoutFinishes,
     Logout, Reload, server
<1>2. ASSUME NEW c \in Calls, CallStep(c) \/ CallFails(c)
      PROVE  UNCHANGED <<row, root>>
  BY <1>2 DEF CallStep, SendRefused, Resend, Refused, Unauthorized, CallFails, Throws,
     server
<1>3. ASSUME NEW x \in Exchanges, ServerStep(x) \/ AnswerDropped(x) \/ ExchangeFails(x),
             row' # row \/ root' # root
      PROVE  \E p \in Pairs : Rotate(x, p)
  BY <1>3 DEF ServerStep, LookUp, RotateRefused, AnswerDropped, ExchangeFails, server
<1>4. ASSUME NEW t \in Tabs, LogoutLost(t) \/ LoadFails(t)
      PROVE  UNCHANGED <<row, root>>
  BY <1>4 DEF LogoutLost, LoadFails, server
<1>5. CASE ExpireAccess \/ UNCHANGED vars
  BY <1>5 DEF ExpireAccess, vars
<1> QED BY <1>1, <1>2, <1>3, <1>4, <1>5 DEF Next, Faults

\* A pair stays issued, and pairs are issued in their order.
LEMMA NumberingKept ==
  ASSUME Base, [Next]_vars
  PROVE  Numbering' /\ \A p \in Pairs : Known(p) => Known(p)'
<1> USE DEF Base
<1>1. CASE UNCHANGED <<row, root>>
  BY <1>1, NothingIssued DEF Known
<1>2. ASSUME NEW t \in Tabs, NEW p \in Pairs, Login(t, p) \/ LoginLost(t, p)
      PROVE  Numbering' /\ \A q \in Pairs : Known(q) => Known(q)'
  <2>1. Issue(p, p)
    BY <1>2 DEF Login, LoginLost
  <2>2. row'[p] # "none" /\ \A q \in Pairs \ {p} : Known(q)' <=> Known(q)
    BY <2>1 DEF Issue, Known, TypeOK
  <2>3. p \in 1..p
    BY DEF Pairs
  <2> QED BY <2>1, <2>2, <2>3, OneIssued DEF Issue, TypeOK
<1>3. ASSUME NEW x \in Exchanges, NEW p \in Pairs, Rotate(x, p)
      PROVE  Numbering' /\ \A q \in Pairs : Known(q) => Known(q)'
  <2> DEFINE old == exch[x].pair
  <2>1. old \in Pairs /\ Known(old)
    BY <1>3 DEF Rotate, Holding, HeldBy, Held, TypeOK, Exchange, MaybePair
  <2>2. row'[p] # "none" /\ \A q \in Pairs \ {p} : Known(q)' <=> Known(q)
    BY <1>3, <2>1 DEF Rotate, Known, TypeOK
  <2>3. root[old] \in 1..p
    BY <1>3, <2>1, IssuedType DEF Rotate, Numbering, Pairs
  <2> QED BY <1>3, <2>2, <2>3, OneIssued DEF Rotate, TypeOK
<1>4. ASSUME NEW t \in Tabs, LogoutDeletes(t)
      PROVE  Numbering' /\ \A q \in Pairs : Known(q) => Known(q)'
  <2>1. leave[t].pair \in Pairs /\ Known(leave[t].pair)
    BY <1>4 DEF LogoutDeletes, Holding, Held, TypeOK, Leave, MaybePair
  <2>2. root' = root /\ \A q \in Pairs : Known(q)' <=> Known(q)
    BY <1>4, <2>1 DEF LogoutDeletes, Known, TypeOK
  <2> QED BY <2>2, NothingIssued
<1>5. ASSUME NEW p \in Pairs, ExpireRefresh(p)
      PROVE  Numbering' /\ \A q \in Pairs : Known(q) => Known(q)'
  <2>1. root' = root /\ \A q \in Pairs : Known(q)' <=> Known(q)
    BY <1>5 DEF ExpireRefresh, Live, Known, TypeOK
  <2> QED BY <2>1, NothingIssued
<1> QED BY <1>1, <1>2, <1>3, <1>4, <1>5, RowsChange

\* Whoever holds a pair holds an issued one.
LEMMA HoldingKept ==
  ASSUME Base, [Next]_vars
  PROVE  Holding'
<1>0. /\ TypeOK /\ TypeOK' /\ Numbering /\ Holding /\ Numbering'
      /\ \A p \in Pairs : Known(p) => Known(p)'
  BY TypesKept, NumberingKept DEF Base
<1>1. ASSUME NEW t \in Tabs, LoadNothing(t) PROVE Holding'
  BY <1>0, <1>1 DEF LoadNothing, server, history, Holding, HeldBy, Held, TypeOK,
     MaybePair, Exchange, Leave, IdleCall, FreeExch, Refusal, NotLeaving
<1>2. ASSUME NEW t \in Tabs, LoadUser(t) PROVE Holding'
  BY <1>0, <1>2 DEF LoadUser, server, history, Holding, HeldBy, Held, TypeOK, MaybePair,
     Exchange, Leave, IdleCall, FreeExch, Refusal, NotLeaving
<1>3. ASSUME NEW t \in Tabs, ExchangeArrives(t) PROVE Holding'
  <2> DEFINE x == pending[t]
  <2>1. x \in Exchanges /\ HeldBy(exch[x]) /\ exch[x].pc = "done" /\ exch[x].child \in Pairs
    BY <1>0, <1>3 DEF ExchangeArrives, Holding, HeldBy, TypeOK, Exchange, MaybePair
  <2>2. Held(stored)'
    BY <1>0, <1>3, <2>1 DEF ExchangeArrives, Store, HeldBy, Held
  <2>3. \A y \in Exchanges : HeldBy(exch'[y])
    BY <1>0, <1>3 DEF ExchangeArrives, server, Holding, HeldBy, Held, TypeOK, FreeExch,
       Known
  <2>4. \A y \in Exchanges : HeldBy(exch[y])'
    BY <1>0, <1>3, <2>3 DEF ExchangeArrives, server, HeldBy, Held, Known
  <2> QED BY <1>0, <1>3, <2>2, <2>4 DEF ExchangeArrives, server, Holding, Held, Known
<1>4. ASSUME NEW t \in Tabs, SignedOut(t) PROVE Holding'
  BY <1>0, <1>4 DEF SignedOut, NewPage, Clear, Store, server, Holding, HeldBy, Held,
     TypeOK, MaybePair, Exchange, Leave, IdleCall, FreeExch, Refusal, NotLeaving
<1>5. ASSUME NEW t \in Tabs, LogoutDeletes(t) PROVE Holding'
  <2>1. /\ leave[t].pair \in Pairs /\ Known(leave[t].pair)
        /\ Known(root[leave[t].pair]) /\ root[leave[t].pair] \in Pairs
    BY <1>0, <1>5, RootsIssued DEF LogoutDeletes, Base, Holding, Held, TypeOK, Leave,
       MaybePair
  <2>2. \A r \in ended' : Known(r)'
    BY <1>0, <1>5, <2>1 DEF LogoutDeletes, Holding, TypeOK
  <2>3. Held(stored)' /\ \A x \in Exchanges : HeldBy(exch[x])'
    BY <1>0, <1>5 DEF LogoutDeletes, Holding, HeldBy, Held, TypeOK, MaybePair, Exchange
  <2>4. \A u \in Tabs : Held(leave[u].pair)' /\ (leave[u].pc = "asked" => leave[u].pair # NoPair)'
    BY <1>0, <1>5 DEF LogoutDeletes, Holding, Held, TypeOK, MaybePair, Leave
  <2> QED BY <2>2, <2>3, <2>4 DEF Holding
<1>6. ASSUME NEW t \in Tabs, LogoutFinishes(t) PROVE Holding'
  BY <1>0, <1>6 DEF LogoutFinishes, Store, Overwrites, Expecting, server, Holding, HeldBy,
     Held, TypeOK, MaybePair, Exchange, Leave, IdleCall, FreeExch, Refusal, NotLeaving
<1>7. ASSUME NEW t \in Tabs, NEW p \in Pairs, Login(t, p) PROVE Holding'
  <2>1. Held(stored)'
    BY <1>0, <1>7 DEF Login, Issue, Store, Held, Known, TypeOK
  <2>2. /\ \A x \in Exchanges : HeldBy(exch[x])'
        /\ \A u \in Tabs : /\ Held(leave[u].pair)'
                            /\ (leave[u].pc = "asked" => leave[u].pair # NoPair)'
    BY <1>0, <1>7 DEF Login, Holding, HeldBy, Held, TypeOK, Exchange, Leave, MaybePair
  <2>3. \A r \in ended' : Known(r)'
    BY <1>0, <1>7 DEF Login, Holding, TypeOK
  <2> QED BY <2>1, <2>2, <2>3 DEF Holding
<1>8. ASSUME NEW t \in Tabs, Logout(t) PROVE Holding'
  BY <1>0, <1>8 DEF Logout, server, history, Holding, HeldBy, Held, TypeOK, MaybePair,
     Exchange, Leave, IdleCall, FreeExch, Refusal, NotLeaving
<1>9. ASSUME NEW t \in Tabs, Reload(t) PROVE Holding'
  BY <1>0, <1>9 DEF Reload, NewPage, Fault, server, Holding, HeldBy, Held, TypeOK,
     MaybePair, Exchange, Leave, IdleCall, FreeExch, Refusal, NotLeaving
<1>10. ASSUME NEW t \in Tabs, LogoutLost(t) PROVE Holding'
  BY <1>0, <1>10 DEF LogoutLost, Fault, server, history, Holding, HeldBy, Held, TypeOK,
     MaybePair, Exchange, Leave, IdleCall, FreeExch, Refusal, NotLeaving
<1>11. ASSUME NEW t \in Tabs, LoadFails(t) PROVE Holding'
  BY <1>0, <1>11 DEF LoadFails, SignOut, Clear, Store, Fault, server, Holding, HeldBy,
     Held, TypeOK, MaybePair, Exchange, Leave, IdleCall, FreeExch, Refusal, NotLeaving
<1>12. ASSUME NEW t \in Tabs, NEW p \in Pairs, LoginLost(t, p) PROVE Holding'
  BY <1>0, <1>12 DEF LoginLost, Issue, Fault, Holding, HeldBy, Held, TypeOK, MaybePair,
     Exchange, Leave, IdleCall, FreeExch, Refusal, NotLeaving
<1>13. ASSUME NEW c \in Calls, CallFails(c) PROVE Holding'
  BY <1>0, <1>13 DEF CallFails, Throws, SignOut, Clear, Store, Fault, server, Holding,
     HeldBy, Held, TypeOK, MaybePair, Exchange, Leave, IdleCall, FreeExch, Refusal,
     NotLeaving
<1>14. ASSUME NEW c \in Calls, SendRefused(c) PROVE Holding'
  BY <1>0, <1>14 DEF SendRefused, server, history, Holding, HeldBy, Held, TypeOK,
     MaybePair, Exchange, Leave, IdleCall, FreeExch, Refusal, NotLeaving
<1>15. ASSUME NEW c \in Calls, Resend(c) PROVE Holding'
  BY <1>0, <1>15 DEF Resend, server, history, Holding, HeldBy, Held, TypeOK, MaybePair,
     Exchange, Leave, IdleCall, FreeExch, Refusal, NotLeaving
<1>16. ASSUME NEW c \in Calls, Refused(c) PROVE Holding'
  BY <1>0, <1>16 DEF Refused, Throws, SignOut, Clear, Store, server, Holding, HeldBy,
     Held, TypeOK, MaybePair, Exchange, Leave, IdleCall, FreeExch, Refusal, NotLeaving
<1>17. ASSUME NEW c \in Calls, Unauthorized(c) PROVE Holding'
  BY <1>0, <1>17 DEF Unauthorized, SharedRefresh, StartExchange, server, Holding, HeldBy,
     Held, TypeOK, MaybePair, Exchange, Leave, IdleCall, FreeExch, Refusal, NotLeaving
<1>18. ASSUME NEW x \in Exchanges, LookUp(x) PROVE Holding'
  BY <1>0, <1>18 DEF LookUp, server, history, Holding, HeldBy, Held, TypeOK, MaybePair,
     Exchange, Leave, IdleCall, FreeExch, Refusal, NotLeaving
<1>19. ASSUME NEW x \in Exchanges, NEW p \in Pairs, Rotate(x, p) PROVE Holding'
  <2>1. Known(p)'
    BY <1>0, <1>19 DEF Rotate, Known, TypeOK
  <2>2. exch' = [exch EXCEPT ![x] = [exch[x] EXCEPT !.pc = "done", !.child = p]]
    BY <1>0, <1>19 DEF Rotate, TypeOK
  <2>3. exch'[x] = [exch[x] EXCEPT !.pc = "done", !.child = p] /\ p # NoPair
    BY <1>0, <2>2 DEF TypeOK, Pairs, NoPair
  <2>4. HeldBy(exch[x])'
    BY <1>0, <1>19, <2>1, <2>3 DEF Rotate, Holding, HeldBy, Held, TypeOK, Exchange,
       MaybePair
  <2>5. ASSUME NEW y \in Exchanges, y # x PROVE HeldBy(exch[y])'
    BY <1>0, <2>2, <2>5 DEF Holding, HeldBy, Held, TypeOK, Exchange, MaybePair
  <2>6. /\ Held(stored)' /\ \A r \in ended' : Known(r)'
        /\ \A u \in Tabs : /\ Held(leave[u].pair)'
                            /\ (leave[u].pc = "asked" => leave[u].pair # NoPair)'
    BY <1>0, <1>19 DEF Rotate, Holding, Held, TypeOK, Leave, MaybePair
  <2> QED BY <2>4, <2>5, <2>6 DEF Holding
<1>20. ASSUME NEW x \in Exchanges, RotateRefused(x) PROVE Holding'
  BY <1>0, <1>20 DEF RotateRefused, server, history, Holding, HeldBy, Held, TypeOK,
     MaybePair, Exchange, Leave, IdleCall, FreeExch, Refusal, NotLeaving
<1>21. ASSUME NEW x \in Exchanges, AnswerDropped(x) PROVE Holding'
  BY <1>0, <1>21 DEF AnswerDropped, server, Holding, HeldBy, Held, TypeOK, MaybePair,
     Exchange, Leave, IdleCall, FreeExch, Refusal, NotLeaving
<1>22. ASSUME NEW x \in Exchanges, ExchangeFails(x) PROVE Holding'
  BY <1>0, <1>22 DEF ExchangeFails, Fault, server, Holding, HeldBy, Held, TypeOK,
     MaybePair, Exchange, Leave, IdleCall, FreeExch, Refusal, NotLeaving
<1>23. ASSUME NEW p \in Pairs, ExpireRefresh(p) PROVE Holding'
  BY <1>0, <1>23 DEF ExpireRefresh, Fault, history, Holding, HeldBy, Held, TypeOK,
     MaybePair, Exchange, Leave, IdleCall, FreeExch, Refusal, NotLeaving
<1>24. CASE ExpireAccess
  BY <1>0, <1>24 DEF ExpireAccess, history, Holding, HeldBy, Held, TypeOK, MaybePair,
     Exchange, Leave, IdleCall, FreeExch, Refusal, NotLeaving
<1>25. CASE UNCHANGED vars
  BY <1>0, <1>25 DEF vars, Holding, HeldBy, Held, TypeOK, MaybePair, Exchange, Leave,
     IdleCall, FreeExch, Refusal, NotLeaving
<1> QED
  BY <1>1, <1>2, <1>3, <1>4, <1>5, <1>6, <1>7, <1>8, <1>9, <1>10, <1>11, <1>12,
     <1>13, <1>14, <1>15, <1>16, <1>17, <1>18, <1>19, <1>20, <1>21, <1>22, <1>23, <1>24, <1>25
  DEF Next, TabStep, User, CallStep, ServerStep, Faults

LEMMA BaseKept == ASSUME Base, [Next]_vars PROVE Base'
  BY TypesKept, NumberingKept, HoldingKept DEF Base

THEOREM BaseAlways == Spec => []Base
  BY Initially, BaseKept, PTL DEF Spec

\* Every variable keeps its type; a refresh that is being answered holds an
\* issued pair, which is what AuthService.refresh reads of the row it found.
THEOREM TypeCorrect == Spec => []TypeOK
<1>1. Base => TypeOK
  BY DEF Base
<1> QED BY <1>1, BaseAlways, PTL

(***************************************************************************)
(* A page that has sent the stored pair waits for the answer.              *)
(***************************************************************************)

Sharing == again = {} /\ \A t \in asked : pending[t] # NoExchange

LEMMA SharingKept ==
  ASSUME Base, Sharing, [Next]_vars
  PROVE  Sharing'
<1>0. TypeOK /\ Sharing
  BY DEF Base
<1>1. ASSUME NEW t \in Tabs, LoadNothing(t) PROVE Sharing'
  BY <1>0, <1>1 DEF LoadNothing, server, history, Sharing, TypeOK
<1>2. ASSUME NEW t \in Tabs, LoadUser(t) PROVE Sharing'
  BY <1>0, <1>2 DEF LoadUser, server, history, Sharing, TypeOK
<1>3. ASSUME NEW t \in Tabs, ExchangeArrives(t) PROVE Sharing'
  BY <1>0, <1>3 DEF ExchangeArrives, Store, Overwrites, Waiters, server, Sharing, TypeOK
<1>4. ASSUME NEW t \in Tabs, SignedOut(t) PROVE Sharing'
  BY <1>0, <1>4 DEF SignedOut, NewPage, Clear, Store, server, Sharing, TypeOK
<1>5. ASSUME NEW t \in Tabs, LogoutDeletes(t) PROVE Sharing'
  BY <1>0, <1>5 DEF LogoutDeletes, Sharing, TypeOK
<1>6. ASSUME NEW t \in Tabs, LogoutFinishes(t) PROVE Sharing'
  BY <1>0, <1>6 DEF LogoutFinishes, Store, Overwrites, Expecting, server, Sharing, TypeOK
<1>7. ASSUME NEW t \in Tabs, NEW p \in Pairs, Login(t, p) PROVE Sharing'
  BY <1>0, <1>7 DEF Login, Issue, Overwrites, Store, Sharing, TypeOK
<1>8. ASSUME NEW t \in Tabs, Logout(t) PROVE Sharing'
  BY <1>0, <1>8 DEF Logout, server, history, Sharing, TypeOK
<1>9. ASSUME NEW t \in Tabs, Reload(t) PROVE Sharing'
  BY <1>0, <1>9 DEF Reload, NewPage, Fault, server, Sharing, TypeOK
<1>10. ASSUME NEW t \in Tabs, LogoutLost(t) PROVE Sharing'
  BY <1>0, <1>10 DEF LogoutLost, Fault, server, history, Sharing, TypeOK
<1>11. ASSUME NEW t \in Tabs, LoadFails(t) PROVE Sharing'
  BY <1>0, <1>11 DEF LoadFails, SignOut, Clear, Store, Fault, server, Sharing, TypeOK
<1>12. ASSUME NEW t \in Tabs, NEW p \in Pairs, LoginLost(t, p) PROVE Sharing'
  BY <1>0, <1>12 DEF LoginLost, Issue, Fault, Sharing, TypeOK
<1>13. ASSUME NEW c \in Calls, CallFails(c) PROVE Sharing'
  BY <1>0, <1>13 DEF CallFails, Throws, SignOut, Clear, Store, Fault, server, Sharing,
     TypeOK
<1>14. ASSUME NEW c \in Calls, SendRefused(c) PROVE Sharing'
  BY <1>0, <1>14 DEF SendRefused, server, history, Sharing, TypeOK
<1>15. ASSUME NEW c \in Calls, Resend(c) PROVE Sharing'
  BY <1>0, <1>15 DEF Resend, server, history, Sharing, TypeOK
<1>16. ASSUME NEW c \in Calls, Refused(c) PROVE Sharing'
  BY <1>0, <1>16 DEF Refused, Throws, SignOut, Clear, Store, server, Sharing, TypeOK
<1>17. ASSUME NEW c \in Calls, Unauthorized(c) PROVE Sharing'
  <2>1. CASE UNCHANGED <<pending, asked, again>>
    BY <1>0, <2>1 DEF Sharing
  <2>2. ASSUME NEW x \in Exchanges, pending[TabOf[c]] = NoExchange, StartExchange(TabOf[c], x)
        PROVE  Sharing'
    <3>1. TabOf[c] \notin asked /\ TabOf[c] \in Tabs /\ x # NoExchange
      BY <1>0, <2>2, TabOfAssumption, EmptyAssumption DEF Sharing
    <3> QED BY <1>0, <2>2, <3>1 DEF StartExchange, Sharing, TypeOK
  <2> QED BY <1>17, <2>1, <2>2 DEF Unauthorized, SharedRefresh
<1>18. ASSUME NEW x \in Exchanges, LookUp(x) PROVE Sharing'
  BY <1>0, <1>18 DEF LookUp, server, history, Sharing, TypeOK
<1>19. ASSUME NEW x \in Exchanges, NEW p \in Pairs, Rotate(x, p) PROVE Sharing'
  BY <1>0, <1>19 DEF Rotate, Sharing, TypeOK
<1>20. ASSUME NEW x \in Exchanges, RotateRefused(x) PROVE Sharing'
  BY <1>0, <1>20 DEF RotateRefused, server, history, Sharing, TypeOK
<1>21. ASSUME NEW x \in Exchanges, AnswerDropped(x) PROVE Sharing'
  BY <1>0, <1>21 DEF AnswerDropped, server, Sharing, TypeOK
<1>22. ASSUME NEW x \in Exchanges, ExchangeFails(x) PROVE Sharing'
  BY <1>0, <1>22 DEF ExchangeFails, Fault, server, Sharing, TypeOK
<1>23. ASSUME NEW p \in Pairs, ExpireRefresh(p) PROVE Sharing'
  BY <1>0, <1>23 DEF ExpireRefresh, Fault, history, Sharing, TypeOK
<1>24. CASE ExpireAccess
  BY <1>0, <1>24 DEF ExpireAccess, history, Sharing, TypeOK
<1>25. CASE UNCHANGED vars
  BY <1>0, <1>25 DEF vars, Sharing
<1> QED
  BY <1>1, <1>2, <1>3, <1>4, <1>5, <1>6, <1>7, <1>8, <1>9, <1>10, <1>11, <1>12,
     <1>13, <1>14, <1>15, <1>16, <1>17, <1>18, <1>19, <1>20, <1>21, <1>22, <1>23, <1>24, <1>25
  DEF Next, TabStep, User, CallStep, ServerStep, Faults

\* One page never sends the same refresh token twice, because tryRefresh shares
\* refreshPromise and whatever ends the exchange also replaces the stored pair.
THEOREM ExchangesShared == Spec => []OneExchangePerPage
<1>1. Init => Sharing
  BY DEF Init, Sharing
<1>2. Base /\ Sharing /\ [Next]_vars => Sharing'
  BY SharingKept
<1>3. Sharing => OneExchangePerPage
  BY DEF Sharing, OneExchangePerPage
<1> QED BY <1>1, <1>2, <1>3, BaseAlways, PTL DEF Spec

(***************************************************************************)
(* After a log-out that nothing raced, no page waits for a pair either.    *)
(***************************************************************************)

Silent == quiet => stored = NoPair /\ \A t \in Tabs : pending[t] = NoExchange

LEMMA SilentKept ==
  ASSUME Base, Silent, [Next]_vars
  PROVE  Silent'
<1>0. TypeOK /\ Silent
  BY DEF Base
<1>1. ASSUME NEW t \in Tabs, LoadNothing(t) PROVE Silent'
  BY <1>0, <1>1 DEF LoadNothing, server, history, Silent, TypeOK
<1>2. ASSUME NEW t \in Tabs, LoadUser(t) PROVE Silent'
  BY <1>0, <1>2 DEF LoadUser, server, history, Silent, TypeOK
<1>3. ASSUME NEW t \in Tabs, ExchangeArrives(t) PROVE Silent'
  BY <1>0, <1>3 DEF ExchangeArrives, Store, Overwrites, Waiters, server, Silent, TypeOK
<1>4. ASSUME NEW t \in Tabs, SignedOut(t) PROVE Silent'
  BY <1>0, <1>4 DEF SignedOut, NewPage, Clear, Store, server, Silent, TypeOK
<1>5. ASSUME NEW t \in Tabs, LogoutDeletes(t) PROVE Silent'
  BY <1>0, <1>5 DEF LogoutDeletes, Silent, TypeOK
<1>6. ASSUME NEW t \in Tabs, LogoutFinishes(t) PROVE Silent'
  BY <1>0, <1>6 DEF LogoutFinishes, Store, Overwrites, Expecting, server, Silent, TypeOK
<1>7. ASSUME NEW t \in Tabs, NEW p \in Pairs, Login(t, p) PROVE Silent'
  BY <1>0, <1>7 DEF Login, Issue, Overwrites, Store, Silent, TypeOK
<1>8. ASSUME NEW t \in Tabs, Logout(t) PROVE Silent'
  BY <1>0, <1>8 DEF Logout, server, history, Silent, TypeOK
<1>9. ASSUME NEW t \in Tabs, Reload(t) PROVE Silent'
  BY <1>0, <1>9 DEF Reload, NewPage, Fault, server, Silent, TypeOK
<1>10. ASSUME NEW t \in Tabs, LogoutLost(t) PROVE Silent'
  BY <1>0, <1>10 DEF LogoutLost, Fault, server, history, Silent, TypeOK
<1>11. ASSUME NEW t \in Tabs, LoadFails(t) PROVE Silent'
  BY <1>0, <1>11 DEF LoadFails, SignOut, Clear, Store, Fault, server, Silent, TypeOK
<1>12. ASSUME NEW t \in Tabs, NEW p \in Pairs, LoginLost(t, p) PROVE Silent'
  BY <1>0, <1>12 DEF LoginLost, Issue, Fault, Silent, TypeOK
<1>13. ASSUME NEW c \in Calls, CallFails(c) PROVE Silent'
  BY <1>0, <1>13 DEF CallFails, Throws, SignOut, Clear, Store, Fault, server, Silent, TypeOK
<1>14. ASSUME NEW c \in Calls, SendRefused(c) PROVE Silent'
  BY <1>0, <1>14 DEF SendRefused, server, history, Silent, TypeOK
<1>15. ASSUME NEW c \in Calls, Resend(c) PROVE Silent'
  BY <1>0, <1>15 DEF Resend, server, history, Silent, TypeOK
<1>16. ASSUME NEW c \in Calls, Refused(c) PROVE Silent'
  BY <1>0, <1>16 DEF Refused, Throws, SignOut, Clear, Store, server, Silent, TypeOK
<1>17. ASSUME NEW c \in Calls, Unauthorized(c) PROVE Silent'
  <2>1. ~quiet /\ quiet' = quiet
    BY <1>0, <1>17 DEF Unauthorized, Silent
  <2> QED BY <2>1 DEF Silent
<1>18. ASSUME NEW x \in Exchanges, LookUp(x) PROVE Silent'
  BY <1>0, <1>18 DEF LookUp, server, history, Silent, TypeOK
<1>19. ASSUME NEW x \in Exchanges, NEW p \in Pairs, Rotate(x, p) PROVE Silent'
  BY <1>0, <1>19 DEF Rotate, Silent, TypeOK
<1>20. ASSUME NEW x \in Exchanges, RotateRefused(x) PROVE Silent'
  BY <1>0, <1>20 DEF RotateRefused, server, history, Silent, TypeOK
<1>21. ASSUME NEW x \in Exchanges, AnswerDropped(x) PROVE Silent'
  BY <1>0, <1>21 DEF AnswerDropped, server, Silent, TypeOK
<1>22. ASSUME NEW x \in Exchanges, ExchangeFails(x) PROVE Silent'
  BY <1>0, <1>22 DEF ExchangeFails, Fault, server, Silent, TypeOK
<1>23. ASSUME NEW p \in Pairs, ExpireRefresh(p) PROVE Silent'
  BY <1>0, <1>23 DEF ExpireRefresh, Fault, history, Silent, TypeOK
<1>24. CASE ExpireAccess
  BY <1>0, <1>24 DEF ExpireAccess, history, Silent, TypeOK
<1>25. CASE UNCHANGED vars
  BY <1>0, <1>25 DEF vars, Silent
<1> QED
  BY <1>1, <1>2, <1>3, <1>4, <1>5, <1>6, <1>7, <1>8, <1>9, <1>10, <1>11, <1>12,
     <1>13, <1>14, <1>15, <1>16, <1>17, <1>18, <1>19, <1>20, <1>21, <1>22, <1>23, <1>24, <1>25
  DEF Next, TabStep, User, CallStep, ServerStep, Faults

\* After a log-out that no refresh or log-in was racing, no answer is left that
\* could store a pair, so the browser holds none until the next log-in.
THEOREM LogoutHolds == Spec => []LogoutSticks
<1>1. Init => Silent
  BY DEF Init, Silent
<1>2. Base /\ Silent /\ [Next]_vars => Silent'
  BY SilentKept
<1>3. Silent => LogoutSticks
  BY DEF Silent, LogoutSticks
<1> QED BY <1>1, <1>2, <1>3, BaseAlways, PTL DEF Spec


(***************************************************************************)
(* The chain of one log-in.  Until its tokens are lost, overwritten or     *)
(* exchanged twice, its pairs replace one another one by one: only the     *)
(* newest is alive, and the browser holds it or is about to be given it.   *)
(***************************************************************************)

Kin(p, q) == Known(p) /\ Known(q) /\ root[p] = root[q] /\ root[p] \notin forked

Superseded == \A p, q \in Pairs : p < q /\ Kin(p, q) => row[p] \in {"revoked", "gone"}

Newest ==
  \A x \in Exchanges, q \in Pairs :
    exch[x].child # NoPair /\ Kin(exch[x].child, q) => q <= exch[x].child

Undelivered ==
  \A x, y \in Exchanges :
    exch[x].child # NoPair /\ root[exch[x].child] \notin forked
      => /\ stored # exch[x].child /\ exch[y].pair # exch[x].child
         /\ exch[y].child = exch[x].child => y = x

Succeeded ==
  \A q \in Pairs :
    stored # NoPair /\ stored < q /\ Kin(stored, q) => \E x \in Exchanges : exch[x].child = q

Dead(r) ==
  /\ \A p \in Pairs : Live(p) => root[p] # r
  /\ \A x \in Exchanges : exch[x].pc = "found" => root[exch[x].pair] # r

Silenced == \A r \in ended : r \notin forked => Dead(r)

Chain == Superseded /\ Newest /\ Undelivered /\ Succeeded /\ Silenced

\* Each exchange is what it was, or holds no new pair: the one it held is lost.
Settled(x) ==
  \/ exch'[x] = exch[x]
  \/ /\ exch'[x].child = NoPair
     /\ exch'[x].pair \in {NoPair, stored, exch[x].pair}
     /\ exch'[x].pc = "found" => exch'[x].pair \in Pairs /\ Live(exch'[x].pair)
     /\ exch[x].child # NoPair => root[exch[x].child] \in forked'

\* What the pairs in use are, in the shapes the next proofs need.
LEMMA InUse ==
  ASSUME Base
  PROVE  /\ stored # NoPair => stored \in Pairs /\ Known(stored)
         /\ \A x \in Exchanges :
              /\ exch[x].child # NoPair => exch[x].child \in Pairs /\ Known(exch[x].child)
              /\ exch[x].pair # NoPair => exch[x].pair \in Pairs /\ Known(exch[x].pair)
              /\ exch[x].pc = "done" <=> exch[x].child # NoPair
              /\ exch[x].pc \in {"asked", "found", "done"} => exch[x].pair # NoPair
         /\ \A r \in ended : r \in Pairs /\ Known(r)
  BY DEF Base, TypeOK, Holding, HeldBy, Held, Exchange, MaybePair

\* Most steps write no row of refresh_tokens and store no pair.
LEMMA ChainFramed ==
  ASSUME Base, Chain, row' = row, root' = root, ended' = ended, forked \subseteq forked',
         stored' \in {stored, NoPair}, \A x \in Exchanges : Settled(x)
  PROVE  Chain'
<1>1. /\ \A p, q \in Pairs : Kin(p, q)' => Kin(p, q)
      /\ \A p \in Pairs : Live(p)' <=> Live(p)
  BY DEF Kin, Known, Live
<1>2. \A x \in Exchanges :
        /\ exch'[x].child # NoPair => exch'[x].child = exch[x].child
        /\ exch'[x].pair \in {NoPair, stored, exch[x].pair}
  BY DEF Settled
<1>3. Superseded'
  BY <1>1 DEF Chain, Superseded
<1>4. Newest'
  <2> SUFFICES ASSUME NEW x \in Exchanges, NEW q \in Pairs,
                      exch'[x].child # NoPair, Kin(exch[x].child, q)'
               PROVE  q <= exch'[x].child
    BY DEF Newest, Kin, Known
  <2> QED BY <1>1, <1>2, InUse DEF Chain, Newest
<1>5. Undelivered'
  <2> SUFFICES ASSUME NEW x \in Exchanges, NEW y \in Exchanges,
                      exch'[x].child # NoPair, root[exch'[x].child] \notin forked'
               PROVE  /\ stored' # exch'[x].child /\ exch'[y].pair # exch'[x].child
                      /\ exch'[y].child = exch'[x].child => y = x
    BY DEF Undelivered
  <2> QED BY <1>2 DEF Chain, Undelivered
<1>6. Succeeded'
  <2> SUFFICES ASSUME NEW q \in Pairs, stored' # NoPair, stored' < q, Kin(stored, q)'
               PROVE  \E x \in Exchanges : exch'[x].child = q
    BY DEF Succeeded, Kin, Known
  <2>1. stored' = stored /\ Kin(stored, q)
    BY <1>1, InUse
  <2>2. PICK x \in Exchanges : exch[x].child = q
    BY <2>1 DEF Chain, Succeeded
  <2>3. root[q] \notin forked'
    BY DEF Kin
  <2> QED BY <2>2, <2>3 DEF Settled, Pairs, NoPair
<1>7. Silenced'
  <2> SUFFICES ASSUME NEW r \in ended, r \notin forked
               PROVE  Dead(r)'
    BY DEF Silenced
  <2>1. Dead(r)
    BY DEF Chain, Silenced
  <2>2. \A p \in Pairs : Live(p)' => root'[p] # r
    BY <1>1, <2>1 DEF Dead
  <2>3. ASSUME NEW x \in Exchanges, exch'[x].pc = "found" PROVE root'[exch'[x].pair] # r
    BY <2>1, <2>3 DEF Settled, Dead
  <2> QED BY <2>2, <2>3 DEF Dead
<1> QED BY <1>3, <1>4, <1>5, <1>6, <1>7 DEF Chain

\* A log-in starts a chain of its own.
LEMMA ChainStarted ==
  ASSUME Base, Chain, NEW p \in Pairs, Issue(p, p), exch' = exch, ended' = ended,
         forked \subseteq forked', stored' \in {stored, p}
  PROVE  Chain'
<1>1. /\ ~Known(p) /\ \A q \in Pairs : Known(q) => q < p
      /\ \A q \in Pairs \ {p} : row'[q] = row[q] /\ root'[q] = root[q]
      /\ root'[p] = p
  <2>1. p \in 1..p /\ TypeOK /\ Numbering
    BY DEF Base, Pairs
  <2>2. row'[p] # "none" /\ \A q \in Pairs \ {p} : Known(q)' <=> Known(q)
    BY <2>1 DEF Issue, Known, TypeOK
  <2>3. ~Known(p) /\ \A q \in Pairs : Known(q) => q < p
    BY <2>1, <2>2, OneIssued DEF Issue, TypeOK
  <2> QED BY <2>1, <2>3 DEF Issue, TypeOK
<1>2. \A q \in Pairs : Known(q) => q # p /\ root[q] # p
  <2> SUFFICES ASSUME NEW q \in Pairs, Known(q) PROVE root[q] # p
    BY <1>1
  <2> QED BY <1>1, RootsIssued DEF Pairs
<1>3. \A q, s \in Pairs : Kin(q, s)' /\ q # s => Kin(q, s) /\ q # p /\ s # p
  BY <1>1, <1>2 DEF Kin, Known
<1>4. Superseded'
  BY <1>1, <1>3 DEF Chain, Superseded, Pairs
<1>5. Newest'
  <2> SUFFICES ASSUME NEW x \in Exchanges, NEW q \in Pairs,
                      exch[x].child # NoPair, Kin(exch[x].child, q)'
               PROVE  q <= exch[x].child
    BY DEF Newest, Kin, Known
  <2> QED BY <1>3, InUse DEF Chain, Newest, Pairs
<1>6. Undelivered'
  BY <1>1, <1>2, InUse DEF Chain, Undelivered
<1>7. Succeeded'
  <2> SUFFICES ASSUME NEW q \in Pairs, stored' # NoPair, stored' < q, Kin(stored, q)'
               PROVE  \E x \in Exchanges : exch[x].child = q
    BY DEF Succeeded, Kin, Known
  <2>1. stored' \in Pairs
    BY InUse
  <2>2. Kin(stored', q) /\ stored' # p
    BY <1>3, <2>1 DEF Pairs
  <2> QED BY <2>2 DEF Chain, Succeeded
<1>8. Silenced'
  <2> SUFFICES ASSUME NEW r \in ended, r \notin forked
               PROVE  Dead(r)'
    BY DEF Silenced
  <2>1. Dead(r) /\ r # p
    BY <1>2, InUse DEF Chain, Silenced
  <2>2. \A q \in Pairs : Live(q)' => root'[q] # r
    BY <1>1, <2>1 DEF Dead, Live
  <2>3. \A x \in Exchanges : exch[x].pc = "found" => root'[exch[x].pair] # r
    BY <1>1, <1>2, <2>1, InUse DEF Dead
  <2> QED BY <2>2, <2>3 DEF Dead
<1> QED BY <1>4, <1>5, <1>6, <1>7, <1>8 DEF Chain

\* An exchange replaces the newest pair, or forks the chain.
LEMMA ChainExtended ==
  ASSUME Base, Chain, NEW x \in Exchanges, NEW p \in Pairs, Rotate(x, p)
  PROVE  Chain'
<1> DEFINE old == exch[x].pair
<1>0. /\ exch[x].pc = "found" /\ row[old] # "gone"
      /\ old \in Pairs /\ Known(old) /\ exch[x].child = NoPair
  BY InUse DEF Rotate
<1>1. /\ ~Known(p) /\ \A q \in Pairs : Known(q) => q < p
      /\ \A q \in Pairs \ {p} : /\ root'[q] = root[q]
                             /\ row'[q] = IF q = old THEN "revoked" ELSE row[q]
      /\ root'[p] = root[old] /\ row'[p] = "live"
      /\ \A q \in Pairs : Known(q)' => q <= p
  <2>1. TypeOK /\ Numbering /\ p = Issued + 1
    BY DEF Base, Rotate
  <2>2. row'[p] # "none" /\ \A q \in Pairs \ {p} : Known(q)' <=> Known(q)
    BY <2>1, <1>0 DEF Rotate, Known, TypeOK
  <2>3. root[old] \in 1..p
    BY <2>1, <1>0, IssuedType DEF Numbering, Pairs
  <2>4. ~Known(p) /\ \A q \in Pairs : Known(q) => q < p
    BY <2>1, <2>2, <2>3, OneIssued DEF Rotate, TypeOK
  <2>5. \A q \in Pairs : Known(q)' => q <= p
    BY <2>2, <2>4 DEF Pairs
  <2> QED BY <2>1, <2>4, <2>5 DEF Rotate, TypeOK
<1>2. /\ exch'[x].child = p /\ exch'[x].pc = "done" /\ exch'[x].pair = old
      /\ \A y \in Exchanges \ {x} : exch'[y] = exch[y]
  <2>1. exch' = [exch EXCEPT ![x] = [exch[x] EXCEPT !.pc = "done", !.child = p]]
    BY DEF Rotate, Base, TypeOK
  <2> QED BY <2>1 DEF Base, TypeOK, Exchange
<1>3. /\ forked \subseteq forked' /\ stored' = stored /\ ended' = ended
      /\ row[old] = "revoked" => root[old] \in forked'
  BY DEF Rotate
<1>4. /\ \A q, s \in Pairs \ {p} : Kin(q, s)' => Kin(q, s)
      /\ \A q \in Pairs \ {p} :
           Kin(q, p)' \/ Kin(p, q)' => q = old \/ (Kin(q, old) /\ Kin(old, q) /\ q < old)
  <2>1. \A q, s \in Pairs \ {p} : Kin(q, s)' => Kin(q, s)
    BY <1>0, <1>1, <1>3 DEF Kin, Known
  <2>2. ASSUME NEW q \in Pairs \ {p}, Kin(q, p)' \/ Kin(p, q)', q # old
        PROVE  Kin(q, old) /\ Kin(old, q) /\ q < old
    <3>1. Kin(q, old) /\ Kin(old, q) /\ row[old] # "revoked"
      BY <1>0, <1>1, <1>3, <2>2 DEF Kin, Known
    <3>2. ~(old < q)
      BY <1>0, <3>1 DEF Chain, Superseded
    <3> QED BY <1>0, <2>2, <3>1, <3>2 DEF Pairs
  <2> QED BY <2>1, <2>2
<1>5. Superseded'
  <2> SUFFICES ASSUME NEW q \in Pairs, NEW s \in Pairs, q < s, Kin(q, s)'
               PROVE  row'[q] \in {"revoked", "gone"}
    BY DEF Superseded
  <2>1. q # p
    BY <1>1 DEF Kin, Pairs
  <2>2. CASE q = old
    BY <1>1, <2>1, <2>2
  <2>3. CASE q # old
    <3>1. \E u \in Pairs : q < u /\ Kin(q, u)
      BY <1>0, <1>4, <2>1, <2>3
    <3> QED BY <1>1, <2>1, <2>3, <3>1 DEF Chain, Superseded
  <2> QED BY <2>2, <2>3
<1>6. Newest'
  <2> SUFFICES ASSUME NEW y \in Exchanges, NEW q \in Pairs,
                      exch'[y].child # NoPair, Kin(exch[y].child, q)'
               PROVE  q <= exch'[y].child
    BY DEF Newest, Kin, Known
  <2>1. CASE y = x
    BY <1>1, <1>2, <2>1 DEF Kin
  <2>2. CASE y # x
    <3> DEFINE c == exch[y].child
    <3>1. exch'[y].child = c /\ c \in Pairs /\ Known(c) /\ c # p
      BY <1>1, <1>2, <2>2, InUse
    <3>2. CASE q # p
      BY <1>4, <3>1, <3>2 DEF Chain, Newest
    <3>3. CASE q = p
      <4>1. root[c] \notin forked /\ c # old
        BY <1>1, <1>3, <3>1 DEF Kin, Chain, Undelivered
      <4>2. Kin(c, old) /\ c < old
        BY <1>4, <3>1, <3>3, <4>1
      <4> QED BY <1>0, <3>1, <4>2 DEF Chain, Newest, Pairs
    <3> QED BY <3>2, <3>3
  <2> QED BY <2>1, <2>2
<1>7. Undelivered'
  <2> SUFFICES ASSUME NEW y \in Exchanges, NEW z \in Exchanges,
                      exch'[y].child # NoPair, root'[exch'[y].child] \notin forked'
               PROVE  /\ stored' # exch'[y].child /\ exch'[z].pair # exch'[y].child
                      /\ exch'[z].child = exch'[y].child => z = y
    BY DEF Undelivered
  <2>1. \A u \in Exchanges : /\ exch'[u].pair = exch[u].pair
                             /\ (u # x => exch'[u].child = exch[u].child)
    BY <1>2
  <2>2. stored # p /\ \A u \in Exchanges : exch[u].pair # p /\ exch[u].child # p
    BY <1>1, InUse DEF Pairs, NoPair
  <2>3. CASE y = x
    BY <1>2, <1>3, <2>1, <2>2, <2>3
  <2>4. CASE y # x
    <3>1. /\ exch'[y].child = exch[y].child /\ root'[exch[y].child] = root[exch[y].child]
          /\ exch[y].child # NoPair
      BY <1>1, <2>1, <2>2, <2>4, InUse
    <3> QED BY <1>2, <1>3, <2>1, <2>2, <2>4, <3>1 DEF Chain, Undelivered
  <2> QED BY <2>3, <2>4
<1>8. Succeeded'
  <2> SUFFICES ASSUME NEW q \in Pairs, stored # NoPair, stored < q, Kin(stored, q)'
               PROVE  \E y \in Exchanges : exch'[y].child = q
    BY <1>3 DEF Succeeded, Kin, Known
  <2>1. CASE q = p
    BY <1>2, <2>1
  <2>2. CASE q # p
    <3>1. stored \in Pairs /\ stored # p
      BY <1>1, InUse
    <3>2. Kin(stored, q)
      BY <1>3, <1>4, <2>2, <3>1 DEF Kin, Known
    <3>3. PICK y \in Exchanges : exch[y].child = q
      BY <3>1, <3>2 DEF Chain, Succeeded
    <3> QED BY <1>0, <1>2, <3>3 DEF Pairs, NoPair
  <2> QED BY <2>1, <2>2
<1>9. Silenced'
  <2> SUFFICES ASSUME NEW r \in ended, r \notin forked
               PROVE  Dead(r)'
    BY <1>3 DEF Silenced
  <2>1. Dead(r)
    BY DEF Chain, Silenced
  <2>2. root[old] # r
    BY <1>0, <2>1 DEF Dead
  <2>3. \A q \in Pairs : Live(q)' => root'[q] # r
    BY <1>1, <2>1, <2>2 DEF Dead, Live
  <2>4. ASSUME NEW y \in Exchanges, exch'[y].pc = "found" PROVE root'[exch'[y].pair] # r
    BY <1>1, <1>2, <2>1, <2>4, InUse DEF Dead
  <2> QED BY <2>3, <2>4 DEF Dead
<1> QED BY <1>5, <1>6, <1>7, <1>8, <1>9 DEF Chain

\* The answer arrives: its pair is the newest of its chain.
LEMMA ChainDelivered ==
  ASSUME Base, Chain, NEW t \in Tabs, ExchangeArrives(t)
  PROVE  Chain'
<1> DEFINE x == pending[t]
           c == exch[x].child
<1>1. /\ x \in Exchanges /\ c \in Pairs /\ Known(c) /\ stored' = c
      /\ exch'[x] = FreeExch /\ \A y \in Exchanges \ {x} : exch'[y] = exch[y]
  BY InUse DEF ExchangeArrives, Store, Base, TypeOK
<1>2. row' = row /\ root' = root /\ ended' = ended /\ forked \subseteq forked'
  BY DEF ExchangeArrives, server
<1>3. /\ \A p, q \in Pairs : Kin(p, q)' => Kin(p, q)
      /\ \A p \in Pairs : Live(p)' <=> Live(p)
  BY <1>2 DEF Kin, Known, Live
<1>4. Superseded'
  BY <1>2, <1>3 DEF Chain, Superseded
<1>5. Newest'
  <2> SUFFICES ASSUME NEW y \in Exchanges, NEW q \in Pairs,
                      exch'[y].child # NoPair, Kin(exch[y].child, q)'
               PROVE  q <= exch'[y].child
    BY DEF Newest, Kin, Known
  <2> QED BY <1>1, <1>3, InUse DEF Chain, Newest, FreeExch
<1>6. Undelivered'
  BY <1>1, <1>2 DEF Chain, Undelivered, FreeExch
<1>7. Succeeded'
  <2> SUFFICES ASSUME NEW q \in Pairs, c < q, Kin(stored, q)'
               PROVE  FALSE
    BY <1>1 DEF Succeeded
  <2>1. q <= c
    BY <1>1, <1>3 DEF Chain, Newest, Pairs, NoPair
  <2> QED BY <1>1, <2>1 DEF Pairs
<1>8. Silenced'
  <2> SUFFICES ASSUME NEW r \in ended, r \notin forked
               PROVE  Dead(r)'
    BY <1>2 DEF Silenced
  <2> QED BY <1>1, <1>2, <1>3 DEF Chain, Silenced, Dead, FreeExch
<1> QED BY <1>4, <1>5, <1>6, <1>7, <1>8 DEF Chain

\* A row that is deleted or expires leaves the others as they are.
LEMMA ChainCut ==
  ASSUME Base, Chain, NEW p \in Pairs, Known(p), NEW s \in {"gone", "expired"},
         row' = [row EXCEPT ![p] = s], s = "gone" \/ Live(p),
         UNCHANGED <<root, stored, exch, forked>>
  PROVE  (Superseded /\ Newest /\ Undelivered /\ Succeeded)'
         /\ \A r \in ended : r \notin forked => Dead(r)'
<1>1. /\ \A q \in Pairs \ {p} : row'[q] = row[q]
      /\ row'[p] = s
      /\ \A q \in Pairs : Known(q)' <=> Known(q)
  BY DEF Base, TypeOK, Known
<1>2. \A q, u \in Pairs : Kin(q, u)' <=> Kin(q, u)
  BY <1>1 DEF Kin
<1>3. Superseded'
  <2> SUFFICES ASSUME NEW q \in Pairs, NEW u \in Pairs, q < u, Kin(q, u)
               PROVE  row'[q] \in {"revoked", "gone"}
    BY <1>2 DEF Superseded
  <2>1. row[q] \in {"revoked", "gone"}
    BY DEF Chain, Superseded
  <2> QED BY <1>1, <2>1 DEF Live
<1>4. Newest'
  <2> SUFFICES ASSUME NEW x \in Exchanges, NEW q \in Pairs,
                      exch[x].child # NoPair, Kin(exch[x].child, q)'
               PROVE  q <= exch[x].child
    BY DEF Newest, Kin, Known
  <2> QED BY <1>2, InUse DEF Chain, Newest
<1>5. Undelivered'
  BY DEF Chain, Undelivered
<1>6. Succeeded'
  <2> SUFFICES ASSUME NEW q \in Pairs, stored # NoPair, stored < q, Kin(stored, q)'
               PROVE  \E x \in Exchanges : exch[x].child = q
    BY DEF Succeeded, Kin, Known
  <2> QED BY <1>2, InUse DEF Chain, Succeeded
<1>7. \A r \in ended : r \notin forked => Dead(r)'
  BY <1>1 DEF Chain, Silenced, Dead, Live
<1> QED BY <1>3, <1>4, <1>5, <1>6, <1>7

\* When nothing is being exchanged and the browser holds the pair that is
\* deleted, nothing of its chain is left.
LEMMA ChainEnded ==
  ASSUME Base, Chain, NEW t \in Tabs, LogoutDeletes(t)
  PROVE  Chain'
<1> DEFINE p == leave[t].pair
<1>1. p \in Pairs /\ Known(p)
  BY DEF Base, TypeOK, Leave, MaybePair, Holding, Held, LogoutDeletes
<1>2. /\ (Superseded /\ Newest /\ Undelivered /\ Succeeded)'
      /\ \A r \in ended : r \notin forked => Dead(r)'
  <2>1. row' = [row EXCEPT ![p] = "gone"] /\ UNCHANGED <<root, stored, exch, forked>>
    BY DEF LogoutDeletes
  <2> QED BY <1>1, <2>1, ChainCut
<1>3. ASSUME NEW r, r = root[p], ~Exchanging, stored = p, r \notin forked
      PROVE  Dead(r)'
  <2>1. ASSUME NEW q \in Pairs, Live(q)', root'[q] = r PROVE FALSE
    <3>1. q # p /\ Live(q) /\ Known(q) /\ root[q] = r
      BY <1>1, <1>3, <2>1 DEF LogoutDeletes, Live, Known, Base, TypeOK
    <3>2. Kin(p, q) /\ Kin(q, p)
      BY <1>1, <1>3, <3>1 DEF Kin
    <3>3. CASE q < p
      BY <1>1, <3>1, <3>2, <3>3 DEF Chain, Superseded, Live
    <3>4. CASE p < q
      <4>1. PICK x \in Exchanges : exch[x].child = q
        BY <1>1, <1>3, <3>2, <3>4 DEF Chain, Succeeded, Pairs, NoPair
      <4>2. exch[x].pc = "done"
        BY <4>1, InUse DEF Pairs, NoPair
      <4> QED BY <1>3, <4>2 DEF Exchanging
    <3> QED BY <1>1, <3>1, <3>3, <3>4 DEF Pairs
  <2>2. \A x \in Exchanges : exch'[x].pc # "found"
    BY <1>3 DEF LogoutDeletes, Exchanging
  <2> QED BY <2>1, <2>2 DEF Dead
<1>4. Silenced'
  <2> SUFFICES ASSUME NEW r \in ended', r \notin forked
               PROVE  Dead(r)'
    BY DEF Silenced, LogoutDeletes
  <2>1. r \in ended \/ (~Exchanging /\ stored = p /\ r = root[p])
    BY DEF LogoutDeletes
  <2> QED BY <1>2, <1>3, <2>1
<1> QED BY <1>2, <1>4 DEF Chain

LEMMA ChainKept ==
  ASSUME Base, Chain, [Next]_vars
  PROVE  Chain'
<1> DEFINE Framed == /\ row' = row /\ root' = root /\ ended' = ended
                     /\ forked \subseteq forked' /\ stored' \in {stored, NoPair}
                     /\ \A x \in Exchanges : Settled(x)
<1>0. /\ Framed => Chain'
      /\ TypeOK
      /\ \A x \in Exchanges : /\ exch[x].pc = "done" <=> exch[x].child # NoPair
                              /\ exch[x].pc = "asked" => exch[x].pair \in Pairs
      /\ stored # NoPair => stored \in Pairs
  BY ChainFramed, InUse DEF Base
<1> HIDE DEF Framed
<1>1. ASSUME NEW t \in Tabs, LoadNothing(t) PROVE Chain'
  BY <1>0, <1>1 DEF Framed, LoadNothing, server, history, Settled, RootOf, FreeExch,
     Refusal, TypeOK
<1>2. ASSUME NEW t \in Tabs, LoadUser(t) PROVE Chain'
  BY <1>0, <1>2 DEF Framed, LoadUser, server, history, Settled, RootOf, FreeExch, Refusal,
     TypeOK
<1>3. ASSUME NEW t \in Tabs, ExchangeArrives(t) PROVE Chain'
  BY <1>3, ChainDelivered
<1>4. ASSUME NEW t \in Tabs, SignedOut(t) PROVE Chain'
  BY <1>0, <1>4 DEF Framed, SignedOut, NewPage, Clear, Store, server, Settled, RootOf,
     FreeExch, Refusal, TypeOK
<1>5. ASSUME NEW t \in Tabs, LogoutDeletes(t) PROVE Chain'
  BY <1>5, ChainEnded
<1>6. ASSUME NEW t \in Tabs, LogoutFinishes(t) PROVE Chain'
  BY <1>0, <1>6 DEF Framed, LogoutFinishes, Store, Overwrites, Expecting, server, Settled,
     RootOf, FreeExch, Refusal, TypeOK
<1>7. ASSUME NEW t \in Tabs, NEW p \in Pairs, Login(t, p) PROVE Chain'
  <2>1. Issue(p, p) /\ exch' = exch /\ ended' = ended /\ forked \subseteq forked' /\ stored' = p
    BY <1>7 DEF Login, Store
  <2> QED BY <2>1, ChainStarted
<1>8. ASSUME NEW t \in Tabs, Logout(t) PROVE Chain'
  BY <1>0, <1>8 DEF Framed, Logout, server, history, Settled, RootOf, FreeExch, Refusal,
     TypeOK
<1>9. ASSUME NEW t \in Tabs, Reload(t) PROVE Chain'
  BY <1>0, <1>9 DEF Framed, Reload, NewPage, Fault, server, Settled, RootOf, FreeExch,
     Refusal, TypeOK
<1>10. ASSUME NEW t \in Tabs, LogoutLost(t) PROVE Chain'
  BY <1>0, <1>10 DEF Framed, LogoutLost, Fault, server, history, Settled, RootOf,
     FreeExch, Refusal, TypeOK
<1>11. ASSUME NEW t \in Tabs, LoadFails(t) PROVE Chain'
  BY <1>0, <1>11 DEF Framed, LoadFails, SignOut, Clear, Store, Fault, server, Settled,
     RootOf, FreeExch, Refusal, TypeOK
<1>12. ASSUME NEW t \in Tabs, NEW p \in Pairs, LoginLost(t, p) PROVE Chain'
  <2>1. /\ Issue(p, p) /\ exch' = exch /\ ended' = ended
        /\ forked \subseteq forked' /\ stored' = stored
    BY <1>12 DEF LoginLost
  <2> QED BY <2>1, ChainStarted
<1>13. ASSUME NEW c \in Calls, CallFails(c) PROVE Chain'
  BY <1>0, <1>13 DEF Framed, CallFails, Throws, SignOut, Clear, Store, Fault, server,
     Settled, RootOf, FreeExch, Refusal, TypeOK
<1>14. ASSUME NEW c \in Calls, SendRefused(c) PROVE Chain'
  BY <1>0, <1>14 DEF Framed, SendRefused, server, history, Settled, RootOf, FreeExch,
     Refusal, TypeOK
<1>15. ASSUME NEW c \in Calls, Resend(c) PROVE Chain'
  BY <1>0, <1>15 DEF Framed, Resend, server, history, Settled, RootOf, FreeExch, Refusal,
     TypeOK
<1>16. ASSUME NEW c \in Calls, Refused(c) PROVE Chain'
  BY <1>0, <1>16 DEF Framed, Refused, Throws, SignOut, Clear, Store, server, Settled,
     RootOf, FreeExch, Refusal, TypeOK
<1>17. ASSUME NEW c \in Calls, Unauthorized(c) PROVE Chain'
  BY <1>0, <1>17 DEF Framed, Unauthorized, SharedRefresh, StartExchange, server, Settled,
     RootOf, FreeExch, Refusal, TypeOK
<1>18. ASSUME NEW x \in Exchanges, LookUp(x) PROVE Chain'
  BY <1>0, <1>18 DEF Framed, LookUp, server, history, Settled, RootOf, FreeExch, Refusal,
     TypeOK
<1>19. ASSUME NEW x \in Exchanges, NEW p \in Pairs, Rotate(x, p) PROVE Chain'
  BY <1>19, ChainExtended
<1>20. ASSUME NEW x \in Exchanges, RotateRefused(x) PROVE Chain'
  BY <1>0, <1>20 DEF Framed, RotateRefused, server, history, Settled, RootOf, FreeExch,
     Refusal, TypeOK
<1>21. ASSUME NEW x \in Exchanges, AnswerDropped(x) PROVE Chain'
  BY <1>0, <1>21 DEF Framed, AnswerDropped, server, Settled, RootOf, FreeExch, Refusal,
     TypeOK
<1>22. ASSUME NEW x \in Exchanges, ExchangeFails(x) PROVE Chain'
  BY <1>0, <1>22 DEF Framed, ExchangeFails, Fault, server, Settled, RootOf, FreeExch,
     Refusal, TypeOK
<1>23. ASSUME NEW p \in Pairs, ExpireRefresh(p) PROVE Chain'
  <2>1. /\ Live(p) /\ Known(p) /\ row' = [row EXCEPT ![p] = "expired"]
        /\ UNCHANGED <<root, stored, exch, forked, ended>>
    BY <1>23 DEF ExpireRefresh, Live, Known, history
  <2>2. /\ (Superseded /\ Newest /\ Undelivered /\ Succeeded)'
        /\ \A r \in ended : r \notin forked => Dead(r)'
    BY <2>1, ChainCut
  <2>3. Silenced'
    BY <2>1, <2>2 DEF Silenced
  <2> QED BY <2>2, <2>3 DEF Chain
<1>24. CASE ExpireAccess
  BY <1>0, <1>24 DEF Framed, ExpireAccess, history, Settled, RootOf, FreeExch, Refusal,
     TypeOK
<1>25. CASE UNCHANGED vars
  BY <1>0, <1>25 DEF vars, Framed, Settled
<1> QED
  BY <1>1, <1>2, <1>3, <1>4, <1>5, <1>6, <1>7, <1>8, <1>9, <1>10, <1>11, <1>12,
     <1>13, <1>14, <1>15, <1>16, <1>17, <1>18, <1>19, <1>20, <1>21, <1>22, <1>23, <1>24, <1>25
  DEF Next, TabStep, User, CallStep, ServerStep, Faults

\* A log-out leaves no refresh token of its session alive, because an unforked
\* session has one live token, the one the browser holds and sends: Rotate
\* revokes what it replaces.
THEOREM SessionsEnd == Spec => []LogoutEndsTheSession
<1>1. Init => Chain
  BY DEF Init, Chain, Superseded, Newest, Undelivered, Succeeded, Silenced, Kin, Known,
     FreeExch
<1>2. Base /\ Chain /\ [Next]_vars => Chain'
  BY ChainKept
<1>3. Chain => LogoutEndsTheSession
  BY DEF Chain, Silenced, Dead, LogoutEndsTheSession
<1> QED BY <1>1, <1>2, <1>3, BaseAlways, PTL DEF Spec

===============================================================================
