------------------------------- MODULE Sessions -------------------------------
(***************************************************************************)
(* Signing in and staying signed in: the refresh_tokens rows, the routes   *)
(* /auth/login, /auth/refresh and /auth/logout with AuthService behind     *)
(* them, and the browser tabs that share one pair of tokens in             *)
(* localStorage while each keeps its own pending refresh (lib/api.ts,      *)
(* lib/auth.tsx).                                                          *)
(*                                                                         *)
(* A pair is an access token and the refresh token issued with it.  The    *)
(* access token is a JWT: only its age and the user's row decide whether   *)
(* it is accepted.  The refresh token is a row, looked up, revoked and     *)
(* replaced with awaits between.                                           *)
(***************************************************************************)
EXTENDS Naturals, FiniteSets

CONSTANTS
  Tabs,        \* browser tabs of one browser
  PairBound,   \* bound: token pairs issued
  UserTabs,    \* tabs in which the user logs in and out (a bound)
  Calls,       \* API requests under way at once (a bound)
  TabOf,       \* TabOf[c]: the tab whose page makes request c
  Exchanges,   \* refresh requests under way at once (a bound)
  NoExchange,
  FaultBound   \* bound: requests lost, pages reloaded, refresh tokens expired

ASSUME EmptyAssumption == NoExchange \notin Exchanges
ASSUME TabOfAssumption == TabOf \in [Calls -> Tabs]
ASSUME BoundsAssumption == PairBound \in Nat /\ FaultBound \in Nat

VARIABLES
  row,     \* row[p]: the refresh_tokens row of p
  root,    \* history: root[p], the pair issued by the log-in that p descends from
  oldest,  \* the access tokens of the pairs up to this one have expired
  stored,  \* the pair in localStorage
  view,    \* view[t]: the AuthProvider of t is loading, or has a user, or none
  pending, \* pending[t]: refreshPromise, the exchange t waits for
  call,    \* call[c]: an API request, /users/me or a page's own
  exch,    \* exch[x]: a refresh, at the server or on its way back
  leave,   \* leave[t]: the log-out of t
  asked,   \* history: tabs whose page has sent the stored pair to /auth/refresh
  again,   \* history: tabs whose page sent a stored pair twice
  quiet,   \* history: nothing was being exchanged or logged in at the last log-out
  ended,   \* history: log-ins that were logged out while nothing was exchanged
  forked,  \* history: log-ins whose tokens were lost, overwritten or exchanged twice
  faults   \* the faults there have been

server  == <<row, root, oldest>>
history == <<asked, again, quiet, ended, forked>>
vars    == <<row, root, oldest, stored, view, pending, call, exch, leave,
             asked, again, quiet, ended, forked, faults>>

Pairs  == 1..PairBound
NoPair == 0

MaybePair == Pairs \cup {NoPair}

Call     == [pc : {"idle", "refused", "waiting", "again", "final"}, me : BOOLEAN]
Exchange == [pc : {"free", "asked", "found", "refused", "done"},
             pair : MaybePair, child : MaybePair]
Leave    == [pc : {"no", "asked", "told"}, pair : MaybePair]

IdleCall  == [pc |-> "idle", me |-> FALSE]
FreeExch  == [pc |-> "free", pair |-> NoPair, child |-> NoPair]
Refusal   == [FreeExch EXCEPT !.pc = "refused"]
NotLeaving == [pc |-> "no", pair |-> NoPair]

Live(p)   == row[p] = "live"
Issued    == Cardinality({p \in Pairs : row[p] # "none"})
RootOf(p) == IF p = NoPair THEN {} ELSE {root[p]}

Fault == faults < FaultBound /\ faults' = faults + 1

Init ==
  /\ row = [p \in Pairs |-> "none"]
  /\ root = [p \in Pairs |-> NoPair]
  /\ oldest = 0
  /\ stored = NoPair
  /\ view = [t \in Tabs |-> "loading"]
  /\ pending = [t \in Tabs |-> NoExchange]
  /\ call = [c \in Calls |-> IdleCall]
  /\ exch = [x \in Exchanges |-> FreeExch]
  /\ leave = [t \in Tabs |-> NotLeaving]
  /\ asked = {}
  /\ again = {}
  /\ quiet = FALSE
  /\ ended = {}
  /\ forked = {}
  /\ faults = 0

(***************************************************************************)
(* The log-in page: AuthService.login, then tokenStore.set and loadUser.   *)
(***************************************************************************)

Issue(p, r) ==
  /\ p = Issued + 1
  /\ row' = [row EXCEPT ![p] = "live"]
  /\ root' = [root EXCEPT ![p] = r]
  /\ UNCHANGED oldest

\* Tokens that localStorage held are forgotten, whoever put them there.
Overwrites(p) == IF stored = p THEN {} ELSE RootOf(stored)

Store(p) == stored' = p /\ asked' = {}

Login(t, p) ==
  /\ t \in UserTabs /\ view[t] = "out"
  /\ Issue(p, p)
  /\ forked' = forked \cup Overwrites(p)
  /\ Store(p)
  /\ view' = [view EXCEPT ![t] = "loading"]
  /\ quiet' = FALSE
  /\ UNCHANGED <<pending, call, exch, leave, again, ended, faults>>

\* The tokens were issued and their answer was lost.
LoginLost(t, p) ==
  /\ Fault
  /\ t \in UserTabs /\ view[t] = "out"
  /\ Issue(p, p)
  /\ forked' = forked \cup {p}
  /\ UNCHANGED <<stored, view, pending, call, exch, leave, asked, again, quiet, ended>>

(***************************************************************************)
(* request() of lib/api.ts.                                                *)
(***************************************************************************)

Loading(t) == view[t] = "loading" /\ \A c \in Calls : TabOf[c] = t => ~call[c].me

\* loadUser without a token asks nothing.
LoadNothing(t) ==
  /\ Loading(t) /\ stored = NoPair
  /\ view' = [view EXCEPT ![t] = "out"]
  /\ UNCHANGED <<server, stored, pending, call, exch, leave, history, faults>>

\* get_current_user.  A page's own request that is accepted changes nothing here.
Accepted(p) == p > oldest

LoadUser(t) ==
  /\ Loading(t) /\ Accepted(stored)
  /\ view' = [view EXCEPT ![t] = "in"]
  /\ UNCHANGED <<server, stored, pending, call, exch, leave, history, faults>>

\* The request is sent and the 401 is on its way back.
SendRefused(c) ==
  /\ call[c].pc = "idle"
  /\ (Loading(TabOf[c]) /\ stored # NoPair) \/ view[TabOf[c]] = "in"
  /\ ~Accepted(stored)
  /\ call' = [call EXCEPT ![c] = [pc |-> "refused", me |-> view[TabOf[c]] = "loading"]]
  /\ UNCHANGED <<server, stored, view, pending, exch, leave, history, faults>>

\* The second and last attempt, with whatever localStorage holds by now.
Resend(c) ==
  /\ call[c].pc = "again"
  /\ IF Accepted(stored)
       THEN /\ call' = [call EXCEPT ![c] = IdleCall]
            /\ view' = IF call[c].me THEN [view EXCEPT ![TabOf[c]] = "in"] ELSE view
       ELSE /\ call' = [call EXCEPT ![c].pc = "final"]
            /\ UNCHANGED view
  /\ UNCHANGED <<server, stored, pending, exch, leave, history, faults>>

Clear ==
  /\ Store(NoPair)
  /\ forked' = forked \cup RootOf(stored)

\* loadUser takes any error for a signed-out user.
SignOut(t) == Clear /\ view' = [view EXCEPT ![t] = "out"]

\* An ApiError reaches the caller.
Throws(c) ==
  /\ call' = [call EXCEPT ![c] = IdleCall]
  /\ IF call[c].me THEN SignOut(TabOf[c]) ELSE UNCHANGED <<stored, asked, view, forked>>
  /\ UNCHANGED <<server, pending, exch, leave, again, quiet, ended>>

Refused(c) ==
  /\ call[c].pc = "final" \/ (call[c].pc = "refused" /\ stored = NoPair)
  /\ Throws(c)
  /\ UNCHANGED faults

\* No connection, a 5xx, or the rate limiter's refusal.
CallFails(c) ==
  /\ Fault
  /\ call[c].pc = "again"
  /\ Throws(c)

LoadFails(t) ==
  /\ Fault
  /\ Loading(t) /\ stored # NoPair
  /\ SignOut(t)
  /\ UNCHANGED <<server, pending, call, exch, leave, again, quiet, ended>>

StartExchange(t, x) ==
  /\ exch[x].pc = "free"
  /\ exch' = [exch EXCEPT ![x] = [pc |-> "asked", pair |-> stored, child |-> NoPair]]
  /\ pending' = [pending EXCEPT ![t] = x]
  /\ again' = IF t \in asked THEN again \cup {t} ELSE again
  /\ asked' = asked \cup {t}

\* Variant: every request starts a refresh of its own.
NeverShared(t) == \E x \in Exchanges : StartExchange(t, x)

\* tryRefresh: requests of one page share refreshPromise.
SharedRefresh(t) ==
  \/ /\ pending[t] # NoExchange
     /\ UNCHANGED <<exch, pending, asked, again>>
  \/ pending[t] = NoExchange /\ \E x \in Exchanges : StartExchange(t, x)

Unauthorized(c) ==
  /\ call[c].pc = "refused" /\ stored # NoPair
  /\ call' = [call EXCEPT ![c].pc = "waiting"]
  /\ SharedRefresh(TabOf[c])
  /\ UNCHANGED <<server, stored, view, leave, quiet, ended, forked, faults>>

(***************************************************************************)
(* POST /auth/refresh: AuthService.refresh.                                *)
(***************************************************************************)

LookUp(x) ==
  /\ exch[x].pc = "asked"
  /\ exch' = [exch EXCEPT ![x] = IF Live(exch[x].pair) THEN [@ EXCEPT !.pc = "found"]
                                                      ELSE Refusal]
  /\ UNCHANGED <<server, stored, view, pending, call, leave, history, faults>>

\* Variant: the token that is exchanged is not revoked.
RotateUnrevoked(x, p) ==
  /\ exch[x].pc = "found"
  /\ Issue(p, root[exch[x].pair])
  /\ exch' = [exch EXCEPT ![x] = [@ EXCEPT !.pc = "done", !.child = p]]
  /\ UNCHANGED <<stored, view, pending, call, leave, history, faults>>

\* The UPDATE that revokes the row holds its lock until the commit, so this is
\* one step.  The row's earlier revocation is not noticed; its deletion is, as
\* an UPDATE that matches no row.
Rotate(x, p) ==
  LET old == exch[x].pair IN
  /\ exch[x].pc = "found"
  /\ row[old] # "gone"
  /\ p = Issued + 1
  /\ row' = [row EXCEPT ![old] = "revoked", ![p] = "live"]
  /\ root' = [root EXCEPT ![p] = root[old]]
  /\ forked' = IF row[old] = "revoked" THEN forked \cup {root[old]} ELSE forked
  /\ exch' = [exch EXCEPT ![x] = [@ EXCEPT !.pc = "done", !.child = p]]
  /\ UNCHANGED <<oldest, stored, view, pending, call, leave, asked, again, quiet, ended,
                 faults>>

RotateRefused(x) ==
  /\ exch[x].pc = "found"
  /\ row[exch[x].pair] = "gone"
  /\ exch' = [exch EXCEPT ![x] = Refusal]
  /\ UNCHANGED <<server, stored, view, pending, call, leave, history, faults>>

\* The request or its answer is lost, the server or its database fails.
ExchangeFails(x) ==
  /\ Fault
  /\ exch[x].pc \in {"asked", "found", "done"}
  /\ forked' = forked \cup RootOf(exch[x].child)
  /\ exch' = [exch EXCEPT ![x] = Refusal]
  /\ UNCHANGED <<server, stored, view, pending, call, leave, asked, again, quiet,
                 ended>>

Waiters(t, pc) ==
  [c \in Calls |-> IF TabOf[c] = t /\ call[c].pc = "waiting" THEN [call[c] EXCEPT !.pc = pc]
                                                          ELSE call[c]]

\* The answer is stored over whatever localStorage has become, also over the
\* nothing that a log-out left.
ExchangeArrives(t) ==
  LET x == pending[t] IN
  /\ x # NoExchange /\ exch[x].pc = "done"
  /\ forked' = forked \cup (IF stored = exch[x].pair THEN {} ELSE Overwrites(exch[x].child))
  /\ Store(exch[x].child)
  /\ call' = Waiters(t, "again")
  /\ pending' = [pending EXCEPT ![t] = NoExchange]
  /\ exch' = [exch EXCEPT ![x] = FreeExch]
  /\ UNCHANGED <<server, view, leave, again, quiet, ended, faults>>

\* The page is left: its requests and its refresh are abandoned by the browser,
\* not by the server.
NewPage(t) ==
  /\ view' = [view EXCEPT ![t] = "loading"]
  /\ call' = [c \in Calls |-> IF TabOf[c] = t THEN IdleCall ELSE call[c]]
  /\ pending' = [pending EXCEPT ![t] = NoExchange]
  /\ leave' = [leave EXCEPT ![t] = NotLeaving]

\* A refused refresh clears localStorage for every tab and goes to /login.
SignedOut(t) ==
  LET x == pending[t] IN
  /\ x # NoExchange /\ exch[x].pc = "refused"
  /\ exch' = [exch EXCEPT ![x] = FreeExch]
  /\ NewPage(t)
  /\ Clear
  /\ UNCHANGED <<server, again, quiet, ended, faults>>

Reload(t) ==
  /\ Fault
  /\ view[t] = "in"
  /\ NewPage(t)
  /\ asked' = asked \ {t}
  /\ UNCHANGED <<server, stored, exch, again, quiet, ended, forked>>

\* The answer to a page that is no longer there.
AnswerDropped(x) ==
  /\ exch[x].pc \in {"done", "refused"}
  /\ \A t \in Tabs : pending[t] # x
  /\ forked' = forked \cup RootOf(exch[x].child)
  /\ exch' = [exch EXCEPT ![x] = FreeExch]
  /\ UNCHANGED <<server, stored, view, pending, call, leave, asked, again, quiet,
                 ended, faults>>

(***************************************************************************)
(* The log-out button: POST /auth/logout, AuthService.logout, then         *)
(* tokenStore.clear whatever the answer.                                   *)
(***************************************************************************)

Logout(t) ==
  /\ t \in UserTabs /\ view[t] = "in" /\ leave[t].pc = "no"
  /\ leave' = [leave EXCEPT ![t] = [pc |-> IF stored = NoPair THEN "told" ELSE "asked",
                                    pair |-> stored]]
  /\ UNCHANGED <<server, stored, view, pending, call, exch, history, faults>>

Exchanging == \E x \in Exchanges : exch[x].pc # "free"
Expecting  == \E t \in Tabs : pending[t] # NoExchange

\* Look-up and DELETE; deleting a row that is gone by then is not an error.
LogoutDeletes(t) ==
  LET p == leave[t].pair IN
  /\ leave[t].pc = "asked"
  /\ row' = [row EXCEPT ![p] = "gone"]
  /\ ended' = IF Exchanging \/ stored # p THEN ended ELSE ended \cup {root[p]}
  /\ leave' = [leave EXCEPT ![t].pc = "told"]
  /\ UNCHANGED <<root, oldest, stored, view, pending, call, exch, asked, again,
                 quiet, forked, faults>>

LogoutLost(t) ==
  /\ Fault
  /\ leave[t].pc = "asked"
  /\ leave' = [leave EXCEPT ![t].pc = "told"]
  /\ UNCHANGED <<server, stored, view, pending, call, exch, history>>

\* Variant: the tokens stay in localStorage when the server was not reached.
LeavesTokens(t) ==
  /\ leave[t].pc = "told"
  /\ quiet' = ~Expecting
  /\ view' = [view EXCEPT ![t] = "out"]
  /\ leave' = [leave EXCEPT ![t] = NotLeaving]
  /\ UNCHANGED <<server, stored, pending, call, exch, asked, again, ended, forked, faults>>

LogoutFinishes(t) ==
  /\ leave[t].pc = "told"
  /\ Store(NoPair)
  /\ quiet' = ~Expecting
  /\ forked' = forked \cup Overwrites(leave[t].pair)
  /\ view' = [view EXCEPT ![t] = "out"]
  /\ leave' = [leave EXCEPT ![t] = NotLeaving]
  /\ UNCHANGED <<server, pending, call, exch, again, ended, faults>>

(***************************************************************************)
(* What changes around them.                                               *)
(***************************************************************************)

\* Variant: tokens expire before they are issued.
ExpireUnissued ==
  /\ oldest' = oldest + 1
  /\ UNCHANGED <<row, root, stored, view, pending, call, exch, leave, history, faults>>

\* They expire in the order in which they were issued.
ExpireAccess ==
  /\ oldest < Issued
  /\ oldest' = oldest + 1
  /\ UNCHANGED <<row, root, stored, view, pending, call, exch, leave, history, faults>>

ExpireRefresh(p) ==
  /\ Fault
  /\ Live(p)
  /\ row' = [row EXCEPT ![p] = "expired"]
  /\ UNCHANGED <<root, oldest, stored, view, pending, call, exch, leave,
                 history>>

(***************************************************************************)
(* The specification.                                                      *)
(***************************************************************************)

ServerStep(x) == LookUp(x) \/ RotateRefused(x) \/ \E p \in Pairs : Rotate(x, p)

CallStep(c) == SendRefused(c) \/ Resend(c) \/ Refused(c) \/ Unauthorized(c)

TabStep(t) ==
  \/ LoadNothing(t) \/ LoadUser(t) \/ ExchangeArrives(t) \/ SignedOut(t)
  \/ LogoutDeletes(t) \/ LogoutFinishes(t)

User(t) ==
  \/ \E p \in Pairs : Login(t, p)
  \/ Logout(t) \/ Reload(t)

Faults ==
  \/ \E t \in Tabs : LogoutLost(t) \/ LoadFails(t) \/ (\E p \in Pairs : LoginLost(t, p))
  \/ \E c \in Calls : CallFails(c)
  \/ \E x \in Exchanges : ExchangeFails(x)

Next ==
  \/ \E t \in Tabs : TabStep(t) \/ User(t)
  \/ \E c \in Calls : CallStep(c)
  \/ \E x \in Exchanges : ServerStep(x) \/ AnswerDropped(x)
  \/ \E p \in Pairs : ExpireRefresh(p)
  \/ ExpireAccess \/ Faults

Spec == Init /\ [][Next]_vars

(***************************************************************************)
(* Properties.                                                             *)
(***************************************************************************)

\* Every variable has its type.
TypeOK ==
  /\ row \in [Pairs -> {"none", "live", "revoked", "expired", "gone"}]
  /\ root \in [Pairs -> MaybePair]
  /\ oldest \in 0..PairBound
  /\ stored \in MaybePair
  /\ view \in [Tabs -> {"loading", "in", "out"}]
  /\ pending \in [Tabs -> Exchanges \cup {NoExchange}]
  /\ call \in [Calls -> Call]
  /\ exch \in [Exchanges -> Exchange]
  /\ leave \in [Tabs -> Leave]
  /\ asked \in SUBSET Tabs /\ again \in SUBSET Tabs
  /\ quiet \in BOOLEAN
  /\ faults \in 0..FaultBound
  /\ ended \in SUBSET Pairs /\ forked \in SUBSET Pairs

\* One page never sends the same refresh token twice, however many of its
\* requests meet a 401 and whenever they do: refreshPromise is shared, and the
\* new pair is stored before the next refresh can start.
OneExchangePerPage == again = {}

\* After a log-out that no refresh or log-in was racing, the browser holds no
\* tokens until the next log-in, whatever the other tabs' requests still do.
LogoutSticks == quiet => stored = NoPair

\* Rotation revokes what it replaces, so a log-out leaves no refresh token of
\* its session alive, unless an exchange was under way, a token of the session
\* was exchanged twice (by two tabs), or an answer with a token was lost.
LogoutEndsTheSession ==
  \A p \in Pairs : Live(p) /\ root[p] \in ended => root[p] \in forked
===============================================================================
