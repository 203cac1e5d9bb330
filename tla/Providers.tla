------------------------------- MODULE Providers -------------------------------
(***************************************************************************)
(* What a search of each enabled provider returns (backend/app/providers): *)
(* the sources' listings, cut to the limit, filtered by the user's desired *)
(* titles and normalized.  Greenhouse and Lever are asked board by board,  *)
(* one board for each configured company; RemoteOK and Google Jobs are one *)
(* feed each, a board named "all".                                         *)
(*                                                                         *)
(* A posting is a provider and an external id; of its content only what    *)
(* the search and the ingestion look at is kept.                           *)
(***************************************************************************)
EXTENDS Naturals, Sequences, FiniteSets, Functions

CONSTANTS
  Postings,    \* what providers offer and users type in: provider and external id
  Providers,   \* the enabled providers
  Boards,      \* Boards[q]: a sequence, the boards configured for q
  Feed,        \* Feed[q][t]: a sequence, what board t of q lists
  Titles,      \* the user's desired titles; none without a profile
  Mentions,    \* Mentions[p]: the titles that occur in the posting
  WithoutId,   \* postings whose source gives no id
  Named,       \* Named[p]: the company the source names, or NoCompany
  Token,       \* Token[t]: the company called like the board's token
  Title,       \* Title[t]: the company called like the token, capitalized
  NoCompany,   \* the empty company name
  Limit,       \* SearchParams.limit (50)
  Floor        \* a board's least share of the limit (10)

\* The order in which a search cycle asks them.
Registry == <<"remoteok", "google_jobs", "greenhouse", "lever">>

ASSUME ProvidersAssumption == Providers \subseteq Range(Registry)
ASSUME BoardsAssumption    ==
  \A q \in Providers :
    /\ Boards[q] \in Seq(Range(Boards[q]))
    /\ \A t \in Range(Boards[q]) : Feed[q][t] \in Seq(Range(Feed[q][t]))
ASSUME LimitAssumption     == Limit \in Nat /\ Floor \in 0..Limit

Rank(q) == CHOOSE n \in DOMAIN Registry : Registry[n] = q

\* The user's desired titles are the keywords; without any, everything fits.
Fits == IF Titles = {} THEN Postings ELSE {p \in Postings : Mentions[p] \cap Titles # {}}

IsNext(q, left) == q \in left /\ \A r \in left : Rank(q) <= Rank(r)

Larger(a, b) == IF a >= b THEN a ELSE b

First(s, k) == {s[j] : j \in {n \in DOMAIN s : n <= k}}

\* A board's share of the limit, so that a large board leaves room for the others.
Share(q) == Larger(Floor, Limit \div Cardinality(DOMAIN Boards[q]))

\* Variant: the first board that fails ends the loop over the boards.
GreenhouseStops(up) ==
  LET b == Boards["greenhouse"] IN
  Fits \cap UNION {First(Feed["greenhouse"][b[k]], Share("greenhouse")) :
                     k \in {n \in DOMAIN b : \A j \in 1..n : b[j] \in up}}

\* The boards up answered; a board that fails is skipped.  The cut comes before
\* the filter.
GreenhouseSearch(up) ==
  Fits \cap UNION {First(Feed["greenhouse"][t], Share("greenhouse")) : t \in up}

LeverSearch(up) ==
  Fits \cap UNION {First(Feed["lever"][t], Share("lever")) : t \in up}

\* What has no id, like the legal notice that comes first, is passed over; the cut
\* comes after the filter.
Kept(s) == {k \in DOMAIN s : s[k] \in Fits \ WithoutId}

FirstKept(s) == {s[k] : k \in {n \in Kept(s) : Cardinality({j \in Kept(s) : j <= n}) <= Limit}}

RemoteOKSearch(up) == UNION {FirstKept(Feed["remoteok"][t]) : t \in up}

\* The desired titles are part of the query.
GoogleJobsSearch(up) == UNION {First(Feed["google_jobs"][t], Limit) : t \in up}

Search(q, up) ==
  CASE q = "greenhouse"  -> GreenhouseSearch(up)
    [] q = "lever"       -> LeverSearch(up)
    [] q = "remoteok"    -> RemoteOKSearch(up)
    [] q = "google_jobs" -> GoogleJobsSearch(up)

\* Normalizing raises on a posting without its id; Google's is then empty.
Reads(q, found) == q = "google_jobs" \/ found \cap WithoutId = {}

\* A feed that fails is an error of the provider, a board that fails is not.
Answers(q, up) == (q \in {"greenhouse", "lever"} \/ up # {}) /\ Reads(q, Search(q, up))

BoardOf(q, p) == CHOOSE t \in Range(Boards[q]) : p \in Range(Feed[q][t])

\* The company of a normalized posting.
GreenhouseCompany(p) ==
  IF Named[p] # NoCompany THEN Named[p] ELSE Token[BoardOf("greenhouse", p)]

LeverCompany(p) == Title[BoardOf("lever", p)]

Company(q, p) ==
  CASE q = "greenhouse" -> GreenhouseCompany(p)
    [] q = "lever"      -> LeverCompany(p)
    [] OTHER            -> Named[p]
=============================================================================
