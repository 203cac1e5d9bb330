-------------------------------- MODULE Ingestion --------------------------------
(***************************************************************************)
(* Job discovery: the search cycle goes through the enabled providers and  *)
(* stores what they return, POST /jobs stores what the user types in.      *)
(*                                                                         *)
(* Search cycles are meant to exclude each other but may overlap (see      *)
(* ScheduledTasks), and POST /jobs takes no lock.  A posting is looked up, *)
(* its company is looked up, and both are inserted in one transaction:     *)
(* three awaits, with nothing but uq_jobs_provider_external_job_id to stop *)
(* two ingesters from doing the same.  The loop that hands the postings in *)
(* is outside of search_all's try: whatever fails there, a value too long  *)
(* for its column or the database, ends the cycle.  No jobs row is ever    *)
(* deleted: the code never does.                                           *)
(***************************************************************************)
EXTENDS Providers

CONSTANTS
  Companies,   \* company names
  NoPosting,   \* the empty local variable
  NoProvider,  \* the source of a posting typed in by hand
  ProviderOf,  \* ProviderOf[p]
  CompanyOf,   \* CompanyOf[p]
  Misfits,     \* postings with a value that does not fit its column
  Ingesters,   \* concurrent search cycles and POST /jobs requests
  MaxCrashes   \* bound: ingesters that die, or lose the database

ASSUME NamesAssumption ==
  /\ NoCompany \notin Companies
  /\ NoPosting \notin Postings
  /\ NoProvider \notin Providers
  /\ ProviderOf \in [Postings -> Providers \cup {NoProvider}]
  /\ CompanyOf \in [Postings -> Companies \cup {NoCompany}]
  /\ Misfits \subseteq Postings
ASSUME FeedAssumption ==
  \A q \in Providers : \A t \in Range(Boards[q]) :
    \A p \in Range(Feed[q][t]) : p \in Postings /\ ProviderOf[p] = q
ASSUME IngestersAssumption == IsFiniteSet(Ingesters)
ASSUME CrashesAssumption   == MaxCrashes \in Nat

VARIABLES
  stored,      \* postings with a jobs row
  companies,   \* companies[c]: committed rows of that name
  ing,         \* ing[i]: where ingester i is
  crashes,     \* history: ingesters that died, or lost the database
  overlapped,  \* history: two ingesters have been at work at the same time
  ended        \* history: the postings at which an exception ended an ingester

vars == <<stored, companies, ing, crashes, overlapped, ended>>

BoardsOfAll == UNION {{<<q, t>> : t \in Range(Boards[q])} : q \in Providers}

\* reached is history: the boards whose postings this cycle was given.
Ingester == [pc : {"idle", "fetch", "company", "insert"}, left : SUBSET Providers,
             todo : SUBSET Postings, at : Postings \cup {NoPosting}, creates : BOOLEAN,
             reached : SUBSET BoardsOfAll]

IdleIngester ==
  [pc |-> "idle", left |-> {}, todo |-> {}, at |-> NoPosting, creates |-> FALSE,
   reached |-> {}]

Init ==
  /\ stored = {}
  /\ companies = [c \in Companies |-> 0]
  /\ ing = [i \in Ingesters |-> IdleIngester]
  /\ crashes = 0
  /\ overlapped = FALSE
  /\ ended = {}

(***************************************************************************)
(* JobService.search_all and JobIngestionService.ingest.                   *)
(***************************************************************************)

\* Ingester i starts in the given state.
StartIngest(i, state) ==
  /\ ing[i].pc = "idle"
  /\ ing' = [ing EXCEPT ![i] = state]
  /\ overlapped' = (overlapped \/ \E k \in Ingesters \ {i} : ing[k].pc # "idle")
  /\ UNCHANGED <<stored, companies, crashes, ended>>

StartSearch(i) ==
  StartIngest(i, [IdleIngester EXCEPT !.pc = "fetch", !.left = Providers])

\* POST /jobs: the external id is fresh, so no posting is handed in twice.
StartManual(i, p) ==
  /\ ProviderOf[p] = NoProvider /\ p \notin stored
  /\ \A k \in Ingesters : ing[k].at # p /\ p \notin ing[k].todo
  /\ StartIngest(i, [IdleIngester EXCEPT !.pc = "fetch", !.todo = {p}])

Ingest(i, state) ==
  /\ ing' = [ing EXCEPT ![i] = state]
  /\ UNCHANGED <<overlapped, crashes>>

\* An exception rolls back the transaction under way and ends the cycle, or the
\* request, with whatever was still to be done.
Aborts(i) ==
  /\ Ingest(i, IdleIngester)
  /\ ended' = ended \cup {ing[i].at}
  /\ UNCHANGED <<stored, companies>>

\* The provider answers; the boards up were reached.
Fetch(i, q) ==
  /\ ing[i].pc = "fetch" /\ ing[i].todo = {} /\ IsNext(q, ing[i].left)
  /\ \E up \in SUBSET Range(Boards[q]) :
       /\ Answers(q, up)
       /\ Ingest(i, [ing[i] EXCEPT !.left = @ \ {q}, !.todo = Search(q, up),
                                   !.reached = @ \cup {<<q, t>> : t \in up}])
  /\ UNCHANGED <<stored, companies, ended>>

\* Variant: a provider's failure ends the cycle.
FetchFailureAborts(i, q) ==
  /\ ing[i].pc = "fetch" /\ ing[i].todo = {} /\ IsNext(q, ing[i].left)
  /\ Aborts(i)

\* A provider that fails after its retries is logged and skipped.
FetchFails(i, q) ==
  /\ ing[i].pc = "fetch" /\ ing[i].todo = {} /\ IsNext(q, ing[i].left)
  /\ Ingest(i, [ing[i] EXCEPT !.left = @ \ {q}])
  /\ UNCHANGED <<stored, companies, ended>>

EndSearch(i) ==
  /\ ing[i].pc = "fetch" /\ ing[i].todo = {} /\ ing[i].left = {}
  /\ Ingest(i, IdleIngester)
  /\ UNCHANGED <<stored, companies, ended>>

\* get_by_provider_and_external_id finds a row of the posting.
Known(p) == p \in stored

\* Variant: a posting already stored is gone on with, and there is none to insert.
LookupFallsThrough(i, p) ==
  /\ ing[i].pc = "fetch" /\ p \in ing[i].todo
  /\ Ingest(i, [ing[i] EXCEPT !.todo = @ \ {p}, !.pc = "company",
                              !.at = IF Known(p) THEN NoPosting ELSE p])
  /\ UNCHANGED <<stored, companies, ended>>

\* A posting already stored is left as it is.
Lookup(i, p) ==
  /\ ing[i].pc = "fetch" /\ p \in ing[i].todo
  /\ Ingest(i, IF Known(p)
               THEN [ing[i] EXCEPT !.todo = @ \ {p}]
               ELSE [ing[i] EXCEPT !.todo = @ \ {p}, !.at = p, !.pc = "company"])
  /\ UNCHANGED <<stored, companies, ended>>

\* Variant: the company is created without being looked up.
AlwaysCreateCompany(i) ==
  /\ ing[i].pc = "company"
  /\ Ingest(i, [ing[i] EXCEPT !.pc = "insert", !.creates = (CompanyOf[ing[i].at] # NoCompany)])
  /\ UNCHANGED <<stored, companies, ended>>

SeveralRows(c) == c # NoCompany /\ companies[c] > 1

\* _get_or_create_company: the new row is flushed, and not yet committed.
FindCompany(i) ==
  LET c == CompanyOf[ing[i].at]
  IN /\ ing[i].pc = "company"
     /\ ~SeveralRows(c)
     /\ Ingest(i, [ing[i] EXCEPT !.pc = "insert",
                                 !.creates = (c # NoCompany /\ companies[c] = 0)])
     /\ UNCHANGED <<stored, companies, ended>>

\* scalar_one_or_none raises MultipleResultsFound, and the cycle ends.
CompanyAmbiguous(i) ==
  LET c == CompanyOf[ing[i].at]
  IN /\ ing[i].pc = "company"
     /\ SeveralRows(c)
     /\ Aborts(i)

\* The job, its skills and the company are committed together.
InsertJob(i) ==
  LET p == ing[i].at
  IN /\ ing[i].pc = "insert"
     /\ p \notin stored /\ p \notin Misfits
     /\ stored' = stored \cup {p}
     /\ companies' = IF ing[i].creates
                     THEN [companies EXCEPT ![CompanyOf[p]] = @ + 1] ELSE companies
     /\ Ingest(i, [ing[i] EXCEPT !.pc = "fetch", !.at = NoPosting, !.creates = FALSE])
     /\ UNCHANGED ended

\* uq_jobs_provider_external_job_id: IntegrityError ends the cycle.
InsertCollides(i) ==
  /\ ing[i].pc = "insert"
  /\ ing[i].at \in stored
  /\ Aborts(i)

\* A value that is too long or too large for its column, of the job, of a skill or
\* of the company: the flush raises, and nothing catches it before the cycle's end.
InsertRefused(i) ==
  /\ ing[i].pc = "insert"
  /\ ing[i].at \in Misfits
  /\ Aborts(i)

\* The worker process is lost, or its database connection at any statement or commit.
IngestDies(i) ==
  /\ crashes < MaxCrashes /\ ing[i].pc # "idle"
  /\ crashes' = crashes + 1
  /\ ing' = [ing EXCEPT ![i] = IdleIngester]
  /\ UNCHANGED <<stored, companies, overlapped, ended>>

Step(i) ==
  \/ \E q \in Providers : Fetch(i, q) \/ FetchFails(i, q)
  \/ \E p \in Postings : Lookup(i, p)
  \/ EndSearch(i) \/ FindCompany(i) \/ CompanyAmbiguous(i)
  \/ InsertJob(i) \/ InsertCollides(i) \/ InsertRefused(i)

Next ==
  \E i \in Ingesters :
    \/ StartSearch(i) \/ Step(i) \/ IngestDies(i)
    \/ \E p \in Postings : StartManual(i, p)

Spec == Init /\ [][Next]_vars

(***************************************************************************)
(* Properties.                                                             *)
(***************************************************************************)

\* Every variable has its type.
TypeOK ==
  /\ stored \in SUBSET Postings
  /\ companies \in [Companies -> Nat]
  /\ ing \in [Ingesters -> Ingester]
  /\ \A i \in Ingesters : ing[i].pc \in {"company", "insert"} => ing[i].at \in Postings
  /\ crashes \in 0..MaxCrashes
  /\ overlapped \in BOOLEAN
  /\ ended \in SUBSET Postings

\* Company names are not unique in the database, but no more rows of one name
\* are ever made than ingesters work side by side.
CompanyRowsBounded == \A c \in Companies : companies[c] <= Cardinality(Ingesters)

\* Two rows of one company need two ingesters that overlapped.
DuplicatesNeedOverlap == \A c \in Companies : companies[c] > 1 => overlapped

\* But for the process or the database, an exception ends a cycle only at a posting
\* that does not fit, or, once two ingesters have overlapped, at one that another has
\* stored since or whose company has two rows: a provider's failure ends none.
AbortsExplained ==
  \A p \in ended : p \in Misfits \/ (overlapped /\ (p \in stored \/ SeveralRows(CompanyOf[p])))

\* What the head of every board that answered lists, if it fits the desired titles.
Due(q, t) == First(Feed[q][t], Floor) \cap (Fits \ WithoutId)

\* Whatever boards, providers and other ingesters did: when a search cycle goes on
\* to its next provider, everything due from the boards it has reached is stored.
\* What does not fit its columns never is, so a cycle that is given any goes no further.
DueIsStored ==
  \A i \in Ingesters : ing[i].pc = "fetch" /\ ing[i].todo = {} =>
    \A b \in ing[i].reached : Due(b[1], b[2]) \subseteq stored
=============================================================================
