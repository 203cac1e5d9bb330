----------------------------- MODULE IngestionProofs -----------------------------
(***************************************************************************)
(* Proofs about Ingestion, for any postings, providers and ingesters.      *)
(***************************************************************************)
EXTENDS Ingestion, FiniteSetTheorems, WellFoundedInduction, TLAPS

USE DEF Known, Aborts, SeveralRows

\* A search returns postings of its provider.
LEMMA SearchType ==
  ASSUME NEW q \in Providers, NEW up \in SUBSET Range(Boards[q])
  PROVE  Search(q, up) \subseteq Postings
<1>1. \A t \in up : \A n \in DOMAIN Feed[q][t] : Feed[q][t][n] \in Postings
  BY FeedAssumption DEF Range
<1>2. q \in {"remoteok", "google_jobs", "greenhouse", "lever"}
  BY ProvidersAssumption DEF Registry, Range
<1>3. CASE q = "remoteok"
  <2>1. ASSUME NEW t \in up PROVE FirstKept(Feed[q][t]) \subseteq Postings
    BY <1>1, <2>1 DEF FirstKept, Kept
  <2>2. Search(q, up) = UNION {FirstKept(Feed[q][t]) : t \in up}
    BY <1>3 DEF Search, RemoteOKSearch
  <2> HIDE DEF FirstKept
  <2> QED BY <2>1, <2>2
<1>4. CASE q = "google_jobs"
  BY <1>1, <1>4 DEF Search, GoogleJobsSearch, First
<1>5. CASE q = "greenhouse"
  BY <1>1, <1>5 DEF Search, GreenhouseSearch, First
<1>6. CASE q = "lever"
  BY <1>1, <1>6 DEF Search, LeverSearch, First
<1> QED BY <1>2, <1>3, <1>4, <1>5, <1>6

\* What a provider's answer does to the ingester that asked.
LEMMA FetchStep ==
  ASSUME NEW i \in Ingesters, NEW q \in Providers, Fetch(i, q)
  PROVE  \E found \in SUBSET Postings, got \in SUBSET BoardsOfAll :
           ing' = [ing EXCEPT ![i] = [ing[i] EXCEPT !.left = @ \ {q}, !.todo = found,
                                                   !.reached = @ \cup got]]
<1>1. PICK up \in SUBSET Range(Boards[q]) :
        ing' = [ing EXCEPT ![i] = [ing[i] EXCEPT !.left = @ \ {q}, !.todo = Search(q, up),
                                    !.reached = @ \cup {<<q, t>> : t \in up}]]
  BY DEF Fetch, Ingest
<1>2. {<<q, t>> : t \in up} \in SUBSET BoardsOfAll
  BY DEF BoardsOfAll
<1> QED BY <1>1, <1>2, SearchType

\* Every step keeps the types.
LEMMA TypeStep == TypeOK /\ [Next]_vars => TypeOK'
<1> SUFFICES ASSUME TypeOK, [Next]_vars PROVE TypeOK'
  OBVIOUS
<1> USE NamesAssumption, CrashesAssumption DEF TypeOK, Ingester, IdleIngester
<1>1. ASSUME NEW i \in Ingesters, StartSearch(i) PROVE TypeOK'
  BY <1>1 DEF StartSearch, StartIngest
<1>2. ASSUME NEW i \in Ingesters, NEW p \in Postings, StartManual(i, p) PROVE TypeOK'
  BY <1>2 DEF StartManual, StartIngest
<1>3. ASSUME NEW i \in Ingesters, NEW q \in Providers, Fetch(i, q) PROVE TypeOK'
  <2>1. PICK found \in SUBSET Postings, got \in SUBSET BoardsOfAll :
          ing' = [ing EXCEPT ![i] = [ing[i] EXCEPT !.left = @ \ {q}, !.todo = found,
                                                  !.reached = @ \cup got]]
    BY <1>3, FetchStep
  <2>2. UNCHANGED <<stored, companies, crashes, overlapped, ended>>
    BY <1>3 DEF Fetch, Ingest
  <2>3. [ing[i] EXCEPT !.left = @ \ {q}, !.todo = found, !.reached = @ \cup got] \in Ingester
    OBVIOUS
  <2> QED BY <2>1, <2>2, <2>3
<1>4. ASSUME NEW i \in Ingesters, NEW q \in Providers, FetchFails(i, q) PROVE TypeOK'
  <2>1. [ing[i] EXCEPT !.left = @ \ {q}] \in Ingester
    OBVIOUS
  <2> QED BY <1>4, <2>1 DEF FetchFails, Ingest
<1>5. ASSUME NEW i \in Ingesters, NEW p \in Postings, Lookup(i, p) PROVE TypeOK'
  <2>1. CASE p \in stored
    <3>1. [ing[i] EXCEPT !.todo = @ \ {p}] \in Ingester
      OBVIOUS
    <3> QED BY <1>5, <2>1, <3>1 DEF Lookup, Ingest
  <2>2. CASE p \notin stored
    <3>1. [ing[i] EXCEPT !.todo = @ \ {p}, !.at = p, !.pc = "company"] \in Ingester
      OBVIOUS
    <3> QED BY <1>5, <2>2, <3>1 DEF Lookup, Ingest
  <2> QED BY <2>1, <2>2
<1>6. ASSUME NEW i \in Ingesters, EndSearch(i) PROVE TypeOK'
  BY <1>6 DEF EndSearch, Ingest
<1>7. ASSUME NEW i \in Ingesters, FindCompany(i) PROVE TypeOK'
  <2>1. PICK b \in BOOLEAN :
          ing' = [ing EXCEPT ![i] = [ing[i] EXCEPT !.pc = "insert", !.creates = b]]
    BY <1>7 DEF FindCompany, Ingest
  <2>2. UNCHANGED <<stored, companies, crashes, overlapped, ended>> /\ ing[i].pc = "company"
    BY <1>7 DEF FindCompany, Ingest
  <2>3. [ing[i] EXCEPT !.pc = "insert", !.creates = b] \in Ingester
    OBVIOUS
  <2> QED BY <2>1, <2>2, <2>3
<1>8. ASSUME NEW i \in Ingesters, CompanyAmbiguous(i) PROVE TypeOK'
  BY <1>8 DEF CompanyAmbiguous, Ingest
<1>9. ASSUME NEW i \in Ingesters, InsertJob(i) PROVE TypeOK'
  <2>1. ing[i].at \in Postings /\ ing[i] \in Ingester
    BY <1>9 DEF InsertJob
  <2>2. companies' \in [Companies -> Nat]
    <3>1. CASE ing[i].creates
      <4>1. companies' = [companies EXCEPT ![CompanyOf[ing[i].at]] = @ + 1]
        BY <1>9, <3>1 DEF InsertJob
      <4>2. CASE CompanyOf[ing[i].at] \in Companies
        BY <4>1, <4>2
      <4>3. CASE CompanyOf[ing[i].at] \notin Companies
        BY <4>1, <4>3
      <4> QED BY <4>2, <4>3
    <3>2. CASE ~ing[i].creates
      BY <1>9, <3>2 DEF InsertJob
    <3> QED BY <3>1, <3>2
  <2>3. ing' \in [Ingesters -> Ingester]
    BY <1>9, <2>1 DEF InsertJob, Ingest
  <2>4. \A k \in Ingesters : ing'[k].pc \in {"company", "insert"} => ing'[k].at \in Postings
    BY <1>9, <2>1 DEF InsertJob, Ingest
  <2>5. stored' \in SUBSET Postings /\ UNCHANGED <<crashes, overlapped, ended>>
    BY <1>9, <2>1 DEF InsertJob, Ingest
  <2> QED BY <2>2, <2>3, <2>4, <2>5
<1>10. ASSUME NEW i \in Ingesters, InsertCollides(i) PROVE TypeOK'
  BY <1>10 DEF InsertCollides, Ingest
<1>11. ASSUME NEW i \in Ingesters, IngestDies(i) PROVE TypeOK'
  BY <1>11 DEF IngestDies
<1>12. ASSUME UNCHANGED vars PROVE TypeOK'
  BY <1>12 DEF vars
<1>14. ASSUME NEW i \in Ingesters, InsertRefused(i) PROVE TypeOK'
  BY <1>14 DEF InsertRefused, Ingest
<1> QED
  BY <1>1, <1>2, <1>3, <1>4, <1>5, <1>6, <1>7, <1>8, <1>9, <1>10, <1>11, <1>12, <1>14
     DEF Next, Step

\* Every variable keeps its type.
THEOREM TypeCorrect == Spec => []TypeOK
<1>1. Init => TypeOK
  <2> SUFFICES ASSUME Init PROVE TypeOK
    OBVIOUS
  <2>1. IdleIngester \in Ingester
    BY DEF IdleIngester, Ingester
  <2>2. crashes \in 0..MaxCrashes
    BY CrashesAssumption DEF Init
  <2>3. \A i \in Ingesters : ing[i].pc = "idle"
    BY DEF Init, IdleIngester
  <2> QED BY <2>1, <2>2, <2>3 DEF Init, TypeOK
<1> QED
  BY <1>1, TypeStep, PTL DEF Spec

(***************************************************************************)
(* As long as no two ingesters overlap, the one at work sees the database  *)
(* it writes to: what it looked up is still so when it inserts.            *)
(***************************************************************************)
Alone ==
  /\ \A i, k \in Ingesters : ing[i].pc # "idle" /\ ing[k].pc # "idle" => i = k
  /\ ended \subseteq Misfits
  /\ \A c \in Companies : companies[c] <= 1
  /\ \A i \in Ingesters :
       /\ ing[i].pc \in {"company", "insert"} => ing[i].at \notin stored
       /\ ing[i].pc = "insert" /\ ing[i].creates =>
            CompanyOf[ing[i].at] # NoCompany /\ companies[CompanyOf[ing[i].at]] = 0

AloneUntilOverlap == ~overlapped => Alone

\* A step that leaves no overlap behind was taken by the only ingester at work.
LEMMA AloneStep == TypeOK /\ AloneUntilOverlap /\ [Next]_vars => AloneUntilOverlap'
<1> SUFFICES ASSUME TypeOK, ~overlapped', overlapped \/ Alone, [Next]_vars
             PROVE  Alone'
  BY DEF AloneUntilOverlap
<1> USE NamesAssumption DEF TypeOK, Ingester, IdleIngester
<1>1. ~overlapped /\ Alone
  <2>1. overlapped => overlapped'
    BY DEF Next, Step, vars, StartSearch, StartManual, StartIngest, Fetch, FetchFails, Lookup,
           EndSearch, FindCompany, CompanyAmbiguous, InsertJob, InsertCollides, InsertRefused, IngestDies,
           Ingest
  <2> QED BY <2>1
<1>2. ASSUME NEW i \in Ingesters, NEW state \in Ingester, state.pc = "fetch", StartIngest(i, state)
      PROVE  Alone'
  <2>1. \A k \in Ingesters \ {i} : ing[k].pc = "idle"
    BY <1>2 DEF StartIngest
  <2>2. ing' = [ing EXCEPT ![i] = state] /\ UNCHANGED <<stored, companies, ended>>
    BY <1>2 DEF StartIngest
  <2> QED BY <1>1, <1>2, <2>1, <2>2 DEF Alone
<1>3. ASSUME NEW i \in Ingesters, StartSearch(i) PROVE Alone'
  BY <1>2, <1>3 DEF StartSearch
<1>4. ASSUME NEW i \in Ingesters, NEW p \in Postings, StartManual(i, p) PROVE Alone'
  BY <1>2, <1>4 DEF StartManual
<1>5. ASSUME NEW i \in Ingesters, NEW q \in Providers, Fetch(i, q) \/ FetchFails(i, q)
      PROVE  Alone'
  <2>1. CASE Fetch(i, q)
    <3>1. PICK found \in SUBSET Postings, got \in SUBSET BoardsOfAll :
            ing' = [ing EXCEPT ![i] = [ing[i] EXCEPT !.left = @ \ {q}, !.todo = found,
                                                    !.reached = @ \cup got]]
      BY <2>1, FetchStep
    <3>2. ing[i].pc = "fetch" /\ UNCHANGED <<stored, companies, ended>>
      BY <2>1 DEF Fetch
    <3> QED BY <1>1, <3>1, <3>2 DEF Alone
  <2>2. CASE FetchFails(i, q)
    BY <1>1, <2>2 DEF FetchFails, Ingest, Alone
  <2> QED BY <1>5, <2>1, <2>2
<1>6. ASSUME NEW i \in Ingesters, NEW p \in Postings, Lookup(i, p) PROVE Alone'
  <2>1. CASE p \in stored
    BY <1>1, <1>6, <2>1 DEF Lookup, Ingest, Alone
  <2>2. CASE p \notin stored
    BY <1>1, <1>6, <2>2 DEF Lookup, Ingest, Alone
  <2> QED BY <2>1, <2>2
<1>7. ASSUME NEW i \in Ingesters, EndSearch(i) PROVE Alone'
  BY <1>1, <1>7 DEF EndSearch, Ingest, Alone
<1>8. ASSUME NEW i \in Ingesters, FindCompany(i) PROVE Alone'
  BY <1>1, <1>8 DEF FindCompany, Ingest, Alone
<1>9. ASSUME NEW i \in Ingesters, CompanyAmbiguous(i) PROVE FALSE
  <2>1. CompanyOf[ing[i].at] \in Companies
    BY <1>9 DEF CompanyAmbiguous
  <2> QED BY <1>1, <1>9, <2>1 DEF CompanyAmbiguous, Alone
<1>10. ASSUME NEW i \in Ingesters, InsertJob(i) PROVE Alone'
  <2>1. ing[i].at \in Postings /\ ing[i].pc = "insert"
    BY <1>10 DEF InsertJob
  <2>2. \A k \in Ingesters \ {i} : ing'[k] = ing[k] /\ ing[k].pc = "idle"
    BY <1>1, <1>10, <2>1 DEF InsertJob, Ingest, Alone
  <2>3. ing'[i].pc = "fetch"
    BY <1>10 DEF InsertJob, Ingest
  <2>4. \A c \in Companies : companies'[c] <= 1
    <3>1. CASE ing[i].creates
      <4>1. CompanyOf[ing[i].at] \in Companies /\ companies[CompanyOf[ing[i].at]] = 0
        BY <1>1, <2>1, <3>1 DEF Alone
      <4>2. companies' = [companies EXCEPT ![CompanyOf[ing[i].at]] = @ + 1]
        BY <1>10, <3>1 DEF InsertJob
      <4> QED BY <1>1, <4>1, <4>2 DEF Alone
    <3>2. CASE ~ing[i].creates
      BY <1>1, <1>10, <3>2 DEF InsertJob, Alone
    <3> QED BY <3>1, <3>2
  <2>5. ended' = ended
    BY <1>10 DEF InsertJob
  <2> QED BY <1>1, <2>2, <2>3, <2>4, <2>5 DEF Alone
<1>11. ASSUME NEW i \in Ingesters, InsertCollides(i) PROVE FALSE
  BY <1>1, <1>11 DEF InsertCollides, Alone
<1>12. ASSUME NEW i \in Ingesters, IngestDies(i) PROVE Alone'
  BY <1>1, <1>12 DEF IngestDies, Alone
<1>13. ASSUME UNCHANGED vars PROVE Alone'
  BY <1>1, <1>13 DEF vars, Alone
<1>14. ASSUME NEW i \in Ingesters, InsertRefused(i) PROVE Alone'
  BY <1>1, <1>14 DEF InsertRefused, Ingest, Alone
<1> QED
  BY <1>3, <1>4, <1>5, <1>6, <1>7, <1>8, <1>9, <1>10, <1>11, <1>12, <1>13, <1>14
     DEF Next, Step

\* The ingester at work is alone until two of them overlap.
LEMMA AloneCorrect == Spec => []AloneUntilOverlap
<1>1. Init => AloneUntilOverlap
  BY DEF Init, AloneUntilOverlap, Alone, IdleIngester
<1> QED
  BY <1>1, AloneStep, TypeCorrect, PTL DEF Spec

\* Two rows of one company need two ingesters that overlapped.
THEOREM NoDuplicateWithoutOverlap == Spec => []DuplicatesNeedOverlap
<1>1. TypeOK /\ AloneUntilOverlap => DuplicatesNeedOverlap
  BY DEF TypeOK, AloneUntilOverlap, Alone, DuplicatesNeedOverlap
<1> QED
  BY <1>1, AloneCorrect, TypeCorrect, PTL

\* What another ingester did, on which an exception is explained, is never undone.
LEMMA AbortStep ==
  TypeOK /\ AloneUntilOverlap /\ AbortsExplained /\ [Next]_vars => AbortsExplained'
<1> SUFFICES ASSUME TypeOK, AloneUntilOverlap, AbortsExplained, [Next]_vars, NEW p \in ended'
             PROVE  p \in Misfits \/ (overlapped' /\ (p \in stored' \/ SeveralRows(CompanyOf[p])'))
  BY DEF AbortsExplained
<1> USE NamesAssumption DEF TypeOK, Ingester, IdleIngester
<1>1. /\ stored \subseteq stored'
      /\ overlapped => overlapped'
      /\ \A c \in Companies : companies'[c] \in Nat /\ companies'[c] >= companies[c]
  <2>1. stored \subseteq stored' /\ (overlapped => overlapped')
    BY DEF Next, Step, vars, StartSearch, StartManual, StartIngest, Fetch, FetchFails, Lookup,
           EndSearch, FindCompany, CompanyAmbiguous, InsertJob, InsertCollides, InsertRefused,
           IngestDies, Ingest
  <2>2. companies' = companies
          \/ \E i \in Ingesters : companies' = [companies EXCEPT ![CompanyOf[ing[i].at]] = @ + 1]
    BY DEF Next, Step, vars, StartSearch, StartManual, StartIngest, Fetch, FetchFails, Lookup,
           EndSearch, FindCompany, CompanyAmbiguous, InsertJob, InsertCollides, InsertRefused,
           IngestDies
  <2>3. ASSUME NEW c \in Companies PROVE companies'[c] \in Nat /\ companies'[c] >= companies[c]
    BY <2>2
  <2> QED BY <2>1, <2>3
<1>2. CASE p \in ended
  <2>1. SeveralRows(CompanyOf[p]) => SeveralRows(CompanyOf[p])'
    BY <1>1, <1>2
  <2> QED BY <1>1, <1>2, <2>1 DEF AbortsExplained
<1>3. ASSUME NEW i \in Ingesters, p = ing[i].at, CompanyAmbiguous(i)
      PROVE  overlapped' /\ SeveralRows(CompanyOf[p])'
  <2>1. SeveralRows(CompanyOf[p]) /\ CompanyOf[p] \in Companies
    BY <1>3 DEF CompanyAmbiguous
  <2>2. overlapped
    BY <2>1 DEF AloneUntilOverlap, Alone
  <2> QED BY <1>1, <2>1, <2>2
<1>4. ASSUME NEW i \in Ingesters, p = ing[i].at, InsertCollides(i)
      PROVE  overlapped' /\ p \in stored'
  BY <1>1, <1>4 DEF InsertCollides, AloneUntilOverlap, Alone
<1>5. ASSUME NEW i \in Ingesters, p = ing[i].at, InsertRefused(i)
      PROVE  p \in Misfits
  BY <1>5 DEF InsertRefused
<1>6. ASSUME p \notin ended
      PROVE  \E i \in Ingesters :
               p = ing[i].at /\ (CompanyAmbiguous(i) \/ InsertCollides(i) \/ InsertRefused(i))
  BY <1>6 DEF Next, Step, vars, StartSearch, StartManual, StartIngest, Fetch, FetchFails, Lookup,
              EndSearch, FindCompany, CompanyAmbiguous, InsertJob, InsertCollides, InsertRefused,
              IngestDies, Ingest
<1> QED BY <1>2, <1>3, <1>4, <1>5, <1>6

\* But for the process or the database, an exception ends a cycle only at a posting
\* that does not fit, or where two ingesters overlapped and the other's row shows why.
THEOREM AbortsHaveCauses == Spec => []AbortsExplained
<1>1. Init => AbortsExplained
  BY DEF Init, AbortsExplained
<1> QED
  BY <1>1, AbortStep, AloneCorrect, TypeCorrect, PTL DEF Spec

(***************************************************************************)
(* How many rows of one company there can be: every row beyond those there *)
(* are belongs to an ingester that found none.                             *)
(***************************************************************************)
Creators(c) ==
  {i \in Ingesters : ing[i].pc = "insert" /\ ing[i].creates /\ CompanyOf[ing[i].at] = c}

RowsAndCreators ==
  \A c \in Companies : companies[c] + Cardinality(Creators(c)) <= Cardinality(Ingesters)

\* Sets of ingesters are finite, and shrink and grow one by one.
LEMMA IngesterSets ==
  /\ Cardinality(Ingesters) \in Nat
  /\ \A S \in SUBSET Ingesters :
       /\ Cardinality(S) \in Nat /\ Cardinality(S) <= Cardinality(Ingesters)
       /\ \A T \in SUBSET S : Cardinality(T) <= Cardinality(S)
       /\ \A i \in S : Cardinality(S \ {i}) = Cardinality(S) - 1
<1>1. IsFiniteSet(Ingesters) /\ Cardinality(Ingesters) \in Nat
  BY IngestersAssumption, FS_CardinalityType
<1> SUFFICES ASSUME NEW S \in SUBSET Ingesters
             PROVE  /\ Cardinality(S) \in Nat /\ Cardinality(S) <= Cardinality(Ingesters)
                    /\ \A T \in SUBSET S : Cardinality(T) <= Cardinality(S)
                    /\ \A i \in S : Cardinality(S \ {i}) = Cardinality(S) - 1
  BY <1>1
<1>2. IsFiniteSet(S) /\ Cardinality(S) \in Nat /\ Cardinality(S) <= Cardinality(Ingesters)
  BY <1>1, FS_Subset, FS_CardinalityType
<1>3. \A T \in SUBSET S : Cardinality(T) <= Cardinality(S)
  BY <1>2, FS_Subset
<1>4. \A i \in S : Cardinality(S \ {i}) = Cardinality(S) - 1
  BY <1>2, FS_RemoveElement
<1> QED
  BY <1>2, <1>3, <1>4

\* An ingester that is about to create a row found none; any other step leaves
\* the rows alone and lets creators go only by giving up.
LEMMA CreatorsStep ==
  ASSUME TypeOK, RowsAndCreators, [Next]_vars, NEW c \in Companies
  PROVE  companies'[c] + Cardinality(Creators(c)') <= Cardinality(Ingesters)
<1> USE NamesAssumption DEF TypeOK, Ingester, IdleIngester
<1>1. Creators(c) \in SUBSET Ingesters /\ Creators(c)' \in SUBSET Ingesters
  BY DEF Creators
<1>2. companies[c] \in Nat /\ companies[c] + Cardinality(Creators(c)) <= Cardinality(Ingesters)
  BY DEF RowsAndCreators
<1>3. ASSUME companies' = companies, Creators(c)' \subseteq Creators(c)
      PROVE  companies'[c] + Cardinality(Creators(c)') <= Cardinality(Ingesters)
  <2>1. /\ Cardinality(Creators(c)') <= Cardinality(Creators(c))
        /\ Cardinality(Creators(c)') \in Nat /\ Cardinality(Creators(c)) \in Nat
        /\ Cardinality(Ingesters) \in Nat
    BY <1>1, <1>3, IngesterSets
  <2> QED BY <1>2, <1>3, <2>1
<1>4. ASSUME NEW i \in Ingesters, FindCompany(i)
      PROVE  companies'[c] + Cardinality(Creators(c)') <= Cardinality(Ingesters)
  <2>1. companies' = companies
    BY <1>4 DEF FindCompany
  <2>2. CASE companies[c] = 0
    <3>1. Cardinality(Creators(c)') \in Nat /\ Cardinality(Creators(c)') <= Cardinality(Ingesters)
            /\ Cardinality(Ingesters) \in Nat
      BY <1>1, IngesterSets
    <3> QED BY <2>1, <2>2, <3>1
  <2>3. CASE companies[c] # 0
    <3>1. Creators(c)' \subseteq Creators(c)
      BY <1>4, <2>3 DEF FindCompany, Ingest, Creators
    <3> QED BY <2>1, <3>1, <1>3
  <2> QED BY <2>2, <2>3
<1>5. ASSUME NEW i \in Ingesters, InsertJob(i)
      PROVE  companies'[c] + Cardinality(Creators(c)') <= Cardinality(Ingesters)
  <2>1. Creators(c)' = Creators(c) \ {i}
    BY <1>5 DEF InsertJob, Ingest, Creators
  <2>2. CASE i \in Creators(c)
    <3>1. companies'[c] = companies[c] + 1
      BY <1>5, <2>2 DEF InsertJob, Creators
    <3>2. Cardinality(Creators(c)') = Cardinality(Creators(c)) - 1
            /\ Cardinality(Creators(c)) \in Nat /\ Cardinality(Ingesters) \in Nat
      BY <1>1, <2>1, <2>2, IngesterSets
    <3> QED BY <1>2, <3>1, <3>2
  <2>3. CASE i \notin Creators(c)
    <3>1. companies'[c] = companies[c]
      BY <1>5, <2>3 DEF InsertJob, Creators
    <3>2. Creators(c)' = Creators(c)
      BY <2>1, <2>3
    <3> QED BY <1>2, <3>1, <3>2
  <2> QED BY <2>2, <2>3
<1>6. ASSUME NEW i \in Ingesters,
             StartSearch(i) \/ EndSearch(i) \/ CompanyAmbiguous(i) \/ InsertCollides(i)
               \/ InsertRefused(i) \/ IngestDies(i) \/ (\E p \in Postings : StartManual(i, p) \/ Lookup(i, p))
               \/ (\E q \in Providers : Fetch(i, q) \/ FetchFails(i, q))
      PROVE  companies' = companies /\ Creators(c)' \subseteq Creators(c)
  <2>1. CASE StartSearch(i) BY <2>1 DEF StartSearch, StartIngest, Creators
  <2>2. CASE EndSearch(i) BY <2>2 DEF EndSearch, Ingest, Creators
  <2>3. CASE CompanyAmbiguous(i) BY <2>3 DEF CompanyAmbiguous, Ingest, Creators
  <2>4. CASE InsertCollides(i) BY <2>4 DEF InsertCollides, Ingest, Creators
  <2>5. CASE IngestDies(i) BY <2>5 DEF IngestDies, Creators
  <2>6. ASSUME NEW p \in Postings, StartManual(i, p)
        PROVE  companies' = companies /\ Creators(c)' \subseteq Creators(c)
    BY <2>6 DEF StartManual, StartIngest, Creators
  <2>7. ASSUME NEW p \in Postings, Lookup(i, p)
        PROVE  companies' = companies /\ Creators(c)' \subseteq Creators(c)
    BY <2>7 DEF Lookup, Ingest, Creators
  <2>8. ASSUME NEW q \in Providers, Fetch(i, q)
        PROVE  companies' = companies /\ Creators(c)' \subseteq Creators(c)
    BY <2>8 DEF Fetch, Ingest, Creators
  <2>9. ASSUME NEW q \in Providers, FetchFails(i, q)
        PROVE  companies' = companies /\ Creators(c)' \subseteq Creators(c)
    BY <2>9 DEF FetchFails, Ingest, Creators
  <2>10. CASE InsertRefused(i) BY <2>10 DEF InsertRefused, Ingest, Creators
  <2> QED BY <1>6, <2>1, <2>2, <2>3, <2>4, <2>5, <2>6, <2>7, <2>8, <2>9, <2>10
<1>7. ASSUME UNCHANGED vars
      PROVE  companies' = companies /\ Creators(c)' \subseteq Creators(c)
  BY <1>7 DEF vars, Creators
<1> QED
  BY <1>3, <1>4, <1>5, <1>6, <1>7 DEF Next, Step

\* No company has more rows than ingesters work side by side.
THEOREM RowsOfACompanyBounded == Spec => []CompanyRowsBounded
<1>1. Init => RowsAndCreators
  <2> SUFFICES ASSUME Init, NEW c \in Companies
               PROVE  companies[c] + Cardinality(Creators(c)) <= Cardinality(Ingesters)
    BY DEF RowsAndCreators
  <2>1. Creators(c) = {} /\ companies[c] = 0
    BY DEF Init, Creators, IdleIngester
  <2>2. Cardinality(Creators(c)) = 0 /\ Cardinality(Ingesters) \in Nat
    BY <2>1, FS_EmptySet, IngesterSets
  <2> QED BY <2>1, <2>2
<1>2. TypeOK /\ RowsAndCreators /\ [Next]_vars => RowsAndCreators'
  <2> SUFFICES ASSUME TypeOK, RowsAndCreators, [Next]_vars
               PROVE  \A c \in Companies :
                        companies'[c] + Cardinality(Creators(c)') <= Cardinality(Ingesters)
    BY DEF RowsAndCreators
  <2> QED BY CreatorsStep
<1>3. TypeOK /\ RowsAndCreators => CompanyRowsBounded
  <2> SUFFICES ASSUME TypeOK, RowsAndCreators, NEW c \in Companies
               PROVE  companies[c] <= Cardinality(Ingesters)
    BY DEF CompanyRowsBounded
  <2>1. Creators(c) \in SUBSET Ingesters /\ companies[c] \in Nat
    BY DEF Creators, TypeOK
  <2>2. Cardinality(Creators(c)) \in Nat /\ Cardinality(Ingesters) \in Nat
    BY <2>1, IngesterSets
  <2> QED BY <2>1, <2>2 DEF RowsAndCreators
<1> QED
  BY <1>1, <1>2, <1>3, TypeCorrect, PTL DEF Spec

(***************************************************************************)
(* Nothing that is due is lost: what a cycle was given and has not stored  *)
(* is still before it.                                                     *)
(***************************************************************************)

\* The share of a board is no less than the floor.
LEMMA ShareAtLeastFloor ==
  ASSUME NEW q \in Providers, NEW t \in Range(Boards[q])
  PROVE  Share(q) \in Nat /\ Floor \in Nat /\ Floor <= Share(q)
<1>1. PICK n \in Nat : DOMAIN Boards[q] = 1..n
  BY BoardsAssumption
<1>2. n >= 1
  BY <1>1 DEF Range
<1>3. Cardinality(DOMAIN Boards[q]) \in Nat \ {0}
  <2>1. IsFiniteSet(1..n) /\ Cardinality(1..n) = n
    BY <1>2, FS_Interval
  <2> QED BY <1>1, <1>2, <2>1
<1>4. Limit \in Nat /\ Floor \in Nat
  BY LimitAssumption
<1>5. Limit \div Cardinality(DOMAIN Boards[q]) \in Nat
  BY <1>3, <1>4
<1> QED BY <1>4, <1>5 DEF Share, Larger

\* What is due from the boards that answered is among what the search returns:
\* neither a board that fails nor one that is large takes the others' place.
LEMMA DueFound ==
  ASSUME NEW q \in Providers, NEW up \in SUBSET Range(Boards[q]), NEW t \in up
  PROVE  Due(q, t) \subseteq Search(q, up)
<1> SUFFICES ASSUME NEW n \in DOMAIN Feed[q][t], n <= Floor, Feed[q][t][n] \in Fits \ WithoutId
             PROVE  Feed[q][t][n] \in Search(q, up)
  BY DEF Due, First
<1> DEFINE s == Feed[q][t]
<1>1. PICK len \in Nat : DOMAIN s = 1..len
  BY BoardsAssumption
<1>2. Share(q) \in Nat /\ Floor \in Nat /\ Floor <= Share(q) /\ Limit \in Nat /\ Floor <= Limit
  BY ShareAtLeastFloor, LimitAssumption
<1>3. n \in Nat /\ n <= Share(q) /\ n <= Limit
  BY <1>1, <1>2
<1>4. s[n] \in First(s, Share(q)) /\ s[n] \in First(s, Limit)
  BY <1>3 DEF First
<1>5. q \in {"remoteok", "google_jobs", "greenhouse", "lever"}
  BY ProvidersAssumption DEF Registry, Range
<1>6. CASE q = "greenhouse"
  BY <1>4, <1>6 DEF Search, GreenhouseSearch
<1>7. CASE q = "lever"
  BY <1>4, <1>7 DEF Search, LeverSearch
<1>8. CASE q = "google_jobs"
  BY <1>4, <1>8 DEF Search, GoogleJobsSearch
<1>9. CASE q = "remoteok"
  <2>1. {j \in Kept(s) : j <= n} \subseteq 1..n
    BY <1>1 DEF Kept
  <2>2. IsFiniteSet(1..n) /\ Cardinality(1..n) = n
    BY <1>1, <1>3, FS_Interval
  <2>3. Cardinality({j \in Kept(s) : j <= n}) \in Nat /\ Cardinality({j \in Kept(s) : j <= n}) <= n
    BY <2>1, <2>2, FS_Subset, FS_CardinalityType
  <2>4. n \in Kept(s) /\ Cardinality({j \in Kept(s) : j <= n}) <= Limit
    BY <1>2, <1>3, <2>3 DEF Kept
  <2>5. n \in {m \in Kept(s) : Cardinality({j \in Kept(s) : j <= m}) <= Limit}
    BY <2>4
  <2>6. s[n] \in FirstKept(s)
    BY <2>5 DEF FirstKept
  <2> QED BY <1>9, <2>6 DEF Search, RemoteOKSearch
<1> QED BY <1>5, <1>6, <1>7, <1>8, <1>9

\* What ingester i has been given and not yet stored.
Ahead(i) == ing[i].todo \cup (IF ing[i].pc \in {"company", "insert"} THEN {ing[i].at} ELSE {})

DueKept ==
  \A i \in Ingesters : \A b \in ing[i].reached :
    ing[i].pc # "idle" => Due(b[1], b[2]) \subseteq stored \cup Ahead(i)

\* No step loses a due posting of an ingester that goes on.
LEMMA DueStep == TypeOK /\ DueKept /\ [Next]_vars => DueKept'
<1> SUFFICES ASSUME TypeOK, DueKept, [Next]_vars PROVE DueKept'
  OBVIOUS
<1> USE DEF TypeOK, Ingester, IdleIngester
<1>0. ASSUME stored \subseteq stored', NEW i \in Ingesters,
             \A k \in Ingesters \ {i} : ing'[k] = ing[k],
             \A b \in ing'[i].reached :
               ing'[i].pc # "idle" => Due(b[1], b[2]) \subseteq stored' \cup Ahead(i)'
      PROVE  DueKept'
  <2> SUFFICES ASSUME NEW k \in Ingesters, NEW b \in ing'[k].reached, ing'[k].pc # "idle"
               PROVE  Due(b[1], b[2]) \subseteq stored' \cup Ahead(k)'
    BY DEF DueKept
  <2>1. CASE k = i
    BY <1>0, <2>1
  <2>2. CASE k # i
    <3>1. ing'[k] = ing[k]
      BY <1>0, <2>2
    <3> QED BY <1>0, <3>1 DEF DueKept, Ahead
  <2> QED BY <2>1, <2>2
<1>2. ASSUME NEW i \in Ingesters,
             StartSearch(i) \/ (\E p \in Postings : StartManual(i, p)) \/ EndSearch(i)
               \/ CompanyAmbiguous(i) \/ InsertCollides(i) \/ InsertRefused(i) \/ IngestDies(i)
      PROVE  DueKept'
  <2>1. /\ \A k \in Ingesters \ {i} : ing'[k] = ing[k]
        /\ ing'[i].reached = {} /\ stored' = stored
    <3>1. CASE StartSearch(i)
      BY <3>1 DEF StartSearch, StartIngest
    <3>2. ASSUME NEW p \in Postings, StartManual(i, p)
          PROVE  /\ \A k \in Ingesters \ {i} : ing'[k] = ing[k]
                 /\ ing'[i].reached = {} /\ stored' = stored
      BY <3>2 DEF StartManual, StartIngest
    <3>3. CASE EndSearch(i) \/ CompanyAmbiguous(i) \/ InsertCollides(i) \/ InsertRefused(i)
      BY <3>3 DEF EndSearch, CompanyAmbiguous, InsertCollides, InsertRefused, Ingest
    <3>4. CASE IngestDies(i)
      BY <3>4 DEF IngestDies
    <3> QED BY <1>2, <3>1, <3>2, <3>3, <3>4
  <2> QED BY <1>0, <2>1
<1>3. ASSUME NEW i \in Ingesters, NEW q \in Providers, Fetch(i, q) PROVE DueKept'
  <2>1. PICK up \in SUBSET Range(Boards[q]) :
          ing' = [ing EXCEPT ![i] = [ing[i] EXCEPT !.left = @ \ {q}, !.todo = Search(q, up),
                                      !.reached = @ \cup {<<q, t>> : t \in up}]]
    BY <1>3 DEF Fetch, Ingest
  <2>2. ing[i].pc = "fetch" /\ ing[i].todo = {} /\ stored' = stored
    BY <1>3 DEF Fetch
  <2>3. /\ ing'[i].pc = "fetch" /\ ing'[i].todo = Search(q, up)
        /\ ing'[i].reached = ing[i].reached \cup {<<q, t>> : t \in up}
    BY <2>1, <2>2
  <2>4. ASSUME NEW b \in ing'[i].reached
        PROVE  Due(b[1], b[2]) \subseteq stored' \cup Ahead(i)'
    <3>1. CASE b \in ing[i].reached
      BY <2>2, <3>1 DEF DueKept, Ahead
    <3>2. ASSUME NEW t \in up, b = <<q, t>> PROVE Due(b[1], b[2]) \subseteq Ahead(i)'
      BY <2>3, <3>2, DueFound DEF Ahead
    <3> QED BY <2>3, <3>1, <3>2
  <2> QED BY <1>0, <2>1, <2>2, <2>4
<1>4. ASSUME NEW i \in Ingesters, NEW q \in Providers, FetchFails(i, q) PROVE DueKept'
  BY <1>0, <1>4 DEF FetchFails, Ingest, DueKept, Ahead
<1>5. ASSUME NEW i \in Ingesters, NEW p \in Postings, Lookup(i, p) PROVE DueKept'
  <2>1. CASE p \in stored
    BY <1>0, <1>5, <2>1 DEF Lookup, Ingest, DueKept, Ahead
  <2>2. CASE p \notin stored
    BY <1>0, <1>5, <2>2 DEF Lookup, Ingest, DueKept, Ahead
  <2> QED BY <2>1, <2>2
<1>6. ASSUME NEW i \in Ingesters, FindCompany(i) PROVE DueKept'
  BY <1>0, <1>6 DEF FindCompany, Ingest, DueKept, Ahead
<1>7. ASSUME NEW i \in Ingesters, InsertJob(i) PROVE DueKept'
  BY <1>0, <1>7 DEF InsertJob, Ingest, DueKept, Ahead
<1>8. ASSUME UNCHANGED vars PROVE DueKept'
  BY <1>8 DEF vars, DueKept, Ahead
<1> QED
  BY <1>2, <1>3, <1>4, <1>5, <1>6, <1>7, <1>8 DEF Next, Step

\* Whatever boards and providers fail and whoever else is at work: what a cycle was
\* due to store from the boards it reached is stored when it goes on.
THEOREM NothingDueIsLost == Spec => []DueIsStored
<1>1. Init => DueKept
  BY DEF Init, IdleIngester, DueKept
<1>2. TypeOK /\ DueKept => DueIsStored
  BY DEF DueKept, DueIsStored, Ahead
<1> QED
  BY <1>1, <1>2, DueStep, TypeCorrect, PTL DEF Spec

\* No cycle goes on to its next provider past a board that lists, where it is read, a
\* posting with a value that does not fit its column: as long as such a posting is
\* listed, no cycle that reaches its board asks the providers after it.
NoneGoesPastAMisfit ==
  \A i \in Ingesters : ing[i].pc = "fetch" /\ ing[i].todo = {} =>
    \A b \in ing[i].reached : Due(b[1], b[2]) \cap Misfits = {}

\* One posting ends every search cycle that is given it.
THEOREM MisfitsEndTheCycle == Spec => []NoneGoesPastAMisfit
<1> DEFINE Fit == stored \cap Misfits = {}
<1>1. Init => Fit
  BY DEF Init
<1>2. Fit /\ [Next]_vars => Fit'
  BY DEF Next, Step, vars, StartSearch, StartManual, StartIngest, Fetch, FetchFails, Lookup,
         EndSearch, FindCompany, CompanyAmbiguous, InsertJob, InsertCollides, InsertRefused,
         IngestDies, Ingest
<1>3. Fit /\ DueIsStored => NoneGoesPastAMisfit
  BY DEF DueIsStored, NoneGoesPastAMisfit
<1> HIDE DEF Fit
<1> QED
  BY <1>1, <1>2, <1>3, NothingDueIsLost, PTL DEF Spec

(***************************************************************************)
(* What a search returns, whatever the sources list.                       *)
(***************************************************************************)

LEMMA ProviderNames == \A q \in Providers : q \in {"remoteok", "google_jobs", "greenhouse", "lever"}
  BY ProvidersAssumption DEF Registry, Range

\* A board's listing is searched by itself: a board that fails, or lists much, takes
\* nothing from the others.
THEOREM BoardsStandAlone ==
  ASSUME NEW q \in Providers,
         NEW A \in SUBSET Range(Boards[q]), NEW B \in SUBSET Range(Boards[q])
  PROVE  Search(q, A \cup B) = Search(q, A) \cup Search(q, B)
<1>1. CASE q = "greenhouse"
  BY <1>1 DEF Search, GreenhouseSearch
<1>2. CASE q = "lever"
  BY <1>2 DEF Search, LeverSearch
<1>3. CASE q = "remoteok"
  BY <1>3 DEF Search, RemoteOKSearch
<1>4. CASE q = "google_jobs"
  BY <1>4 DEF Search, GoogleJobsSearch
<1> QED BY <1>1, <1>2, <1>3, <1>4, ProviderNames

\* A search returns what its boards list and, but for Google, to whom the desired
\* titles are sent, only what fits them; RemoteOK returns nothing that it could not
\* normalize afterwards.
THEOREM SearchesFit ==
  ASSUME NEW q \in Providers, NEW up \in SUBSET Range(Boards[q])
  PROVE  /\ Search(q, up) \subseteq UNION {Range(Feed[q][t]) : t \in up}
         /\ q # "google_jobs" => Search(q, up) \subseteq Fits
         /\ q = "remoteok" => Reads(q, Search(q, up))
<1>1. \A t \in up, k \in Nat : First(Feed[q][t], k) \subseteq Range(Feed[q][t])
  BY DEF First, Range
<1>2. Share(q) \in Nat \/ up = {}
  BY ShareAtLeastFloor
<1>3. Limit \in Nat
  BY LimitAssumption
<1>4. CASE q = "greenhouse"
  BY <1>1, <1>2, <1>4 DEF Search, GreenhouseSearch
<1>5. CASE q = "lever"
  BY <1>1, <1>2, <1>5 DEF Search, LeverSearch
<1>6. CASE q = "remoteok"
  <2>1. Search(q, up) = UNION {FirstKept(Feed[q][t]) : t \in up}
    BY <1>6 DEF Search, RemoteOKSearch
  <2>2. \A t \in up : FirstKept(Feed[q][t]) \subseteq Range(Feed[q][t]) \cap (Fits \ WithoutId)
    BY DEF FirstKept, Kept, Range
  <2> HIDE DEF FirstKept
  <2>3. Search(q, up) \subseteq UNION {Range(Feed[q][t]) : t \in up}
          /\ Search(q, up) \subseteq Fits \ WithoutId
    BY <2>1, <2>2
  <2> QED BY <1>6, <2>3 DEF Reads
<1>7. CASE q = "google_jobs"
  BY <1>1, <1>3, <1>7 DEF Search, GoogleJobsSearch
<1> QED BY <1>4, <1>5, <1>6, <1>7, ProviderNames

\* A set of positions in a list has a last one.
LEMMA LastPosition ==
  ASSUME NEW len \in Nat, NEW A \in SUBSET (1..len), A # {}
  PROVE  \E m \in A : \A n \in A : n <= m
<1> DEFINE R == OpToRel(<, Nat)
           T == {len - n : n \in A}
<1>1. T \subseteq Nat /\ T # {}
  <2>1. \A n \in A : n \in Nat /\ n <= len
    OBVIOUS
  <2>2. \A n \in A : len - n \in Nat /\ len - n \in T
    BY <2>1
  <2> QED BY <2>2
<1>2. \A x, y \in Nat : <<x, y>> \in R <=> x < y
  BY DEF OpToRel
<1>3. IsWellFoundedOn(R, Nat)
  BY NatLessThanWellFounded
<1> HIDE DEF R
<1>4. \E x \in T : \A y \in T : ~(<<y, x>> \in R)
  BY <1>1, <1>3, WFMin
<1>5. PICK m \in A : \A y \in T : ~(<<y, len - m>> \in R)
  BY <1>4
<1>6. \A n \in A : ~(len - n < len - m)
  BY <1>1, <1>2, <1>5
<1> QED BY <1>6

\* The positions taken from a list are no fewer than what they hold.
LEMMA TakenFrom ==
  ASSUME NEW s, NEW A, IsFiniteSet(A)
  PROVE  /\ IsFiniteSet({s[n] : n \in A})
         /\ Cardinality({s[n] : n \in A}) <= Cardinality(A)
<1> DEFINE T == {s[n] : n \in A}
           f == [n \in A |-> s[n]]
<1>1. f \in Surjection(A, T)
  BY DEF Surjection
<1> QED BY <1>1, FS_Surjection

\* Of the postings that are kept, the feed's first Limit are returned, and no more.
LEMMA FirstKeptWithinLimit ==
  ASSUME NEW s, NEW len \in Nat, DOMAIN s = 1..len
  PROVE  IsFiniteSet(FirstKept(s)) /\ Cardinality(FirstKept(s)) <= Limit
<1> DEFINE Upto(n) == {j \in Kept(s) : j <= n}
           A == {n \in Kept(s) : Cardinality(Upto(n)) <= Limit}
<1>1. Kept(s) \subseteq 1..len
  BY DEF Kept
<1>2. IsFiniteSet(Kept(s)) /\ IsFiniteSet(A)
  <2>1. A \subseteq Kept(s)
    OBVIOUS
  <2>2. IsFiniteSet(1..len)
    BY FS_Interval
  <2> HIDE DEF A
  <2> QED BY <1>1, <2>1, <2>2, FS_Subset
<1>3. Limit \in Nat
  BY LimitAssumption
<1>4. Cardinality(A) \in Nat /\ Cardinality(A) <= Limit
  <2>1. CASE A = {}
    <3>1. Cardinality(A) = 0
      BY <2>1, FS_EmptySet
    <3> HIDE DEF A
    <3> QED BY <1>3, <3>1
  <2>2. CASE A # {}
    <3>1. PICK m \in A : \A n \in A : n <= m
      <4>1. A \in SUBSET (1..len)
        BY <1>1
      <4> HIDE DEF A
      <4> QED BY <2>2, <4>1, LastPosition
    <3>2. A \subseteq Upto(m) /\ Cardinality(Upto(m)) <= Limit
      BY <3>1
    <3>3. IsFiniteSet(Upto(m))
      BY <1>2, FS_Subset
    <3>4. Cardinality(A) <= Cardinality(Upto(m)) /\ Cardinality(A) \in Nat /\ Cardinality(Upto(m)) \in Nat
      BY <3>2, <3>3, FS_Subset, FS_CardinalityType
    <3> HIDE DEF A, Upto
    <3> QED BY <1>3, <3>2, <3>4
  <2> QED BY <2>1, <2>2
<1>5. FirstKept(s) = {s[n] : n \in A}
  BY DEF FirstKept
<1> HIDE DEF A
<1>6. IsFiniteSet(FirstKept(s)) /\ Cardinality(FirstKept(s)) <= Cardinality(A)
  BY <1>2, <1>5, TakenFrom
<1>7. Cardinality(FirstKept(s)) \in Nat
  BY <1>6, FS_CardinalityType
<1> QED BY <1>3, <1>4, <1>6, <1>7

\* The head of a list is no longer than asked for.
LEMMA FirstWithin ==
  ASSUME NEW s, NEW len \in Nat, DOMAIN s = 1..len, NEW k \in Nat
  PROVE  IsFiniteSet(First(s, k)) /\ Cardinality(First(s, k)) <= k
<1> DEFINE A == {n \in DOMAIN s : n <= k}
<1>1. A \subseteq 1..k
  OBVIOUS
<1>2. IsFiniteSet(1..k) /\ Cardinality(1..k) = k
  BY FS_Interval
<1>3. IsFiniteSet(A) /\ Cardinality(A) <= k
  BY <1>1, <1>2, FS_Subset
<1>4. First(s, k) = {s[n] : n \in A}
  BY DEF First
<1> HIDE DEF A
<1>5. IsFiniteSet(First(s, k)) /\ Cardinality(First(s, k)) <= Cardinality(A)
  BY <1>3, <1>4, TakenFrom
<1>6. Cardinality(First(s, k)) \in Nat /\ Cardinality(A) \in Nat
  BY <1>3, <1>5, FS_CardinalityType
<1> QED BY <1>3, <1>5, <1>6

\* No board, whatever it lists, gives a search more than SearchParams.limit.
THEOREM BoardsWithinLimit ==
  ASSUME NEW q \in Providers, NEW t \in Range(Boards[q])
  PROVE  Cardinality(Search(q, {t})) <= Limit
<1> DEFINE s == Feed[q][t]
<1>1. PICK len \in Nat : DOMAIN s = 1..len
  BY BoardsAssumption
<1>2. Limit \in Nat /\ Floor \in 0..Limit /\ Share(q) \in Nat
  BY LimitAssumption, ShareAtLeastFloor
<1>3. Share(q) <= Limit
  <2>1. PICK n \in Nat : DOMAIN Boards[q] = 1..n
    BY BoardsAssumption
  <2>2. n >= 1
    BY <2>1 DEF Range
  <2>3. Cardinality(DOMAIN Boards[q]) = n
    BY <2>1, <2>2, FS_Interval
  <2>4. Limit \div n <= Limit /\ Limit \div n \in Nat
    BY <1>2, <2>2
  <2> QED BY <1>2, <2>3, <2>4 DEF Share, Larger
<1> HIDE DEF s
<1>4. CASE q \in {"greenhouse", "lever"}
  <2>1. Search(q, {t}) = Fits \cap First(s, Share(q))
    BY <1>4 DEF Search, GreenhouseSearch, LeverSearch, s
  <2>2. IsFiniteSet(First(s, Share(q))) /\ Cardinality(First(s, Share(q))) <= Share(q)
    BY <1>1, <1>2, FirstWithin
  <2>3. /\ Cardinality(Search(q, {t})) <= Cardinality(First(s, Share(q)))
        /\ IsFiniteSet(Search(q, {t}))
    BY <2>1, <2>2, FS_Subset
  <2>4. Cardinality(Search(q, {t})) \in Nat /\ Cardinality(First(s, Share(q))) \in Nat
    BY <2>2, <2>3, FS_CardinalityType
  <2> QED BY <1>2, <1>3, <2>2, <2>3, <2>4
<1>5. CASE q = "remoteok"
  <2>1. Search(q, {t}) = FirstKept(s)
    BY <1>5 DEF Search, RemoteOKSearch, s
  <2> QED BY <1>1, <2>1, FirstKeptWithinLimit
<1>6. CASE q = "google_jobs"
  <2>1. Search(q, {t}) = First(s, Limit)
    BY <1>6 DEF Search, GoogleJobsSearch, s
  <2> QED BY <1>1, <1>2, <2>1, FirstWithin
<1> QED BY <1>4, <1>5, <1>6, ProviderNames
=============================================================================
