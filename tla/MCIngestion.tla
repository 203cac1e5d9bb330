------------------------------- MODULE MCIngestion -------------------------------
(* Small instances of Ingestion for TLC. *)
EXTENDS Ingestion, TLC

CONSTANTS g1, g2, g3, r1, r2, o1, l1, m1, acme, globex

\* Two Greenhouse boards, the first longer than its share with the one posting that
\* fits beyond it; a RemoteOK feed that begins with its legal notice; one Lever board
\* and one Google listing, which is too long for its column; the user types in one more
\* posting, without a company.
MCBoards == [greenhouse |-> <<"acme", "globex">>, remoteok |-> <<"all">>,
             google_jobs |-> <<"all">>, lever |-> <<"globex">>]
MCFeed   == [greenhouse |-> [acme |-> <<g1, g2>>, globex |-> <<g3>>],
             remoteok   |-> [all |-> <<r2, r1>>],
             google_jobs |-> [all |-> <<o1>>], lever |-> [globex |-> <<l1>>]]

MCMentions == [p \in {g2, g3, r1, o1, l1} |-> {"engineer"}] @@ [p \in {g1, r2, m1} |-> {}]

MCProviderOf == [p \in {g1, g2, g3} |-> "greenhouse"] @@ [p \in {r1, r2} |-> "remoteok"]
                @@ (o1 :> "google_jobs") @@ (l1 :> "lever") @@ (m1 :> NoProvider)
MCNamed      == [p \in {g1, g2, r1} |-> acme] @@ [p \in {g3, r2, o1, l1, m1} |-> NoCompany]
MCToken      == [acme |-> acme, globex |-> globex]
MCCompanyOf  == [p \in Postings |-> Company(ProviderOf[p], p)]

Symmetry == Permutations(Ingesters)
=============================================================================
