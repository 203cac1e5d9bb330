SPECIFICATION Spec
CONSTANTS
  g1 = g1
  g2 = g2
  g3 = g3
  r1 = r1
  r2 = r2
  o1 = o1
  l1 = l1
  m1 = m1
  acme = acme
  globex = globex
  Postings = {g1, g2, g3, r1, r2, o1, l1, m1}
  Providers = {"remoteok", "google_jobs", "greenhouse", "lever"}
  Boards <- MCBoards
  Feed <- MCFeed
  Titles = {"engineer"}
  Mentions <- MCMentions
  WithoutId = {r2}
  Named <- MCNamed
  Token <- MCToken
  Title <- MCToken
  Limit = 2
  Floor = 1
  Companies = {acme, globex}
  NoCompany = NoCompany
  NoPosting = NoPosting
  NoProvider = NoProvider
  ProviderOf <- MCProviderOf
  CompanyOf <- MCCompanyOf
  Misfits = {o1}
  Ingesters = {i1, i2}
  MaxCrashes = 1
SYMMETRY Symmetry
CHECK_DEADLOCK FALSE
INVARIANTS
  TypeOK
  DuplicatesNeedOverlap
  AbortsExplained
  DueIsStored
