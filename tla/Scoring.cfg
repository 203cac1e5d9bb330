SPECIFICATION FairSpec
CONSTANTS
  p1 = p1
  p2 = p2
  Postings = {p1, p2}
  NoPosting = NoPosting
  Fields <- MCFields
  Scorers = {s1, s2}
  Scores = {75, 90}
  NoScore = NoScore
  Threshold = 80
  BatchLimit = 1
  Rules <- MCRules
  RuleForms <- MCRuleForms
  DayCounts = {0, 51}
  MaxCrashes = 1
  Substring <- MCSubstring
CHECK_DEADLOCK FALSE
INVARIANTS
  TypeOK
  StatusFitsScore
  SkipExplained
  DecisionsKept
PROPERTIES
  EveryNewScored
