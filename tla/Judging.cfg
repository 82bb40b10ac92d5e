SPECIFICATION MCSpec
CONSTANTS
  i1 = i1
  c1 = c1
  c2 = c2
  Ideas = {i1}
  Challenges = {c1, c2}
  About <- MCAbout
  Proposing = {c1}
  Weaker = {i1}
  Tasks = {t1, t2}
  Nil = Nil
INVARIANTS
  AppliedMeansWritten
  
PROPERTIES
  TransactionsEnd
  EveryChallengeAudited
