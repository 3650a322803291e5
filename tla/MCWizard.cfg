\* Two runs, the second after the first was done or given up.
CONSTANTS
  Answers <- MCAnswers
  Sold <- MCSold
  Token <- MCToken
  MaxFaults = 2
  MaxRuns = 2
SPECIFICATION Spec
\* The form may be left alone; contracts that do not exist end in nothing.
CHECK_DEADLOCK FALSE
INVARIANTS
  TypeOK
  
  NothingTwice
  AdminCredential
PROPERTIES
  Resumes
