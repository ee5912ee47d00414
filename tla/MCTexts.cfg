SPECIFICATION Spec
CONSTANTS
  MinDigits = 2
  MaxDigits = 4
  MinIban = 2
  MaxIban = 4
  MaxField = 3
  MaxTotal = 8
  MaxTexts = 3
  RequestBytes = 20
  None = None
  CardRuns <- MCCardRuns
  IbanRuns <- MCIbanRuns
  WordRuns <- MCWordRuns
  CandidateSets <- MCCandidateSets
  Texts <- MCTexts
  Sizes <- MCSizes
  Shown <- MCSnippets
  Requests <- MCRequests
  Loads <- MCLoads
  Scores <- MCRanked
  Vectors <- MCVectors
  Answers <- MCAnswers
INVARIANTS
  ResultsAccepted
  NothingLost
\* Every calculation ends.
CHECK_DEADLOCK FALSE
