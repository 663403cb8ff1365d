CONSTANTS
  Contexts <- MCContexts
  Later <- MCLater
  MaxErrors = 2
  Limit = 4
SPECIFICATION FrontendSpec
INVARIANT LongestTokens
INVARIANT ReadAsGrammar
INVARIANT DeclarationsFound
INVARIANT AcceptedIsPlanned
INVARIANT TracersAgree
INVARIANT SummariesAgree
INVARIANT SummaryExact
INVARIANT AnalysisAgrees
INVARIANT ResultsFit
CHECK_DEADLOCK FALSE
