SPECIFICATION FairSpec
CONSTANTS
  db = db
  mail = mail
  Declared = {mail}
  Late = {db}
  ActiveChecks = {db}
  ReadinessChecks = {db}
  Answers <- MailIsWeak
  SnapshotTTL = 1
  Polls = TRUE
  StoreFailureThreshold = 1
  DegradedThreshold = 1
INVARIANTS TypeOK DeclaredAreKnown
PROPERTIES StoreLeftAlone AnswersShow RecoveryShows
