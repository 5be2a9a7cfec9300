SPECIFICATION FairSpec
CONSTANTS
  db = db
  mail = mail
  Declared = {db, mail}
  Late = {}
  ActiveChecks = {db}
  ReadinessChecks = {db}
  Answers <- MailVaries
  SnapshotTTL = 1
  Polls = TRUE
  StoreFailureThreshold = 2
  DegradedThreshold = 1
PROPERTY ReadyRecovers
