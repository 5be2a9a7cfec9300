SPECIFICATION FairSpec
CONSTANTS
  db1 = db1
  db2 = db2
  mail = mail
  Checks <- SomeChecks
  Names <- SomeNames
  NameOf <- SomeNameOf
  IsActive <- SomeActive
  MaxStarts = 2
INVARIANTS TypeOK TickerAlive ChannelsRetired ResolverEverywhere
PROPERTIES Quiesces KeepsChecking
