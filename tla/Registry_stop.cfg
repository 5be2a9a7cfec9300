SPECIFICATION FairSpec
CONSTANTS
  db1 = db1
  db2 = db2
  mail = mail
  Checks <- FewChecks
  Names <- FewNames
  NameOf <- FewNameOf
  IsActive <- FewActive
  MaxStarts = 2
PROPERTY StopHalts
