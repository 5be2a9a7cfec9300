----------------------------- MODULE MCRegistry -----------------------------
EXTENDS Registry

CONSTANTS db1, db2, mail   \* db2 replaces db1; mail is passive

\* A check can be replaced by another of its name.
SomeChecks == {db1, db2, mail}
SomeNames  == {"db", "mail"}
SomeNameOf == [c \in SomeChecks |-> IF c = mail THEN "mail" ELSE "db"]
SomeActive == [c \in SomeChecks |-> c # mail]

FewChecks == {db1, mail}
FewNames  == {"db", "mail"}
FewNameOf == [c \in FewChecks |-> IF c = db1 THEN "db" ELSE "mail"]
FewActive == [c \in FewChecks |-> c # mail]
=============================================================================
