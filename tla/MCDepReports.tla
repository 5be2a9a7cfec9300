---------------------------- MODULE MCDepReports ----------------------------
EXTENDS DepReports

CONSTANTS db, cache, mail
=============================================================================
