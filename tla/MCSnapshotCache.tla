-------------------------- MODULE MCSnapshotCache --------------------------
EXTENDS SnapshotCache

CONSTANTS c1, c2, db
=============================================================================
