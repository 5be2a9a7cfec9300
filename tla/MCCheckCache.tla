---------------------------- MODULE MCCheckCache ----------------------------
EXTENDS CheckCache

CONSTANTS c1, c2
=============================================================================
