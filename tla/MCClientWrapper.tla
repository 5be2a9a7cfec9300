-------------------------- MODULE MCClientWrapper --------------------------
EXTENDS ClientWrapper

CONSTANTS c1, c2, r1
=============================================================================
