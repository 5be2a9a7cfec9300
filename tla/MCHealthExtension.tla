-------------------------- MODULE MCHealthExtension --------------------------
(***************************************************************************)
(* Values for the constants of HealthExtension.                            *)
(***************************************************************************)
EXTENDS HealthExtension

CONSTANTS db, mail

Answering(dbAnswers, mailAnswers) ==
  [c \in Checks |-> IF c = db THEN dbAnswers ELSE mailAnswers]

MailIsWeak   == Answering({StatusUp, StatusDegraded, StatusDown}, {StatusDegraded})
MailVaries   == Answering({StatusUp}, {StatusUp, StatusDown})
=============================================================================
