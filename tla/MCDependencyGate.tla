-------------------------- MODULE MCDependencyGate --------------------------
(***************************************************************************)
(* Values for the constants of DependencyGate: p is polled or reported, q  *)
(* has a passive or on-demand check.                                       *)
(***************************************************************************)
EXTENDS DependencyGate

CONSTANTS p, q, r1

\* DEGRADED is what UNKNOWN counts as.
NotDegraded == Status \ {StatusDegraded}

MixedRoutes ==
  { <<>>,
    <<NewHardRequirement(p), NewHardRequirement(q)>>,
    <<WithMinStatus(NewSoftRequirement(q), StatusUp),
      WithMinStatus(NewHardRequirement(q), StatusDegraded)>> }
=============================================================================
