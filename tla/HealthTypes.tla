---------------------------- MODULE HealthTypes ----------------------------
(***************************************************************************)
(* The two enumerations every part of the extension exchanges: the status  *)
(* of a dependency or check, and the state of a circuit.  Both are Go      *)
(* iota constants and the code compares statuses with > (the gate, the     *)
(* overall status), so they are modelled by their ordinals.                *)
(***************************************************************************)
EXTENDS Integers

StatusUp       == 0
StatusDegraded == 1
StatusDown     == 2
StatusUnknown  == 3

Status == {StatusUp, StatusDegraded, StatusDown, StatusUnknown}

CircuitClosed   == 0
CircuitOpen     == 1
CircuitHalfOpen == 2

CircuitState == {CircuitClosed, CircuitOpen, CircuitHalfOpen}
=============================================================================
