----------------------------- MODULE MCMonitoring -----------------------------
(* Small instances of Monitoring for TLC. *)
EXTENDS Monitoring, TLC

CONSTANTS m1, m2, j1, j2

InOrder == <<m1, m2>>

On(repeat) ==
  [enabled |-> TRUE, onDown |-> TRUE, onRecovery |-> TRUE, repeat |-> repeat]

Off == [On(FALSE) EXCEPT !.enabled = FALSE]

OnAndOff == {On(TRUE), Off}

AnyJob == Permutations(Jobs)
=============================================================================
