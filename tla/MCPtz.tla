------------------------------- MODULE MCPtz --------------------------------
(***************************************************************************)
(* Small instances of PtzController for TLC.                               *)
(***************************************************************************)
EXTENDS PtzController, TLC

CONSTANTS v1, v2, t1, t2

PtzSet(b, i) == [bounded |-> b, stopImmediate |-> i]

AllSettings     == PtzSettings
QueuedUnbounded == {PtzSet(FALSE, FALSE)}
ImmUnbounded    == {PtzSet(FALSE, TRUE)}
Bounded         == {PtzSet(TRUE, FALSE), PtzSet(TRUE, TRUE)}

\* Calling threads and velocities are interchangeable.
Symmetry == Permutations({t1, t2}) \cup Permutations({v1, v2})
=============================================================================
