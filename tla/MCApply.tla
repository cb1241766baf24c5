------------------------------ MODULE MCApply -------------------------------
(***************************************************************************)
(* Small instances of ApplyPipeline for TLC.                               *)
(***************************************************************************)
EXTENDS ApplyPipeline, TLC

CONSTANTS a, b, s1, s2, u, w

Row(c, auto) == [cam |-> c, auto |-> auto]

\* Each source follows a camera; or both the other one, s2 by hand.
TwoCameras == (s1 :> Row(a, TRUE)) @@ (s2 :> Row(b, TRUE))
OneManual  == (s1 :> Row(b, TRUE)) @@ (s2 :> Row(a, FALSE))
Tables     == {TwoCameras, OneManual}
FixedTable == {TwoCameras}

\* The vault knows camera a.
OneVault == (a :> u) @@ (b :> NoUserinfo)
=============================================================================
