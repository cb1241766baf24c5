-------------------------- MODULE MCSoapTransport ---------------------------
(***************************************************************************)
(* Small instances of SoapTransport for TLC.                               *)
(***************************************************************************)
EXTENDS SoapTransport

CONSTANTS h1, h2
=============================================================================
