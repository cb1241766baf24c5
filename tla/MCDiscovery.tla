---------------------------- MODULE MCDiscovery -----------------------------
(***************************************************************************)
(* Small instances of Discovery for TLC.                                   *)
(***************************************************************************)
EXTENDS Discovery, TLC

CONSTANTS c1, c2, sn1, mac2, hw2, x, y

\* c1 has a serial number, however it is found.  c2 has none: a datagram gives
\* it the name of its MAC address, an address typed in that of its hardware.
OneSerial   == c1 :> sn1
OneMac      == c2 :> mac2
OneHardware == c2 :> hw2
=============================================================================
