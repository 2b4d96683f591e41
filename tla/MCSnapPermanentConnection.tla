--------------------- MODULE MCSnapPermanentConnection ----------------------
(***************************************************************************)
(* The permanent connection with the bounds of its configuration.          *)
(***************************************************************************)
EXTENDS SnapPermanentConnection
=============================================================================
