--------------------------- MODULE MCSnapCluster ---------------------------
(***************************************************************************)
(* Small instances of SnapCluster for TLC.                                 *)
(***************************************************************************)
EXTENDS SnapCluster

\* only the smallest address has neighbours configured: all of them
FirstKnows ==
  [c \in Computers |-> IF \A d \in Computers : c <= d THEN Computers ELSE {}]

\* of two computers, neither has messages of another one to pass on
Own == [c \in Computers |-> [d \in Computers |-> {d}]]
=============================================================================
