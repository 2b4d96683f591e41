------------------------ MODULE MCSnapLockElection ------------------------
(***************************************************************************)
(* Small instances of SnapLockElection for TLC.                            *)
(***************************************************************************)
EXTENDS SnapLockElection

\* all computers are candidates of the same priority
SamePriority == [c \in Computers |-> 14]
\* the LOCK messages are sent on the computer with the largest address
AtLast == [r \in Requests |-> CHOOSE c \in Computers : \A d \in Computers : d <= c]
=============================================================================
