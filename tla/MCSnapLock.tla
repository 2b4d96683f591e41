----------------------------- MODULE MCSnapLock -----------------------------
(***************************************************************************)
(* Small instances of SnapLock for TLC: the leaders are 1, 2 and 3, the    *)
(* threads are numbered from 1 in the order of their entering keys.        *)
(***************************************************************************)
EXTENDS SnapLock

\* every thread runs on a computer that is not a leader
HomeProxy == [c \in Clients |-> NoLeader]
\* every thread runs on the computer of the first leader
HomeFirst == [c \in Clients |-> 1]
\* thread 1 runs on the computer of leader 1, the others on that of leader 2
HomeSplit == [c \in Clients |-> IF c = 1 THEN 1 ELSE 2]
\* thread 1 runs on the computer of leader 1, the others on one of no leader
HomeMixed == [c \in Clients |-> IF c = 1 THEN 1 ELSE NoLeader]

\* unlock_duration left to its default
UnlockDefault == {SNAP_UNLOCK_USES_LOCK_TIMEOUT}
=============================================================================
