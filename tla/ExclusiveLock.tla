--------------------------- MODULE ExclusiveLock ---------------------------
(***************************************************************************)
(* What snap_lock promises the threads that use it, as snap_lock.h states  *)
(* it: lock() waits and returns with the lock or without it, at most one   *)
(* thread has it, it is over when it is released or when its time is up.   *)
(***************************************************************************)
CONSTANT Clients

(* What each thread knows: "idle", "waiting", "held", or "over" for a lock  *)
(* that timed out and was not released yet.                                *)
VARIABLE state

Init == state = [c \in Clients |-> "idle"]

Free == \A c \in Clients : state[c] # "held"

Ask(c) == state[c] = "idle" /\ state' = [state EXCEPT ![c] = "waiting"]

Grant(c) ==
  /\ state[c] = "waiting"
  /\ Free
  /\ state' = [state EXCEPT ![c] = "held"]

(* lock() returns false; the grant may also come when its time is up.      *)
Refuse(c) ==
  /\ state[c] = "waiting"
  /\ \E s \in {"idle", "over"} : state' = [state EXCEPT ![c] = s]

Release(c) ==
  /\ state[c] \in {"held", "over"}
  /\ state' = [state EXCEPT ![c] = "idle"]

Expire ==
  state' = [c \in Clients |-> IF state[c] = "held" THEN "over" ELSE state[c]]

Next ==
  \/ Expire
  \/ \E c \in Clients : Ask(c) \/ Grant(c) \/ Refuse(c) \/ Release(c)

Spec == Init /\ [][Next]_state
=============================================================================
