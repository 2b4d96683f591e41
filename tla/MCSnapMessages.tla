--------------------------- MODULE MCSnapMessages ---------------------------
(***************************************************************************)
(* Four computers in a ring, so that two of them are connected through two *)
(* others: what 1 broadcasts reaches 4 twice.  Message 1 is a broadcast of *)
(* computer 1, messages 2, 3 and 4 go from computer 2 to the service of 4, *)
(* 3 with a longer time in the cache, 4 with none (cache=no).              *)
(***************************************************************************)
EXTENDS SnapMessages

Ring == {{1, 2}, {1, 3}, {2, 4}, {3, 4}}

OnFour == [c \in Computers |-> IF c = 4 THEN Services ELSE {}]

FromRing == <<1, 2, 2, 2>>

ServerRing == <<AnyServer, 4, 4, 4>>

ServiceRing == <<"*", "lock", "lock", "lock">>

TTLRing == <<0, 0, 1, 0>>

(***************************************************************************)
(* One message of computer 1: to a service of any computer, and broadcast. *)
(***************************************************************************)
FromOne == <<1>>

AnyOne == <<AnyServer>>

LockOne == <<"lock">>

AllOne == <<"*">>

TTLOne == <<1>>

(***************************************************************************)
(* Eight computers, of which 5 has a short and a long way to 1, and 8      *)
(* hears of 1 from 5 only.                                                 *)
(***************************************************************************)
TwoWays == {{1, 2}, {2, 5}, {1, 3}, {3, 4}, {4, 6}, {6, 7}, {7, 5}, {5, 8}}

OnEight == [c \in Computers |-> IF c = 8 THEN Services ELSE {}]
=============================================================================
