------------------- MODULE SnapPermanentConnectionProofs --------------------
(***************************************************************************)
(* For any number of sockets and messages: the threads of a permanent      *)
(* connection are joined one after the other, the messages it keeps stay   *)
(* in order, it has at most one messenger, thread_done() does not wait,    *)
(* and nothing of it is left in the event loop once it is destroyed.       *)
(***************************************************************************)
EXTENDS SnapPermanentConnection, SnapSequencesProofs

(***************************************************************************)
(* The two flags of snap_thread tell where the thread is.                  *)
(***************************************************************************)
ThreadFlags ==
  /\ f_running <=> thread \in {"created", "connecting", "signalling", "leaving"}
  /\ f_started <=> thread \in {"connecting", "signalling", "leaving", "exited"}
  /\ thread \in {"none", "created", "connecting", "signalling", "leaving", "exited"}
  /\ f_running \in BOOLEAN
  /\ f_started \in BOOLEAN

(***************************************************************************)
(* The messages that were written, kept and accepted: nothing is kept      *)
(* while there is a messenger, and what is written and kept is what was    *)
(* accepted until the implementation is marked done, which the timer then  *)
(* is, too.                                                                *)
(***************************************************************************)
MessagesInv ==
  /\ wire \in Seq(Nat)
  /\ cache \in Seq(Nat)
  /\ accepted \in Seq(Nat)
  /\ sends \in Nat
  /\ done \in BOOLEAN
  /\ f_done \in BOOLEAN
  /\ f_done => done
  /\ messenger # None => cache = <<>>
  /\ CacheInOrder

USE DEF loopVars, ownVars, threadVars, peerVars, msgVars

(***************************************************************************)
(* The flags of the thread agree with it in the initial states.            *)
(***************************************************************************)
LEMMA ThreadFlagsInit == Init => ThreadFlags
  BY DEF Init, ThreadFlags

(***************************************************************************)
(* Each step of the event loop, of the thread and of the others keeps them *)
(* in agreement.                                                           *)
(***************************************************************************)
LEMMA ThreadFlagsNext == ThreadFlags /\ [Next]_vars => ThreadFlags'
<1> SUFFICES ASSUME ThreadFlags, [Next]_vars PROVE ThreadFlags'
  OBVIOUS
<1>1. CASE UNCHANGED vars
  BY <1>1 DEF vars, ThreadFlags
<1>2. CASE Loop
  <2>1. CASE process_timeout_Start
    BY <2>1 DEF process_timeout_Start, CanStart, ThreadFlags
  <2>2. CASE thread_done_Ignored \/ thread_done_Failed
             \/ thread_done_Connected \/ destroy_Ends
    BY <2>2 DEF thread_done_Ignored, thread_done_Failed, thread_done_Connected,
                destroy_Ends, Join, ThreadFlags
  <2>3. CASE \/ \E due \in BOOLEAN : Poll(due)
             \/ process_timeout_Idle \/ process_timeout_Fail
             \/ start_Returns \/ thread_done \/ destroy
    BY <2>3 DEF Poll, process_timeout_Idle, process_timeout_Fail, start_Returns,
                thread_done, destroy, ThreadFlags
  <2>4. CASE \E n \in Sockets :
               process_message(n) \/ process_write(n) \/ process_hup(n)
    BY <2>4 DEF process_message, process_write, process_hup, ThreadFlags
  <2>5. QED
    BY <1>2, <2>1, <2>2, <2>3, <2>4 DEF Loop
<1>3. CASE Thread
  BY <1>3 DEF Thread, internal_run_Started, connect_Succeeds, connect_Fails,
              trigger_thread_done, internal_run_Ends, ThreadFlags
<1>4. CASE Elsewheres
  <2>1. UNCHANGED <<thread, f_running, f_started>>
    BY <1>4 DEF Elsewheres, send_message, gossip, stop_Down, stop_Up, shutdown
  <2>2. QED
    BY <2>1 DEF ThreadFlags
<1>5. CASE Peer
  BY <1>5 DEF Peer, peer_Closes, peer_Refuses, ThreadFlags
<1>6. QED
  BY <1>1, <1>2, <1>3, <1>4, <1>5 DEF Next

(***************************************************************************)
(* snap_thread::start() never creates a thread while another one runs or   *)
(* was not joined, and stop() never returns before the thread ended: the   *)
(* property NoThreadLost, from f_running and f_started alone.              *)
(***************************************************************************)
THEOREM ThreadsJoined == Spec => NoThreadLost
<1> DEFINE Step ==
      /\ thread' # thread /\ thread' = "created" => thread = "none"
      /\ main \in {"joining", "destroying"} /\ main' = "loop"
         => thread \in {"none", "exited"}
<1>1. ThreadFlags /\ [Next]_vars => [Step]_vars
  <2> SUFFICES ASSUME ThreadFlags, Next PROVE Step
    BY DEF vars
  <2>1. CASE Loop
    <3>1. CASE process_timeout_Start
      BY <3>1 DEF process_timeout_Start, CanStart, ThreadFlags, Turn
    <3>2. CASE thread_done_Ignored \/ thread_done_Failed
               \/ thread_done_Connected \/ destroy_Ends
      BY <3>2 DEF thread_done_Ignored, thread_done_Failed,
                  thread_done_Connected, destroy_Ends, Join, ThreadFlags
    <3>3. CASE \/ \E due \in BOOLEAN : Poll(due)
               \/ process_timeout_Idle \/ process_timeout_Fail
               \/ start_Returns \/ thread_done \/ destroy
      BY <3>3 DEF Poll, process_timeout_Idle, process_timeout_Fail,
                  start_Returns, thread_done, destroy, Turn
    <3>4. CASE \E n \in Sockets :
                 process_message(n) \/ process_write(n) \/ process_hup(n)
      BY <3>4 DEF process_message, process_write, process_hup, Turn
    <3>5. QED
      BY <2>1, <3>1, <3>2, <3>3, <3>4 DEF Loop
  <2>2. CASE Thread
    BY <2>2 DEF Thread, internal_run_Started, connect_Succeeds, connect_Fails,
                trigger_thread_done, internal_run_Ends
  <2>3. CASE Elsewheres
    BY <2>3 DEF Elsewheres, send_message, gossip, stop_Down, stop_Up, shutdown
  <2>4. CASE Peer
    BY <2>4 DEF Peer, peer_Closes, peer_Refuses
  <2>5. QED
    BY <2>1, <2>2, <2>3, <2>4 DEF Next
<1>2. QED
  BY <1>1, ThreadFlagsInit, ThreadFlagsNext, PTL DEF Spec, NoThreadLost

(***************************************************************************)
(* What the sequences of messages do when one is accepted: it is appended  *)
(* to what is written, if nothing is kept, or to what is kept.             *)
(***************************************************************************)
LEMMA AppendLast ==
  ASSUME NEW a \in Seq(Nat), NEW b \in Seq(Nat), NEW m \in Nat
  PROVE  a \o Append(b, m) = Append(a \o b, m)
<1>1. /\ a \o b \in Seq(Nat)
      /\ Append(b, m) \in Seq(Nat)
      /\ Len(Append(b, m)) = Len(b) + 1
      /\ \A i \in 1..Len(b) : Append(b, m)[i] = b[i]
      /\ Append(b, m)[Len(b) + 1] = m
  OBVIOUS
<1>2. /\ Len(a \o Append(b, m)) = Len(a) + Len(b) + 1
      /\ Len(Append(a \o b, m)) = Len(a) + Len(b) + 1
  BY <1>1
<1>3. \A i \in 1..(Len(a) + Len(b) + 1) :
        (a \o Append(b, m))[i] = Append(a \o b, m)[i]
  BY <1>1
<1>4. a \o Append(b, m) \in Seq(Nat) /\ Append(a \o b, m) \in Seq(Nat)
  BY <1>1
<1>5. QED
  BY <1>2, <1>3, <1>4, SeqEqual

(***************************************************************************)
(* An empty sequence behind another one does not change it.                *)
(***************************************************************************)
LEMMA ConcatEmpty ==
  ASSUME NEW a \in Seq(Nat)
  PROVE  a \o <<>> = a
  OBVIOUS

(***************************************************************************)
(* There is no message at the start.                                       *)
(***************************************************************************)
LEMMA MessagesInit == Init => MessagesInv
<1> SUFFICES ASSUME Init PROVE MessagesInv
  OBVIOUS
<1>1. /\ wire = <<>> /\ cache = <<>> /\ accepted = <<>> /\ sends = 0
      /\ done = FALSE /\ f_done = FALSE
  BY DEF Init
<1>2. wire \o cache = accepted
  BY <1>1
<1>3. wire \in Seq(Nat) /\ cache \in Seq(Nat) /\ accepted \in Seq(Nat)
  BY <1>1
<1>4. done \in BOOLEAN /\ f_done \in BOOLEAN /\ (f_done => done)
  BY <1>1
<1>5. QED
  BY <1>1, <1>2, <1>3, <1>4 DEF MessagesInv, CacheInOrder

(***************************************************************************)
(* The steps keep what is written and kept equal to what was accepted:     *)
(* only thread_done(), send_message() and mark_done() touch the messages,  *)
(* and no other step makes a messenger.                                    *)
(***************************************************************************)
LEMMA MessagesNext == MessagesInv /\ [Next]_vars => MessagesInv'
<1> SUFFICES ASSUME MessagesInv, [Next]_vars PROVE MessagesInv'
  OBVIOUS
<1>a. ASSUME UNCHANGED <<wire, cache, accepted, sends, done, f_done>>,
             messenger' \in {messenger, None}
      PROVE  MessagesInv'
  BY <1>a DEF MessagesInv, CacheInOrder
<1>1. CASE UNCHANGED vars
  BY <1>1, <1>a DEF vars
<1>2. CASE Loop
  <2>1. CASE thread_done_Connected
    <3>1. /\ ~f_done /\ UNCHANGED <<accepted, sends, done, f_done>>
          /\ cache' = <<>> /\ wire' = wire \o cache
      BY <2>1 DEF thread_done_Connected, Flush
    <3>2. wire' \in Seq(Nat) /\ wire' = accepted
      BY <3>1 DEF MessagesInv, CacheInOrder
    <3>3. wire' \o cache' = accepted'
      BY <3>1, <3>2, ConcatEmpty
    <3>4. QED
      BY <3>1, <3>2, <3>3 DEF MessagesInv, CacheInOrder
  <2>2. CASE thread_done_Ignored \/ thread_done_Failed
             \/ process_timeout_Idle \/ process_timeout_Fail
             \/ process_timeout_Start
    BY <2>2, <1>a DEF thread_done_Ignored, thread_done_Failed,
         process_timeout_Idle, process_timeout_Fail, process_timeout_Start
  <2>3. CASE \/ \E due \in BOOLEAN : Poll(due)
             \/ start_Returns \/ thread_done \/ destroy \/ destroy_Ends
    BY <2>3, <1>a DEF Poll, start_Returns, thread_done, destroy, destroy_Ends,
         Disconnected
  <2>4. CASE \E n \in Sockets :
               process_message(n) \/ process_write(n) \/ process_hup(n)
    BY <2>4, <1>a DEF process_message, process_write, process_hup, Disconnected
  <2>5. QED
    BY <1>2, <2>1, <2>2, <2>3, <2>4 DEF Loop
<1>3. CASE Thread
  BY <1>3, <1>a DEF Thread, internal_run_Started, connect_Succeeds,
       connect_Fails, trigger_thread_done, internal_run_Ends
<1>4. CASE Elsewheres
  <2>1. ASSUME NEW keep \in BOOLEAN, send_message(keep) PROVE MessagesInv'
    <3> DEFINE m == sends + 1
    <3>1. /\ ~done /\ UNCHANGED <<messenger, done, f_done>>
          /\ sends' = m /\ m \in Nat
      BY <2>1 DEF send_message, Elsewhere, MessagesInv
    <3>2. ~f_done /\ wire \o cache = accepted
      BY <3>1 DEF MessagesInv, CacheInOrder
    <3>3. CASE messenger # None
      <4>1. /\ cache' = cache /\ cache = <<>>
            /\ wire' = Append(wire, m) /\ accepted' = Append(accepted, m)
        BY <2>1, <3>3 DEF send_message, Write, MessagesInv
      <4>2. wire = accepted
        BY <3>2, <4>1, ConcatEmpty DEF MessagesInv
      <4>3. wire' \in Seq(Nat) /\ wire' = accepted'
        BY <3>1, <4>1, <4>2 DEF MessagesInv
      <4>4. wire' \o cache' = accepted'
        BY <4>1, <4>3, ConcatEmpty
      <4>5. QED
        BY <3>1, <3>2, <4>1, <4>3, <4>4 DEF MessagesInv, CacheInOrder
    <3>4. CASE messenger = None /\ keep
      <4>1. /\ cache' = Append(cache, m) /\ wire' = wire
            /\ accepted' = Append(accepted, m)
        BY <2>1, <3>4 DEF send_message
      <4>2. wire \o Append(cache, m) = Append(wire \o cache, m)
        BY <3>1, AppendLast DEF MessagesInv
      <4>3. wire' \o cache' = accepted'
        BY <3>2, <4>1, <4>2
      <4>4. cache' \in Seq(Nat) /\ accepted' \in Seq(Nat)
        BY <3>1, <4>1 DEF MessagesInv
      <4>5. QED
        BY <3>1, <3>2, <3>4, <4>1, <4>3, <4>4 DEF MessagesInv, CacheInOrder
    <3>5. CASE messenger = None /\ ~keep
      <4>1. UNCHANGED <<cache, wire, accepted>>
        BY <2>1, <3>5 DEF send_message
      <4>2. QED
        BY <3>1, <4>1 DEF MessagesInv, CacheInOrder
    <3>6. QED
      BY <3>3, <3>4, <3>5
  <2>2. CASE gossip \/ \E quitting \in BOOLEAN : stop_Down(quitting)
    BY <2>2, <1>a DEF gossip, stop_Down, Disconnected
  <2>3. ASSUME NEW all \in BOOLEAN, mark_done(all), ~done,
               UNCHANGED <<messenger, wire, accepted, sends>>
        PROVE  MessagesInv'
    <3>1. ~f_done
      BY <2>3 DEF MessagesInv
    <3>2. /\ done' = TRUE /\ f_done' = all
          /\ cache' = IF all THEN <<>> ELSE cache
      BY <2>3 DEF mark_done
    <3>3. CASE all
      BY <2>3, <3>2, <3>3 DEF MessagesInv, CacheInOrder
    <3>4. CASE ~all
      BY <2>3, <3>1, <3>2, <3>4 DEF MessagesInv, CacheInOrder
    <3>5. QED
      BY <3>3, <3>4
  <2>4. CASE \E all \in BOOLEAN : stop_Up(all)
    BY <2>4, <2>3 DEF stop_Up, Elsewhere
  <2>5. CASE shutdown
    BY <2>5, <2>3 DEF shutdown, Elsewhere
  <2>6. QED
    BY <1>4, <2>1, <2>2, <2>4, <2>5 DEF Elsewheres
<1>5. CASE Peer
  BY <1>5, <1>a DEF Peer, peer_Closes, peer_Refuses
<1>6. QED
  BY <1>1, <1>2, <1>3, <1>4, <1>5 DEF Next

(***************************************************************************)
(* Until the connection is marked done, the messages given to messengers   *)
(* followed by those in f_message_cache are the ones that send_message()   *)
(* accepted, in order, however often the connection breaks.                *)
(***************************************************************************)
THEOREM MessagesInOrder == Spec => []CacheInOrder
<1>1. MessagesInv => CacheInOrder
  BY DEF MessagesInv
<1>2. QED
  BY <1>1, MessagesInit, MessagesNext, PTL DEF Spec

-----------------------------------------------------------------------------
Conns == {Timer, Signal} \cup Sockets

Item == [conn : Conns, event : Events, first : BOOLEAN]

\* the timer is first, the signal is there once, and the sockets are m
ListOK(list, m) ==
  /\ \A i \in 1..Len(list) : list[i] = Timer => i = 1
  /\ \A i, j \in 1..Len(list) : list[i] = Signal /\ list[j] = Signal => i = j
  /\ \A i \in 1..Len(list) : list[i] \in Sockets => list[i] = m

NoTimer(list) == \A i \in 1..Len(list) : list[i] # Timer

(***************************************************************************)
(* The numbers of the timer, of the signal and of the sockets differ.      *)
(***************************************************************************)
LEMMA Numbers ==
  /\ Timer = 0 /\ Signal = 1 /\ None = 0
  /\ \A n \in Sockets : n \in Nat /\ n # Timer /\ n # Signal /\ n # None
  BY PermanentAssumption DEF Timer, Signal, None, Sockets

(***************************************************************************)
(* What remove_connection() leaves: connections that were there and are    *)
(* not removed, in the same order.                                         *)
(***************************************************************************)
LEMMA RemovedProperties ==
  ASSUME NEW list \in Seq(Conns), NEW X
  PROVE  /\ Removed(list, X) \in Seq(Conns)
         /\ \E f : LET r == Removed(list, X) IN
              /\ f \in [1..Len(r) -> 1..Len(list)]
              /\ \A k \in 1..Len(r) : r[k] = list[f[k]] /\ r[k] \notin X
              /\ \A k, l \in 1..Len(r) : k < l => f[k] < f[l]
<1> DEFINE I == {i \in 1..Len(list) : list[i] \notin X}
           r == Selected(list, I)
<1>1. Removed(list, X) = r
  BY DEF Removed
<1>2. r \in Seq(Conns) /\ \E f : IsSelection(r, list, I, Len(list), f)
  BY SelectedProperties
<1>3. PICK f : IsSelection(r, list, I, Len(list), f)
  BY <1>2
<1> HIDE DEF r
<1>4. /\ f \in [1..Len(r) -> 1..Len(list)]
      /\ \A k \in 1..Len(r) : r[k] = list[f[k]] /\ r[k] \notin X
      /\ \A k, l \in 1..Len(r) : k < l => f[k] < f[l]
  BY <1>3 DEF IsSelection
<1>5. QED
  BY <1>1, <1>2, <1>4

(***************************************************************************)
(* A removal keeps the order of the list, and what is removed is gone.     *)
(***************************************************************************)
LEMMA RemovedOK ==
  ASSUME NEW list \in Seq(Conns), NEW m, NEW X, ListOK(list, m)
  PROVE  /\ Removed(list, X) \in Seq(Conns)
         /\ ListOK(Removed(list, X), m)
         /\ m \in X => ListOK(Removed(list, X), None)
         /\ NoTimer(list) \/ Timer \in X => NoTimer(Removed(list, X))
         /\ (\A i \in 1..Len(list) : list[i] \in X) => Removed(list, X) = <<>>
<1> DEFINE r == Removed(list, X)
<1>1. r \in Seq(Conns)
  BY RemovedProperties
<1>2. PICK f :
        /\ f \in [1..Len(r) -> 1..Len(list)]
        /\ \A k \in 1..Len(r) : r[k] = list[f[k]] /\ r[k] \notin X
        /\ \A k, l \in 1..Len(r) : k < l => f[k] < f[l]
  BY RemovedProperties
<1> HIDE DEF r
<1>3. Len(r) \in Nat /\ Len(list) \in Nat
  BY <1>1
<1>4. \A k \in 1..Len(r) : f[k] \in 1..Len(list)
  BY <1>2
<1>5. ASSUME NEW k \in 1..Len(r), r[k] = Timer PROVE k = 1
  <2>1. f[k] = 1
    BY <1>2, <1>4, <1>5 DEF ListOK
  <2>2. 1 \in 1..Len(r) /\ f[1] >= 1
    BY <1>3, <1>4
  <2>3. ~(1 < k)
    BY <1>2, <2>1, <2>2
  <2>4. QED
    BY <1>3, <2>3
<1>6. ASSUME NEW k \in 1..Len(r), NEW l \in 1..Len(r), r[k] = Signal, r[l] = Signal
      PROVE  k = l
  <2>1. f[k] = f[l]
    BY <1>2, <1>4, <1>6 DEF ListOK
  <2>2. ~(k < l) /\ ~(l < k)
    BY <1>2, <1>4, <2>1
  <2>3. QED
    BY <1>3, <2>2
<1>7. \A k \in 1..Len(r) : r[k] \in Sockets => r[k] = m
  BY <1>2, <1>4 DEF ListOK
<1>8. ListOK(r, m)
  BY <1>5, <1>6, <1>7 DEF ListOK
<1>9. m \in X => ListOK(r, None)
  BY <1>2, <1>5, <1>6, <1>7 DEF ListOK
<1>10. NoTimer(list) \/ Timer \in X => NoTimer(r)
  BY <1>2, <1>4 DEF NoTimer
<1>11. ASSUME \A i \in 1..Len(list) : list[i] \in X PROVE r = <<>>
  <2>1. Len(r) = 0
    BY <1>2, <1>3, <1>4, <1>11
  <2>2. QED
    BY <1>1, <2>1
<1>12. QED
  BY <1>1, <1>8, <1>9, <1>10, <1>11 DEF r

\* connection x was appended to the list
Longer(list, longer, x) ==
  /\ longer \in Seq(Conns)
  /\ \A i \in 1..Len(longer) :
       \/ i \in 1..Len(list) /\ longer[i] = list[i]
       \/ i = Len(list) + 1 /\ longer[i] = x

(***************************************************************************)
(* An addition at the end keeps the order of the list: of the signal, or   *)
(* of a socket to a list that has none.                                    *)
(***************************************************************************)
LEMMA AddedOK ==
  ASSUME NEW list \in Seq(Conns), NEW m, ListOK(list, m)
  PROVE  /\ Added(list, Signal) \in Seq(Conns)
         /\ ListOK(Added(list, Signal), m)
         /\ NoTimer(list) => NoTimer(Added(list, Signal))
         /\ m = None => \A n \in Sockets :
              /\ Added(list, n) \in Seq(Conns)
              /\ ListOK(Added(list, n), n)
              /\ NoTimer(list) => NoTimer(Added(list, n))
<1>1. ASSUME NEW x \in Conns, ~In(list, x)
      PROVE  /\ Added(list, x) \in Seq(Conns)
             /\ Len(Added(list, x)) = Len(list) + 1
             /\ \A i \in 1..Len(list) : Added(list, x)[i] = list[i]
             /\ Added(list, x)[Len(list) + 1] = x
  BY <1>1 DEF Added
<1>2. Len(list) \in Nat
  OBVIOUS
<1>a. ASSUME NEW x \in Conns, ~In(list, x)
      PROVE  Longer(list, Added(list, x), x)
  <2>1. \A i \in 1..Len(list) + 1 : i \in 1..Len(list) \/ i = Len(list) + 1
    BY <1>2
  <2>2. QED
    BY <1>1, <1>a, <2>1 DEF Longer
<1>3. /\ Added(list, Signal) \in Seq(Conns)
      /\ ListOK(Added(list, Signal), m)
      /\ NoTimer(list) => NoTimer(Added(list, Signal))
  <2>1. CASE In(list, Signal)
    BY <2>1 DEF Added
  <2>2. CASE ~In(list, Signal)
    <3>1. Longer(list, Added(list, Signal), Signal)
      BY <1>a, <2>2, Numbers DEF Conns
    <3>2. Signal # Timer /\ Signal \notin Sockets
      BY Numbers
    <3>3. QED
      BY <1>2, <2>2, <3>1, <3>2 DEF ListOK, NoTimer, In, Longer
  <2>3. QED
    BY <2>1, <2>2
<1>4. ASSUME m = None, NEW n \in Sockets
      PROVE  /\ Added(list, n) \in Seq(Conns)
             /\ ListOK(Added(list, n), n)
             /\ NoTimer(list) => NoTimer(Added(list, n))
  <2>1. ~In(list, n)
    BY <1>4, Numbers DEF ListOK, In
  <2>2. Longer(list, Added(list, n), n)
    BY <1>4, <1>a, <2>1 DEF Conns
  <2>3. n # Timer /\ n # Signal
    BY <1>4, Numbers
  <2>4. \A i \in 1..Len(list) : list[i] \notin Sockets
    BY <1>4, Numbers DEF ListOK
  <2>5. QED
    BY <1>2, <2>2, <2>3, <2>4 DEF ListOK, NoTimer, Longer
<1>5. QED
  BY <1>3, <1>4

-----------------------------------------------------------------------------
\* h is the function upto of Polled(list, due), on the first n connections
IsPolled(h, list, due, n) ==
  h = [m \in 0..n |->
         IF m = 0 THEN <<>> ELSE h[m - 1] \o Items(list[m], due)]

(***************************************************************************)
(* The recursion in Polled() defines a function.                           *)
(***************************************************************************)
LEMMA PolledExists ==
  ASSUME NEW list, NEW due, NEW n \in Nat
  PROVE  \E h : IsPolled(h, list, due, n)
<1> DEFINE P == {k \in Nat : \E h : IsPolled(h, list, due, k)}
<1>1. 0 \in P
  <2> DEFINE h == [m \in 0..0 |-> <<>>]
  <2>1. IsPolled(h, list, due, 0)
    BY DEF IsPolled
  <2>2. QED
    BY <2>1
<1>2. ASSUME NEW k \in P PROVE k + 1 \in P
  <2>1. PICK h : IsPolled(h, list, due, k)
    OBVIOUS
  <2> DEFINE g == [m \in 0..(k + 1) |->
        IF m = 0 THEN <<>> ELSE h[m - 1] \o Items(list[m], due)]
  <2>2. ASSUME NEW m \in 0..k PROVE g[m] = h[m]
    <3>1. h[m] = IF m = 0 THEN <<>> ELSE h[m - 1] \o Items(list[m], due)
      BY <2>1, Zenon DEF IsPolled
    <3>2. m \in 0..(k + 1)
      OBVIOUS
    <3>3. QED
      BY <3>1, <3>2
  <2>3. \A m \in 0..(k + 1) : m # 0 => m - 1 \in 0..k
    OBVIOUS
  <2> DEFINE gg == [m \in 0..(k + 1) |->
        IF m = 0 THEN <<>> ELSE g[m - 1] \o Items(list[m], due)]
  <2> HIDE DEF g
  <2>4. g = gg
    BY <2>2, <2>3 DEF g
  <2>5. IsPolled(g, list, due, k + 1)
    BY <2>4 DEF IsPolled
  <2>6. QED
    BY <2>5
<1>3. P = Nat
  BY <1>1, <1>2, SetInduction
<1>4. QED
  BY <1>3

PolledBy(h, list, due) ==
  /\ Polled(list, due) = h[Len(list)]
  /\ h[0] = <<>>
  /\ \A n \in 0..Len(list) : n # 0 => h[n] = h[n - 1] \o Items(list[n], due)

(***************************************************************************)
(* Polled() goes through the list and appends the events of each           *)
(* connection.                                                             *)
(***************************************************************************)
LEMMA PolledUpto ==
  ASSUME NEW list \in Seq(Conns), NEW due
  PROVE  \E h : PolledBy(h, list, due)
<1> DEFINE h == CHOOSE h : IsPolled(h, list, due, Len(list))
<1>1. Polled(list, due) = h[Len(list)]
  BY DEF Polled, IsPolled
<1>2. Len(list) \in Nat
  OBVIOUS
<1>3. IsPolled(h, list, due, Len(list))
  BY <1>2, PolledExists
<1> HIDE DEF h
<1>4. \A n \in 0..Len(list) :
        h[n] = IF n = 0 THEN <<>> ELSE h[n - 1] \o Items(list[n], due)
  BY <1>3, Zenon DEF IsPolled
<1>5. 0 \in 0..Len(list)
  BY <1>2
<1>6. QED
  BY <1>1, <1>4, <1>5 DEF PolledBy

(***************************************************************************)
(* Sequences of no element and of one.                                     *)
(***************************************************************************)
LEMMA ShortSequences ==
  ASSUME NEW S, NEW x \in S
  PROVE  <<>> \in Seq(S) /\ <<x>> \in Seq(S) /\ Len(<<x>>) = 1 /\ <<x>>[1] = x
  OBVIOUS

(***************************************************************************)
(* The events of one connection carry its number; the timer has one when   *)
(* it is due, the signal when there is something in the pipe.              *)
(***************************************************************************)
LEMMA ItemsProperties ==
  ASSUME NEW x \in Conns, NEW due \in BOOLEAN
  PROVE  /\ Items(x, due) \in Seq(Item)
         /\ \A i \in 1..Len(Items(x, due)) : Items(x, due)[i].conn = x
         /\ x = Timer /\ ~due => Items(x, due) = <<>>
         /\ x = Signal /\ ~(pipe > 0) => Items(x, due) = <<>>
         /\ x = Timer \/ x = Signal => Len(Items(x, due)) \in {0, 1}
<1> DEFINE e == Pending(x, due)
<1>0. /\ <<>> \in Seq(Events) /\ Len(<<>>) = 0
      /\ \A v \in Events : <<v>> \in Seq(Events) /\ Len(<<v>>) = 1
      /\ {"timeout", "read", "write", "hup"} \subseteq Events
  BY ShortSequences DEF Events
<1>1. /\ e \in Seq(Events)
      /\ x = Timer /\ ~due => e = <<>>
      /\ x = Signal /\ ~(pipe > 0) => e = <<>>
      /\ x = Timer \/ x = Signal => Len(e) \in {0, 1}
  <2>1. CASE x = Timer
    <3>1. e = IF due THEN <<"timeout">> ELSE <<>>
      BY <2>1 DEF Pending
    <3>2. x # Signal
      BY <2>1, Numbers
    <3> HIDE DEF e
    <3>3. CASE due
      BY <1>0, <3>1, <3>2, <3>3
    <3>4. CASE ~due
      BY <1>0, <3>1, <3>2, <3>4
    <3>5. QED
      BY <3>3, <3>4
  <2>2. CASE x = Signal
    <3>1. x # Timer
      BY <2>2, Numbers
    <3>2. e = IF pipe > 0 THEN <<"read">> ELSE <<>>
      BY <2>2, <3>1 DEF Pending
    <3> HIDE DEF e
    <3>3. CASE pipe > 0
      BY <1>0, <3>1, <3>2, <3>3
    <3>4. CASE ~(pipe > 0)
      BY <1>0, <3>1, <3>2, <3>4
    <3>5. QED
      BY <3>3, <3>4
  <2>3. CASE x # Timer /\ x # Signal
    <3> DEFINE a == IF x \in refused THEN <<"read">> ELSE <<>>
               b == IF x \in output THEN <<"write">> ELSE <<>>
               c == IF x \in closed THEN <<"hup">> ELSE <<>>
    <3>1. a \in Seq(Events) /\ b \in Seq(Events) /\ c \in Seq(Events)
      BY <1>0
    <3>2. e = a \o b \o c
      BY <2>3 DEF Pending
    <3> HIDE DEF a, b, c
    <3>3. a \o b \o c \in Seq(Events)
      BY <3>1
    <3>4. QED
      BY <2>3, <3>2, <3>3
  <2>4. QED
    BY <2>1, <2>2, <2>3
<1> HIDE DEF e
<1>2. Items(x, due)
      = [i \in 1..Len(e) |-> [conn |-> x, event |-> e[i], first |-> i = 1]]
  BY DEF Items, e
<1>3. \A i \in 1..Len(e) : e[i] \in Events
  BY <1>1
<1>4. \A i \in 1..Len(e) :
        [conn |-> x, event |-> e[i], first |-> i = 1] \in Item
  BY <1>3 DEF Item
<1>5. Items(x, due) \in Seq(Item) /\ Len(Items(x, due)) = Len(e)
  BY <1>1, <1>2, <1>4
<1>6. \A i \in 1..Len(e) : Items(x, due)[i].conn = x
  BY <1>2
<1>7. Len(e) = 0 => Items(x, due) = <<>>
  BY <1>5
<1>8. QED
  BY <1>1, <1>5, <1>6, <1>7

(***************************************************************************)
(* What poll() returns are events of connections of the list.              *)
(***************************************************************************)
LEMMA PolledProperties ==
  ASSUME NEW list \in Seq(Conns), NEW due \in BOOLEAN
  PROVE  /\ Polled(list, due) \in Seq(Item)
         /\ \A i \in 1..Len(Polled(list, due)) : \E j \in 1..Len(list) :
              /\ Polled(list, due)[i].conn = list[j]
              /\ Items(list[j], due) # <<>>
<1>0. PICK h : PolledBy(h, list, due)
  BY PolledUpto
<1>1. /\ Polled(list, due) = h[Len(list)]
      /\ h[0] = <<>>
      /\ \A n \in 0..Len(list) :
           n # 0 => h[n] = h[n - 1] \o Items(list[n], due)
  BY <1>0 DEF PolledBy
<1> DEFINE Good(b) == /\ b \in Seq(Item)
                      /\ \A i \in 1..Len(b) : \E j \in 1..Len(list) :
                           b[i].conn = list[j] /\ Items(list[j], due) # <<>>
           P == {n \in Nat : n <= Len(list) => Good(h[n])}
<1>2. 0 \in P
  <2>1. <<>> \in Seq(Item) /\ Len(<<>>) = 0
    OBVIOUS
  <2>2. Good(<<>>)
    BY <2>1
  <2>3. Good(h[0])
    BY <1>1, <2>2
  <2>4. QED
    BY <2>3
<1>3. ASSUME NEW n \in P PROVE n + 1 \in P
  <2> SUFFICES ASSUME n + 1 <= Len(list) PROVE Good(h[n + 1])
    OBVIOUS
  <2>1. n \in Nat /\ Good(h[n])
    OBVIOUS
  <2>2. n + 1 \in 1..Len(list) /\ n + 1 \in 0..Len(list) /\ (n + 1) - 1 = n
        /\ n + 1 # 0
    BY <2>1
  <2> DEFINE x == list[n + 1]
             a == h[n]
             b == Items(x, due)
  <2>3. h[n + 1] = a \o b
    BY <1>1, <2>2
  <2>4. x \in Conns
    BY <2>2
  <2>5. b \in Seq(Item) /\ \A i \in 1..Len(b) : b[i].conn = x
    BY <2>4, ItemsProperties
  <2> HIDE DEF P, b, a
  <2>6. a \in Seq(Item)
    BY <2>1 DEF a
  <2>7. ASSUME NEW i \in 1..Len(a \o b)
        PROVE  \E j \in 1..Len(list) :
                 (a \o b)[i].conn = list[j] /\ Items(list[j], due) # <<>>
    <3>1. CASE i \in 1..Len(a)
      <4>1. (a \o b)[i] = a[i]
        BY <2>5, <2>6, <3>1
      <4>2. QED
        BY <2>1, <3>1, <4>1 DEF a
    <3>2. CASE i \notin 1..Len(a)
      <4>1. (a \o b)[i] = b[i - Len(a)] /\ i - Len(a) \in 1..Len(b)
        BY <2>5, <2>6, <3>2
      <4>2. (a \o b)[i].conn = x /\ b # <<>>
        BY <2>5, <4>1
      <4>3. QED
        BY <2>2, <4>2 DEF b
    <3>3. QED
      BY <3>1, <3>2
  <2>8. a \o b \in Seq(Item)
    BY <2>5, <2>6
  <2>9. QED
    BY <2>3, <2>7, <2>8
<1>4. P = Nat
  <2> HIDE DEF P
  <2>1. P \in SUBSET Nat
    BY DEF P
  <2>2. QED
    BY <1>2, <1>3, <2>1, SetInduction
<1>5. Len(list) \in P
  BY <1>4
<1>6. QED
  BY <1>1, <1>5

-----------------------------------------------------------------------------
\* the events b of an iteration that are left, with the messenger m and the
\* thread in t: the timer, the signal of a thread that is done, the timer and
\* then that signal, or events of one socket
Handling(b, m, t) ==
  \/ b = <<>>
  \/ /\ m = None
     /\ Len(b) = 1 /\ b[1].conn = Timer
  \/ /\ m = None /\ t \in {"leaving", "exited"}
     /\ Len(b) = 1 /\ b[1].conn = Signal
  \/ /\ m = None /\ t \in {"leaving", "exited"}
     /\ Len(b) = 2 /\ b[1].conn = Timer /\ b[2].conn = Signal
  \/ /\ t = "none"
     /\ \E n \in Sockets :
          m \in {None, n} /\ \A i \in 1..Len(b) : b[i].conn = n

(***************************************************************************)
(* An iteration of run() begins with events of that form.                  *)
(***************************************************************************)
LEMMA PolledForm ==
  ASSUME NEW list \in Seq(Conns), NEW m \in {None} \cup Sockets, ListOK(list, m),
         NEW due \in BOOLEAN, due => m = None,
         pipe > 0 => m = None /\ thread \in {"leaving", "exited"},
         m # None => thread = "none"
  PROVE  Handling(Polled(list, due), m, thread)
<1> DEFINE p == Polled(list, due)
<1>0. p \in Seq(Item) /\ Len(list) \in Nat
  BY PolledProperties
<1>1. CASE m # None
  <2>1. m \in Sockets /\ ~due /\ ~(pipe > 0) /\ thread = "none"
    BY <1>1
  <2>2. ASSUME NEW i \in 1..Len(p) PROVE p[i].conn = m
    <3>1. PICK j \in 1..Len(list) : p[i].conn = list[j] /\ Items(list[j], due) # <<>>
      BY PolledProperties
    <3>2. list[j] \in Conns
      OBVIOUS
    <3>3. list[j] # Timer /\ list[j] # Signal
      BY <2>1, <3>1, <3>2, ItemsProperties
    <3>4. QED
      BY <3>1, <3>2, <3>3 DEF ListOK, Conns
  <2>3. QED
    BY <2>1, <2>2 DEF Handling
<1>2. CASE m = None
  <2>0. PICK h : PolledBy(h, list, due)
    BY PolledUpto
  <2>1. /\ p = h[Len(list)]
        /\ h[0] = <<>>
        /\ \A n \in 0..Len(list) :
             n # 0 => h[n] = h[n - 1] \o Items(list[n], due)
    BY <2>0 DEF PolledBy
  <2> DEFINE T == Items(Timer, due)
             S == Items(Signal, due)
  <2>11. Timer \in Conns /\ Signal \in Conns
    BY DEF Conns
  <2>2. /\ T \in Seq(Item) /\ Len(T) \in {0, 1}
        /\ \A i \in 1..Len(T) : T[i].conn = Timer
    BY <2>11, ItemsProperties
  <2>3. /\ S \in Seq(Item) /\ Len(S) \in {0, 1}
        /\ \A i \in 1..Len(S) : S[i].conn = Signal
        /\ Len(S) = 1 => thread \in {"leaving", "exited"}
    <3>1. /\ S \in Seq(Item) /\ Len(S) \in {0, 1}
          /\ \A i \in 1..Len(S) : S[i].conn = Signal
          /\ ~(pipe > 0) => S = <<>>
      BY <2>11, ItemsProperties
    <3> HIDE DEF S
    <3>2. S = <<>> => Len(S) = 0
      OBVIOUS
    <3>3. QED
      BY <3>1, <3>2
  <2> HIDE DEF T, S, p
  <2>4. \A i \in 1..Len(list) : list[i] \in {Timer, Signal}
    <3>1. \A i \in 1..Len(list) : list[i] \in Conns
      OBVIOUS
    <3>2. QED
      BY <1>2, <3>1, Numbers DEF ListOK, Conns
  <2>5. \A i \in 1..Len(list) : i # 1 => list[i] = Signal
    BY <2>4 DEF ListOK
  <2>6. Len(list) <= 2
    <3> SUFFICES ASSUME Len(list) > 2 PROVE FALSE
      BY <1>0
    <3>1. 2 \in 1..Len(list) /\ 3 \in 1..Len(list)
      BY <1>0
    <3>2. QED
      BY <2>5, <3>1 DEF ListOK
  <2>7. CASE Len(list) = 0
    BY <2>1, <2>7 DEF Handling, p
  <2>8. CASE Len(list) = 1
    <3>1. p = h[0] \o Items(list[1], due)
      <4>1. 1 \in 0..Len(list) /\ 1 # 0 /\ 1 - 1 = 0
        BY <2>8
      <4>2. QED
        BY <2>1, <2>8, <4>1
    <3>2. list[1] \in {Timer, Signal}
      BY <2>4, <2>8
    <3>3. p = T \/ p = S
      <4>1. <<>> \o T = T /\ <<>> \o S = S
        BY <2>2, <2>3
      <4>2. QED
        BY <2>1, <3>1, <3>2, <4>1 DEF T, S
    <3>4. QED
      BY <1>2, <2>2, <2>3, <3>3 DEF Handling, p
  <2>9. CASE Len(list) = 2
    <3>1. 1 \in 1..Len(list) /\ 2 \in 1..Len(list)
      BY <2>9
    <3>2. list[2] = Signal
      BY <2>5, <3>1
    <3>3. list[1] = Timer
      BY <2>4, <3>1, <3>2 DEF ListOK
    <3>4. p = T \o S
      <4>1. /\ 1 \in 0..Len(list) /\ 1 # 0 /\ 1 - 1 = 0
            /\ 2 \in 0..Len(list) /\ 2 # 0 /\ 2 - 1 = 1
        BY <2>9
      <4>2. h[1] = h[0] \o T /\ p = h[1] \o S
        BY <2>1, <2>9, <3>2, <3>3, <4>1 DEF T, S
      <4>3. <<>> \o T = T
        BY <2>2
      <4>4. QED
        BY <2>1, <4>2, <4>3
    <3>5. CASE Len(T) = 0
      <4>1. p = S
        BY <2>2, <2>3, <3>4, <3>5
      <4>2. QED
        BY <1>2, <2>3, <4>1 DEF Handling, p
    <3>6. CASE Len(S) = 0
      <4>1. p = T
        BY <2>2, <2>3, <3>4, <3>6
      <4>2. QED
        BY <1>2, <2>2, <4>1 DEF Handling, p
    <3>7. CASE Len(T) = 1 /\ Len(S) = 1
      <4>1. Len(p) = 2 /\ p[1] = T[1] /\ p[2] = S[1]
        <5>1. Len(p) = Len(T) + Len(S)
          BY <2>2, <2>3, <3>4
        <5>2. 1 \in 1..Len(T) => p[1] = T[1]
          BY <2>2, <2>3, <3>4
        <5>3. \A i \in 1..Len(p) : i > Len(T) => p[i] = S[i - Len(T)]
          BY <2>2, <2>3, <3>4
        <5>4. QED
          BY <3>7, <5>1, <5>2, <5>3
      <4>2. T[1].conn = Timer /\ S[1].conn = Signal
        BY <2>2, <2>3, <3>7
      <4>3. QED
        BY <1>2, <2>3, <3>7, <4>1, <4>2 DEF Handling, p
    <3>8. QED
      BY <2>2, <2>3, <3>5, <3>6, <3>7
  <2>10. QED
    <3>1. \A k \in Nat : k <= 2 => k = 0 \/ k = 1 \/ k = 2
      OBVIOUS
    <3>2. Len(list) \in Nat
      BY <1>0
    <3>3. QED
      BY <2>6, <2>7, <2>8, <2>9, <3>1, <3>2 DEF p
<1>3. QED
  BY <1>1, <1>2

(***************************************************************************)
(* Who is called: the timer only while there is no messenger, the signal   *)
(* only for a thread that is done, and last, a socket only while there is  *)
(* no thread.                                                              *)
(***************************************************************************)
LEMMA TurnCases ==
  ASSUME batch \in Seq(Item), Handling(batch, messenger, thread),
         NEW x, NEW e, Turn(x, e)
  PROVE  /\ main = "loop"
         /\ batch' \in Seq(Item)
         /\ x = Timer =>
              /\ messenger = None
              /\ \/ batch' = <<>>
                 \/ /\ thread \in {"leaving", "exited"}
                    /\ Len(batch') = 1 /\ batch'[1].conn = Signal
         /\ x = Signal =>
              messenger = None /\ batch' = <<>> /\ thread \in {"leaving", "exited"}
         /\ x \in Sockets =>
              /\ thread = "none"
              /\ messenger \in {None, x}
              /\ \A i \in 1..Len(batch') : batch'[i].conn = x
<1>1. /\ main = "loop" /\ batch # <<>>
      /\ Head(batch).conn = x /\ batch' = Tail(batch)
  BY DEF Turn
<1>2. /\ Head(batch) = batch[1]
      /\ Len(batch) \in Nat /\ Len(batch) # 0
      /\ batch' \in Seq(Item)
      /\ Len(batch') = Len(batch) - 1
      /\ \A i \in 1..Len(batch') : i + 1 \in 1..Len(batch) /\ batch'[i] = batch[i + 1]
  BY <1>1
<1>3. /\ x = Signal => x # Timer
      /\ x \in Sockets => x # Timer /\ x # Signal
  BY Numbers
<1>4. CASE Len(batch) = 1 /\ messenger = None /\ batch[1].conn = Timer
  BY <1>1, <1>2, <1>3, <1>4
<1>5. CASE /\ messenger = None /\ thread \in {"leaving", "exited"}
           /\ Len(batch) = 1 /\ batch[1].conn = Signal
  BY <1>1, <1>2, <1>3, <1>5
<1>6. CASE /\ messenger = None /\ thread \in {"leaving", "exited"}
           /\ Len(batch) = 2 /\ batch[1].conn = Timer /\ batch[2].conn = Signal
  <2>1. Len(batch') = 1 /\ batch'[1].conn = Signal
    BY <1>2, <1>6
  <2>2. QED
    BY <1>1, <1>2, <1>3, <1>6, <2>1
<1>7. ASSUME thread = "none", NEW n \in Sockets, messenger \in {None, n},
             \A i \in 1..Len(batch) : batch[i].conn = n
      PROVE  /\ x = n
             /\ \A i \in 1..Len(batch') : batch'[i].conn = x
  <2>1. x = n
    BY <1>1, <1>2, <1>7
  <2>2. QED
    BY <1>2, <1>7, <2>1
<1>8. CASE /\ thread = "none"
           /\ \E n \in Sockets : /\ messenger \in {None, n}
                               /\ \A i \in 1..Len(batch) : batch[i].conn = n
  BY <1>1, <1>2, <1>7, <1>8, Numbers
<1>9. QED
  BY <1>1, <1>4, <1>5, <1>6, <1>8 DEF Handling

CoreTypes ==
  /\ connections \in Seq(Conns)
  /\ batch \in Seq(Item)
  /\ main \in {"loop", "starting", "joining", "destroying"}
  /\ remote \in BOOLEAN
  /\ owner \in {"has", "left", "gone"}
  /\ enabled \in BOOLEAN
  /\ messenger \in {None} \cup Sockets
  /\ tcp \in {None} \cup Sockets
  /\ pipe \in {0, 1}
  /\ sockets \in 0..MaxSockets
  /\ output \subseteq Sockets
  /\ refused \subseteq Sockets
  /\ closed \subseteq Sockets
  /\ sends \in 0..MaxMessages

ListInv ==
  /\ ListOK(connections, messenger)
  /\ owner # "has" => NoTimer(connections)

BatchInv ==
  /\ Handling(batch, messenger, thread)
  /\ batch # <<>> => main = "loop"

\* the byte in the pipe is there from the moment the thread is done until
\* thread_done() reads it
PipeInv ==
  /\ main = "joining" => thread \in {"leaving", "exited"}
  /\ owner # "gone" =>
       (pipe = 1 <=> thread \in {"leaving", "exited"} /\ main # "joining")

\* the timer is off while there is a messenger
MessengerInv == messenger # None => thread = "none" /\ ~enabled

GoneInv ==
  /\ main = "destroying" => owner = "left"
  /\ owner = "gone" =>
       main = "loop" /\ thread = "none" /\ connections = <<>> /\ batch = <<>>

LoopInv ==
  CoreTypes /\ ListInv /\ BatchInv /\ PipeInv /\ MessengerInv /\ GoneInv

(***************************************************************************)
(* The event loop has the timer alone at the start.                        *)
(***************************************************************************)
LEMMA LoopInit == Init => LoopInv
<1> SUFFICES ASSUME Init PROVE LoopInv
  OBVIOUS
<1>1. connections = <<Timer>> /\ Timer \in Conns
  BY DEF Init, Conns
<1>2. connections \in Seq(Conns) /\ Len(connections) = 1 /\ connections[1] = Timer
  BY <1>1, ShortSequences
<1>3. CoreTypes
  BY <1>2, PermanentAssumption DEF Init, CoreTypes
<1>4. ListInv
  BY <1>2, Numbers DEF Init, ListInv, ListOK
<1>5. BatchInv /\ PipeInv /\ MessengerInv /\ GoneInv
  BY DEF Init, BatchInv, Handling, PipeInv, MessengerInv, GoneInv
<1>6. QED
  BY <1>3, <1>4, <1>5 DEF LoopInv

(***************************************************************************)
(* disconnect() leaves a list without sockets.                             *)
(***************************************************************************)
LEMMA DisconnectedOK ==
  ASSUME CoreTypes, ListInv, NEW X, Disconnected(X)
  PROVE  /\ connections' \in Seq(Conns)
         /\ messenger' = None
         /\ tcp' \in {None} \cup Sockets
         /\ ListOK(connections', None)
         /\ owner # "has" \/ Timer \in X => NoTimer(connections')
<1> DEFINE Y == X \cup ({messenger} \ {None})
<1>1. connections' = Removed(connections, Y)
  BY DEF Disconnected
<1>2. connections \in Seq(Conns) /\ ListOK(connections, messenger)
  BY DEF CoreTypes, ListInv
<1>3. messenger = None \/ messenger \in Y
  OBVIOUS
<1>4. Timer \in X => Timer \in Y
  OBVIOUS
<1> HIDE DEF Y
<1>5. connections' \in Seq(Conns) /\ ListOK(connections', None)
  BY <1>1, <1>2, <1>3, RemovedOK
<1>6. owner # "has" \/ Timer \in X => NoTimer(connections')
  BY <1>1, <1>2, <1>4, RemovedOK DEF ListInv
<1>7. messenger' = None /\ tcp' \in {None} \cup Sockets
  BY DEF Disconnected, CoreTypes
<1>8. QED
  BY <1>5, <1>6, <1>7

(***************************************************************************)
(* An iteration of run() begins.                                           *)
(***************************************************************************)
LEMMA PollOK ==
  ASSUME LoopInv, NEW due \in BOOLEAN, Poll(due)
  PROVE  LoopInv'
<1>1. /\ main = "loop" /\ (due => enabled)
      /\ batch' = Polled(connections, due) /\ batch' # <<>>
      /\ UNCHANGED <<connections, main, remote, owner, enabled, messenger, thread,
                     pipe, tcp, sockets, refused, closed, output, sends>>
  BY DEF Poll
<1>2. connections \in Seq(Conns) /\ ListOK(connections, messenger)
      /\ messenger \in {None} \cup Sockets
  BY DEF LoopInv, CoreTypes, ListInv
<1>3. batch' \in Seq(Item)
  BY <1>1, <1>2, PolledProperties
<1>4. owner # "gone"
  <2> SUFFICES ASSUME owner = "gone" PROVE FALSE
    OBVIOUS
  <2>1. connections = <<>>
    BY DEF LoopInv, GoneInv
  <2>2. \A i \in 1..Len(batch') : \E j \in 1..Len(connections) : TRUE
    BY <1>1, <1>2, PolledProperties
  <2>3. Len(batch') = 0
    <3>1. Len(batch') \in Nat
      BY <1>3
    <3>2. Len(batch') # 0 => 1 \in 1..Len(batch')
      BY <3>1
    <3>3. Len(connections) = 0
      BY <2>1
    <3>4. QED
      BY <2>2, <3>2, <3>3
  <2>4. QED
    BY <1>1, <1>3, <2>3
<1>5. /\ due => messenger = None
      /\ pipe > 0 => messenger = None /\ thread \in {"leaving", "exited"}
      /\ messenger # None => thread = "none"
  BY <1>1, <1>4 DEF LoopInv, MessengerInv, PipeInv, CoreTypes
<1>6. Handling(batch', messenger', thread')
  BY <1>1, <1>2, <1>5, PolledForm
<1>7. CoreTypes' /\ ListInv'
  BY <1>1, <1>3 DEF LoopInv, CoreTypes, ListInv
<1>8. BatchInv' /\ PipeInv' /\ MessengerInv' /\ GoneInv'
  BY <1>1, <1>4, <1>6 DEF LoopInv, BatchInv, PipeInv, MessengerInv, GoneInv
<1>9. QED
  BY <1>7, <1>8 DEF LoopInv

(***************************************************************************)
(* The timer: the signal may be added, a thread may be created.            *)
(***************************************************************************)
LEMMA TimeoutOK ==
  ASSUME LoopInv, ThreadFlags,
         process_timeout_Idle \/ process_timeout_Fail \/ process_timeout_Start
  PROVE  LoopInv'
<1>1. /\ Turn(Timer, "timeout")
      /\ UNCHANGED <<remote, owner, enabled, messenger, pipe, tcp, sockets, refused,
                     closed, output, sends>>
  BY DEF process_timeout_Idle, process_timeout_Fail, process_timeout_Start
<1>2. batch \in Seq(Item) /\ Handling(batch, messenger, thread)
      /\ connections \in Seq(Conns) /\ ListOK(connections, messenger)
  BY DEF LoopInv, CoreTypes, BatchInv, ListInv
<1>3. /\ main = "loop" /\ batch' \in Seq(Item) /\ messenger = None
      /\ \/ batch' = <<>>
         \/ /\ thread \in {"leaving", "exited"}
            /\ Len(batch') = 1 /\ batch'[1].conn = Signal
  BY <1>1, <1>2, TurnCases
<1>4. batch # <<>> /\ owner # "gone"
  BY <1>1 DEF Turn, LoopInv, GoneInv
<1>5. /\ connections' \in Seq(Conns) /\ ListOK(connections', messenger)
      /\ NoTimer(connections) => NoTimer(connections')
  <2>1. connections' = connections \/ connections' = Added(connections, Signal)
    BY DEF process_timeout_Idle, process_timeout_Fail, process_timeout_Start
  <2>2. QED
    BY <1>2, <2>1, AddedOK
<1>6. ListInv'
  BY <1>1, <1>5 DEF LoopInv, ListInv
<1>7. CASE process_timeout_Idle \/ process_timeout_Fail
  <2>1. main' = main /\ thread' = thread
    BY <1>7 DEF process_timeout_Idle, process_timeout_Fail
  <2>2. CoreTypes'
    BY <1>1, <1>3, <1>5, <2>1 DEF LoopInv, CoreTypes
  <2>3. BatchInv'
    BY <1>1, <1>3, <2>1 DEF BatchInv, Handling
  <2>4. PipeInv' /\ MessengerInv' /\ GoneInv'
    BY <1>1, <1>3, <1>4, <2>1 DEF LoopInv, PipeInv, MessengerInv, GoneInv
  <2>5. QED
    BY <1>6, <2>2, <2>3, <2>4 DEF LoopInv
<1>8. CASE process_timeout_Start
  <2>1. ~f_running /\ ~f_started /\ thread' = "created" /\ main' = "starting"
    BY <1>8 DEF process_timeout_Start, CanStart
  <2>2. thread = "none"
    BY <2>1 DEF ThreadFlags
  <2>3. batch' = <<>>
    BY <1>3, <2>2
  <2>4. CoreTypes'
    BY <1>1, <1>3, <1>5, <2>1 DEF LoopInv, CoreTypes
  <2>5. BatchInv'
    BY <2>3 DEF BatchInv, Handling
  <2>6. PipeInv' /\ MessengerInv' /\ GoneInv'
    BY <1>1, <1>3, <1>4, <2>1, <2>2 DEF LoopInv, PipeInv, MessengerInv, GoneInv
  <2>7. QED
    BY <1>6, <2>4, <2>5, <2>6 DEF LoopInv
<1>9. QED
  BY <1>7, <1>8

(***************************************************************************)
(* start() returns, and the steps of the thread.                           *)
(***************************************************************************)
LEMMA ThreadOK ==
  ASSUME LoopInv, ThreadFlags, start_Returns \/ Thread
  PROVE  LoopInv'
<1>1. CASE start_Returns
  <2>1. /\ main = "starting" /\ main' = "loop" /\ enabled' = FALSE
        /\ UNCHANGED <<connections, batch, remote, owner, messenger, thread, pipe,
                       tcp, sockets, refused, closed, output, sends>>
    BY <1>1 DEF start_Returns
  <2>2. CoreTypes' /\ ListInv' /\ BatchInv'
    BY <2>1 DEF LoopInv, CoreTypes, ListInv, BatchInv
  <2>3. PipeInv' /\ MessengerInv' /\ GoneInv'
    BY <2>1 DEF LoopInv, PipeInv, MessengerInv, GoneInv
  <2>4. QED
    BY <2>2, <2>3 DEF LoopInv
<1>2. CASE Thread
  <2>1. UNCHANGED <<connections, batch, main, remote, owner, enabled, messenger,
                    refused, closed, output, sends>>
    BY <1>2 DEF Thread, internal_run_Started, connect_Succeeds, connect_Fails,
                trigger_thread_done, internal_run_Ends
  <2>2. \/ thread \in {"created", "connecting"}
           /\ thread' \in {"connecting", "signalling"} /\ pipe' = pipe
        \/ thread = "signalling" /\ thread' = "leaving" /\ pipe' = pipe + 1
        \/ thread = "leaving" /\ thread' = "exited" /\ pipe' = pipe
    BY <1>2 DEF Thread, internal_run_Started, connect_Succeeds, connect_Fails,
                trigger_thread_done, internal_run_Ends
  <2>3. sockets' \in 0..MaxSockets /\ tcp' \in {None} \cup Sockets
    <3>1. CASE connect_Succeeds
      <4>1. /\ sockets < MaxSockets /\ sockets' = sockets + 1 /\ tcp' = sockets + 2
            /\ sockets \in 0..MaxSockets /\ MaxSockets \in Nat
        BY <3>1, PermanentAssumption DEF connect_Succeeds, LoopInv, CoreTypes
      <4>2. QED
        BY <4>1 DEF Sockets
    <3>2. CASE ~connect_Succeeds
      BY <1>2, <3>2 DEF Thread, internal_run_Started, connect_Fails,
           trigger_thread_done, internal_run_Ends, LoopInv, CoreTypes
    <3>3. QED
      BY <3>1, <3>2
  <2>4. owner # "gone" /\ messenger = None
    BY <2>2 DEF LoopInv, GoneInv, MessengerInv
  <2>5. pipe' \in {0, 1}
    BY <2>2, <2>4 DEF LoopInv, PipeInv, CoreTypes
  <2>6. CoreTypes' /\ ListInv'
    BY <2>1, <2>3, <2>5 DEF LoopInv, CoreTypes, ListInv
  <2>7. BatchInv'
    BY <2>1, <2>2 DEF LoopInv, BatchInv, Handling
  <2>8. PipeInv' /\ MessengerInv' /\ GoneInv'
    BY <2>1, <2>2, <2>4 DEF LoopInv, PipeInv, MessengerInv, GoneInv, CoreTypes
  <2>9. QED
    BY <2>6, <2>7, <2>8 DEF LoopInv
<1>3. QED
  BY <1>1, <1>2

(***************************************************************************)
(* The signal: the pipe is read and the signal leaves the event loop.      *)
(***************************************************************************)
LEMMA SignalOK ==
  ASSUME LoopInv, thread_done
  PROVE  LoopInv'
<1>1. /\ Turn(Signal, "read") /\ main' = "joining" /\ pipe' = pipe - 1
      /\ connections' = Removed(connections, {Signal})
      /\ UNCHANGED <<remote, owner, enabled, messenger, thread, tcp, sockets,
                     refused, closed, output, sends>>
  BY DEF thread_done
<1>2. batch \in Seq(Item) /\ Handling(batch, messenger, thread)
      /\ connections \in Seq(Conns) /\ ListOK(connections, messenger)
  BY DEF LoopInv, CoreTypes, BatchInv, ListInv
<1>3. /\ main = "loop" /\ messenger = None /\ batch' = <<>>
      /\ batch' \in Seq(Item) /\ thread \in {"leaving", "exited"}
  BY <1>1, <1>2, TurnCases, Numbers
<1>4. pipe = 1 /\ owner # "gone"
  BY <1>3 DEF LoopInv, PipeInv, GoneInv
<1>5. /\ connections' \in Seq(Conns) /\ ListOK(connections', messenger)
      /\ NoTimer(connections) => NoTimer(connections')
  BY <1>1, <1>2, RemovedOK
<1>6. CoreTypes' /\ ListInv'
  BY <1>1, <1>3, <1>4, <1>5 DEF LoopInv, CoreTypes, ListInv
<1>7. BatchInv'
  BY <1>3 DEF BatchInv, Handling
<1>8. PipeInv' /\ MessengerInv' /\ GoneInv'
  BY <1>1, <1>3, <1>4 DEF LoopInv, PipeInv, MessengerInv, GoneInv
<1>9. QED
  BY <1>6, <1>7, <1>8 DEF LoopInv

(***************************************************************************)
(* stop() returned: thread_done() goes on, or the destructor does.         *)
(***************************************************************************)
LEMMA JoinOK ==
  ASSUME LoopInv,
         \/ thread_done_Ignored \/ thread_done_Failed \/ thread_done_Connected
         \/ destroy_Ends
  PROVE  LoopInv'
<1>1. /\ main' = "loop" /\ thread' = "none"
      /\ UNCHANGED <<batch, remote, pipe, sockets, refused, closed, sends>>
  BY DEF thread_done_Ignored, thread_done_Failed, thread_done_Connected,
         destroy_Ends, Join
<1>2. /\ connections \in Seq(Conns) /\ ListOK(connections, messenger)
      /\ CoreTypes /\ ListInv
  BY DEF LoopInv, CoreTypes, ListInv
<1>3. CASE thread_done_Ignored \/ thread_done_Failed
  <2>1. /\ main = "joining" /\ tcp' \in {tcp, None} /\ enabled' \in {enabled, TRUE}
        /\ UNCHANGED <<connections, owner, messenger, output>>
    BY <1>3 DEF thread_done_Ignored, thread_done_Failed, Join
  <2>2. messenger = None /\ pipe = 0 /\ batch = <<>> /\ owner # "gone"
    BY <2>1 DEF LoopInv, PipeInv, MessengerInv, BatchInv, GoneInv, CoreTypes
  <2>3. CoreTypes' /\ ListInv'
    BY <1>1, <1>2, <2>1 DEF CoreTypes, ListInv
  <2>4. BatchInv' /\ PipeInv' /\ MessengerInv' /\ GoneInv'
    BY <1>1, <2>1, <2>2 DEF BatchInv, Handling, PipeInv, MessengerInv, GoneInv
  <2>5. QED
    BY <2>3, <2>4 DEF LoopInv
<1>4. CASE thread_done_Connected
  <2>1. /\ main = "joining" /\ tcp # None /\ messenger' = tcp /\ tcp' = None
        /\ connections' = Added(connections, tcp)
        /\ output' \in {output, output \cup {tcp}} /\ enabled' = FALSE
        /\ owner' = owner
    BY <1>4 DEF thread_done_Connected, Join
  <2>2. messenger = None /\ pipe = 0 /\ batch = <<>> /\ owner # "gone"
    BY <2>1 DEF LoopInv, PipeInv, MessengerInv, BatchInv, GoneInv, CoreTypes
  <2>3. tcp \in Sockets
    BY <1>2, <2>1 DEF CoreTypes
  <2>4. /\ connections' \in Seq(Conns) /\ ListOK(connections', tcp)
        /\ NoTimer(connections) => NoTimer(connections')
    BY <1>2, <2>1, <2>2, <2>3, AddedOK
  <2>5. CoreTypes' /\ ListInv'
    BY <1>1, <1>2, <2>1, <2>3, <2>4 DEF CoreTypes, ListInv
  <2>6. BatchInv' /\ PipeInv' /\ MessengerInv' /\ GoneInv'
    BY <1>1, <2>1, <2>2 DEF BatchInv, Handling, PipeInv, MessengerInv, GoneInv
  <2>7. QED
    BY <2>5, <2>6 DEF LoopInv
<1>5. CASE destroy_Ends
  <2>1. /\ main = "destroying" /\ owner' = "gone" /\ Disconnected({Signal})
        /\ UNCHANGED <<enabled, output>>
    BY <1>5 DEF destroy_Ends, Join, Destroyed
  <2>2. owner = "left" /\ batch = <<>>
    BY <2>1 DEF LoopInv, BatchInv, GoneInv
  <2>3. /\ connections' \in Seq(Conns) /\ messenger' = None
        /\ tcp' \in {None} \cup Sockets /\ ListOK(connections', None)
        /\ NoTimer(connections')
    BY <1>2, <2>1, <2>2, DisconnectedOK
  <2>4. connections' = <<>>
    <3> DEFINE Y == {Signal} \cup ({messenger} \ {None})
    <3>1. connections' = Removed(connections, Y)
      BY <2>1 DEF Disconnected
    <3>2. ASSUME NEW i \in 1..Len(connections) PROVE connections[i] \in Y
      <4>1. connections[i] \in Conns /\ connections[i] # Timer
        BY <1>2, <2>2 DEF ListInv, NoTimer
      <4>2. QED
        BY <1>2, <4>1, Numbers DEF ListOK, Conns
    <3> HIDE DEF Y
    <3>3. QED
      BY <1>2, <3>1, <3>2, RemovedOK
  <2>5. CoreTypes' /\ ListInv'
    BY <1>1, <1>2, <2>1, <2>3 DEF CoreTypes, ListInv
  <2>6. BatchInv' /\ PipeInv' /\ MessengerInv' /\ GoneInv'
    BY <1>1, <2>1, <2>2, <2>3, <2>4
       DEF BatchInv, Handling, PipeInv, MessengerInv, GoneInv
  <2>7. QED
    BY <2>5, <2>6 DEF LoopInv
<1>6. QED
  BY <1>3, <1>4, <1>5

(***************************************************************************)
(* The callbacks of a messenger, also of one that was disconnected since   *)
(* poll() returned.                                                        *)
(***************************************************************************)
LEMMA CallbackOK ==
  ASSUME LoopInv, NEW n \in Sockets,
         process_message(n) \/ process_write(n) \/ process_hup(n)
  PROVE  LoopInv'
<1>1. /\ \E e \in {"read", "write", "hup"} : Turn(n, e)
      /\ UNCHANGED <<main, remote, owner, thread, pipe, sockets, sends>>
      /\ refused' \subseteq refused /\ closed' \subseteq closed
      /\ output' \subseteq output
  BY DEF process_message, process_write, process_hup
<1>2. /\ batch \in Seq(Item) /\ Handling(batch, messenger, thread)
      /\ connections \in Seq(Conns) /\ ListOK(connections, messenger)
      /\ CoreTypes /\ ListInv
  BY DEF LoopInv, CoreTypes, BatchInv, ListInv
<1>3. /\ main = "loop" /\ batch' \in Seq(Item) /\ thread = "none"
      /\ messenger \in {None, n}
      /\ \A i \in 1..Len(batch') : batch'[i].conn = n
  BY <1>1, <1>2, TurnCases
<1>4. owner # "gone"
  BY <1>1 DEF Turn, LoopInv, GoneInv
<1> DEFINE After == /\ messenger' \in {messenger, None}
                    /\ tcp' \in {None} \cup Sockets
                    /\ connections' \in Seq(Conns)
                    /\ ListOK(connections', messenger')
                    /\ NoTimer(connections) => NoTimer(connections')
<1>5. After
  <2>1. ASSUME NEW X, Disconnected(X)
        PROVE  After
    <3>1. /\ connections' \in Seq(Conns) /\ messenger' = None
          /\ tcp' \in {None} \cup Sockets /\ ListOK(connections', None)
      BY <1>2, <2>1, DisconnectedOK
    <3>2. NoTimer(connections) => NoTimer(connections')
      BY <1>2, <2>1, RemovedOK DEF Disconnected
    <3>3. QED
      BY <3>1, <3>2
  <2>2. ASSUME NEW X, connections' = Removed(connections, X),
               UNCHANGED <<messenger, tcp>>
        PROVE  After
    <3>1. /\ connections' \in Seq(Conns) /\ ListOK(connections', messenger)
          /\ NoTimer(connections) => NoTimer(connections')
      BY <1>2, <2>2, RemovedOK
    <3>2. QED
      BY <1>2, <2>2, <3>1 DEF CoreTypes
  <2>3. \/ \E X : Disconnected(X)
        \/ \E X : connections' = Removed(connections, X) /\ UNCHANGED <<messenger, tcp>>
    BY DEF process_message, process_write, process_hup
  <2>4. QED
    BY <2>1, <2>2, <2>3
<1>6. enabled' \in BOOLEAN /\ (messenger' # None => ~enabled')
  <2>1. CASE process_message(n) \/ process_write(n)
    <3>1. enabled' = enabled
      BY <2>1 DEF process_message, process_write
    <3>2. QED
      BY <1>5, <3>1 DEF LoopInv, CoreTypes, MessengerInv
  <2>2. CASE process_hup(n) /\ done
    <3>1. enabled' = enabled
      BY <2>2 DEF process_hup
    <3>2. QED
      BY <1>5, <3>1 DEF LoopInv, CoreTypes, MessengerInv
  <2>3. CASE process_hup(n) /\ ~done
    BY <2>3 DEF process_hup, Disconnected
  <2>4. QED
    BY <2>1, <2>2, <2>3
<1>7. CoreTypes' /\ ListInv'
  BY <1>1, <1>2, <1>3, <1>5, <1>6 DEF CoreTypes, ListInv
<1>8. BatchInv'
  BY <1>1, <1>3, <1>5 DEF BatchInv, Handling
<1>9. PipeInv' /\ MessengerInv' /\ GoneInv'
  BY <1>1, <1>3, <1>4, <1>6 DEF LoopInv, PipeInv, MessengerInv, GoneInv
<1>10. QED
  BY <1>7, <1>8, <1>9 DEF LoopInv

(***************************************************************************)
(* What the rest of the program and the other side of the socket do.       *)
(***************************************************************************)
LEMMA OthersOK ==
  ASSUME LoopInv, Elsewheres \/ destroy \/ Peer
  PROVE  LoopInv'
<1>1. CASE \/ \E keep \in BOOLEAN : send_message(keep)
           \/ \E all \in BOOLEAN : stop_Up(all)
           \/ shutdown
  <2>1. /\ UNCHANGED <<connections, batch, main, remote, owner, enabled, messenger,
                       thread, pipe, tcp, sockets, refused, closed>>
        /\ \/ output' = output
           \/ messenger # None /\ output' = output \cup {messenger}
        /\ \/ sends' = sends
           \/ sends < MaxMessages /\ sends' = sends + 1
    BY <1>1 DEF send_message, Write, stop_Up, shutdown
  <2>2. output' \subseteq Sockets
    BY <2>1 DEF LoopInv, CoreTypes
  <2>3. sends' \in 0..MaxMessages
    BY <2>1, PermanentAssumption DEF LoopInv, CoreTypes
  <2>4. CoreTypes' /\ ListInv' /\ BatchInv'
    BY <2>1, <2>2, <2>3 DEF LoopInv, CoreTypes, ListInv, BatchInv
  <2>5. PipeInv' /\ MessengerInv' /\ GoneInv'
    BY <2>1 DEF LoopInv, PipeInv, MessengerInv, GoneInv
  <2>6. QED
    BY <2>4, <2>5 DEF LoopInv
<1>2. CASE gossip
  <2>1. /\ UNCHANGED <<connections, batch, main, remote, owner, messenger, thread,
                       pipe, tcp, sockets, refused, closed, output, sends>>
        /\ messenger = None /\ enabled' = TRUE
    BY <1>2 DEF gossip
  <2>2. CoreTypes' /\ ListInv' /\ BatchInv'
    BY <2>1 DEF LoopInv, CoreTypes, ListInv, BatchInv
  <2>3. PipeInv' /\ MessengerInv' /\ GoneInv'
    BY <2>1 DEF LoopInv, PipeInv, MessengerInv, GoneInv
  <2>4. QED
    BY <2>2, <2>3 DEF LoopInv
<1>3. ASSUME NEW quitting \in BOOLEAN, stop_Down(quitting) PROVE LoopInv'
  <2>1. /\ owner = "has" /\ owner' = "left" /\ Disconnected({Timer}) /\ main = "loop"
        /\ UNCHANGED <<batch, main, remote, enabled, thread, pipe, sockets, refused,
                       closed, output, sends>>
    BY <1>3 DEF stop_Down, Elsewhere
  <2>2. /\ connections' \in Seq(Conns) /\ messenger' = None
        /\ tcp' \in {None} \cup Sockets /\ ListOK(connections', None)
        /\ NoTimer(connections')
    BY <2>1, DisconnectedOK DEF LoopInv
  <2>3. CoreTypes' /\ ListInv'
    BY <2>1, <2>2 DEF LoopInv, CoreTypes, ListInv
  <2>4. BatchInv'
    BY <2>1, <2>2 DEF LoopInv, BatchInv, Handling
  <2>5. PipeInv' /\ MessengerInv' /\ GoneInv'
    BY <2>1, <2>2 DEF LoopInv, PipeInv, MessengerInv, GoneInv
  <2>6. QED
    BY <2>3, <2>4, <2>5 DEF LoopInv
<1>4. CASE destroy
  <2>1. /\ main = "loop" /\ batch = <<>> /\ owner = "left" /\ main' = "destroying"
        /\ UNCHANGED <<connections, batch, remote, owner, enabled, messenger, thread,
                       pipe, tcp, sockets, refused, closed, output, sends>>
    BY <1>4 DEF destroy
  <2>2. CoreTypes' /\ ListInv' /\ BatchInv'
    BY <2>1 DEF LoopInv, CoreTypes, ListInv, BatchInv
  <2>3. PipeInv' /\ MessengerInv' /\ GoneInv'
    BY <2>1 DEF LoopInv, PipeInv, MessengerInv, GoneInv
  <2>4. QED
    BY <2>2, <2>3 DEF LoopInv
<1>5. CASE Peer
  <2>1. /\ UNCHANGED <<connections, batch, main, remote, owner, enabled, messenger,
                       thread, pipe, tcp, sockets, output, sends>>
        /\ \E n \in Sockets : /\ refused' \in {refused, refused \cup {n}}
                              /\ closed' \in {closed, closed \cup {n}}
    BY <1>5 DEF Peer, peer_Closes, peer_Refuses
  <2>2. CoreTypes' /\ ListInv' /\ BatchInv'
    BY <2>1 DEF LoopInv, CoreTypes, ListInv, BatchInv
  <2>3. PipeInv' /\ MessengerInv' /\ GoneInv'
    BY <2>1 DEF LoopInv, PipeInv, MessengerInv, GoneInv
  <2>4. QED
    BY <2>2, <2>3 DEF LoopInv
<1>6. QED
  BY <1>1, <1>2, <1>3, <1>4, <1>5 DEF Elsewheres

(***************************************************************************)
(* Every step keeps the invariant of the event loop.                       *)
(***************************************************************************)
LEMMA LoopNext == LoopInv /\ ThreadFlags /\ [Next]_vars => LoopInv'
<1> SUFFICES ASSUME LoopInv, ThreadFlags, [Next]_vars PROVE LoopInv'
  OBVIOUS
<1>1. CASE UNCHANGED vars
  BY <1>1 DEF vars, LoopInv, CoreTypes, ListInv, BatchInv, PipeInv, MessengerInv,
              GoneInv
<1>2. CASE Next
  BY <1>2, PollOK, TimeoutOK, ThreadOK, SignalOK, JoinOK, CallbackOK, OthersOK
     DEF Next, Loop
<1>3. QED
  BY <1>1, <1>2

(***************************************************************************)
(* The invariant holds, with that of the flags of the thread.              *)
(***************************************************************************)
LEMMA LoopInvariant == Spec => [](LoopInv /\ ThreadFlags)
  BY LoopInit, LoopNext, ThreadFlagsInit, ThreadFlagsNext, PTL DEF Spec

(***************************************************************************)
(* Type correctness; in particular the pipe is never read when it is       *)
(* empty.                                                                  *)
(***************************************************************************)
THEOREM PermanentTypes == Spec => []TypeOK
<1>1. LoopInv /\ ThreadFlags /\ MessagesInv => TypeOK
  BY DEF LoopInv, CoreTypes, ThreadFlags, MessagesInv, TypeOK, Conns, Item
<1>2. Spec => []MessagesInv
  BY MessagesInit, MessagesNext, PTL DEF Spec
<1>3. QED
  BY <1>1, <1>2, LoopInvariant, PTL

(***************************************************************************)
(* While there is a messenger no thread tries to connect, and no other     *)
(* messenger is in the event loop, whatever was called in between.         *)
(***************************************************************************)
THEOREM OneMessengerAtATime == Spec => []OneMessenger
<1>1. LoopInv => OneMessenger
  BY DEF LoopInv, ListInv, ListOK, MessengerInv, OneMessenger
<1>2. QED
  BY <1>1, LoopInvariant, PTL

(***************************************************************************)
(* thread_done() only waits for a thread that wrote to the pipe already.   *)
(***************************************************************************)
THEOREM StopIsQuick == Spec => []QuickStop
<1>1. LoopInv => QuickStop
  BY DEF LoopInv, PipeInv, QuickStop
<1>2. QED
  BY <1>1, LoopInvariant, PTL

(***************************************************************************)
(* Once the destructor returned, the event loop has nothing left that      *)
(* points to the connection.                                               *)
(***************************************************************************)
THEOREM NothingLeftBehind == Spec => []NothingDangles
<1>1. LoopInv => NothingDangles
  BY DEF LoopInv, GoneInv, NothingDangles
<1>2. QED
  BY <1>1, LoopInvariant, PTL
=============================================================================
