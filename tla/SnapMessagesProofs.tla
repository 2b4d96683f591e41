------------------------- MODULE SnapMessagesProofs --------------------------
(***************************************************************************)
(* Proofs about SnapMessages, for any computers, connections, services and *)
(* messages.                                                               *)
(***************************************************************************)
EXTENDS SnapMessages, SnapSequencesProofs

\* what process_message() is called with: a message of another daemon, or one
\* of a local service, which has no identifier yet
Letters ==
  [ msg : Messages, msgid : (Computers \X Nat) \cup {NoId},
    informed : SUBSET Computers, hops : Nat, timeout : Nat ]

Nets == [Computers -> [Computers -> Seq(Envelopes)]]

\* the envelope that Forward() sends to the computers of T
Sealed(c, e, T) ==
  Envelope(e.msg,
           IF e.msgid = NoId THEN <<c, sequence[c] + 1>> ELSE e.msgid,
           Informed(c, e, T),
           e.hops + 1,
           IF e.msgid = NoId THEN now + BroadcastTTL ELSE e.timeout)

Recalled(c, e) ==
  IF e.msgid = NoId THEN received[c]
  ELSE {r \in received[c] : r.timeout >= now}
       \cup {[msgid |-> e.msgid, timeout |-> e.timeout]}

Announced(c, m) ==
  [x \in Services |->
     IF registered[c][x] = "ready" THEN Append(log[c][x], m) ELSE log[c][x]]

(***************************************************************************)
(* What process_message() does with e on computer c, n being what is in    *)
(* transit once e was taken off the connection.                            *)
(***************************************************************************)
Old(e, c) == Expired(e) \/ \E r \in received[c] : r.msgid = e.msgid

Dropped(c, e, n) ==
  /\ \/ Old(e, c)
     \/ Broadcast(e.msg)
     \/ ~Here(c, e.msg) /\ Server[e.msg] \notin Neighbors(c)
     \/ Here(c, e.msg) /\ Service[e.msg] \notin LocalServices[c]
     \/ Here(c, e.msg) /\ e.msg \in NotCached
  /\ cache' = cache /\ received' = received /\ sequence' = sequence /\ log' = log
  /\ net' = n

Given(c, e, n) ==
  /\ ~Broadcast(e.msg) /\ Here(c, e.msg)
  /\ registered[c][Service[e.msg]] # "no"
  /\ log' = [log EXCEPT ![c] =
               [log[c] EXCEPT ![Service[e.msg]] = Append(log[c][Service[e.msg]], e.msg)]]
  /\ cache' = cache /\ received' = received /\ sequence' = sequence
  /\ net' = n

Stored(c, e, n) ==
  /\ ~Broadcast(e.msg) /\ Here(c, e.msg) /\ e.msg \notin NotCached
  /\ registered[c][Service[e.msg]] = "no"
  /\ cache' = [cache EXCEPT ![c] =
                 Append(@, [msg |-> e.msg, timeout |-> now + CacheTTL[e.msg]])]
  /\ log' = log /\ received' = received /\ sequence' = sequence
  /\ net' = n

Effect(c, e, n, T, R, L) ==
  /\ cache' = cache
  /\ received' = [received EXCEPT ![c] = R]
  /\ log' = [log EXCEPT ![c] = L]
  /\ sequence' = [sequence EXCEPT ![c] = IF T = {} THEN @ ELSE @ + 1]
  /\ net' = [n EXCEPT ![c] =
               [d \in Computers |->
                  IF d \in T THEN Append(@[d], Sealed(c, e, T)) ELSE @[d]]]

Passed(c, e, n, T) ==
  /\ ~Old(e, c)
  /\ \/ /\ Broadcast(e.msg)
        /\ T = Remote(c, e) \ e.informed
        /\ Effect(c, e, n, T, Recalled(c, e), Announced(c, e.msg))
     \/ /\ ~Broadcast(e.msg)
        /\ Server[e.msg] # c
        /\ Server[e.msg] # AnyServer =>
             T = (Neighbors(c) \cap {Server[e.msg]}) \ e.informed
        /\ Effect(c, e, n, T, Recalled(c, e), log[c])

Handled(c, e, n) ==
  \/ Dropped(c, e, n)
  \/ Given(c, e, n)
  \/ Stored(c, e, n)
  \/ \E T \in SUBSET Computers : Passed(c, e, n, T)

-----------------------------------------------------------------------------
\* daemon c with the given cache, identifiers and logs, before it sends anything
State(c, C, R, L) ==
  [ cache |-> C, received |-> R, sequence |-> sequence[c], log |-> L,
    out |-> [d \in Computers |-> <<>>] ]

(***************************************************************************)
(* Forward() numbers the message and sends it to each of the targets.      *)
(***************************************************************************)
LEMMA ForwardFields ==
  ASSUME NEW c, NEW C, NEW R, NEW L, NEW e, NEW T \in SUBSET Computers
  PROVE  LET r == Forward(c, State(c, C, R, L), e, T)
         IN  /\ r.cache = C
             /\ r.received = R
             /\ r.log = L
             /\ r.sequence = IF T = {} THEN sequence[c] ELSE sequence[c] + 1
             /\ r.out = [d \in Computers |->
                           IF d \in T THEN <<Sealed(c, e, T)>> ELSE <<>>]
  <1> DEFINE s == State(c, C, R, L)
  <1>0. /\ s = [ cache |-> s.cache, received |-> s.received, sequence |-> s.sequence,
                 log |-> s.log, out |-> s.out ]
        /\ s.cache = C /\ s.received = R /\ s.log = L /\ s.sequence = sequence[c]
        /\ s.out = [d \in Computers |-> <<>>]
    BY DEF State
  <1> HIDE DEF s
  <1>1. CASE T = {}
    BY <1>0, <1>1 DEF Forward, s
  <1>2. CASE T # {}
    <2> DEFINE o == [d \in Computers |->
                       IF d \in T THEN Append(s.out[d], Sealed(c, e, T)) ELSE s.out[d]]
    <2>1. Forward(c, s, e, T) = [s EXCEPT !.sequence = @ + 1, !.out = o]
      BY <1>0, <1>2 DEF Forward, Sealed, o
    <2>2. o = [d \in Computers |-> IF d \in T THEN <<Sealed(c, e, T)>> ELSE <<>>]
      BY <1>0
    <2> HIDE DEF o
    <2>3. QED  BY <1>0, <1>2, <2>1, <2>2 DEF s
  <1>3. QED  BY <1>1, <1>2

(***************************************************************************)
(* process_message() on the whole: it drops a message, gives it to a       *)
(* service, stores it for one or passes it on.                             *)
(***************************************************************************)
LEMMA Processed ==
  ASSUME TypeOK, NEW c \in Computers, NEW e \in Letters, NEW n \in Nets,
         Finish(c, process_message(c, Daemon(c), e), n)
  PROVE  Handled(c, e, n)
  <1> DEFINE m == e.msg
             s == Daemon(c)
             to == Neighbors(c) \cap (IF Server[m] = AnyServer THEN Computers
                                      ELSE {Server[m]})
             r == process_message(c, s, e)
  <1> USE MessagesAssumption
  <1>1. /\ m \in Messages
        /\ cache = [cache EXCEPT ![c] = cache[c]]
        /\ received = [received EXCEPT ![c] = received[c]]
        /\ sequence = [sequence EXCEPT ![c] = sequence[c]]
        /\ log = [log EXCEPT ![c] = log[c]]
    BY DEF TypeOK, Letters
  <1>2. /\ s = State(c, cache[c], received[c], log[c])
        /\ s.cache = cache[c] /\ s.received = received[c] /\ s.log = log[c]
        /\ s.sequence = sequence[c] /\ s.out = [d \in Computers |-> <<>>]
        /\ s = [ cache |-> s.cache, received |-> s.received, sequence |-> s.sequence,
                 log |-> s.log, out |-> s.out ]
    BY DEF Daemon, State
  <1>3. /\ cache' = [cache EXCEPT ![c] = r.cache]
        /\ received' = [received EXCEPT ![c] = r.received]
        /\ sequence' = [sequence EXCEPT ![c] = r.sequence]
        /\ log' = [log EXCEPT ![c] = r.log]
        /\ net' = [n EXCEPT ![c] = [d \in Computers |-> n[c][d] \o r.out[d]]]
    BY DEF Finish
  <1>4. /\ Expired(e) \/ Again(s, e) <=> Old(e, c)
        /\ to \subseteq Computers
    BY <1>2 DEF Old, Again, Neighbors
  <1>5. ASSUME r.out = [d \in Computers |-> <<>>]
        PROVE  net' = n
    <2>1. \A d \in Computers : n[c][d] \o <<>> = n[c][d]
      BY DEF Nets
    <2>2. [d \in Computers |-> n[c][d] \o r.out[d]] = n[c]
      BY <1>5, <2>1 DEF Nets
    <2>3. QED  BY <1>3, <2>2 DEF Nets
  <1>6. ASSUME NEW T \in SUBSET Computers, NEW R, NEW L,
               r = Forward(c, State(c, cache[c], R, L), e, T)
        PROVE  Effect(c, e, n, T, R, L)
    <2>1. /\ r.cache = cache[c] /\ r.received = R /\ r.log = L
          /\ r.sequence = IF T = {} THEN sequence[c] ELSE sequence[c] + 1
          /\ r.out = [d \in Computers |->
                        IF d \in T THEN <<Sealed(c, e, T)>> ELSE <<>>]
      BY <1>6, ForwardFields
    <2>2. \A d \in Computers : /\ n[c][d] \o <<>> = n[c][d]
                               /\ n[c][d] \o <<Sealed(c, e, T)>>
                                    = Append(n[c][d], Sealed(c, e, T))
      BY DEF Nets
    <2> HIDE DEF r
    <2>3. [d \in Computers |-> n[c][d] \o r.out[d]]
            = [d \in Computers |-> IF d \in T THEN Append(n[c][d], Sealed(c, e, T))
                                  ELSE n[c][d]]
      BY <2>1, <2>2
    <2>4. QED  BY <1>1, <1>3, <2>1, <2>3 DEF Effect
  <1>7. CASE Old(e, c) \/ (Service[m] = "*" /\ Server[m] # AnyServer)
    <2>1. r = s
      BY <1>4, <1>7 DEF process_message
    <2>2. QED  BY <1>1, <1>2, <1>3, <1>5, <1>7, <2>1 DEF Handled, Dropped, Broadcast
  <1> SUFFICES ASSUME ~Old(e, c), ~(Service[m] = "*" /\ Server[m] # AnyServer)
               PROVE  Handled(c, e, n)
    BY <1>7
  <1>8. CASE Broadcast(m)
    <2> DEFINE T == Remote(c, e) \ e.informed
    <2>1. r = Forward(c, DeliverToAll(c, Remember(s, e), m), e, T)
      BY <1>4, <1>8 DEF process_message, broadcast_message
    <2>2. Remember(s, e) = State(c, cache[c], Recalled(c, e), log[c])
      BY <1>2 DEF Remember, State, Recalled
    <2>3. DeliverToAll(c, Remember(s, e), m)
            = State(c, cache[c], Recalled(c, e), Announced(c, m))
      <3> DEFINE t == Remember(s, e)
      <3>1. /\ t = [ cache |-> cache[c], received |-> Recalled(c, e),
                     sequence |-> sequence[c], log |-> log[c],
                     out |-> [d \in Computers |-> <<>>] ]
            /\ t.log = log[c]
        BY <2>2 DEF State
      <3> HIDE DEF t
      <3>2. DeliverToAll(c, t, m) = [t EXCEPT !.log = Announced(c, m)]
        <4> DEFINE told(l) == [x \in Services |->
                                 IF registered[c][x] = "ready" THEN Append(l[x], m)
                                 ELSE l[x]]
        <4>1. DeliverToAll(c, t, m) = [t EXCEPT !.log = told(t.log)]
          BY <3>1 DEF DeliverToAll
        <4>2. told(t.log) = Announced(c, m)
          BY <3>1 DEF Announced
        <4>3. QED  BY <4>1, <4>2
      <3>3. \A l : [t EXCEPT !.log = l] = State(c, cache[c], Recalled(c, e), l)
        BY <3>1 DEF State
      <3>4. QED  BY <3>2, <3>3 DEF t
    <2>4. T \in SUBSET Computers
      BY DEF Remote, Neighbors
    <2> HIDE DEF T, r
    <2>5. Passed(c, e, n, T)
      <3>1. r = Forward(c, State(c, cache[c], Recalled(c, e), Announced(c, m)), e, T)
        BY <2>1, <2>3
      <3>2. QED  BY <1>6, <1>8, <2>4, <3>1 DEF Passed, T
    <2>6. QED  BY <2>4, <2>5 DEF Handled
  <1>9. CASE ~Broadcast(m) /\ Here(c, m) /\ registered[c][Service[m]] # "no"
    <2>1. r = Deliver(c, s, m)
      BY <1>4, <1>9 DEF process_message
    <2>2. /\ r.cache = cache[c] /\ r.received = received[c] /\ r.sequence = sequence[c]
          /\ r.out = [d \in Computers |-> <<>>]
          /\ r.log = [log[c] EXCEPT ![Service[m]] = Append(log[c][Service[m]], m)]
      BY <1>2, <2>1 DEF Deliver
    <2> HIDE DEF r
    <2>3. QED  BY <1>1, <1>3, <1>5, <1>9, <2>2 DEF Handled, Given
  <1>10. CASE /\ ~Broadcast(m) /\ Here(c, m)
              /\ registered[c][Service[m]] = "no" /\ Service[m] \in LocalServices[c]
    <2>1. r = cache_message(s, m)
      BY <1>4, <1>10 DEF process_message
    <2>2. CASE m \in NotCached
      <3>1. r = s
        BY <2>1, <2>2 DEF cache_message
      <3>2. QED  BY <1>1, <1>2, <1>3, <1>5, <1>10, <2>2, <3>1 DEF Handled, Dropped
    <2>3. CASE m \notin NotCached
      <3>1. /\ r.received = received[c] /\ r.sequence = sequence[c] /\ r.log = log[c]
            /\ r.out = [d \in Computers |-> <<>>]
            /\ r.cache = Append(cache[c], [msg |-> m, timeout |-> now + CacheTTL[m]])
        BY <1>2, <2>1, <2>3 DEF cache_message, Stamped
      <3> HIDE DEF r
      <3>2. QED  BY <1>1, <1>3, <1>5, <1>10, <2>3, <3>1 DEF Handled, Stored
    <2>4. QED  BY <2>2, <2>3
  <1>11. CASE /\ ~Broadcast(m)
              /\ Here(c, m) => Service[m] \notin LocalServices[c]
                              /\ registered[c][Service[m]] = "no"
              /\ Server[m] = c \/ to = {}
    <2>1. r = s
      BY <1>4, <1>11 DEF process_message
    <2>2. \/ ~Here(c, m) /\ Server[m] \notin Neighbors(c)
          \/ Here(c, m) /\ Service[m] \notin LocalServices[c]
      BY <1>11 DEF Here
    <2>3. QED  BY <1>1, <1>2, <1>3, <1>5, <2>1, <2>2 DEF Handled, Dropped
  <1>12. CASE /\ ~Broadcast(m)
              /\ Here(c, m) => Service[m] \notin LocalServices[c]
                              /\ registered[c][Service[m]] = "no"
              /\ Server[m] # c /\ to # {}
    <2> DEFINE T == to \ e.informed
    <2>1. r = Forward(c, Remember(s, e), e, T)
      BY <1>4, <1>12 DEF process_message, broadcast_to
    <2>2. Remember(s, e) = State(c, cache[c], Recalled(c, e), log[c])
      BY <1>2 DEF Remember, State, Recalled
    <2>3. /\ T \in SUBSET Computers
          /\ Server[m] # AnyServer => T = (Neighbors(c) \cap {Server[m]}) \ e.informed
      BY <1>4
    <2> HIDE DEF T, r, to
    <2>4. Passed(c, e, n, T)
      <3>1. r = Forward(c, State(c, cache[c], Recalled(c, e), log[c]), e, T)
        BY <2>1, <2>2
      <3>2. QED  BY <1>1, <1>6, <1>12, <2>3, <3>1 DEF Passed
    <2>5. QED  BY <2>3, <2>4 DEF Handled
  <1> HIDE DEF to, s, r
  <1>13. QED  BY <1>8, <1>9, <1>10, <1>11, <1>12

-----------------------------------------------------------------------------
(***************************************************************************)
(* Types.                                                                  *)
(***************************************************************************)
QueueTypes ==
  /\ cache \in [Computers -> Seq([msg : Messages, timeout : Nat])]
  /\ received \in [Computers -> SUBSET [msgid : Computers \X Nat, timeout : Nat]]
  /\ sequence \in [Computers -> Nat]
  /\ net \in Nets
  /\ log \in [Computers -> [Services -> Seq(Messages)]]

LEMMA Constants ==
  /\ BroadcastTTL \in Nat /\ MaxHops \in Nat /\ \A m \in Messages : CacheTTL[m] \in Nat
  /\ MaxTime \in Nat /\ MaxRestarts \in Nat
  BY MessagesAssumption

\* a message that is not a broadcast is to a service
LEMMA ToService ==
  ASSUME NEW m \in Messages, ~Broadcast(m)
  PROVE  Service[m] \in Services
  BY MessagesAssumption DEF Broadcast

LEMMA Typed ==
  ASSUME TypeOK
  PROVE  QueueTypes /\ now \in Nat
  <1>1. QueueTypes
    BY DEF TypeOK, QueueTypes, Nets
  <1>2. now \in Nat
    BY Constants DEF TypeOK
  <1>3. QED  BY <1>1, <1>2

LEMMA SealedType ==
  ASSUME TypeOK, NEW c \in Computers, NEW e \in Letters, NEW T \in SUBSET Computers
  PROVE  /\ Sealed(c, e, T) \in Envelopes
         /\ Sealed(c, e, T).msg = e.msg
         /\ Sealed(c, e, T).msgid
              = IF e.msgid = NoId THEN <<c, sequence[c] + 1>> ELSE e.msgid
         /\ Sealed(c, e, T).timeout
              = IF e.msgid = NoId THEN now + BroadcastTTL ELSE e.timeout
  <1> DEFINE id == IF e.msgid = NoId THEN <<c, sequence[c] + 1>> ELSE e.msgid
             limit == IF e.msgid = NoId THEN now + BroadcastTTL ELSE e.timeout
             to == Informed(c, e, T)
  <1>1. e.msg \in Messages /\ e.hops \in Nat /\ e.hops + 1 \in Nat \ {0}
    BY DEF Letters
  <1>2. to \subseteq Computers
    BY DEF Informed, Letters
  <1>a. e.msgid # NoId => e.msgid \in Computers \X Nat
    BY DEF Letters
  <1>b. e.timeout \in Nat
    BY DEF Letters
  <1>c. sequence[c] \in Nat /\ sequence[c] + 1 \in Nat
    BY Typed DEF QueueTypes
  <1>d. now + BroadcastTTL \in Nat
    BY Typed, Constants
  <1>3. id \in Computers \X Nat
    BY <1>a, <1>c
  <1>4. limit \in Nat
    BY <1>b, <1>d
  <1>5. Sealed(c, e, T) = Envelope(e.msg, id, to, e.hops + 1, limit)
    BY DEF Sealed
  <1> HIDE DEF id, to, limit
  <1>6. /\ Sealed(c, e, T) \in Envelopes
        /\ Sealed(c, e, T).msg = e.msg
        /\ Sealed(c, e, T).msgid = id
        /\ Sealed(c, e, T).timeout = limit
    BY <1>1, <1>2, <1>3, <1>4, <1>5 DEF Envelope, Envelopes
  <1>7. QED  BY <1>6 DEF id, limit

LEMMA HandledTypes ==
  ASSUME TypeOK, NEW c \in Computers, NEW e \in Letters, NEW n \in Nets,
         Handled(c, e, n)
  PROVE  QueueTypes'
  <1>0. QueueTypes /\ now \in Nat
    BY Typed
  <1>a. e.msg \in Messages /\ e.timeout \in Nat
    BY DEF Letters
  <1>b. e.msgid # NoId => e.msgid \in Computers \X Nat
    BY DEF Letters
  <1>1. CASE Dropped(c, e, n)
    BY <1>0, <1>1 DEF Dropped, QueueTypes
  <1>2. CASE Given(c, e, n)
    <2>1. [log[c] EXCEPT ![Service[e.msg]] = Append(log[c][Service[e.msg]], e.msg)]
            \in [Services -> Seq(Messages)]
      <3>1. Service[e.msg] \in Services
        BY <1>a, <1>2, ToService DEF Given
      <3>2. QED  BY <1>0, <1>a, <3>1 DEF QueueTypes
    <2>2. QED  BY <1>0, <1>2, <2>1 DEF Given, QueueTypes
  <1>3. CASE Stored(c, e, n)
    <2>1. Append(cache[c], [msg |-> e.msg, timeout |-> now + CacheTTL[e.msg]])
            \in Seq([msg : Messages, timeout : Nat])
      <3>1. now + CacheTTL[e.msg] \in Nat
        BY <1>0, <1>a, Constants
      <3>2. [msg |-> e.msg, timeout |-> now + CacheTTL[e.msg]] \in [msg : Messages, timeout : Nat]
        BY <1>a, <3>1
      <3>3. cache[c] \in Seq([msg : Messages, timeout : Nat])
        BY <1>0 DEF QueueTypes
      <3> HIDE DEF QueueTypes
      <3>4. QED  BY <3>2, <3>3
    <2>2. QED  BY <1>0, <1>3, <2>1 DEF Stored, QueueTypes
  <1>4. CASE \E T \in SUBSET Computers : Passed(c, e, n, T)
    <2>1. PICK T \in SUBSET Computers : Passed(c, e, n, T)
      BY <1>4
    <2>2. PICK L \in {Announced(c, e.msg), log[c]} :
            Effect(c, e, n, T, Recalled(c, e), L)
      BY <2>1 DEF Passed
    <2>3. L \in [Services -> Seq(Messages)]
      <3>1. log[c] \in [Services -> Seq(Messages)]
        BY <1>0 DEF QueueTypes
      <3>2. Announced(c, e.msg) \in [Services -> Seq(Messages)]
        BY <1>a, <3>1 DEF Announced
      <3>3. QED  BY <3>1, <3>2
    <2>4. Recalled(c, e) \subseteq [msgid : Computers \X Nat, timeout : Nat]
      BY <1>0, <1>a, <1>b DEF Recalled, QueueTypes
    <2>5. [d \in Computers |->
             IF d \in T THEN Append(n[c][d], Sealed(c, e, T)) ELSE n[c][d]]
            \in [Computers -> Seq(Envelopes)]
      <3>1. Sealed(c, e, T) \in Envelopes
        BY SealedType
      <3>2. n[c] \in [Computers -> Seq(Envelopes)]
        BY DEF Nets
      <3>3. QED  BY <3>1, <3>2
    <2>6. net' \in Nets
      BY <2>2, <2>5 DEF Effect, Nets
    <2>7. sequence' \in [Computers -> Nat]
      BY <1>0, <2>2 DEF Effect, QueueTypes
    <2>8. QED  BY <1>0, <2>2, <2>3, <2>4, <2>6, <2>7 DEF Effect, QueueTypes
  <1>5. QED  BY <1>1, <1>2, <1>3, <1>4 DEF Handled

\* a message is what it is in an envelope or when a service sends it
LEMMA LetterTypes ==
  ASSUME NEW e
  PROVE  /\ e \in Envelopes => e \in Letters
         /\ \A m \in Messages : Envelope(m, NoId, {}, 0, 0) \in Letters
  BY DEF Envelopes, Letters, Envelope

\* what Send() and Receive() are made of
SendStep(m) ==
  /\ \A i \in 1..Len(sent) : sent[i].msg # m
  /\ Handled(From[m], Envelope(m, NoId, {}, 0, 0), net)
  /\ sent' = Append(sent, [msg |-> m, date |-> now])
  /\ due' = [due EXCEPT ![m] = Running]
  /\ UNCHANGED <<registered, now, restarts, rebooted>>

ReceiveStep(c, d) ==
  /\ net[d][c] # <<>>
  /\ Handled(c, Head(net[d][c]), [net EXCEPT ![d][c] = Tail(@)])
  /\ UNCHANGED <<registered, now, restarts, rebooted, sent, due>>

LEMMA SendSteps ==
  ASSUME TypeOK, NEW m \in Messages, Send(m)
  PROVE  SendStep(m) /\ QueueTypes'
  <1> DEFINE e == Envelope(m, NoId, {}, 0, 0)
  <1>1. From[m] \in Computers /\ net \in Nets
    BY MessagesAssumption DEF TypeOK, Nets
  <1>2. e \in Letters
    BY LetterTypes
  <1>3. Finish(From[m], process_message(From[m], Daemon(From[m]), e), net)
    BY DEF Send
  <1> HIDE DEF e
  <1>4. Handled(From[m], e, net) /\ QueueTypes'
    BY <1>1, <1>2, <1>3, Processed, HandledTypes
  <1>5. QED  BY <1>4 DEF SendStep, Send, e

LEMMA ReceiveSteps ==
  ASSUME TypeOK, NEW c \in Computers, NEW d \in Computers, Receive(c, d)
  PROVE  ReceiveStep(c, d) /\ QueueTypes'
  <1> DEFINE e == Head(net[d][c])
             n == [net EXCEPT ![d][c] = Tail(@)]
  <1>1. net[d][c] \in Seq(Envelopes) /\ net[d][c] # <<>>
    BY DEF TypeOK, Receive
  <1>2. e \in Envelopes /\ n \in Nets
    BY <1>1 DEF TypeOK, Nets
  <1>3. Finish(c, process_message(c, Daemon(c), e), n)
    BY DEF Receive
  <1> HIDE DEF e, n
  <1>4. Handled(c, e, n) /\ QueueTypes'
    BY <1>2, <1>3, LetterTypes, Processed, HandledTypes
  <1>5. QED  BY <1>4 DEF ReceiveStep, Receive, e, n

\* the messages that the cache holds for a service
LEMMA RegisterTypes ==
  ASSUME TypeOK, NEW c \in Computers, NEW name \in Services, REGISTER(c, name)
  PROVE  QueueTypes'
  <1> DEFINE given == Cached(c, name)
             msgs == [i \in 1..Len(given) |-> given[i].msg]
             S == [msg : Messages, timeout : Nat]
  <1>1. cache[c] \in Seq(S) /\ QueueTypes
    BY Typed DEF QueueTypes
  <1>2. given \in Seq(S) /\ Kept(c, name) \in Seq(S)
    BY <1>1, SelectedProperties DEF Cached, Kept
  <1> HIDE DEF given
  <1>3. msgs \in Seq(Messages)
    <2> HIDE DEF S
    <2>1. Len(given) \in Nat /\ \A i \in 1..Len(given) : given[i] \in S
      BY <1>2
    <2>2. \A i \in 1..Len(given) : given[i].msg \in Messages
      BY <2>1 DEF S
    <2>3. QED  BY <2>1, <2>2
  <1> HIDE DEF S
  <1>4. log[c][name] \o msgs \in Seq(Messages)
    BY <1>1, <1>3 DEF QueueTypes
  <1>5. /\ log' = [log EXCEPT ![c][name] = log[c][name] \o msgs]
        /\ cache' = [cache EXCEPT ![c] = Kept(c, name)]
        /\ received' = received /\ sequence' = sequence /\ net' = net
    BY DEF REGISTER, given
  <1> HIDE DEF msgs
  <1>6. log' \in [Computers -> [Services -> Seq(Messages)]]
    BY <1>1, <1>4, <1>5 DEF QueueTypes
  <1>7. cache' \in [Computers -> Seq(S)]
    BY <1>1, <1>2, <1>5 DEF QueueTypes, S
  <1>8. QED  BY <1>1, <1>5, <1>6, <1>7 DEF QueueTypes, S

LEMMA RestartTypes ==
  ASSUME TypeOK, NEW c \in Computers, Restart(c)
  PROVE  QueueTypes'
  <1>1. QueueTypes
    BY Typed
  <1>2. net' \in Nets
    BY <1>1 DEF Restart, QueueTypes, Nets
  <1>3. cache' \in [Computers -> Seq([msg : Messages, timeout : Nat])]
    <2> DEFINE S == [msg : Messages, timeout : Nat]
    <2>1. cache \in [Computers -> Seq(S)] /\ cache' = [cache EXCEPT ![c] = <<>>]
      BY <1>1 DEF Restart, QueueTypes
    <2> HIDE DEF S
    <2>2. cache' \in [Computers -> Seq(S)]
      BY <2>1
    <2>3. QED  BY <2>2 DEF S
  <1>4. log' \in [Computers -> [Services -> Seq(Messages)]]
    BY <1>1 DEF Restart, QueueTypes
  <1>5. QED  BY <1>1, <1>2, <1>3, <1>4 DEF Restart, QueueTypes

LEMMA InitTypes ==
  ASSUME Init
  PROVE  TypeOK
  BY Constants DEF Init, TypeOK

(***************************************************************************)
(* Every step keeps the types.                                             *)
(***************************************************************************)
LEMMA TypesNext ==
  ASSUME TypeOK, [Next]_vars
  PROVE  TypeOK'
  <1>0. QueueTypes /\ now \in 0..MaxTime /\ restarts \in 0..MaxRestarts
        /\ registered \in [Computers -> [Services -> {"no", "named", "ready"}]]
        /\ rebooted \subseteq Computers
        /\ sent \in Seq([msg : Messages, date : 0..MaxTime])
        /\ due \in [Messages -> SUBSET (Computers \X Services)]
    BY Typed DEF TypeOK
  <1> DEFINE Rest == /\ now \in 0..MaxTime /\ restarts \in 0..MaxRestarts
                     /\ registered \in [Computers -> [Services -> {"no", "named", "ready"}]]
                     /\ rebooted \subseteq Computers
                     /\ sent \in Seq([msg : Messages, date : 0..MaxTime])
                     /\ due \in [Messages -> SUBSET (Computers \X Services)]
  <1>1. SUFFICES QueueTypes' /\ Rest'
    BY DEF TypeOK, QueueTypes, Nets
  <1>2. CASE UNCHANGED vars
    BY <1>0, <1>2 DEF vars, QueueTypes
  <1>3. ASSUME NEW m \in Messages, Send(m)
        PROVE  QueueTypes' /\ Rest'
    <2>1. QueueTypes'
      BY <1>3, SendSteps
    <2>2. [msg |-> m, date |-> now] \in [msg : Messages, date : 0..MaxTime]
      BY <1>0
    <2>3. sent' \in Seq([msg : Messages, date : 0..MaxTime])
      BY <1>0, <1>3, <2>2 DEF Send
    <2>4. due' \in [Messages -> SUBSET (Computers \X Services)]
      BY <1>0, <1>3 DEF Send, Running
    <2>5. QED  BY <1>0, <1>3, <2>1, <2>3, <2>4 DEF Send
  <1>4. ASSUME NEW c \in Computers, NEW d \in Computers, Receive(c, d)
        PROVE  QueueTypes' /\ Rest'
    BY <1>0, <1>4, ReceiveSteps DEF Receive
  <1>5. ASSUME NEW c \in Computers, NEW name \in Services, REGISTER(c, name)
        PROVE  QueueTypes' /\ Rest'
    <2>1. QueueTypes'
      BY <1>5, RegisterTypes
    <2>2. QED  BY <1>0, <1>5, <2>1 DEF REGISTER
  <1>6. ASSUME NEW c \in Computers, NEW name \in Services, COMMANDS(c, name)
        PROVE  QueueTypes' /\ Rest'
    BY <1>0, <1>6 DEF COMMANDS, QueueTypes
  <1>7. ASSUME NEW c \in Computers, NEW name \in Services, UNREGISTER(c, name)
        PROVE  QueueTypes' /\ Rest'
    <2>1. restarts' \in 0..MaxRestarts
      BY <1>0, <1>7, Constants DEF UNREGISTER
    <2>2. due' \in [Messages -> SUBSET (Computers \X Services)]
      BY <1>0, <1>7 DEF UNREGISTER
    <2>3. QED  BY <1>0, <1>7, <2>1, <2>2 DEF UNREGISTER, QueueTypes
  <1>8. ASSUME NEW c \in Computers, Restart(c)
        PROVE  QueueTypes' /\ Rest'
    <2>1. restarts' \in 0..MaxRestarts
      BY <1>0, <1>8, Constants DEF Restart
    <2>2. QueueTypes'
      BY <1>8, RestartTypes
    <2>3. QED  BY <1>0, <1>8, <2>1, <2>2 DEF Restart
  <1>9. CASE Tick
    <2>1. now' \in 0..MaxTime
      BY <1>0, <1>9, Constants DEF Tick
    <2>2. QED  BY <1>0, <1>9, <2>1 DEF Tick, QueueTypes
  <1>10. QED
    BY <1>2, <1>3, <1>4, <1>5, <1>6, <1>7, <1>8, <1>9 DEF Next

(***************************************************************************)
(* The tables and queues of every daemon are well formed: the messages     *)
(* between daemons carry an identifier and made at least one hop, what is  *)
(* in f_local_message_cache has a time limit.                              *)
(***************************************************************************)
THEOREM MessageTypes == Spec => []TypeOK
  <1>1. Init => TypeOK
    BY InitTypes
  <1>2. TypeOK /\ [Next]_vars => TypeOK'
    BY TypesNext
  <1>3. QED  BY <1>1, <1>2, PTL DEF Spec

-----------------------------------------------------------------------------
(***************************************************************************)
(* What is in a queue and in which order.                                  *)
(***************************************************************************)
InMsgs(s, m) == \E i \in 1..Len(s) : s[i].msg = m

\* s is a log here, or any sequence
Has(s, m) == \E i \in 1..Len(s) : s[i] = m

Ordered(s, p, q) == \A k, l \in 1..Len(s) : s[k].msg = p /\ s[l].msg = q => k < l

OrderedLog(s, p, q) == \A k, l \in 1..Len(s) : s[k] = p /\ s[l] = q => k < l

LEMMA EmptyQueue ==
  ASSUME NEW m, NEW p, NEW q
  PROVE  /\ ~InMsgs(<<>>, m) /\ ~Has(<<>>, m)
         /\ Ordered(<<>>, p, q) /\ OrderedLog(<<>>, p, q)
  BY DEF InMsgs, Has, Ordered, OrderedLog

LEMMA Appended ==
  ASSUME NEW S, NEW s \in Seq(S), NEW e \in S
  PROVE  /\ Len(s) \in Nat
         /\ Len(Append(s, e)) = Len(s) + 1
         /\ \A i \in 1..Len(s) : Append(s, e)[i] = s[i]
         /\ Append(s, e)[Len(s) + 1] = e
         /\ \A i \in 1..(Len(s) + 1) : i \in 1..Len(s) \/ i = Len(s) + 1
  OBVIOUS

LEMMA AppendMsgs ==
  ASSUME NEW S, NEW s \in Seq(S), NEW e \in S
  PROVE  /\ \A m : InMsgs(Append(s, e), m) <=> InMsgs(s, m) \/ e.msg = m
         /\ \A p, q : p # q /\ Ordered(s, p, q) /\ (e.msg = p => ~InMsgs(s, q))
              => Ordered(Append(s, e), p, q)
  <1> DEFINE t == Append(s, e)
             n == Len(s)
  <1>1. /\ n \in Nat /\ Len(t) = n + 1 /\ t[n + 1] = e
        /\ \A i \in 1..n : t[i] = s[i]
        /\ \A i \in 1..(n + 1) : i \in 1..n \/ i = n + 1
        /\ n + 1 \in 1..(n + 1) /\ \A i \in 1..n : i \in 1..(n + 1) /\ i < n + 1
    BY Appended
  <1> HIDE DEF t
  <1>2. \A m : InMsgs(t, m) <=> InMsgs(s, m) \/ e.msg = m
    BY <1>1 DEF InMsgs, n
  <1>3. ASSUME NEW p, NEW q, p # q, Ordered(s, p, q), e.msg = p => ~InMsgs(s, q)
        PROVE  Ordered(t, p, q)
    <2>1. SUFFICES ASSUME NEW k \in 1..(n + 1), NEW l \in 1..(n + 1),
                          t[k].msg = p, t[l].msg = q
                   PROVE  k < l
      BY <1>1 DEF Ordered
    <2>2. CASE k \in 1..n /\ l \in 1..n
      BY <1>1, <1>3, <2>1, <2>2 DEF Ordered
    <2>3. CASE k = n + 1 /\ l = n + 1
      BY <1>1, <1>3, <2>1, <2>3
    <2>4. CASE k = n + 1 /\ l \in 1..n
      BY <1>1, <1>3, <2>1, <2>4 DEF InMsgs
    <2>5. CASE k \in 1..n /\ l = n + 1
      BY <1>1, <2>5
    <2>6. QED  BY <1>1, <2>2, <2>3, <2>4, <2>5
  <1>4. QED  BY <1>2, <1>3 DEF t

LEMMA AppendLog ==
  ASSUME NEW S, NEW s \in Seq(S), NEW e \in S
  PROVE  /\ \A m : Has(Append(s, e), m) <=> Has(s, m) \/ e = m
         /\ \A p, q : p # q /\ OrderedLog(s, p, q) /\ (e = p => ~Has(s, q))
              => OrderedLog(Append(s, e), p, q)
  <1> DEFINE t == Append(s, e)
             n == Len(s)
  <1>1. /\ n \in Nat /\ Len(t) = n + 1 /\ t[n + 1] = e
        /\ \A i \in 1..n : t[i] = s[i]
        /\ \A i \in 1..(n + 1) : i \in 1..n \/ i = n + 1
        /\ n + 1 \in 1..(n + 1) /\ \A i \in 1..n : i \in 1..(n + 1) /\ i < n + 1
    BY Appended
  <1> HIDE DEF t
  <1>2. \A m : Has(t, m) <=> Has(s, m) \/ e = m
    BY <1>1 DEF Has, n
  <1>3. ASSUME NEW p, NEW q, p # q, OrderedLog(s, p, q), e = p => ~Has(s, q)
        PROVE  OrderedLog(t, p, q)
    <2>1. SUFFICES ASSUME NEW k \in 1..(n + 1), NEW l \in 1..(n + 1),
                          t[k] = p, t[l] = q
                   PROVE  k < l
      BY <1>1 DEF OrderedLog
    <2>2. CASE k \in 1..n /\ l \in 1..n
      BY <1>1, <1>3, <2>1, <2>2 DEF OrderedLog
    <2>3. CASE k = n + 1 /\ l = n + 1
      BY <1>1, <1>3, <2>1, <2>3
    <2>4. CASE k = n + 1 /\ l \in 1..n
      BY <1>1, <1>3, <2>1, <2>4 DEF Has
    <2>5. CASE k \in 1..n /\ l = n + 1
      BY <1>1, <2>5
    <2>6. QED  BY <1>1, <2>2, <2>3, <2>4, <2>5
  <1>4. QED  BY <1>2, <1>3 DEF t

LEMMA TailMsgs ==
  ASSUME NEW S, NEW s \in Seq(S), s # <<>>
  PROVE  /\ Tail(s) \in Seq(S) /\ Head(s) \in S
         /\ InMsgs(s, Head(s).msg)
         /\ \A m : InMsgs(s, m) <=> Head(s).msg = m \/ InMsgs(Tail(s), m)
         /\ \A p, q : Ordered(s, p, q) => Ordered(Tail(s), p, q)
         /\ \A p, q : p # q /\ Ordered(s, p, q) /\ Head(s).msg = q => ~InMsgs(s, p)
  <1> DEFINE t == Tail(s)
             n == Len(s)
  <1>1. /\ n \in Nat /\ n >= 1 /\ Len(t) = n - 1 /\ Head(s) = s[1] /\ s[1] \in S
        /\ t \in Seq(S) /\ \A i \in 1..(n - 1) : t[i] = s[i + 1]
    OBVIOUS
  <1>2. /\ \A i \in 1..(n - 1) : i + 1 \in 1..n
        /\ \A i \in 1..n : i = 1 \/ (i - 1 \in 1..(n - 1) /\ (i - 1) + 1 = i)
        /\ \A i, j \in 1..(n - 1) : i + 1 < j + 1 => i < j
        /\ 1 \in 1..n /\ \A i \in 1..n : ~(i < 1)
    BY <1>1
  <1> HIDE DEF t, n
  <1>3. \A m : InMsgs(s, m) <=> Head(s).msg = m \/ InMsgs(t, m)
    <2>1. ASSUME NEW m, InMsgs(s, m)
          PROVE  Head(s).msg = m \/ InMsgs(t, m)
      <3>1. PICK i \in 1..n : s[i].msg = m
        BY <2>1 DEF InMsgs, n
      <3>2. CASE i = 1
        BY <1>1, <3>1, <3>2
      <3>3. CASE i - 1 \in 1..(n - 1) /\ (i - 1) + 1 = i
        <4>1. t[i - 1] = s[i]
          BY <1>1, <3>3
        <4>2. QED  BY <1>1, <3>1, <3>3, <4>1 DEF InMsgs
      <3>4. QED  BY <1>2, <3>2, <3>3
    <2>2. ASSUME NEW m, Head(s).msg = m
          PROVE  InMsgs(s, m)
      BY <1>1, <1>2, <2>2 DEF InMsgs, n
    <2>3. ASSUME NEW m, InMsgs(t, m)
          PROVE  InMsgs(s, m)
      BY <1>1, <1>2, <2>3 DEF InMsgs, n
    <2>4. QED  BY <2>1, <2>2, <2>3
  <1>4. ASSUME NEW p, NEW q, Ordered(s, p, q)
        PROVE  Ordered(t, p, q)
    <2>1. SUFFICES ASSUME NEW k \in 1..(n - 1), NEW l \in 1..(n - 1),
                          t[k].msg = p, t[l].msg = q
                   PROVE  k < l
      BY <1>1 DEF Ordered
    <2>2. k + 1 < l + 1
      BY <1>1, <1>2, <1>4, <2>1 DEF Ordered, n
    <2>3. QED  BY <1>2, <2>2
  <1>5. ASSUME NEW p, NEW q, p # q, Ordered(s, p, q), Head(s).msg = q
        PROVE  ~InMsgs(s, p)
    BY <1>1, <1>2, <1>5 DEF Ordered, InMsgs, n
  <1>6. QED  BY <1>1, <1>3, <1>4, <1>5 DEF t

-----------------------------------------------------------------------------
(***************************************************************************)
(* What handling a message adds to each queue.                             *)
(***************************************************************************)
CachePoint(c, e, n, d) ==
  \/ cache'[d] = cache[d]
  \/ /\ d = c /\ Stored(c, e, n)
     /\ cache'[d] = Append(cache[d], [msg |-> e.msg, timeout |-> now + CacheTTL[e.msg]])

LogPoint(c, e, n, d, x) ==
  \/ log'[d][x] = log[d][x]
  \/ /\ d = c /\ (Broadcast(e.msg) \/ (Given(c, e, n) /\ x = Service[e.msg]))
     /\ log'[d][x] = Append(log[d][x], e.msg)

NetPoint(c, e, n, a, b) ==
  \/ net'[a][b] = n[a][b]
  \/ \E T \in SUBSET Computers :
       /\ a = c /\ b \in T /\ Passed(c, e, n, T)
       /\ net'[a][b] = Append(n[a][b], Sealed(c, e, T))

LEMMA HandledPoints ==
  ASSUME TypeOK, NEW c \in Computers, NEW e \in Letters, NEW n \in Nets,
         Handled(c, e, n)
  PROVE  /\ \A d \in Computers : CachePoint(c, e, n, d)
         /\ \A d \in Computers, x \in Services : LogPoint(c, e, n, d, x)
         /\ \A a, b \in Computers : NetPoint(c, e, n, a, b)
  <1> SUFFICES ASSUME NEW d \in Computers, NEW a \in Computers, NEW b \in Computers,
                      NEW x
               PROVE  /\ CachePoint(c, e, n, d)
                      /\ x \in Services => LogPoint(c, e, n, d, x)
                      /\ NetPoint(c, e, n, a, b)
    OBVIOUS
  <1>0. /\ cache \in [Computers -> Seq([msg : Messages, timeout : Nat])]
        /\ log \in [Computers -> [Services -> Seq(Messages)]]
        /\ n \in [Computers -> [Computers -> Seq(Envelopes)]]
    BY Typed DEF QueueTypes, Nets
  <1>1. CASE Dropped(c, e, n)
    BY <1>1 DEF Dropped, CachePoint, LogPoint, NetPoint
  <1>2. CASE Given(c, e, n)
    <2>1. ASSUME x \in Services
          PROVE  LogPoint(c, e, n, d, x)
      <3>1. Service[e.msg] \in Services
        BY <1>2, ToService DEF Given, Letters
      <3>2. log' = [log EXCEPT ![c] =
               [log[c] EXCEPT ![Service[e.msg]] = Append(log[c][Service[e.msg]], e.msg)]]
        BY <1>2 DEF Given
      <3>3. \/ log'[d][x] = log[d][x]
            \/ /\ d = c /\ x = Service[e.msg]
               /\ log'[d][x] = Append(log[d][x], e.msg)
        BY <1>0, <2>1, <3>1, <3>2
      <3>4. QED  BY <1>2, <3>3 DEF LogPoint
    <2>2. CachePoint(c, e, n, d) /\ NetPoint(c, e, n, a, b)
      BY <1>2 DEF Given, CachePoint, NetPoint
    <2>3. QED  BY <2>1, <2>2
  <1>3. CASE Stored(c, e, n)
    <2>1. CachePoint(c, e, n, d)
      BY <1>0, <1>3 DEF Stored, CachePoint
    <2>2. LogPoint(c, e, n, d, x) /\ NetPoint(c, e, n, a, b)
      BY <1>3 DEF Stored, LogPoint, NetPoint
    <2>3. QED  BY <2>1, <2>2
  <1>4. ASSUME NEW T \in SUBSET Computers, Passed(c, e, n, T)
        PROVE  /\ CachePoint(c, e, n, d)
               /\ x \in Services => LogPoint(c, e, n, d, x)
               /\ NetPoint(c, e, n, a, b)
    <2>1. /\ cache' = cache
          /\ net' = [n EXCEPT ![c] =
               [y \in Computers |->
                  IF y \in T THEN Append(n[c][y], Sealed(c, e, T)) ELSE n[c][y]]]
      BY <1>4 DEF Passed, Effect
    <2>2. \/ net'[a][b] = n[a][b]
          \/ /\ a = c /\ b \in T
             /\ net'[a][b] = Append(n[a][b], Sealed(c, e, T))
      BY <1>0, <2>1
    <2>3. NetPoint(c, e, n, a, b)
      BY <1>4, <2>2 DEF NetPoint
    <2>4. ASSUME x \in Services
          PROVE  LogPoint(c, e, n, d, x)
      <3>1. CASE Broadcast(e.msg) /\ log' = [log EXCEPT ![c] = Announced(c, e.msg)]
        BY <1>0, <2>4, <3>1 DEF LogPoint, Announced
      <3>2. CASE log' = [log EXCEPT ![c] = log[c]]
        BY <1>0, <3>2 DEF LogPoint
      <3>3. QED  BY <1>4, <3>1, <3>2 DEF Passed, Effect
    <2>5. QED  BY <2>1, <2>3, <2>4 DEF CachePoint
  <1>5. QED  BY <1>1, <1>2, <1>3, <1>4 DEF Handled

(***************************************************************************)
(* Message p was sent before q, both to the service whose log is L, on the *)
(* computer whose cache is C; N is what is in transit to that computer.    *)
(***************************************************************************)
Pair(p, q, L, C, N) ==
  /\ OrderedLog(L, p, q)
  /\ Ordered(C, p, q)
  /\ Ordered(N, p, q)
  /\ Has(L, q) => ~InMsgs(C, p) /\ ~InMsgs(N, p)
  /\ InMsgs(C, q) => ~InMsgs(N, p)

Flow(p, q) ==
  /\ Directed(p) /\ Directed(q)
  /\ From[p] = From[q] /\ Server[p] = Server[q] /\ Service[p] = Service[q]

LEMMA FlowTypes ==
  ASSUME NEW p \in Messages, NEW q \in Messages, Directed(p)
  PROVE  /\ From[p] \in Computers /\ Server[p] \in Computers /\ Service[p] \in Services
         /\ ~Broadcast(p) /\ Server[p] # AnyServer
  BY MessagesAssumption, ToService DEF Directed, Neighbors

LEMMA HandledOrder ==
  ASSUME TypeOK, NEW c \in Computers, NEW e \in Letters, NEW n \in Nets,
         Handled(c, e, n),
         NEW p \in Messages, NEW q \in Messages, p # q, Flow(p, q),
         NEW a, a = From[p], NEW b, b = Server[p], NEW x, x = Service[p],
         Pair(p, q, log[b][x], cache[b], n[a][b]),
         InMsgs(cache[b], p) => registered[b][x] = "no",
         e.msg = q => c = a \/ c = b,
         e.msg = q /\ c = b => ~InMsgs(n[a][b], p),
         e.msg = p => c = b /\ ~Has(log[b][x], q) /\ ~InMsgs(cache[b], q)
  PROVE  Pair(p, q, log'[b][x], cache'[b], net'[a][b])
  <1> DEFINE k == e.msg
             E == [msg |-> k, timeout |-> now + CacheTTL[k]]
  <1>1. /\ a \in Computers /\ b \in Computers /\ x \in Services
        /\ ~Broadcast(p) /\ ~Broadcast(q) /\ k \in Messages
    BY FlowTypes DEF Flow, Letters, Broadcast
  <1>2. /\ CachePoint(c, e, n, b) /\ LogPoint(c, e, n, b, x) /\ NetPoint(c, e, n, a, b)
    BY <1>1, HandledPoints
  <1>3. /\ cache[b] \in Seq([msg : Messages, timeout : Nat])
        /\ log[b][x] \in Seq(Messages)
        /\ n[a][b] \in Seq(Envelopes)
        /\ E \in [msg : Messages, timeout : Nat] /\ E.msg = k
    <2>1. now + CacheTTL[k] \in Nat
      BY <1>1, Typed, Constants
    <2>2. E \in [msg : Messages, timeout : Nat] /\ E.msg = k
      BY <1>1, <2>1
    <2>3. cache[b] \in Seq([msg : Messages, timeout : Nat]) /\ log[b][x] \in Seq(Messages)
      BY <1>1, Typed DEF QueueTypes
    <2>4. n[a][b] \in Seq(Envelopes)
      BY <1>1 DEF Nets
    <2>5. QED  BY <2>2, <2>3, <2>4
  <1>4. /\ \A m : InMsgs(Append(cache[b], E), m) <=> InMsgs(cache[b], m) \/ k = m
        /\ Ordered(cache[b], p, q) /\ (k = p => ~InMsgs(cache[b], q))
             => Ordered(Append(cache[b], E), p, q)
    <2> DEFINE S == [msg : Messages, timeout : Nat]
    <2>1. cache[b] \in Seq(S) /\ E \in S /\ E.msg = k
      BY <1>3
    <2> HIDE DEF E, k, S
    <2>2. QED  BY <2>1, AppendMsgs
  <1>5. /\ \A m : Has(Append(log[b][x], k), m) <=> Has(log[b][x], m) \/ k = m
        /\ OrderedLog(log[b][x], p, q) /\ (k = p => ~Has(log[b][x], q))
             => OrderedLog(Append(log[b][x], k), p, q)
    BY <1>1, <1>3, AppendLog
  <1>6. ASSUME NEW T \in SUBSET Computers
        PROVE  LET N == Append(n[a][b], Sealed(c, e, T))
               IN  /\ \A m : InMsgs(N, m) <=> InMsgs(n[a][b], m) \/ k = m
                   /\ Ordered(n[a][b], p, q) /\ (k = p => ~InMsgs(n[a][b], q))
                        => Ordered(N, p, q)
    <2>1. Sealed(c, e, T) \in Envelopes /\ Sealed(c, e, T).msg = k
      BY SealedType
    <2> HIDE DEF k
    <2>2. QED  BY <1>3, <2>1, AppendMsgs
  <1>7. CASE k # p /\ k # q
    <2>1. /\ \A m \in {p, q} : InMsgs(cache'[b], m) <=> InMsgs(cache[b], m)
          /\ Ordered(cache[b], p, q) => Ordered(cache'[b], p, q)
      BY <1>2, <1>4, <1>7 DEF CachePoint
    <2>2. /\ \A m \in {p, q} : Has(log'[b][x], m) <=> Has(log[b][x], m)
          /\ OrderedLog(log[b][x], p, q) => OrderedLog(log'[b][x], p, q)
      BY <1>2, <1>5, <1>7 DEF LogPoint
    <2>3. /\ \A m \in {p, q} : InMsgs(net'[a][b], m) <=> InMsgs(n[a][b], m)
          /\ Ordered(n[a][b], p, q) => Ordered(net'[a][b], p, q)
      BY <1>2, <1>6, <1>7 DEF NetPoint
    <2>4. QED  BY <2>1, <2>2, <2>3 DEF Pair
  <1>8. CASE k = p \/ k = q
    <2>0. ~Broadcast(k) /\ Server[k] = b /\ Service[k] = x
      BY <1>1, <1>8 DEF Flow
    <2>1. CASE Dropped(c, e, n)
      BY <2>1 DEF Dropped
    <2>2. CASE Given(c, e, n)
      <3>1. /\ cache'[b] = cache[b] /\ net'[a][b] = n[a][b]
            /\ registered[c][x] # "no"
        BY <2>0, <2>2 DEF Given
      <3>2. CASE log'[b][x] = log[b][x]
        BY <3>1, <3>2
      <3>3. CASE c = b /\ log'[b][x] = Append(log[b][x], k)
        <4>1. ~InMsgs(cache[b], p)
          BY <3>1, <3>3
        <4> HIDE DEF k
        <4>2. QED  BY <1>5, <1>8, <3>1, <3>3, <4>1 DEF Pair, k
      <3>4. QED  BY <1>2, <2>0, <3>2, <3>3 DEF LogPoint
    <2>3. CASE Stored(c, e, n)
      <3>1. log'[b][x] = log[b][x] /\ net'[a][b] = n[a][b]
        BY <2>3 DEF Stored
      <3>2. CASE cache'[b] = cache[b]
        BY <3>1, <3>2
      <3>3. CASE c = b /\ cache'[b] = Append(cache[b], E)
        <4> HIDE DEF k, E
        <4>1. QED  BY <1>4, <1>8, <3>1, <3>3 DEF Pair, k
      <3>4. QED  BY <1>2, <3>2, <3>3 DEF CachePoint
    <2>4. ASSUME NEW T \in SUBSET Computers, Passed(c, e, n, T)
          PROVE  Pair(p, q, log'[b][x], cache'[b], net'[a][b])
      <3>1. c # b /\ cache' = cache /\ log' = log
        BY <2>0, <2>4, Typed DEF Passed, Effect, QueueTypes
      <3>2. k = q /\ c = a
        BY <1>8, <3>1
      <3>3. CASE net'[a][b] = n[a][b]
        BY <3>1, <3>3
      <3>4. ASSUME NEW U \in SUBSET Computers,
                   net'[a][b] = Append(n[a][b], Sealed(c, e, U))
            PROVE  Pair(p, q, log'[b][x], cache'[b], net'[a][b])
        <4> HIDE DEF k
        <4>1. QED  BY <1>6, <3>1, <3>2, <3>4 DEF Pair
      <3>5. QED  BY <1>2, <3>3, <3>4 DEF NetPoint
    <2>5. QED  BY <2>1, <2>2, <2>3, <2>4 DEF Handled
  <1>9. QED  BY <1>7, <1>8

-----------------------------------------------------------------------------
(***************************************************************************)
(* A selection of a queue holds nothing else, in the same order.           *)
(***************************************************************************)
LEMMA SelectedMsgs ==
  ASSUME NEW S, NEW s \in Seq(S), NEW I \in SUBSET (1..Len(s))
  PROVE  LET r == Selected(s, I)
         IN  /\ \A m : InMsgs(r, m) <=> \E i \in I : s[i].msg = m
             /\ \A p, q : Ordered(s, p, q) => Ordered(r, p, q)
  <1> DEFINE r == Selected(s, I)
  <1>1. r \in Seq(S) /\ \E f : IsSelection(r, s, I, Len(s), f)
    BY SelectedProperties
  <1>2. PICK f : IsSelection(r, s, I, Len(s), f)
    BY <1>1
  <1> HIDE DEF r
  <1>3. /\ f \in [1..Len(r) -> 1..Len(s)]
        /\ \A k \in 1..Len(r) : f[k] \in I /\ r[k] = s[f[k]]
        /\ \A k, l \in 1..Len(r) : k < l => f[k] < f[l]
        /\ \A i \in 1..Len(s) : i \in I => \E k \in 1..Len(r) : f[k] = i
        /\ Len(r) \in Nat /\ Len(s) \in Nat
    BY <1>1, <1>2 DEF IsSelection
  <1>4. \A m : InMsgs(r, m) <=> \E i \in I : s[i].msg = m
    <2>1. ASSUME NEW m, InMsgs(r, m)
          PROVE  \E i \in I : s[i].msg = m
      BY <1>3, <2>1 DEF InMsgs
    <2>2. ASSUME NEW m, NEW i \in I, s[i].msg = m
          PROVE  InMsgs(r, m)
      BY <1>3, <2>2 DEF InMsgs
    <2>3. QED  BY <2>1, <2>2
  <1>5. ASSUME NEW p, NEW q, Ordered(s, p, q)
        PROVE  Ordered(r, p, q)
    <2>1. SUFFICES ASSUME NEW k \in 1..Len(r), NEW l \in 1..Len(r),
                          r[k].msg = p, r[l].msg = q
                   PROVE  k < l
      BY DEF Ordered
    <2>a. /\ f[k] \in 1..Len(s) /\ f[l] \in 1..Len(s)
          /\ s[f[k]].msg = p /\ s[f[l]].msg = q
      BY <1>3, <2>1
    <2>2. f[k] < f[l]
      BY <1>5, <2>a DEF Ordered
    <2>3. f[k] \in Nat /\ f[l] \in Nat /\ k \in Nat /\ l \in Nat
      BY <1>3, <2>a
    <2>4. ~(l < k) /\ ~(k = l)
      BY <1>3, <2>2, <2>3
    <2>5. QED  BY <2>3, <2>4
  <1>6. QED  BY <1>4, <1>5 DEF r

\* what a service has after the messages of s were given to it
LEMMA LogOfMsgs ==
  ASSUME NEW S, NEW L \in Seq(Messages), NEW s \in Seq(S),
         \A i \in 1..Len(s) : s[i].msg \in Messages
  PROVE  LET G == L \o [i \in 1..Len(s) |-> s[i].msg]
         IN  /\ \A m : Has(G, m) <=> Has(L, m) \/ InMsgs(s, m)
             /\ \A p, q : OrderedLog(L, p, q) /\ Ordered(s, p, q)
                          /\ ~(Has(L, q) /\ InMsgs(s, p)) => OrderedLog(G, p, q)
  <1> DEFINE M == [i \in 1..Len(s) |-> s[i].msg]
             G == L \o M
             n == Len(L)
  <1>1. Len(s) \in Nat
    OBVIOUS
  <1>2. M \in Seq(Messages) /\ Len(M) = Len(s)
    BY <1>1
  <1>3. \A i \in 1..Len(s) : M[i] = s[i].msg
    OBVIOUS
  <1> HIDE DEF M
  <1>4. /\ n \in Nat /\ Len(G) = n + Len(s)
        /\ \A i \in 1..n : G[i] = L[i]
        /\ \A i \in 1..Len(s) : G[n + i] = s[i].msg
    <2>1. /\ n \in Nat /\ Len(G) = n + Len(M)
          /\ \A i \in 1..(n + Len(M)) : G[i] = IF i <= n THEN L[i] ELSE M[i - n]
      <3>1. n \in Nat
        OBVIOUS
      <3>2. /\ Len(L \o M) = Len(L) + Len(M)
            /\ \A i \in 1..(Len(L) + Len(M)) :
                 (L \o M)[i] = IF i <= Len(L) THEN L[i] ELSE M[i - Len(L)]
        BY <1>2, ConcatProperties, Zenon
      <3>3. QED  BY <3>1, <3>2, Zenon DEF G, n
    <2>2. \A i \in 1..n : G[i] = L[i]
      BY <1>1, <1>2, <2>1
    <2>3. ASSUME NEW i \in 1..Len(s)
          PROVE  G[n + i] = s[i].msg
      <3>1. n + i \in 1..(n + Len(M)) /\ ~(n + i <= n) /\ (n + i) - n = i
        BY <1>1, <1>2, <2>1
      <3> HIDE DEF G, n
      <3>2. G[n + i] = M[i]
        BY <2>1, <3>1
      <3>3. QED  BY <1>3, <3>2
    <2>4. QED  BY <1>2, <2>1, <2>2, <2>3
  <1> HIDE DEF G
  <1>5. /\ \A i \in 1..(n + Len(s)) : i \in 1..n \/ (i - n \in 1..Len(s) /\ n + (i - n) = i)
        /\ \A i \in 1..n : i \in 1..(n + Len(s))
        /\ \A i \in 1..Len(s) : n + i \in 1..(n + Len(s))
    BY <1>1, <1>4
  <1>6. \A i \in 1..Len(G) : \/ i \in 1..n /\ G[i] = L[i]
                             \/ \E j \in 1..Len(s) : i = n + j /\ G[i] = s[j].msg
    <2>1. SUFFICES ASSUME NEW i \in 1..(n + Len(s))
                   PROVE  \/ i \in 1..n /\ G[i] = L[i]
                          \/ \E j \in 1..Len(s) : i = n + j /\ G[i] = s[j].msg
      BY <1>4
    <2>2. CASE i \in 1..n
      BY <1>4, <2>2
    <2>3. CASE i - n \in 1..Len(s) /\ n + (i - n) = i
      <3>1. G[i] = s[i - n].msg
        BY <1>4, <2>3
      <3>2. QED  BY <2>3, <3>1
    <2>4. QED  BY <1>5, <2>2, <2>3
  <1>7. ASSUME NEW m
        PROVE  Has(G, m) <=> Has(L, m) \/ InMsgs(s, m)
    <2>1. ASSUME Has(G, m)
          PROVE  Has(L, m) \/ InMsgs(s, m)
      BY <1>6, <2>1 DEF Has, InMsgs, n
    <2>2. ASSUME Has(L, m)
          PROVE  Has(G, m)
      BY <1>4, <1>5, <2>2 DEF Has, n
    <2>3. ASSUME InMsgs(s, m)
          PROVE  Has(G, m)
      <3>1. PICK i \in 1..Len(s) : s[i].msg = m
        BY <2>3 DEF InMsgs
      <3>2. n + i \in 1..Len(G) /\ G[n + i] = m
        BY <1>4, <1>5, <3>1
      <3>3. QED  BY <3>2 DEF Has
    <2>4. QED  BY <2>1, <2>2, <2>3
  <1>8. ASSUME NEW p, NEW q, OrderedLog(L, p, q), Ordered(s, p, q),
               ~(Has(L, q) /\ InMsgs(s, p))
        PROVE  OrderedLog(G, p, q)
    <2>1. SUFFICES ASSUME NEW k \in 1..Len(G), NEW l \in 1..Len(G), G[k] = p, G[l] = q
                   PROVE  k < l
      BY DEF OrderedLog
    <2>2. CASE k \in 1..n /\ G[k] = L[k] /\ l \in 1..n /\ G[l] = L[l]
      BY <1>8, <2>1, <2>2 DEF OrderedLog, n
    <2>3. ASSUME k \in 1..n, NEW j \in 1..Len(s), l = n + j
          PROVE  k < l
      BY <1>1, <1>4, <2>3
    <2>4. ASSUME l \in 1..n, G[l] = L[l], NEW j \in 1..Len(s), G[k] = s[j].msg
          PROVE  k < l
      BY <1>8, <2>1, <2>4 DEF Has, InMsgs, n
    <2>5. ASSUME NEW i \in 1..Len(s), k = n + i, G[k] = s[i].msg,
                 NEW j \in 1..Len(s), l = n + j, G[l] = s[j].msg
          PROVE  k < l
      <3>1. i < j
        BY <1>8, <2>1, <2>5 DEF Ordered
      <3>2. QED  BY <1>1, <1>4, <2>5, <3>1
    <2>6. \/ k \in 1..n /\ G[k] = L[k]
          \/ \E i \in 1..Len(s) : k = n + i /\ G[k] = s[i].msg
      BY <1>6
    <2>7. \/ l \in 1..n /\ G[l] = L[l]
          \/ \E i \in 1..Len(s) : l = n + i /\ G[l] = s[i].msg
      BY <1>6
    <2>8. QED  BY <2>2, <2>3, <2>4, <2>5, <2>6, <2>7
  <1>9. QED  BY <1>7, <1>8 DEF G, M

\* what REGISTER does to the log of the service and to the cache
RegisterEffect(c, name) ==
  /\ \A m : InMsgs(cache'[c], m) => InMsgs(cache[c], m) /\ Service[m] # name
  /\ \A p, q : Ordered(cache[c], p, q) => Ordered(cache'[c], p, q)
  /\ \A m : Has(log'[c][name], m) =>
              Has(log[c][name], m) \/ InMsgs(cache[c], m)
  /\ \A p, q : /\ OrderedLog(log[c][name], p, q)
               /\ Ordered(cache[c], p, q)
               /\ ~(Has(log[c][name], q) /\ InMsgs(cache[c], p))
               => OrderedLog(log'[c][name], p, q)
  /\ \A m : Has(log[c][name], m) => Has(log'[c][name], m)
  /\ \A i \in 1..Len(cache[c]) :
       now <= cache[c][i].timeout =>
         \/ InMsgs(cache'[c], cache[c][i].msg)
         \/ /\ Has(log'[c][name], cache[c][i].msg)
            /\ Service[cache[c][i].msg] = name
  /\ \A d \in Computers : d # c => cache'[d] = cache[d]
  /\ \A d \in Computers, x \in Services :
       ~(d = c /\ x = name) => log'[d][x] = log[d][x]
  /\ \A j \in 1..Len(cache'[c]) : \E i \in 1..Len(cache[c]) :
       cache'[c][j] = cache[c][i]

(***************************************************************************)
(* REGISTER: the service gets what the cache has for it, in order, and the *)
(* rest stays there.  Only what is too old disappears.                     *)
(***************************************************************************)
LEMMA RegisterQueues ==
  ASSUME TypeOK, NEW c \in Computers, NEW name \in Services, REGISTER(c, name)
  PROVE  RegisterEffect(c, name)
  <1> DEFINE S == [msg : Messages, timeout : Nat]
             s == cache[c]
             I == Fresh(c) \cap For(c, name)
             J == Fresh(c) \ For(c, name)
             given == Selected(s, I)
             kept == Selected(s, J)
             L == log[c][name]
             G == L \o [i \in 1..Len(given) |-> given[i].msg]
  <1>1. s \in Seq(S) /\ L \in Seq(Messages)
    BY Typed DEF QueueTypes
  <1>2. /\ I \in SUBSET (1..Len(s)) /\ J \in SUBSET (1..Len(s))
        /\ \A i \in I : Service[s[i].msg] = name
        /\ \A i \in J : Service[s[i].msg] # name
        /\ \A i \in 1..Len(s) : now <= s[i].timeout =>
             i \in J \/ (i \in I /\ Service[s[i].msg] = name)
    BY DEF Fresh, For
  <1>3. /\ cache' = [cache EXCEPT ![c] = kept]
        /\ log' = [log EXCEPT ![c][name] = G]
    BY DEF REGISTER, Cached, Kept
  <1> HIDE DEF G, kept
  <1>4. /\ cache'[c] = kept /\ log'[c][name] = G
        /\ \A d \in Computers : d # c => cache'[d] = cache[d]
        /\ \A d \in Computers, x \in Services :
              ~(d = c /\ x = name) => log'[d][x] = log[d][x]
    BY <1>3, Typed DEF QueueTypes
  <1> HIDE DEF S, I, J, given, s, L
  <1>5. /\ \A m : InMsgs(given, m) <=> \E i \in I : s[i].msg = m
        /\ \A p, q : Ordered(s, p, q) => Ordered(given, p, q)
    BY <1>1, <1>2, SelectedMsgs DEF given
  <1>6. /\ \A m : InMsgs(kept, m) <=> \E i \in J : s[i].msg = m
        /\ \A p, q : Ordered(s, p, q) => Ordered(kept, p, q)
    BY <1>1, <1>2, SelectedMsgs DEF kept
  <1>7. given \in Seq(S) /\ kept \in Seq(S)
    BY <1>1, SelectedProperties DEF given, kept
  <1>8. /\ \A i \in 1..Len(given) : given[i].msg \in Messages
    <2>1. \A i \in 1..Len(given) : given[i] \in S
      BY <1>7
    <2>2. QED  BY <2>1 DEF S
  <1>9. /\ \A m : Has(G, m) <=> Has(L, m) \/ InMsgs(given, m)
        /\ \A p, q : OrderedLog(L, p, q) /\ Ordered(given, p, q)
                     /\ ~(Has(L, q) /\ InMsgs(given, p)) => OrderedLog(G, p, q)
    BY <1>1, <1>7, <1>8, LogOfMsgs DEF G
  <1>10. \A m : InMsgs(s, m) <=> \E i \in 1..Len(s) : s[i].msg = m
    BY DEF InMsgs
  <1>11. \A m : InMsgs(kept, m) => InMsgs(s, m) /\ Service[m] # name
    BY <1>2, <1>6, <1>10
  <1>12. \A m : InMsgs(given, m) => InMsgs(s, m)
    BY <1>2, <1>5, <1>10
  <1>13. \A i \in 1..Len(s) : now <= s[i].timeout =>
           InMsgs(kept, s[i].msg) \/ (Has(G, s[i].msg) /\ Service[s[i].msg] = name)
    BY <1>2, <1>5, <1>6, <1>9
  <1>14. \A p, q : /\ OrderedLog(L, p, q)
                   /\ Ordered(s, p, q)
                   /\ ~(Has(L, q) /\ InMsgs(s, p))
                   => OrderedLog(G, p, q)
    BY <1>5, <1>9, <1>12
  <1>15. \A j \in 1..Len(kept) : \E i \in 1..Len(s) : kept[j] = s[i]
    <2>1. PICK f : IsSelection(kept, s, J, Len(s), f)
      BY <1>1, SelectedProperties DEF kept
    <2>2. QED  BY <2>1 DEF IsSelection
  <1>16. QED
    BY <1>4, <1>6, <1>9, <1>11, <1>12, <1>13, <1>14, <1>15 DEF s, L, RegisterEffect

-----------------------------------------------------------------------------
(***************************************************************************)
(* The invariant for the order of the messages.                            *)
(***************************************************************************)
WasSent(m) == \E i \in 1..Len(sent) : sent[i].msg = m

SentBefore(p, q) ==
  \E i, j \in 1..Len(sent) : i < j /\ sent[i].msg = p /\ sent[j].msg = q

\* a message is sent once
OnceInv == \A i, j \in 1..Len(sent) : sent[i].msg = sent[j].msg => i = j

\* what is anywhere was sent
SentInv ==
  \A m \in Messages, c \in Computers :
    /\ InMsgs(cache[c], m) => WasSent(m)
    /\ \A d \in Computers : InMsgs(net[c][d], m) => WasSent(m)
    /\ \A x \in Services : Has(log[c][x], m) => WasSent(m)

\* messages are cached for services that are not registered
RegInv ==
  \A c \in Computers, m \in Messages :
    InMsgs(cache[c], m) => Service[m] \in Services /\ registered[c][Service[m]] = "no"

\* a message to one service only travels to its computer
RouteInv ==
  \A m \in Messages : Directed(m) =>
    \A a, b \in Computers :
      InMsgs(net[a][b], m) => a = From[m] /\ b = Server[m] /\ a # b

PairInv(p, q) ==
  Pair(p, q, log[Server[p]][Service[p]], cache[Server[p]], net[From[p]][Server[p]])

OrderInv ==
  \A p, q \in Messages : SentBefore(p, q) /\ Flow(p, q) => PairInv(p, q)

InOrder == TypeOK /\ OnceInv /\ SentInv /\ RegInv /\ RouteInv /\ OrderInv

\* what a handler leaves in the queues
LEMMA HandledContents ==
  ASSUME TypeOK, NEW c \in Computers, NEW e \in Letters, NEW n \in Nets,
         Handled(c, e, n), NEW m \in Messages, NEW d \in Computers
  PROVE  /\ InMsgs(cache'[d], m) =>
              InMsgs(cache[d], m) \/ (m = e.msg /\ d = c /\ Stored(c, e, n))
         /\ \A b \in Computers :
              InMsgs(net'[d][b], m) =>
                \/ InMsgs(n[d][b], m)
                \/ /\ m = e.msg /\ d = c
                   /\ \E T \in SUBSET Computers : b \in T /\ Passed(c, e, n, T)
         /\ \A x \in Services : Has(log'[d][x], m) => Has(log[d][x], m) \/ m = e.msg
  <1> DEFINE S == [msg : Messages, timeout : Nat]
             E == [msg |-> e.msg, timeout |-> now + CacheTTL[e.msg]]
  <1>1. /\ cache[d] \in Seq(S) /\ e.msg \in Messages /\ now + CacheTTL[e.msg] \in Nat
        /\ \A x \in Services : log[d][x] \in Seq(Messages)
        /\ \A b \in Computers : n[d][b] \in Seq(Envelopes)
    <2>2. e.msg \in Messages
      BY DEF Letters
    <2>1. now + CacheTTL[e.msg] \in Nat
      BY <2>2, Typed, Constants
    <2>3. QED  BY <2>1, <2>2, Typed DEF QueueTypes, Nets
  <1>2. E \in S /\ E.msg = e.msg
    BY <1>1
  <1> HIDE DEF S, E
  <1>3. InMsgs(cache'[d], m) =>
          InMsgs(cache[d], m) \/ (m = e.msg /\ d = c /\ Stored(c, e, n))
    <2>1. \/ cache'[d] = cache[d]
          \/ d = c /\ Stored(c, e, n) /\ cache'[d] = Append(cache[d], E)
      <3>1. CachePoint(c, e, n, d)
        BY HandledPoints
      <3>2. QED  BY <3>1 DEF CachePoint, E
    <2>2. InMsgs(Append(cache[d], E), m) <=> InMsgs(cache[d], m) \/ e.msg = m
      BY <1>1, <1>2, AppendMsgs
    <2>3. QED  BY <2>1, <2>2
  <1>4. ASSUME NEW b \in Computers, InMsgs(net'[d][b], m), ~InMsgs(n[d][b], m)
        PROVE  /\ m = e.msg /\ d = c
               /\ \E T \in SUBSET Computers : b \in T /\ Passed(c, e, n, T)
    <2>1. NetPoint(c, e, n, d, b)
      BY HandledPoints
    <2>2. PICK T \in SUBSET Computers :
            /\ d = c /\ b \in T /\ Passed(c, e, n, T)
            /\ net'[d][b] = Append(n[d][b], Sealed(c, e, T))
      BY <1>4, <2>1 DEF NetPoint
    <2>3. Sealed(c, e, T) \in Envelopes /\ Sealed(c, e, T).msg = e.msg
      BY SealedType
    <2>4. InMsgs(Append(n[d][b], Sealed(c, e, T)), m)
            <=> InMsgs(n[d][b], m) \/ e.msg = m
      BY <1>1, <2>3, AppendMsgs
    <2>5. QED  BY <1>4, <2>2, <2>4
  <1>5. ASSUME NEW x \in Services, Has(log'[d][x], m), ~Has(log[d][x], m)
        PROVE  m = e.msg
    <2>1. LogPoint(c, e, n, d, x)
      BY HandledPoints
    <2>2. log'[d][x] = Append(log[d][x], e.msg)
      BY <1>5, <2>1 DEF LogPoint
    <2>3. Has(Append(log[d][x], e.msg), m) <=> Has(log[d][x], m) \/ e.msg = m
      BY <1>1, AppendLog
    <2>4. QED  BY <1>5, <2>2, <2>3
  <1>6. QED  BY <1>3, <1>4, <1>5

LEMMA SentTypes ==
  ASSUME TypeOK
  PROVE  /\ Len(sent) \in Nat
         /\ \A i \in 1..Len(sent) : sent[i].msg \in Messages /\ sent[i].date \in Nat
  <1> DEFINE S == [msg : Messages, date : 0..MaxTime]
  <1>1. sent \in Seq(S)
    BY DEF TypeOK
  <1> HIDE DEF S
  <1>2. Len(sent) \in Nat /\ \A i \in 1..Len(sent) : sent[i] \in S
    BY <1>1
  <1>3. \A y \in S : y.msg \in Messages /\ y.date \in Nat
    BY Constants DEF S
  <1>4. QED  BY <1>2, <1>3

LEMMA SentAppended ==
  ASSUME TypeOK, OnceInv, NEW k \in Messages, SendStep(k)
  PROVE  /\ OnceInv' /\ ~WasSent(k)
         /\ \A m : WasSent(m)' <=> WasSent(m) \/ m = k
         /\ \A p, q : SentBefore(p, q)' =>
              p # q /\ p # k /\ (SentBefore(p, q) \/ (q = k /\ WasSent(p)))
         /\ Len(sent') = Len(sent) + 1
         /\ \A i \in 1..Len(sent) : sent'[i] = sent[i]
         /\ sent'[Len(sent) + 1] = [msg |-> k, date |-> now]
         /\ \A i \in 1..Len(sent') : i \in 1..Len(sent) \/ i = Len(sent) + 1
  <1> DEFINE S == [msg : Messages, date : 0..MaxTime]
             E == [msg |-> k, date |-> now]
             n == Len(sent)
  <1>1. sent \in Seq(S) /\ now \in 0..MaxTime
    BY DEF TypeOK
  <1>2. E \in S /\ E.msg = k
    BY <1>1
  <1>3. sent' = Append(sent, E) /\ \A i \in 1..n : sent[i].msg # k
    BY DEF SendStep
  <1> HIDE DEF S, E
  <1>4. /\ n \in Nat /\ Len(sent') = n + 1 /\ sent'[n + 1] = E
        /\ \A i \in 1..n : sent'[i] = sent[i]
        /\ \A i \in 1..Len(sent') : i \in 1..n \/ i = n + 1
    BY <1>1, <1>2, <1>3, Appended
  <1>5. /\ \A i \in 1..n : i \in 1..Len(sent') /\ ~(n + 1 < i) /\ i # n + 1
        /\ n + 1 \in 1..Len(sent')
    BY <1>4
  <1> HIDE DEF n
  <1>6. OnceInv'
    BY <1>2, <1>3, <1>4, <1>5 DEF OnceInv, n
  <1>7. \A m : WasSent(m)' <=> WasSent(m) \/ m = k
    BY <1>2, <1>3, <1>4, <1>5 DEF WasSent, n
  <1>8. ~WasSent(k)
    BY <1>3 DEF WasSent, n
  <1>9. ASSUME NEW p, NEW q, SentBefore(p, q)'
        PROVE  p # q /\ p # k /\ (SentBefore(p, q) \/ (q = k /\ WasSent(p)))
    <2>1. PICK i \in 1..Len(sent'), j \in 1..Len(sent') :
            i < j /\ sent'[i].msg = p /\ sent'[j].msg = q
      BY <1>9 DEF SentBefore
    <2>2. i \in 1..n /\ i # j
      <3>1. n + 1 < j => FALSE
        BY <1>4, <1>5
      <3>2. i # n + 1
        BY <2>1, <3>1
      <3>3. QED  BY <1>4, <2>1, <3>2
    <2>3. p # k /\ sent[i].msg = p
      BY <1>3, <1>4, <2>1, <2>2
    <2>4. p # q
      BY <1>6, <2>1, <2>2 DEF OnceInv
    <2>5. CASE j \in 1..n
      BY <1>4, <2>1, <2>2, <2>3, <2>4, <2>5 DEF SentBefore, n
    <2>6. CASE j = n + 1
      BY <1>2, <1>4, <2>1, <2>2, <2>3, <2>4, <2>6 DEF WasSent, n
    <2>7. QED  BY <1>4, <2>5, <2>6
  <1>10. QED  BY <1>4, <1>6, <1>7, <1>8, <1>9 DEF n, E

\* the order of two messages, and that they were sent, is the same
LEMMA SentSame ==
  ASSUME sent' = sent
  PROVE  /\ OnceInv => OnceInv'
         /\ \A m : WasSent(m)' <=> WasSent(m)
         /\ \A p, q : SentBefore(p, q)' <=> SentBefore(p, q)
  BY DEF OnceInv, WasSent, SentBefore

LEMMA BeforeDistinct ==
  ASSUME TypeOK, OnceInv, NEW p, NEW q, SentBefore(p, q)
  PROVE  p # q /\ WasSent(p) /\ WasSent(q)
  <1>1. Len(sent) \in Nat
    BY DEF TypeOK
  <1>2. PICK i \in 1..Len(sent), j \in 1..Len(sent) :
          i < j /\ sent[i].msg = p /\ sent[j].msg = q
    BY DEF SentBefore
  <1>3. i # j
    BY <1>1, <1>2
  <1>4. QED  BY <1>2, <1>3 DEF OnceInv, WasSent

LEMMA SendOrder ==
  ASSUME InOrder, NEW k \in Messages, SendStep(k)
  PROVE  OnceInv' /\ SentInv' /\ RegInv' /\ RouteInv' /\ OrderInv'
  <1> DEFINE e == Envelope(k, NoId, {}, 0, 0)
             c == From[k]
  <1>0. TypeOK /\ OnceInv /\ SentInv /\ RegInv /\ RouteInv /\ OrderInv
    BY DEF InOrder
  <1>1. c \in Computers /\ net \in Nets /\ e \in Letters /\ e.msg = k
        /\ e.informed = {}
    <2>1. c \in Computers /\ net \in Nets
      BY <1>0, Typed, MessagesAssumption DEF QueueTypes
    <2>2. e \in Letters
      BY LetterTypes
    <2>3. e.msg = k /\ e.informed = {}
      BY DEF Envelope
    <2>4. QED  BY <2>1, <2>2, <2>3
  <1>2. Handled(c, e, net) /\ registered' = registered
    BY DEF SendStep
  <1> HIDE DEF e, c
  <1>3. OnceInv' /\ ~WasSent(k) /\ \A m : WasSent(m)' <=> WasSent(m) \/ m = k
    BY <1>0, SentAppended
  <1>4. SentInv'
    <2>1. SUFFICES ASSUME NEW m \in Messages, NEW d \in Computers
                   PROVE  /\ InMsgs(cache'[d], m) => WasSent(m)'
                          /\ \A b \in Computers : InMsgs(net'[d][b], m) => WasSent(m)'
                          /\ \A x \in Services : Has(log'[d][x], m) => WasSent(m)'
      BY DEF SentInv
    <2>2. QED  BY <1>0, <1>1, <1>2, <1>3, HandledContents DEF SentInv
  <1>5. RegInv'
    <2>1. SUFFICES ASSUME NEW d \in Computers, NEW m \in Messages, InMsgs(cache'[d], m)
                   PROVE  Service[m] \in Services /\ registered[d][Service[m]] = "no"
      BY <1>2 DEF RegInv
    <2>2. InMsgs(cache[d], m) \/ (m = k /\ d = c /\ Stored(c, e, net))
      BY <1>0, <1>1, <1>2, <2>1, HandledContents
    <2>3. QED  BY <1>0, <1>1, <2>2, ToService DEF RegInv, Stored
  <1>6. RouteInv'
    <2>1. SUFFICES ASSUME NEW m \in Messages, Directed(m),
                          NEW a \in Computers, NEW b \in Computers, InMsgs(net'[a][b], m)
                   PROVE  a = From[m] /\ b = Server[m] /\ a # b
      BY DEF RouteInv
    <2>2. CASE InMsgs(net[a][b], m)
      BY <1>0, <2>1, <2>2 DEF RouteInv
    <2>3. ASSUME m = k, a = c, NEW T \in SUBSET Computers, b \in T, Passed(c, e, net, T)
          PROVE  a = From[m] /\ b = Server[m] /\ a # b
      <3>1. T = Neighbors(c) \cap {Server[m]}
        BY <1>1, <2>1, <2>3, FlowTypes DEF Passed
      <3>2. QED  BY <2>3, <3>1 DEF Neighbors, c
    <2>4. QED  BY <1>0, <1>1, <1>2, <2>1, <2>2, <2>3, HandledContents
  <1>7. OrderInv'
    <2>1. SUFFICES ASSUME NEW p \in Messages, NEW q \in Messages,
                          SentBefore(p, q)', Flow(p, q)
                   PROVE  PairInv(p, q)'
      BY DEF OrderInv, Flow
    <2> DEFINE a == From[p]
               b == Server[p]
               x == Service[p]
    <2>2. p # q /\ p # k /\ (SentBefore(p, q) \/ (q = k /\ WasSent(p)))
      BY <1>0, <2>1, SentAppended
    <2>3. a \in Computers /\ b \in Computers /\ x \in Services
      BY <2>1, FlowTypes DEF Flow
    <2>4. Pair(p, q, log[b][x], cache[b], net[a][b])
      <3>1. CASE SentBefore(p, q)
        BY <1>0, <2>1, <3>1 DEF OrderInv, PairInv
      <3>2. CASE q = k
        <4>1. ~InMsgs(cache[b], q) /\ ~InMsgs(net[a][b], q) /\ ~Has(log[b][x], q)
          BY <1>0, <1>3, <2>3, <3>2 DEF SentInv
        <4>2. QED  BY <4>1 DEF Pair, OrderedLog, Ordered, InMsgs, Has
      <3>3. QED  BY <2>2, <3>1, <3>2
    <2>5. InMsgs(cache[b], p) => registered[b][x] = "no"
      BY <1>0, <2>3 DEF RegInv
    <2>6. q = k => c = a
      BY <2>1 DEF Flow, c
    <2>7. q = k /\ c = b => ~InMsgs(net[a][b], p)
      <3>1. Directed(p)
        BY <2>1 DEF Flow
      <3>2. QED  BY <1>0, <2>3, <2>6, <3>1 DEF RouteInv
    <2>8. Pair(p, q, log'[b][x], cache'[b], net'[a][b])
      <3> HIDE DEF a, b, x
      <3>1. a = From[p] /\ b = Server[p] /\ x = Service[p]
        BY DEF a, b, x
      <3>2. QED
        BY <1>0, <1>1, <1>2, <2>1, <2>2, <2>4, <2>5, <2>6, <2>7, <3>1, HandledOrder
    <2>9. QED  BY <2>8 DEF PairInv
  <1>8. QED  BY <1>3, <1>4, <1>5, <1>6, <1>7

\* n is what is in transit once e, the first message from d to c, is taken
TakenOff(c, d, e, n) ==
  /\ n \in Nets /\ e \in Envelopes /\ e \in Letters /\ e.msg \in Messages
  /\ InMsgs(net[d][c], e.msg)
  /\ \A a, b \in Computers :
       /\ n[a][b] \in Seq(Envelopes)
       /\ \A m : InMsgs(n[a][b], m) => InMsgs(net[a][b], m)
       /\ \A m : InMsgs(net[a][b], m) =>
            InMsgs(n[a][b], m) \/ (m = e.msg /\ a = d /\ b = c)
       /\ \A p, q : Ordered(net[a][b], p, q) => Ordered(n[a][b], p, q)
       /\ n[a][b] = IF a = d /\ b = c THEN Tail(net[d][c]) ELSE net[a][b]
  /\ \A p, q : p # q /\ Ordered(net[d][c], p, q) /\ e.msg = q => ~InMsgs(net[d][c], p)

LEMMA Taken ==
  ASSUME TypeOK, NEW c \in Computers, NEW d \in Computers, net[d][c] # <<>>
  PROVE  TakenOff(c, d, Head(net[d][c]), [net EXCEPT ![d][c] = Tail(@)])
  <1> DEFINE n == [net EXCEPT ![d][c] = Tail(@)]
             e == Head(net[d][c])
             s == net[d][c]
  <1>1. net \in [Computers -> [Computers -> Seq(Envelopes)]]
    BY Typed DEF QueueTypes, Nets
  <1>2. s \in Seq(Envelopes) /\ s # <<>>
    BY <1>1
  <1>3. /\ Tail(s) \in Seq(Envelopes) /\ e \in Envelopes
        /\ InMsgs(s, e.msg)
        /\ \A m : InMsgs(s, m) <=> e.msg = m \/ InMsgs(Tail(s), m)
        /\ \A p, q : Ordered(s, p, q) => Ordered(Tail(s), p, q)
        /\ \A p, q : p # q /\ Ordered(s, p, q) /\ e.msg = q => ~InMsgs(s, p)
    <2> HIDE DEF s
    <2>1. QED  BY <1>2, TailMsgs DEF s
  <1>4. \A a, b \in Computers :
          n[a][b] = IF a = d /\ b = c THEN Tail(s) ELSE net[a][b]
    BY <1>1
  <1>5. n \in Nets
    BY <1>1, <1>3 DEF Nets
  <1>6. e \in Letters /\ e.msg \in Messages
    <2> HIDE DEF e
    <2>1. e \in Letters
      BY <1>3, LetterTypes
    <2>2. QED  BY <2>1 DEF Letters
  <1> HIDE DEF n, e, s
  <1>7. ASSUME NEW a \in Computers, NEW b \in Computers
        PROVE  /\ n[a][b] \in Seq(Envelopes)
               /\ \A m : InMsgs(n[a][b], m) => InMsgs(net[a][b], m)
               /\ \A m : InMsgs(net[a][b], m) =>
                    InMsgs(n[a][b], m) \/ (m = e.msg /\ a = d /\ b = c)
               /\ \A p, q : Ordered(net[a][b], p, q) => Ordered(n[a][b], p, q)
    <2>1. CASE a = d /\ b = c
      <3>1. n[a][b] = Tail(s) /\ net[a][b] = s
        BY <1>4, <2>1 DEF s
      <3>2. QED  BY <1>3, <2>1, <3>1
    <2>2. CASE ~(a = d /\ b = c)
      <3>1. n[a][b] = net[a][b]
        BY <1>4, <2>2
      <3>2. QED  BY <1>1, <3>1
    <2>3. QED  BY <2>1, <2>2
  <1>8. TakenOff(c, d, e, n)
    BY <1>3, <1>4, <1>5, <1>6, <1>7 DEF TakenOff, s
  <1>9. QED  BY <1>8 DEF n, e

LEMMA ReceiveOrder ==
  ASSUME InOrder, NEW c \in Computers, NEW d \in Computers, ReceiveStep(c, d)
  PROVE  OnceInv' /\ SentInv' /\ RegInv' /\ RouteInv' /\ OrderInv'
  <1> DEFINE e == Head(net[d][c])
             n == [net EXCEPT ![d][c] = Tail(@)]
             k == e.msg
  <1>0. TypeOK /\ OnceInv /\ SentInv /\ RegInv /\ RouteInv /\ OrderInv
    BY DEF InOrder
  <1>1. Handled(c, e, n) /\ registered' = registered /\ sent' = sent /\ net[d][c] # <<>>
    BY DEF ReceiveStep
  <1>2. /\ n \in Nets /\ e \in Letters /\ k \in Messages /\ InMsgs(net[d][c], k)
        /\ \A a, b \in Computers :
             /\ \A m : InMsgs(n[a][b], m) => InMsgs(net[a][b], m)
             /\ \A p, q : Ordered(net[a][b], p, q) => Ordered(n[a][b], p, q)
        /\ \A p, q : p # q /\ Ordered(net[d][c], p, q) /\ k = q => ~InMsgs(net[d][c], p)
    <2>1. TakenOff(c, d, e, n)
      BY <1>0, <1>1, Taken
    <2> HIDE DEF e, n
    <2>2. QED  BY <2>1 DEF TakenOff
  <1> HIDE DEF e, n
  <1>3. /\ OnceInv' /\ \A m : WasSent(m)' <=> WasSent(m)
        /\ \A p, q : SentBefore(p, q)' <=> SentBefore(p, q)
    BY <1>0, <1>1, SentSame
  <1>4. SentInv'
    <2>1. SUFFICES ASSUME NEW m \in Messages, NEW y \in Computers
                   PROVE  /\ InMsgs(cache'[y], m) => WasSent(m)'
                          /\ \A b \in Computers : InMsgs(net'[y][b], m) => WasSent(m)'
                          /\ \A x \in Services : Has(log'[y][x], m) => WasSent(m)'
      BY DEF SentInv
    <2>2. WasSent(k)
      BY <1>0, <1>2 DEF SentInv
    <2>3. /\ InMsgs(cache'[y], m) => InMsgs(cache[y], m) \/ m = k
          /\ \A b \in Computers : InMsgs(net'[y][b], m) => InMsgs(n[y][b], m) \/ m = k
          /\ \A x \in Services : Has(log'[y][x], m) => Has(log[y][x], m) \/ m = k
      BY <1>0, <1>1, <1>2, HandledContents
    <2>4. QED  BY <1>0, <1>2, <1>3, <2>2, <2>3 DEF SentInv
  <1>5. RegInv'
    <2>1. SUFFICES ASSUME NEW y \in Computers, NEW m \in Messages, InMsgs(cache'[y], m)
                   PROVE  Service[m] \in Services /\ registered[y][Service[m]] = "no"
      BY <1>1 DEF RegInv
    <2>2. InMsgs(cache[y], m) \/ (m = k /\ y = c /\ Stored(c, e, n))
      BY <1>0, <1>1, <1>2, <2>1, HandledContents
    <2>3. QED  BY <1>0, <1>1, <1>2, <2>2, ToService DEF RegInv, Stored
  <1>6. Directed(k) => d = From[k] /\ c = Server[k]
    BY <1>0, <1>2 DEF RouteInv
  <1>7. RouteInv'
    <2>1. SUFFICES ASSUME NEW m \in Messages, Directed(m),
                          NEW a \in Computers, NEW b \in Computers, InMsgs(net'[a][b], m)
                   PROVE  a = From[m] /\ b = Server[m] /\ a # b
      BY DEF RouteInv
    <2>2. CASE InMsgs(net[a][b], m)
      BY <1>0, <2>1, <2>2 DEF RouteInv
    <2>3. ASSUME m = k, NEW T \in SUBSET Computers, Passed(c, e, n, T)
          PROVE  FALSE
      BY <1>6, <2>1, <2>3, FlowTypes DEF Passed
    <2>4. \/ InMsgs(n[a][b], m)
          \/ m = k /\ \E T \in SUBSET Computers : b \in T /\ Passed(c, e, n, T)
      BY <1>0, <1>1, <1>2, <2>1, HandledContents
    <2>5. InMsgs(n[a][b], m) => InMsgs(net[a][b], m)
      BY <1>2
    <2>6. QED  BY <2>2, <2>3, <2>4, <2>5
  <1>8. OrderInv'
    <2>1. SUFFICES ASSUME NEW p \in Messages, NEW q \in Messages,
                          SentBefore(p, q), Flow(p, q)
                   PROVE  PairInv(p, q)'
      BY <1>3 DEF OrderInv, Flow
    <2> DEFINE a == From[p]
               b == Server[p]
               x == Service[p]
    <2>2. p # q
      BY <1>0, <2>1, BeforeDistinct
    <2>3. a \in Computers /\ b \in Computers /\ x \in Services
      BY <2>1, FlowTypes DEF Flow
    <2>4. Pair(p, q, log[b][x], cache[b], net[a][b])
      BY <1>0, <2>1 DEF OrderInv, PairInv
    <2>5. InMsgs(cache[b], p) => registered[b][x] = "no"
      BY <1>0, <2>3 DEF RegInv
    <2>6. k = p \/ k = q => d = a /\ c = b
      BY <1>6, <2>1 DEF Flow
    <2>7. k = q => ~InMsgs(n[a][b], p)
      <3>1. SUFFICES ASSUME k = q PROVE ~InMsgs(net[a][b], p)
        BY <1>2, <2>3
      <3>2. Ordered(net[d][c], p, q)
        BY <2>4, <2>6, <3>1 DEF Pair
      <3>3. QED  BY <1>2, <2>2, <2>6, <3>1, <3>2
    <2>8. k = p => ~Has(log[b][x], q) /\ ~InMsgs(cache[b], q)
      BY <1>2, <2>4, <2>6 DEF Pair
    <2>9. Pair(p, q, log[b][x], cache[b], n[a][b])
      BY <1>2, <2>3, <2>4 DEF Pair
    <2>10. Pair(p, q, log'[b][x], cache'[b], net'[a][b])
      <3> HIDE DEF a, b, x
      <3>1. a = From[p] /\ b = Server[p] /\ x = Service[p]
        BY DEF a, b, x
      <3>2. QED
        BY <1>0, <1>1, <1>2, <2>1, <2>2, <2>5, <2>6, <2>7, <2>8, <2>9, <3>1, HandledOrder
    <2>11. QED  BY <2>10 DEF PairInv
  <1>9. QED  BY <1>3, <1>4, <1>5, <1>7, <1>8

LEMMA RegisterOrder ==
  ASSUME InOrder, NEW c \in Computers, NEW name \in Services, REGISTER(c, name)
  PROVE  OnceInv' /\ SentInv' /\ RegInv' /\ RouteInv' /\ OrderInv'
  <1>0. TypeOK /\ OnceInv /\ SentInv /\ RegInv /\ RouteInv /\ OrderInv
    BY DEF InOrder
  <1>1. /\ net' = net /\ sent' = sent
        /\ registered' = [registered EXCEPT ![c][name] = "named"]
        /\ registered \in [Computers -> [Services -> {"no", "named", "ready"}]]
    BY <1>0 DEF REGISTER, TypeOK
  <1>2. /\ \A m : InMsgs(cache'[c], m) => InMsgs(cache[c], m) /\ Service[m] # name
        /\ \A p, q : Ordered(cache[c], p, q) => Ordered(cache'[c], p, q)
        /\ \A m : Has(log'[c][name], m) => Has(log[c][name], m) \/ InMsgs(cache[c], m)
        /\ \A p, q : /\ OrderedLog(log[c][name], p, q)
                     /\ Ordered(cache[c], p, q)
                     /\ ~(Has(log[c][name], q) /\ InMsgs(cache[c], p))
                     => OrderedLog(log'[c][name], p, q)
        /\ \A d \in Computers : d # c => cache'[d] = cache[d]
        /\ \A d \in Computers, x \in Services :
             ~(d = c /\ x = name) => log'[d][x] = log[d][x]
    <2>1. RegisterEffect(c, name)
      BY <1>0, RegisterQueues
    <2>2. QED  BY <2>1 DEF RegisterEffect
  <1>3. /\ OnceInv' /\ \A m : WasSent(m)' <=> WasSent(m)
        /\ \A p, q : SentBefore(p, q)' <=> SentBefore(p, q)
    BY <1>0, <1>1, SentSame
  <1>4. /\ \A d \in Computers : \A m : InMsgs(cache'[d], m) => InMsgs(cache[d], m)
        /\ \A d \in Computers, x \in Services : \A m :
             Has(log'[d][x], m) => Has(log[d][x], m) \/ InMsgs(cache[d], m)
    BY <1>2
  <1>5. SentInv'
    BY <1>0, <1>1, <1>3, <1>4 DEF SentInv
  <1>6. RegInv'
    BY <1>0, <1>1, <1>2, <1>4 DEF RegInv
  <1>7. RouteInv'
    BY <1>0, <1>1 DEF RouteInv
  <1>8. OrderInv'
    <2>1. SUFFICES ASSUME NEW p \in Messages, NEW q \in Messages,
                          SentBefore(p, q), Flow(p, q)
                   PROVE  PairInv(p, q)'
      BY <1>3 DEF OrderInv, Flow
    <2> DEFINE a == From[p]
               b == Server[p]
               x == Service[p]
    <2>2. a \in Computers /\ b \in Computers /\ x \in Services /\ Service[q] = x
      BY <2>1, FlowTypes DEF Flow
    <2>3. Pair(p, q, log[b][x], cache[b], net[a][b])
      BY <1>0, <2>1 DEF OrderInv, PairInv
    <2>4. Pair(p, q, log'[b][x], cache'[b], net[a][b])
      <3>1. Ordered(cache'[b], p, q)
        BY <1>2, <2>2, <2>3 DEF Pair
      <3>2. CASE b = c /\ x = name
        <4>1. ~InMsgs(cache'[b], p) /\ ~InMsgs(cache'[b], q)
          BY <1>2, <2>2, <3>2
        <4>2. OrderedLog(log'[b][x], p, q)
          BY <1>2, <2>3, <3>2 DEF Pair
        <4>3. Has(log'[b][x], q) => ~InMsgs(net[a][b], p)
          BY <1>2, <2>3, <3>2 DEF Pair
        <4>4. QED  BY <2>3, <3>1, <4>1, <4>2, <4>3 DEF Pair
      <3>3. CASE ~(b = c /\ x = name)
        <4>1. log'[b][x] = log[b][x]
          BY <1>2, <2>2, <3>3
        <4>2. QED  BY <1>4, <2>2, <2>3, <3>1, <4>1 DEF Pair
      <3>4. QED  BY <3>2, <3>3
    <2>5. QED  BY <1>1, <2>4 DEF PairInv
  <1>9. QED  BY <1>3, <1>5, <1>6, <1>7, <1>8

LEMMA RestartQueues ==
  ASSUME TypeOK, NEW c \in Computers, Restart(c)
  PROVE  \A d \in Computers :
           /\ cache'[d] = IF d = c THEN <<>> ELSE cache[d]
           /\ \A x \in Services : log'[d][x] = IF d = c THEN <<>> ELSE log[d][x]
           /\ \A b \in Computers : net'[d][b] = IF c \in {d, b} THEN <<>> ELSE net[d][b]
           /\ received'[d] = IF d = c THEN {} ELSE received[d]
           /\ d # c => sequence'[d] = sequence[d]
           /\ \A x \in Services :
                registered'[d][x] = IF d = c THEN "no" ELSE registered[d][x]
  <1>1. TypeOK
    OBVIOUS
  <1>2. \A d \in Computers :
           /\ cache'[d] = IF d = c THEN <<>> ELSE cache[d]
           /\ \A b \in Computers : net'[d][b] = IF c \in {d, b} THEN <<>> ELSE net[d][b]
           /\ received'[d] = IF d = c THEN {} ELSE received[d]
           /\ d # c => sequence'[d] = sequence[d]
    BY Typed DEF Restart, QueueTypes
  <1>3. \A d \in Computers, x \in Services :
           log'[d][x] = IF d = c THEN <<>> ELSE log[d][x]
    BY Typed DEF Restart, QueueTypes
  <1>4. \A d \in Computers, x \in Services :
           registered'[d][x] = IF d = c THEN "no" ELSE registered[d][x]
    BY DEF Restart, TypeOK
  <1>5. QED  BY <1>2, <1>3, <1>4

LEMMA RestartOrder ==
  ASSUME InOrder, NEW c \in Computers, Restart(c)
  PROVE  OnceInv' /\ SentInv' /\ RegInv' /\ RouteInv' /\ OrderInv'
  <1>0. TypeOK /\ OnceInv /\ SentInv /\ RegInv /\ RouteInv /\ OrderInv
    BY DEF InOrder
  <1>1. sent' = sent
    BY DEF Restart
  <1>2. \A d \in Computers :
          /\ cache'[d] = IF d = c THEN <<>> ELSE cache[d]
          /\ \A x \in Services : log'[d][x] = IF d = c THEN <<>> ELSE log[d][x]
          /\ \A b \in Computers : net'[d][b] = IF c \in {d, b} THEN <<>> ELSE net[d][b]
          /\ \A x \in Services :
               registered'[d][x] = IF d = c THEN "no" ELSE registered[d][x]
    BY <1>0, RestartQueues
  <1>3. /\ OnceInv' /\ \A m : WasSent(m)' <=> WasSent(m)
        /\ \A p, q : SentBefore(p, q)' <=> SentBefore(p, q)
    BY <1>0, <1>1, SentSame
  <1>4. \A d \in Computers, x \in Services : \A m :
          Has(log'[d][x], m) => Has(log[d][x], m)
    <2>1. SUFFICES ASSUME NEW d \in Computers, NEW x \in Services, NEW m,
                          Has(log'[d][x], m)
                   PROVE  Has(log[d][x], m)
      OBVIOUS
    <2>2. log'[d][x] = <<>> \/ log'[d][x] = log[d][x]
      BY <1>2
    <2>3. QED  BY <2>1, <2>2, EmptyQueue
  <1>a. \A d, b \in Computers : \A m :
          /\ InMsgs(cache'[d], m) => InMsgs(cache[d], m) /\ d # c
          /\ InMsgs(net'[d][b], m) => InMsgs(net[d][b], m)
    <2>1. SUFFICES ASSUME NEW d \in Computers, NEW b \in Computers, NEW m
                   PROVE  /\ InMsgs(cache'[d], m) => InMsgs(cache[d], m) /\ d # c
                          /\ InMsgs(net'[d][b], m) => InMsgs(net[d][b], m)
      OBVIOUS
    <2>2. /\ cache'[d] = IF d = c THEN <<>> ELSE cache[d]
          /\ net'[d][b] = <<>> \/ net'[d][b] = net[d][b]
      BY <1>2
    <2>3. QED  BY <2>2, EmptyQueue
  <1>5. SentInv'
    BY <1>0, <1>3, <1>4, <1>a DEF SentInv
  <1>6. RegInv'
    <2>1. SUFFICES ASSUME NEW d \in Computers, NEW m \in Messages, InMsgs(cache'[d], m)
                   PROVE  Service[m] \in Services /\ registered'[d][Service[m]] = "no"
      BY DEF RegInv
    <2>2. InMsgs(cache[d], m) /\ d # c
      BY <1>a, <2>1
    <2>3. Service[m] \in Services /\ registered[d][Service[m]] = "no"
      BY <1>0, <2>2 DEF RegInv
    <2>4. registered'[d][Service[m]] = registered[d][Service[m]]
      BY <1>2, <2>2, <2>3
    <2>5. QED  BY <2>3, <2>4
  <1>7. RouteInv'
    BY <1>0, <1>a DEF RouteInv
  <1>8. OrderInv'
    <2>1. SUFFICES ASSUME NEW p \in Messages, NEW q \in Messages,
                          SentBefore(p, q), Flow(p, q)
                   PROVE  PairInv(p, q)'
      BY <1>3 DEF OrderInv, Flow
    <2> DEFINE a == From[p]
               b == Server[p]
               x == Service[p]
    <2>2. a \in Computers /\ b \in Computers /\ x \in Services
      BY <2>1, FlowTypes DEF Flow
    <2>3. Pair(p, q, log[b][x], cache[b], net[a][b])
      BY <1>0, <2>1 DEF OrderInv, PairInv
    <2>4. /\ log'[b][x] = <<>> \/ log'[b][x] = log[b][x]
          /\ cache'[b] = <<>> \/ cache'[b] = cache[b]
          /\ net'[a][b] = <<>> \/ net'[a][b] = net[a][b]
      BY <1>2, <2>2
    <2>5. Pair(p, q, log'[b][x], cache'[b], net'[a][b])
      BY <2>3, <2>4, EmptyQueue DEF Pair
    <2>6. QED  BY <2>5 DEF PairInv
  <1>9. QED  BY <1>3, <1>5, <1>6, <1>7, <1>8

\* the steps that leave the queues alone and do not register a service
QuietStep ==
  /\ cache' = cache /\ net' = net /\ log' = log /\ sent' = sent
  /\ received' = received /\ sequence' = sequence /\ rebooted' = rebooted
  /\ \A c \in Computers, x \in Services :
       registered[c][x] = "no" => registered'[c][x] = "no"

LEMMA QuietSteps ==
  ASSUME TypeOK
  PROVE  /\ UNCHANGED vars => QuietStep /\ now' = now
         /\ \A c \in Computers, name \in Services :
              /\ COMMANDS(c, name) => QuietStep /\ now' = now
              /\ UNREGISTER(c, name) => QuietStep /\ now' = now
         /\ Tick => QuietStep /\ now' = now + 1
  <1>1. UNCHANGED vars => QuietStep /\ now' = now
    BY DEF vars, QuietStep
  <1>2. ASSUME NEW c \in Computers, NEW name \in Services, COMMANDS(c, name)
        PROVE  QuietStep /\ now' = now
    BY <1>2 DEF COMMANDS, QuietStep, TypeOK
  <1>3. ASSUME NEW c \in Computers, NEW name \in Services, UNREGISTER(c, name)
        PROVE  QuietStep /\ now' = now
    BY <1>3 DEF UNREGISTER, QuietStep, TypeOK
  <1>4. Tick => QuietStep /\ now' = now + 1
    BY DEF Tick, QuietStep
  <1>5. QED  BY <1>1, <1>2, <1>3, <1>4

LEMMA QuietOrder ==
  ASSUME InOrder, QuietStep
  PROVE  OnceInv' /\ SentInv' /\ RegInv' /\ RouteInv' /\ OrderInv'
  <1>0. TypeOK /\ OnceInv /\ SentInv /\ RegInv /\ RouteInv /\ OrderInv
    BY DEF InOrder
  <1>1. /\ cache' = cache /\ net' = net /\ log' = log /\ sent' = sent
    BY DEF QuietStep
  <1>2. /\ OnceInv' /\ \A m : WasSent(m)' <=> WasSent(m)
        /\ \A p, q : SentBefore(p, q)' <=> SentBefore(p, q)
    BY <1>0, <1>1, SentSame
  <1>3. SentInv'
    BY <1>0, <1>1, <1>2 DEF SentInv
  <1>4. RegInv'
    BY <1>0, <1>1 DEF RegInv, QuietStep
  <1>5. RouteInv'
    BY <1>0, <1>1 DEF RouteInv
  <1>6. OrderInv'
    BY <1>0, <1>1, <1>2 DEF OrderInv, PairInv, Flow
  <1>7. QED  BY <1>2, <1>3, <1>4, <1>5, <1>6

LEMMA OrderInit ==
  ASSUME Init
  PROVE  InOrder
  <1>1. TypeOK
    BY InitTypes
  <1>2. /\ \A c \in Computers : cache[c] = <<>>
        /\ \A c, d \in Computers : net[c][d] = <<>>
        /\ \A c \in Computers, x \in Services : log[c][x] = <<>>
        /\ Len(sent) = 0
    BY DEF Init
  <1>3. /\ \A c \in Computers : \A m : ~InMsgs(cache[c], m)
        /\ \A c, d \in Computers : \A m : ~InMsgs(net[c][d], m)
        /\ \A c \in Computers, x \in Services : \A m : ~Has(log[c][x], m)
    BY <1>2, EmptyQueue
  <1>4. OnceInv /\ \A p, q : ~SentBefore(p, q)
    BY <1>2 DEF OnceInv, SentBefore
  <1>5. QED
    BY <1>1, <1>3, <1>4 DEF InOrder, SentInv, RegInv, RouteInv, OrderInv

LEMMA OrderNext ==
  ASSUME InOrder, [Next]_vars
  PROVE  InOrder'
  <1>1. TypeOK /\ TypeOK'
    BY TypesNext DEF InOrder
  <1> DEFINE Goal == OnceInv' /\ SentInv' /\ RegInv' /\ RouteInv' /\ OrderInv'
  <1>2. ASSUME NEW m \in Messages, Send(m)
        PROVE  Goal
    BY <1>1, <1>2, SendSteps, SendOrder
  <1>3. ASSUME NEW c \in Computers, NEW d \in Computers, Receive(c, d)
        PROVE  Goal
    BY <1>1, <1>3, ReceiveSteps, ReceiveOrder
  <1>4. ASSUME NEW c \in Computers, NEW name \in Services, REGISTER(c, name)
        PROVE  Goal
    BY <1>4, RegisterOrder
  <1>5. ASSUME NEW c \in Computers, Restart(c)
        PROVE  Goal
    BY <1>5, RestartOrder
  <1>6. ASSUME QuietStep
        PROVE  Goal
    BY <1>6, QuietOrder
  <1>7. Goal
    <2> HIDE DEF Goal
    <2>1. QED
      BY <1>1, <1>2, <1>3, <1>4, <1>5, <1>6, QuietSteps DEF Next
  <1>8. QED  BY <1>1, <1>7 DEF InOrder

LEMMA OrderInvariant == Spec => []InOrder
  <1>1. Init => InOrder
    BY OrderInit
  <1>2. InOrder /\ [Next]_vars => InOrder'
    BY OrderNext
  <1>3. QED  BY <1>1, <1>2, PTL DEF Spec

(***************************************************************************)
(* The messages of one computer to a service of a computer it is connected *)
(* with arrive in the order in which they were sent: neither the cache of  *)
(* messages to a service that is not registered yet, nor the restart of a  *)
(* daemon, nor the time limits let a later message overtake an earlier     *)
(* one.                                                                    *)
(***************************************************************************)
THEOREM MessagesInOrder == Spec => []DirectedInOrder
  <1>1. InOrder => DirectedInOrder
    <2>1. SUFFICES ASSUME InOrder, NEW i \in 1..Len(sent), NEW j \in 1..Len(sent), i < j,
                          Flow(sent[i].msg, sent[j].msg)
                   PROVE  OrderedLog(log[Server[sent[i].msg]][Service[sent[i].msg]],
                                     sent[i].msg, sent[j].msg)
      BY DEF DirectedInOrder, Flow, OrderedLog
    <2> DEFINE p == sent[i].msg
               q == sent[j].msg
    <2>2. p \in Messages /\ q \in Messages
      BY <2>1, SentTypes DEF InOrder
    <2>3. SentBefore(p, q)
      BY <2>1 DEF SentBefore
    <2>4. PairInv(p, q)
      BY <2>1, <2>2, <2>3 DEF InOrder, OrderInv
    <2>5. QED  BY <2>4 DEF PairInv, Pair
  <1>2. QED  BY <1>1, OrderInvariant, PTL

-----------------------------------------------------------------------------
(***************************************************************************)
(* The invariant for NothingLost: a message is dropped when its identifier *)
(* is in f_received_broadcast_messages or its time is over, so these must  *)
(* be right, too.                                                          *)
(***************************************************************************)
Flying(e) == \E a, b \in Computers : Has(net[a][b], e)

Remembered(id) == \E b \in Computers : \E r \in received[b] : r.msgid = id

\* g_broadcast_sequence of a daemon that did not restart is beyond its identifiers
IdInv ==
  \A a \in Computers \ rebooted, i \in Nat :
    (\E e : Flying(e) /\ e.msgid = <<a, i>>) \/ Remembered(<<a, i>>)
    => i <= sequence[a]

\* they identify the message
UniqueInv ==
  \A e, f : Flying(e) /\ Flying(f) /\ e.msgid = f.msgid /\ e.msgid[1] \notin rebooted
           => e.msg = f.msg

\* a message to one service is not known before it arrives
UnknownInv ==
  \A e : Flying(e) /\ Directed(e.msg) =>
    /\ e.msgid[1] = From[e.msg]
    /\ e.msgid[1] \notin rebooted => ~Remembered(e.msgid)

LimitInv ==
  \A i \in 1..Len(sent) :
    /\ sent[i].date <= now
    /\ \A e : Flying(e) /\ Directed(e.msg) /\ e.msg = sent[i].msg
         => sent[i].date + BroadcastTTL <= e.timeout
    /\ \A c \in Computers : \A y : Has(cache[c], y) /\ y.msg = sent[i].msg
         => sent[i].date + CacheTTL[sent[i].msg] <= y.timeout

IdsInv == IdInv /\ UniqueInv /\ UnknownInv

LEMMA HasMsgs ==
  ASSUME NEW s, NEW m
  PROVE  InMsgs(s, m) <=> \E e : Has(s, e) /\ e.msg = m
  BY DEF InMsgs, Has

LEMMA IdIsPair ==
  ASSUME NEW id \in Computers \X Nat
  PROVE  id # NoId
  <1>1. PICK a \in Computers, i \in Nat : id = <<a, i>>
    OBVIOUS
  <1>2. Len(<<a, i>>) = 2 /\ Len(<<>>) = 0
    OBVIOUS
  <1>3. <<a, i>> # <<>>
    BY <1>2
  <1>4. QED  BY <1>1, <1>3 DEF NoId

LEMMA FlyingTypes ==
  ASSUME TypeOK, NEW e, Flying(e)
  PROVE  /\ e \in Envelopes /\ e.msgid \in Computers \X Nat /\ e.msgid # NoId
         /\ e.msg \in Messages /\ e.timeout \in Nat
  <1>1. PICK a \in Computers, b \in Computers : Has(net[a][b], e)
    BY DEF Flying
  <1>2. net[a][b] \in Seq(Envelopes)
    BY Typed DEF QueueTypes, Nets
  <1>3. e \in Envelopes
    BY <1>1, <1>2 DEF Has
  <1>4. e.msgid \in Computers \X Nat /\ e.msg \in Messages /\ e.timeout \in Nat
    BY <1>3 DEF Envelopes
  <1>5. e.msgid # NoId
    BY <1>4, IdIsPair
  <1>6. QED  BY <1>3, <1>4, <1>5

\* the identifier of a message that a service sends is not remembered
LEMMA NoIdUnknown ==
  ASSUME TypeOK, NEW c \in Computers, NEW r \in received[c]
  PROVE  r.msgid # NoId /\ r.msgid \in Computers \X Nat
  <1>1. r \in [msgid : Computers \X Nat, timeout : Nat]
    BY Typed DEF QueueTypes
  <1>2. r.msgid \in Computers \X Nat
    BY <1>1
  <1>3. QED  BY <1>2, IdIsPair

\* what a handler does to the envelopes in transit, the identifiers and the number
LEMMA HandledIdentifiers ==
  ASSUME TypeOK, NEW c \in Computers, NEW e \in Letters, NEW n \in Nets,
         Handled(c, e, n),
         \A a, b \in Computers : \A f : Has(n[a][b], f) => Has(net[a][b], f)
  PROVE  /\ \A f : Flying(f)' =>
              \/ Flying(f)
              \/ \E T \in SUBSET Computers :
                   f = Sealed(c, e, T) /\ Passed(c, e, n, T) /\ sequence'[c] = sequence[c] + 1
         /\ \A id : Remembered(id)' =>
              \/ Remembered(id)
              \/ /\ id = e.msgid /\ e.msgid # NoId
                 /\ \E T \in SUBSET Computers : Passed(c, e, n, T)
         /\ \A a \in Computers : sequence'[a] \in Nat /\ sequence[a] <= sequence'[a]
  <1>0. /\ sequence \in [Computers -> Nat]
        /\ received \in [Computers -> SUBSET [msgid : Computers \X Nat, timeout : Nat]]
    BY Typed DEF QueueTypes
  <1>1. ASSUME NEW f, Flying(f)', ~Flying(f)
        PROVE  \E T \in SUBSET Computers :
                 f = Sealed(c, e, T) /\ Passed(c, e, n, T) /\ sequence'[c] = sequence[c] + 1
    <2>1. PICK a \in Computers, b \in Computers : Has(net'[a][b], f)
      BY <1>1 DEF Flying
    <2>2. ~Has(n[a][b], f)
      BY <1>1 DEF Flying
    <2>3. NetPoint(c, e, n, a, b)
      BY HandledPoints
    <2>4. PICK T \in SUBSET Computers :
            /\ a = c /\ b \in T /\ Passed(c, e, n, T)
            /\ net'[a][b] = Append(n[a][b], Sealed(c, e, T))
      BY <2>1, <2>2, <2>3 DEF NetPoint
    <2>5. n[a][b] \in Seq(Envelopes) /\ Sealed(c, e, T) \in Envelopes
      BY SealedType DEF Nets
    <2>6. Has(Append(n[a][b], Sealed(c, e, T)), f) <=> Has(n[a][b], f) \/ Sealed(c, e, T) = f
      BY <2>5, AppendLog
    <2>7. sequence'[c] = sequence[c] + 1
      BY <1>0, <2>4 DEF Passed, Effect
    <2>8. QED  BY <2>1, <2>2, <2>4, <2>6, <2>7
  <1>2. ASSUME NEW id, Remembered(id)', ~Remembered(id)
        PROVE  /\ id = e.msgid /\ e.msgid # NoId
               /\ \E T \in SUBSET Computers : Passed(c, e, n, T)
    <2>0. PICK b \in Computers : \E r \in received'[b] : r.msgid = id
      BY <1>2 DEF Remembered
    <2>1. PICK r \in received'[b] : r.msgid = id
      BY <2>0
    <2>2. r \notin received[b]
      BY <1>2, <2>1 DEF Remembered
    <2>3. received' # received
      BY <2>1, <2>2
    <2>4. PICK T \in SUBSET Computers : Passed(c, e, n, T)
      BY <2>3 DEF Handled, Dropped, Given, Stored
    <2>5. received' = [received EXCEPT ![c] = Recalled(c, e)]
      BY <2>4 DEF Passed, Effect
    <2>6. b = c /\ r \in Recalled(c, e)
      BY <1>0, <2>1, <2>2, <2>5
    <2>7. e.msgid # NoId /\ r = [msgid |-> e.msgid, timeout |-> e.timeout]
      BY <2>2, <2>6 DEF Recalled
    <2>8. QED  BY <2>1, <2>4, <2>7
  <1>3. ASSUME NEW a \in Computers
        PROVE  sequence'[a] \in Nat /\ sequence[a] <= sequence'[a]
    <2>1. CASE sequence' = sequence
      BY <1>0, <2>1
    <2>2. ASSUME NEW T, sequence' = [sequence EXCEPT ![c] = IF T = {} THEN @ ELSE @ + 1]
          PROVE  sequence'[a] \in Nat /\ sequence[a] <= sequence'[a]
      BY <1>0, <2>2
    <2>3. QED  BY <2>1, <2>2 DEF Handled, Dropped, Given, Stored, Passed, Effect
  <1>4. QED  BY <1>1, <1>2, <1>3

(***************************************************************************)
(* A handler keeps the identifiers right.  It gets a message without one   *)
(* from a service of its own computer, or one that was in transit; that    *)
(* one is not passed on when it is to a service of this computer.          *)
(***************************************************************************)
LEMMA HandledIds ==
  ASSUME TypeOK, NEW c \in Computers, NEW e \in Letters, NEW n \in Nets,
         Handled(c, e, n), rebooted' = rebooted, IdsInv,
         \A a, b \in Computers : \A f : Has(n[a][b], f) => Has(net[a][b], f),
         \/ e.msgid = NoId /\ c = From[e.msg]
         \/ e.msgid # NoId /\ Flying(e) /\ (Directed(e.msg) => c = Server[e.msg])
  PROVE  IdsInv'
  <1>0. IdInv /\ UniqueInv /\ UnknownInv /\ sequence[c] \in Nat
    BY Typed DEF IdsInv, QueueTypes
  <1>1. /\ \A f : Flying(f)' =>
              \/ Flying(f)
              \/ \E T \in SUBSET Computers :
                   f = Sealed(c, e, T) /\ Passed(c, e, n, T) /\ sequence'[c] = sequence[c] + 1
        /\ \A id : Remembered(id)' =>
              \/ Remembered(id)
              \/ /\ id = e.msgid /\ e.msgid # NoId
                 /\ \E T \in SUBSET Computers : Passed(c, e, n, T)
        /\ \A a \in Computers : sequence'[a] \in Nat /\ sequence[a] <= sequence'[a]
    BY HandledIdentifiers
  <1>2. \A T \in SUBSET Computers :
          /\ Sealed(c, e, T).msg = e.msg
          /\ e.msgid = NoId => Sealed(c, e, T).msgid = <<c, sequence[c] + 1>>
          /\ e.msgid # NoId => Sealed(c, e, T).msgid = e.msgid
    BY SealedType
  <1>3. ASSUME NEW T \in SUBSET Computers, Passed(c, e, n, T), Directed(e.msg)
        PROVE  e.msgid = NoId
    <2>1. e.msg \in Messages
      BY DEF Letters
    <2>2. QED  BY <1>3, <2>1, FlowTypes DEF Passed
  <1>4. IdInv'
    <2>1. SUFFICES ASSUME NEW a \in Computers \ rebooted, NEW i \in Nat,
                          (\E f : Flying(f)' /\ f.msgid = <<a, i>>) \/ Remembered(<<a, i>>)'
                   PROVE  i <= sequence'[a]
      BY DEF IdInv
    <2>2. CASE (\E f : Flying(f) /\ f.msgid = <<a, i>>) \/ Remembered(<<a, i>>)
      <3>1. i <= sequence[a]
        BY <1>0, <2>2 DEF IdInv
      <3>2. sequence[a] \in Nat
        BY Typed DEF QueueTypes
      <3>3. QED  BY <1>1, <3>1, <3>2
    <2>3. CASE <<a, i>> = e.msgid /\ e.msgid # NoId
      BY <2>2, <2>3
    <2>4. CASE e.msgid = NoId /\ <<a, i>> = <<c, sequence[c] + 1>>
                /\ sequence'[c] = sequence[c] + 1
      BY <1>0, <2>4
    <2>5. QED  BY <1>1, <1>2, <2>1, <2>2, <2>3, <2>4
  <1>5. UniqueInv'
    <2>1. SUFFICES ASSUME NEW f, NEW g, Flying(f)', Flying(g)', f.msgid = g.msgid,
                          f.msgid[1] \notin rebooted
                   PROVE  f.msg = g.msg
      BY DEF UniqueInv
    <2>2. CASE Flying(f) /\ Flying(g)
      BY <1>0, <2>1, <2>2 DEF UniqueInv
    <2>3. ASSUME NEW h, Flying(h), h.msgid[1] \notin rebooted,
                 NEW T \in SUBSET Computers, Sealed(c, e, T).msgid = h.msgid
          PROVE  h.msg = e.msg
      <3>1. CASE e.msgid # NoId
        BY <1>0, <1>2, <2>3, <3>1 DEF UniqueInv
      <3>2. CASE e.msgid = NoId
        <4>1. h.msgid = <<c, sequence[c] + 1>> /\ sequence[c] + 1 \in Nat
          BY <1>0, <1>2, <2>3, <3>2
        <4>2. c \notin rebooted
          BY <2>3, <4>1
        <4>3. sequence[c] + 1 <= sequence[c]
          BY <1>0, <2>3, <4>1, <4>2 DEF IdInv
        <4>4. QED  BY <1>0, <4>3
      <3>3. QED  BY <3>1, <3>2
    <2>4. QED  BY <1>1, <1>2, <2>1, <2>2, <2>3
  <1>6. UnknownInv'
    <2>1. SUFFICES ASSUME NEW f, Flying(f)', Directed(f.msg)
                   PROVE  /\ f.msgid[1] = From[f.msg]
                          /\ f.msgid[1] \notin rebooted => ~Remembered(f.msgid)'
      BY DEF UnknownInv, Directed
    <2>2. CASE Flying(f)
      <3>1. f.msgid[1] = From[f.msg]
        BY <1>0, <2>1, <2>2 DEF UnknownInv
      <3>2. ASSUME f.msgid[1] \notin rebooted, Remembered(f.msgid)'
            PROVE  FALSE
        <4>1. ~Remembered(f.msgid)
          BY <1>0, <2>1, <2>2, <3>2 DEF UnknownInv
        <4>2. PICK T \in SUBSET Computers :
                f.msgid = e.msgid /\ e.msgid # NoId /\ Passed(c, e, n, T)
          BY <1>1, <3>2, <4>1
        <4>3. f.msg = e.msg
          BY <1>0, <2>2, <3>2, <4>2 DEF UniqueInv
        <4>4. QED  BY <1>3, <2>1, <4>2, <4>3
      <3>3. QED  BY <3>1, <3>2
    <2>3. ASSUME NEW T \in SUBSET Computers, f = Sealed(c, e, T), Passed(c, e, n, T)
          PROVE  /\ f.msgid[1] = From[f.msg]
                 /\ f.msgid[1] \notin rebooted => ~Remembered(f.msgid)'
      <3>1. f.msg = e.msg /\ e.msgid = NoId /\ f.msgid = <<c, sequence[c] + 1>>
        BY <1>2, <1>3, <2>1, <2>3
      <3>2. f.msgid[1] = c /\ c = From[f.msg]
        BY <3>1
      <3>3. ASSUME c \notin rebooted, Remembered(f.msgid)'
            PROVE  FALSE
        <4>1. Remembered(<<c, sequence[c] + 1>>) /\ sequence[c] + 1 \in Nat
          BY <1>0, <1>1, <3>1, <3>3
        <4>2. sequence[c] + 1 <= sequence[c]
          BY <1>0, <3>3, <4>1 DEF IdInv
        <4>3. QED  BY <1>0, <4>2
      <3>4. QED  BY <3>2, <3>3
    <2>4. QED  BY <1>1, <2>1, <2>2, <2>3
  <1>7. QED  BY <1>4, <1>5, <1>6 DEF IdsInv

\* what the first message from d to c leaves in transit
LEMMA TakenHas ==
  ASSUME TypeOK, NEW c \in Computers, NEW d \in Computers, net[d][c] # <<>>
  PROVE  LET n == [net EXCEPT ![d][c] = Tail(@)]
             e == Head(net[d][c])
         IN  /\ Has(net[d][c], e)
             /\ \A a, b \in Computers : \A f : Has(n[a][b], f) => Has(net[a][b], f)
  <1> DEFINE n == [net EXCEPT ![d][c] = Tail(@)]
             s == net[d][c]
  <1>1. net \in [Computers -> [Computers -> Seq(Envelopes)]]
    BY Typed DEF QueueTypes, Nets
  <1>2. \A a, b \in Computers :
          n[a][b] = IF a = d /\ b = c THEN Tail(s) ELSE net[a][b]
    BY <1>1
  <1>3. s \in Seq(Envelopes) /\ s # <<>>
    BY <1>1
  <1> HIDE DEF n, s
  <1>4. /\ 1 \in 1..Len(s) /\ Head(s) = s[1] /\ Len(s) \in Nat
        /\ Len(Tail(s)) = Len(s) - 1
        /\ \A i \in 1..(Len(s) - 1) : Tail(s)[i] = s[i + 1] /\ i + 1 \in 1..Len(s)
    BY <1>3
  <1>5. Has(s, Head(s))
    BY <1>4 DEF Has
  <1>6. \A f : Has(Tail(s), f) => Has(s, f)
    BY <1>4 DEF Has
  <1>7. \A a, b \in Computers : \A f : Has(n[a][b], f) => Has(net[a][b], f)
    BY <1>2, <1>6 DEF s
  <1>8. QED  BY <1>5, <1>7 DEF n, s

\* a step that loses envelopes and identifiers only
LEMMA FewerIds ==
  ASSUME IdsInv, rebooted \subseteq rebooted',
         \A e : Flying(e)' => Flying(e),
         \A id : Remembered(id)' => Remembered(id),
         \A a \in Computers \ rebooted' : sequence'[a] = sequence[a]
  PROVE  IdsInv'
  <1>0. IdInv /\ UniqueInv /\ UnknownInv
    BY DEF IdsInv
  <1>1. IdInv'
    BY <1>0 DEF IdInv
  <1>2. UniqueInv'
    BY <1>0 DEF UniqueInv
  <1>3. UnknownInv'
    <2>1. SUFFICES ASSUME NEW f, Flying(f)', Directed(f.msg)
                   PROVE  /\ f.msgid[1] = From[f.msg]
                          /\ f.msgid[1] \notin rebooted' => ~Remembered(f.msgid)'
      BY DEF UnknownInv, Directed
    <2>2. QED  BY <1>0, <2>1 DEF UnknownInv
  <1>4. QED  BY <1>1, <1>2, <1>3 DEF IdsInv

LEMMA IdsNext ==
  ASSUME InOrder, InOrder', IdsInv, [Next]_vars
  PROVE  IdsInv'
  <1>0. TypeOK /\ RouteInv
    BY DEF InOrder
  <1>1. ASSUME NEW m \in Messages, Send(m)
        PROVE  IdsInv'
    <2> DEFINE e == Envelope(m, NoId, {}, 0, 0)
    <2>1. /\ From[m] \in Computers /\ net \in Nets
          /\ e \in Letters /\ e.msg = m /\ e.msgid = NoId
      BY <1>0, Typed, LetterTypes, MessagesAssumption DEF QueueTypes, Envelope
    <2>2. Handled(From[m], e, net) /\ rebooted' = rebooted
      BY <1>0, <1>1, SendSteps DEF SendStep
    <2> HIDE DEF e
    <2>3. QED  BY <1>0, <2>1, <2>2, HandledIds
  <1>2. ASSUME NEW c \in Computers, NEW d \in Computers, Receive(c, d)
        PROVE  IdsInv'
    <2> DEFINE e == Head(net[d][c])
               n == [net EXCEPT ![d][c] = Tail(@)]
    <2>1. Handled(c, e, n) /\ rebooted' = rebooted /\ net[d][c] # <<>>
      BY <1>0, <1>2, ReceiveSteps DEF ReceiveStep
    <2>2. TakenOff(c, d, e, n)
      BY <1>0, <2>1, Taken
    <2>3. /\ Has(net[d][c], e)
          /\ \A a, b \in Computers : \A f : Has(n[a][b], f) => Has(net[a][b], f)
      BY <1>0, <2>1, TakenHas
    <2> HIDE DEF e, n
    <2>4. Flying(e)
      BY <2>3 DEF Flying
    <2>5. e \in Letters /\ n \in Nets /\ e.msg \in Messages /\ InMsgs(net[d][c], e.msg)
      BY <2>2 DEF TakenOff
    <2>6. e.msgid # NoId
      BY <1>0, <2>4, FlyingTypes
    <2>7. Directed(e.msg) => c = Server[e.msg]
      BY <1>0, <2>5 DEF RouteInv
    <2>8. QED  BY <1>0, <2>1, <2>3, <2>4, <2>5, <2>6, <2>7, HandledIds
  <1>3. ASSUME NEW c \in Computers, NEW name \in Services, REGISTER(c, name)
        PROVE  IdsInv'
    BY <1>3, FewerIds DEF REGISTER, Flying, Remembered
  <1>4. ASSUME NEW c \in Computers, Restart(c)
        PROVE  IdsInv'
    <2>1. rebooted' = rebooted \cup {c}
      BY <1>4 DEF Restart
    <2>2. \A d \in Computers :
           /\ \A b \in Computers : net'[d][b] = IF c \in {d, b} THEN <<>> ELSE net[d][b]
           /\ received'[d] = IF d = c THEN {} ELSE received[d]
           /\ d # c => sequence'[d] = sequence[d]
      BY <1>0, <1>4, RestartQueues
    <2>3. \A e : Flying(e)' => Flying(e)
      BY <2>2, EmptyQueue DEF Flying
    <2>4. \A id : Remembered(id)' => Remembered(id)
      BY <2>2 DEF Remembered
    <2>5. QED  BY <2>1, <2>2, <2>3, <2>4, FewerIds
  <1>5. ASSUME QuietStep
        PROVE  IdsInv'
    BY <1>5, FewerIds DEF QuietStep, Flying, Remembered
  <1>6. QED
    BY <1>0, <1>1, <1>2, <1>3, <1>4, <1>5, QuietSteps DEF Next

(***************************************************************************)
(* The time limits: of a handler that gets message k from a service, just  *)
(* then, or from another daemon.                                           *)
(***************************************************************************)
LEMMA HandledLimits ==
  ASSUME InOrder, LimitInv, NEW c \in Computers, NEW e \in Letters, NEW n \in Nets,
         Handled(c, e, n), now' = now,
         \A a, b \in Computers : \A f : Has(n[a][b], f) => Has(net[a][b], f),
         \/ e.msgid = NoId /\ SendStep(e.msg)
         \/ (Directed(e.msg) => c = Server[e.msg]) /\ sent' = sent
  PROVE  LimitInv'
  <1>0. TypeOK /\ SentInv /\ now \in Nat /\ OnceInv
    BY Typed DEF InOrder
  <1>k. e.msg \in Messages /\ BroadcastTTL \in Nat /\ CacheTTL[e.msg] \in Nat
    BY Constants DEF Letters
  <1>1. /\ \A f : Flying(f)' =>
              Flying(f) \/ \E T \in SUBSET Computers :
                             f = Sealed(c, e, T) /\ Passed(c, e, n, T)
    BY <1>0, HandledIdentifiers
  <1>2. \A T \in SUBSET Computers :
          /\ Sealed(c, e, T).msg = e.msg
          /\ e.msgid = NoId => Sealed(c, e, T).timeout = now + BroadcastTTL
    BY <1>0, SealedType
  <1>3. \A T \in SUBSET Computers : Passed(c, e, n, T) /\ Directed(e.msg)
          => SendStep(e.msg) /\ e.msgid = NoId
    BY <1>k, FlowTypes DEF Passed
  <1> DEFINE E == [msg |-> e.msg, timeout |-> now + CacheTTL[e.msg]]
  <1>4. ASSUME NEW d \in Computers, NEW y, Has(cache'[d], y)
        PROVE  Has(cache[d], y) \/ y = E
    <2> DEFINE S == [msg : Messages, timeout : Nat]
    <2>0. now + CacheTTL[e.msg] \in Nat
      BY <1>0, <1>k
    <2>1. cache[d] \in Seq(S) /\ now + CacheTTL[e.msg] \in Nat
      BY <1>0, <2>0, Typed DEF QueueTypes
    <2>2. E \in S
      BY <1>k, <2>1
    <2>3. CachePoint(c, e, n, d)
      BY <1>0, HandledPoints
    <2>4. cache'[d] = cache[d] \/ cache'[d] = Append(cache[d], E)
      BY <2>3 DEF CachePoint
    <2> HIDE DEF S, E
    <2>5. Has(Append(cache[d], E), y) <=> Has(cache[d], y) \/ E = y
      BY <2>1, <2>2, AppendLog
    <2>6. QED  BY <1>4, <2>4, <2>5
  <1>5. E.msg = e.msg /\ E.timeout = now + CacheTTL[e.msg]
    OBVIOUS
  <1> HIDE DEF E
  <1>6. \A f : Flying(f) => WasSent(f.msg)
    <2>1. ASSUME NEW f, Flying(f)
          PROVE  WasSent(f.msg)
      <3>1. PICK a \in Computers, b \in Computers : Has(net[a][b], f)
        BY <2>1 DEF Flying
      <3>2. InMsgs(net[a][b], f.msg)
        BY <3>1, HasMsgs
      <3>3. f.msg \in Messages
        BY <1>0, <2>1, FlyingTypes
      <3>4. QED  BY <1>0, <3>2, <3>3 DEF SentInv
    <2>2. QED  BY <2>1
  <1>7. ASSUME NEW d \in Computers, NEW y, Has(cache[d], y), y.msg = e.msg
        PROVE  WasSent(e.msg)
    <2>1. InMsgs(cache[d], e.msg)
      BY <1>7, HasMsgs
    <2>2. QED  BY <1>0, <1>k, <2>1 DEF SentInv
  <1>8. ASSUME NEW i \in 1..Len(sent)
        PROVE  /\ sent[i].date \in Nat /\ sent[i].date <= now
               /\ \A f : Flying(f)' /\ Directed(f.msg) /\ f.msg = sent[i].msg
                    => sent[i].date + BroadcastTTL <= f.timeout
               /\ \A d \in Computers : \A y : Has(cache'[d], y) /\ y.msg = sent[i].msg
                    => sent[i].date + CacheTTL[sent[i].msg] <= y.timeout
    <2>1. sent[i].date \in Nat /\ sent[i].date <= now
      BY <1>0, SentTypes DEF LimitInv
    <2>2. SendStep(e.msg) => sent[i].msg # e.msg
      BY DEF SendStep
    <2>3. ASSUME NEW f, Flying(f)', Directed(f.msg), f.msg = sent[i].msg
          PROVE  sent[i].date + BroadcastTTL <= f.timeout
      BY <1>1, <1>2, <1>3, <2>2, <2>3 DEF LimitInv
    <2>4. ASSUME NEW d \in Computers, NEW y, Has(cache'[d], y), y.msg = sent[i].msg
          PROVE  sent[i].date + CacheTTL[sent[i].msg] <= y.timeout
      <3>1. CASE Has(cache[d], y)
        BY <2>4, <3>1 DEF LimitInv
      <3>2. CASE y = E
        <4> DEFINE ttl == CacheTTL[e.msg]
        <4>1. ttl \in Nat /\ y.timeout = now + ttl /\ sent[i].msg = e.msg
          BY <1>k, <1>5, <2>4, <3>2
        <4> HIDE DEF ttl
        <4>2. sent[i].date + ttl <= y.timeout
          BY <1>0, <2>1, <4>1
        <4>3. QED  BY <4>1, <4>2 DEF ttl
      <3>3. QED  BY <1>4, <2>4, <3>1, <3>2
    <2>5. QED  BY <2>1, <2>3, <2>4
  <1>9. CASE sent' = sent
    BY <1>8, <1>9 DEF LimitInv, Directed
  <1>10. CASE e.msgid = NoId /\ SendStep(e.msg)
    <2>1. /\ ~WasSent(e.msg)
          /\ \A i \in 1..Len(sent) : sent'[i] = sent[i]
          /\ sent'[Len(sent) + 1] = [msg |-> e.msg, date |-> now]
          /\ \A i \in 1..Len(sent') : i \in 1..Len(sent) \/ i = Len(sent) + 1
      BY <1>0, <1>k, <1>10, SentAppended
    <2>2. ASSUME NEW f, Flying(f)', f.msg = e.msg
          PROVE  now + BroadcastTTL <= f.timeout
      <3>1. PICK T \in SUBSET Computers : f = Sealed(c, e, T)
        BY <1>1, <1>6, <2>1, <2>2
      <3>2. f.timeout = now + BroadcastTTL
        BY <1>2, <1>10, <3>1
      <3>3. QED  BY <1>0, <1>k, <3>2
    <2>3. ASSUME NEW d \in Computers, NEW y, Has(cache'[d], y), y.msg = e.msg
          PROVE  now + CacheTTL[e.msg] <= y.timeout
      <3>1. y = E
        BY <1>4, <1>7, <2>1, <2>3
      <3>2. QED  BY <1>0, <1>k, <1>5, <3>1
    <2>4. ASSUME NEW i \in 1..Len(sent')
          PROVE  /\ sent'[i].date <= now
                 /\ \A f : Flying(f)' /\ Directed(f.msg) /\ f.msg = sent'[i].msg
                      => sent'[i].date + BroadcastTTL <= f.timeout
                 /\ \A d \in Computers : \A y : Has(cache'[d], y) /\ y.msg = sent'[i].msg
                      => sent'[i].date + CacheTTL[sent'[i].msg] <= y.timeout
      <3>1. CASE i \in 1..Len(sent)
        BY <1>8, <2>1, <3>1
      <3>2. CASE i = Len(sent) + 1
        <4>1. sent'[i].msg = e.msg /\ sent'[i].date = now
          BY <2>1, <3>2
        <4>2. QED  BY <1>0, <2>2, <2>3, <4>1
      <3>3. QED  BY <2>1, <3>1, <3>2
    <2>5. QED  BY <2>4 DEF LimitInv, Directed
  <1>11. QED  BY <1>9, <1>10

\* a step that loses messages only, and time passes
LEMMA FewerLimits ==
  ASSUME TypeOK, LimitInv, sent' = sent, now' \in Nat, now <= now',
         \A e : Flying(e)' => Flying(e),
         \A d \in Computers : \A y : Has(cache'[d], y) => Has(cache[d], y)
  PROVE  LimitInv'
  <1>1. now \in Nat /\ \A i \in 1..Len(sent) : sent[i].date \in Nat
    BY Typed, SentTypes
  <1>2. ASSUME NEW i \in 1..Len(sent)
        PROVE  /\ sent[i].date <= now'
               /\ \A f : Flying(f)' /\ Directed(f.msg) /\ f.msg = sent[i].msg
                    => sent[i].date + BroadcastTTL <= f.timeout
               /\ \A d \in Computers : \A y : Has(cache'[d], y) /\ y.msg = sent[i].msg
                    => sent[i].date + CacheTTL[sent[i].msg] <= y.timeout
    <2>1. sent[i].date <= now'
      <3>1. sent[i].date <= now
        BY DEF LimitInv
      <3>2. QED  BY <1>1, <3>1
    <2>2. QED  BY <2>1 DEF LimitInv
  <1>3. QED  BY <1>2 DEF LimitInv, Directed

LEMMA LimitsNext ==
  ASSUME InOrder, InOrder', LimitInv, [Next]_vars
  PROVE  LimitInv'
  <1>0. TypeOK /\ RouteInv /\ now \in Nat
    BY Typed DEF InOrder
  <1>1. ASSUME NEW m \in Messages, Send(m)
        PROVE  LimitInv'
    <2> DEFINE e == Envelope(m, NoId, {}, 0, 0)
    <2>1. /\ From[m] \in Computers /\ net \in Nets
          /\ e \in Letters /\ e.msg = m /\ e.msgid = NoId
      BY <1>0, Typed, LetterTypes, MessagesAssumption DEF QueueTypes, Envelope
    <2>2. Handled(From[m], e, net) /\ now' = now /\ SendStep(m)
      BY <1>0, <1>1, SendSteps DEF SendStep
    <2> HIDE DEF e
    <2>3. QED  BY <2>1, <2>2, HandledLimits
  <1>2. ASSUME NEW c \in Computers, NEW d \in Computers, Receive(c, d)
        PROVE  LimitInv'
    <2> DEFINE e == Head(net[d][c])
               n == [net EXCEPT ![d][c] = Tail(@)]
    <2>1. Handled(c, e, n) /\ now' = now /\ sent' = sent /\ net[d][c] # <<>>
      BY <1>0, <1>2, ReceiveSteps DEF ReceiveStep
    <2>2. TakenOff(c, d, e, n)
      BY <1>0, <2>1, Taken
    <2>3. \A a, b \in Computers : \A f : Has(n[a][b], f) => Has(net[a][b], f)
      BY <1>0, <2>1, TakenHas
    <2> HIDE DEF e, n
    <2>4. e \in Letters /\ n \in Nets /\ e.msg \in Messages /\ InMsgs(net[d][c], e.msg)
      BY <2>2 DEF TakenOff
    <2>5. Directed(e.msg) => c = Server[e.msg]
      BY <1>0, <2>4 DEF RouteInv
    <2>6. QED  BY <2>1, <2>3, <2>4, <2>5, HandledLimits
  <1>3. ASSUME NEW c \in Computers, NEW name \in Services, REGISTER(c, name)
        PROVE  LimitInv'
    <2>1. now' = now /\ sent' = sent /\ net' = net
      BY <1>3 DEF REGISTER
    <2>2. RegisterEffect(c, name)
      BY <1>0, <1>3, RegisterQueues
    <2>3. /\ \A j \in 1..Len(cache'[c]) : \E i \in 1..Len(cache[c]) :
                cache'[c][j] = cache[c][i]
          /\ \A d \in Computers : d # c => cache'[d] = cache[d]
      BY <2>2 DEF RegisterEffect
    <2>4. \A d \in Computers : \A y : Has(cache'[d], y) => Has(cache[d], y)
      BY <2>3 DEF Has
    <2>5. \A e : Flying(e)' => Flying(e)
      BY <2>1 DEF Flying
    <2>6. now' \in Nat /\ now <= now'
      BY <1>0, <2>1
    <2>7. QED  BY <1>0, <2>1, <2>4, <2>5, <2>6, FewerLimits
  <1>4. ASSUME NEW c \in Computers, Restart(c)
        PROVE  LimitInv'
    <2>1. now' = now /\ sent' = sent
      BY <1>4 DEF Restart
    <2>2. \A d \in Computers :
           /\ cache'[d] = IF d = c THEN <<>> ELSE cache[d]
           /\ \A b \in Computers : net'[d][b] = IF c \in {d, b} THEN <<>> ELSE net[d][b]
      BY <1>0, <1>4, RestartQueues
    <2>3. \A e : Flying(e)' => Flying(e)
      BY <2>2, EmptyQueue DEF Flying
    <2>4. \A d \in Computers : \A y : Has(cache'[d], y) => Has(cache[d], y)
      BY <2>2, EmptyQueue
    <2>5. now' \in Nat /\ now <= now'
      BY <1>0, <2>1
    <2>6. QED  BY <1>0, <2>1, <2>3, <2>4, <2>5, FewerLimits
  <1>5. ASSUME QuietStep, now' = now \/ now' = now + 1
        PROVE  LimitInv'
    <2>1. now' \in Nat /\ now <= now'
      BY <1>0, <1>5
    <2>2. \A e : Flying(e)' => Flying(e)
      BY <1>5 DEF QuietStep, Flying
    <2>3. QED  BY <1>0, <1>5, <2>1, <2>2, FewerLimits DEF QuietStep
  <1>6. QED
    BY <1>0, <1>1, <1>2, <1>3, <1>4, <1>5, QuietSteps DEF Next

-----------------------------------------------------------------------------
\* message m is still of use, and where it may be
Alive(m) ==
  /\ Directed(m) /\ m \notin NotCached
  /\ Service[m] \in LocalServices[Server[m]]
  /\ {From[m], Server[m]} \cap rebooted = {}
  /\ \E t \in SentAt(m) : now <= t + BroadcastTTL /\ now <= t + CacheTTL[m]

Somewhere(m) ==
  \/ Has(log[Server[m]][Service[m]], m)
  \/ InMsgs(cache[Server[m]], m)
  \/ InMsgs(net[From[m]][Server[m]], m)

LEMMA NothingLostMeans ==
  NothingLost <=> \A m \in Messages : Alive(m) => Somewhere(m)
  BY DEF NothingLost, Alive, Somewhere, Has, InMsgs

\* a handler loses nothing but the message it handles
LEMMA HandledKeeps ==
  ASSUME TypeOK, NEW c \in Computers, NEW e \in Letters, NEW n \in Nets,
         Handled(c, e, n), NEW m
  PROVE  /\ \A d \in Computers : InMsgs(cache[d], m) => InMsgs(cache'[d], m)
         /\ \A d \in Computers, x \in Services : Has(log[d][x], m) => Has(log'[d][x], m)
         /\ \A a, b \in Computers : InMsgs(n[a][b], m) => InMsgs(net'[a][b], m)
  <1>0. e.msg \in Messages /\ now + CacheTTL[e.msg] \in Nat
    BY Typed, Constants DEF Letters
  <1>1. ASSUME NEW d \in Computers, InMsgs(cache[d], m)
        PROVE  InMsgs(cache'[d], m)
    <2> DEFINE S == [msg : Messages, timeout : Nat]
               E == [msg |-> e.msg, timeout |-> now + CacheTTL[e.msg]]
    <2>1. cache[d] \in Seq(S) /\ E \in S
      BY <1>0, Typed DEF QueueTypes
    <2>2. CachePoint(c, e, n, d)
      BY HandledPoints
    <2>3. cache'[d] = cache[d] \/ cache'[d] = Append(cache[d], E)
      BY <2>2 DEF CachePoint
    <2> HIDE DEF S, E
    <2>4. InMsgs(cache[d], m) => InMsgs(Append(cache[d], E), m)
      BY <2>1, AppendMsgs
    <2>5. QED  BY <1>1, <2>3, <2>4
  <1>2. ASSUME NEW d \in Computers, NEW x \in Services, Has(log[d][x], m)
        PROVE  Has(log'[d][x], m)
    <2>1. LogPoint(c, e, n, d, x)
      BY HandledPoints
    <2>2. log'[d][x] = log[d][x] \/ log'[d][x] = Append(log[d][x], e.msg)
      BY <2>1 DEF LogPoint
    <2>3. log[d][x] \in Seq(Messages)
      BY Typed DEF QueueTypes
    <2>4. Has(Append(log[d][x], e.msg), m)
      BY <1>0, <1>2, <2>3, AppendLog
    <2>5. QED  BY <1>2, <2>2, <2>4
  <1>3. ASSUME NEW a \in Computers, NEW b \in Computers, InMsgs(n[a][b], m)
        PROVE  InMsgs(net'[a][b], m)
    <2>1. NetPoint(c, e, n, a, b)
      BY HandledPoints
    <2>2. CASE net'[a][b] = n[a][b]
      BY <1>3, <2>2
    <2>3. ASSUME NEW T \in SUBSET Computers,
                 net'[a][b] = Append(n[a][b], Sealed(c, e, T))
          PROVE  InMsgs(net'[a][b], m)
      <3>1. n[a][b] \in Seq(Envelopes) /\ Sealed(c, e, T) \in Envelopes
        BY SealedType DEF Nets
      <3>2. QED  BY <1>3, <2>3, <3>1, AppendMsgs
    <2>4. QED  BY <2>1, <2>2, <2>3 DEF NetPoint
  <1>4. QED  BY <1>1, <1>2, <1>3

\* a message to a service of computer c that is not dropped is given or stored
LEMMA Arrives ==
  ASSUME TypeOK, NEW c \in Computers, NEW e \in Letters, NEW n \in Nets,
         Handled(c, e, n), NEW m, m = e.msg, Directed(m), Server[m] = c,
         Service[m] \in LocalServices[c], m \notin NotCached, ~Old(e, c)
  PROVE  Has(log'[c][Service[m]], m) \/ InMsgs(cache'[c], m)
  <1>1. /\ m \in Messages /\ ~Broadcast(m) /\ Service[m] \in Services
        /\ Server[m] # AnyServer /\ now + CacheTTL[m] \in Nat /\ Here(c, m)
    <2>1. m \in Messages
      BY DEF Letters
    <2>2. now + CacheTTL[m] \in Nat
      BY <2>1, Typed, Constants
    <2>3. QED  BY <2>1, <2>2, FlowTypes DEF Here
  <1>2. ~Dropped(c, e, n) /\ \A T \in SUBSET Computers : ~Passed(c, e, n, T)
    BY <1>1 DEF Dropped, Passed
  <1>3. CASE Given(c, e, n)
    <2>1. /\ log \in [Computers -> [Services -> Seq(Messages)]]
          /\ log' = [log EXCEPT ![c] =
                [log[c] EXCEPT ![Service[m]] = Append(log[c][Service[m]], m)]]
      BY <1>3, Typed DEF Given, QueueTypes
    <2>2. log'[c][Service[m]] = Append(log[c][Service[m]], m)
      BY <1>1, <2>1
    <2>3. Has(Append(log[c][Service[m]], m), m)
      <3>1. log[c][Service[m]] \in Seq(Messages)
        BY <1>1, <2>1
      <3>2. QED  BY <1>1, <3>1, AppendLog
    <2>4. QED  BY <2>2, <2>3
  <1>4. CASE Stored(c, e, n)
    <2> DEFINE S == [msg : Messages, timeout : Nat]
               E == [msg |-> m, timeout |-> now + CacheTTL[m]]
    <2>1. cache \in [Computers -> Seq(S)] /\ E \in S /\ E.msg = m
          /\ cache' = [cache EXCEPT ![c] = Append(cache[c], E)]
      BY <1>1, <1>4, Typed DEF Stored, QueueTypes
    <2> HIDE DEF S, E
    <2>2. cache'[c] = Append(cache[c], E) /\ cache[c] \in Seq(S)
      BY <2>1
    <2>3. InMsgs(Append(cache[c], E), m)
      BY <2>1, <2>2, AppendMsgs
    <2>4. QED  BY <2>2, <2>3
  <1>5. QED  BY <1>2, <1>3, <1>4 DEF Handled

LostInv == \A m \in Messages : Alive(m) => Somewhere(m)

LEMMA SendKeeps ==
  ASSUME InOrder, LostInv, NEW k \in Messages, SendStep(k)
  PROVE  LostInv'
  <1> DEFINE e == Envelope(k, NoId, {}, 0, 0)
             c == From[k]
  <1>0. TypeOK /\ OnceInv
    BY DEF InOrder
  <1>1. /\ c \in Computers /\ net \in Nets /\ e \in Letters /\ e.msg = k
        /\ e.msgid = NoId /\ e.informed = {}
    BY <1>0, Typed, LetterTypes, MessagesAssumption DEF QueueTypes, Envelope
  <1>2. Handled(c, e, net) /\ now' = now /\ rebooted' = rebooted
    BY DEF SendStep
  <1> HIDE DEF e
  <1>3. SUFFICES ASSUME NEW m \in Messages, Alive(m)'
                 PROVE  Somewhere(m)'
    BY DEF LostInv
  <1>4. /\ Directed(m) /\ Service[m] \in LocalServices[Server[m]] /\ m \notin NotCached
        /\ {From[m], Server[m]} \cap rebooted = {}
        /\ \E t \in SentAt(m)' : now <= t + BroadcastTTL /\ now <= t + CacheTTL[m]
        /\ From[m] \in Computers /\ Server[m] \in Computers /\ Service[m] \in Services
    BY <1>2, <1>3, FlowTypes DEF Alive, Directed
  <1>5. CASE m # k
    <2>1. \A t \in SentAt(m)' : t \in SentAt(m)
      <3>1. /\ \A i \in 1..Len(sent) : sent'[i] = sent[i]
            /\ sent'[Len(sent) + 1] = [msg |-> k, date |-> now]
            /\ \A i \in 1..Len(sent') : i \in 1..Len(sent) \/ i = Len(sent) + 1
        BY <1>0, SentAppended
      <3>2. \A i \in 1..Len(sent') : sent'[i].msg = m =>
              i \in 1..Len(sent) /\ sent'[i] = sent[i]
        BY <1>5, <3>1
      <3>3. QED  BY <3>2 DEF SentAt
    <2>2. Alive(m)
      BY <1>4, <2>1 DEF Alive
    <2>3. Somewhere(m)
      BY <2>2 DEF LostInv
    <2>4. QED  BY <1>0, <1>1, <1>2, <1>4, <2>3, HandledKeeps DEF Somewhere
  <1>6. CASE m = k
    <2>1. ~Old(e, c)
      <3>1. ~Expired(e)
        BY <1>1 DEF Expired
      <3>2. \A r \in received[c] : r.msgid # NoId
        BY <1>0, <1>1, NoIdUnknown
      <3>3. QED  BY <1>1, <3>1, <3>2 DEF Old
    <2>2. CASE Server[m] = c
      BY <1>0, <1>1, <1>2, <1>4, <1>6, <2>1, <2>2, Arrives DEF Somewhere
    <2>3. CASE Server[m] # c
      <3>1. Server[m] \in Neighbors(c) /\ ~Broadcast(m) /\ Server[m] # AnyServer
        BY <1>4, <1>6, <2>3, FlowTypes DEF Directed
      <3>2. ~Here(c, m)
        BY <2>3, <3>1 DEF Here
      <3>3. PICK T \in SUBSET Computers : Passed(c, e, net, T)
        BY <1>1, <1>2, <1>6, <2>1, <3>1, <3>2 DEF Handled, Dropped, Given, Stored
      <3>4. Server[m] \in T
        BY <1>1, <1>6, <3>1, <3>3 DEF Passed
      <3>5. net' = [net EXCEPT ![c] =
               [d \in Computers |->
                  IF d \in T THEN Append(@[d], Sealed(c, e, T)) ELSE @[d]]]
        BY <3>3 DEF Passed, Effect
      <3>6. net'[c][Server[m]] = Append(net[c][Server[m]], Sealed(c, e, T))
        BY <1>1, <1>4, <3>4, <3>5 DEF Nets
      <3>7. /\ net[c][Server[m]] \in Seq(Envelopes)
            /\ Sealed(c, e, T) \in Envelopes /\ Sealed(c, e, T).msg = m
        <4>1. net[c][Server[m]] \in Seq(Envelopes)
          BY <1>1, <1>4 DEF Nets
        <4>2. Sealed(c, e, T) \in Envelopes /\ Sealed(c, e, T).msg = e.msg
          BY <1>0, <1>1, <3>3, SealedType
        <4>3. QED  BY <1>1, <1>6, <4>1, <4>2
      <3>8. InMsgs(Append(net[c][Server[m]], Sealed(c, e, T)), m)
        BY <3>7, AppendMsgs
      <3>9. QED  BY <1>6, <3>6, <3>8 DEF Somewhere
    <2>4. QED  BY <2>2, <2>3
  <1>7. QED  BY <1>5, <1>6

LEMMA ReceiveKeeps ==
  ASSUME InOrder, IdsInv, LimitInv, LostInv,
         NEW c \in Computers, NEW d \in Computers, ReceiveStep(c, d)
  PROVE  LostInv'
  <1> DEFINE e == Head(net[d][c])
             n == [net EXCEPT ![d][c] = Tail(@)]
  <1>0. TypeOK /\ RouteInv
    BY DEF InOrder
  <1>1. /\ Handled(c, e, n) /\ net[d][c] # <<>>
        /\ now' = now /\ rebooted' = rebooted /\ sent' = sent
    BY DEF ReceiveStep
  <1>2. TakenOff(c, d, e, n) /\ Has(net[d][c], e)
    BY <1>0, <1>1, Taken, TakenHas
  <1> HIDE DEF e, n
  <1>3. /\ n \in Nets /\ e \in Letters /\ Flying(e)
        /\ \A a, b \in Computers : \A m : InMsgs(net[a][b], m) =>
             InMsgs(n[a][b], m) \/ (m = e.msg /\ a = d /\ b = c)
    BY <1>2 DEF TakenOff, Flying
  <1>4. SUFFICES ASSUME NEW m \in Messages, Alive(m)'
                 PROVE  Somewhere(m)'
    BY DEF LostInv
  <1>5. Alive(m)
    BY <1>1, <1>4 DEF Alive, SentAt, Directed
  <1>6. /\ Directed(m) /\ Service[m] \in LocalServices[Server[m]] /\ m \notin NotCached
        /\ From[m] \notin rebooted
        /\ From[m] \in Computers /\ Server[m] \in Computers /\ Service[m] \in Services
    BY <1>5, FlowTypes DEF Alive
  <1>7. Somewhere(m)
    BY <1>5 DEF LostInv
  <1>8. CASE m = e.msg /\ From[m] = d /\ Server[m] = c
    <2>1. PICK i \in 1..Len(sent) : sent[i].msg = m /\ now <= sent[i].date + BroadcastTTL
      BY <1>5 DEF Alive, SentAt
    <2>2. sent[i].date + BroadcastTTL <= e.timeout
      BY <1>3, <1>6, <1>8, <2>1 DEF LimitInv
    <2>3. ~Expired(e)
      <3>1. now \in Nat /\ sent[i].date \in Nat /\ BroadcastTTL \in Nat /\ e.timeout \in Nat
        BY <1>0, <1>3, Typed, SentTypes, Constants, FlyingTypes
      <3>2. ~(e.timeout < now)
        BY <2>1, <2>2, <3>1
      <3>3. QED  BY <3>2 DEF Expired
    <2>4. ~Remembered(e.msgid)
      BY <1>3, <1>6, <1>8 DEF IdsInv, UnknownInv
    <2>5. ~Old(e, c)
      BY <2>3, <2>4 DEF Old, Remembered
    <2>6. QED  BY <1>0, <1>1, <1>3, <1>6, <1>8, <2>5, Arrives DEF Somewhere
  <1>9. CASE ~(m = e.msg /\ From[m] = d /\ Server[m] = c)
    <2>1. InMsgs(net[From[m]][Server[m]], m) => InMsgs(n[From[m]][Server[m]], m)
      BY <1>3, <1>6, <1>9
    <2>2. QED  BY <1>0, <1>1, <1>3, <1>6, <1>7, <2>1, HandledKeeps DEF Somewhere
  <1>10. QED  BY <1>8, <1>9

LEMMA RegisterKeeps ==
  ASSUME InOrder, LimitInv, LostInv,
         NEW c \in Computers, NEW name \in Services, REGISTER(c, name)
  PROVE  LostInv'
  <1>0. TypeOK
    BY DEF InOrder
  <1>1. now' = now /\ rebooted' = rebooted /\ sent' = sent /\ net' = net
    BY DEF REGISTER
  <1>2. RegisterEffect(c, name)
    BY <1>0, RegisterQueues
  <1>3. /\ \A m : Has(log[c][name], m) => Has(log'[c][name], m)
        /\ \A i \in 1..Len(cache[c]) :
             now <= cache[c][i].timeout =>
               \/ InMsgs(cache'[c], cache[c][i].msg)
               \/ /\ Has(log'[c][name], cache[c][i].msg)
                  /\ Service[cache[c][i].msg] = name
        /\ \A d \in Computers : d # c => cache'[d] = cache[d]
        /\ \A d \in Computers, x \in Services :
             ~(d = c /\ x = name) => log'[d][x] = log[d][x]
    BY <1>2 DEF RegisterEffect
  <1>4. SUFFICES ASSUME NEW m \in Messages, Alive(m)'
                 PROVE  Somewhere(m)'
    BY DEF LostInv
  <1>5. Alive(m)
    BY <1>1, <1>4 DEF Alive, SentAt, Directed
  <1>6. From[m] \in Computers /\ Server[m] \in Computers /\ Service[m] \in Services
    BY <1>5, FlowTypes DEF Alive
  <1>7. Somewhere(m)
    BY <1>5 DEF LostInv
  <1>8. CASE Has(log[Server[m]][Service[m]], m)
    BY <1>3, <1>6, <1>8 DEF Somewhere
  <1>9. CASE InMsgs(net[From[m]][Server[m]], m)
    BY <1>1, <1>9 DEF Somewhere
  <1>10. CASE InMsgs(cache[Server[m]], m) /\ Server[m] = c
    <2>1. PICK i \in 1..Len(cache[c]) : cache[c][i].msg = m
      BY <1>10 DEF InMsgs
    <2>2. PICK j \in 1..Len(sent) : sent[j].msg = m /\ now <= sent[j].date + CacheTTL[m]
      BY <1>5 DEF Alive, SentAt
    <2>3. sent[j].date + CacheTTL[m] <= cache[c][i].timeout
      BY <2>1, <2>2 DEF LimitInv, Has
    <2>4. now <= cache[c][i].timeout
      <3>1. now \in Nat /\ sent[j].date \in Nat /\ CacheTTL[m] \in Nat
        BY <1>0, Typed, SentTypes, Constants
      <3>2. cache[c][i].timeout \in Nat
        <4> DEFINE S == [msg : Messages, timeout : Nat]
        <4>1. cache[c] \in Seq(S)
          BY <1>0, Typed DEF QueueTypes
        <4> HIDE DEF S
        <4>2. cache[c][i] \in S
          BY <4>1
        <4>3. QED  BY <4>2 DEF S
      <3> DEFINE date == sent[j].date
                 limit == cache[c][i].timeout
      <3>3. now <= date + CacheTTL[m] /\ date + CacheTTL[m] <= limit
        BY <2>2, <2>3
      <3> HIDE DEF date, limit
      <3>4. QED  BY <3>1, <3>2, <3>3 DEF date, limit
    <2>5. QED  BY <1>3, <1>10, <2>1, <2>4 DEF Somewhere
  <1>11. CASE InMsgs(cache[Server[m]], m) /\ Server[m] # c
    BY <1>3, <1>6, <1>11 DEF Somewhere
  <1>12. QED  BY <1>7, <1>8, <1>9, <1>10, <1>11 DEF Somewhere

LEMMA LostNext ==
  ASSUME InOrder, IdsInv, LimitInv, LostInv, [Next]_vars
  PROVE  LostInv'
  <1>0. TypeOK /\ now \in Nat
    BY Typed DEF InOrder
  <1>1. ASSUME NEW m \in Messages, Send(m)
        PROVE  LostInv'
    BY <1>0, <1>1, SendSteps, SendKeeps
  <1>2. ASSUME NEW c \in Computers, NEW d \in Computers, Receive(c, d)
        PROVE  LostInv'
    BY <1>0, <1>2, ReceiveSteps, ReceiveKeeps
  <1>3. ASSUME NEW c \in Computers, NEW name \in Services, REGISTER(c, name)
        PROVE  LostInv'
    BY <1>3, RegisterKeeps
  <1>4. ASSUME NEW c \in Computers, Restart(c)
        PROVE  LostInv'
    <2>1. now' = now /\ sent' = sent /\ rebooted' = rebooted \cup {c}
      BY <1>4 DEF Restart
    <2>2. \A d \in Computers :
            /\ cache'[d] = IF d = c THEN <<>> ELSE cache[d]
            /\ \A x \in Services : log'[d][x] = IF d = c THEN <<>> ELSE log[d][x]
            /\ \A b \in Computers : net'[d][b] = IF c \in {d, b} THEN <<>> ELSE net[d][b]
      BY <1>0, <1>4, RestartQueues
    <2>3. SUFFICES ASSUME NEW m \in Messages, Alive(m)'
                   PROVE  Somewhere(m)'
      BY DEF LostInv
    <2>4. Alive(m) /\ From[m] # c /\ Server[m] # c
      BY <2>1, <2>3 DEF Alive, SentAt, Directed
    <2>5. From[m] \in Computers /\ Server[m] \in Computers /\ Service[m] \in Services
      BY <2>4, FlowTypes DEF Alive
    <2>6. /\ cache'[Server[m]] = cache[Server[m]]
          /\ log'[Server[m]][Service[m]] = log[Server[m]][Service[m]]
          /\ net'[From[m]][Server[m]] = net[From[m]][Server[m]]
      BY <2>2, <2>4, <2>5
    <2>7. QED  BY <2>4, <2>6 DEF LostInv, Somewhere
  <1>5. ASSUME QuietStep, now' = now \/ now' = now + 1
        PROVE  LostInv'
    <2>1. SUFFICES ASSUME NEW m \in Messages, Alive(m)'
                   PROVE  Somewhere(m)'
      BY DEF LostInv
    <2>2. Alive(m)
      <3>1. /\ Directed(m) /\ Service[m] \in LocalServices[Server[m]] /\ m \notin NotCached
            /\ {From[m], Server[m]} \cap rebooted = {}
            /\ \E t \in SentAt(m) : now' <= t + BroadcastTTL /\ now' <= t + CacheTTL[m]
        BY <1>5, <2>1 DEF QuietStep, Alive, SentAt, Directed
      <3>2. PICK t \in SentAt(m) : now' <= t + BroadcastTTL /\ now' <= t + CacheTTL[m]
        BY <3>1
      <3>3. t \in Nat /\ BroadcastTTL \in Nat /\ CacheTTL[m] \in Nat
        BY <1>0, SentTypes, Constants DEF SentAt
      <3>4. now <= t + BroadcastTTL /\ now <= t + CacheTTL[m]
        BY <1>0, <1>5, <3>2, <3>3
      <3>5. QED  BY <3>1, <3>4 DEF Alive
    <2>3. QED  BY <1>5, <2>2 DEF LostInv, Somewhere, QuietStep
  <1>6. QED
    BY <1>0, <1>1, <1>2, <1>3, <1>4, <1>5, QuietSteps DEF Next

(***************************************************************************)
(* A message to a service that belongs on a computer is not lost while the *)
(* service is not there: until its time is over it was given to the        *)
(* service, waits in f_local_message_cache or is on its way, unless a      *)
(* daemon restarted.  In particular f_received_broadcast_messages never    *)
(* makes a daemon take it for one that was seen.                           *)
(***************************************************************************)
THEOREM MessagesNotLost == Spec => []NothingLost
  <1> DEFINE Inv == InOrder /\ IdsInv /\ LimitInv /\ LostInv
  <1>1. Init => Inv
    <2> SUFFICES ASSUME Init PROVE Inv
      OBVIOUS
    <2>1. InOrder
      BY OrderInit
    <2>2. /\ \A c, d \in Computers : net[c][d] = <<>>
          /\ \A c \in Computers : received[c] = {}
          /\ sent = <<>> /\ Len(sent) = 0
      BY DEF Init
    <2>3. \A e : ~Flying(e)
      BY <2>2, EmptyQueue DEF Flying
    <2>4. \A id : ~Remembered(id)
      BY <2>2 DEF Remembered
    <2>5. IdsInv
      BY <2>3, <2>4 DEF IdsInv, IdInv, UniqueInv, UnknownInv
    <2>6. 1..Len(sent) = {}
      BY <2>2
    <2>7. LimitInv /\ \A m : SentAt(m) = {}
      BY <2>6 DEF LimitInv, SentAt
    <2>8. LostInv
      BY <2>7 DEF LostInv, Alive
    <2>9. QED  BY <2>1, <2>5, <2>7, <2>8
  <1>2. Inv /\ [Next]_vars => Inv'
    <2>1. InOrder /\ [Next]_vars => InOrder'
      BY OrderNext
    <2>2. QED  BY <2>1, IdsNext, LimitsNext, LostNext
  <1>3. Inv => NothingLost
    BY NothingLostMeans DEF LostInv
  <1>4. QED  BY <1>1, <1>2, <1>3, PTL DEF Spec
=============================================================================
