---------------------------- MODULE SnapMessages ----------------------------
(***************************************************************************)
(* How snapcommunicator routes the messages of the services of a cluster   *)
(* (src/snapcommunicator/src/snapcommunicator.cpp): REGISTER, COMMANDS and *)
(* UNREGISTER of the local services, the cache of the messages to a        *)
(* service that does not run, and the broadcast of messages from daemon to *)
(* daemon with its identifier, hops, time limit and list of informed       *)
(* neighbours.                                                             *)
(*                                                                         *)
(* The connections between the daemons are given and up (SnapCluster has   *)
(* how they come and go), all within one private network, so that "?" and  *)
(* "*" are the same.                                                       *)
(***************************************************************************)
EXTENDS Naturals, Sequences, FiniteSets, SnapSequences

CONSTANTS
  Computers,
  Links,          \* pairs of computers that are connected
  Services,
  LocalServices,  \* LocalServices[c]: f_local_services_list of c, which run there
  Messages,       \* the messages that services send
  From,           \* From[m]: the computer on which m is sent
  Server,         \* Server[m]: the server parameter, or AnyServer
  Service,        \* Service[m]: the service parameter: a service, "*" or "."
  AnyServer,
  IPv6,           \* whether the addresses of the cluster are IPv6
  NotCached,      \* the messages with cache=no
  CacheTTL,       \* CacheTTL[m]: their ttl: the seconds f_local_message_cache keeps m
  BroadcastTTL,   \* seconds a broadcast is forwarded
  MaxHops,        \* hops after which it is not forwarded any more
  MaxTime,        \* seconds that pass (bound)
  MaxRestarts     \* how often services leave and daemons restart (bound)

ASSUME MessagesAssumption ==
  /\ IsFiniteSet(Computers)
  /\ Links \subseteq SUBSET Computers
  /\ LocalServices \in [Computers -> SUBSET Services]
  /\ From \in [Messages -> Computers]
  /\ AnyServer \notin Computers
  /\ Server \in [Messages -> Computers \cup {AnyServer}]
  /\ Service \in [Messages -> Services \cup {"*", "."}]
  /\ IPv6 \in BOOLEAN
  /\ NotCached \subseteq Messages
  /\ CacheTTL \in [Messages -> Nat]
  /\ {BroadcastTTL, MaxHops, MaxTime, MaxRestarts} \subseteq Nat

VARIABLES
  registered,  \* registered[c][s]: how far service s is registered with c
  cache,       \* f_local_message_cache of each daemon
  received,    \* f_received_broadcast_messages of each daemon
  sequence,    \* g_broadcast_sequence of each daemon
  net,         \* net[c][d]: what c sent to d on their connection
  now,         \* the time in seconds
  restarts,    \* how many services left and daemons restarted so far
  rebooted,    \* the computers whose daemon restarted
  sent,        \* the messages sent so far, in order, with the time
  log,         \* log[c][s]: what c gave to service s since it started
  due          \* due[m]: services that run since m was broadcast

vars == <<registered, cache, received, sequence, net, now, restarts, rebooted,
          sent, log, due>>

NoId == <<>>

Broadcast(m) == Service[m] \in {"*", "."}

\* a message between daemons
Envelope(m, msgid, informed, hops, timeout) ==
  [ msg |-> m, msgid |-> msgid, informed |-> informed, hops |-> hops,
    timeout |-> timeout ]

Envelopes ==
  [ msg : Messages, msgid : Computers \X Nat, informed : SUBSET Computers,
    hops : Nat \ {0}, timeout : Nat ]

TypeOK ==
  /\ registered \in [Computers -> [Services -> {"no", "named", "ready"}]]
  /\ cache \in [Computers -> Seq([msg : Messages, timeout : Nat])]
  /\ received \in [Computers -> SUBSET [msgid : Computers \X Nat, timeout : Nat]]
  /\ net \in [Computers -> [Computers -> Seq(Envelopes)]]
  /\ log \in [Computers -> [Services -> Seq(Messages)]]
  /\ sequence \in [Computers -> Nat]
  /\ now \in 0..MaxTime
  /\ restarts \in 0..MaxRestarts
  /\ rebooted \subseteq Computers
  /\ sent \in Seq([msg : Messages, date : 0..MaxTime])
  /\ due \in [Messages -> SUBSET (Computers \X Services)]

-----------------------------------------------------------------------------
(***************************************************************************)
(* A handler turns the state of one daemon, a record, into the next one;   *)
(* out holds what it sends.                                                *)
(***************************************************************************)
Daemon(c) ==
  [ cache |-> cache[c], received |-> received[c], sequence |-> sequence[c],
    log |-> log[c], out |-> [d \in Computers |-> <<>>] ]

Neighbors(c) ==
  {d \in Computers : {c, d} \in Links /\ c # d}

Deliver(c, s, m) == [s EXCEPT !.log[Service[m]] = Append(@, m)]

DeliverToAll(c, s, m) ==
  [s EXCEPT !.log = [x \in Services |->
     IF registered[c][x] = "ready" THEN Append(@[x], m) ELSE @[x]]]

Expired(e) == e.msgid # NoId /\ e.timeout < now

Again(s, e) == \E r \in s.received : r.msgid = e.msgid

\* no identifier is kept
Remember_Nothing(s, e) == s

\* the identifiers that timed out are dropped, that of e is kept
Remember(s, e) ==
  IF e.msgid = NoId THEN s
  ELSE [s EXCEPT !.received =
          {r \in @ : r.timeout >= now}
          \cup {[msgid |-> e.msgid, timeout |-> e.timeout]}]

(***************************************************************************)
(* The second part of broadcast_message(): the message goes to targets,    *)
(* all of which count as informed from here on, and we with them.  Our own *)
(* address is written with brackets, which matters for IPv6: it is then    *)
(* never found in the list.                                                *)
(***************************************************************************)
Informed(c, e, targets) ==
  e.informed \cup targets \cup (IF IPv6 THEN {} ELSE {c})

Forward(c, s, e, targets) ==
  LET id == IF e.msgid = NoId THEN <<c, s.sequence + 1>> ELSE e.msgid
      limit == IF e.msgid = NoId THEN now + BroadcastTTL ELSE e.timeout
      next == Envelope(e.msg, id, Informed(c, e, targets), e.hops + 1, limit)
  IN  IF targets = {} THEN s
      ELSE [s EXCEPT
              !.sequence = @ + 1,
              !.out = [d \in Computers |->
                 IF d \in targets THEN Append(@[d], next)
                 ELSE @[d]]]

(***************************************************************************)
(* broadcast_message(), to everybody and to given connections.             *)
(***************************************************************************)
\* only the connections that c made itself
Remote_Ours(c, e) ==
  IF e.hops < MaxHops /\ Service[e.msg] = "*" THEN {d \in Neighbors(c) : d < c}
  ELSE {}

Remote(c, e) ==
  IF e.hops < MaxHops /\ Service[e.msg] = "*" THEN Neighbors(c) ELSE {}

broadcast_message(c, s, e) ==
  Forward(c, DeliverToAll(c, Remember(s, e), e.msg), e, Remote(c, e) \ e.informed)

broadcast_to(c, s, e, accepting) ==
  Forward(c, Remember(s, e), e, accepting \ e.informed)

(***************************************************************************)
(* process_message(), for a message to a service.  One that runs gets the  *)
(* message; one that is to run on this computer has it cached, for as long *)
(* as its cache parameter says or not at all; a message to another         *)
(* computer goes to the connections with that name, one to any computer to *)
(* all of them.  A broadcast that names a computer is refused.             *)
(***************************************************************************)
Here(c, m) == Server[m] \in {c, AnyServer}

Stamped(m) == [msg |-> m, timeout |-> now + CacheTTL[m]]

\* the message is dropped when the service does not run
cache_message_Drop(s, m) == s

\* the time limit is not saved
cache_message_NoLimit(s, m) ==
  IF m \in NotCached THEN s ELSE [s EXCEPT !.cache = Append(@, [msg |-> m])]

\* the message goes to the front of the cache
cache_message_Front(s, m) ==
  IF m \in NotCached THEN s ELSE [s EXCEPT !.cache = <<Stamped(m)>> \o @]

cache_message(s, m) ==
  IF m \in NotCached THEN s ELSE [s EXCEPT !.cache = Append(@, Stamped(m))]

process_message(c, s, e) ==
  LET m == e.msg
      to == Neighbors(c) \cap (IF Server[m] = AnyServer THEN Computers
                               ELSE {Server[m]})
  IN  IF Expired(e) \/ Again(s, e) THEN s
      ELSE IF Service[m] = "*" /\ Server[m] # AnyServer THEN s
      ELSE IF Broadcast(m) THEN broadcast_message(c, s, e)
      ELSE IF Here(c, m) /\ registered[c][Service[m]] # "no"
      THEN Deliver(c, s, m)
      ELSE IF Here(c, m) /\ Service[m] \in LocalServices[c]
      THEN cache_message(s, m)
      ELSE IF Server[m] = c \/ to = {} THEN s
      ELSE broadcast_to(c, s, e, to)

\* daemon c is s after the handler; n is what is in transit before it
Finish(c, s, n) ==
  /\ cache' = [cache EXCEPT ![c] = s.cache]
  /\ received' = [received EXCEPT ![c] = s.received]
  /\ sequence' = [sequence EXCEPT ![c] = s.sequence]
  /\ log' = [log EXCEPT ![c] = s.log]
  /\ net' = [n EXCEPT ![c] = [d \in Computers |-> @[d] \o s.out[d]]]

-----------------------------------------------------------------------------
Running == {x \in Computers \X Services : registered[x[1]][x[2]] = "ready"}

\* a service of From[m] sends m
Send(m) ==
  LET c == From[m]
  IN  /\ \A i \in 1..Len(sent) : sent[i].msg # m
      /\ Finish(c, process_message(c, Daemon(c), Envelope(m, NoId, {}, 0, 0)), net)
      /\ sent' = Append(sent, [msg |-> m, date |-> now])
      /\ due' = [due EXCEPT ![m] = Running]
      /\ UNCHANGED <<registered, now, restarts, rebooted>>

Receive(c, d) ==
  /\ net[d][c] # <<>>
  /\ Finish(c, process_message(c, Daemon(c), Head(net[d][c])),
            [net EXCEPT ![d][c] = Tail(@)])
  /\ UNCHANGED <<registered, now, restarts, rebooted, sent, due>>

(***************************************************************************)
(* REGISTER: the messages that timed out leave the cache, those for the    *)
(* service are given to it in order.  It is sent broadcasts once it told   *)
(* which commands it understands (COMMANDS).                               *)
(***************************************************************************)
Fresh(c) == {i \in 1..Len(cache[c]) : now <= cache[c][i].timeout}

For(c, name) == {i \in 1..Len(cache[c]) : Service[cache[c][i].msg] = name}

Cached(c, name) == Selected(cache[c], Fresh(c) \cap For(c, name))

Kept(c, name) == Selected(cache[c], Fresh(c) \ For(c, name))

REGISTER(c, name) ==
  LET given == Cached(c, name)
  IN  /\ name \in LocalServices[c]
      /\ registered[c][name] = "no"
      /\ registered' = [registered EXCEPT ![c][name] = "named"]
      /\ log' = [log EXCEPT ![c][name] = @ \o [i \in 1..Len(given) |-> given[i].msg]]
      /\ cache' = [cache EXCEPT ![c] = Kept(c, name)]
      /\ UNCHANGED <<received, sequence, net, now, restarts, rebooted, sent, due>>

COMMANDS(c, name) ==
  /\ registered[c][name] = "named"
  /\ registered' = [registered EXCEPT ![c][name] = "ready"]
  /\ UNCHANGED <<cache, received, sequence, net, now, restarts, rebooted, sent, log, due>>

\* UNREGISTER, or the connection of the service is lost
UNREGISTER(c, name) ==
  /\ registered[c][name] # "no"
  /\ restarts < MaxRestarts
  /\ restarts' = restarts + 1
  /\ registered' = [registered EXCEPT ![c][name] = "no"]
  /\ due' = [m \in Messages |-> due[m] \ {<<c, name>>}]
  /\ UNCHANGED <<cache, received, sequence, net, now, rebooted, sent, log>>

\* the daemon restarts: all it knew is gone, its services register again
Restart(c) ==
  /\ restarts < MaxRestarts
  /\ restarts' = restarts + 1
  /\ rebooted' = rebooted \cup {c}
  /\ registered' = [registered EXCEPT ![c] = [x \in Services |-> "no"]]
  /\ cache' = [cache EXCEPT ![c] = <<>>]
  /\ received' = [received EXCEPT ![c] = {}]
  /\ sequence' = [sequence EXCEPT ![c] = 0]
  /\ net' = [d \in Computers |-> [e \in Computers |->
               IF c \in {d, e} THEN <<>> ELSE net[d][e]]]
  /\ log' = [log EXCEPT ![c] = [x \in Services |-> <<>>]]
  /\ due' = [m \in Messages |-> {}]
  /\ UNCHANGED <<now, sent>>

Tick ==
  /\ now < MaxTime
  /\ now' = now + 1
  /\ UNCHANGED <<registered, cache, received, sequence, net, restarts, rebooted,
                 sent, log, due>>

Init ==
  /\ registered = [c \in Computers |-> [x \in Services |-> "no"]]
  /\ cache = [c \in Computers |-> <<>>]
  /\ received = [c \in Computers |-> {}]
  /\ sequence = [c \in Computers |-> 0]
  /\ net = [c \in Computers |-> [d \in Computers |-> <<>>]]
  /\ now = 0
  /\ restarts = 0
  /\ rebooted = {}
  /\ sent = <<>>
  /\ log = [c \in Computers |-> [x \in Services |-> <<>>]]
  /\ due = [m \in Messages |-> {}]

Next ==
  \/ \E m \in Messages : Send(m)
  \/ \E c, d \in Computers : Receive(c, d)
  \/ \E c \in Computers, name \in Services :
       REGISTER(c, name) \/ COMMANDS(c, name) \/ UNREGISTER(c, name)
  \/ \E c \in Computers : Restart(c)
  \/ Tick

Spec == Init /\ [][Next]_vars

-----------------------------------------------------------------------------
(***************************************************************************)
(* A daemon gives a broadcast, or a message that names its computer, to a  *)
(* service at most once, over whatever paths it comes: the identifiers of  *)
(* f_received_broadcast_messages are kept just as long as the message may  *)
(* still be forwarded.  Not so a message to a service of any computer,     *)
(* whose identifier is not kept where it is given to the service (see      *)
(* IgnoredIfReceived), nor a broadcast in an IPv6 network, which comes     *)
(* back to the daemon that sent it.                                        *)
(***************************************************************************)
Once(m, s) == \A i, j \in 1..Len(s) : s[i] = m /\ s[j] = m => i = j

DeliveredOnce ==
  \A m \in Messages :
    ~IPv6 /\ (Broadcast(m) \/ Server[m] # AnyServer)
    => \A c \in Computers, x \in Services : Once(m, log[c][x])

(***************************************************************************)
(* What the comments in process_message() say of every message: the second *)
(* copy of one that was received is ignored.                               *)
(***************************************************************************)
IgnoredIfReceived ==
  \A m \in Messages, c \in Computers, x \in Services : Once(m, log[c][x])

SentAt(m) == {sent[i].date : i \in {j \in 1..Len(sent) : sent[j].msg = m}}

\* a message to one service of one computer that we are connected with
Directed(m) ==
  /\ ~Broadcast(m)
  /\ Server[m] \in Neighbors(From[m]) \cup {From[m]}

(***************************************************************************)
(* The messages of one computer to a service arrive in the order in which  *)
(* they were sent, whether they are given to the service at once or after  *)
(* it registered.                                                          *)
(***************************************************************************)
DirectedInOrder ==
  \A i, j \in 1..Len(sent) :
    LET m == sent[i].msg
        n == sent[j].msg
    IN  i < j /\ Directed(m) /\ Directed(n)
        /\ From[m] = From[n] /\ Server[m] = Server[n] /\ Service[m] = Service[n]
        => LET got == log[Server[m]][Service[m]]
           IN  \A k, l \in 1..Len(got) : got[k] = m /\ got[l] = n => k < l

(***************************************************************************)
(* A message to a service that belongs on a computer is not lost while the *)
(* service is not there: until it times out it was given to the service,   *)
(* waits in the cache or is on its way.  The daemon that sends it and the  *)
(* one that has the service did not restart, and the message may be cached *)
(* (its cache parameter is not "no").                                      *)
(***************************************************************************)
NothingLost ==
  \A m \in Messages :
    LET c == From[m]
        d == Server[m]
        x == Service[m]
    IN  /\ Directed(m) /\ m \notin NotCached
        /\ x \in LocalServices[d]
        /\ {c, d} \cap rebooted = {}
        /\ \E t \in SentAt(m) : now <= t + BroadcastTTL /\ now <= t + CacheTTL[m]
        => \/ \E i \in 1..Len(log[d][x]) : log[d][x][i] = m
           \/ \E i \in 1..Len(cache[d]) : cache[d][i].msg = m
           \/ \E i \in 1..Len(net[c][d]) : net[c][d][i].msg = m

Quiet == \A c, d \in Computers : net[c][d] = <<>>

\* a broadcast that every daemon handled in time was given to service y[2] of
\* computer y[1]
Reached(m, y) == \E i \in 1..Len(log[y[1]][y[2]]) : log[y[1]][y[2]][i] = m

Wide(m) ==
  /\ Service[m] = "*" /\ Server[m] = AnyServer
  /\ From[m] \notin rebooted
  /\ \E t \in SentAt(m) : now <= t + BroadcastTTL

\* d belongs to every set of computers that c is in and no connection leaves
Connected(c, d) ==
  \A S \in SUBSET Computers :
    c \in S /\ (\A e \in S : Neighbors(e) \subseteq S) => d \in S

(***************************************************************************)
(* A broadcast that every daemon handled in time was given to every        *)
(* service that runs since it was sent, on each computer that is connected *)
(* with that of the sender, over however many others: the list of informed *)
(* neighbours and the identifiers that were received leave nobody out.     *)
(* This is so as long as there are not more computers than hops: each copy *)
(* informed as many computers as it made hops.  (In a larger cluster the   *)
(* copy over a long path can use up the hops, see HopsReach.)  The daemon  *)
(* that sent it did not restart before, which starts its identifiers over. *)
(***************************************************************************)
BroadcastReaches ==
  Quiet /\ Cardinality(Computers) <= MaxHops =>
    \A m \in Messages : Wide(m) =>
      \A y \in due[m] : Connected(From[m], y[1]) => Reached(m, y)

\* the computers within n connections of c
Ball(c, n) ==
  LET ball[k \in 0..n] ==
        IF k = 0 THEN {c}
        ELSE ball[k - 1] \cup UNION {Neighbors(e) : e \in ball[k - 1]}
  IN  ball[n]

(***************************************************************************)
(* What the time limit of broadcast_message() is said to be for: the       *)
(* message arrives to any and all destinations, at least those within the  *)
(* hops it may make.                                                       *)
(***************************************************************************)
HopsReach ==
  Quiet =>
    \A m \in Messages : Wide(m) =>
      \A y \in due[m] : y[1] \in Ball(From[m], MaxHops) => Reached(m, y)
=============================================================================
