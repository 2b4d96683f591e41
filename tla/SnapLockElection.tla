-------------------------- MODULE SnapLockElection --------------------------
(***************************************************************************)
(* The election of the snaplock leaders (src/snaplock/src/snaplock.cpp):   *)
(* which computers a snaplock daemon knows, the leaders it believes in,    *)
(* whether it tells the services of its computer that locks are available, *)
(* and the LOCK messages it keeps until then.                              *)
(*                                                                         *)
(* The daemons restart, and the snapcommunicator connections that carry    *)
(* their messages break and come back; a snapcommunicator is present by    *)
(* what it tells its snaplock (CLUSTERUP, CLUSTERDOWN, HANGUP) and by the  *)
(* connections it has.  SnapCluster has its side in detail.                *)
(*                                                                         *)
(* No ticket exists here: synchronize_leaders(), which only works on       *)
(* tickets, has nothing to do.  A computer is a number, which orders the   *)
(* IP addresses; it is also its name.                                      *)
(***************************************************************************)
EXTENDS Naturals, Sequences, FiniteSets, SnapSequences

CONSTANTS
  Computers,     \* the computers of the cluster, f_all_neighbors of each
  Priority,      \* candidate_priority of each
  PRIORITY_OFF,  \* the priority of a computer that is never a leader
  RandomIds,     \* values of the random part of a snaplock id
  Requests,      \* the LOCK messages of the local users
  At,            \* At[r]: the computer on which r is sent
  MaxFaults      \* how many daemons crash and connections break (bound)

ASSUME ElectionAssumption ==
  /\ Computers \subseteq Nat \ {0}
  /\ IsFiniteSet(Computers)
  /\ PRIORITY_OFF \in Nat
  /\ Priority \in [Computers -> 0..PRIORITY_OFF]
  /\ RandomIds \subseteq Nat
  /\ RandomIds # {}
  /\ At \in [Requests -> Computers]
  /\ MaxFaults \in Nat

Total == Cardinality(Computers)

VARIABLES
  node,         \* the snaplock daemon of each computer
  net,          \* net[c][d]: messages from computer c to the snaplock of d
  links,        \* the pairs of computers whose snapcommunicators are connected
  f_connected,  \* f_connected[d]: smaller computers d was connected to
  cluster,      \* f_cluster_status of each snapcommunicator
  clock,        \* the date of the last election, no two in the same second
  crashes,      \* daemons that crashed so far
  hangups,      \* connections that broke so far
  request       \* what became of each LOCK

vars == <<node, net, links, f_connected, cluster, clock, crashes, hangups,
          request>>

(***************************************************************************)
(* What a daemon knows of a computer (computer_t).  A computer that was    *)
(* only named as a leader by another one is not connected, its start time  *)
(* is not known (zero, -1 in the code).                                    *)
(***************************************************************************)
Computer == [ known : BOOLEAN, random : Nat, start : Nat, connected : BOOLEAN ]

Unknown == [ known |-> FALSE, random |-> 0, start |-> 0, connected |-> FALSE ]

\* the constructor leaves the start time out
Named_NoStart(random) ==
  [ known |-> TRUE, random |-> random, connected |-> FALSE ]

Named(random) ==
  [ known |-> TRUE, random |-> random, start |-> 0, connected |-> FALSE ]

Heard(random, start) ==
  [ known |-> TRUE, random |-> random, start |-> start, connected |-> TRUE ]

\* a leader in a message: its id, which holds its name
LeaderId == [ name : Computers, random : Nat ]

Daemon ==
  [ up              : BOOLEAN,
    start           : Nat,                     \* f_start_time
    random          : Nat,                     \* the random part of f_my_id
    neighbors_count : Nat,
    computers       : [Computers -> Computer],
    leaders         : Seq(Computers),
    election_date   : Nat,
    lock_status     : {"LOCKREADY", "NOLOCK"},
    paced           : BOOLEAN,                 \* now <= f_pace_lockstarted
    message_cache   : SUBSET Requests ]

Message ==
       [ cmd : {"CLUSTERUP"}, neighbors_count : Nat ]
  \cup [ cmd : {"CLUSTERDOWN"} ]
  \cup [ cmd : {"HANGUP"}, server_name : Computers ]
  \cup [ cmd : {"LOCKLEADERS"}, election_date : Nat, leaders : Seq(LeaderId) ]
  \cup [ cmd : {"LOCKSTARTED"}, broadcast : BOOLEAN, random : Nat,
         starttime : Nat, election_date : Nat, leaders : Seq(LeaderId) ]

TypeOK ==
  /\ node \in [Computers -> Daemon]
  /\ net \in [Computers -> [Computers -> Seq(Message)]]
  /\ links \subseteq SUBSET Computers
  /\ f_connected \in [Computers -> SUBSET Computers]
  /\ cluster \in [Computers -> {"CLUSTERUP", "CLUSTERDOWN"}]
  /\ clock \in Nat
  /\ crashes \in Nat
  /\ hangups \in Nat
  /\ request \in [Requests -> {"new", "cached", "handed", "failed", "lost"}]

-----------------------------------------------------------------------------
(***************************************************************************)
(* A handler runs on the daemon s of computer c.  While it does, s also    *)
(* has the messages it sent (out), the date of the last election (clock)   *)
(* and the LOCK messages it passed on to the lock protocol (handed).       *)
(***************************************************************************)
Run(c) ==
  [ up |-> node[c].up, start |-> node[c].start, random |-> node[c].random,
    neighbors_count |-> node[c].neighbors_count,
    computers |-> node[c].computers, leaders |-> node[c].leaders,
    election_date |-> node[c].election_date,
    lock_status |-> node[c].lock_status, paced |-> node[c].paced,
    message_cache |-> node[c].message_cache,
    out |-> <<>>, clock |-> clock, handed |-> {} ]

Known(s) == {d \in Computers : s.computers[d].known}

IsLeader(s, d) == \E i \in 1..Len(s.leaders) : s.leaders[i] = d

neighbors_quorum(s) == s.neighbors_count \div 2 + 1

\* the leaders as their ids go in a message
Ids(s) ==
  [i \in 1..Len(s.leaders) |->
     [name |-> s.leaders[i], random |-> s.computers[s.leaders[i]].random]]

Send(s, to, m) == [s EXCEPT !.out = Append(@, [to |-> to, msg |-> m])]

(***************************************************************************)
(* send_lockstarted(): who we are and, when there are some, our leaders.   *)
(* A date of zero stands for a message without election_date.  The daemon  *)
(* that broadcasts receives its own message and ignores it.                *)
(***************************************************************************)
LockStarted(c, s, broadcast) ==
  [ cmd |-> "LOCKSTARTED", broadcast |-> broadcast, random |-> s.random,
    starttime |-> s.start,
    election_date |-> IF s.leaders = <<>> THEN 0 ELSE s.election_date,
    leaders |-> Ids(s) ]

send_lockstarted(c, s) == Send(s, Computers \ {c}, LockStarted(c, s, TRUE))

reply_lockstarted(c, s, d) == Send(s, {d}, LockStarted(c, s, FALSE))

(***************************************************************************)
(* is_ready(): its answer, and the LOCKSTARTED it sends to the first       *)
(* leader there is no direct connection with, at most every five seconds.  *)
(***************************************************************************)
EnoughComputers(s) ==
  /\ Len(s.leaders) > 0
  /\ Len(s.leaders) = 1 => s.neighbors_count = 1
  /\ neighbors_quorum(s) < 3 => Cardinality(Known(s)) >= s.neighbors_count
  /\ Cardinality(Known(s)) >= neighbors_quorum(s)

Distant(s) == {i \in 1..Len(s.leaders) : ~s.computers[s.leaders[i]].connected}

is_ready(s) == EnoughComputers(s) /\ Distant(s) = {}

AfterIsReady(c, s) ==
  IF EnoughComputers(s) /\ Distant(s) # {} /\ ~s.paced
  THEN LET i == CHOOSE i \in Distant(s) : \A j \in Distant(s) : i <= j
       IN [reply_lockstarted(c, s, s.leaders[i]) EXCEPT !.paced = TRUE]
  ELSE s

(***************************************************************************)
(* check_lock_status(): the services are told when the answer of           *)
(* is_ready() changed, and the LOCK messages that were kept are handled    *)
(* once it is yes.                                                         *)
(***************************************************************************)
\* the LOCK messages stay in the cache
check_lock_status_NoReplay(c, s) ==
  [AfterIsReady(c, s) EXCEPT
     !.lock_status = IF is_ready(s) THEN "LOCKREADY" ELSE "NOLOCK"]

check_lock_status(c, s) ==
  LET t == AfterIsReady(c, s)
      status == IF is_ready(s) THEN "LOCKREADY" ELSE "NOLOCK"
  IN  IF t.lock_status = status THEN t
      ELSE IF is_ready(s)
           THEN [t EXCEPT !.lock_status = status,
                          !.handed = @ \cup s.message_cache,
                          !.message_cache = {}]
           ELSE [t EXCEPT !.lock_status = status]

(***************************************************************************)
(* election_status(): the order of the candidates is that of their ids,    *)
(* priority first; the current leaders have priority zero.                 *)
(***************************************************************************)
AllLeaders(s) ==
  \/ Len(s.leaders) = 3
  \/ Len(s.leaders) # 0 /\ s.neighbors_count < 3
     /\ Len(s.leaders) = s.neighbors_count

Candidates(s) == {d \in Known(s) : Priority[d] # PRIORITY_OFF}

Before(s, d, e) ==
  LET p(x) == IF IsLeader(s, x) THEN 0 ELSE Priority[x]
      r(x) == s.computers[x].random
  IN  \/ p(d) < p(e)
      \/ p(d) = p(e) /\ r(d) < r(e)
      \/ p(d) = p(e) /\ r(d) = r(e) /\ d < e

\* the first three candidates, or all of them when there are fewer
Elected(s) ==
  LET n == Cardinality(Candidates(s))
  IN  [i \in 1..(IF n < 3 THEN n ELSE 3) |->
         CHOOSE d \in Candidates(s) :
           Cardinality({e \in Candidates(s) : Before(s, e, d)}) = i - 1]

CanElect(c, s) ==
  LET computers == Cardinality(Known(s))
      off == computers - Cardinality(Candidates(s))
  IN  /\ s.neighbors_count # 0
      /\ neighbors_quorum(s) < 3 => computers >= s.neighbors_count
      /\ computers >= neighbors_quorum(s)
      /\ \A d \in Known(s) : c <= d
      /\ IF computers <= 3 THEN off = 0 ELSE computers - off >= 3

Elect(c, s) ==
  LET t == [s EXCEPT !.leaders = Elected(s), !.clock = @ + 1,
                     !.election_date = s.clock + 1]
  IN  Send(t, Computers, [ cmd |-> "LOCKLEADERS",
                           election_date |-> t.election_date,
                           leaders |-> Ids(t) ])

election_status(c, s) ==
  IF AllLeaders(s) THEN check_lock_status(c, s)
  ELSE IF CanElect(c, s) THEN check_lock_status(c, Elect(c, s))
  ELSE s

(***************************************************************************)
(* The leaders named in a message become the leaders of s; computers that  *)
(* s never heard of are added, without a connection.                       *)
(***************************************************************************)
set_leaders(s, ids) ==
  [s EXCEPT
     !.leaders = [i \in 1..Len(ids) |-> ids[i].name],
     !.computers =
        [d \in Computers |->
           IF ~s.computers[d].known
              /\ \E i \in 1..Len(ids) : ids[i].name = d
           THEN Named(ids[CHOOSE i \in 1..Len(ids) : ids[i].name = d].random)
           ELSE s.computers[d]]]

-----------------------------------------------------------------------------
(***************************************************************************)
(* The handlers, on the daemon s of computer c.                            *)
(***************************************************************************)
msg_cluster_up(c, s, m) ==
  send_lockstarted(c,
    election_status(c, [s EXCEPT !.neighbors_count = m.neighbors_count]))

msg_cluster_down(c, s) == check_lock_status(c, [s EXCEPT !.leaders = <<>>])

\* the computer is forgotten, but stays in the list of leaders
msg_server_gone_KeepLeader(c, s, m) ==
  IF m.server_name = c \/ ~s.computers[m.server_name].known THEN s
  ELSE [s EXCEPT !.computers[m.server_name] = Unknown]

\* HANGUP and DISCONNECTED; the leader is looked up through the iterator
\* that was erased just before, whose memory still holds the pointer
msg_server_gone(c, s, m) ==
  LET d == m.server_name
      t == [s EXCEPT !.computers[d] = Unknown,
                     !.leaders = Selected(s.leaders,
                       {i \in 1..Len(s.leaders) : s.leaders[i] # d})]
  IN  IF d = c \/ ~s.computers[d].known THEN s
      ELSE IF IsLeader(s, d) THEN check_lock_status(c, election_status(c, t))
      ELSE t

\* leaders we have are not replaced
msg_lock_leaders_First(c, s, m) ==
  LET t == [s EXCEPT !.election_date = m.election_date]
  IN  check_lock_status(c, IF t.leaders = <<>> THEN set_leaders(t, m.leaders)
                           ELSE t)

msg_lock_leaders(c, s, m) ==
  check_lock_status(c,
    set_leaders([s EXCEPT !.election_date = m.election_date], m.leaders))

NewComputer(s, d, m) ==
  \/ ~s.computers[d].known
  \/ ~s.computers[d].connected
  \/ s.computers[d].start # m.starttime

\* the sender is known and connected from here on; its id stays the first
\* one we saw of it
Meet(s, d, m) ==
  [s EXCEPT !.computers[d] =
     IF s.computers[d].known
     THEN [s.computers[d] EXCEPT !.connected = TRUE, !.start = m.starttime]
     ELSE Heard(m.random, m.starttime)]

\* the date is taken, the leaders stay
Newer_DateOnly(s, m) ==
  IF m.election_date > s.election_date
  THEN [s EXCEPT !.election_date = m.election_date] ELSE s

\* a later election replaces ours
Newer(s, m) ==
  IF m.election_date > s.election_date
  THEN [s EXCEPT !.election_date = m.election_date, !.leaders = <<>>]
  ELSE s

\* no answer to a computer that restarted
msg_lock_started_OnlyNew(c, s, d, m) ==
  LET t == Newer(Meet(s, d, m), m)
      u == election_status(c, IF t.leaders = <<>> THEN set_leaders(t, m.leaders)
                              ELSE t)
  IN  IF s.computers[d].known THEN u ELSE reply_lockstarted(c, u, d)

msg_lock_started(c, s, d, m) ==
  LET t == Newer(Meet(s, d, m), m)
      u == election_status(c, IF t.leaders = <<>> THEN set_leaders(t, m.leaders)
                              ELSE t)
  IN  IF NewComputer(s, d, m) THEN reply_lockstarted(c, u, d) ELSE u

\* a LOCK of a local user: kept until there are leaders
msg_lock(c, s, r) ==
  IF is_ready(s) THEN [s EXCEPT !.handed = @ \cup {r}]
  ELSE [AfterIsReady(c, s) EXCEPT !.message_cache = @ \cup {r}]

Handle(c, s, d, m) ==
  CASE m.cmd = "CLUSTERUP"   -> msg_cluster_up(c, s, m)
    [] m.cmd = "CLUSTERDOWN" -> msg_cluster_down(c, s)
    [] m.cmd = "HANGUP"      -> msg_server_gone(c, s, m)
    [] m.cmd = "LOCKLEADERS" -> msg_lock_leaders(c, s, m)
    [] m.cmd = "LOCKSTARTED" -> msg_lock_started(c, s, d, m)

-----------------------------------------------------------------------------
(***************************************************************************)
(* snapcommunicator.  A broadcast reaches the computers there is a         *)
(* connection with and whose snaplock runs, and those that a neighbour     *)
(* passes it on to: it does so if the sender did not count the computer as *)
(* informed, which it does for all smaller addresses.  A message to one    *)
(* snaplock that does not run is kept for it (f_local_message_cache).      *)
(***************************************************************************)
Relayed(c, d) ==
  c < d /\ \E e \in Computers : {{c, e}, {e, d}} \subseteq links

Reaches(c, d, m) ==
  \/ (c = d \/ {c, d} \in links) /\ node[d].up
  \/ {c, d} \in links /\ m.cmd = "LOCKSTARTED" /\ ~m.broadcast
  \/ Relayed(c, d) /\ node[d].up
     /\ (m.cmd = "LOCKSTARTED" => m.broadcast)

Sent(c, d, out) ==
  Selected([i \in 1..Len(out) |-> out[i].msg],
           {i \in 1..Len(out) : d \in out[i].to /\ Reaches(c, d, out[i].msg)})

\* the state after the handler that turned the daemon of c into s
Finish(c, s) ==
  /\ node' = [node EXCEPT ![c] =
       [ up |-> s.up, start |-> s.start, random |-> s.random,
         neighbors_count |-> s.neighbors_count, computers |-> s.computers,
         leaders |-> s.leaders, election_date |-> s.election_date,
         lock_status |-> s.lock_status, paced |-> s.paced,
         message_cache |-> s.message_cache ]]
  /\ clock' = s.clock
  /\ request' = [r \in Requests |->
       IF r \in s.handed THEN "handed"
       ELSE IF r \in s.message_cache THEN "cached" ELSE request[r]]

\* the handler runs on the oldest message from d (\E has TLC run it once)
Receive(c, d) ==
  /\ node[c].up
  /\ net[d][c] # <<>>
  /\ \E s \in {Handle(c, Run(c), d, Head(net[d][c]))} :
       LET after == [net EXCEPT ![d][c] = Tail(@)]
       IN  /\ Finish(c, s)
           /\ net' = [after EXCEPT ![c] =
                        [e \in Computers |-> after[c][e] \o Sent(c, e, s.out)]]
  /\ UNCHANGED <<links, f_connected, cluster, crashes, hangups>>

Lock(r) ==
  LET c == At[r]
      s == msg_lock(c, Run(c), r)
  IN  /\ node[c].up
      /\ request[r] = "new"
      /\ Finish(c, s)
      /\ net' = [net EXCEPT ![c] =
                   [e \in Computers |-> @[e] \o Sent(c, e, s.out)]]
      /\ UNCHANGED <<links, f_connected, cluster, crashes, hangups>>

\* cleanup(): a LOCK that was kept for too long is refused
Cleanup(r) ==
  /\ node[At[r]].up
  /\ r \in node[At[r]].message_cache
  /\ node' = [node EXCEPT ![At[r]].message_cache = @ \ {r}]
  /\ request' = [request EXCEPT ![r] = "failed"]
  /\ UNCHANGED <<net, links, f_connected, cluster, clock, crashes, hangups>>

\* five seconds after the last LOCKSTARTED of is_ready()
Pace(c) ==
  /\ node[c].paced
  /\ node' = [node EXCEPT ![c].paced = FALSE]
  /\ UNCHANGED <<net, links, f_connected, cluster, clock, crashes, hangups, request>>

(***************************************************************************)
(* cluster_status(): a connection to a smaller address is in the list of   *)
(* connections from the start and counts whether it is up or not; one from *)
(* a larger address counts while it is there.                              *)
(***************************************************************************)
Live(c) ==
  Cardinality({d \in Computers : d < c \/ (d > c /\ {c, d} \in links)}) + 1

ClusterMessage(live) ==
  IF live >= Total \div 2 + 1
  THEN [cmd |-> "CLUSTERUP", neighbors_count |-> Total]
  ELSE [cmd |-> "CLUSTERDOWN"]

\* the constructor, the registration, and the answer to CLUSTERSTATUS; a
\* daemon never starts twice in the same second
Start(c) ==
  /\ ~node[c].up
  /\ \E random \in RandomIds :
       node' = [node EXCEPT ![c] =
         [ up |-> TRUE, start |-> @.start + 1, random |-> random,
           neighbors_count |-> 0,
           computers |-> [d \in Computers |->
              IF d = c THEN Heard(random, node[c].start + 1) ELSE Unknown],
           leaders |-> <<>>, election_date |-> 0, lock_status |-> "NOLOCK",
           paced |-> FALSE, message_cache |-> {} ]]
  /\ net' = [net EXCEPT ![c][c] = Append(@, ClusterMessage(Live(c)))]
  /\ UNCHANGED <<links, f_connected, cluster, clock, crashes, hangups, request>>

\* the messages of q that were sent to this snaplock alone
ToOne(q) == {i \in 1..Len(q) : q[i].cmd = "LOCKSTARTED" /\ ~q[i].broadcast}

\* the process ends; what was sent to it is lost, save the messages its
\* snapcommunicator has not received yet and will keep
Crash(c) ==
  /\ node[c].up
  /\ crashes + hangups < MaxFaults
  /\ crashes' = crashes + 1
  /\ node' = [node EXCEPT ![c].up = FALSE, ![c].message_cache = {}]
  /\ request' = [r \in Requests |->
       IF r \in node[c].message_cache THEN "lost" ELSE request[r]]
  /\ \E kept \in BOOLEAN :
       net' = [d \in Computers |-> [net[d] EXCEPT ![c] =
                 IF kept /\ d # c
                 THEN Selected(net[d][c], ToOne(net[d][c])) ELSE <<>>]]
  /\ UNCHANGED <<links, f_connected, cluster, clock, hangups>>

\* the connection of d to the smaller c is established: CONNECT at c
Connect(d, c) ==
  /\ c < d
  /\ {c, d} \notin links
  /\ links' = links \cup {{c, d}}
  /\ f_connected' = [f_connected EXCEPT ![d] = @ \cup {c}]
  /\ LET m == ClusterMessage(
                Cardinality({e \in Computers : e < c
                              \/ (e > c /\ {c, e} \in links')}) + 1)
         told == m.cmd # cluster[c]
     IN  /\ cluster' = [cluster EXCEPT ![c] = m.cmd]
         /\ net' = IF told /\ node[c].up
                   THEN [net EXCEPT ![c][c] = Append(@, m)] ELSE net
  /\ UNCHANGED <<node, clock, crashes, hangups, request>>

\* the connection breaks; the side that accepted it sees it at once and
\* tells its services, but does not work out the status of the cluster
Hangup(d, c) ==
  /\ c < d
  /\ {c, d} \in links
  /\ crashes + hangups < MaxFaults
  /\ hangups' = hangups + 1
  /\ links' = links \ {{c, d}}
  /\ LET m == [cmd |-> "HANGUP", server_name |-> d]
         broken == [net EXCEPT ![c][d] = <<>>, ![d][c] = <<>>]
     IN  net' = IF node[c].up THEN [broken EXCEPT ![c][c] = Append(@, m)]
                ELSE broken
  /\ UNCHANGED <<node, f_connected, cluster, clock, crashes, request>>

\* the side that connects tells its services when a new attempt fails; it
\* names the computer of the first service that was heard over the connection,
\* which c may have passed on for another one (and tells nothing before that)
ConnectionFailed(d, c) ==
  /\ c \in f_connected[d]
  /\ {c, d} \notin links
  /\ f_connected' = [f_connected EXCEPT ![d] = @ \ {c}]
  /\ \E name \in Computers \ {d} :
       net' = IF node[d].up
              THEN [net EXCEPT ![d][d] =
                      Append(@, [cmd |-> "HANGUP", server_name |-> name])]
              ELSE net
  /\ UNCHANGED <<node, links, cluster, clock, crashes, hangups, request>>

Init ==
  /\ node = [c \in Computers |->
       [ up |-> FALSE, start |-> 0, random |-> 0, neighbors_count |-> 0,
         computers |-> [d \in Computers |-> Unknown], leaders |-> <<>>,
         election_date |-> 0, lock_status |-> "NOLOCK", paced |-> FALSE,
         message_cache |-> {} ]]
  /\ net = [c \in Computers |-> [d \in Computers |-> <<>>]]
  /\ links = {}
  /\ f_connected = [c \in Computers |-> {}]
  /\ cluster = [c \in Computers |-> ClusterMessage(Live(c)).cmd]
  /\ clock = 0
  /\ crashes = 0
  /\ hangups = 0
  /\ request = [r \in Requests |-> "new"]

Next ==
  \/ \E c, d \in Computers :
       Receive(c, d) \/ Connect(c, d) \/ Hangup(c, d) \/ ConnectionFailed(c, d)
  \/ \E c \in Computers : Start(c) \/ Crash(c) \/ Pace(c)
  \/ \E r \in Requests : Lock(r) \/ Cleanup(r)

Spec == Init /\ [][Next]_vars

-----------------------------------------------------------------------------
Quiet == \A c, d \in Computers : net[c][d] = <<>>

AllUp == \A c \in Computers : node[c].up

AllLinked == \A c, d \in Computers : c # d => {c, d} \in links

Ready(c) == node[c].up /\ node[c].lock_status = "LOCKREADY"

\* no connection broke so far; daemons may have restarted at will
Steady == hangups = 0

\* no connection broke, and no daemon lost its leaders to CLUSTERDOWN, after
\* which the date of its last election stays
Undisturbed ==
  /\ Steady
  /\ \A c \in Computers :
       node[c].leaders = <<>> => node[c].election_date = 0

SameLeaders ==
  \A c, d \in Computers :
    Ready(c) /\ Ready(d) /\ node[c].election_date = node[d].election_date
      => node[c].leaders = node[d].leaders

\* Two computers that believe in the same election have the same leaders, in
\* the same order (the order makes a leader "a" or "b" for the others), while
\* LOCKLEADERS and LOCKSTARTED of several elections are in transit and daemons
\* restart.  Only undisturbed: msg_server_gone() removes a leader and keeps the
\* date of the election, so that in a cluster of four or more computers one can
\* be ready with two leaders and another one with three of the same election.
SameElection == []Undisturbed => []SameLeaders

\* The leaders of a computer are different computers that it knows: the code
\* dereferences f_leaders and looks their names up without a check.
LeadersKnown ==
  \A c \in Computers :
    /\ \A i, j \in 1..Len(node[c].leaders) :
         i # j => node[c].leaders[i] # node[c].leaders[j]
    /\ \A i \in 1..Len(node[c].leaders) :
         node[c].computers[node[c].leaders[i]].known

\* Once nothing is in transit, all computers that accept locks have the same
\* leaders, whatever restarted on the way (as long as no connection broke).
QuietAgreement ==
  Quiet /\ Steady =>
    \A c, d \in Computers :
      Ready(c) /\ Ready(d) => node[c].leaders = node[d].leaders

\* A LOCK is never left in the cache of a snaplock that is ready (as long as no
\* connection broke): the cache is only replayed when the status changes, and
\* msg_lock() does not read the status but asks is_ready().
CacheReplayed ==
  Steady =>
    \A c \in Computers :
      Ready(c) /\ is_ready(node[c]) => node[c].message_cache = {}

\* Once everything runs and nothing is in transit, locks are available on all
\* computers: no start order of the daemons loses a message for good (as long
\* as no connection broke).
QuietReady ==
  Quiet /\ Steady /\ AllUp /\ AllLinked => \A c \in Computers : Ready(c)
=============================================================================
