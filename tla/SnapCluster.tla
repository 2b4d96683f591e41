---------------------------- MODULE SnapCluster ----------------------------
(***************************************************************************)
(* How the snapcommunicator daemons of a cluster connect to each other     *)
(* (src/snapcommunicator/src/snapcommunicator.cpp).                        *)
(*                                                                         *)
(* A daemon connects to its neighbours with a smaller address, through a   *)
(* permanent connection that is retried by a timer.  To a neighbour with a *)
(* larger address, which may not know of it, it sends GOSSIP until that    *)
(* one answers.  The one that connects sends CONNECT and receives ACCEPT   *)
(* or REFUSE; one that stops sends DISCONNECT.  Each daemon works out from *)
(* its connections whether the cluster has a quorum (CLUSTERUP) and tells  *)
(* its services which computers come and go.                               *)
(*                                                                         *)
(* A computer is a number, which orders the addresses; it is also its      *)
(* name.  SnapPermanentConnection has the thread behind one attempt to     *)
(* connect; here an attempt is one step.                                   *)
(***************************************************************************)
EXTENDS Naturals, Sequences, FiniteSets, SnapSequences

CONSTANTS
  Computers,
  Neighbors,          \* Neighbors[c]: the neighbors parameter of c
  SentFrom,           \* SentFrom[c][d]: the computers whose messages d passes on to c
  f_max_connections,  \* less the connections a daemon always has
  MaxFaults,          \* daemons that stop or crash, connections that break (bound)
  MaxSockets          \* sockets in use at the same time (bound)

ASSUME ClusterAssumption ==
  /\ Computers \subseteq Nat \ {0}
  /\ Computers # {}
  /\ IsFiniteSet(Computers)
  /\ Neighbors \in [Computers -> SUBSET Computers]
  /\ SentFrom \in [Computers -> [Computers -> SUBSET Computers]]
  /\ f_max_connections \in Nat
  /\ MaxFaults \in Nat
  /\ MaxSockets \in Nat

VARIABLES
  daemon,   \* the snapcommunicator of each computer
  socket,   \* the TCP connections between them
  queue,    \* queue[c][d]: what c sent to d, in the order it arrives
  stops,    \* daemons that stopped or crashed so far
  breaks    \* connections that broke so far

vars == <<daemon, socket, queue, stops, breaks>>

Sockets == 1..MaxSockets

\* no socket
None == 0

(***************************************************************************)
(* A permanent connection (remote_snap_communicator, and the one that      *)
(* gossips): its timer, its socket, and what the base class knows of the   *)
(* other end.                                                              *)
(***************************************************************************)
Permanent ==
  [ known : BOOLEAN, enabled : BOOLEAN, sock : Sockets \cup {None},
    f_connected : BOOLEAN, type : {"DOWN", "REMOTE"} ]

NoPermanent ==
  [ known |-> FALSE, enabled |-> FALSE, sock |-> None, f_connected |-> FALSE,
    type |-> "DOWN" ]

NewPermanent == [NoPermanent EXCEPT !.known = TRUE, !.enabled = TRUE]

Daemon ==
  [ up : BOOLEAN,
    f_all_neighbors : SUBSET Computers,        \* also in neighbors.txt
    f_all_ips : SUBSET Computers,
    f_smaller_ips : [Computers -> Permanent],
    f_gossip_ips : [Computers -> Permanent],
    f_cluster_status : {"unset", "CLUSTERUP", "CLUSTERDOWN"},
    services_know : SUBSET Computers ]         \* as the services were told

(***************************************************************************)
(* A socket: the end of the daemon that connected, and the end at the      *)
(* other one, which is a service_connection once accept() returned it.     *)
(***************************************************************************)
Socket ==
  [ from : Computers, to : Computers, client : BOOLEAN,
    server : {"backlog", "open", "closed"}, type : {"DOWN", "REMOTE"},
    server_name : BOOLEAN, broken : BOOLEAN ]

Free(n) == socket[n].server = "closed" /\ ~socket[n].client

Message == {"SYN", "FIN", "CONNECT", "ACCEPT", "REFUSE", "DISCONNECT",
            "GOSSIP", "RECEIVED"}

TypeOK ==
  /\ daemon \in [Computers -> Daemon]
  /\ socket \in [Sockets -> Socket]
  /\ queue \in [Computers -> [Computers -> Seq([sock : Sockets, msg : Message])]]
  /\ stops \in Nat
  /\ breaks \in Nat

-----------------------------------------------------------------------------
(***************************************************************************)
(* cluster_status().  Every permanent connection to a smaller address and  *)
(* every accepted remote connection counts as live (count_live_connections *)
(* does not ask whether they are connected, or what they are for).         *)
(***************************************************************************)
Accepted(c, sk) == {n \in Sockets : sk[n].to = c /\ sk[n].server = "open"}

count_live_connections(c, dm, sk) ==
  Cardinality({d \in Computers : dm.f_smaller_ips[d].known})
  + Cardinality(Accepted(c, sk))

cluster_status(c, dm, sk) ==
  [dm EXCEPT !.f_cluster_status =
     IF count_live_connections(c, dm, sk) + 1
          >= Cardinality(dm.f_all_neighbors) \div 2 + 1
     THEN "CLUSTERUP" ELSE "CLUSTERDOWN"]

(***************************************************************************)
(* add_remote_communicator(), for each address of a set: a new smaller     *)
(* address is connected to, a new larger one is told of us; a known        *)
(* smaller one that is not connected is tried again.                       *)
(***************************************************************************)
\* addresses that are known are not tried again
add_remote_communicator_NewOnly(c, dm, addresses) ==
  LET new == addresses \ (dm.f_all_ips \cup {c})
  IN  [dm EXCEPT
         !.f_all_ips = @ \cup new,
         !.f_smaller_ips = [d \in Computers |->
            IF d < c /\ d \in new THEN NewPermanent ELSE @[d]],
         !.f_gossip_ips = [d \in Computers |->
            IF d > c /\ d \in new THEN NewPermanent ELSE @[d]]]

add_remote_communicator(c, dm, addresses) ==
  LET others == addresses \ {c}
      new == others \ dm.f_all_ips
  IN  [dm EXCEPT
         !.f_all_ips = @ \cup new,
         !.f_smaller_ips = [d \in Computers |->
            IF d < c /\ d \in new THEN NewPermanent
            ELSE IF d \in others /\ @[d].known /\ @[d].sock = None
            THEN [@[d] EXCEPT !.enabled = TRUE]
            ELSE @[d]],
         !.f_gossip_ips = [d \in Computers |->
            IF d > c /\ d \in new THEN NewPermanent ELSE @[d]]]

add_neighbors(c, dm, addresses) ==
  add_remote_communicator(c,
    [dm EXCEPT !.f_all_neighbors = @ \cup addresses],
    addresses \ dm.f_all_neighbors)

\* the file is not read and larger addresses are not told of us
Started_NoFile(c) ==
  LET all == {c} \cup Neighbors[c]
      dm == [ up |-> TRUE, f_all_neighbors |-> all, f_all_ips |-> all \ {c},
              f_smaller_ips |-> [d \in Computers |->
                 IF d \in all /\ d < c THEN NewPermanent ELSE NoPermanent],
              f_gossip_ips |-> [d \in Computers |-> NoPermanent],
              f_cluster_status |-> "unset", services_know |-> {} ]
  IN  cluster_status(c, dm, socket)

\* init(): the neighbours of the file and of the configuration
Started(c) ==
  LET all == daemon[c].f_all_neighbors \cup {c} \cup Neighbors[c]
      dm == [ up |-> TRUE, f_all_neighbors |-> all, f_all_ips |-> all \ {c},
              f_smaller_ips |-> [d \in Computers |->
                 IF d \in all /\ d < c THEN NewPermanent ELSE NoPermanent],
              f_gossip_ips |-> [d \in Computers |->
                 IF d \in all /\ d > c THEN NewPermanent ELSE NoPermanent],
              f_cluster_status |-> "unset", services_know |-> {} ]
  IN  cluster_status(c, dm, socket)

-----------------------------------------------------------------------------
\* m sent on socket n by c to d; it is lost if the other end is closed
Sent(q, c, d, n, m) == [q EXCEPT ![c][d] = Append(@, [sock |-> n, msg |-> m])]

\* what was sent to c on socket n is gone once c closed its end
Without(s, n) == Selected(s, {i \in 1..Len(s) : s[i].sock # n})

Purge(q, c, d, n) == [q EXCEPT ![d][c] = Without(@, n)]

Other(c, n) == IF socket[n].from = c THEN socket[n].to ELSE socket[n].from

IsOpen(c, n) ==
  IF socket[n].from = c THEN socket[n].client ELSE socket[n].server # "closed"

\* the end of c of socket n is closed; the other end is told unless it is gone
CloseEnd(c, sk, n) ==
  IF sk[n].from = c THEN [sk EXCEPT ![n].client = FALSE]
  ELSE [sk EXCEPT ![n].server = "closed"]

CloseQueue(c, q, n) ==
  LET d == Other(c, n)
      p == Purge(q, c, d, n)
  IN  IF IsOpen(d, n) /\ ~socket[n].broken THEN Sent(p, c, d, n, "FIN") ELSE p

-----------------------------------------------------------------------------
Start(c) ==
  /\ ~daemon[c].up
  /\ daemon' = [daemon EXCEPT ![c] = Started(c)]
  /\ UNCHANGED <<socket, queue, stops, breaks>>

\* the process is gone: its sockets are closed, what it had not read is lost
Gone(c, last) ==
  LET mine == {n \in Sockets : c \in {socket[n].from, socket[n].to}
                                /\ IsOpen(c, n)}
      told(d) == {n \in mine : Other(c, n) = d /\ IsOpen(d, n)
                                /\ ~socket[n].broken}
      ends(d) == Selected([n \in Sockets |-> [sock |-> n, msg |-> "FIN"]], told(d))
  IN  /\ daemon' = [daemon EXCEPT ![c] =
           [daemon[c] EXCEPT !.up = FALSE, !.f_all_ips = {},
              !.f_smaller_ips = [d \in Computers |-> NoPermanent],
              !.f_gossip_ips = [d \in Computers |-> NoPermanent],
              !.f_cluster_status = "unset", !.services_know = {}]]
      /\ socket' = [n \in Sockets |->
           IF n \notin mine THEN socket[n]
           ELSE IF socket[n].from = c THEN [socket[n] EXCEPT !.client = FALSE]
           ELSE [socket[n] EXCEPT !.server = "closed"]]
      /\ queue' = [a \in Computers |-> [b \in Computers |->
           IF b = c THEN <<>>
           ELSE IF a = c THEN queue[a][b] \o last[b] \o ends(b)
           ELSE queue[a][b]]]
      /\ stops' = stops + 1
      /\ UNCHANGED breaks

Crash(c) ==
  /\ daemon[c].up
  /\ stops + breaks < MaxFaults
  /\ Gone(c, [d \in Computers |-> <<>>])

(***************************************************************************)
(* shutdown(false), on STOP or SIGINT: DISCONNECT to the computers we are  *)
(* connected to and to those that are connected to us; the connections are *)
(* closed once that is sent.                                               *)
(***************************************************************************)
Stop(c) ==
  LET to(d) ==
        IF d < c /\ daemon[c].f_smaller_ips[d].sock # None
        THEN {daemon[c].f_smaller_ips[d].sock}
        ELSE {n \in Accepted(c, socket) :
                socket[n].from = d /\ socket[n].type = "REMOTE"}
      live(d) == {n \in to(d) : IsOpen(d, n) /\ ~socket[n].broken}
  IN  /\ daemon[c].up
      /\ stops + breaks < MaxFaults
      /\ Gone(c, [d \in Computers |->
           IF live(d) = {} THEN <<>>
           ELSE <<[sock |-> CHOOSE n \in live(d) : TRUE, msg |-> "DISCONNECT"]>>])

(***************************************************************************)
(* The timer of a permanent connection.  connect() succeeds if the other   *)
(* daemon listens; process_connected() disables the timer and sends the    *)
(* first message.  When it fails the timer stays enabled and, if we were   *)
(* connected before, our services are told that a computer is gone         *)
(* (HANGUP).  Its name is the sent_from_server of the first message of a   *)
(* service that came over the connection (f_server_name, which hides that  *)
(* of the base class): the computer at the other end, or one whose message *)
(* it passed on.  When no such message came there is no name, f_connected  *)
(* stays set and nobody is told.                                           *)
(***************************************************************************)
\* the type of the connection is not initialised
NewSocket_NoType(c, d) ==
  [ from |-> c, to |-> d, client |-> TRUE, server |-> "backlog",
    server_name |-> FALSE, broken |-> FALSE ]

NewSocket(c, d) ==
  [ from |-> c, to |-> d, client |-> TRUE, server |-> "backlog",
    type |-> "DOWN", server_name |-> FALSE, broken |-> FALSE ]

Connect(c, d, p, n, first) ==
  /\ daemon[c].up
  /\ p.known
  /\ p.enabled
  /\ p.sock = None
  /\ daemon[d].up
  /\ Free(n)
  /\ \A m \in Sockets : Free(m) => n <= m
  /\ socket' = [socket EXCEPT ![n] = NewSocket(c, d)]
  /\ queue' = Sent(Sent(queue, c, d, n, "SYN"), c, d, n, first)
  /\ UNCHANGED <<stops, breaks>>

Connected(p, n) ==
  [p EXCEPT !.enabled = FALSE, !.sock = n, !.f_connected = TRUE]

process_connected(c, d) ==
  \E n \in Sockets :
    /\ Connect(c, d, daemon[c].f_smaller_ips[d], n, "CONNECT")
    /\ daemon' = [daemon EXCEPT ![c].f_smaller_ips[d] = Connected(@, n)]

gossip_connected(c, d) ==
  \E n \in Sockets :
    /\ Connect(c, d, daemon[c].f_gossip_ips[d], n, "GOSSIP")
    /\ daemon' = [daemon EXCEPT ![c].f_gossip_ips[d] = Connected(@, n)]

process_connection_failed(c, d) ==
  /\ daemon[c].up
  /\ daemon[c].f_smaller_ips[d].enabled
  /\ daemon[c].f_smaller_ips[d].sock = None
  /\ ~daemon[d].up
  /\ daemon[c].f_smaller_ips[d].f_connected
  /\ \E name \in SentFrom[c][d] :
       daemon' = [daemon EXCEPT ![c] =
         [daemon[c] EXCEPT !.f_smaller_ips[d].f_connected = FALSE,
                           !.services_know = @ \ {name}]]
  /\ UNCHANGED <<socket, queue, stops, breaks>>

-----------------------------------------------------------------------------
(***************************************************************************)
(* The messages.  c reads the first event that d sent to it, on socket n.  *)
(***************************************************************************)
Read(c, d, m) ==
  /\ daemon[c].up
  /\ queue[d][c] # <<>>
  /\ Head(queue[d][c]).msg = m

Rest(c, d) == [queue EXCEPT ![d][c] = Tail(@)]

SocketRead(c, d) == Head(queue[d][c]).sock

\* the listener of c: process_accept()
process_accept(c, d) ==
  /\ Read(c, d, "SYN")
  /\ socket' = [socket EXCEPT ![SocketRead(c, d)].server = "open"]
  /\ queue' = Rest(c, d)
  /\ UNCHANGED <<daemon, stops, breaks>>

\* the name is not looked up
SameName_Ignored(c, d, n) == FALSE

\* another connection already has the name of d
SameName(c, d, n) ==
  \E m \in Accepted(c, socket) \ {n} :
    socket[m].from = d /\ socket[m].server_name

TooMany(c) == count_live_connections(c, daemon[c], socket) >= f_max_connections

CONNECT(c, d) ==
  LET n == SocketRead(c, d)
      named == [socket EXCEPT ![n].server_name = TRUE]
      sk == [socket EXCEPT ![n].server_name = TRUE, ![n].type = "REMOTE"]
      dm == add_neighbors(c, daemon[c], Neighbors[d] \cup {d})
  IN  /\ Read(c, d, "CONNECT")
      /\ IF SameName(c, d, n) \/ TooMany(c)
         THEN /\ socket' = IF SameName(c, d, n) THEN socket ELSE named
              /\ queue' = IF IsOpen(d, n)
                          THEN Sent(Rest(c, d), c, d, n, "REFUSE")
                          ELSE Rest(c, d)
              /\ UNCHANGED daemon
         ELSE /\ socket' = sk
              /\ queue' = IF IsOpen(d, n)
                          THEN Sent(Rest(c, d), c, d, n, "ACCEPT")
                          ELSE Rest(c, d)
              /\ daemon' = [daemon EXCEPT ![c] = cluster_status(c,
                   [dm EXCEPT !.services_know = @ \cup {d}], sk)]
      /\ UNCHANGED <<stops, breaks>>

\* the other end accepted us
ACCEPT(c, d) ==
  /\ Read(c, d, "ACCEPT")
  /\ daemon' = [daemon EXCEPT ![c] =
       add_neighbors(c,
         [daemon[c] EXCEPT !.f_smaller_ips[d].type = "REMOTE",
                           !.services_know = @ \cup {d}],
         Neighbors[d])]
  /\ queue' = Rest(c, d)
  /\ UNCHANGED <<socket, stops, breaks>>

(***************************************************************************)
(* REFUSE: too_busy() and shutting_down() look for "address:port" in       *)
(* f_smaller_ips, whose keys are addresses, and find nothing; the timer    *)
(* stays as it is.                                                         *)
(***************************************************************************)
\* the connection is left open
REFUSE_KeepOpen(c, d) ==
  /\ Read(c, d, "REFUSE")
  /\ queue' = Rest(c, d)
  /\ UNCHANGED <<daemon, socket, stops, breaks>>

REFUSE(c, d) ==
  LET n == SocketRead(c, d)
  IN  /\ Read(c, d, "REFUSE")
      /\ daemon' = [daemon EXCEPT ![c].f_smaller_ips[d].sock = None]
      /\ socket' = CloseEnd(c, socket, n)
      /\ queue' = CloseQueue(c, Rest(c, d), n)
      /\ UNCHANGED <<stops, breaks>>

(***************************************************************************)
(* DISCONNECT: the connection is removed if the other end opened it, and   *)
(* is to be retried otherwise, with the same look up as for REFUSE.  One   *)
(* that is not REMOTE (yet) is left alone.                                 *)
(***************************************************************************)
DISCONNECT(c, d) ==
  LET n == SocketRead(c, d)
      ours == socket[n].from = c
      type == IF ours THEN daemon[c].f_smaller_ips[d].type ELSE socket[n].type
      closed == CloseEnd(c, socket, n)
      sk == IF ours THEN closed ELSE [closed EXCEPT ![n].type = "DOWN"]
      perm == daemon[c].f_smaller_ips[d]
      dm == [daemon[c] EXCEPT
               !.services_know = @ \ {d},
               !.f_smaller_ips[d] =
                  IF ours
                  THEN [perm EXCEPT !.sock = None, !.type = "DOWN"]
                  ELSE perm]
  IN  /\ Read(c, d, "DISCONNECT")
      /\ IF type = "REMOTE"
         THEN /\ socket' = sk
              /\ queue' = CloseQueue(c, Rest(c, d), n)
              /\ daemon' = [daemon EXCEPT ![c] = cluster_status(c, dm, sk)]
         ELSE /\ queue' = Rest(c, d)
              /\ UNCHANGED <<daemon, socket>>
      /\ UNCHANGED <<stops, breaks>>

\* a neighbour with a smaller address wants us to connect
GOSSIP(c, d) ==
  LET n == SocketRead(c, d)
  IN  /\ Read(c, d, "GOSSIP")
      /\ daemon' = [daemon EXCEPT ![c] =
           add_remote_communicator(c, add_neighbors(c, daemon[c], {d}), {d})]
      /\ queue' = IF IsOpen(d, n) THEN Sent(Rest(c, d), c, d, n, "RECEIVED")
                  ELSE Rest(c, d)
      /\ UNCHANGED <<socket, stops, breaks>>

RECEIVED(c, d) ==
  LET n == SocketRead(c, d)
  IN  /\ Read(c, d, "RECEIVED")
      /\ daemon' = [daemon EXCEPT ![c].f_gossip_ips[d] = NoPermanent]
      /\ socket' = CloseEnd(c, socket, n)
      /\ queue' = CloseQueue(c, Rest(c, d), n)
      /\ UNCHANGED <<stops, breaks>>

(***************************************************************************)
(* The end of a connection.  The end that accepted it tells its services   *)
(* if the other one had a name, and does not work out the cluster status   *)
(* (cluster_status() is asked to reply to that very connection); the end   *)
(* that connected enables its timer.                                       *)
(***************************************************************************)
Retried(p) == [p EXCEPT !.sock = None, !.enabled = TRUE]

HungUp(c, d) ==
  IF d < c THEN [daemon[c] EXCEPT !.f_smaller_ips[d] = Retried(@)]
  ELSE [daemon[c] EXCEPT !.f_gossip_ips[d] = Retried(@)]

\* the services are not told that a computer is gone
Lost_NoHangup(c, d, n, hangup) ==
  daemon' = [daemon EXCEPT ![c] = IF socket[n].from = c THEN HungUp(c, d) ELSE @]

Lost(c, d, n, hangup) ==
  daemon' = [daemon EXCEPT ![c] =
    IF socket[n].from = c THEN HungUp(c, d)
    ELSE IF hangup /\ socket[n].server_name
    THEN [daemon[c] EXCEPT !.services_know = @ \ {d}] ELSE @]

process_hup(c, d) ==
  LET n == SocketRead(c, d)
  IN  /\ Read(c, d, "FIN")
      /\ Lost(c, d, n, TRUE)
      /\ socket' = CloseEnd(c, socket, n)
      /\ queue' = Rest(c, d)
      /\ UNCHANGED <<stops, breaks>>

\* the connection breaks without a word; each end finds out in its own time,
\* by process_hup() or by process_error(), which sends no HANGUP
Break(n) ==
  /\ stops + breaks < MaxFaults
  /\ socket[n].client
  /\ socket[n].server # "closed"
  /\ ~socket[n].broken
  /\ breaks' = breaks + 1
  /\ LET q == Purge(Purge(queue, socket[n].from, socket[n].to, n),
                    socket[n].to, socket[n].from, n)
     IN  queue' = q
  /\ socket' = [socket EXCEPT ![n].broken = TRUE,
       ![n].server = IF @ = "backlog" THEN "closed" ELSE @]
  /\ UNCHANGED <<daemon, stops>>

Notice(c, n) ==
  /\ daemon[c].up
  /\ socket[n].broken
  /\ c \in {socket[n].from, socket[n].to}
  /\ IsOpen(c, n)
  /\ \E hangup \in BOOLEAN : Lost(c, Other(c, n), n, hangup)
  /\ socket' = CloseEnd(c, socket, n)
  /\ UNCHANGED <<queue, stops, breaks>>

-----------------------------------------------------------------------------
Init ==
  /\ daemon = [c \in Computers |->
       [ up |-> FALSE, f_all_neighbors |-> {}, f_all_ips |-> {},
         f_smaller_ips |-> [d \in Computers |-> NoPermanent],
         f_gossip_ips |-> [d \in Computers |-> NoPermanent],
         f_cluster_status |-> "unset", services_know |-> {} ]]
  /\ socket = [n \in Sockets |->
       [ from |-> CHOOSE c \in Computers : TRUE,
         to |-> CHOOSE c \in Computers : TRUE, client |-> FALSE,
         server |-> "closed", type |-> "DOWN", server_name |-> FALSE,
         broken |-> FALSE ]]
  /\ queue = [c \in Computers |-> [d \in Computers |-> <<>>]]
  /\ stops = 0
  /\ breaks = 0

Deliver(c, d) ==
  \/ process_accept(c, d)
  \/ CONNECT(c, d)
  \/ ACCEPT(c, d)
  \/ REFUSE(c, d)
  \/ DISCONNECT(c, d)
  \/ GOSSIP(c, d)
  \/ RECEIVED(c, d)
  \/ process_hup(c, d)

Timeout(c, d) ==
  process_connected(c, d) \/ gossip_connected(c, d) \/ process_connection_failed(c, d)

Next ==
  \/ \E c, d \in Computers : Deliver(c, d) \/ Timeout(c, d)
  \/ \E c \in Computers : Start(c) \/ Stop(c) \/ Crash(c)
  \/ \E n \in Sockets : Break(n)
  \/ \E c \in Computers, n \in Sockets : Notice(c, n)

Spec == Init /\ [][Next]_vars

\* a daemon is restarted and handles its events; TCP finds a broken connection
Fairness ==
  /\ \A c, d \in Computers : WF_vars(Deliver(c, d)) /\ WF_vars(Timeout(c, d))
  /\ \A c \in Computers : WF_vars(Start(c))
  /\ \A c \in Computers, n \in Sockets : WF_vars(Notice(c, n))

FairSpec == Spec /\ Fairness

-----------------------------------------------------------------------------
\* the connection of d to the smaller c, on which both agreed
Linked(c, d) ==
  \E n \in Accepted(c, socket) :
    /\ socket[n].from = d
    /\ socket[n].type = "REMOTE"
    /\ daemon[d].f_smaller_ips[c].sock = n
    /\ daemon[d].f_smaller_ips[c].type = "REMOTE"

Quiet ==
  /\ \A c, d \in Computers : queue[c][d] = <<>>
  /\ \A n \in Sockets : socket[n].broken => Free(n)

\* one of the two has the other as a neighbour
Aware(c, d) ==
  d \in daemon[c].f_all_neighbors \/ c \in daemon[d].f_all_neighbors

\* A daemon never has two remote connections with the same name, whatever
\* connections broke without its noticing (the check in CONNECT).
OneConnectionPerName ==
  \A c \in Computers : \A m, n \in Accepted(c, socket) :
    /\ socket[m].type = "REMOTE"
    /\ socket[n].type = "REMOTE"
    /\ socket[m].from = socket[n].from
    => m = n

\* Once nothing is in transit, both ends agree on a connection: the one that
\* connected was accepted, and the one that accepted is still connected.
EndsAgree ==
  Quiet => \A c, d \in Computers : c < d =>
    /\ daemon[d].f_smaller_ips[c].sock # None => Linked(c, d)
    /\ \A n \in Accepted(c, socket) :
         socket[n].from = d => daemon[d].f_smaller_ips[c].sock = n

\* As long as no connection broke silently, two daemons that run and of which
\* one has heard of the other are connected, or one of them is about to try:
\* no order of stops, crashes and restarts makes both wait for the other.
SomeoneTries ==
  breaks = 0 /\ Quiet => \A c, d \in Computers :
    c < d /\ daemon[c].up /\ daemon[d].up /\ Aware(c, d) =>
      \/ Linked(c, d)
      \/ daemon[d].f_smaller_ips[c].enabled
      \/ daemon[c].f_gossip_ips[d].enabled

\* What comes over a connection was sent by services of the other end.
OwnNames == \A c, d \in Computers : SentFrom[c][d] \subseteq {d}

\* As long as no connection broke silently and nothing is in transit, the
\* services of a computer know no computer that it is not connected to, unless
\* the attempt that finds out is under way, and all those that it is connected
\* to.  The latter only while no daemon passes the messages of another computer
\* on: one that did makes the HANGUP of a lost connection name that computer.
ServicesKnow ==
  breaks = 0 /\ Quiet => \A c, d \in Computers : c < d =>
    /\ d \in daemon[c].services_know => Linked(c, d)
    /\ c \in daemon[d].services_know =>
         Linked(c, d) \/ daemon[d].f_smaller_ips[c].enabled
    /\ OwnNames /\ Linked(c, d) =>
         d \in daemon[c].services_know /\ c \in daemon[d].services_know

\* If connections do not break silently, the daemons end up connected, from
\* neighbours known to one side only and through stops and crashes.
EventuallyLinked ==
  [](breaks = 0) =>
    <>[](\A c, d \in Computers : c < d /\ Aware(c, d) => Linked(c, d))
=============================================================================
