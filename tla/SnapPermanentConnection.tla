---------------------- MODULE SnapPermanentConnection -----------------------
(***************************************************************************)
(* A permanent connection of the event loop                                *)
(* (src/libsnapwebsites/src/snapwebsites/snap_communicator.cpp): a timer   *)
(* that starts a thread (snap_thread.cpp) which connects, a signal, a pipe *)
(* by which the thread says that it is done, and the messenger that reads  *)
(* and writes the socket the thread obtained.                              *)
(*                                                                         *)
(* There are two threads: the one in run(), the event loop, and the one    *)
(* that connects.  The event loop works on a copy of the connections with  *)
(* the events that poll() returned: a connection that was disabled or      *)
(* removed since then is still called.                                     *)
(*                                                                         *)
(* The owner is a service (remote is FALSE), which stops as snaplock and   *)
(* the other daemons do, or snapcommunicator, whose connections to other   *)
(* computers are refused, are woken up by a GOSSIP, and stop in            *)
(* shutdown().                                                             *)
(***************************************************************************)
EXTENDS Naturals, Sequences, SnapSequences

CONSTANTS
  MaxSockets,   \* how many attempts to connect succeed (bound)
  MaxMessages   \* how many messages are sent (bound)

ASSUME PermanentAssumption == MaxSockets \in Nat /\ MaxMessages \in Nat

VARIABLES
  \* snap_communicator
  connections,  \* f_connections, in order
  batch,        \* the events of this iteration of run() that are left
  main,         \* what the event loop does
  \* the permanent connection
  remote,       \* whether snapcommunicator owns it
  owner,        \* whether its owner still has it
  enabled,      \* f_enabled of the timer
  done,         \* f_done of the timer
  f_done,       \* f_done of the implementation
  messenger,    \* f_messenger
  cache,        \* f_message_cache
  \* its thread
  thread,       \* where it is
  f_running,
  f_started,
  tcp,          \* f_tcp_connection of the runner
  pipe,         \* bytes written to the pipe and not read
  \* sockets
  sockets,      \* how many were opened
  output,       \* those of which the messenger has data to write
  refused,      \* those on which a REFUSE arrived
  closed,       \* those that the other side closed
  \* messages
  accepted,     \* the messages that send_message() wrote or kept
  wire,         \* the messages given to a messenger
  sends         \* how many messages were sent

loopVars == <<connections, batch, main>>
ownVars == <<remote, owner, enabled, done, f_done>>
threadVars == <<thread, f_running, f_started, pipe>>
peerVars == <<sockets, refused, closed>>
msgVars == <<cache, accepted, wire, sends>>

vars == <<loopVars, ownVars, messenger, threadVars, tcp, peerVars, output, msgVars>>

\* the connections of the event loop: the timer, the signal of the thread,
\* and a messenger for each socket
Timer == 0
Signal == 1
Sockets == 2..(MaxSockets + 1)
None == 0

Events == {"timeout", "read", "write", "hup"}

TypeOK ==
  /\ connections \in Seq({Timer, Signal} \cup Sockets)
  /\ batch \in Seq([conn : {Timer, Signal} \cup Sockets, event : Events,
                    first : BOOLEAN])
  /\ main \in {"loop", "starting", "joining", "destroying"}
  /\ remote \in BOOLEAN
  /\ owner \in {"has", "left", "gone"}
  /\ enabled \in BOOLEAN
  /\ done \in BOOLEAN
  /\ f_done \in BOOLEAN
  /\ messenger \in {None} \cup Sockets
  /\ thread \in {"none", "created", "connecting", "signalling", "leaving", "exited"}
  /\ f_running \in BOOLEAN
  /\ f_started \in BOOLEAN
  /\ tcp \in {None} \cup Sockets
  /\ pipe \in Nat
  /\ sockets \in 0..MaxSockets
  /\ output \subseteq Sockets
  /\ refused \subseteq Sockets
  /\ closed \subseteq Sockets
  /\ cache \in Seq(Nat)
  /\ accepted \in Seq(Nat)
  /\ wire \in Seq(Nat)
  /\ sends \in 0..MaxMessages

-----------------------------------------------------------------------------
(***************************************************************************)
(* The list of the event loop: add_connection() and remove_connection().   *)
(***************************************************************************)
In(list, x) == \E i \in 1..Len(list) : list[i] = x

\* the new connection comes first
Added_Front(list, x) == IF In(list, x) THEN list ELSE <<x>> \o list

Added(list, x) == IF In(list, x) THEN list ELSE Append(list, x)

Removed(list, X) == Selected(list, {i \in 1..Len(list) : list[i] \notin X})

\* the connections of the list after disconnect(), which also removes X
Disconnected(X) ==
  /\ connections' = Removed(connections, X \cup ({messenger} \ {None}))
  /\ messenger' = None
  /\ tcp' = IF messenger = None THEN tcp ELSE None

(***************************************************************************)
(* What poll() returns: the events of each connection in the order of the  *)
(* list.  The timer may be due whenever it is enabled.                     *)
(***************************************************************************)
Pending(x, due) ==
  IF x = Timer THEN (IF due THEN <<"timeout">> ELSE <<>>)
  ELSE IF x = Signal THEN (IF pipe > 0 THEN <<"read">> ELSE <<>>)
  ELSE (IF x \in refused THEN <<"read">> ELSE <<>>)
       \o (IF x \in output THEN <<"write">> ELSE <<>>)
       \o (IF x \in closed THEN <<"hup">> ELSE <<>>)

Items(x, due) ==
  LET e == Pending(x, due)
  IN  [i \in 1..Len(e) |-> [conn |-> x, event |-> e[i], first |-> i = 1]]

Polled(list, due) ==
  LET upto[n \in 0..Len(list)] ==
        IF n = 0 THEN <<>> ELSE upto[n - 1] \o Items(list[n], due)
  IN  upto[Len(list)]

\* an iteration of run() begins; what the owner dropped is destroyed before
Poll(due) ==
  /\ main = "loop"
  /\ batch = <<>>
  /\ owner # "left"
  /\ due => enabled
  /\ Polled(connections, due) # <<>>
  /\ batch' = Polled(connections, due)
  /\ UNCHANGED <<connections, main, ownVars, messenger, threadVars, tcp,
                 peerVars, output, msgVars>>

Turn(x, event) ==
  /\ main = "loop"
  /\ batch # <<>>
  /\ Head(batch).conn = x
  /\ Head(batch).event = event
  /\ batch' = Tail(batch)

-----------------------------------------------------------------------------
(***************************************************************************)
(* process_timeout() and background_connect().  snap_thread::start()       *)
(* creates the thread and waits until it runs.                             *)
(***************************************************************************)
\* a thread that ended and was not joined is forgotten
CanStart_NotRunning == ~f_running

CanStart == ~f_running /\ ~f_started

process_timeout_Idle ==
  /\ Turn(Timer, "timeout")
  /\ done \/ f_done \/ f_running
  /\ UNCHANGED <<connections, main, ownVars, messenger, threadVars, tcp,
                 peerVars, output, msgVars>>

\* the thread cannot be started
process_timeout_Fail ==
  /\ Turn(Timer, "timeout")
  /\ ~done /\ ~f_done /\ ~f_running
  /\ connections' = Added(connections, Signal)
  /\ UNCHANGED <<main, ownVars, messenger, threadVars, tcp, peerVars, output,
                 msgVars>>

process_timeout_Start ==
  /\ Turn(Timer, "timeout")
  /\ ~done /\ ~f_done /\ ~f_running
  /\ CanStart
  /\ connections' = Added(connections, Signal)
  /\ f_running' = TRUE
  /\ f_started' = FALSE
  /\ thread' = "created"
  /\ main' = "starting"
  /\ UNCHANGED <<ownVars, messenger, pipe, tcp, peerVars, output, msgVars>>

start_Returns ==
  /\ main = "starting"
  /\ f_started
  /\ main' = "loop"
  /\ enabled' = FALSE
  /\ UNCHANGED <<connections, batch, remote, owner, done, f_done, messenger,
                 threadVars, tcp, peerVars, output, msgVars>>

(***************************************************************************)
(* The thread: internal_run() and the run() of the runner, which tries to  *)
(* connect and then writes to the pipe.                                    *)
(***************************************************************************)
internal_run_Started ==
  /\ thread = "created"
  /\ thread' = "connecting"
  /\ f_started' = TRUE
  /\ UNCHANGED <<loopVars, ownVars, messenger, f_running, pipe, tcp, peerVars,
                 output, msgVars>>

connect_Succeeds ==
  /\ thread = "connecting"
  /\ sockets < MaxSockets
  /\ thread' = "signalling"
  /\ sockets' = sockets + 1
  /\ tcp' = sockets + 2
  /\ UNCHANGED <<loopVars, ownVars, messenger, f_running, f_started, pipe,
                 refused, closed, output, msgVars>>

connect_Fails ==
  /\ thread = "connecting"
  /\ thread' = "signalling"
  /\ tcp' = None
  /\ UNCHANGED <<loopVars, ownVars, messenger, f_running, f_started, pipe,
                 peerVars, output, msgVars>>

trigger_thread_done ==
  /\ thread = "signalling"
  /\ thread' = "leaving"
  /\ pipe' = pipe + 1
  /\ UNCHANGED <<loopVars, ownVars, messenger, f_running, f_started, tcp,
                 peerVars, output, msgVars>>

internal_run_Ends ==
  /\ thread = "leaving"
  /\ thread' = "exited"
  /\ f_running' = FALSE
  /\ UNCHANGED <<loopVars, ownVars, messenger, f_started, pipe, tcp, peerVars,
                 output, msgVars>>

(***************************************************************************)
(* thread_done(): the thread is joined, then its socket gets a messenger,  *)
(* which is given the messages that were kept.                             *)
(***************************************************************************)
\* the pipe is read twice
thread_done_Twice ==
  /\ Turn(Signal, "read")
  /\ pipe' = pipe - 2
  /\ connections' = Removed(connections, {Signal})
  /\ main' = "joining"
  /\ UNCHANGED <<ownVars, messenger, thread, f_running, f_started, tcp,
                 peerVars, output, msgVars>>

thread_done ==
  /\ Turn(Signal, "read")
  /\ pipe' = pipe - 1
  /\ connections' = Removed(connections, {Signal})
  /\ main' = "joining"
  /\ UNCHANGED <<ownVars, messenger, thread, f_running, f_started, tcp,
                 peerVars, output, msgVars>>

\* snap_thread::stop() returns
Join(state) ==
  /\ main = state
  /\ (~f_running /\ ~f_started) \/ thread = "exited"
  /\ main' = "loop"
  /\ thread' = "none"
  /\ f_running' = FALSE
  /\ f_started' = FALSE
  /\ UNCHANGED pipe

thread_done_Ignored ==
  /\ Join("joining")
  /\ f_done
  /\ tcp' = None
  /\ UNCHANGED <<connections, batch, ownVars, messenger, peerVars, output, msgVars>>

thread_done_Failed ==
  /\ Join("joining")
  /\ ~f_done
  /\ tcp = None
  /\ enabled' = TRUE
  /\ UNCHANGED <<connections, batch, remote, owner, done, f_done, messenger,
                 tcp, peerVars, output, msgVars>>

\* the messages stay in the cache
Flush_Nothing == UNCHANGED <<cache, wire>>

Flush == cache' = <<>> /\ wire' = wire \o cache

thread_done_Connected ==
  /\ Join("joining")
  /\ ~f_done
  /\ tcp # None
  /\ messenger' = tcp
  /\ tcp' = None
  /\ connections' = Added(connections, tcp)
  /\ output' = IF cache = <<>> THEN output ELSE output \cup {tcp}
  /\ Flush
  /\ enabled' = FALSE
  /\ UNCHANGED <<batch, remote, owner, done, f_done, peerVars, accepted, sends>>

-----------------------------------------------------------------------------
(***************************************************************************)
(* The callbacks of a messenger, which calls the permanent connection.     *)
(***************************************************************************)
\* a REFUSE: too_busy() or shutting_down(), then disconnect(); the first looks
\* for "address:port" among addresses that have no port, so that it finds
\* nothing and the timer stays off
process_message(n) ==
  /\ Turn(n, "read")
  /\ refused' = refused \ {n}
  /\ Disconnected({})
  /\ UNCHANGED <<main, ownVars, threadVars, sockets, closed, output, msgVars>>

\* the permanent connection is not told that the buffer is empty
process_write_Own(n) ==
  /\ Turn(n, "write")
  /\ output' = output \ {n}
  /\ connections' = IF f_done THEN Removed(connections, {n}) ELSE connections
  /\ UNCHANGED <<main, ownVars, messenger, threadVars, tcp, peerVars, msgVars>>

\* process_write() empties the buffer; process_empty_buffer()
process_write(n) ==
  /\ Turn(n, "write")
  /\ output' = output \ {n}
  /\ LET own == IF f_done THEN {n} ELSE {}
     IN  IF done /\ In(connections, Timer)
         THEN Disconnected({Timer} \cup own)
         ELSE /\ connections' = Removed(connections, own)
              /\ UNCHANGED <<messenger, tcp>>
  /\ UNCHANGED <<main, ownVars, threadVars, peerVars, msgVars>>

\* the timer stays off
process_hup_Off(n) ==
  /\ Turn(n, "hup")
  /\ closed' = closed \ {n}
  /\ Disconnected({n} \cup (IF done THEN {Timer} ELSE {}))
  /\ UNCHANGED <<main, ownVars, threadVars, sockets, refused, output, msgVars>>

\* process_hup(), process_error() and process_invalid()
process_hup(n) ==
  /\ Turn(n, "hup")
  /\ closed' = closed \ {n}
  /\ IF done
     THEN /\ IF In(connections, Timer) THEN Disconnected({n, Timer})
             ELSE /\ connections' = Removed(connections, {n})
                  /\ UNCHANGED <<messenger, tcp>>
          /\ UNCHANGED enabled
     ELSE Disconnected({n}) /\ enabled' = TRUE
  /\ UNCHANGED <<main, remote, owner, done, f_done, threadVars, sockets, refused,
                 output, msgVars>>

-----------------------------------------------------------------------------
(***************************************************************************)
(* What the rest of the program does with the connection, in callbacks of  *)
(* other connections: before, between and after those of this one.         *)
(***************************************************************************)
Elsewhere ==
  /\ main = "loop"
  /\ batch # <<>> => Head(batch).first
  /\ owner = "has"
  /\ ~done

Write(m) ==
  /\ wire' = Append(wire, m)
  /\ output' = output \cup {messenger}

send_message(keep) ==
  LET m == sends + 1
  IN  /\ Elsewhere
      /\ sends < MaxMessages
      /\ sends' = m
      /\ accepted' = IF messenger # None \/ keep THEN Append(accepted, m)
                     ELSE accepted
      /\ IF messenger # None THEN Write(m) /\ UNCHANGED cache
         ELSE /\ cache' = IF keep THEN Append(cache, m) ELSE cache
              /\ UNCHANGED <<wire, output>>
      /\ UNCHANGED <<loopVars, ownVars, messenger, threadVars, tcp, peerVars>>

\* add_remote_communicator(), which a GOSSIP calls
gossip ==
  /\ Elsewhere
  /\ remote
  /\ messenger = None
  /\ enabled' = TRUE
  /\ UNCHANGED <<loopVars, remote, owner, done, f_done, messenger, threadVars,
                 tcp, peerVars, output, msgVars>>

\* stop() of a service: a connection that is not up is removed and dropped,
\* and so is one to a snapcommunicator that said it quits
stop_Down(quitting) ==
  /\ Elsewhere
  /\ ~remote
  /\ quitting \/ messenger = None
  /\ Disconnected({Timer})
  /\ owner' = "left"
  /\ UNCHANGED <<batch, main, remote, enabled, done, f_done, threadVars,
                 peerVars, output, msgVars>>

mark_done(all) ==
  /\ done' = TRUE
  /\ f_done' = all
  /\ cache' = IF all THEN <<>> ELSE cache

\* one that is up is marked done and sent a last message
stop_Up(all) ==
  /\ Elsewhere
  /\ ~remote
  /\ messenger # None
  /\ mark_done(all)
  /\ output' = output \cup {messenger}
  /\ UNCHANGED <<loopVars, remote, owner, enabled, messenger, threadVars, tcp,
                 peerVars, accepted, wire, sends>>

\* shutdown() of snapcommunicator, up or not
shutdown ==
  /\ Elsewhere
  /\ remote
  /\ mark_done(TRUE)
  /\ output' = IF messenger = None THEN output ELSE output \cup {messenger}
  /\ UNCHANGED <<loopVars, remote, owner, enabled, messenger, threadVars, tcp,
                 peerVars, accepted, wire, sends>>

(***************************************************************************)
(* The destructor, when the iteration in which the owner dropped the       *)
(* connection ends: the thread is joined, the signal and the messenger are *)
(* removed.                                                                *)
(***************************************************************************)
destroy ==
  /\ main = "loop"
  /\ batch = <<>>
  /\ owner = "left"
  /\ main' = "destroying"
  /\ UNCHANGED <<connections, batch, ownVars, messenger, threadVars, tcp,
                 peerVars, output, msgVars>>

\* the signal stays with the event loop
Destroyed_KeepSignal == {Timer}

Destroyed == {Signal}

destroy_Ends ==
  /\ Join("destroying")
  /\ owner' = "gone"
  /\ Disconnected(Destroyed)
  /\ UNCHANGED <<batch, remote, enabled, done, f_done, peerVars, output, msgVars>>

\* the other side of the socket of the messenger
Alive(n) == In(connections, n) /\ n \in Sockets

peer_Closes(n) ==
  /\ Alive(n)
  /\ closed' = closed \cup {n}
  /\ UNCHANGED <<loopVars, ownVars, messenger, threadVars, tcp, sockets, refused,
                 output, msgVars>>

peer_Refuses(n) ==
  /\ remote
  /\ Alive(n)
  /\ n \notin closed
  /\ refused' = refused \cup {n}
  /\ UNCHANGED <<loopVars, ownVars, messenger, threadVars, tcp, sockets, closed,
                 output, msgVars>>

Init ==
  /\ connections = <<Timer>>
  /\ batch = <<>>
  /\ main = "loop"
  /\ remote \in BOOLEAN
  /\ owner = "has"
  /\ enabled = TRUE
  /\ done = FALSE
  /\ f_done = FALSE
  /\ messenger = None
  /\ thread = "none"
  /\ f_running = FALSE
  /\ f_started = FALSE
  /\ tcp = None
  /\ pipe = 0
  /\ sockets = 0
  /\ output = {}
  /\ refused = {}
  /\ closed = {}
  /\ cache = <<>>
  /\ accepted = <<>>
  /\ wire = <<>>
  /\ sends = 0

Loop ==
  \/ \E due \in BOOLEAN : Poll(due)
  \/ process_timeout_Idle \/ process_timeout_Fail \/ process_timeout_Start
  \/ start_Returns
  \/ thread_done \/ thread_done_Ignored \/ thread_done_Failed
  \/ thread_done_Connected
  \/ \E n \in Sockets : process_message(n) \/ process_write(n) \/ process_hup(n)
  \/ destroy \/ destroy_Ends

Thread ==
  \/ internal_run_Started
  \/ connect_Succeeds \/ connect_Fails
  \/ trigger_thread_done
  \/ internal_run_Ends

Elsewheres ==
  \/ \E keep \in BOOLEAN : send_message(keep)
  \/ gossip
  \/ \E quitting \in BOOLEAN : stop_Down(quitting)
  \/ \E all \in BOOLEAN : stop_Up(all)
  \/ shutdown

Peer == \E n \in Sockets : peer_Closes(n) \/ peer_Refuses(n)

Next == Loop \/ Thread \/ Elsewheres \/ Peer

Spec == Init /\ [][Next]_vars

(***************************************************************************)
(* Fairness: both threads run, a timer that is enabled is due some day, a  *)
(* thread can be created some day and an attempt to connect succeeds some  *)
(* day.                                                                    *)
(***************************************************************************)
Fairness ==
  /\ WF_vars(Loop)
  /\ WF_vars(Thread)
  /\ SF_vars(Poll(TRUE))
  /\ SF_vars(process_timeout_Start)
  /\ SF_vars(connect_Succeeds)

FairSpec == Spec /\ Fairness

-----------------------------------------------------------------------------
(***************************************************************************)
(* While there is a messenger no thread is trying to connect and no second *)
(* messenger is in the event loop: disconnect() then resets                *)
(* f_tcp_connection without a lock, and the callbacks of a messenger that  *)
(* was replaced would disconnect the new one.                              *)
(***************************************************************************)
OneMessenger ==
  /\ messenger # None => thread = "none"
  /\ \A i \in 1..Len(connections) :
       connections[i] \in Sockets => connections[i] = messenger

(***************************************************************************)
(* thread_done() never makes the event loop wait for an attempt to         *)
(* connect: stop() returns "very quickly", as the thread wrote to the pipe *)
(* already.                                                                *)
(***************************************************************************)
QuickStop == main = "joining" => thread \in {"leaving", "exited"}

(***************************************************************************)
(* The messages written and kept are those that send_message() accepted,   *)
(* in the same order: none is dropped or overtaken on its way to a         *)
(* messenger while the connection goes down and comes back, until the      *)
(* connection is marked done.  (What a messenger still had to write when   *)
(* it was disconnected is lost with it.)                                   *)
(***************************************************************************)
CacheInOrder == ~f_done => wire \o cache = accepted

(***************************************************************************)
(* Once the connection is destroyed the event loop has nothing left that   *)
(* points to it, neither in its list nor in the events it still handles.   *)
(***************************************************************************)
NothingDangles == owner = "gone" => connections = <<>> /\ batch = <<>>

(***************************************************************************)
(* A thread is created only once the one before it was joined, and stop()  *)
(* does not return while there is one.                                     *)
(***************************************************************************)
NoThreadLost ==
  [][ /\ thread' # thread /\ thread' = "created" => thread = "none"
      /\ main \in {"joining", "destroying"} /\ main' = "loop"
         => thread \in {"none", "exited"} ]_vars

(***************************************************************************)
(* A connection that is down comes up again, unless it is stopped: thread  *)
(* done, hang up and timeout never leave it with no timer and no thread.   *)
(* It is not so once another computer refused the connection: after the    *)
(* disconnect() of a REFUSE only a GOSSIP enables the timer.               *)
(***************************************************************************)
EventuallyConnected ==
  [](refused = {}) =>
    (messenger = None ~> (messenger # None \/ done \/ owner # "has"
                          \/ sockets = MaxSockets))

(***************************************************************************)
(* After the stop() of a service its connection leaves the event loop, so  *)
(* that run() returns and the process ends.                                *)
(***************************************************************************)
ServiceEnds ==
  ~remote /\ (done \/ owner # "has") ~> connections = <<>>
=============================================================================
