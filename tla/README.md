# Verification of snapwebsites

TLA+ models of snapwebsites, the TLC configurations that check them and TLAPS
proofs about them.  The project covers what the daemons of a cluster rest on:

* the distributed lock: the `snaplock` daemon (`src/snaplock`), its elections, and
  the `snap_lock` class through which the rest of the system uses it;
* `snapcommunicator` (`src/snapcommunicator`): how the daemons of the computers
  find and keep each other, and how messages get from service to service;
* the permanent connection of the `snap_communicator` library
  (`src/libsnapwebsites`) with the event loop and the thread it needs, through
  which every service talks to snapcommunicator and every snapcommunicator to the
  others.

All cross-computer exclusion of the system (creation of websites, content and list
updates, installations by snapmanager) rests on these, and no test of the
repository exercises them.

## The system

snapwebsites is a set of daemons that exchange text messages through
`snapcommunicator`, plus a server that forks one child per page.

| part | state | operations | talks to | hard behaviour |
|---|---|---|---|---|
| snaplock: lock protocol | per object a map of entering tickets, a map of tickets, a timer | LOCK, UNLOCK, the twelve messages between leaders, cleanup() | other leaders, clients | concurrent negotiations, replies in any order, timeouts that differ between leaders |
| snaplock: elections | known computers, leaders, election date, message cache | LOCKSTARTED, LOCKLEADERS, CLUSTERUP/DOWN, STATUS | all snaplock daemons, snapcommunicator | crossing elections, late joiners |
| snaplock: synchronisation | serial numbers, alive timeouts | SERVERGONE, LOCKTICKETS, relock, ABSOLUTELY | surviving leaders | loss of a leader between two steps of a ticket |
| snap_lock client | one connection per lock, lock date, timed out flag | lock(), unlock(), lock_timedout() | local snapcommunicator | late answers, retries, use after the timeout |
| snapcommunicator: cluster | neighbours, permanent connections, accepted connections, cluster status | CONNECT, ACCEPT, REFUSE, DISCONNECT, GOSSIP, hang ups | other snapcommunicators, its services (CLUSTERUP, HANGUP) | half-open connections, restarts, who is to try again |
| snapcommunicator: messages | registered services, cached messages, identifiers of broadcasts | REGISTER, COMMANDS, UNREGISTER, forwarding, broadcast | every service | duplicates over several paths, services that are not there yet |
| snap_communicator library | connections, timers, signals, messengers | run(), process_...(), disconnect() | in every daemon | a list of events that is stale when used, timers that race threads |
| snap_thread | mutex, condition, FIFO, runner | start(), stop(), push, pop | in process | classic thread races |
| snap_child / snapserver, snap_backend | forked children, cron state | fork, wait, PING | database | duplicated work of two backends |
| snapdbproxy / libdbproxy | connections to Cassandra, order cache | orders | Cassandra (external) | status changes while orders are queued |
| snapdatabase | block files, free space, indexes | unfinished engine | files | on-disk invariants |
| snaplistd, snaplog, snapfirewall, snapwatchdog | journals, block lists | messages and timers | MySQL, iptables | retry after the database comes back |
| snapmanager, snapcgi, snapbounce, snapbackup, snapdb, snaplayout, cassview | - | tools and front ends | the above | mostly I/O |
| core plugins | database rows | website features | libdbproxy, snap_lock | sessions, links, list counters |

What makes each part correct.  The lock: at most one thread has it; a grant is not taken back
before its date; a free lock goes to the next in line; a request is answered; a
thread that dies does not keep it for ever; no message makes a daemon or a client
fail.  The elections: computers that accept locks have the same leaders, and
locks become available once all computers are up.  The cluster: two daemons end up
with one connection that both agree on, and services are told the truth about it.
Messages: each service gets each message once, in order, or the message waits for
it.  The permanent connection: one thread, one messenger, no message dropped or
overtaken, a process that ends.  `PROJECT.json` lists every component and, under "hazards", where each of
these is at risk.

## Modules

    SnapLockTicket     the ticket and the tables of one leader (operators)
      SnapLock         leaders, clients and channels (the state machine, properties)
        MCSnapLock     small instances for TLC
        SnapLockProofs     theorems: types and timer
          SnapLockOneLeader  theorems, with one leader: exclusion, one answer,
                             no exception, refinement
    ExclusiveLock      what a user of snap_lock sees (abstract specification)
    SnapLockElection   the snaplock daemons until they have leaders
      MCSnapLockElection
      SnapLockElectionProofs  theorems: types, leaders known, cache replayed,
                              one election one set of leaders
    SnapSequences      the elements of a sequence at some indices (operator)
      SnapSequencesProofs  lemmas on it, and induction on the naturals
    SnapCluster        the snapcommunicator daemons and their connections
      MCSnapCluster
      SnapClusterProofs  theorems: types, one connection, ends that agree
        SnapClusterTries  theorems: someone tries, services know
    SnapMessages       routing and broadcast of messages by connected daemons
      MCSnapMessages
      SnapMessagesProofs  theorems: types, order, no loss
    SnapPermanentConnection  one permanent connection, its thread, the event loop
      MCSnapPermanentConnection
      SnapPermanentConnectionProofs  theorems: types, threads, messengers, list, order

The modules meet at the messages.  SnapLock takes the leaders as known, which is
where SnapLockElection ends; SnapLockElection has of snapcommunicator what it tells
a service (CLUSTERUP, CLUSTERDOWN, HANGUP) and which connections are up, which
SnapCluster has in detail; SnapMessages takes the connections as up; in SnapCluster
an attempt to connect is one step, which SnapPermanentConnection takes apart into
timer, thread, signal and messenger.

**SnapLockTicket** translates `snaplock_ticket.cpp` and the functions of
`snaplock.cpp` that it calls.  The tables of a leader are one *context* record and
each function of the code is an operator from context to context, composed in the
order in which the code makes the calls: `Cleanup(Entering(..))` is a handler that
ends with `cleanup()`.  Both maps of the code hold shared pointers to the same
ticket object, so a ticket is one record in `obj` and the maps are sets of
requests.  The keys of `f_tickets` are strings with the number in hexadecimal
first; `TicketKey` and `KeyLess` keep their order.  `_Something` variants of an
operator are deliberate faults for the mutation checks.

**SnapLock** has one action per message handler (`msg_lock` ... `msg_lock_failed`,
named as in the code), one for the timer, and the steps of a thread: `ClientLock`
(snap_lock::lock up to the LOCK message), `ClientRun` (a message read in `run()`),
`ClientPeek` (`lock_timedout()`), `ClientTimeout`, `ClientUnlock`.

| variable | code |
|---|---|
| `entering`, `tickets`, `obj` | `f_entering_tickets`, `f_tickets` and the objects they point to |
| `timer` | date of `f_timer`, set by every `cleanup()` |
| `up` | FALSE after an uncaught `std::logic_error` (main.cpp catches it and exits) |
| `toLeader`, `toClient`, `fromClient` | messages in transit, FIFO between two services |
| `client` | `lock_connection` of a thread: waiting in `run()`, `f_lock_timeout_date`, `f_lock_timedout` |
| `now` | `time(nullptr)` |

Choices that a reader should know:

* One object: the maps are indexed by the object name first, and no handler
  relates two objects.  The clocks of the computers are taken as synchronised,
  as snaplock requires (dates are sent in messages).
* A computer that is a leader handles its own threads.  The snaplock of any other
  computer is a proxy that forwards LOCK and UNLOCK to the leaders in turn
  (`f_next_leader`, shared by all its users): any leader may be next (`Route`).
  One leader means one computer, so one-leader runs have no proxies.
* A refusal of `msg_lock` is a reply to the sender; if that is a proxy, the proxy
  drops it (`Refuse`).  A proxy that refuses a LOCK because its time is up is not
  told apart from `ClientTimeout`.
* The duration checks of `msg_lock_entering` are left out: leaders send durations
  they clamped, which always pass.
* A ticket created again for the same entering key (`LockEntering`) keeps the
  first object, as the code does.
* Messages are delivered exactly once and in order between two services (a TCP
  connection through snapcommunicator).  Loss belongs to the loss of a leader.
* A thread that holds an object does not lock it again, and forked children that
  call `unlock()` change nothing: both are no-ops of the code.

**ExclusiveLock** is the lock as `snap_lock.h` describes it: ask, be granted a
free lock, be refused, release, expire.  `SnapLock` maps each connection to one of
idle, waiting, held, over (`Seen`).

**SnapLockElection** has the daemon of each computer as a record `node[c]` (the
fields of `class snaplock` that elections use), and each function of the code as an
operator on that record, to which `Run` adds what the handler sends.  `Receive`
is the dispatcher: it applies the whole handler, with every `election_status()`,
`check_lock_status()` and `send_lockstarted()` it calls.  `is_ready()` is not pure
in the code: it sends LOCKSTARTED to a leader it has no connection with, at most
every five seconds (`AfterIsReady`, `Pace`).

| variable | code |
|---|---|
| `node[c].computers`, `leaders`, `election_date` | `f_computers`, `f_leaders`, `f_election_date` |
| `node[c].lock_status`, `message_cache` | `f_lock_status`, `f_message_cache` |
| `net` | messages between two snaplock, and from a snapcommunicator to its own |
| `links`, `f_connected`, `cluster` | the connections and `f_cluster_status` of the snapcommunicators |
| `clock` | the dates of elections and of starts, all different |
| `request` | what became of a LOCK of a local user |

The id of a computer is `priority|random|ip|pid|name`; priority, random part and
address are kept as they order the candidates.  In `msg_server_gone()` the
iterator is dereferenced after it was erased; the model has the outcome that the
build produces, the pointer that is still in the freed node.

Two simplifications of dates.  The date of an election is in microseconds
(`snaplock.cpp:1551`), so that two elections have different dates.  A start time is
in seconds (`time(nullptr)`), and a daemon that starts twice in the same second
keeps it: the model excludes this.  With it the LOCKSTARTED of the second start is
not answered, as the start time is no other one (`snaplock.cpp:1778`), and
`QuietReady` fails: the daemon never learns the leaders.

`ConnectionFailed` is the HANGUP of the side that connects.  It carries
`f_server_name` of `remote_snap_communicator` (`snapcommunicator.cpp:921`), which
shadows that of its base and is set to the sender of the first message of a service
that comes over the connection (lines 5358-5361): before there is one nothing is
sent, and it may name a computer whose message was passed on.  So the action may
name any computer, and it may never be taken.

**SnapCluster** has the daemons, the TCP connections between them as two ends that
close separately, and a queue per direction.  A connection may break silently
(`Break`), after which what was in transit is lost and each end finds out in its
own time (`Notice`).  `Stop` and `Crash` end a daemon; `neighbors.txt` survives.
`count_live_connections()` counts permanent connections that are not connected, as
the code does, and `process_hup()` of an accepted connection does not change
`f_cluster_status`: `cluster_status()` is called with the connection that just went
down as the one to answer.  The HANGUP of a permanent connection names the computer
of which the first message came over it (`f_server_name`, see above): `SentFrom[c][d]`
are the computers whose messages `d` passes on to `c`.  `OwnNames` says that each
daemon only passes on messages of its own computer.  It holds with two computers;
with three or more, a daemon that passes on the broadcast of another one can make the
HANGUP name that one, and the services then go on to know the one that was lost.
`Stop` is `shutdown()` up to the end of the process; that `run()` may not return
is described below.

**SnapMessages** has `process_message()` for messages to services, the cache, and
`broadcast_message()` with its two halves.  A message is a number, what the code
reads of it is given by the constants `From`, `Server`, `Service`, and, of its
`cache` parameter, `NotCached` (cache=no) and `CacheTTL` (ttl, or the default).  A
message in the cache has its own time limit, so that a later one may be given up
before an earlier one.  `due` is a
history variable: the services that have been there since a broadcast was sent.
The addresses are IPv4 unless `IPv6` is set.

**SnapPermanentConnection** has two threads.  The event loop takes a copy of the
list of connections, asks `poll()` and calls them one after the other (`Poll`,
`Turn`): `batch` is what is left of that, and `first` says that other connections
may be called before an event (`Elsewhere`).  The thread that connects is
`created`, `connecting`, `signalling`, `leaving` and `exited`, between the steps of
`internal_run()` and `runner::run()`.

| variable | code |
|---|---|
| `connections` | `f_connections`: the timer, the signal `f_thread_done`, messengers |
| `enabled`, `done`, `f_done` | `f_enabled` and `f_done` of the timer, `f_done` of the implementation |
| `messenger`, `cache` | `f_messenger`, `f_message_cache` |
| `thread`, `f_running`, `f_started` | the thread and the flags of `snap_thread` |
| `tcp`, `pipe` | `f_tcp_connection` of the runner, the bytes in the pipe of the signal |
| `refused`, `closed`, `output` | what `poll()` finds on the socket of a messenger |
| `main`, `owner` | where the event loop is (it waits in `start()` and `stop()`), and whether the connection is still owned |

The list keeps the order in which connections were added, since the sort is stable
and no permanent connection has a priority above that of its signal.

## What is checked

Constants of SnapLock: durations are small numbers in place of seconds, `MaxTime` ends the
clock, `MaxRequests` bounds the retries, `MaxTicket` = 100 is never reached.
`CHECK_DEADLOCK FALSE` everywhere: when all requests are done the system rests.

| run | instance | shows |
|---|---|---|
| two_leaders | 2 leaders, 2 threads, one on a leader's computer and one behind a proxy, 2 requests each, clock stopped, fairness | types, exclusion, order of numbers, tables that agree when quiet, next one activated, nobody waits for a ticket that is gone; every request of the thread that asks its own leader is served |
| two_leaders_time | 2 leaders, 2 threads behind proxies, 1 request each, clock to 3, fairness | grants stand, and the threads see `ExclusiveLock` while timeouts interleave with the negotiation; every ticket goes at its timeout, also after the thread gave up |
| one_leader | 1 leader, 2 threads, 2 requests each, clock to 5, fairness | no connection throws, across timeouts, the grace period and retries, and every ticket goes (exclusion is proved for one leader) |
| three_leaders | 3 leaders, 1 thread, 2 requests, clock stopped | late second replies are harmless |
| election | 2 computers, 2 random ids, 1 LOCK, 2 faults (crashes or hang ups) | leaders are known computers; without a hang up same election means same leaders, all agree once quiet, locks are available, no LOCK stays behind |
| cluster | 2 computers, the smaller one has the other as neighbour, 3 faults (stops, crashes, silent breaks), 7 sockets, fairness | one connection per name, both ends agree once quiet; without silent breaks one of the two always tries, the services know, and the daemons end up connected |
| messages | 4 daemons in a ring, the service on 4, a broadcast of 1 and three messages of 2 to 4 (default time in the cache, a longer one, cache=no), 1 restart of a service or daemon, clock to 1 | broadcasts and messages to a computer delivered once, in order, nothing lost within the time limits, broadcasts reach all |
| permanent | 3 successful connections, 3 messages, both kinds of owner, fairness | one messenger and one thread, no wait for an attempt to connect, order of messages, nothing left behind a destroyed connection; it comes up again, a service ends |

Two threads are enough for exclusion and hand-over (the third only queues behind),
two requests per thread make the second meet what is left of the first, and two
leaders already make every negotiation distributed.  The clock is stopped where
the question is about interleavings only, which lets every interleaving be
explored with retries; the timed runs have fewer requests.  Durations and
obtention timeouts overlap so that tickets expire while entering, while waiting,
while locked, and in the grace period.

*election*: two computers are enough for elections that cross, since either may
have the smaller id and only the smaller address elects; two faults let one daemon
restart while the other notices, and let a link break and come back.  Two random
ids make the order of the ids change with a restart.  Three computers and no fault
are what run election_lost needs.  `SameElection` is in addition proved for any
number of computers.  *two_leaders*: a request of a thread behind a proxy may not be
served, when the proxy hands it to a leader that still has the thread's last ticket:
the refusal is lost.  So the premise `Home[c] # NoLeader` of `EveryRequestServed`, and
an instance with one thread of each kind, in which the other's proxy can choose
either leader.  *cluster*: a break, the stop of one side and
that of the other fit in three faults, and sockets are reused, seven being more than
are ever open at once.  `f_max_connections` (100) is not reached; the answer to one
connection too many is the same REFUSE that `SameName` gives.  *messages*: a ring of
four is the smallest graph with two paths of the same length; MaxHops is 5 as in the
code.  BroadcastTTL is 0, so that the clock reaches the last second of a broadcast,
in which its identifier must be kept, and the one after it, in which copies are
dropped; one message has a time of 0 in the cache and one of 1.  `NothingLost` is
thereby about the second in which a message is sent; it is proved for all limits.
`BroadcastReaches` is about clusters with no more computers than hops; run hops has
a larger one.  *permanent*: with three sockets a messenger can be replaced, hang up, and be replaced again while the list of events is stale; three
messages are one kept, one written, one kept again.

Runs that are expected to fail; each refutes a sentence of the repository:

| run | what the trace shows |
|---|---|
| three_leaders_exclusion | two threads with `is_locked()` true: an owner goes on after one reply of two, and the third leader activates a ticket that the owner of the locked one had not seen |
| election_lost | three computers, no fault: the daemon of 3 gets CLUSTERUP for connections that are not up yet, its LOCKSTARTED goes nowhere and is never repeated; 1 and 2 know each other, nobody knows 3, and no leaders are elected although all is connected |
| any_server | four daemons in a ring, a message of 1 to the service "lock" of any computer, which only 4 has: 4 gets it from 2 and from 3 and gives it to the service twice; `process_message()` looks for the identifier, but only `broadcast_message()` records it, which is not called for a message given to a local service ("one we already received we must ignore the message altogether", `snapcommunicator.cpp:2496`) |
| hops | eight daemons, links 1-2-5, 1-3-4-6-7-5 and 5-8, the five hops of the code: the copy that took the long way to 5 is first, has no hop left, and leaves its identifier; the copy that comes from 2 is dropped as received, and 8, three connections from 1, gets nothing ("give message 10 seconds to arrive to any and all destinations", line 4379) |

Other disagreements were met while modelling; they have no run of their own, and
bound what the properties say:

* After UNLOCK on a single computer nobody activates the next ticket:
  `msg_unlock()` leaves that to the DROPTICKET handlers of other leaders
  (`snaplock.cpp:2703`; the comment of `activate_first_lock()`, line 3540, says the
  function is called whenever the map changes).  `FirstIsLocked` is checked with
  two leaders.
* An UNLOCK that arrives after the thread asked again drops the new ticket
  (`snaplock.cpp:2701`), and with two leaders its connection throws on an UNLOCKED
  before its LOCKED.  `NeverThrows` is checked with one leader.
* A retry through another leader while the first request is entering gives a ticket
  two numbers, on which the daemon ends with a `std::logic_error`
  (`snaplock.cpp:3236`).  `NoLogicError` is checked without timeouts.
* With three leaders and time, the LOCKFAILED of the third leader destroys a ticket
  that was locked (`snaplock.cpp:3501`).  `GrantStands` is checked with time for two
  leaders and without for three.
* An entering ticket that expires is erased without `remove_entering()`; the ticket
  that waits for it is never ready (`snaplock.cpp:4004`).  `WaitsForSomeone` is
  checked with the clock stopped.
* With three leaders the lock can be released through the leader that has not
  received ADDTICKET yet: the UNLOCK is lost and the tables differ until the timeout.
* `msg_lock_activated()` changes a ticket's timeout without `cleanup()`, so the timer
  may be set for a later date than the first timeout.
* After a hang up (`hangups > 0`) the daemons may keep different leaders for good,
  stay without leaders, or keep a LOCK although they are ready: the side that
  connected does not notice until its next attempt, and LOCKLEADERS is accepted
  without comparing dates (`snaplock.cpp:1653`).  `QuietAgreement`, `CacheReplayed`
  and `QuietReady` are about clusters in which daemons restart and connections stay.
* A REFUSE or DISCONNECT is to be followed by another attempt ("we are responsible
  to try again later", `snapcommunicator.cpp:3437`), but `too_busy()` and
  `shutting_down()` get `address:port` and look it up among addresses
  (lines 1344-1375, the keys are made at 1172): no timer is enabled.  After a stop it
  is the GOSSIP of the daemon that starts again that wakes up the connection; after a
  silent break a daemon whose new CONNECT was refused, as its old connection was
  still there, stays disconnected, and so does one that is refused for too many
  connections.  Hence `breaks = 0` and the limit of 100 in SnapCluster, and the
  premise of `EventuallyConnected`.
* `shutdown()` marks a permanent connection that is not connected as done
  (`snapcommunicator.cpp:5156`), which stops its timer from doing anything, and
  nothing removes it: `run()` does not return.  `ServiceEnds` is about services.
* With IPv6 a daemon writes its own address with brackets and never finds it in the
  list of informed neighbours (`snapcommunicator.cpp:4339`): a broadcast comes back
  to its sender ("no need for others to send it back to us", line 4343), which
  delivers it again.  Hence the premise `~IPv6` of `DeliveredOnce`.
* `g_broadcast_sequence` restarts at zero (line 171), so the first messages after a
  restart may be taken for older ones: `NothingLost` and `BroadcastReaches` leave
  restarted daemons out.
* `msg_server_gone()` drops a leader that is lost and keeps the date of the election
  (`snaplock.cpp:2084-2104`), and CLUSTERDOWN drops all leaders and keeps it, too
  (line 1390): with four or more computers one can be ready with two leaders while
  others have three of the same election.  `SameElection` is about clusters that
  neither disturbs (`Undisturbed`).
* `f_failures < std::numeric_limits<int>::min()` (line 5396) is never true, so the
  count of failures stays at 1 and the flag for 20 failed attempts is never raised.

**Fairness** of SnapLock (`FairSpec`): each daemon is an event loop that reads its sockets and
runs its timers, so a message at the head of a channel to a running leader is
handled and a timer that is due fires; a thread in `run()` reads its socket and
its timeout; time passes.  That a thread releases a lock it was granted is an
assumption on the users: the destructor does it.  A request that is never made
again violates nothing: `ClientLock` is not fair.  SnapCluster: a daemon that
stopped is started again (systemd), handles what arrives, its timers fire, and TCP
finds out that a connection is broken; nothing is said about stops, crashes and
breaks.  SnapPermanentConnection: both threads run, a timer that is enabled is due
some day, and, as creation of a thread and connection may fail any number of
times, they succeed some day (strong fairness); for these three the other outcome
stays possible at every attempt.  SnapLockElection and SnapMessages are checked
for safety only: `QuietReady` and `BroadcastReaches` say what must have happened by
the time nothing is in transit, which needs no fairness.

**Mutants**: every property of a passing run fails under one of the faulty
variants (a missing increment, a forgotten broadcast, last instead of first...).

## What is proved

`SnapLockProofs`, for any set of threads, one to three leaders and any bounds:

* `TypeCorrect`: `Spec => []TypeOK`
* `TimerAlwaysArmed`: `Spec => []TimerArmed`; a leader with a ticket in a map has
  its timer set; no run checks it
  (`TicketsExpire`, which depends on it, is what the runs check).

The assumptions are those named in the modules: finitely many leaders and threads,
`SNAP_UNLOCK_MINIMUM_TIMEOUT <= SNAP_MAXIMUM_TIMEOUT`, parameters that are numbers.

The inductive invariant is `IInv == TypeOK /\ TimerArmed`.  The types are needed
because `cleanup()` computes the timer as a minimum of dates, which is a date only
if every ticket has dates; and `TypeOK` has to say that a connection that is in
use has a request number, else a message read would be one of no request.
`TimerArmed` is not preserved function by function: `SetTicket` and the
constructor add to a map while the timer may be off.  `ArmedContext` is what holds
between handlers; a helper that leaves maps and timer alone keeps it (`SameMaps`),
`Cleanup` establishes it from any context (`CleanupArmed`), and the handlers that
return without `cleanup()` only move a ticket that was already entering, for which
the timer was armed (`SetTicketArmed`).

`SnapLockOneLeader`, for one leader (`OneLeader`) and any number of threads,
requests and timeouts, in the form `Spec /\ []NumbersLeft => []P`:

* `OneLeaderExclusion`: P is `MutualExclusion`
* `OneLeaderGrantBacked`: P is `HeldIsLocked`
* `OneLeaderLockedIsFirst`: P is `LockedIsFirst`

`NumbersLeft` says that no ticket in place has the number `MaxTicket`
(UINT32_MAX): the code increments a 32 bit number and does not check it, and a
number that wraps to zero does sort before the locked ticket.  With three leaders
exclusion is false (run three_leaders_exclusion); with two it is only
model-checked.

None of the three is inductive.  `LockInv` adds what is in transit: a LOCKED that
was not read yet is backed by a locked ticket as long as its date is not over
(`Good`); the LOCK of the current request is the last message its thread sent
(`LastSent`), so an UNLOCK that is handled late cannot meet a granted request; the
leader knows nothing of a request whose LOCK is still queued or was not sent
(`Unhandled`, `Future`); keys and numbers are the same (`Numbered`).  The functions
of the code are shown one by one to keep this (`Kept(c, d, E, X)`: from context c
to context d all grants stay except those of the requests X, and nothing happens to
requests the leader does not know except those of E), `Kept` composes, and a
handler is kept as the composition of what it calls: `LockKept` with E the new
request, `UnlockKept` with X the requests of the thread, `CleanupKept` with neither.
`HandlerInv` then carries a kept context to the next state.

The second part of `SnapLockOneLeader`, under the same hypotheses (one leader,
`[]NumbersLeft`):

* `OneLeaderGrantStands`: `[]GrantStands`
* `OneLeaderNeverThrows`: `[]NeverThrows`
* `OneLeaderRefinement`: `ImplementsExclusiveLock`, that is `ExclusiveLock!Spec`
  under the mapping `Seen`.

The inductive invariant adds `AnswersInv` to `LockInv`: at most one LOCKED or
LOCKFAILED of a request is in transit, and none once the thread read one (`Told`);
a request that was answered and is still in a map is locked or failed, so that
neither `activate_first_lock()` nor `cleanup()` answers it again (`Settled`); for
a thread that waits an UNLOCKED only comes behind its LOCKED (`Order`).  As with
`Kept`, each function of the code is shown to be `Steady(c, d, J, K)` and handlers
are compositions.  In the refinement, reading a LOCKED in time is `Grant`, and the
lock is free because the next state has `MutualExclusion`; a tick of the clock is
`Expire` of the one thread that has the lock, if its date is over, or not seen; a
thread whose lock is over does not get it back for want of a second LOCKED
(`GrantStands`).

`SnapPermanentConnectionProofs`, for any `MaxSockets` and `MaxMessages`:

* `PermanentTypes`: `Spec => []TypeOK`
* `ThreadsJoined`: `Spec => NoThreadLost`, a thread is created only when the one
  before it was joined, and `stop()` does not return while one runs;
* `MessagesInOrder`: `Spec => []CacheInOrder`
* `OneMessengerAtATime`: `Spec => []OneMessenger`
* `StopIsQuick`: `Spec => []QuickStop`
* `NothingLeftBehind`: `Spec => []NothingDangles`

`ThreadsJoined` needs `ThreadFlags`: `f_running` and `f_started` say exactly where
the thread is, also in the window in which it has cleared `f_running` and was not
joined (which is where `start()` would go wrong without `f_started`).
`MessagesInOrder` needs `MessagesInv`: nothing is kept while there is a messenger,
so that a message written directly cannot overtake one in the cache.  The others
rest on `LoopInv`, which relates the list of connections, the events of `poll()`
that are left and the thread: the timer is first in the list, the signal is there
once, and a socket in the list is that of the messenger (`ListInv`); what is left
of the events is the timer, the signal, both in this order, or events of one
socket, and an event of the signal means a thread that is done (`BatchInv`), since
the sockets and the thread exclude each other; the byte is in the pipe exactly from
the moment the thread is done until `thread_done()` reads it (`PipeInv`), which is
why `stop()` does not wait for `connect()`; the timer is off while there is a
messenger (`MessengerInv`); after the destructor the list and the events are empty
(`GoneInv`).

`SnapMessagesProofs`, for any graph of computers, services, messages and limits:

* `MessageTypes`: `Spec => []TypeOK`
* `MessagesInOrder`: `Spec => []DirectedInOrder`
* `MessagesNotLost`: `Spec => []NothingLost`

`InOrder` looks at two messages of one sender to one service wherever they are: in
what the service received, in the cache, or between the daemons, the earlier one is
never behind the later one (`OrderInv`).  It needs that a message is sent once and
found nowhere before (`OnceInv`, `SentInv`), travels to its computer only
(`RouteInv`), and is cached only while its service is not registered (`RegInv`), so
that no message passes those that wait.  `MessagesNotLost` needs in addition
`IdsInv`: the sequence of a daemon that did not restart is beyond all its
identifiers, these identify a message, and that of a message to one service is
recorded nowhere before it arrives, so it is not taken for a duplicate; and
`LimitInv`: the time limits in transit and in the cache count from the date of
sending.  `LostInv` says that the message is then in one of these places.

`SnapClusterProofs`, for any computers, neighbours and limits:

* `ClusterTypes`: `Spec => []TypeOK`
* `OneConnection`: `Spec => []OneConnectionPerName`
* `BothEndsAgree`: `Spec => []EndsAgree`

`ClusterInv` follows a connection from the first attempt on.  `TransitInv`: what is
in transit goes to an end that is open; SYN, CONNECT and GOSSIP come from the end
that connected, the answers from the other; nothing follows a FIN, and its sender
has closed.  `SocketInv`: an end that was not accepted yet has its SYN in transit,
a REMOTE connection has a name, and a name is that of a larger address.
`NameInv`: a daemon has one open connection with a name.  `DaemonInv`: a permanent
connection that is not known is not used.  `LinkInv`: a permanent connection has a
socket exactly if the connecting end of that socket is open.  `ExchangeInv`: as
long as the connecting end is open and the connection not broken, CONNECT, REFUSE,
FIN or, with the other end REMOTE, ACCEPT is in transit, or both ends agree; it is this disjunction that
makes `EndsAgree` inductive, since each handler takes one disjunct to the next.

`SnapClusterTries`, for any computers, neighbours and limits:

* `AlwaysTries`: `Spec /\ []RoomLeft => []SomeoneTries`
* `ServicesAlwaysKnow`: `Spec /\ []RoomLeft => []ServicesKnow`
* `RoomForAll`: `Spec => [](SomeoneTries /\ ServicesKnow)`, if
  `Cardinality(Computers) + MaxSockets < f_max_connections`

`RoomLeft` says that no daemon has as many connections as it accepts; `RoomForAll`
derives it from the constants by counting computers and sockets.  The hypothesis is
needed: with three computers and a limit of two (the connection that asks counts),
the daemon of 1 accepts 2 and refuses 3, which closes its connection and is left
without a timer (`snapcommunicator.cpp:3436`).

Both properties are about states at rest, and what makes them true happened before;
the invariant `TriesInv` therefore describes, for each pair c < d, what is under way
as long as no connection broke.  `QueuesOK`: no CONNECT or GOSSIP is twice in transit
on a connection and no REFUSE is, since a CONNECT of d is in its queue after the end
of each connection that was open before it (`Alone`), so that c does not find the
name in use.  `KnowsOK`: c's services know d only if c has an accepted connection of
d, and always then while `OwnNames` holds; d's services know c only while d has a
socket or its timer is enabled.  `TriesOK`: if d is told that c stops (`Dropped`), or its connection waits
for nothing, then c has d as a neighbour and, when it runs, asks d to connect by a
GOSSIP that d reads after the DISCONNECT (`Asks`); and as long as c has heard of d
and d not of c, c has yet to tell it (`Tells`).  They need each other: what leaves d
idle is a REFUSE, which `QueuesOK` and `RoomLeft` exclude, or a DISCONNECT, for which
`KnowsOK` gives that c has d as a neighbour.  `ListInv` (a daemon that runs has a
permanent connection to each smaller neighbour) and `PlainInv` (an end with a name
was accepted) complete it.

`SnapLockElectionProofs`, for any computers, priorities, random ids, LOCK messages
and number of crashes and hang ups:

* `ElectionTypes`: `Spec => []TypeOK`
* `LeadersAlwaysKnown`: `Spec => []LeadersKnown`
* `NoLockLeftBehind`: `Spec => []CacheReplayed`
* `OneElectionOneSetOfLeaders`: `Spec => SameElection`, that is
  `[]Undisturbed => []SameLeaders`

The first two rest on `ElectionInv`: types; messages that name each leader once
(`LetterInv`), since a daemon takes over the leaders of a message as they are; and
leaders that are different and known (`KnownInv`).  That the election finds its
leaders is a lemma of its own (`Ranks`): candidates are compared by priority, random
part and address, which have a least triple, and no two addresses are equal, so the
first, second and third candidate exist and differ.

`NoLockLeftBehind` rests on `SteadyInv`, about states in which no connection broke
so far.  There a daemon knows of zero or all neighbours, and daemons and messages
have no leaders or as many as an election makes (all computers, three at most);
a daemon is connected to itself, and no HANGUP is in transit; LOCKREADY means that
`is_ready()` says yes and that the cache is empty (`Replayed`).  Handlers that end
in `check_lock_status()` establish `Replayed`.  `election_status()` may return
without it: when it has no leaders, and then the status was NOLOCK before, as a
later election without leaders is never announced (`SteadyLetter`); and before the
first CLUSTERUP with fewer than three leaders, and then the two computers of the
message are all there are, both known and connected (`OnlyTwo`).  Without the
restriction to no hang up the argument fails: `msg_server_gone()` of a computer
that is not a leader changes what `is_ready()` answers and leaves the status alone.

`OneElectionOneSetOfLeaders` is about what a date stands for: the leaders that come
with it in a daemon and in every LOCKSTARTED and LOCKLEADERS in transit.  The
invariant says that there is a *history of elections* E, a function from the dates
so far to the leaders that were elected, which explains all of these: a daemon with
leaders has those of its date (`NodeAgrees`), and so has a message (`LetterAgrees`).
An election extends E at a new date, as the clock is beyond all others; every
other handler keeps E, and takes a date together with its leaders from a message
or leaves both alone (`GoesOn`, for each function of the code).  `Undisturbed` is what excludes a daemon that changes
its leaders and keeps the date (SERVERGONE, CLUSTERDOWN).

`SnapSequencesProofs` has what several of these modules share: `Selected` (the
elements at some indices) is a recursive function, whose properties are obtained
from a least counterexample (`LeastNatural`) since induction theorems with a
predicate as parameter are out of reach; `SetInduction` is induction on the
naturals for a set of them in place of a predicate.

Only model-checked, and why:

* exclusion and refinement with two leaders, `TablesAgree`, `FirstIsLocked`,
  `WaitsForSomeone` and `NoLogicError`: about negotiations of several leaders, for
  which the invariant has to describe every reply in transit; the last four are in
  addition about instances without time;
* `QuietAgreement` and `QuietReady`: what is true of two computers at rest depends on
  every message between them on the way there, and `QuietReady` fails for three (run
  `election_lost`);
* `DeliveredOnce` and `BroadcastReaches`: over several paths they depend on all copies
  of a message and on the graph.  Both are restricted to what the code does for every
  graph: broadcasts and messages that name a computer, and clusters with no more
  computers than hops (runs any_server and hops show the rest);
* `EveryRequestServed`, `TicketsExpire`, `EventuallyLinked`, `EventuallyConnected`,
  `ServiceEnds`: liveness under fairness is out of the prover's reach.

## Not modelled

* The loss of a leader while there are tickets: `synchronize_leaders()`,
  LOCKTICKETS, relocking by serial, ABSOLUTELY and ALIVE.  It is the product of
  SnapLock and SnapLockElection, far beyond what TLC explores, and
  `synchronize_leaders()` reads an iterator after incrementing it
  (`snaplock.cpp:3733`), possibly past the end of the map.
* Of snaplock: `LISTTICKETS`, the command line tool and debug output; of
  snapcommunicator: LOADAVG, the lists of services heard of, UDP, LISTENLOADAVG,
  STATUS and the signals; of the library: the connections other than the permanent
  one, the dispatcher, the FIFO of snap_thread.
* The other daemons, the server and the plugins, as listed in `PROJECT.json`: pages
  and database rows, one process at a time, over databases that are not part of the
  repository.  They are by far the larger part of its lines.

## Plan

1. *Done*: SnapLockTicket, SnapLock, ExclusiveLock; types, the timer and exclusion
   with one leader proved.
2. *Done*: SnapLockElection, SnapCluster, SnapMessages, SnapPermanentConnection;
   joined threads and order of messages proved.
3. *Done*: the refinement with one leader; types and list of connections of
   SnapPermanentConnection; types, order and no loss of SnapMessages; types, one
   connection per name, agreement of the ends, `SomeoneTries` and `ServicesKnow` of
   SnapCluster; types, known leaders and the replay of the cache of SnapLockElection.
4. Proofs: exclusion with two leaders.
5. SnapLockSync, if a small enough instance can be found.
