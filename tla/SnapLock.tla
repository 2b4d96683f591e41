------------------------------ MODULE SnapLock ------------------------------
(***************************************************************************)
(* The distributed lock of snapwebsites: the message handlers of the       *)
(* snaplock leaders (src/snaplock/src/snaplock.cpp) and the lock_connection *)
(* of the threads that use them (libsnapwebsites snap_lock.cpp), around a   *)
(* network of FIFO channels.                                               *)
(*                                                                         *)
(* The leaders are elected and stay up; elections and the loss of a leader *)
(* are separate components.                                                *)
(***************************************************************************)
EXTENDS SnapLockTicket

CONSTANTS
  Home,             \* Home[c]: the leader on c's computer, or NoLeader
  NoLeader,         \* c's computer is not a leader: its snaplock is a proxy
  MaxTime,          \* the clock stops there (bound)
  Obtentions,       \* the lock_obtention_timeout a caller may pass
  Durations,        \* the lock_duration a caller may pass
  UnlockDurations   \* the unlock_duration a caller may pass

ASSUME HomeAssumption ==
  /\ NoLeader \notin Leaders
  /\ Home \in [Clients -> Leaders \cup {NoLeader}]

ASSUME ParametersAssumption ==
  /\ MaxTime \in Nat
  /\ Obtentions \subseteq Nat
  /\ Durations \subseteq Nat
  /\ UnlockDurations \subseteq Nat \cup {SNAP_UNLOCK_USES_LOCK_TIMEOUT}

VARIABLES
  entering,     \* f_entering_tickets of each leader
  tickets,      \* f_tickets of each leader
  obj,          \* the snaplock_ticket objects of each leader
  timer,        \* f_timer of each leader
  up,           \* the leader did not die of a std::logic_error
  toLeader,     \* toLeader[s][d]: messages from leader s to leader d
  toClient,     \* toClient[l][i]: messages from leader l to connection i
  fromClient,   \* fromClient[c][l]: LOCK and UNLOCK of thread c to leader l
  client,       \* the lock_connection of each thread
  now           \* time(nullptr), on synchronized clocks

tables == <<entering, tickets, obj, timer, up>>
vars == <<entering, tickets, obj, timer, up, toLeader, toClient,
          fromClient, client, now>>

(***************************************************************************)
(* A thread has no connection or is done with it ("idle"), waits in run()  *)
(* ("waiting"), or run() returned with a LOCKED ("held").  date is         *)
(* f_lock_timeout_date, zero when there is no lock.                        *)
(***************************************************************************)
Client ==
  [ phase     : {"idle", "waiting", "held"},
    n         : 0..MaxRequests,
    obtention : Nat,
    date      : Nat,
    timedout  : BOOLEAN,
    threw     : BOOLEAN ]

Request(c) == <<c, client[c].n>>

RequestMessage ==
       [ cmd : {"LOCK"}, req : Requests, timeout : Nat,
         duration : Nat,
         unlock_duration : Nat \cup {SNAP_UNLOCK_USES_LOCK_TIMEOUT} ]
  \cup [ cmd : {"UNLOCK"} ]

TypeOK ==
  /\ entering \in [Leaders -> SUBSET Requests]
  /\ tickets \in [Leaders -> SUBSET Requests]
  /\ obj \in [Leaders -> [Requests -> Ticket]]
  /\ timer \in [Leaders -> Nat \cup {Off}]
  /\ up \in [Leaders -> BOOLEAN]
  /\ toLeader \in [Leaders -> [Leaders -> Seq(LeaderMessage)]]
  /\ toClient \in [Leaders -> [Requests -> Seq(ClientMessage)]]
  /\ fromClient \in [Clients -> [Leaders -> Seq(RequestMessage)]]
  /\ client \in [Clients -> Client]
  /\ \A c \in Clients : client[c].phase # "idle" => client[c].n > 0
  /\ now \in Nat

Init ==
  /\ entering = [l \in Leaders |-> {}]
  /\ tickets = [l \in Leaders |-> {}]
  /\ obj = [l \in Leaders |-> [i \in Requests |-> NewTicket(l, 0, 0, 0)]]
  /\ timer = [l \in Leaders |-> Off]
  /\ up = [l \in Leaders |-> TRUE]
  /\ toLeader = [l \in Leaders |-> [d \in Leaders |-> <<>>]]
  /\ toClient = [l \in Leaders |-> [i \in Requests |-> <<>>]]
  /\ fromClient = [c \in Clients |-> [l \in Leaders |-> <<>>]]
  /\ client = [c \in Clients |->
                 [ phase |-> "idle", n |-> 0, obtention |-> 0, date |-> 0,
                   timedout |-> FALSE, threw |-> FALSE ]]
  /\ now = 0

-----------------------------------------------------------------------------
(* What a leader sees while it handles one message.                        *)

Context(l) ==
  [ self     |-> l,
    now      |-> now,
    entering |-> entering[l],
    tickets  |-> tickets[l],
    obj      |-> obj[l],
    timer    |-> timer[l],
    up       |-> up[l],
    toLeader |-> toLeader[l],
    toClient |-> toClient[l] ]

Becomes(l, c) ==
  /\ entering' = [entering EXCEPT ![l] = c.entering]
  /\ tickets' = [tickets EXCEPT ![l] = c.tickets]
  /\ obj' = [obj EXCEPT ![l] = c.obj]
  /\ timer' = [timer EXCEPT ![l] = c.timer]
  /\ up' = [up EXCEPT ![l] = c.up]
  /\ toClient' = [toClient EXCEPT ![l] = c.toClient]

(* l takes the first message of thread c (leader s) and ends up in cx.     *)
TakesFromClient(c, l, cx) ==
  /\ Becomes(l, cx)
  /\ toLeader' = [toLeader EXCEPT ![l] = cx.toLeader]
  /\ fromClient' = [fromClient EXCEPT ![c][l] = Tail(@)]
  /\ UNCHANGED <<client, now>>

TakesFromLeader(s, l, cx) ==
  /\ Becomes(l, cx)
  /\ toLeader' = [toLeader EXCEPT ![l] = cx.toLeader, ![s][l] = Tail(@)]
  /\ UNCHANGED <<fromClient, client, now>>

ClientSent(c, l, cmd) ==
  /\ up[l]
  /\ fromClient[c][l] # <<>>
  /\ Head(fromClient[c][l]).cmd = cmd

LeaderSent(s, l, cmd) ==
  /\ s # l
  /\ up[l]
  /\ toLeader[s][l] # <<>>
  /\ Head(toLeader[s][l]).cmd = cmd

-----------------------------------------------------------------------------
(***************************************************************************)
(* msg_lock().  A refusal is a reply to the sender of the message: when a  *)
(* proxy forwarded it that is the proxy, whose msg_lock_failed() has no    *)
(* such ticket and drops it.  The durations are checked by the proxy too,  *)
(* which then refuses the thread itself.                                   *)
(***************************************************************************)
Refuse(cx, i, error) ==
  LET m == [cmd |-> "LOCKFAILED", error |-> error]
  IN  IF error = "invalid" \/ Home[EnteringKey(i)] # NoLeader
      THEN SendToClient(cx, i, m) ELSE cx

ValidDurations(m) ==
  /\ m.duration >= SNAP_LOCK_MINIMUM_TIMEOUT
  /\ \/ m.unlock_duration = SNAP_UNLOCK_USES_LOCK_TIMEOUT
     \/ m.unlock_duration >= SNAP_UNLOCK_MINIMUM_TIMEOUT

Lock(cx, m) ==
  LET i == m.req
      c0 == Cleanup(cx)
      new == NewTicket(c0.self, m.timeout, m.duration, m.unlock_duration)
      c1 == [c0 EXCEPT !.entering = @ \cup {i}, !.obj[i] = new]
  IN  IF m.timeout <= c0.now THEN Refuse(c0, i, "timedout")
      ELSE IF ~ValidDurations(m) THEN Refuse(c0, i, "invalid")
      ELSE IF \/ EnteringOf(c0, EnteringKey(i)) # {}
              \/ TicketsOf(c0, EnteringKey(i)) # {}
      THEN Refuse(c0, i, "duplicate")
      ELSE Cleanup(Entering(c1, i))

msg_lock(c, l) ==
  /\ ClientSent(c, l, "LOCK")
  /\ TakesFromClient(c, l, Lock(Context(l), Head(fromClient[c][l])))

Unlock_Others(cx, c) ==
  LET others == cx.tickets \ TicketsOf(cx, c)
      i == FirstTicket(cx, others)
      d == DropTicket(cx, i)
  IN  IF others = {} THEN Cleanup(cx)
      ELSE Cleanup([d EXCEPT !.tickets = @ \ {i}])

(* msg_unlock(): the first ticket of that thread is dropped and erased.    *)
Unlock(cx, c) ==
  LET mine == TicketsOf(cx, c)
      i == FirstTicket(cx, mine)
      d == DropTicket(cx, i)
  IN  IF mine = {} THEN Cleanup(cx)
      ELSE Cleanup([d EXCEPT !.tickets = @ \ {i}])

msg_unlock(c, l) ==
  /\ ClientSent(c, l, "UNLOCK")
  /\ TakesFromClient(c, l, Unlock(Context(l), c))

(* msg_lock_entering(): the sender becomes the owner of the new ticket.    *)
LockEntering(cx, s, m) ==
  LET client_key == EnteringKey(m.req)
      new == NewTicket(s, m.timeout, m.duration, m.unlock_duration)
      a == IF EnteringOf(cx, client_key) # {} THEN cx
           ELSE [cx EXCEPT !.entering = @ \cup {m.req}, !.obj[m.req] = new]
      r == ReplyTo(a, s, [cmd |-> "LOCKENTERED", key |-> client_key])
  IN  Cleanup(IF m.timeout > cx.now THEN r ELSE cx)

msg_lock_entering(s, l) ==
  /\ LeaderSent(s, l, "LOCKENTERING")
  /\ TakesFromLeader(s, l, LockEntering(Context(l), s, Head(toLeader[s][l])))

LockEntered(cx, key) ==
  IF EnteringOf(cx, key) = {} THEN cx
  ELSE Entered(cx, CHOOSE i \in EnteringOf(cx, key) : TRUE)

msg_lock_entered(s, l) ==
  /\ LeaderSent(s, l, "LOCKENTERED")
  /\ TakesFromLeader(s, l, LockEntered(Context(l), Head(toLeader[s][l]).key))

msg_lock_exiting(s, l) ==
  /\ LeaderSent(s, l, "LOCKEXITING")
  /\ TakesFromLeader(s, l, LockExiting(Context(l), Head(toLeader[s][l]).key))

GetMaxTicket(cx, s, key) ==
  LET c0 == Cleanup(cx)
  IN  ReplyTo(c0, s, [ cmd |-> "MAXTICKET", key |-> key,
                       ticket_id |-> GetLastTicket(c0) ])

msg_get_max_ticket(s, l) ==
  /\ LeaderSent(s, l, "GETMAXTICKET")
  /\ TakesFromLeader(s, l, GetMaxTicket(Context(l), s, Head(toLeader[s][l]).key))

MaxTicketReply(cx, m) ==
  IF EnteringOf(cx, m.key) = {} THEN cx
  ELSE MaxTicketReceived(cx, CHOOSE i \in EnteringOf(cx, m.key) : TRUE,
                         m.ticket_id)

msg_max_ticket(s, l) ==
  /\ LeaderSent(s, l, "MAXTICKET")
  /\ TakesFromLeader(s, l, MaxTicketReply(Context(l), Head(toLeader[s][l])))

(***************************************************************************)
(* msg_add_ticket(): the entering ticket becomes a ticket, or the sender   *)
(* gets a LOCKFAILED.  set_ticket_number() throws when the ticket has a    *)
(* number already, and nobody catches that.                                *)
(***************************************************************************)
AddTicketFor(cx, s, key) ==
  LET i == CHOOSE j \in EnteringOf(cx, key[2]) : TRUE
      a == SetTicket([cx EXCEPT !.obj[i] = [@ EXCEPT !.added_ticket = TRUE,
                                                     !.our_ticket = key[1],
                                                     !.key_number = key[1]]], i)
  IN  IF EnteringOf(cx, key[2]) = {}
      THEN ReplyTo(cx, s, [cmd |-> "LOCKFAILED", key |-> key])
      ELSE IF cx.obj[i].our_ticket # 0 \/ cx.obj[i].added_ticket
      THEN [cx EXCEPT !.up = FALSE]
      ELSE ReplyTo(a, s, [cmd |-> "TICKETADDED", key |-> key])

msg_add_ticket(s, l) ==
  /\ LeaderSent(s, l, "ADDTICKET")
  /\ TakesFromLeader(s, l, AddTicketFor(Context(l), s, Head(toLeader[s][l]).key))

TicketAddedReply(cx, key) ==
  LET found == TicketsWithKey(cx, key)
  IN  IF found = {} \/ cx.entering = {} THEN cx
      ELSE TicketAdded(cx, CHOOSE i \in found : TRUE)

msg_ticket_added(s, l) ==
  /\ LeaderSent(s, l, "TICKETADDED")
  /\ TakesFromLeader(s, l, TicketAddedReply(Context(l), Head(toLeader[s][l]).key))

SetReady(cx, key) ==
  [cx EXCEPT !.obj = [i \in Requests |->
     IF i \in TicketsWithKey(cx, key) THEN [@[i] EXCEPT !.ready = TRUE]
     ELSE @[i]]]

msg_ticket_ready(s, l) ==
  /\ LeaderSent(s, l, "TICKETREADY")
  /\ TakesFromLeader(s, l, SetReady(Context(l), Head(toLeader[s][l]).key))

(* msg_activate_lock(): reply with what is first here, and lock it if that *)
(* is the ticket the sender wants to activate.                             *)
ActivateLockFor(cx, s, key) ==
  LET p == PruneTickets(cx)
      first == FirstTicket(p, p.tickets)
      none == p.tickets = {}
      first_key == IF none THEN NoKey ELSE TicketKey(p, first)
      a == IF ~none /\ key = first_key THEN LockActivated(p, first) ELSE p
  IN  Cleanup(ReplyTo(a, s, [ cmd |-> "LOCKACTIVATED", key |-> key,
                              other_key |-> first_key ]))

msg_activate_lock(s, l) ==
  /\ LeaderSent(s, l, "ACTIVATELOCK")
  /\ TakesFromLeader(s, l, ActivateLockFor(Context(l), s, Head(toLeader[s][l]).key))

LockActivatedReply(cx, m) ==
  LET found == TicketsWithKey(cx, m.key)
  IN  IF m.other_key # m.key \/ found = {} THEN cx
      ELSE LockActivated(cx, CHOOSE i \in found : TRUE)

msg_lock_activated(s, l) ==
  /\ LeaderSent(s, l, "LOCKACTIVATED")
  /\ TakesFromLeader(s, l, LockActivatedReply(Context(l), Head(toLeader[s][l])))

DropTicketFor_NoActivation(cx, key) ==
  LET d == [cx EXCEPT !.tickets = @ \ TicketsWithKey(cx, key)]
  IN  Cleanup([d EXCEPT !.entering = @ \ EnteringOf(d, key[2])])

(* msg_drop_ticket(): the ticket, then the entering ticket of that thread. *)
DropTicketFor(cx, key) ==
  LET d == [cx EXCEPT !.tickets = @ \ TicketsWithKey(cx, key)]
      a == IF cx.tickets = {} THEN cx ELSE ActivateFirstLock(d)
  IN  Cleanup([a EXCEPT !.entering = @ \ EnteringOf(a, key[2])])

msg_drop_ticket(s, l) ==
  /\ LeaderSent(s, l, "DROPTICKET")
  /\ TakesFromLeader(s, l, DropTicketFor(Context(l), Head(toLeader[s][l]).key))

(* msg_lock_failed(): another leader could not add our ticket.             *)
LockFailedFor(cx, key) ==
  LET found == TicketsWithKey(cx, key)
      i == CHOOSE j \in found : TRUE
      d == [cx EXCEPT !.tickets = @ \ found]
      a == IF d.tickets = {} THEN d ELSE ActivateFirstLock(d)
  IN  IF found = {} THEN Cleanup(cx)
      ELSE Cleanup(SendToClient(a, i, [cmd |-> "LOCKFAILED", error |-> "invalid"]))

msg_lock_failed(s, l) ==
  /\ LeaderSent(s, l, "LOCKFAILED")
  /\ TakesFromLeader(s, l, LockFailedFor(Context(l), Head(toLeader[s][l]).key))

(* The timer of cleanup() fires.                                           *)
process_timeout(l) ==
  /\ up[l]
  /\ timer[l] # Off
  /\ now >= timer[l]
  /\ LET cx == Cleanup(Context(l))
     IN  /\ Becomes(l, cx)
         /\ toLeader' = [toLeader EXCEPT ![l] = cx.toLeader]
  /\ UNCHANGED <<fromClient, client, now>>

-----------------------------------------------------------------------------
(***************************************************************************)
(* The threads.  A computer that is a leader handles its own threads; the  *)
(* snaplock of another one forwards to the leaders in turn, whoever else   *)
(* uses it, so any leader may be the next.                                 *)
(***************************************************************************)
Route(c) == IF Home[c] = NoLeader THEN Leaders ELSE {Home[c]}

SendToSnaplock(c, m) ==
  \E l \in Route(c) : fromClient' = [fromClient EXCEPT ![c][l] = Append(@, m)]

(* snap_lock::lock() without a lock: a new connection sends LOCK.          *)
ClientLock(c) ==
  /\ client[c].phase = "idle"
  /\ client[c].n < MaxRequests
  /\ \E o \in Obtentions, d \in Durations, u \in UnlockDurations :
       /\ client' = [client EXCEPT ![c] =
            [ phase |-> "waiting", n |-> @.n + 1, obtention |-> now + o,
              date |-> 0, timedout |-> FALSE, threw |-> @.threw ]]
       /\ SendToSnaplock(c, [ cmd |-> "LOCK", req |-> <<c, client[c].n + 1>>,
                              timeout |-> now + o, duration |-> d,
                              unlock_duration |-> u ])
  /\ UNCHANGED <<tables, toLeader, toClient, now>>

(* unlock(): UNLOCK is sent only while there is a date.                    *)
ClientUnlock(c) ==
  /\ client[c].phase = "held"
  /\ client' = [client EXCEPT ![c].phase = "idle", ![c].date = 0]
  /\ IF client[c].date # 0 THEN SendToSnaplock(c, [cmd |-> "UNLOCK"])
     ELSE UNCHANGED fromClient
  /\ UNCHANGED <<tables, toLeader, toClient, now>>

(* What a message does to the connection; run() ends with all but UNLOCKED, *)
(* and an UNLOCKED without a lock is an exception.                          *)
Received(k, m) ==
  CASE m.cmd = "LOCKED"     -> [k EXCEPT !.phase = "held", !.date = m.timeout_date]
    [] m.cmd = "LOCKFAILED" -> [k EXCEPT !.phase = IF @ = "held" THEN @ ELSE "idle"]
    [] m.cmd = "UNLOCKED"   -> IF k.date = 0
                               THEN [k EXCEPT !.phase = "idle", !.threw = TRUE]
                               ELSE [k EXCEPT !.date = 0,
                                              !.timedout = m.error = "timedout"]

ClientReads(c, l) ==
  /\ toClient[l][Request(c)] # <<>>
  /\ client' = [client EXCEPT ![c] = Received(@, Head(toClient[l][Request(c)]))]
  /\ toClient' = [toClient EXCEPT ![l][Request(c)] = Tail(@)]
  /\ UNCHANGED <<tables, toLeader, fromClient, now>>

(* run(): messages are read until the obtention timeout.                   *)
ClientRun(c, l) ==
  /\ client[c].phase = "waiting"
  /\ now < client[c].obtention
  /\ ClientReads(c, l)

(* lock_timedout(): the connection is only looked at once the lock is over. *)
ClientPeek(c, l) ==
  /\ client[c].phase = "held"
  /\ client[c].date # 0
  /\ client[c].date <= now
  /\ ClientReads(c, l)

(* process_timeout() of the connection: lock() returns false.              *)
ClientTimeout(c) ==
  /\ client[c].phase = "waiting"
  /\ now >= client[c].obtention
  /\ client' = [client EXCEPT ![c].phase = "idle"]
  /\ UNCHANGED <<tables, toLeader, toClient, fromClient, now>>

Tick ==
  /\ now < MaxTime
  /\ now' = now + 1
  /\ UNCHANGED <<tables, toLeader, toClient, fromClient, client>>

-----------------------------------------------------------------------------
ClientStep(c) ==
  \/ ClientLock(c)
  \/ ClientUnlock(c)
  \/ ClientTimeout(c)
  \/ \E l \in Leaders : ClientRun(c, l) \/ ClientPeek(c, l)

HandleClient(c, l) == msg_lock(c, l) \/ msg_unlock(c, l)

HandleLeader(s, l) ==
  \/ msg_lock_entering(s, l)
  \/ msg_lock_entered(s, l)
  \/ msg_lock_exiting(s, l)
  \/ msg_get_max_ticket(s, l)
  \/ msg_max_ticket(s, l)
  \/ msg_add_ticket(s, l)
  \/ msg_ticket_added(s, l)
  \/ msg_ticket_ready(s, l)
  \/ msg_activate_lock(s, l)
  \/ msg_lock_activated(s, l)
  \/ msg_drop_ticket(s, l)
  \/ msg_lock_failed(s, l)

Next ==
  \/ \E c \in Clients : ClientStep(c)
  \/ \E c \in Clients, l \in Leaders : HandleClient(c, l)
  \/ \E s \in Leaders, l \in Leaders : HandleLeader(s, l)
  \/ \E l \in Leaders : process_timeout(l)
  \/ Tick

Spec == Init /\ [][Next]_vars

-----------------------------------------------------------------------------
(***************************************************************************)
(* Fairness: every daemon is an event loop that goes on handling what it   *)
(* received and its timer, a thread reads its connection, a thread that    *)
(* got the lock ends up releasing it, and time passes.                     *)
(*                                                                         *)
(* A handler is enabled as soon as its message is the first of a channel   *)
(* and only a handler takes a message away, so weak fairness of the        *)
(* handlers of a channel is: infinitely often it has nothing for a running *)
(* leader, or infinitely often a message is taken from it.  The same for   *)
(* the timer, which every cleanup() sets anew.                             *)
(***************************************************************************)
FairClientChannel(c, l) ==
  \/ []<>(~up[l] \/ fromClient[c][l] = <<>>)
  \/ []<><<Len(fromClient'[c][l]) < Len(fromClient[c][l])>>_vars

FairLeaderChannel(s, l) ==
  \/ []<>(~up[l] \/ toLeader[s][l] = <<>>)
  \/ []<><<Len(toLeader'[s][l]) < Len(toLeader[s][l])>>_vars

FairTimer(l) == []<>(~up[l] \/ timer[l] = Off \/ now < timer[l])

Fairness ==
  /\ \A c \in Clients :
       /\ WF_vars(ClientUnlock(c))
       /\ WF_vars(ClientTimeout(c))
       /\ \A l \in Leaders : WF_vars(ClientRun(c, l)) /\ FairClientChannel(c, l)
  /\ \A l \in Leaders :
       /\ FairTimer(l)
       /\ \A s \in Leaders \ {l} : FairLeaderChannel(s, l)
  /\ WF_vars(Tick)

FairSpec == Spec /\ Fairness

-----------------------------------------------------------------------------
(* is_locked() of the thread's connection.                                 *)
Holds(c) == client[c].phase = "held" /\ client[c].date > now

(***************************************************************************)
(* The lock is exclusive: is_locked() is never true in two threads.  The   *)
(* grant is the end of a negotiation of two leaders whose tables differ    *)
(* while it runs, and of one leader's tables across timeouts.              *)
(***************************************************************************)
MutualExclusion ==
  \A c, d \in Clients : Holds(c) /\ Holds(d) => c = d

(***************************************************************************)
(* A ticket that a leader marked as locked comes first in that leader's    *)
(* f_tickets: no ticket that is numbered later sorts before it, although   *)
(* its number was computed from the tables of other moments.               *)
(***************************************************************************)
LockedIsFirst ==
  \A l \in Leaders : \A i, j \in tickets[l] :
    obj[l][i].locked =>
      ~KeyLess(TicketKey(Context(l), j), TicketKey(Context(l), i))

(***************************************************************************)
(* The lock a thread relies on is still in the table of the leader that    *)
(* granted it, and locked there: no timeout, DROPTICKET or LOCKFAILED      *)
(* erased it meanwhile.                                                    *)
(***************************************************************************)
HeldIsLocked ==
  \A c \in Clients : Holds(c) =>
    \E l \in Leaders : /\ obj[l][Request(c)].owner = l
                       /\ Request(c) \in tickets[l]
                       /\ obj[l][Request(c)].locked

(***************************************************************************)
(* A grant is the only answer: when LOCKED was sent for a request no other *)
(* LOCKED and no LOCKFAILED is, although the owner can be made to activate *)
(* a ticket by its own request and by another leader's, and a refusal can  *)
(* come from a timeout and from another leader.                            *)
(***************************************************************************)
Answers(l, i, cmds) ==
  {k \in DOMAIN toClient[l][i] : toClient[l][i][k].cmd \in cmds}

GrantStands ==
  /\ \A i \in Requests : \A l, d \in Leaders :
       \A j \in Answers(l, i, {"LOCKED"}),
          k \in Answers(d, i, {"LOCKED", "LOCKFAILED"}) : l = d /\ j = k
  /\ \A c \in Clients : client[c].phase = "held" =>
       \A l \in Leaders : Answers(l, Request(c), {"LOCKED", "LOCKFAILED"}) = {}

(***************************************************************************)
(* Once the leaders handled all they sent each other their tables are the  *)
(* same: the same tickets under the same keys, locked or not alike.        *)
(***************************************************************************)
LeadersQuiet == \A s, l \in Leaders : toLeader[s][l] = <<>>

TablesAgree ==
  LeadersQuiet => \A l, d \in Leaders :
    /\ entering[l] = entering[d]
    /\ tickets[l] = tickets[d]
    /\ \A i \in tickets[l] :
          /\ obj[l][i].key_number = obj[d][i].key_number
          /\ obj[l][i].locked = obj[d][i].locked

(***************************************************************************)
(* What activate_first_lock() is documented to ensure whenever f_tickets   *)
(* changes: once the leaders are quiet, the first ticket of each table is  *)
(* locked, so the lock is not left unused while a thread waits for it.     *)
(***************************************************************************)
FirstIsLocked ==
  LeadersQuiet => \A l \in Leaders :
    tickets[l] # {} => obj[l][FirstTicket(Context(l), tickets[l])].locked

(***************************************************************************)
(* A ticket that is not ready waits for an entering ticket that is still   *)
(* there: remove_entering() is documented to be called whenever an         *)
(* entering flag is reset.                                                 *)
(***************************************************************************)
WaitsForSomeone ==
  LeadersQuiet => \A l \in Leaders : \A i \in tickets[l] :
    obj[l][i].quorum /\ ~obj[l][i].ready =>
      obj[l][i].still_entering \cap entering[l] # {}

(***************************************************************************)
(* A leader with a ticket in one of its maps has its timer set: cleanup()  *)
(* runs again even if no message ever comes.                               *)
(***************************************************************************)
TimerArmed ==
  \A l \in Leaders : entering[l] \cup tickets[l] # {} => timer[l] # Off

(***************************************************************************)
(* set_ticket_number() never throws: no ADDTICKET reaches a ticket that    *)
(* was given a number before.                                              *)
(***************************************************************************)
NoLogicError == \A l \in Leaders : up[l]

(***************************************************************************)
(* A connection never receives UNLOCKED while it has no lock, which        *)
(* msg_unlocked() answers with an exception.                               *)
(***************************************************************************)
NeverThrows == \A c \in Clients : ~client[c].threw

(***************************************************************************)
(* Every thread that asks the leader on its computer for the lock gets it, *)
(* whatever leader the others ask, as long as those that have it release   *)
(* it: with the clock stopped no timeout ends the wait.  Not so a thread   *)
(* whose LOCK goes through a proxy: when that goes to a leader that still  *)
(* has its last ticket, the refusal is a reply to the proxy and is lost.   *)
(***************************************************************************)
EveryRequestServed ==
  \A c \in Clients : Home[c] # NoLeader =>
    (client[c].phase = "waiting" ~> client[c].phase = "held")

(***************************************************************************)
(* No ticket stays in a leader's map past its timeout: by the end of time  *)
(* it was erased, or it got a later timeout (when it is locked, or fails   *)
(* while locked).                                                          *)
(***************************************************************************)
Overdue(l) ==
  {i \in entering[l] \cup tickets[l] : CurrentTimeout(obj[l][i]) < MaxTime}

TicketsExpire ==
  \A l \in Leaders : now = MaxTime ~> Overdue(l) = {}

(***************************************************************************)
(* The threads see the lock of module ExclusiveLock.                       *)
(***************************************************************************)
Seen(c) ==
  IF client[c].phase # "held" THEN client[c].phase
  ELSE IF client[c].date > now THEN "held" ELSE "over"

Abstract == INSTANCE ExclusiveLock WITH state <- [c \in Clients |-> Seen(c)]

(* Whatever the leaders exchange, a thread's lock() and unlock() behave as *)
(* those of one exclusive lock.                                            *)
ImplementsExclusiveLock == Abstract!Spec
=============================================================================
