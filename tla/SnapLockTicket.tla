--------------------------- MODULE SnapLockTicket ---------------------------
(***************************************************************************)
(* The lock tickets of the snaplock daemon and the tables that hold them:  *)
(* src/snaplock/src/snaplock_ticket.cpp and the helpers of snaplock.cpp    *)
(* that its functions call back.                                           *)
(*                                                                         *)
(* A leader's tables are one context record, and every function of the     *)
(* code that changes them is an operator from context to context:          *)
(*   self, now     the leader's name and what time(nullptr) returns        *)
(*   entering      f_entering_tickets of the object (the requests in it)   *)
(*   tickets       f_tickets of the object; a ticket's key in that map is  *)
(*                 its number and its entering key, see TicketKey          *)
(*   obj           the ticket objects; both maps share the same object     *)
(*   timer         the date at which f_timer fires, Off when it is not set *)
(*   toLeader, toClient   the messages sent and not yet received           *)
(*   up            FALSE once a std::logic_error ended the process         *)
(*                                                                         *)
(* The maps of the code are indexed by the object's name first and no      *)
(* handler relates two objects, so one object is modelled.                 *)
(*                                                                         *)
(* Definitions named Op_Something are faulty variants of Op, with which    *)
(* the properties are seen to fail; nothing else refers to them.           *)
(***************************************************************************)
EXTENDS Integers, Sequences, FiniteSets, SequencesExt

CONSTANTS
  Leaders,            \* the elected snaplock daemons, one to three
  Clients,            \* entering keys "server/tid", in the order of the map
  MaxRequests,        \* how often a thread asks for the lock (bound)
  MaxTicket,          \* largest ticket number, UINT32_MAX in the code
  SNAP_LOCK_MINIMUM_TIMEOUT,
  SNAP_UNLOCK_MINIMUM_TIMEOUT,
  SNAP_MAXIMUM_TIMEOUT

ASSUME LeadersAssumption ==
  /\ IsFiniteSet(Leaders)
  /\ Cardinality(Leaders) \in 1..3

ASSUME ClientsAssumption ==
  /\ IsFiniteSet(Clients)
  /\ Clients \subseteq Nat \ {0}

ASSUME BoundsAssumption ==
  /\ MaxRequests \in Nat
  /\ MaxTicket \in Nat \ {0}

ASSUME TimeoutsAssumption ==
  /\ SNAP_LOCK_MINIMUM_TIMEOUT \in Nat
  /\ SNAP_UNLOCK_MINIMUM_TIMEOUT \in Nat \ {0}
  /\ SNAP_MAXIMUM_TIMEOUT \in Nat
  /\ SNAP_UNLOCK_MINIMUM_TIMEOUT <= SNAP_MAXIMUM_TIMEOUT

SNAP_UNLOCK_USES_LOCK_TIMEOUT == -1
Off == -1

(***************************************************************************)
(* A request is one lock_connection of a thread: the thread and how many   *)
(* it created so far (its service name is "lock_<tid>_<n>").  All requests *)
(* of a thread share the entering key.                                     *)
(***************************************************************************)
Requests == Clients \X (1..MaxRequests)
EnteringKey(i) == i[1]

Numbers == 0..MaxTicket
Keys == Numbers \X Clients
NoKey == <<0, 0>>

Ticket ==
  [ owner           : Leaders,     \* f_owner
    obtention       : Nat,         \* f_obtention_timeout
    lock_duration   : Nat,
    unlock_duration : Nat,
    get_max_ticket  : BOOLEAN,
    our_ticket      : Numbers,
    added_ticket    : BOOLEAN,
    key_number      : Numbers,     \* the number in f_ticket_key
    quorum          : BOOLEAN,     \* f_added_ticket_quorum
    still_entering  : SUBSET Requests,
    ready           : BOOLEAN,     \* f_ticket_ready
    locked          : BOOLEAN,
    lock_timeout    : Nat,
    failed          : BOOLEAN ]    \* f_lock_failed

Clamp(d) ==
  IF d < SNAP_UNLOCK_MINIMUM_TIMEOUT THEN SNAP_UNLOCK_MINIMUM_TIMEOUT
  ELSE IF d > SNAP_MAXIMUM_TIMEOUT THEN SNAP_MAXIMUM_TIMEOUT
  ELSE d

SetUnlockDuration_Raw(lock_duration, unlock_duration) == unlock_duration

SetUnlockDuration(lock_duration, unlock_duration) ==
  Clamp(IF unlock_duration = SNAP_UNLOCK_USES_LOCK_TIMEOUT
        THEN lock_duration ELSE unlock_duration)

(* The constructor, then set_owner() and set_unlock_duration().            *)
NewTicket(owner, obtention, duration, unlock_duration) ==
  [ owner           |-> owner,
    obtention       |-> obtention,
    lock_duration   |-> Clamp(duration),
    unlock_duration |-> SetUnlockDuration(Clamp(duration), unlock_duration),
    get_max_ticket  |-> FALSE,
    our_ticket      |-> 0,
    added_ticket    |-> FALSE,
    key_number      |-> 0,
    quorum          |-> FALSE,
    still_entering  |-> {},
    ready           |-> FALSE,
    locked          |-> FALSE,
    lock_timeout    |-> 0,
    failed          |-> FALSE ]

(***************************************************************************)
(* Messages between leaders, and from a leader to a client.  The object    *)
(* name is the same in all of them and is left out.                        *)
(***************************************************************************)
LeaderMessage ==
       [ cmd : {"LOCKENTERING"}, req : Requests, timeout : Nat,
         duration : Nat, unlock_duration : Nat ]
  \cup [ cmd : {"LOCKENTERED", "GETMAXTICKET", "LOCKEXITING"}, key : Clients ]
  \cup [ cmd : {"MAXTICKET"}, key : Clients, ticket_id : Numbers ]
  \cup [ cmd : {"ADDTICKET", "TICKETADDED", "TICKETREADY", "ACTIVATELOCK",
                "DROPTICKET", "LOCKFAILED"}, key : Keys ]
  \cup [ cmd : {"LOCKACTIVATED"}, key : Keys, other_key : Keys \cup {NoKey} ]

ClientMessage ==
       [ cmd : {"LOCKED"}, timeout_date : Nat ]
  \cup [ cmd : {"LOCKFAILED"},
         error : {"timedout", "invalid", "duplicate", "failed"} ]
  \cup [ cmd : {"UNLOCKED"}, error : {"", "timedout"} ]

(***************************************************************************)
(* send_message_to_leaders(): the other one or two leaders; a leader that  *)
(* is alone goes on by itself instead of waiting for a reply.              *)
(***************************************************************************)
Others(c) == Leaders \ {c.self}
Alone(c) == Others(c) = {}

SendSeqToLeaders(c, ms) ==
  [c EXCEPT !.toLeader =
     [d \in Leaders |-> IF d = c.self THEN @[d] ELSE @[d] \o ms]]

SendToLeaders(c, m) == SendSeqToLeaders(c, <<m>>)
ReplyTo(c, s, m) == [c EXCEPT !.toLeader[s] = Append(@, m)]
SendToClient(c, i, m) == [c EXCEPT !.toClient[i] = Append(@, m)]

(***************************************************************************)
(* The key of a ticket is "<number, 8 hex digits>/<entering key>", so the  *)
(* map is ordered by number first and by entering key second.              *)
(***************************************************************************)
TicketKey(c, i) == <<c.obj[i].key_number, EnteringKey(i)>>

KeyLess(k1, k2) ==
  \/ k1[1] < k2[1]
  \/ k1[1] = k2[1] /\ k1[2] < k2[2]

FirstTicket_Last(c, S) ==
  CHOOSE i \in S : \A j \in S : ~KeyLess(TicketKey(c, i), TicketKey(c, j))

FirstTicket(c, S) ==
  CHOOSE i \in S : \A j \in S : ~KeyLess(TicketKey(c, j), TicketKey(c, i))

TicketsWithKey(c, k) == {i \in c.tickets : TicketKey(c, i) = k}
TicketsOf(c, client) == {i \in c.tickets : EnteringKey(i) = client}
EnteringOf(c, client) == {i \in c.entering : EnteringKey(i) = client}

CurrentTimeout_Obtention(t) == t.obtention

CurrentTimeout(t) == IF t.locked THEN t.lock_timeout ELSE t.obtention
TimedOut(c, i) == CurrentTimeout(c.obj[i]) <= c.now

(***************************************************************************)
(* lock_failed() of every ticket of S: at most once per ticket, a locked   *)
(* one is kept for its unlock duration, and its owner tells the client.    *)
(***************************************************************************)
FailureMessage(t) ==
  IF t.locked THEN [cmd |-> "UNLOCKED", error |-> "timedout"]
  ELSE [cmd |-> "LOCKFAILED", error |-> "failed"]

FailTicket(t) ==
  [t EXCEPT !.failed = TRUE,
            !.lock_timeout = IF t.locked THEN @ + t.unlock_duration ELSE @]

LockFailed(c, S) ==
  LET new  == {i \in S : ~c.obj[i].failed}
      told == {i \in new : c.obj[i].owner = c.self}
  IN  [c EXCEPT
        !.obj = [i \in Requests |->
                   IF i \in new THEN FailTicket(@[i]) ELSE @[i]],
        !.toClient = [i \in Requests |->
                   IF i \in told THEN Append(@[i], FailureMessage(c.obj[i]))
                   ELSE @[i]]]

(* The loop shared by find_first_lock() and cleanup(): tickets that timed  *)
(* out fail, and are erased if they are still timed out after that.        *)
PruneTickets(c) ==
  LET f == LockFailed(c, {i \in c.tickets : TimedOut(c, i)})
  IN  [f EXCEPT !.tickets = {i \in @ : ~TimedOut(f, i)}]

PruneEntering(c) ==
  LET f == LockFailed(c, {i \in c.entering : TimedOut(c, i)})
  IN  [f EXCEPT !.entering = {i \in @ : ~TimedOut(f, i)}]

(* lock_activated(): only the owner tells the client.                      *)
Activatable_Again(t) == t.ready /\ ~t.failed

Activatable(t) == t.ready /\ ~t.locked /\ ~t.failed

LockActivated(c, i) ==
  LET t    == c.obj[i]
      date == t.lock_duration + c.now
      d    == [c EXCEPT !.obj[i] = [@ EXCEPT !.locked = TRUE,
                                             !.lock_timeout = date]]
  IN  IF ~Activatable(t) THEN c
      ELSE IF t.owner = c.self
      THEN SendToClient(d, i, [cmd |-> "LOCKED", timeout_date |-> date])
      ELSE d

ActivateLock(c, i) ==
  IF ~Activatable(c.obj[i]) THEN c
  ELSE IF Alone(c) THEN LockActivated(c, i)
  ELSE SendToLeaders(c, [cmd |-> "ACTIVATELOCK", key |-> TicketKey(c, i)])

ActivateFirstLock(c) ==
  LET p == PruneTickets(c)
  IN  IF p.tickets = {} THEN p
      ELSE ActivateLock(p, FirstTicket(p, p.tickets))

(***************************************************************************)
(* cleanup(): expire tickets, activate the new first one if one went, then *)
(* expire entering tickets and set the timer one second after the next     *)
(* timeout.  The tickets' timeouts are read before the activation.         *)
(***************************************************************************)
NextTimer(dates) == IF dates = {} THEN Off ELSE Min(dates) + 1

Cleanup_TicketsOnly(c) ==
  LET p == PruneTickets(c)
      a == IF p.tickets # c.tickets /\ p.tickets # {}
           THEN ActivateFirstLock(p) ELSE p
      e == PruneEntering(a)
  IN  [e EXCEPT !.timer =
        NextTimer({CurrentTimeout(p.obj[i]) : i \in p.tickets})]

\* a ticket that timed out and is kept does not count for the next timeout
Cleanup_NotAgain(c) ==
  LET p == PruneTickets(c)
      a == IF p.tickets # c.tickets /\ p.tickets # {}
           THEN ActivateFirstLock(p) ELSE p
      e == PruneEntering(a)
  IN  [e EXCEPT !.timer =
        NextTimer({CurrentTimeout(p.obj[i]) : i \in {j \in p.tickets : ~TimedOut(c, j)}})]

Cleanup(c) ==
  LET p == PruneTickets(c)
      a == IF p.tickets # c.tickets /\ p.tickets # {}
           THEN ActivateFirstLock(p) ELSE p
      e == PruneEntering(a)
      dates == {CurrentTimeout(p.obj[i]) : i \in p.tickets}
          \cup {CurrentTimeout(e.obj[i]) : i \in e.entering}
  IN  [e EXCEPT !.timer = NextTimer(dates)]

(***************************************************************************)
(* remove_entering() of every ticket: an entering key the ticket waits for *)
(* is gone, and so are those that timed out; once none is left the ticket  *)
(* is ready.  The TICKETREADY messages of one loop concern different       *)
(* tickets, so their order is immaterial.                                  *)
(***************************************************************************)
RemoveEntering(c, client) ==
  LET waits(i) == /\ c.obj[i].quorum
                  /\ ~c.obj[i].ready
                  /\ \E j \in c.obj[i].still_entering : EnteringKey(j) = client
      left(i)  == {j \in c.obj[i].still_entering :
                      EnteringKey(j) # client /\ ~TimedOut(c, j)}
      waiting  == {i \in c.tickets : waits(i)}
      ready    == {i \in waiting : left(i) = {}}
      r == [c EXCEPT !.obj =
              [i \in Requests |->
                 IF i \in waiting
                 THEN [@[i] EXCEPT !.still_entering = left(i),
                                   !.ready = i \in ready]
                 ELSE @[i]]]
  IN  SendSeqToLeaders(r,
        SetToSeq({[cmd |-> "TICKETREADY", key |-> TicketKey(c, i)] : i \in ready}))

(* msg_lock_exiting(), which a leader also calls for its own tickets.      *)
LockExiting_NoActivation(c, client) ==
  LET e == [c EXCEPT !.entering = @ \ EnteringOf(c, client)]
  IN  Cleanup(IF EnteringOf(c, client) = {} THEN c ELSE RemoveEntering(e, client))

LockExiting_KeepsWaiting(c, client) ==
  LET e == [c EXCEPT !.entering = @ \ EnteringOf(c, client)]
  IN  IF EnteringOf(c, client) = {} THEN Cleanup(c)
      ELSE Cleanup(ActivateFirstLock(e))

LockExiting(c, client) ==
  LET e == [c EXCEPT !.entering = @ \ EnteringOf(c, client)]
      r == RemoveEntering(e, client)
  IN  IF EnteringOf(c, client) = {} THEN Cleanup(c)
      ELSE IF c.tickets = {} THEN Cleanup(e)
      ELSE Cleanup(ActivateFirstLock(r))

TicketAdded(c, i) ==
  LET q == [c EXCEPT !.obj[i] = [@ EXCEPT !.quorum = TRUE,
                                          !.still_entering = c.entering]]
      m == [cmd |-> "LOCKEXITING", key |-> EnteringKey(i)]
  IN  IF c.obj[i].quorum THEN c
      ELSE LockExiting(SendToLeaders(q, m), EnteringKey(i))

(* f_tickets[object][key] = ticket: a ticket with the same key is replaced. *)
SetTicket(c, i) ==
  [c EXCEPT !.tickets = (@ \ TicketsWithKey(c, TicketKey(c, i))) \cup {i}]

AddTicket(c, i) ==
  LET a == SetTicket([c EXCEPT !.obj[i] =
             [@ EXCEPT !.added_ticket = TRUE, !.key_number = c.obj[i].our_ticket]], i)
      m == [cmd |-> "ADDTICKET", key |-> TicketKey(a, i)]
  IN  IF Alone(c) THEN TicketAdded(a, i) ELSE SendToLeaders(a, m)

MaxTicketReceived_NoIncrement(c, i, n) ==
  LET largest == IF n > c.obj[i].our_ticket THEN n ELSE c.obj[i].our_ticket
  IN  IF c.obj[i].added_ticket THEN c
      ELSE AddTicket([c EXCEPT !.obj[i] = [@ EXCEPT !.our_ticket = largest]], i)

MaxTicketReceived_Twice(c, i, n) ==
  LET largest == IF n > c.obj[i].our_ticket THEN n ELSE c.obj[i].our_ticket
  IN  AddTicket([c EXCEPT !.obj[i] =
        [@ EXCEPT !.our_ticket = (largest + 1) % (MaxTicket + 1)]], i)

MaxTicketReceived(c, i, n) ==
  LET largest == IF n > c.obj[i].our_ticket THEN n ELSE c.obj[i].our_ticket
  IN  IF c.obj[i].added_ticket THEN c
      ELSE AddTicket([c EXCEPT !.obj[i] =
             [@ EXCEPT !.our_ticket = (largest + 1) % (MaxTicket + 1)]], i)

GetLastTicket(c) == Max({0} \cup {c.obj[i].our_ticket : i \in c.tickets})

Entered(c, i) ==
  LET last == GetLastTicket(c)
      g == [c EXCEPT !.obj[i] = [@ EXCEPT !.get_max_ticket = TRUE,
                                          !.our_ticket = last]]
      m == [cmd |-> "GETMAXTICKET", key |-> EnteringKey(i)]
  IN  IF c.obj[i].get_max_ticket THEN c
      ELSE IF Alone(c) THEN MaxTicketReceived(g, i, last)
      ELSE SendToLeaders(g, m)

Entering(c, i) ==
  LET t == c.obj[i]
      m == [ cmd             |-> "LOCKENTERING",
             req             |-> i,
             timeout         |-> t.obtention,
             duration        |-> t.lock_duration,
             unlock_duration |-> t.unlock_duration ]
  IN  IF Alone(c) THEN Entered(c, i) ELSE SendToLeaders(c, m)

DropTicket_Silent(c, i) ==
  LET u == [c EXCEPT !.obj[i] = [@ EXCEPT !.failed = TRUE]]
  IN  IF c.obj[i].failed THEN c
      ELSE SendToClient(u, i, [cmd |-> "UNLOCKED", error |-> ""])

(* drop_ticket(), then the ticket is erased from the map by msg_unlock().  *)
DropTicket(c, i) ==
  LET d == SendToLeaders(c, [cmd |-> "DROPTICKET", key |-> TicketKey(c, i)])
      u == [d EXCEPT !.obj[i] = [@ EXCEPT !.failed = TRUE]]
  IN  IF c.obj[i].failed THEN d
      ELSE SendToClient(u, i, [cmd |-> "UNLOCKED", error |-> ""])

=============================================================================
