--------------------------- MODULE SnapLockProofs ---------------------------
(***************************************************************************)
(* Theorems about SnapLock for any number of leaders from one to three,    *)
(* any set of threads and any bounds.                                      *)
(*                                                                         *)
(* The argument follows the code: each operator of SnapLockTicket maps a   *)
(* context of the right type to one (the lemmas ...Type), what a helper    *)
(* does to the two maps and the timer is stated once (SameMaps, the lemmas *)
(* ...Maps), and every message handler that starts with an armed timer     *)
(* ends with one (ArmedContext).  The steps of Next follow from those.     *)
(***************************************************************************)
EXTENDS SnapLock, FiniteSetTheorems, TLAPS

(* A leader's tables, with fields of the right type.                       *)

ContextType ==
  [ self     : Leaders,
    now      : Nat,
    entering : SUBSET Requests,
    tickets  : SUBSET Requests,
    obj      : [Requests -> Ticket],
    timer    : Nat \cup {Off},
    up       : BOOLEAN,
    toLeader : [Leaders -> Seq(LeaderMessage)],
    toClient : [Requests -> Seq(ClientMessage)] ]

(* A clamped duration is a natural number.                                 *)
LEMMA ClampType == \A d \in Int : Clamp(d) \in Nat
  BY TimeoutsAssumption DEF Clamp

(* set_unlock_duration() ends with a natural number, the default included. *)
LEMMA UnlockDurationType ==
  ASSUME NEW d \in Nat, NEW u \in Nat \cup {SNAP_UNLOCK_USES_LOCK_TIMEOUT}
  PROVE  SetUnlockDuration(d, u) \in Nat
  BY ClampType DEF SetUnlockDuration, SNAP_UNLOCK_USES_LOCK_TIMEOUT

(* The constructor makes a ticket.                                         *)
LEMMA NewTicketType ==
  ASSUME NEW l \in Leaders, NEW o \in Nat, NEW d \in Nat,
         NEW u \in Nat \cup {SNAP_UNLOCK_USES_LOCK_TIMEOUT}
  PROVE  NewTicket(l, o, d, u) \in Ticket
<1>1. Clamp(d) \in Nat
  BY ClampType
<1>2. SetUnlockDuration(Clamp(d), u) \in Nat
  BY <1>1, UnlockDurationType
<1>3. 0 \in Numbers
  BY BoundsAssumption DEF Numbers
<1>. QED  BY <1>1, <1>2, <1>3 DEF NewTicket, Ticket

(* A context and its fields.                                              *)
LEMMA ContextFields ==
  ASSUME NEW c \in ContextType
  PROVE  /\ c.self \in Leaders
         /\ c.now \in Nat
         /\ c.entering \in SUBSET Requests
         /\ c.tickets \in SUBSET Requests
         /\ c.obj \in [Requests -> Ticket]
         /\ c.timer \in Nat \cup {Off}
         /\ c.up \in BOOLEAN
         /\ c.toLeader \in [Leaders -> Seq(LeaderMessage)]
         /\ c.toClient \in [Requests -> Seq(ClientMessage)]
  BY DEF ContextType

(* A context whose entering tickets are replaced is a context.             *)
LEMMA WithEntering ==
  ASSUME NEW c \in ContextType, NEW S \in SUBSET Requests
  PROVE  [c EXCEPT !.entering = S] \in ContextType
  BY DEF ContextType

(* A context whose tickets are replaced is a context.                      *)
LEMMA WithTickets ==
  ASSUME NEW c \in ContextType, NEW S \in SUBSET Requests
  PROVE  [c EXCEPT !.tickets = S] \in ContextType
  BY DEF ContextType

(* A context whose ticket objects are replaced is a context.               *)
LEMMA WithObj ==
  ASSUME NEW c \in ContextType, NEW f \in [Requests -> Ticket]
  PROVE  [c EXCEPT !.obj = f] \in ContextType
  BY DEF ContextType

(* A context whose timer is set anew is a context.                         *)
LEMMA WithTimer ==
  ASSUME NEW c \in ContextType, NEW t \in Nat \cup {Off}
  PROVE  [c EXCEPT !.timer = t] \in ContextType
  BY DEF ContextType

(* A context whose messages to leaders are replaced is a context.          *)
LEMMA WithToLeader ==
  ASSUME NEW c \in ContextType, NEW f \in [Leaders -> Seq(LeaderMessage)]
  PROVE  [c EXCEPT !.toLeader = f] \in ContextType
  BY DEF ContextType

(* A context whose messages to clients are replaced is a context.          *)
LEMMA WithToClient ==
  ASSUME NEW c \in ContextType, NEW f \in [Requests -> Seq(ClientMessage)]
  PROVE  [c EXCEPT !.toClient = f] \in ContextType
  BY DEF ContextType

(* A context of which one ticket object changed is a context.              *)
LEMMA WithOneObj ==
  ASSUME NEW c \in ContextType, NEW i \in Requests, NEW t \in Ticket
  PROVE  [c EXCEPT !.obj[i] = t] \in ContextType
  BY DEF ContextType

(* A new ticket in the entering map.                                       *)
LEMMA EnterType ==
  ASSUME NEW c \in ContextType, NEW i \in Requests, NEW t \in Ticket
  PROVE  [c EXCEPT !.entering = @ \cup {i}, !.obj[i] = t] \in ContextType
<1>1. [c EXCEPT !.entering = @ \cup {i}] \in ContextType
  BY WithEntering, ContextFields
<1>. QED  BY <1>1, WithOneObj

(* Sending messages to the other leaders.                                  *)
LEMMA SendSeqType ==
  ASSUME NEW c \in ContextType, NEW ms \in Seq(LeaderMessage)
  PROVE  SendSeqToLeaders(c, ms) \in ContextType
<1>. DEFINE f == [d \in Leaders |-> IF d = c.self THEN c.toLeader[d]
                                   ELSE c.toLeader[d] \o ms]
<1>1. f \in [Leaders -> Seq(LeaderMessage)]
  BY ContextFields
<1>2. [c EXCEPT !.toLeader = f] \in ContextType
  BY <1>1, WithToLeader
<1>. QED  BY <1>2 DEF SendSeqToLeaders

(* Sending one message to the other leaders.                               *)
LEMMA SendType ==
  ASSUME NEW c \in ContextType, NEW m \in LeaderMessage
  PROVE  SendToLeaders(c, m) \in ContextType
<1>1. <<m>> \in Seq(LeaderMessage)
  OBVIOUS
<1>. QED  BY <1>1, SendSeqType DEF SendToLeaders

(* Replying to one leader.                                                 *)
LEMMA ReplyType ==
  ASSUME NEW c \in ContextType, NEW s \in Leaders, NEW m \in LeaderMessage
  PROVE  ReplyTo(c, s, m) \in ContextType
<1>. DEFINE f == [c.toLeader EXCEPT ![s] = Append(@, m)]
<1>1. f \in [Leaders -> Seq(LeaderMessage)]
  BY ContextFields
<1>2. [c EXCEPT !.toLeader = f] \in ContextType
  BY <1>1, WithToLeader
<1>. QED  BY <1>2 DEF ReplyTo

(* Sending a message to a client.                                          *)
LEMMA SendToClientType ==
  ASSUME NEW c \in ContextType, NEW i \in Requests, NEW m \in ClientMessage
  PROVE  SendToClient(c, i, m) \in ContextType
<1>. DEFINE f == [c.toClient EXCEPT ![i] = Append(@, m)]
<1>1. f \in [Requests -> Seq(ClientMessage)]
  BY ContextFields
<1>2. [c EXCEPT !.toClient = f] \in ContextType
  BY <1>1, WithToClient
<1>. QED  BY <1>2 DEF SendToClient

-----------------------------------------------------------------------------
(* Minima, maxima and the first ticket exist.                              *)

(* A set of natural numbers has a least element.                           *)
LEMMA NatMinExists ==
  ASSUME NEW S \in SUBSET Nat, S # {}
  PROVE  \E x \in S : \A y \in S : x <= y
<1>1. PICK x \in S : \A y \in S : ~(<<y, x>> \in OpToRel(<, Nat))
  BY NatLessThanWellFounded, WFMin
<1>2. \A y \in S : ~(y < x)
  BY <1>1 DEF OpToRel
<1>. QED  BY <1>2

(* A set of ticket numbers has a largest element.                          *)
LEMMA NumbersMaxExists ==
  ASSUME NEW S \in SUBSET Numbers, S # {}
  PROVE  \E x \in S : \A y \in S : x >= y
<1>. DEFINE T == {MaxTicket - x : x \in S}
<1>1. T \in SUBSET Nat /\ T # {}
  BY BoundsAssumption DEF Numbers
<1>2. PICK t \in T : \A u \in T : t <= u
  <2>. HIDE DEF T
  <2>. QED  BY <1>1, NatMinExists
<1>3. PICK x \in S : t = MaxTicket - x
  BY <1>2
<1>4. \A y \in S : MaxTicket - x <= MaxTicket - y
  BY <1>2, <1>3
<1>5. \A y \in S : x >= y
  BY <1>4, BoundsAssumption DEF Numbers
<1>. QED  BY <1>5

(* Min picks it.                                                           *)
LEMMA MinType ==
  ASSUME NEW S \in SUBSET Nat, S # {}
  PROVE  Min(S) \in Nat
  BY NatMinExists DEF Min

(* Max picks it.                                                           *)
LEMMA MaxType ==
  ASSUME NEW S \in SUBSET Numbers, S # {}
  PROVE  Max(S) \in Numbers
  BY NumbersMaxExists DEF Max

(* The entering key of a request is a client.                              *)
LEMMA RequestParts ==
  ASSUME NEW i \in Requests
  PROVE  EnteringKey(i) \in Clients /\ EnteringKey(i) \in Nat
  BY ClientsAssumption DEF Requests, EnteringKey

(* The key of a ticket is a key.                                           *)
LEMMA TicketKeyType ==
  ASSUME NEW c \in ContextType, NEW i \in Requests
  PROVE  TicketKey(c, i) \in Keys
<1>1. c.obj[i] \in Ticket
  BY ContextFields
<1>2. c.obj[i].key_number \in Numbers
  BY <1>1 DEF Ticket
<1>. QED  BY <1>2, RequestParts DEF TicketKey, Keys

(* begin() of the map is a ticket of it, and none sorts before it.         *)
LEMMA FirstTicketType ==
  ASSUME NEW c \in ContextType, NEW S \in SUBSET Requests, S # {}
  PROVE  /\ FirstTicket(c, S) \in S
         /\ \A j \in S : ~KeyLess(TicketKey(c, j), TicketKey(c, FirstTicket(c, S)))
<1>. DEFINE num(i) == c.obj[i].key_number
            N == {num(i) : i \in S}
<1>1. \A i \in S : num(i) \in Nat
  BY ContextFields, BoundsAssumption DEF Ticket, Numbers
<1>2. PICK n \in N : \A m \in N : n <= m
  <2>1. N \in SUBSET Nat /\ N # {}
    BY <1>1
  <2>. HIDE DEF N
  <2>. QED  BY <2>1, NatMinExists
<1>. DEFINE T == {i \in S : num(i) = n}
            K == {EnteringKey(i) : i \in T}
<1>3. PICK k \in K : \A m \in K : k <= m
  <2>1. K \in SUBSET Nat /\ K # {}
    BY <1>2, RequestParts
  <2>. HIDE DEF K
  <2>. QED  BY <2>1, NatMinExists
<1>4. PICK i \in T : EnteringKey(i) = k
  BY <1>3
<1>5. ASSUME NEW j \in S
      PROVE  ~KeyLess(TicketKey(c, j), TicketKey(c, i))
  <2>1. num(i) = n /\ n <= num(j)
    BY <1>2, <1>4
  <2>2. num(j) = n => EnteringKey(i) <= EnteringKey(j)
    BY <1>3, <1>4
  <2>3. /\ TicketKey(c, i) = <<num(i), EnteringKey(i)>>
        /\ TicketKey(c, j) = <<num(j), EnteringKey(j)>>
    BY DEF TicketKey
  <2>4. /\ num(i) \in Nat /\ num(j) \in Nat
        /\ EnteringKey(i) \in Nat /\ EnteringKey(j) \in Nat
    BY <1>1, RequestParts
  <2>. HIDE DEF num
  <2>. QED  BY <2>1, <2>2, <2>3, <2>4 DEF KeyLess
<1>6. \E x \in S : \A j \in S : ~KeyLess(TicketKey(c, j), TicketKey(c, x))
  BY <1>5
<1>. HIDE DEF N, T, K
<1>. QED  BY <1>6 DEF FirstTicket

-----------------------------------------------------------------------------
(* Every function of a leader's tables maps a context to a context.        *)

(* get_current_timeout() is a date.                                        *)
LEMMA CurrentTimeoutType ==
  ASSUME NEW t \in Ticket
  PROVE  CurrentTimeout(t) \in Nat
  BY DEF CurrentTimeout, Ticket

(* A ticket that fails is a ticket.                                        *)
LEMMA FailTicketType ==
  ASSUME NEW t \in Ticket
  PROVE  FailTicket(t) \in Ticket
<1>. DEFINE n == IF t.locked THEN t.lock_timeout + t.unlock_duration
                 ELSE t.lock_timeout
<1>1. n \in Nat
  BY DEF Ticket
<1>2. FailTicket(t) = [t EXCEPT !.failed = TRUE, !.lock_timeout = n]
  BY DEF FailTicket
<1>. HIDE DEF n
<1>. QED  BY <1>1, <1>2 DEF Ticket

(* lock_failed() keeps the types.                                          *)
LEMMA LockFailedType ==
  ASSUME NEW c \in ContextType, NEW S \in SUBSET Requests
  PROVE  LockFailed(c, S) \in ContextType
<1>. DEFINE new  == {i \in S : ~c.obj[i].failed}
            told == {i \in new : c.obj[i].owner = c.self}
            o == [i \in Requests |->
                   IF i \in new THEN FailTicket(c.obj[i]) ELSE c.obj[i]]
            t == [i \in Requests |->
                   IF i \in told
                   THEN Append(c.toClient[i], FailureMessage(c.obj[i]))
                   ELSE c.toClient[i]]
<1>1. o \in [Requests -> Ticket]
  BY ContextFields, FailTicketType
<1>2. t \in [Requests -> Seq(ClientMessage)]
  <2>1. \A i \in Requests : FailureMessage(c.obj[i]) \in ClientMessage
    BY DEF FailureMessage, ClientMessage
  <2>. QED  BY <2>1, ContextFields
<1>3. [[c EXCEPT !.obj = o] EXCEPT !.toClient = t] \in ContextType
  <2>. HIDE DEF o, t
  <2>. QED  BY <1>1, <1>2, WithObj, WithToClient
<1>4. LockFailed(c, S) = [c EXCEPT !.obj = o, !.toClient = t]
  BY DEF LockFailed
<1>. QED  BY <1>3, <1>4

(* So does the expiry of tickets,                                          *)
LEMMA PruneTicketsType ==
  ASSUME NEW c \in ContextType
  PROVE  PruneTickets(c) \in ContextType
<1>. DEFINE f == LockFailed(c, {i \in c.tickets : TimedOut(c, i)})
<1>1. f \in ContextType
  BY LockFailedType, ContextFields
<1>2. {i \in f.tickets : ~TimedOut(f, i)} \in SUBSET Requests
  BY <1>1, ContextFields
<1>. HIDE DEF f
<1>3. [f EXCEPT !.tickets = {i \in f.tickets : ~TimedOut(f, i)}] \in ContextType
  BY <1>1, <1>2, WithTickets
<1>. QED  BY <1>3 DEF PruneTickets, f

(* the expiry of entering tickets,                                         *)
LEMMA PruneEnteringType ==
  ASSUME NEW c \in ContextType
  PROVE  PruneEntering(c) \in ContextType
<1>. DEFINE f == LockFailed(c, {i \in c.entering : TimedOut(c, i)})
<1>1. f \in ContextType
  BY LockFailedType, ContextFields
<1>2. {i \in f.entering : ~TimedOut(f, i)} \in SUBSET Requests
  BY <1>1, ContextFields
<1>. HIDE DEF f
<1>3. [f EXCEPT !.entering = {i \in f.entering : ~TimedOut(f, i)}] \in ContextType
  BY <1>1, <1>2, WithEntering
<1>. QED  BY <1>3 DEF PruneEntering, f

(* lock_activated(),                                                       *)
LEMMA LockActivatedType ==
  ASSUME NEW c \in ContextType, NEW i \in Requests
  PROVE  LockActivated(c, i) \in ContextType
<1>. DEFINE date == c.obj[i].lock_duration + c.now
            u == [c.obj[i] EXCEPT !.locked = TRUE, !.lock_timeout = date]
            d == [c EXCEPT !.obj[i] = u]
            m == [cmd |-> "LOCKED", timeout_date |-> date]
<1>1. date \in Nat /\ c.obj[i] \in Ticket
  BY ContextFields DEF Ticket
<1>2. u \in Ticket
  <2>. HIDE DEF date
  <2>. QED  BY <1>1 DEF Ticket
<1>3. d \in ContextType
  <2>. HIDE DEF u
  <2>. QED  BY <1>2, WithOneObj
<1>4. SendToClient(d, i, m) \in ContextType
  <2>1. m \in ClientMessage
    <3>. HIDE DEF date
    <3>. QED  BY <1>1 DEF ClientMessage
  <2>. HIDE DEF d, m
  <2>. QED  BY <1>3, <2>1, SendToClientType
<1>. QED  BY <1>3, <1>4 DEF LockActivated

(* activate_lock(),                                                        *)
LEMMA ActivateLockType ==
  ASSUME NEW c \in ContextType, NEW i \in Requests
  PROVE  ActivateLock(c, i) \in ContextType
<1>. DEFINE m == [cmd |-> "ACTIVATELOCK", key |-> TicketKey(c, i)]
<1>1. m \in LeaderMessage
  BY TicketKeyType DEF LeaderMessage
<1>2. SendToLeaders(c, m) \in ContextType
  <2>. HIDE DEF m
  <2>. QED  BY <1>1, SendType
<1>. QED  BY <1>2, LockActivatedType DEF ActivateLock

(* activate_first_lock(),                                                  *)
LEMMA ActivateFirstLockType ==
  ASSUME NEW c \in ContextType
  PROVE  ActivateFirstLock(c) \in ContextType
<1>. DEFINE p == PruneTickets(c)
<1>1. p \in ContextType /\ p.tickets \in SUBSET Requests
  BY PruneTicketsType, ContextFields
<1>. HIDE DEF p
<1>2. p.tickets # {} => FirstTicket(p, p.tickets) \in Requests
  BY <1>1, FirstTicketType
<1>. QED  BY <1>1, <1>2, ActivateLockType DEF ActivateFirstLock, p

(* and cleanup().                                                          *)
LEMMA CleanupType ==
  ASSUME NEW c \in ContextType
  PROVE  Cleanup(c) \in ContextType
<1>. DEFINE p == PruneTickets(c)
            a == IF p.tickets # c.tickets /\ p.tickets # {}
                 THEN ActivateFirstLock(p) ELSE p
            e == PruneEntering(a)
            dates == {CurrentTimeout(p.obj[i]) : i \in p.tickets}
                \cup {CurrentTimeout(e.obj[i]) : i \in e.entering}
<1>1. p \in ContextType
  BY PruneTicketsType
<1>2. a \in ContextType
  <2>. HIDE DEF p
  <2>. QED  BY <1>1, ActivateFirstLockType
<1>3. e \in ContextType
  <2>. HIDE DEF a
  <2>. QED  BY <1>2, PruneEnteringType
<1>4. dates \in SUBSET Nat
  <2>. HIDE DEF p, e
  <2>. QED  BY <1>1, <1>3, ContextFields, CurrentTimeoutType
<1>5. NextTimer(dates) \in Nat \cup {Off}
  <2>. HIDE DEF dates
  <2>. QED  BY <1>4, MinType DEF NextTimer
<1>6. Cleanup(c) = [e EXCEPT !.timer = NextTimer(dates)]
  BY DEF Cleanup
<1>. HIDE DEF e, dates
<1>. QED  BY <1>3, <1>5, <1>6, WithTimer

(***************************************************************************)
(* cleanup() arms the timer whenever it leaves a ticket in a map, and the  *)
(* handlers that end without a cleanup() add a ticket only when its        *)
(* entering ticket is there already.                                       *)
(***************************************************************************)
Armed(c) == c.entering \cup c.tickets # {} => c.timer # Off

ArmedContext == {c \in ContextType : Armed(c)}

SameMaps(c, d) ==
  c.entering = d.entering /\ c.tickets = d.tickets /\ c.timer = d.timer

(* Messages and failures leave the maps and the timer alone,               *)
LEMMA SendSameMaps ==
  ASSUME NEW c \in ContextType
  PROVE  /\ \A m : SameMaps(SendToLeaders(c, m), c)
         /\ \A s, m : SameMaps(ReplyTo(c, s, m), c)
         /\ \A i, m : SameMaps(SendToClient(c, i, m), c)
         /\ \A S : SameMaps(LockFailed(c, S), c)
         /\ \A i, t : SameMaps([c EXCEPT !.obj[i] = t], c)
  BY DEF SendToLeaders, SendSeqToLeaders, ReplyTo, SendToClient, LockFailed,
         SameMaps, ContextType

(* and so do lock_activated()                                              *)
LEMMA LockActivatedSameMaps ==
  ASSUME NEW c \in ContextType, NEW i \in Requests
  PROVE  SameMaps(LockActivated(c, i), c)
  BY DEF LockActivated, SendToClient, SameMaps, ContextType

(* and activate_lock().                                                    *)
LEMMA ActivateLockSameMaps ==
  ASSUME NEW c \in ContextType, NEW i \in Requests
  PROVE  SameMaps(ActivateLock(c, i), c)
<1>1. SameMaps(c, c)
  BY DEF SameMaps
<1>. QED  BY <1>1, LockActivatedSameMaps, SendSameMaps DEF ActivateLock

(* Expiring tickets only removes tickets.                                  *)
LEMMA PruneTicketsMaps ==
  ASSUME NEW c \in ContextType
  PROVE  /\ PruneTickets(c).tickets \subseteq c.tickets
         /\ PruneTickets(c).entering = c.entering
<1>. DEFINE f == LockFailed(c, {i \in c.tickets : TimedOut(c, i)})
<1>1. SameMaps(f, c)
  BY SendSameMaps
<1>2. f \in ContextType
  BY LockFailedType, ContextFields
<1>. HIDE DEF f
<1>3. PruneTickets(c) = [f EXCEPT !.tickets = {i \in @ : ~TimedOut(f, i)}]
  BY DEF PruneTickets, f
<1>. QED  BY <1>1, <1>2, <1>3 DEF SameMaps, ContextType

(* Expiring entering tickets only removes entering tickets.                *)
LEMMA PruneEnteringMaps ==
  ASSUME NEW c \in ContextType
  PROVE  /\ PruneEntering(c).tickets = c.tickets
         /\ PruneEntering(c).entering \subseteq c.entering
<1>. DEFINE f == LockFailed(c, {i \in c.entering : TimedOut(c, i)})
<1>1. SameMaps(f, c)
  BY SendSameMaps
<1>2. f \in ContextType
  BY LockFailedType, ContextFields
<1>. HIDE DEF f
<1>3. PruneEntering(c) = [f EXCEPT !.entering = {i \in @ : ~TimedOut(f, i)}]
  BY DEF PruneEntering, f
<1>. QED  BY <1>1, <1>2, <1>3 DEF SameMaps, ContextType

(* activate_first_lock() only removes tickets.                             *)
LEMMA ActivateFirstLockMaps ==
  ASSUME NEW c \in ContextType
  PROVE  /\ ActivateFirstLock(c).tickets \subseteq c.tickets
         /\ ActivateFirstLock(c).entering = c.entering
<1>. DEFINE p == PruneTickets(c)
<1>1. /\ p \in ContextType
      /\ p.tickets \subseteq c.tickets /\ p.entering = c.entering
      /\ p.tickets \in SUBSET Requests
  BY PruneTicketsType, PruneTicketsMaps, ContextFields
<1>. HIDE DEF p
<1>2. p.tickets # {} => SameMaps(ActivateLock(p, FirstTicket(p, p.tickets)), p)
  BY <1>1, FirstTicketType, ActivateLockSameMaps
<1>3. ActivateFirstLock(c) = IF p.tickets = {} THEN p
                             ELSE ActivateLock(p, FirstTicket(p, p.tickets))
  BY DEF ActivateFirstLock, p
<1>. QED  BY <1>1, <1>2, <1>3 DEF SameMaps

(* cleanup() arms the timer whatever the state it starts from.             *)
LEMMA CleanupArmed ==
  ASSUME NEW c \in ContextType
  PROVE  Cleanup(c) \in ArmedContext
<1>. DEFINE p == PruneTickets(c)
            a == IF p.tickets # c.tickets /\ p.tickets # {}
                 THEN ActivateFirstLock(p) ELSE p
            e == PruneEntering(a)
            dates == {CurrentTimeout(p.obj[i]) : i \in p.tickets}
                \cup {CurrentTimeout(e.obj[i]) : i \in e.entering}
<1>1. p \in ContextType
  BY PruneTicketsType
<1>2. a \in ContextType /\ a.tickets \subseteq p.tickets
  <2>. HIDE DEF p
  <2>. QED  BY <1>1, ActivateFirstLockType, ActivateFirstLockMaps
<1>3. e \in ContextType /\ e.tickets \subseteq p.tickets
  <2>. HIDE DEF p, a
  <2>. QED  BY <1>2, PruneEnteringType, PruneEnteringMaps
<1>4. dates \in SUBSET Nat
  <2>. HIDE DEF p, e
  <2>. QED  BY <1>1, <1>3, ContextFields, CurrentTimeoutType
<1>5. dates # {} => NextTimer(dates) \in Nat
  <2>. HIDE DEF dates
  <2>1. dates # {} => Min(dates) \in Nat
    BY <1>4, MinType
  <2>. QED  BY <2>1 DEF NextTimer
<1>6. e.entering \cup e.tickets # {} => dates # {}
  <2>. HIDE DEF p, e
  <2>. QED  BY <1>3
<1>7. Cleanup(c) = [e EXCEPT !.timer = NextTimer(dates)]
  BY DEF Cleanup
<1>. HIDE DEF e, dates
<1>8. /\ Cleanup(c).timer = NextTimer(dates)
      /\ Cleanup(c).entering = e.entering
      /\ Cleanup(c).tickets = e.tickets
  BY <1>3, <1>7 DEF ContextType
<1>. QED  BY <1>5, <1>6, <1>8, CleanupType DEF Armed, ArmedContext, Off

(* What leaves the maps and the timer alone leaves the timer armed.        *)
LEMMA SameMapsArmed ==
  ASSUME NEW c, NEW d, SameMaps(d, c), Armed(c)
  PROVE  Armed(d)
  BY DEF SameMaps, Armed

(* A finite set of messages as a sequence of messages.                     *)
LEMMA SetToSeqType ==
  ASSUME NEW S, IsFiniteSet(S)
  PROVE  SetToSeq(S) \in Seq(S)
<1>1. Cardinality(S) \in Nat /\ ExistsBijection(1..Cardinality(S), S)
  BY FS_CardinalityType
<1>2. \E f \in [1..Cardinality(S) -> S] : IsInjective(f)
  BY <1>1 DEF ExistsBijection, Bijection, Injection, IsInjective
<1>3. SetToSeq(S) \in [1..Cardinality(S) -> S]
  BY <1>2 DEF SetToSeq
<1>. QED  BY <1>1, <1>3

(* There are finitely many requests.                                       *)
LEMMA RequestsFinite == IsFiniteSet(Requests)
<1>1. IsFiniteSet(1..MaxRequests)
  BY FS_Interval, BoundsAssumption
<1>. QED  BY <1>1, FS_Product, ClientsAssumption DEF Requests

(* remove_entering() keeps the types.                                      *)
LEMMA RemoveEnteringType ==
  ASSUME NEW c \in ContextType, NEW client_key \in Clients
  PROVE  RemoveEntering(c, client_key) \in ContextType
<1>. DEFINE waits(i) == /\ c.obj[i].quorum
                        /\ ~c.obj[i].ready
                        /\ \E j \in c.obj[i].still_entering :
                              EnteringKey(j) = client_key
            left(i) == {j \in c.obj[i].still_entering :
                           EnteringKey(j) # client_key /\ ~TimedOut(c, j)}
            waiting == {i \in c.tickets : waits(i)}
            ready == {i \in waiting : left(i) = {}}
            o == [i \in Requests |->
                    IF i \in waiting
                    THEN [c.obj[i] EXCEPT !.still_entering = left(i),
                                          !.ready = i \in ready]
                    ELSE c.obj[i]]
            M == {[cmd |-> "TICKETREADY", key |-> TicketKey(c, i)] : i \in ready}
<1>1. o \in [Requests -> Ticket]
  <2>. SUFFICES ASSUME NEW i \in Requests PROVE o[i] \in Ticket
    OBVIOUS
  <2>1. c.obj[i] \in Ticket
    BY ContextFields
  <2>2. left(i) \in SUBSET Requests
    BY <2>1 DEF Ticket
  <2>3. (i \in ready) \in BOOLEAN
    OBVIOUS
  <2>. HIDE DEF left, waiting, ready
  <2>. QED  BY <2>1, <2>2, <2>3 DEF Ticket
<1>2. M \in SUBSET LeaderMessage
  <2>1. ready \in SUBSET Requests
    BY ContextFields
  <2>. HIDE DEF ready
  <2>. QED  BY <2>1, TicketKeyType DEF LeaderMessage
<1>3. IsFiniteSet(M)
  <2>1. ready \in SUBSET Requests
    BY ContextFields
  <2>2. IsFiniteSet(ready)
    <3>. HIDE DEF ready
    <3>. QED  BY <2>1, RequestsFinite, FS_Subset
  <2>. DEFINE g == [i \in ready |-> [cmd |-> "TICKETREADY", key |-> TicketKey(c, i)]]
  <2>3. g \in Surjection(ready, M)
    <3>. HIDE DEF ready
    <3>. QED  BY DEF Surjection
  <2>. HIDE DEF ready, g, M
  <2>. QED  BY <2>2, <2>3, FS_Surjection DEF ExistsSurjection
<1>4. SetToSeq(M) \in Seq(LeaderMessage)
  <2>. HIDE DEF M
  <2>1. SetToSeq(M) \in Seq(M)
    BY <1>3, SetToSeqType
  <2>. QED  BY <2>1, <1>2
<1>5. [c EXCEPT !.obj = o] \in ContextType
  <2>. HIDE DEF o
  <2>. QED  BY <1>1, WithObj
<1>6. RemoveEntering(c, client_key)
        = SendSeqToLeaders([c EXCEPT !.obj = o], SetToSeq(M))
  BY DEF RemoveEntering
<1>. HIDE DEF o, M
<1>. QED  BY <1>4, <1>5, <1>6, SendSeqType

(* lock_exiting() ends with cleanup().                                     *)
LEMMA LockExitingType ==
  ASSUME NEW c \in ContextType, NEW client_key \in Clients
  PROVE  LockExiting(c, client_key) \in ArmedContext
<1>. DEFINE e == [c EXCEPT !.entering = @ \ EnteringOf(c, client_key)]
            r == RemoveEntering(e, client_key)
<1>1. e \in ContextType
  BY WithEntering, ContextFields
<1>2. ActivateFirstLock(r) \in ContextType
  <2>. HIDE DEF e
  <2>. QED  BY <1>1, RemoveEnteringType, ActivateFirstLockType
<1>3. /\ Cleanup(c) \in ArmedContext
      /\ Cleanup(e) \in ArmedContext
      /\ Cleanup(ActivateFirstLock(r)) \in ArmedContext
  <2>. HIDE DEF e, r
  <2>. QED  BY <1>1, <1>2, CleanupArmed
<1>. QED  BY <1>3 DEF LockExiting

(* ticket_added() ends with lock_exiting(), or changes nothing.            *)
LEMMA TicketAddedType ==
  ASSUME NEW c \in ContextType, NEW i \in Requests
  PROVE  /\ TicketAdded(c, i) \in ContextType
         /\ Armed(c) => Armed(TicketAdded(c, i))
<1>. DEFINE t == [c.obj[i] EXCEPT !.quorum = TRUE, !.still_entering = c.entering]
            q == [c EXCEPT !.obj[i] = t]
            m == [cmd |-> "LOCKEXITING", key |-> EnteringKey(i)]
            x == LockExiting(SendToLeaders(q, m), EnteringKey(i))
<1>1. t \in Ticket
  <2>1. c.obj[i] \in Ticket /\ c.entering \in SUBSET Requests
    BY ContextFields
  <2>. QED  BY <2>1 DEF Ticket
<1>2. q \in ContextType
  <2>. HIDE DEF t
  <2>. QED  BY <1>1, WithOneObj
<1>3. m \in LeaderMessage
  BY RequestParts DEF LeaderMessage
<1>4. x \in ContextType /\ Armed(x)
  <2>. HIDE DEF q, m
  <2>. QED  BY <1>2, <1>3, SendType, LockExitingType, RequestParts DEF ArmedContext
<1>5. TicketAdded(c, i) = IF c.obj[i].quorum THEN c ELSE x
  BY DEF TicketAdded
<1>. HIDE DEF x
<1>. QED  BY <1>4, <1>5

(* set_ticket() keeps the types.                                           *)
LEMMA SetTicketType ==
  ASSUME NEW c \in ContextType, NEW i \in Requests
  PROVE  SetTicket(c, i) \in ContextType
<1>1. (c.tickets \ TicketsWithKey(c, TicketKey(c, i))) \cup {i} \in SUBSET Requests
  BY ContextFields
<1>. QED  BY <1>1, WithTickets DEF SetTicket

(* An entering ticket that gets its number: the timer was armed for it.    *)
LEMMA SetTicketArmed ==
  ASSUME NEW c \in ContextType, NEW i \in c.entering, Armed(c)
  PROVE  Armed(SetTicket(c, i))
  BY DEF SetTicket, Armed, ContextType

(* add_ticket(): the timer stays armed for the ticket that was entering.   *)
LEMMA AddTicketType ==
  ASSUME NEW c \in ContextType, NEW i \in Requests
  PROVE  /\ AddTicket(c, i) \in ContextType
         /\ Armed(c) /\ i \in c.entering => Armed(AddTicket(c, i))
<1>. DEFINE t == [c.obj[i] EXCEPT !.added_ticket = TRUE,
                                  !.key_number = c.obj[i].our_ticket]
            d == [c EXCEPT !.obj[i] = t]
            a == SetTicket(d, i)
            m == [cmd |-> "ADDTICKET", key |-> TicketKey(a, i)]
<1>1. t \in Ticket
  <2>1. c.obj[i] \in Ticket
    BY ContextFields
  <2>. QED  BY <2>1 DEF Ticket
<1>2. d \in ContextType /\ SameMaps(d, c)
  <2>. HIDE DEF t
  <2>. QED  BY <1>1, WithOneObj, SendSameMaps
<1>3. /\ a \in ContextType
      /\ Armed(c) /\ i \in c.entering => Armed(a)
  <2>. HIDE DEF d
  <2>. QED  BY <1>2, SetTicketType, SetTicketArmed, SameMapsArmed DEF SameMaps
<1>4. m \in LeaderMessage
  <2>. HIDE DEF a
  <2>. QED  BY <1>3, TicketKeyType DEF LeaderMessage
<1>5. /\ TicketAdded(a, i) \in ContextType
      /\ SendToLeaders(a, m) \in ContextType
      /\ Armed(a) => Armed(TicketAdded(a, i)) /\ Armed(SendToLeaders(a, m))
  <2>. HIDE DEF a, m
  <2>. QED  BY <1>3, <1>4, TicketAddedType, SendType, SendSameMaps, SameMapsArmed
<1>6. AddTicket(c, i) = IF Alone(c) THEN TicketAdded(a, i) ELSE SendToLeaders(a, m)
  BY DEF AddTicket
<1>. HIDE DEF a, m
<1>. QED  BY <1>3, <1>5, <1>6

(* max_ticket() ends with add_ticket(), or changes nothing.                *)
LEMMA MaxTicketReceivedType ==
  ASSUME NEW c \in ContextType, NEW i \in Requests, NEW n \in Numbers
  PROVE  /\ MaxTicketReceived(c, i, n) \in ContextType
         /\ Armed(c) /\ i \in c.entering => Armed(MaxTicketReceived(c, i, n))
<1>. DEFINE largest == IF n > c.obj[i].our_ticket THEN n ELSE c.obj[i].our_ticket
            next == (largest + 1) % (MaxTicket + 1)
            t == [c.obj[i] EXCEPT !.our_ticket = next]
            d == [c EXCEPT !.obj[i] = t]
<1>1. c.obj[i] \in Ticket /\ largest \in Numbers
  BY ContextFields DEF Ticket
<1>2. next \in Numbers
  <2>. HIDE DEF largest
  <2>. QED  BY <1>1, BoundsAssumption DEF Numbers
<1>3. t \in Ticket
  <2>. HIDE DEF next
  <2>. QED  BY <1>1, <1>2 DEF Ticket
<1>4. d \in ContextType /\ SameMaps(d, c)
  <2>. HIDE DEF t
  <2>. QED  BY <1>3, WithOneObj, SendSameMaps
<1>5. /\ AddTicket(d, i) \in ContextType
      /\ Armed(c) /\ i \in c.entering => Armed(AddTicket(d, i))
  <2>. HIDE DEF d
  <2>. QED  BY <1>4, AddTicketType, SameMapsArmed DEF SameMaps
<1>6. MaxTicketReceived(c, i, n)
        = IF c.obj[i].added_ticket THEN c ELSE AddTicket(d, i)
  BY DEF MaxTicketReceived
<1>. HIDE DEF d
<1>. QED  BY <1>5, <1>6

(* get_last_ticket() is a ticket number.                                   *)
LEMMA GetLastTicketType ==
  ASSUME NEW c \in ContextType
  PROVE  GetLastTicket(c) \in Numbers
<1>. DEFINE S == {0} \cup {c.obj[i].our_ticket : i \in c.tickets}
<1>1. S \in SUBSET Numbers /\ S # {}
  <2>1. \A i \in c.tickets : c.obj[i].our_ticket \in Numbers
    BY ContextFields DEF Ticket
  <2>. QED  BY <2>1, BoundsAssumption DEF Numbers
<1>. HIDE DEF S
<1>. QED  BY <1>1, MaxType DEF GetLastTicket, S

(* entered() of an entering ticket.                                        *)
LEMMA EnteredType ==
  ASSUME NEW c \in ContextType, NEW i \in Requests
  PROVE  /\ Entered(c, i) \in ContextType
         /\ Armed(c) /\ i \in c.entering => Armed(Entered(c, i))
<1>. DEFINE last == GetLastTicket(c)
            t == [c.obj[i] EXCEPT !.get_max_ticket = TRUE, !.our_ticket = last]
            g == [c EXCEPT !.obj[i] = t]
            m == [cmd |-> "GETMAXTICKET", key |-> EnteringKey(i)]
<1>1. last \in Numbers /\ c.obj[i] \in Ticket
  BY GetLastTicketType, ContextFields
<1>2. t \in Ticket
  <2>. HIDE DEF last
  <2>. QED  BY <1>1 DEF Ticket
<1>3. g \in ContextType /\ SameMaps(g, c)
  <2>. HIDE DEF t
  <2>. QED  BY <1>2, WithOneObj, SendSameMaps
<1>4. m \in LeaderMessage
  BY RequestParts DEF LeaderMessage
<1>5. /\ MaxTicketReceived(g, i, last) \in ContextType
      /\ SendToLeaders(g, m) \in ContextType
  <2>. HIDE DEF g, m, last
  <2>. QED  BY <1>1, <1>3, <1>4, MaxTicketReceivedType, SendType
<1>6. ASSUME Armed(c), i \in c.entering
      PROVE  /\ Armed(MaxTicketReceived(g, i, last))
             /\ Armed(SendToLeaders(g, m))
  <2>. HIDE DEF g, m, last
  <2>1. Armed(g) /\ i \in g.entering
    BY <1>3, <1>6, SameMapsArmed DEF SameMaps
  <2>. QED  BY <1>1, <1>3, <2>1, MaxTicketReceivedType, SendSameMaps, SameMapsArmed
<1>7. Entered(c, i) = IF c.obj[i].get_max_ticket THEN c
                      ELSE IF Alone(c) THEN MaxTicketReceived(g, i, last)
                      ELSE SendToLeaders(g, m)
  BY DEF Entered
<1>. HIDE DEF g, m, last
<1>. QED  BY <1>5, <1>6, <1>7

(* entering() of a new ticket.                                             *)
LEMMA EnteringType ==
  ASSUME NEW c \in ContextType, NEW i \in Requests
  PROVE  Entering(c, i) \in ContextType
<1>. DEFINE t == c.obj[i]
            m == [ cmd             |-> "LOCKENTERING",
                   req             |-> i,
                   timeout         |-> t.obtention,
                   duration        |-> t.lock_duration,
                   unlock_duration |-> t.unlock_duration ]
<1>1. t \in Ticket
  BY ContextFields
<1>2. m \in LeaderMessage
  <2>1. t.obtention \in Nat /\ t.lock_duration \in Nat /\ t.unlock_duration \in Nat
    BY <1>1 DEF Ticket
  <2>. HIDE DEF t
  <2>. QED  BY <2>1 DEF LeaderMessage
<1>3. SendToLeaders(c, m) \in ContextType
  <2>. HIDE DEF m
  <2>. QED  BY <1>2, SendType
<1>. QED  BY <1>3, EnteredType DEF Entering

(* drop_ticket() keeps the types.                                          *)
LEMMA DropTicketType ==
  ASSUME NEW c \in ContextType, NEW i \in Requests
  PROVE  DropTicket(c, i) \in ContextType
<1>. DEFINE m == [cmd |-> "DROPTICKET", key |-> TicketKey(c, i)]
            d == SendToLeaders(c, m)
            t == [d.obj[i] EXCEPT !.failed = TRUE]
            u == [d EXCEPT !.obj[i] = t]
            r == [cmd |-> "UNLOCKED", error |-> ""]
<1>1. d \in ContextType
  <2>1. m \in LeaderMessage
    BY TicketKeyType DEF LeaderMessage
  <2>. HIDE DEF m
  <2>. QED  BY <2>1, SendType
<1>2. t \in Ticket
  <2>. HIDE DEF d
  <2>1. d.obj[i] \in Ticket
    BY <1>1, ContextFields
  <2>. QED  BY <2>1 DEF Ticket
<1>3. u \in ContextType
  <2>. HIDE DEF d, t
  <2>. QED  BY <1>1, <1>2, WithOneObj
<1>4. SendToClient(u, i, r) \in ContextType
  <2>1. r \in ClientMessage
    BY DEF ClientMessage
  <2>. HIDE DEF u, r
  <2>. QED  BY <1>3, <2>1, SendToClientType
<1>. QED  BY <1>1, <1>4 DEF DropTicket

-----------------------------------------------------------------------------
(* So does every message handler.                                          *)

(* The fields of a message between leaders.                                *)
LEMMA MessageFields ==
  ASSUME NEW m \in LeaderMessage
  PROVE  /\ m.cmd = "LOCKENTERING" =>
              /\ m.req \in Requests /\ m.timeout \in Nat
              /\ m.duration \in Nat /\ m.unlock_duration \in Nat
         /\ m.cmd \in {"LOCKENTERED", "GETMAXTICKET", "LOCKEXITING"} =>
              m.key \in Clients
         /\ m.cmd = "MAXTICKET" => m.key \in Clients /\ m.ticket_id \in Numbers
         /\ m.cmd \in {"ADDTICKET", "TICKETADDED", "TICKETREADY", "ACTIVATELOCK",
                       "DROPTICKET", "LOCKFAILED", "LOCKACTIVATED"} => m.key \in Keys
  BY DEF LeaderMessage

(* The fields of a LOCK.                                                   *)
LEMMA RequestMessageFields ==
  ASSUME NEW m \in RequestMessage, m.cmd = "LOCK"
  PROVE  /\ m.req \in Requests /\ m.timeout \in Nat /\ m.duration \in Nat
         /\ m.unlock_duration \in Nat \cup {SNAP_UNLOCK_USES_LOCK_TIMEOUT}
  BY DEF RequestMessage

(* A refused LOCK.                                                         *)
LEMMA RefuseType ==
  ASSUME NEW c \in ArmedContext, NEW i \in Requests,
         NEW e \in {"timedout", "invalid", "duplicate", "failed"}
  PROVE  Refuse(c, i, e) \in ArmedContext
<1>. DEFINE m == [cmd |-> "LOCKFAILED", error |-> e]
<1>1. m \in ClientMessage
  BY DEF ClientMessage
<1>2. SendToClient(c, i, m) \in ArmedContext
  <2>. HIDE DEF m
  <2>. QED  BY <1>1, SendToClientType, SendSameMaps, SameMapsArmed DEF ArmedContext
<1>. QED  BY <1>2 DEF Refuse

(* msg_lock().                                                             *)
LEMMA LockType ==
  ASSUME NEW c \in ContextType, NEW m \in RequestMessage, m.cmd = "LOCK"
  PROVE  Lock(c, m) \in ArmedContext
<1>. DEFINE c0 == Cleanup(c)
            new == NewTicket(c0.self, m.timeout, m.duration, m.unlock_duration)
            c1 == [c0 EXCEPT !.entering = @ \cup {m.req}, !.obj[m.req] = new]
<1>1. c0 \in ArmedContext /\ c0 \in ContextType
  BY CleanupArmed DEF ArmedContext
<1>2. m.req \in Requests
  BY RequestMessageFields
<1>3. c1 \in ContextType
  <2>. HIDE DEF c0
  <2>1. new \in Ticket
    BY <1>1, ContextFields, RequestMessageFields, NewTicketType
  <2>. HIDE DEF new
  <2>. QED  BY <1>1, <1>2, <2>1, EnterType
<1>4. Cleanup(Entering(c1, m.req)) \in ArmedContext
  <2>. HIDE DEF c1
  <2>. QED  BY <1>2, <1>3, EnteringType, CleanupArmed
<1>5. /\ Refuse(c0, m.req, "timedout") \in ArmedContext
      /\ Refuse(c0, m.req, "invalid") \in ArmedContext
      /\ Refuse(c0, m.req, "duplicate") \in ArmedContext
  <2>. HIDE DEF c0
  <2>. QED  BY <1>1, <1>2, RefuseType
<1>. QED  BY <1>4, <1>5 DEF Lock

(* What a search in the maps finds are requests.                           *)
LEMMA TicketsOfType ==
  ASSUME NEW c \in ContextType
  PROVE  /\ \A k : TicketsOf(c, k) \in SUBSET Requests
         /\ \A k : EnteringOf(c, k) \in SUBSET Requests
         /\ \A k : TicketsWithKey(c, k) \in SUBSET Requests
  BY ContextFields DEF TicketsOf, EnteringOf, TicketsWithKey

(* msg_unlock().                                                           *)
LEMMA UnlockType ==
  ASSUME NEW c \in ContextType, NEW k \in Clients
  PROVE  Unlock(c, k) \in ArmedContext
<1>. DEFINE mine == TicketsOf(c, k)
            i == FirstTicket(c, mine)
            d == DropTicket(c, i)
<1>1. CASE mine = {}
  BY <1>1, CleanupArmed DEF Unlock
<1>2. CASE mine # {}
  <2>1. i \in Requests
    <3>1. mine \in SUBSET Requests
      BY TicketsOfType
    <3>. HIDE DEF mine
    <3>. QED  BY <3>1, <1>2, FirstTicketType
  <2>2. d \in ContextType
    <3>. HIDE DEF i
    <3>. QED  BY <2>1, DropTicketType
  <2>3. Cleanup([d EXCEPT !.tickets = @ \ {i}]) \in ArmedContext
    <3>. HIDE DEF d, i
    <3>. QED  BY <2>2, ContextFields, WithTickets, CleanupArmed
  <2>. QED  BY <2>3, <1>2 DEF Unlock
<1>. QED  BY <1>1, <1>2

(* msg_lock_entering().                                                    *)
LEMMA LockEnteringType ==
  ASSUME NEW c \in ContextType, NEW s \in Leaders,
         NEW m \in LeaderMessage, m.cmd = "LOCKENTERING"
  PROVE  LockEntering(c, s, m) \in ArmedContext
<1>. DEFINE client_key == EnteringKey(m.req)
            new == NewTicket(s, m.timeout, m.duration, m.unlock_duration)
            c1 == [c EXCEPT !.entering = @ \cup {m.req}, !.obj[m.req] = new]
            a == IF EnteringOf(c, client_key) # {} THEN c ELSE c1
            r == ReplyTo(a, s, [cmd |-> "LOCKENTERED", key |-> client_key])
<1>1. m.req \in Requests /\ client_key \in Clients
  BY MessageFields, RequestParts
<1>2. new \in Ticket
  BY MessageFields, NewTicketType
<1>3. c1 \in ContextType
  <2>. HIDE DEF new
  <2>. QED  BY <1>1, <1>2, EnterType
<1>4. r \in ContextType
  <2>1. [cmd |-> "LOCKENTERED", key |-> client_key] \in LeaderMessage
    BY <1>1 DEF LeaderMessage
  <2>2. a \in ContextType
    <3>. HIDE DEF c1
    <3>. QED  BY <1>3
  <2>. HIDE DEF a, client_key
  <2>. QED  BY <2>1, <2>2, ReplyType
<1>5. LockEntering(c, s, m) = Cleanup(IF m.timeout > c.now THEN r ELSE c)
  BY DEF LockEntering
<1>. HIDE DEF r
<1>. QED  BY <1>4, <1>5, CleanupArmed

(* msg_lock_entered().                                                     *)
LEMMA LockEnteredType ==
  ASSUME NEW c \in ArmedContext, NEW k \in Clients
  PROVE  LockEntered(c, k) \in ArmedContext
<1>1. CASE EnteringOf(c, k) = {}
  BY <1>1 DEF LockEntered
<1>2. CASE EnteringOf(c, k) # {}
  <2>. DEFINE i == CHOOSE j \in EnteringOf(c, k) : TRUE
  <2>1. i \in c.entering /\ i \in Requests
    BY <1>2, ContextFields DEF EnteringOf, ArmedContext
  <2>2. LockEntered(c, k) = Entered(c, i)
    BY <1>2 DEF LockEntered
  <2>. HIDE DEF i
  <2>. QED  BY <2>1, <2>2, EnteredType DEF ArmedContext
<1>. QED  BY <1>1, <1>2

(* msg_get_max_ticket().                                                   *)
LEMMA GetMaxTicketType ==
  ASSUME NEW c \in ContextType, NEW s \in Leaders, NEW k \in Clients
  PROVE  GetMaxTicket(c, s, k) \in ArmedContext
<1>. DEFINE c0 == Cleanup(c)
            m == [cmd |-> "MAXTICKET", key |-> k, ticket_id |-> GetLastTicket(c0)]
<1>1. c0 \in ContextType /\ Armed(c0)
  BY CleanupArmed DEF ArmedContext
<1>2. m \in LeaderMessage
  <2>. HIDE DEF c0
  <2>. QED  BY <1>1, GetLastTicketType DEF LeaderMessage
<1>3. ReplyTo(c0, s, m) \in ArmedContext
  <2>. HIDE DEF c0, m
  <2>. QED  BY <1>1, <1>2, ReplyType, SendSameMaps, SameMapsArmed DEF ArmedContext
<1>. QED  BY <1>3 DEF GetMaxTicket

(* msg_max_ticket().                                                       *)
LEMMA MaxTicketReplyType ==
  ASSUME NEW c \in ArmedContext, NEW m \in LeaderMessage, m.cmd = "MAXTICKET"
  PROVE  MaxTicketReply(c, m) \in ArmedContext
<1>1. CASE EnteringOf(c, m.key) = {}
  BY <1>1 DEF MaxTicketReply
<1>2. CASE EnteringOf(c, m.key) # {}
  <2>. DEFINE i == CHOOSE j \in EnteringOf(c, m.key) : TRUE
  <2>1. i \in c.entering /\ i \in Requests /\ m.ticket_id \in Numbers
    BY <1>2, ContextFields, MessageFields DEF EnteringOf, ArmedContext
  <2>2. MaxTicketReply(c, m) = MaxTicketReceived(c, i, m.ticket_id)
    BY <1>2 DEF MaxTicketReply
  <2>. HIDE DEF i
  <2>. QED  BY <2>1, <2>2, MaxTicketReceivedType DEF ArmedContext
<1>. QED  BY <1>1, <1>2

(* msg_add_ticket(): the ticket was entering, so the timer is armed.       *)
LEMMA AddTicketForType ==
  ASSUME NEW c \in ArmedContext, NEW s \in Leaders, NEW k \in Keys
  PROVE  AddTicketFor(c, s, k) \in ArmedContext
<1>. DEFINE i == CHOOSE j \in EnteringOf(c, k[2]) : TRUE
            t == [c.obj[i] EXCEPT !.added_ticket = TRUE, !.our_ticket = k[1],
                                  !.key_number = k[1]]
            d == [c EXCEPT !.obj[i] = t]
            a == SetTicket(d, i)
            r == ReplyTo(a, s, [cmd |-> "TICKETADDED", key |-> k])
<1>0. c \in ContextType /\ Armed(c)
  BY DEF ArmedContext
<1>1. ReplyTo(c, s, [cmd |-> "LOCKFAILED", key |-> k]) \in ArmedContext
  <2>1. [cmd |-> "LOCKFAILED", key |-> k] \in LeaderMessage
    BY DEF LeaderMessage
  <2>. QED  BY <1>0, <2>1, ReplyType, SendSameMaps, SameMapsArmed DEF ArmedContext
<1>2. [c EXCEPT !.up = FALSE] \in ArmedContext
  BY <1>0 DEF ContextType, Armed, ArmedContext
<1>3. ASSUME EnteringOf(c, k[2]) # {}
      PROVE  r \in ArmedContext
  <2>1. i \in c.entering /\ i \in Requests
    BY <1>0, <1>3, ContextFields DEF EnteringOf
  <2>2. c.obj[i] \in Ticket /\ k[1] \in Numbers
    <3>. HIDE DEF i
    <3>. QED  BY <1>0, <2>1, ContextFields DEF Keys
  <2>3. t \in Ticket
    <3>. HIDE DEF i
    <3>. QED  BY <2>2 DEF Ticket
  <2>4. d \in ContextType /\ Armed(d) /\ i \in d.entering
    <3>. HIDE DEF t, i
    <3>1. SameMaps(d, c)
      BY <1>0, SendSameMaps
    <3>2. d \in ContextType
      BY <1>0, <2>1, <2>3, WithOneObj
    <3>. QED  BY <1>0, <2>1, <3>1, <3>2, SameMapsArmed DEF SameMaps
  <2>5. a \in ContextType /\ Armed(a)
    <3>. HIDE DEF d, i
    <3>. QED  BY <2>1, <2>4, SetTicketType, SetTicketArmed
  <2>6. [cmd |-> "TICKETADDED", key |-> k] \in LeaderMessage
    BY DEF LeaderMessage
  <2>. HIDE DEF a
  <2>. QED  BY <2>5, <2>6, ReplyType, SendSameMaps, SameMapsArmed DEF ArmedContext
<1>4. AddTicketFor(c, s, k)
        \in {ReplyTo(c, s, [cmd |-> "LOCKFAILED", key |-> k]), [c EXCEPT !.up = FALSE]}
            \cup (IF EnteringOf(c, k[2]) = {} THEN {} ELSE {r})
  BY DEF AddTicketFor
<1>. HIDE DEF r
<1>. QED  BY <1>1, <1>2, <1>3, <1>4

(* msg_ticket_added().                                                     *)
LEMMA TicketAddedReplyType ==
  ASSUME NEW c \in ArmedContext, NEW k \in Keys
  PROVE  TicketAddedReply(c, k) \in ArmedContext
  BY TicketsOfType, TicketAddedType DEF TicketAddedReply, ArmedContext

(* msg_ticket_ready().                                                     *)
LEMMA SetReadyType ==
  ASSUME NEW c \in ArmedContext, NEW k \in Keys
  PROVE  SetReady(c, k) \in ArmedContext
<1>. DEFINE o == [i \in Requests |->
                    IF i \in TicketsWithKey(c, k)
                    THEN [c.obj[i] EXCEPT !.ready = TRUE] ELSE c.obj[i]]
<1>0. c \in ContextType /\ Armed(c)
  BY DEF ArmedContext
<1>1. o \in [Requests -> Ticket]
  <2>1. \A t \in Ticket : [t EXCEPT !.ready = TRUE] \in Ticket
    BY DEF Ticket
  <2>. QED  BY <1>0, <2>1, ContextFields
<1>2. [c EXCEPT !.obj = o] \in ContextType /\ SameMaps([c EXCEPT !.obj = o], c)
  <2>. HIDE DEF o
  <2>. QED  BY <1>0, <1>1, WithObj DEF SameMaps, ContextType
<1>3. SetReady(c, k) = [c EXCEPT !.obj = o]
  BY DEF SetReady
<1>. HIDE DEF o
<1>. QED  BY <1>0, <1>2, <1>3, SameMapsArmed DEF ArmedContext

(* msg_activate_lock().                                                    *)
LEMMA ActivateLockForType ==
  ASSUME NEW c \in ContextType, NEW s \in Leaders, NEW k \in Keys
  PROVE  ActivateLockFor(c, s, k) \in ArmedContext
<1>. DEFINE p == PruneTickets(c)
            first == FirstTicket(p, p.tickets)
            none == p.tickets = {}
            first_key == IF none THEN NoKey ELSE TicketKey(p, first)
            a == IF ~none /\ k = first_key THEN LockActivated(p, first) ELSE p
            m == [cmd |-> "LOCKACTIVATED", key |-> k, other_key |-> first_key]
<1>1. p \in ContextType /\ p.tickets \in SUBSET Requests
  BY PruneTicketsType, ContextFields
<1>2. ~none => first \in Requests
  <2>. HIDE DEF p
  <2>. QED  BY <1>1, FirstTicketType
<1>3. first_key \in Keys \cup {NoKey}
  <2>. HIDE DEF p, first, none
  <2>. QED  BY <1>1, <1>2, TicketKeyType
<1>4. a \in ContextType
  <2>. HIDE DEF p, first, none, first_key
  <2>. QED  BY <1>1, <1>2, LockActivatedType
<1>5. m \in LeaderMessage
  <2>. HIDE DEF first_key
  <2>. QED  BY <1>3 DEF LeaderMessage
<1>6. Cleanup(ReplyTo(a, s, m)) \in ArmedContext
  <2>. HIDE DEF a, m
  <2>. QED  BY <1>4, <1>5, ReplyType, CleanupArmed
<1>. QED  BY <1>6 DEF ActivateLockFor

(* msg_lock_activated().                                                   *)
LEMMA LockActivatedReplyType ==
  ASSUME NEW c \in ArmedContext, NEW m \in LeaderMessage
  PROVE  LockActivatedReply(c, m) \in ArmedContext
  BY TicketsOfType, LockActivatedType, LockActivatedSameMaps, SameMapsArmed
     DEF LockActivatedReply, ArmedContext

(* msg_drop_ticket().                                                      *)
LEMMA DropTicketForType ==
  ASSUME NEW c \in ContextType, NEW k \in Keys
  PROVE  DropTicketFor(c, k) \in ArmedContext
<1>. DEFINE d == [c EXCEPT !.tickets = @ \ TicketsWithKey(c, k)]
            a == IF c.tickets = {} THEN c ELSE ActivateFirstLock(d)
            e == [a EXCEPT !.entering = @ \ EnteringOf(a, k[2])]
<1>1. d \in ContextType
  BY ContextFields, WithTickets
<1>2. a \in ContextType
  <2>. HIDE DEF d
  <2>. QED  BY <1>1, ActivateFirstLockType
<1>3. e \in ContextType
  <2>. HIDE DEF a
  <2>. QED  BY <1>2, ContextFields, WithEntering
<1>4. DropTicketFor(c, k) = Cleanup(e)
  BY DEF DropTicketFor
<1>. HIDE DEF e
<1>. QED  BY <1>3, <1>4, CleanupArmed

(* msg_lock_failed().                                                      *)
LEMMA LockFailedForType ==
  ASSUME NEW c \in ContextType, NEW k \in Keys
  PROVE  LockFailedFor(c, k) \in ArmedContext
<1>. DEFINE found == TicketsWithKey(c, k)
            i == CHOOSE j \in found : TRUE
            d == [c EXCEPT !.tickets = @ \ found]
            a == IF d.tickets = {} THEN d ELSE ActivateFirstLock(d)
            m == [cmd |-> "LOCKFAILED", error |-> "invalid"]
<1>1. d \in ContextType
  BY ContextFields, WithTickets
<1>2. a \in ContextType
  <2>. HIDE DEF d
  <2>. QED  BY <1>1, ActivateFirstLockType
<1>3. found # {} => i \in Requests
  BY TicketsOfType
<1>4. m \in ClientMessage
  BY DEF ClientMessage
<1>5. found # {} => Cleanup(SendToClient(a, i, m)) \in ArmedContext
  <2>. HIDE DEF a, i, m, found
  <2>. QED  BY <1>2, <1>3, <1>4, SendToClientType, CleanupArmed
<1>6. LockFailedFor(c, k)
        = IF found = {} THEN Cleanup(c) ELSE Cleanup(SendToClient(a, i, m))
  BY DEF LockFailedFor
<1>. HIDE DEF found, a, i, m
<1>. QED  BY <1>5, <1>6, CleanupArmed

-----------------------------------------------------------------------------
(* The steps of the specification.                                         *)

(* Both theorems below are parts of one inductive invariant.               *)
IInv == TypeOK /\ TimerArmed

(* Under the invariant a leader handles its messages in an armed context.  *)
LEMMA ContextOfLeader ==
  ASSUME IInv, NEW l \in Leaders
  PROVE  Context(l) \in ArmedContext /\ Context(l) \in ContextType
<1>1. Context(l) \in ContextType
  BY DEF IInv, TypeOK, Context, ContextType
<1>2. Armed(Context(l))
  BY DEF IInv, TimerArmed, Armed, Context
<1>. QED  BY <1>1, <1>2 DEF ArmedContext

(* The invariant holds initially.                                          *)
LEMMA InitIInv == Init => IInv
<1>. SUFFICES ASSUME Init PROVE IInv
  OBVIOUS
<1>1. obj \in [Leaders -> [Requests -> Ticket]]
  <2>1. \A l \in Leaders : NewTicket(l, 0, 0, 0) \in Ticket
    BY NewTicketType
  <2>. QED  BY <2>1 DEF Init
<1>2. /\ client \in [Clients -> Client]
      /\ \A c \in Clients : client[c].phase = "idle"
  BY BoundsAssumption DEF Init, Client
<1>3. \A S : <<>> \in Seq(S)
  OBVIOUS
<1>4. TimerArmed
  BY DEF Init, TimerArmed
<1>. QED  BY <1>1, <1>2, <1>3, <1>4 DEF Init, IInv, TypeOK

(* The first message of a channel between leaders, and the rest.           *)
LEMMA LeaderHead ==
  ASSUME IInv, NEW s \in Leaders, NEW l \in Leaders, toLeader[s][l] # <<>>
  PROVE  /\ Head(toLeader[s][l]) \in LeaderMessage
         /\ Tail(toLeader[s][l]) \in Seq(LeaderMessage)
<1>1. toLeader[s][l] \in Seq(LeaderMessage)
  BY DEF IInv, TypeOK
<1>. QED  BY <1>1

(* The first message of a channel from a client, and the rest.             *)
LEMMA ClientHead ==
  ASSUME IInv, NEW c \in Clients, NEW l \in Leaders, fromClient[c][l] # <<>>
  PROVE  /\ Head(fromClient[c][l]) \in RequestMessage
         /\ Tail(fromClient[c][l]) \in Seq(RequestMessage)
<1>1. fromClient[c][l] \in Seq(RequestMessage)
  BY DEF IInv, TypeOK
<1>. QED  BY <1>1

(* A leader that ends up in an armed context satisfies the invariant.      *)
LEMMA BecomesType ==
  ASSUME IInv, NEW l \in Leaders, NEW cx \in ArmedContext, Becomes(l, cx)
  PROVE  /\ entering' \in [Leaders -> SUBSET Requests]
         /\ tickets' \in [Leaders -> SUBSET Requests]
         /\ obj' \in [Leaders -> [Requests -> Ticket]]
         /\ timer' \in [Leaders -> Nat \cup {Off}]
         /\ up' \in [Leaders -> BOOLEAN]
         /\ toClient' \in [Leaders -> [Requests -> Seq(ClientMessage)]]
         /\ TimerArmed'
<1>1. cx \in ContextType /\ Armed(cx)
  BY DEF ArmedContext
<1>2. TimerArmed'
  BY <1>1 DEF Becomes, IInv, TypeOK, TimerArmed, Armed
<1>. QED  BY <1>1, <1>2, ContextFields DEF Becomes, IInv, TypeOK

(* The same for a handler of a client's message                            *)
LEMMA TakesFromClientType ==
  ASSUME IInv, NEW c \in Clients, NEW l \in Leaders, NEW cx \in ArmedContext,
         fromClient[c][l] # <<>>, TakesFromClient(c, l, cx)
  PROVE  IInv'
<1>1. toLeader' \in [Leaders -> [Leaders -> Seq(LeaderMessage)]]
  BY ContextFields DEF ArmedContext, TakesFromClient, IInv, TypeOK
<1>2. fromClient' \in [Clients -> [Leaders -> Seq(RequestMessage)]]
  BY ClientHead DEF TakesFromClient, IInv, TypeOK
<1>. QED  BY <1>1, <1>2, BecomesType DEF TakesFromClient, IInv, TypeOK

(* and of a leader's message.                                              *)
LEMMA TakesFromLeaderType ==
  ASSUME IInv, NEW s \in Leaders, NEW l \in Leaders, NEW cx \in ArmedContext,
         s # l, toLeader[s][l] # <<>>, TakesFromLeader(s, l, cx)
  PROVE  IInv'
<1>1. toLeader' \in [Leaders -> [Leaders -> Seq(LeaderMessage)]]
  <2>. DEFINE f == [toLeader EXCEPT ![l] = cx.toLeader]
  <2>1. f \in [Leaders -> [Leaders -> Seq(LeaderMessage)]] /\ f[s] = toLeader[s]
    BY ContextFields DEF ArmedContext, IInv, TypeOK
  <2>2. toLeader' = [f EXCEPT ![s][l] = Tail(@)]
    BY DEF TakesFromLeader
  <2>3. Tail(f[s][l]) \in Seq(LeaderMessage)
    BY <2>1, LeaderHead
  <2>. HIDE DEF f
  <2>. QED  BY <2>1, <2>2, <2>3
<1>. QED  BY <1>1, BecomesType DEF TakesFromLeader, IInv, TypeOK

(* Handling LOCK and UNLOCK preserves the invariant.                       *)
LEMMA HandleClientType ==
  ASSUME IInv, NEW c \in Clients, NEW l \in Leaders, HandleClient(c, l)
  PROVE  IInv'
<1>. DEFINE m == Head(fromClient[c][l])
<1>1. /\ fromClient[c][l] # <<>>
      /\ Context(l) \in ContextType
      /\ m \in RequestMessage
  BY ContextOfLeader, ClientHead DEF HandleClient, msg_lock, msg_unlock, ClientSent
<1>2. CASE msg_lock(c, l)
  <2>1. Lock(Context(l), m) \in ArmedContext
    BY <1>1, <1>2, LockType DEF msg_lock, ClientSent
  <2>. QED  BY <1>1, <1>2, <2>1, TakesFromClientType DEF msg_lock
<1>3. CASE msg_unlock(c, l)
  <2>1. Unlock(Context(l), c) \in ArmedContext
    BY <1>1, UnlockType
  <2>. QED  BY <1>1, <1>3, <2>1, TakesFromClientType DEF msg_unlock
<1>. QED  BY <1>2, <1>3 DEF HandleClient

(* Handling any message of a leader preserves the invariant.               *)
LEMMA HandleLeaderType ==
  ASSUME IInv, NEW s \in Leaders, NEW l \in Leaders, HandleLeader(s, l)
  PROVE  IInv'
<1>. DEFINE m == Head(toLeader[s][l])
<1>1. s # l /\ toLeader[s][l] # <<>>
  BY DEF HandleLeader, LeaderSent, msg_lock_entering, msg_lock_entered, msg_lock_exiting, msg_get_max_ticket, msg_max_ticket,
          msg_add_ticket, msg_ticket_added, msg_ticket_ready, msg_activate_lock, msg_lock_activated,
          msg_drop_ticket, msg_lock_failed
<1>2. /\ Context(l) \in ArmedContext /\ Context(l) \in ContextType
      /\ m \in LeaderMessage
  BY <1>1, ContextOfLeader, LeaderHead
<1>3. CASE msg_lock_entering(s, l)
  <2>1. LockEntering(Context(l), s, m) \in ArmedContext
    BY <1>2, <1>3, MessageFields, LockEnteringType DEF msg_lock_entering, LeaderSent
  <2>. QED  BY <1>1, <1>3, <2>1, TakesFromLeaderType DEF msg_lock_entering
<1>4. CASE msg_lock_entered(s, l)
  <2>1. LockEntered(Context(l), m.key) \in ArmedContext
    BY <1>2, <1>4, MessageFields, LockEnteredType DEF msg_lock_entered, LeaderSent
  <2>. QED  BY <1>1, <1>4, <2>1, TakesFromLeaderType DEF msg_lock_entered
<1>5. CASE msg_lock_exiting(s, l)
  <2>1. LockExiting(Context(l), m.key) \in ArmedContext
    BY <1>2, <1>5, MessageFields, LockExitingType DEF msg_lock_exiting, LeaderSent
  <2>. QED  BY <1>1, <1>5, <2>1, TakesFromLeaderType DEF msg_lock_exiting
<1>6. CASE msg_get_max_ticket(s, l)
  <2>1. GetMaxTicket(Context(l), s, m.key) \in ArmedContext
    BY <1>2, <1>6, MessageFields, GetMaxTicketType DEF msg_get_max_ticket, LeaderSent
  <2>. QED  BY <1>1, <1>6, <2>1, TakesFromLeaderType DEF msg_get_max_ticket
<1>7. CASE msg_max_ticket(s, l)
  <2>1. MaxTicketReply(Context(l), m) \in ArmedContext
    BY <1>2, <1>7, MessageFields, MaxTicketReplyType DEF msg_max_ticket, LeaderSent
  <2>. QED  BY <1>1, <1>7, <2>1, TakesFromLeaderType DEF msg_max_ticket
<1>8. CASE msg_add_ticket(s, l)
  <2>1. AddTicketFor(Context(l), s, m.key) \in ArmedContext
    BY <1>2, <1>8, MessageFields, AddTicketForType DEF msg_add_ticket, LeaderSent
  <2>. QED  BY <1>1, <1>8, <2>1, TakesFromLeaderType DEF msg_add_ticket
<1>9. CASE msg_ticket_added(s, l)
  <2>1. TicketAddedReply(Context(l), m.key) \in ArmedContext
    BY <1>2, <1>9, MessageFields, TicketAddedReplyType DEF msg_ticket_added, LeaderSent
  <2>. QED  BY <1>1, <1>9, <2>1, TakesFromLeaderType DEF msg_ticket_added
<1>10. CASE msg_ticket_ready(s, l)
  <2>1. SetReady(Context(l), m.key) \in ArmedContext
    BY <1>2, <1>10, MessageFields, SetReadyType DEF msg_ticket_ready, LeaderSent
  <2>. QED  BY <1>1, <1>10, <2>1, TakesFromLeaderType DEF msg_ticket_ready
<1>11. CASE msg_activate_lock(s, l)
  <2>1. ActivateLockFor(Context(l), s, m.key) \in ArmedContext
    BY <1>2, <1>11, MessageFields, ActivateLockForType DEF msg_activate_lock, LeaderSent
  <2>. QED  BY <1>1, <1>11, <2>1, TakesFromLeaderType DEF msg_activate_lock
<1>12. CASE msg_lock_activated(s, l)
  <2>1. LockActivatedReply(Context(l), m) \in ArmedContext
    BY <1>2, <1>12, MessageFields, LockActivatedReplyType DEF msg_lock_activated, LeaderSent
  <2>. QED  BY <1>1, <1>12, <2>1, TakesFromLeaderType DEF msg_lock_activated
<1>13. CASE msg_drop_ticket(s, l)
  <2>1. DropTicketFor(Context(l), m.key) \in ArmedContext
    BY <1>2, <1>13, MessageFields, DropTicketForType DEF msg_drop_ticket, LeaderSent
  <2>. QED  BY <1>1, <1>13, <2>1, TakesFromLeaderType DEF msg_drop_ticket
<1>14. CASE msg_lock_failed(s, l)
  <2>1. LockFailedFor(Context(l), m.key) \in ArmedContext
    BY <1>2, <1>14, MessageFields, LockFailedForType DEF msg_lock_failed, LeaderSent
  <2>. QED  BY <1>1, <1>14, <2>1, TakesFromLeaderType DEF msg_lock_failed
<1>. QED  BY <1>3, <1>4, <1>5, <1>6, <1>7, <1>8, <1>9, <1>10, <1>11, <1>12, <1>13, <1>14
          DEF HandleLeader

(* The timer that fires preserves the invariant.                           *)
LEMMA TimeoutType ==
  ASSUME IInv, NEW l \in Leaders, process_timeout(l)
  PROVE  IInv'
<1>. DEFINE cx == Cleanup(Context(l))
<1>1. cx \in ArmedContext
  BY ContextOfLeader, CleanupArmed
<1>2. Becomes(l, cx) /\ toLeader' = [toLeader EXCEPT ![l] = cx.toLeader]
  BY DEF process_timeout
<1>. HIDE DEF cx
<1>3. toLeader' \in [Leaders -> [Leaders -> Seq(LeaderMessage)]]
  BY <1>1, <1>2, ContextFields DEF ArmedContext, IInv, TypeOK
<1>. QED  BY <1>1, <1>2, <1>3, BecomesType DEF process_timeout, IInv, TypeOK

(* A LOCK or UNLOCK on its way to some leader.                             *)
LEMMA SendToSnaplockType ==
  ASSUME IInv, NEW c \in Clients, NEW m \in RequestMessage, SendToSnaplock(c, m)
  PROVE  fromClient' \in [Clients -> [Leaders -> Seq(RequestMessage)]]
<1>1. PICK l \in Route(c) : fromClient' = [fromClient EXCEPT ![c][l] = Append(@, m)]
  BY DEF SendToSnaplock
<1>2. l \in Leaders
  BY HomeAssumption DEF Route
<1>3. Append(fromClient[c][l], m) \in Seq(RequestMessage)
  BY <1>2 DEF IInv, TypeOK
<1>. QED  BY <1>1, <1>2, <1>3 DEF IInv, TypeOK

(* A connection that got a message is a connection.                        *)
LEMMA ReceivedType ==
  ASSUME NEW k \in Client, NEW m \in ClientMessage
  PROVE  Received(k, m) \in Client
<1>1. CASE m.cmd = "LOCKED"
  <2>1. m.timeout_date \in Nat
    BY <1>1 DEF ClientMessage
  <2>. QED  BY <1>1, <2>1 DEF Received, Client
<1>2. CASE m.cmd = "LOCKFAILED"
  BY <1>2 DEF Received, Client
<1>3. CASE m.cmd = "UNLOCKED"
  BY <1>3 DEF Received, Client
<1>. QED  BY <1>1, <1>2, <1>3 DEF ClientMessage

(* A thread that reads its connection preserves the invariant.             *)
LEMMA ClientReadsType ==
  ASSUME IInv, NEW c \in Clients, NEW l \in Leaders,
         client[c].phase # "idle", ClientReads(c, l)
  PROVE  IInv'
<1>. DEFINE i == Request(c)
<1>0. i \in Requests /\ client[c].n > 0
  BY DEF IInv, TypeOK, Client, Request, Requests
<1>1. toClient[l][i] \in Seq(ClientMessage)
  BY <1>0 DEF IInv, TypeOK
<1>2. /\ Head(toClient[l][i]) \in ClientMessage
      /\ Tail(toClient[l][i]) \in Seq(ClientMessage)
  BY <1>1 DEF ClientReads
<1>3. /\ client' \in [Clients -> Client]
      /\ client'[c].n = client[c].n
      /\ \A d \in Clients \ {c} : client'[d] = client[d]
  <2>1. Received(client[c], Head(toClient[l][i])) \in Client
    BY <1>2, ReceivedType DEF IInv, TypeOK
  <2>2. Received(client[c], Head(toClient[l][i])).n = client[c].n
    <3>1. client[c] \in Client
      BY DEF IInv, TypeOK
    <3>2. Head(toClient[l][i]).cmd \in {"LOCKED", "LOCKFAILED", "UNLOCKED"}
      BY <1>2 DEF ClientMessage
    <3>. QED  BY <3>1, <3>2 DEF Received, Client
  <2>. QED  BY <2>1, <2>2 DEF ClientReads, IInv, TypeOK
<1>4. toClient' \in [Leaders -> [Requests -> Seq(ClientMessage)]]
  BY <1>0, <1>2 DEF ClientReads, IInv, TypeOK
<1>5. \A d \in Clients : client'[d].phase # "idle" => client'[d].n > 0
  BY <1>0, <1>3 DEF IInv, TypeOK
<1>. QED  BY <1>3, <1>4, <1>5 DEF ClientReads, tables, IInv, TypeOK, TimerArmed

(* snap_lock::lock() preserves the invariant.                              *)
LEMMA ClientLockType ==
  ASSUME IInv, NEW c \in Clients, ClientLock(c)
  PROVE  IInv'
<1>1. PICK o \in Obtentions, d \in Durations, u \in UnlockDurations :
        /\ client' = [client EXCEPT ![c] =
             [ phase |-> "waiting", n |-> @.n + 1, obtention |-> now + o,
               date |-> 0, timedout |-> FALSE, threw |-> @.threw ]]
        /\ SendToSnaplock(c, [ cmd |-> "LOCK", req |-> <<c, client[c].n + 1>>,
                               timeout |-> now + o, duration |-> d,
                               unlock_duration |-> u ])
  BY DEF ClientLock
<1>2. /\ client[c].n + 1 \in 1..MaxRequests
      /\ now + o \in Nat
      /\ client[c].threw \in BOOLEAN
  <2>1. client[c] \in Client /\ now \in Nat
    BY BoundsAssumption DEF IInv, TypeOK
  <2>2. client[c].n \in 0..MaxRequests /\ client[c].threw \in BOOLEAN
    BY <2>1 DEF Client
  <2>3. client[c].n < MaxRequests
    BY DEF ClientLock
  <2>4. o \in Nat /\ MaxRequests \in Nat
    BY ParametersAssumption, BoundsAssumption
  <2>. QED  BY <2>1, <2>2, <2>3, <2>4
<1>3. /\ client' \in [Clients -> Client]
      /\ \A k \in Clients : client'[k].phase # "idle" => client'[k].n > 0
  <2>. DEFINE k == [ phase |-> "waiting", n |-> client[c].n + 1, obtention |-> now + o,
                     date |-> 0, timedout |-> FALSE, threw |-> client[c].threw ]
  <2>1. k \in Client /\ k.n > 0
    BY <1>2, BoundsAssumption DEF Client
  <2>2. client' = [client EXCEPT ![c] = k]
    BY <1>1
  <2>. HIDE DEF k
  <2>. QED  BY <2>1, <2>2 DEF IInv, TypeOK
<1>4. [ cmd |-> "LOCK", req |-> <<c, client[c].n + 1>>, timeout |-> now + o,
        duration |-> d, unlock_duration |-> u ] \in RequestMessage
  BY <1>2, ParametersAssumption DEF RequestMessage, Requests
<1>5. fromClient' \in [Clients -> [Leaders -> Seq(RequestMessage)]]
  BY <1>1, <1>4, SendToSnaplockType
<1>. QED  BY <1>3, <1>5 DEF ClientLock, tables, IInv, TypeOK, TimerArmed

(* unlock() preserves the invariant.                                       *)
LEMMA ClientUnlockType ==
  ASSUME IInv, NEW c \in Clients, ClientUnlock(c)
  PROVE  IInv'
<1>. DEFINE k == [client[c] EXCEPT !.phase = "idle", !.date = 0]
<1>1. /\ client' \in [Clients -> Client]
      /\ \A d \in Clients : client'[d].phase # "idle" => client'[d].n > 0
  <2>0. client[c] \in Client
    BY DEF IInv, TypeOK
  <2>1. k \in Client /\ k.phase = "idle"
    BY <2>0 DEF Client
  <2>2. client' = [client EXCEPT ![c] = k]
    BY DEF ClientUnlock, IInv, TypeOK
  <2>. HIDE DEF k
  <2>. QED  BY <2>1, <2>2 DEF IInv, TypeOK
<1>2. [cmd |-> "UNLOCK"] \in RequestMessage
  BY DEF RequestMessage
<1>3. fromClient' \in [Clients -> [Leaders -> Seq(RequestMessage)]]
  <2>1. CASE client[c].date # 0
    BY <1>2, <2>1, SendToSnaplockType DEF ClientUnlock
  <2>2. CASE client[c].date = 0
    BY <2>2 DEF ClientUnlock, IInv, TypeOK
  <2>. QED  BY <2>1, <2>2
<1>. QED  BY <1>1, <1>3 DEF ClientUnlock, tables, IInv, TypeOK, TimerArmed

(* The obtention timeout preserves the invariant.                          *)
LEMMA ClientTimeoutType ==
  ASSUME IInv, NEW c \in Clients, ClientTimeout(c)
  PROVE  IInv'
<1>1. /\ client' \in [Clients -> Client]
      /\ \A k \in Clients : client'[k].phase # "idle" => client'[k].n > 0
  <2>. DEFINE k == [client[c] EXCEPT !.phase = "idle"]
  <2>0. client[c] \in Client
    BY DEF IInv, TypeOK
  <2>1. k \in Client /\ k.phase = "idle"
    BY <2>0 DEF Client
  <2>2. client' = [client EXCEPT ![c] = k]
    BY DEF ClientTimeout, IInv, TypeOK
  <2>. HIDE DEF k
  <2>. QED  BY <2>1, <2>2 DEF IInv, TypeOK
<1>. QED  BY <1>1 DEF ClientTimeout, tables, IInv, TypeOK, TimerArmed

(* The invariant is inductive: one case per kind of step.                  *)
LEMMA NextIInv == IInv /\ [Next]_vars => IInv'
<1>. SUFFICES ASSUME IInv, [Next]_vars PROVE IInv'
  OBVIOUS
<1>1. ASSUME NEW c \in Clients, ClientStep(c) PROVE IInv'
  <2>1. ASSUME NEW l \in Leaders, ClientRun(c, l) PROVE IInv'
    BY <2>1, ClientReadsType DEF ClientRun
  <2>2. ASSUME NEW l \in Leaders, ClientPeek(c, l) PROVE IInv'
    BY <2>2, ClientReadsType DEF ClientPeek
  <2>. QED  BY <1>1, <2>1, <2>2, ClientLockType, ClientUnlockType, ClientTimeoutType
            DEF ClientStep
<1>2. ASSUME NEW c \in Clients, NEW l \in Leaders, HandleClient(c, l) PROVE IInv'
  BY <1>2, HandleClientType
<1>3. ASSUME NEW s \in Leaders, NEW l \in Leaders, HandleLeader(s, l) PROVE IInv'
  BY <1>3, HandleLeaderType
<1>4. ASSUME NEW l \in Leaders, process_timeout(l) PROVE IInv'
  BY <1>4, TimeoutType
<1>5. CASE Tick
  BY <1>5 DEF Tick, tables, IInv, TypeOK, TimerArmed
<1>6. CASE UNCHANGED vars
  BY <1>6 DEF vars, IInv, TypeOK, TimerArmed
<1>. QED  BY <1>1, <1>2, <1>3, <1>4, <1>5, <1>6 DEF Next

(* Types and an armed timer, together, in every reachable state.           *)
THEOREM IInvHolds == Spec => []IInv
  BY InitIInv, NextIInv, PTL DEF Spec

(***************************************************************************)
(* Type correctness, whatever the leaders, the threads, the timeouts and   *)
(* the bounds: no handler of snaplock.cpp builds a message or a ticket     *)
(* with a field outside its range (a ticket number above UINT32_MAX, a     *)
(* negative unlock duration kept from the "use the lock duration" default, *)
(* a key without a ticket), and find_first_lock(), cleanup() and           *)
(* get_last_ticket() only choose from sets that are not empty.             *)
(***************************************************************************)
THEOREM TypeCorrect == Spec => []TypeOK
<1>1. IInv => TypeOK
  BY DEF IInv
<1>. QED  BY <1>1, IInvHolds, PTL

(***************************************************************************)
(* A snaplock leader that has a ticket in f_entering_tickets or f_tickets  *)
(* always has its timer set, so that cleanup() runs again and no ticket is *)
(* forgotten, although several handlers return without calling cleanup().  *)
(***************************************************************************)
THEOREM TimerAlwaysArmed == Spec => []TimerArmed
<1>1. IInv => TimerArmed
  BY DEF IInv
<1>. QED  BY <1>1, IInvHolds, PTL
=============================================================================
