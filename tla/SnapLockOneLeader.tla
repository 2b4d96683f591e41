------------------------- MODULE SnapLockOneLeader -------------------------
(***************************************************************************)
(* The lock is exclusive on a cluster with a single leader, for any number *)
(* of threads, retries and any timeouts, and the threads see the lock of   *)
(* module ExclusiveLock (second part).                                     *)
(*                                                                         *)
(* The argument: a thread only relies on a date it read in a LOCKED, and   *)
(* until that date its ticket stays in f_tickets, locked (Live).  A locked *)
(* ticket is the first of f_tickets (Sorted), because a new ticket gets a  *)
(* larger number than those in place.  Two threads that both hold the lock *)
(* would both have the first ticket.  What makes this an induction are the *)
(* messages in transit: a LOCKED that is not read yet has to be backed     *)
(* already (Good), an UNLOCK must not meet a later request of its thread   *)
(* that was granted (LastSent, Unhandled), and the ticket of a new request *)
(* must not be there before (Unhandled, Future).                           *)
(***************************************************************************)
EXTENDS SnapLockProofs

(* One computer: send_message_to_leaders() always returns false.           *)
OneLeader == \A s, l \in Leaders : s = l

(* No ticket in place has the largest number: max_ticket() does not wrap.  *)
NumbersLeft ==
  \A l \in Leaders : \A i \in tickets[l] : obj[l][i].our_ticket < MaxTicket

-----------------------------------------------------------------------------
(* Request j is locked in c until date x at least.                         *)
Live(c, j, x) ==
  /\ j \in c.tickets
  /\ c.obj[j].locked
  /\ c.obj[j].lock_timeout >= x

(* Every grant that waits to be read by j, and is not over, is backed by a *)
(* locked ticket.                                                          *)
Good(c, j) ==
  \A p \in 1..Len(c.toClient[j]) :
    /\ c.toClient[j][p].cmd = "LOCKED"
    /\ c.toClient[j][p].timeout_date > c.now
    => Live(c, j, c.toClient[j][p].timeout_date)

Sorted(c) ==
  \A i, j \in c.tickets :
    c.obj[i].locked => ~KeyLess(TicketKey(c, j), TicketKey(c, i))

Numbered(c) ==
  \A i \in c.tickets : c.obj[i].key_number = c.obj[i].our_ticket

(* Nothing of request j is known to the leader.                            *)
Clean(c, j) ==
  /\ j \notin c.tickets
  /\ j \notin c.entering
  /\ c.toClient[j] = <<>>

-----------------------------------------------------------------------------
(* The invariant.                                                          *)

Tables == \A l \in Leaders : Sorted(Context(l)) /\ Numbered(Context(l))

Grants ==
  \A l \in Leaders, c \in Clients :
    /\ client[c].phase # "idle" => Good(Context(l), Request(c))
    /\ Holds(c) => Live(Context(l), Request(c), client[c].date)

(* The LOCK of the current request is the last message a thread sent.      *)
LastSent ==
  \A l \in Leaders, c \in Clients :
    LET q == fromClient[c][l]
    IN  /\ client[c].phase = "held" => q = <<>>
        /\ client[c].phase = "waiting" /\ q # <<>> =>
             q[Len(q)].cmd = "LOCK" /\ q[Len(q)].req = Request(c)

(* A LOCK in a queue is the first trace of its request.                    *)
Unhandled ==
  \A l \in Leaders, c \in Clients :
    LET q == fromClient[c][l]
    IN  \A p \in 1..Len(q) : q[p].cmd = "LOCK" =>
          /\ q[p].req[1] = c
          /\ q[p].req[2] <= client[c].n
          /\ Clean(Context(l), q[p].req)
          /\ \A r \in 1..Len(q) :
               r # p /\ q[r].cmd = "LOCK" => q[r].req # q[p].req

Future ==
  \A l \in Leaders, c \in Clients, k \in 1..MaxRequests :
    k > client[c].n => Clean(Context(l), <<c, k>>)

LockInv == Tables /\ Grants /\ LastSent /\ Unhandled /\ Future

-----------------------------------------------------------------------------
(***************************************************************************)
(* What a function that takes c to d preserves: the grants of all requests *)
(* but those of X, which are given up, and everything that concerns the    *)
(* requests the leader does not know, except those of E, which enter.      *)
(***************************************************************************)
Frame(c, d, E) ==
  /\ d.now = c.now
  /\ d.tickets \subseteq c.tickets \cup E
  /\ d.entering \subseteq c.entering \cup E
  /\ \A j \in Requests :
       j \notin c.tickets /\ j \notin c.entering /\ j \notin E
         => d.toClient[j] = c.toClient[j]
  /\ \A j \in Requests \ E :
       /\ d.obj[j].our_ticket = c.obj[j].our_ticket
       /\ d.obj[j].key_number = c.obj[j].key_number

StaysLive(c, d, j) == \A x \in Nat : x > c.now /\ Live(c, j, x) => Live(d, j, x)

Kept(c, d, E, X) ==
  /\ Frame(c, d, E)
  /\ \A j \in Requests \ X : StaysLive(c, d, j) /\ (Good(c, j) => Good(d, j))
  /\ Sorted(c) => Sorted(d)
  /\ Numbered(c) => Numbered(d)

(* Kept composes,                                                          *)
LEMMA KeptTrans ==
  ASSUME NEW c \in ContextType, NEW d \in ContextType, NEW e \in ContextType,
         NEW E, NEW X, Kept(c, d, E, X), Kept(d, e, E, X)
  PROVE  Kept(c, e, E, X)
<1>1. Frame(c, e, E)
  BY DEF Kept, Frame
<1>2. \A j \in Requests \ X : StaysLive(c, e, j)
  BY DEF Kept, Frame, StaysLive
<1>. QED  BY <1>1, <1>2 DEF Kept

(* is reflexive,                                                           *)
LEMMA KeptRefl ==
  ASSUME NEW c \in ContextType, NEW E, NEW X
  PROVE  Kept(c, c, E, X)
  BY DEF Kept, Frame, StaysLive

(* and only gets weaker with larger sets.                                  *)
LEMMA KeptWeaker ==
  ASSUME NEW c \in ContextType, NEW d \in ContextType, Kept(c, d, {}, {}),
         NEW E, NEW X
  PROVE  Kept(c, d, E, X)
<1>1. Frame(c, d, E)
  BY DEF Kept, Frame
<1>. QED  BY <1>1 DEF Kept

(***************************************************************************)
(* The same requests with the same numbers and locks, and the same answers *)
(* to the clients.                                                         *)
(***************************************************************************)
SameLocks(c, d) ==
  /\ d.now = c.now
  /\ d.tickets = c.tickets
  /\ d.toClient = c.toClient
  /\ \A j \in Requests :
       /\ d.obj[j].our_ticket = c.obj[j].our_ticket
       /\ d.obj[j].key_number = c.obj[j].key_number
       /\ d.obj[j].locked = c.obj[j].locked
       /\ d.obj[j].lock_timeout = c.obj[j].lock_timeout

(* Such a change preserves everything.                                     *)
LEMMA SameLocksKept ==
  ASSUME NEW c \in ContextType, NEW d \in ContextType, SameLocks(c, d),
         d.entering \subseteq c.entering
  PROVE  Kept(c, d, {}, {})
<1>0. c.tickets \subseteq Requests
  BY ContextFields
<1>1. Frame(c, d, {})
  BY DEF SameLocks, Frame
<1>2. \A j \in Requests : StaysLive(c, d, j)
  BY DEF SameLocks, StaysLive, Live
<1>3. \A j \in Requests : Good(c, j) => Good(d, j)
  BY DEF SameLocks, Good, Live
<1>4. \A j \in c.tickets : TicketKey(d, j) = TicketKey(c, j)
  BY <1>0 DEF SameLocks, TicketKey
<1>5. Sorted(c) => Sorted(d)
  BY <1>0, <1>4 DEF SameLocks, Sorted
<1>6. Numbered(c) => Numbered(d)
  BY <1>0 DEF SameLocks, Numbered
<1>. QED  BY <1>1, <1>2, <1>3, <1>5, <1>6 DEF Kept

(* Sending messages to leaders.                                            *)
LEMMA SendKept ==
  ASSUME NEW c \in ContextType, NEW ms \in Seq(LeaderMessage)
  PROVE  Kept(c, SendSeqToLeaders(c, ms), {}, {})
<1>1. SendSeqToLeaders(c, ms) \in ContextType
  BY SendSeqType
<1>2. /\ SameLocks(c, SendSeqToLeaders(c, ms))
      /\ SendSeqToLeaders(c, ms).entering = c.entering
  BY DEF SendSeqToLeaders, SameLocks, ContextType
<1>. QED  BY <1>1, <1>2, SameLocksKept

(* The same for one message to the other leaders.                          *)
LEMMA SendOneKept ==
  ASSUME NEW c \in ContextType, NEW m \in LeaderMessage
  PROVE  Kept(c, SendToLeaders(c, m), {}, {})
<1>1. <<m>> \in Seq(LeaderMessage)
  OBVIOUS
<1>. QED  BY <1>1, SendKept DEF SendToLeaders

(* The positions of a queue to which one message was appended.             *)
LEMMA AppendAt ==
  ASSUME NEW q \in Seq(ClientMessage), NEW m \in ClientMessage,
         NEW p \in 1..Len(Append(q, m))
  PROVE  \/ p \in 1..Len(q) /\ Append(q, m)[p] = q[p]
         \/ p = Len(q) + 1 /\ Append(q, m)[p] = m
  OBVIOUS

(* The date of a grant.                                                    *)
LEMMA LockedDate ==
  ASSUME NEW m \in ClientMessage, m.cmd = "LOCKED"
  PROVE  m.timeout_date \in Nat
  BY DEF ClientMessage

(* lock_failed() prolongs a locked ticket and sends no grant.              *)
LEMMA LockFailedKept ==
  ASSUME NEW c \in ContextType, NEW S \in SUBSET (c.tickets \cup c.entering)
  PROVE  Kept(c, LockFailed(c, S), {}, {})
<1>. DEFINE d == LockFailed(c, S)
<1>0. d \in ContextType /\ c.tickets \subseteq Requests /\ c.entering \subseteq Requests
  BY LockFailedType, ContextFields
<1>1. /\ d.now = c.now
      /\ d.tickets = c.tickets
      /\ d.entering = c.entering
  BY DEF LockFailed, ContextType
<1>2. \A j \in Requests :
        d.obj[j] = IF j \in S /\ ~c.obj[j].failed THEN FailTicket(c.obj[j]) ELSE c.obj[j]
  BY DEF LockFailed, ContextType
<1>3. \A j \in Requests :
        \/ d.toClient[j] = c.toClient[j]
        \/ j \in S /\ d.toClient[j] = Append(c.toClient[j], FailureMessage(c.obj[j]))
  BY DEF LockFailed, ContextType
<1>4. \A t \in Ticket :
        /\ FailTicket(t).our_ticket = t.our_ticket
        /\ FailTicket(t).key_number = t.key_number
        /\ FailTicket(t).locked = t.locked
        /\ FailTicket(t).lock_timeout >= t.lock_timeout
  BY DEF FailTicket, Ticket
<1>5. \A j \in Requests :
        /\ c.obj[j] \in Ticket /\ d.obj[j] \in Ticket
        /\ d.obj[j].our_ticket = c.obj[j].our_ticket
        /\ d.obj[j].key_number = c.obj[j].key_number
        /\ d.obj[j].locked = c.obj[j].locked
        /\ d.obj[j].lock_timeout >= c.obj[j].lock_timeout
  <2>1. \A j \in Requests : c.obj[j] \in Ticket /\ d.obj[j] \in Ticket
    BY <1>0, ContextFields
  <2>2. \A t \in Ticket : t.lock_timeout >= t.lock_timeout
    BY DEF Ticket
  <2>. HIDE DEF d
  <2>. QED  BY <1>2, <1>4, <2>1, <2>2
<1>. HIDE DEF d
<1>6. Frame(c, d, {})
  BY <1>1, <1>3, <1>5 DEF Frame
<1>7. \A j \in Requests, x \in Nat : Live(c, j, x) => Live(d, j, x)
  BY <1>1, <1>5 DEF Live, Ticket
<1>8. ASSUME NEW j \in Requests, Good(c, j)
      PROVE  Good(d, j)
  <2>1. c.toClient[j] \in Seq(ClientMessage) /\ d.toClient[j] \in Seq(ClientMessage)
    BY <1>0, ContextFields
  <2>2. FailureMessage(c.obj[j]).cmd # "LOCKED"
    BY DEF FailureMessage
  <2>3. ASSUME NEW p \in 1..Len(d.toClient[j]), d.toClient[j][p].cmd = "LOCKED",
               d.toClient[j][p].timeout_date > d.now
        PROVE  Live(d, j, d.toClient[j][p].timeout_date)
    <3>1. p \in 1..Len(c.toClient[j]) /\ d.toClient[j][p] = c.toClient[j][p]
      <4>1. CASE d.toClient[j] = c.toClient[j]
        BY <4>1
      <4>2. CASE d.toClient[j] = Append(c.toClient[j], FailureMessage(c.obj[j]))
        <5>1. FailureMessage(c.obj[j]) \in ClientMessage
          BY DEF FailureMessage, ClientMessage
        <5>. QED  BY <4>2, <5>1, <2>1, <2>2, <2>3, AppendAt
      <4>. QED  BY <1>3, <4>1, <4>2
    <3>2. c.toClient[j][p].timeout_date \in Nat
      <4>1. c.toClient[j][p] \in ClientMessage
        BY <2>1, <3>1
      <4>. QED  BY <2>3, <3>1, <4>1, LockedDate
    <3>. QED  BY <1>1, <1>7, <1>8, <2>3, <3>1, <3>2 DEF Good
  <2>. QED  BY <2>3 DEF Good
<1>9. \A j \in Requests : TicketKey(d, j) = TicketKey(c, j)
  BY <1>5 DEF TicketKey
<1>10. Sorted(c) => Sorted(d)
  BY <1>0, <1>1, <1>5, <1>9 DEF Sorted
<1>11. Numbered(c) => Numbered(d)
  BY <1>0, <1>1, <1>5 DEF Numbered
<1>. QED  BY <1>6, <1>7, <1>8, <1>10, <1>11 DEF Kept, StaysLive, d

(* Erasing tickets that are not locked or are over, or those given up.     *)
LEMMA FewerTicketsKept ==
  ASSUME NEW c \in ContextType, NEW T \in SUBSET c.tickets, NEW X,
         \A j \in c.tickets \ X :
           c.obj[j].locked /\ c.obj[j].lock_timeout > c.now => j \in T
  PROVE  Kept(c, [c EXCEPT !.tickets = T], {}, X)
<1>. DEFINE d == [c EXCEPT !.tickets = T]
<1>0. c.tickets \subseteq Requests
  BY ContextFields
<1>1. /\ d.now = c.now /\ d.tickets = T /\ d.entering = c.entering
      /\ d.toClient = c.toClient /\ d.obj = c.obj
  BY DEF ContextType
<1>. HIDE DEF d
<1>2. Frame(c, d, {})
  BY <1>1 DEF Frame
<1>3. ASSUME NEW j \in Requests \ X, NEW x \in Nat, x > c.now, Live(c, j, x)
      PROVE  Live(d, j, x)
  <2>1. c.obj[j].lock_timeout \in Nat /\ c.now \in Nat
    BY ContextFields DEF Ticket
  <2>2. c.obj[j].lock_timeout > c.now
    BY <1>3, <2>1 DEF Live
  <2>. QED  BY <1>1, <1>3, <2>2 DEF Live
<1>4. ASSUME NEW j \in Requests \ X, Good(c, j)
      PROVE  Good(d, j)
  <2>1. ASSUME NEW p \in 1..Len(c.toClient[j]), c.toClient[j][p].cmd = "LOCKED",
               c.toClient[j][p].timeout_date > c.now
        PROVE  Live(d, j, c.toClient[j][p].timeout_date)
    <3>1. c.toClient[j][p] \in ClientMessage
      BY ContextFields
    <3>2. c.toClient[j][p].timeout_date \in Nat
      BY <2>1, <3>1, LockedDate
    <3>. QED  BY <1>3, <1>4, <2>1, <3>2 DEF Good
  <2>. QED  BY <1>1, <2>1 DEF Good
<1>5. Sorted(c) => Sorted(d)
  BY <1>1 DEF Sorted, TicketKey
<1>6. Numbered(c) => Numbered(d)
  BY <1>1 DEF Numbered
<1>. QED  BY <1>2, <1>3, <1>4, <1>5, <1>6 DEF Kept, StaysLive, d

(* Erasing entering tickets.                                               *)
LEMMA FewerEnteringKept ==
  ASSUME NEW c \in ContextType, NEW S \in SUBSET c.entering
  PROVE  Kept(c, [c EXCEPT !.entering = S], {}, {})
<1>1. [c EXCEPT !.entering = S] \in ContextType
  BY WithEntering, ContextFields
<1>2. /\ SameLocks(c, [c EXCEPT !.entering = S])
      /\ [c EXCEPT !.entering = S].entering = S
  BY DEF SameLocks, ContextType
<1>. QED  BY <1>1, <1>2, SameLocksKept

(* Only tickets whose time is up expire.                                   *)
LEMMA PruneTicketsKept ==
  ASSUME NEW c \in ContextType
  PROVE  Kept(c, PruneTickets(c), {}, {})
<1>. DEFINE f == LockFailed(c, {i \in c.tickets : TimedOut(c, i)})
            T == {i \in f.tickets : ~TimedOut(f, i)}
<1>1. f \in ContextType
  BY LockFailedType, ContextFields
<1>2. Kept(c, f, {}, {})
  BY LockFailedKept
<1>. HIDE DEF f
<1>3. \A j \in f.tickets :
        f.obj[j].locked /\ f.obj[j].lock_timeout > f.now => j \in T
  BY <1>1, ContextFields DEF TimedOut, CurrentTimeout, Ticket
<1>4. Kept(f, [f EXCEPT !.tickets = T], {}, {})
  <2>. HIDE DEF T
  <2>1. T \in SUBSET f.tickets
    BY DEF T
  <2>. QED  BY <1>1, <1>3, <2>1, FewerTicketsKept
<1>5. PruneTickets(c) = [f EXCEPT !.tickets = T]
  BY DEF PruneTickets, f
<1>. QED  BY <1>1, <1>2, <1>4, <1>5, PruneTicketsType, KeptTrans

(* Entering tickets that time out are not locked: no grant is lost.        *)
LEMMA PruneEnteringKept ==
  ASSUME NEW c \in ContextType
  PROVE  Kept(c, PruneEntering(c), {}, {})
<1>. DEFINE f == LockFailed(c, {i \in c.entering : TimedOut(c, i)})
            S == {i \in f.entering : ~TimedOut(f, i)}
<1>1. f \in ContextType
  BY LockFailedType, ContextFields
<1>2. Kept(c, f, {}, {})
  BY LockFailedKept
<1>. HIDE DEF f
<1>3. Kept(f, [f EXCEPT !.entering = S], {}, {})
  <2>1. S \in SUBSET f.entering
    OBVIOUS
  <2>. HIDE DEF S
  <2>. QED  BY <1>1, <2>1, FewerEnteringKept
<1>4. PruneEntering(c) = [f EXCEPT !.entering = S]
  BY DEF PruneEntering, f
<1>. QED  BY <1>1, <1>2, <1>3, <1>4, PruneEnteringType, KeptTrans

(* lock_activated() of the first ticket: its grant is backed.              *)
LEMMA LockActivatedKept ==
  ASSUME NEW c \in ContextType, NEW i \in c.tickets,
         \A j \in c.tickets : ~KeyLess(TicketKey(c, j), TicketKey(c, i))
  PROVE  Kept(c, LockActivated(c, i), {}, {})
<1>. DEFINE date == c.obj[i].lock_duration + c.now
            m == [cmd |-> "LOCKED", timeout_date |-> date]
            d == LockActivated(c, i)
<1>0. /\ c.tickets \subseteq Requests /\ d \in ContextType
      /\ c.obj[i] \in Ticket /\ c.now \in Nat
  BY ContextFields, LockActivatedType
<1>1. date \in Nat /\ m \in ClientMessage
  BY <1>0 DEF Ticket, ClientMessage
<1>2. CASE ~Activatable(c.obj[i])
  BY <1>2, KeptRefl DEF LockActivated
<1>3. CASE Activatable(c.obj[i])
  <2>1. /\ d.now = c.now /\ d.tickets = c.tickets /\ d.entering = c.entering
        /\ d.obj = [c.obj EXCEPT ![i] = [@ EXCEPT !.locked = TRUE,
                                                  !.lock_timeout = date]]
        /\ \/ d.toClient = c.toClient
           \/ d.toClient = [c.toClient EXCEPT ![i] = Append(@, m)]
    BY <1>3 DEF LockActivated, SendToClient, ContextType
  <2>2. \A j \in Requests :
          /\ d.obj[j].our_ticket = c.obj[j].our_ticket
          /\ d.obj[j].key_number = c.obj[j].key_number
          /\ j # i => d.obj[j] = c.obj[j]
    <3>. HIDE DEF date, d
    <3>1. \A j \in Requests \ {i} : d.obj[j] = c.obj[j]
      BY <2>1, ContextFields
    <3>2. d.obj[i] = [c.obj[i] EXCEPT !.locked = TRUE, !.lock_timeout = date]
      BY <1>0, <2>1, ContextFields
    <3>3. /\ d.obj[i].our_ticket = c.obj[i].our_ticket
          /\ d.obj[i].key_number = c.obj[i].key_number
      BY <1>0, <3>2 DEF Ticket
    <3>. QED  BY <3>1, <3>3
  <2>3. d.obj[i].locked /\ d.obj[i].lock_timeout = date
    BY <1>0, <2>1, ContextFields DEF Ticket
  <2>4. ~c.obj[i].locked
    BY <1>3 DEF Activatable
  <2>5. \A j \in Requests :
          \/ d.toClient[j] = c.toClient[j]
          \/ j = i /\ d.toClient[j] = Append(c.toClient[j], m)
    <3>. HIDE DEF m
    <3>. QED  BY <2>1, ContextFields
  <2>. HIDE DEF d
  <2>6. Frame(c, d, {})
    BY <1>0, <2>1, <2>2, <2>5 DEF Frame
  <2>7. \A j \in Requests, x \in Nat : Live(c, j, x) => Live(d, j, x)
    BY <2>1, <2>2, <2>4 DEF Live
  <2>8. ASSUME NEW j \in Requests, Good(c, j)
        PROVE  Good(d, j)
    <3>1. c.toClient[j] \in Seq(ClientMessage)
      BY ContextFields
    <3>2. ASSUME NEW p \in 1..Len(d.toClient[j]), d.toClient[j][p].cmd = "LOCKED",
                 d.toClient[j][p].timeout_date > d.now
          PROVE  Live(d, j, d.toClient[j][p].timeout_date)
      <4>1. CASE p \in 1..Len(c.toClient[j]) /\ d.toClient[j][p] = c.toClient[j][p]
        <5>1. c.toClient[j][p].timeout_date \in Nat
          <6>1. c.toClient[j][p] \in ClientMessage
            BY <3>1, <4>1
          <6>. QED  BY <3>2, <4>1, <6>1, LockedDate
        <5>. QED  BY <2>1, <2>7, <2>8, <3>2, <4>1, <5>1 DEF Good
      <4>2. CASE j = i /\ d.toClient[j][p] = m
        <5>1. d.toClient[j][p].timeout_date = date
          BY <4>2
        <5>. HIDE DEF m, date
        <5>. QED  BY <1>1, <2>1, <2>3, <4>2, <5>1 DEF Live
      <4>3. CASE d.toClient[j] = c.toClient[j]
        BY <4>1, <4>3
      <4>4. CASE j = i /\ d.toClient[j] = Append(c.toClient[j], m)
        <5>. HIDE DEF m
        <5>. QED  BY <1>1, <3>1, <4>1, <4>2, <4>4, AppendAt
      <4>. QED  BY <2>5, <4>3, <4>4
    <3>. QED  BY <3>2 DEF Good
  <2>9. \A j \in c.tickets : TicketKey(d, j) = TicketKey(c, j)
    BY <1>0, <2>2 DEF TicketKey
  <2>10. Sorted(c) => Sorted(d)
    BY <1>0, <2>1, <2>2, <2>9 DEF Sorted
  <2>11. Numbered(c) => Numbered(d)
    BY <1>0, <2>1, <2>2 DEF Numbered
  <2>. QED  BY <2>6, <2>7, <2>8, <2>10, <2>11 DEF Kept, StaysLive, d
<1>. QED  BY <1>2, <1>3

(* activate_lock() of the first ticket.                                    *)
LEMMA ActivateLockKept ==
  ASSUME NEW c \in ContextType, NEW i \in c.tickets,
         \A j \in c.tickets : ~KeyLess(TicketKey(c, j), TicketKey(c, i))
  PROVE  Kept(c, ActivateLock(c, i), {}, {})
<1>. DEFINE m == [cmd |-> "ACTIVATELOCK", key |-> TicketKey(c, i)]
<1>1. m \in LeaderMessage
  BY TicketKeyType, ContextFields DEF LeaderMessage
<1>2. Kept(c, SendToLeaders(c, m), {}, {})
  <2>. HIDE DEF m
  <2>. QED  BY <1>1, SendOneKept
<1>. QED  BY <1>2, LockActivatedKept, KeptRefl DEF ActivateLock

(* activate_first_lock().                                                  *)
LEMMA ActivateFirstLockKept ==
  ASSUME NEW c \in ContextType
  PROVE  Kept(c, ActivateFirstLock(c), {}, {})
<1>. DEFINE p == PruneTickets(c)
            first == FirstTicket(p, p.tickets)
<1>1. p \in ContextType /\ Kept(c, p, {}, {})
  BY PruneTicketsType, PruneTicketsKept
<1>. HIDE DEF p
<1>2. CASE p.tickets = {}
  BY <1>1, <1>2 DEF ActivateFirstLock, p
<1>3. CASE p.tickets # {}
  <2>1. /\ first \in p.tickets /\ first \in Requests
        /\ \A j \in p.tickets : ~KeyLess(TicketKey(p, j), TicketKey(p, first))
    BY <1>1, <1>3, FirstTicketType, ContextFields
  <2>. HIDE DEF first
  <2>2. /\ ActivateLock(p, first) \in ContextType
        /\ Kept(p, ActivateLock(p, first), {}, {})
    BY <1>1, <2>1, ActivateLockType, ActivateLockKept
  <2>3. ActivateFirstLock(c) = ActivateLock(p, first)
    BY <1>3 DEF ActivateFirstLock, p, first
  <2>. QED  BY <1>1, <2>2, <2>3, KeptTrans
<1>. QED  BY <1>2, <1>3

(* cleanup() takes no grant back before its date.                          *)
LEMMA CleanupKept ==
  ASSUME NEW c \in ContextType
  PROVE  Kept(c, Cleanup(c), {}, {})
<1>. DEFINE p == PruneTickets(c)
            a == IF p.tickets # c.tickets /\ p.tickets # {}
                 THEN ActivateFirstLock(p) ELSE p
            e == PruneEntering(a)
<1>1. p \in ContextType /\ Kept(c, p, {}, {})
  BY PruneTicketsType, PruneTicketsKept
<1>2. a \in ContextType /\ Kept(p, a, {}, {})
  <2>. HIDE DEF p
  <2>. QED  BY <1>1, ActivateFirstLockType, ActivateFirstLockKept, KeptRefl
<1>. HIDE DEF p, a
<1>3. e \in ContextType /\ Kept(a, e, {}, {})
  BY <1>2, PruneEnteringType, PruneEnteringKept
<1>. HIDE DEF e
<1>4. Cleanup(c) \in ContextType /\ Kept(e, Cleanup(c), {}, {})
  <2>1. PICK t : Cleanup(c) = [e EXCEPT !.timer = t]
    BY DEF Cleanup, e, a, p
  <2>2. Cleanup(c) \in ContextType
    BY CleanupType
  <2>3. SameLocks(e, Cleanup(c)) /\ Cleanup(c).entering = e.entering
    BY <1>3, <2>1 DEF SameLocks, ContextType
  <2>. QED  BY <1>3, <2>2, <2>3, SameLocksKept
<1>5. Kept(c, a, {}, {})
  BY <1>1, <1>2, KeptTrans
<1>6. Kept(c, e, {}, {})
  BY <1>2, <1>3, <1>5, KeptTrans
<1>. QED  BY <1>3, <1>4, <1>6, KeptTrans

(* remove_entering() of every ticket.                                      *)
LEMMA RemoveEnteringKept ==
  ASSUME NEW c \in ContextType, NEW k \in Clients
  PROVE  Kept(c, RemoveEntering(c, k), {}, {})
<1>. DEFINE d == RemoveEntering(c, k)
<1>1. d \in ContextType
  BY RemoveEnteringType
<1>2. /\ d.now = c.now /\ d.tickets = c.tickets /\ d.entering = c.entering
      /\ d.toClient = c.toClient
  BY DEF RemoveEntering, SendSeqToLeaders, ContextType
<1>3. \A j \in Requests : \E S, b :
        \/ d.obj[j] = c.obj[j]
        \/ d.obj[j] = [c.obj[j] EXCEPT !.still_entering = S, !.ready = b]
  BY DEF RemoveEntering, SendSeqToLeaders, ContextType
<1>. HIDE DEF d
<1>4. \A j \in Requests :
        /\ d.obj[j].our_ticket = c.obj[j].our_ticket
        /\ d.obj[j].key_number = c.obj[j].key_number
        /\ d.obj[j].locked = c.obj[j].locked
        /\ d.obj[j].lock_timeout = c.obj[j].lock_timeout
  <2>. SUFFICES ASSUME NEW j \in Requests
                PROVE  /\ d.obj[j].our_ticket = c.obj[j].our_ticket
                       /\ d.obj[j].key_number = c.obj[j].key_number
                       /\ d.obj[j].locked = c.obj[j].locked
                       /\ d.obj[j].lock_timeout = c.obj[j].lock_timeout
    OBVIOUS
  <2>1. c.obj[j] \in Ticket
    BY ContextFields
  <2>. QED  BY <1>3, <2>1 DEF Ticket
<1>. QED  BY <1>1, <1>2, <1>4, SameLocksKept DEF SameLocks, d

(* msg_lock_exiting().                                                     *)
LEMMA LockExitingKept ==
  ASSUME NEW c \in ContextType, NEW k \in Clients
  PROVE  Kept(c, LockExiting(c, k), {}, {})
<1>. DEFINE e == [c EXCEPT !.entering = @ \ EnteringOf(c, k)]
            r == RemoveEntering(e, k)
            a == ActivateFirstLock(r)
<1>1. e \in ContextType /\ Kept(c, e, {}, {})
  BY WithEntering, ContextFields, FewerEnteringKept
<1>. HIDE DEF e
<1>2. r \in ContextType /\ Kept(c, r, {}, {})
  BY <1>1, RemoveEnteringType, RemoveEnteringKept, KeptTrans
<1>. HIDE DEF r
<1>3. a \in ContextType /\ Kept(c, a, {}, {})
  BY <1>2, ActivateFirstLockType, ActivateFirstLockKept, KeptTrans
<1>. HIDE DEF a
<1>4. Kept(c, Cleanup(c), {}, {})
  BY CleanupKept
<1>5. Kept(c, Cleanup(e), {}, {})
  BY <1>1, CleanupKept, CleanupType, KeptTrans
<1>6. Kept(c, Cleanup(a), {}, {})
  BY <1>3, CleanupKept, CleanupType, KeptTrans
<1>7. LockExiting(c, k) \in {Cleanup(c), Cleanup(e), Cleanup(a)}
  BY DEF LockExiting, e, r, a
<1>. QED  BY <1>4, <1>5, <1>6, <1>7

(* ticket_added(), which ends with lock_exiting().                         *)
LEMMA TicketAddedKept ==
  ASSUME NEW c \in ContextType, NEW i \in Requests
  PROVE  Kept(c, TicketAdded(c, i), {}, {})
<1>. DEFINE t == [c.obj[i] EXCEPT !.quorum = TRUE, !.still_entering = c.entering]
            q == [c EXCEPT !.obj[i] = t]
            m == [cmd |-> "LOCKEXITING", key |-> EnteringKey(i)]
            s == SendToLeaders(q, m)
            x == LockExiting(s, EnteringKey(i))
<1>1. t \in Ticket
  <2>1. c.obj[i] \in Ticket /\ c.entering \in SUBSET Requests
    BY ContextFields
  <2>. QED  BY <2>1 DEF Ticket
<1>2. q \in ContextType
  <2>. HIDE DEF t
  <2>. QED  BY <1>1, WithOneObj
<1>3. SameLocks(c, q) /\ q.entering = c.entering
  <2>1. \A j \in Requests : q.obj[j] = IF j = i THEN t ELSE c.obj[j]
    <3>. HIDE DEF t
    <3>. QED  BY DEF ContextType
  <2>2. /\ t.our_ticket = c.obj[i].our_ticket /\ t.key_number = c.obj[i].key_number
        /\ t.locked = c.obj[i].locked /\ t.lock_timeout = c.obj[i].lock_timeout
    BY ContextFields DEF Ticket
  <2>3. /\ q.now = c.now /\ q.tickets = c.tickets /\ q.entering = c.entering
        /\ q.toClient = c.toClient
    BY DEF ContextType
  <2>. HIDE DEF q, t
  <2>. QED  BY <2>1, <2>2, <2>3 DEF SameLocks
<1>. HIDE DEF q
<1>4. Kept(c, q, {}, {})
  BY <1>2, <1>3, SameLocksKept
<1>5. m \in LeaderMessage /\ EnteringKey(i) \in Clients
  BY RequestParts DEF LeaderMessage
<1>. HIDE DEF m
<1>6. s \in ContextType /\ Kept(q, s, {}, {})
  BY <1>2, <1>5, SendType, SendOneKept
<1>. HIDE DEF s
<1>7. x \in ContextType /\ Kept(s, x, {}, {})
  BY <1>5, <1>6, LockExitingType, LockExitingKept DEF ArmedContext
<1>8. Kept(c, x, {}, {})
  BY <1>2, <1>4, <1>6, <1>7, KeptTrans
<1>. QED  BY <1>8, KeptRefl DEF TicketAdded, x, s, q, m

(* What happens to the ticket of a request that is not in f_tickets yet is *)
(* of no consequence to the others.                                        *)
LEMMA NewcomerKept ==
  ASSUME NEW c \in ContextType, NEW d \in ContextType, NEW i \in Requests,
         i \notin c.tickets,
         d.now = c.now, d.tickets = c.tickets, d.toClient = c.toClient,
         d.entering \subseteq c.entering \cup {i},
         \A j \in Requests \ {i} : d.obj[j] = c.obj[j]
  PROVE  Kept(c, d, {i}, {})
<1>0. c.tickets \subseteq Requests \ {i}
  BY ContextFields
<1>1. Frame(c, d, {i})
  BY DEF Frame
<1>2. \A j \in Requests : \A x : Live(c, j, x) => Live(d, j, x)
  BY <1>0 DEF Live
<1>3. \A j \in Requests : Good(c, j) => Good(d, j)
  BY <1>2 DEF Good
<1>4. Sorted(c) => Sorted(d)
  BY <1>0 DEF Sorted, TicketKey
<1>5. Numbered(c) => Numbered(d)
  BY <1>0 DEF Numbered
<1>. QED  BY <1>1, <1>2, <1>3, <1>4, <1>5 DEF Kept, StaysLive

(* A ticket numbered after those in place comes last.                      *)
LEMMA SetTicketKept ==
  ASSUME NEW c \in ContextType, NEW i \in Requests, i \notin c.tickets,
         Numbered(c), ~c.obj[i].locked,
         c.obj[i].key_number = c.obj[i].our_ticket,
         \A j \in c.tickets : c.obj[j].our_ticket < c.obj[i].our_ticket
  PROVE  Kept(c, SetTicket(c, i), {i}, {})
<1>. DEFINE d == SetTicket(c, i)
            num(j) == c.obj[j].key_number
<1>0. c.tickets \subseteq Requests
  BY ContextFields
<1>1. \A j \in Requests : num(j) \in Nat /\ EnteringKey(j) \in Nat
  BY ContextFields, BoundsAssumption, RequestParts DEF Ticket, Numbers
<1>2. \A j \in c.tickets : num(j) < num(i)
  BY DEF Numbered
<1>3. \A j \in Requests : TicketKey(c, j) = <<num(j), EnteringKey(j)>>
  BY DEF TicketKey
<1>4. TicketsWithKey(c, TicketKey(c, i)) = {}
  <2>. HIDE DEF num
  <2>1. ASSUME NEW j \in c.tickets PROVE TicketKey(c, j) # TicketKey(c, i)
    BY <1>0, <1>1, <1>2, <1>3
  <2>. QED  BY <2>1 DEF TicketsWithKey
<1>5. /\ d.now = c.now /\ d.entering = c.entering /\ d.toClient = c.toClient
      /\ d.obj = c.obj /\ d.tickets = c.tickets \cup {i}
  BY <1>4 DEF SetTicket, ContextType
<1>. HIDE DEF d
<1>6. Frame(c, d, {i})
  BY <1>5 DEF Frame
<1>7. \A j \in Requests : \A x : Live(c, j, x) => Live(d, j, x)
  BY <1>5 DEF Live
<1>8. \A j \in Requests : Good(c, j) => Good(d, j)
  BY <1>5, <1>7 DEF Good
<1>9. Sorted(c) => Sorted(d)
  <2>. SUFFICES ASSUME Sorted(c), NEW j \in d.tickets, NEW k \in d.tickets,
                       c.obj[j].locked
                PROVE  ~KeyLess(TicketKey(c, k), TicketKey(c, j))
    BY <1>5 DEF Sorted, TicketKey
  <2>1. j \in c.tickets
    BY <1>5
  <2>2. CASE k \in c.tickets
    BY <2>1, <2>2 DEF Sorted
  <2>3. CASE k = i
    <3>. HIDE DEF num
    <3>. QED  BY <1>0, <1>1, <1>2, <1>3, <2>1, <2>3 DEF KeyLess
  <2>. QED  BY <1>5, <2>2, <2>3
<1>10. Numbered(d)
  BY <1>5 DEF Numbered
<1>. QED  BY <1>6, <1>7, <1>8, <1>9, <1>10 DEF Kept, StaysLive, d

(* add_ticket() of a leader that is alone.                                 *)
LEMMA AddTicketKept ==
  ASSUME OneLeader, NEW c \in ContextType, NEW i \in Requests, i \notin c.tickets,
         Numbered(c), ~c.obj[i].locked,
         \A j \in c.tickets : c.obj[j].our_ticket < c.obj[i].our_ticket
  PROVE  Kept(c, AddTicket(c, i), {i}, {})
<1>. DEFINE t == [c.obj[i] EXCEPT !.added_ticket = TRUE,
                                  !.key_number = c.obj[i].our_ticket]
            d == [c EXCEPT !.obj[i] = t]
            a == SetTicket(d, i)
            b == TicketAdded(a, i)
<1>1. t \in Ticket /\ t.key_number = t.our_ticket
      /\ t.our_ticket = c.obj[i].our_ticket /\ t.locked = c.obj[i].locked
  <2>1. c.obj[i] \in Ticket
    BY ContextFields
  <2>. QED  BY <2>1 DEF Ticket
<1>. HIDE DEF t
<1>2. d \in ContextType
  BY <1>1, WithOneObj
<1>3. /\ d.now = c.now /\ d.tickets = c.tickets /\ d.toClient = c.toClient
      /\ d.entering = c.entering /\ d.obj[i] = t
      /\ \A j \in Requests \ {i} : d.obj[j] = c.obj[j]
  BY DEF ContextType
<1>. HIDE DEF d
<1>4. Kept(c, d, {i}, {})
  BY <1>2, <1>3, NewcomerKept
<1>5. a \in ContextType /\ Kept(d, a, {i}, {})
  <2>1. c.tickets \subseteq Requests \ {i}
    BY ContextFields
  <2>2. Numbered(d)
    BY <1>4 DEF Kept
  <2>3. \A j \in d.tickets : d.obj[j].our_ticket < d.obj[i].our_ticket
    BY <1>1, <1>3, <2>1
  <2>. QED  BY <1>1, <1>2, <1>3, <2>2, <2>3, SetTicketType, SetTicketKept
<1>. HIDE DEF a
<1>6. b \in ContextType /\ Kept(a, b, {i}, {})
  BY <1>5, TicketAddedType, TicketAddedKept, KeptWeaker
<1>7. Alone(c)
  BY ContextFields DEF Alone, Others, OneLeader
<1>8. AddTicket(c, i) = b
  BY <1>7 DEF AddTicket, b, a, d, t
<1>9. Kept(c, a, {i}, {})
  BY <1>2, <1>4, <1>5, KeptTrans
<1>. QED  BY <1>5, <1>6, <1>8, <1>9, KeptTrans

(* get_last_ticket() is the number of a ticket in place, and the largest.  *)
LEMMA GetLastTicketBounds ==
  ASSUME NEW c \in ContextType
  PROVE  /\ \A j \in c.tickets : c.obj[j].our_ticket <= GetLastTicket(c)
         /\ \/ GetLastTicket(c) = 0
            \/ \E j \in c.tickets : GetLastTicket(c) = c.obj[j].our_ticket
<1>. DEFINE S == {0} \cup {c.obj[i].our_ticket : i \in c.tickets}
<1>1. S \in SUBSET Numbers /\ S # {}
  <2>1. \A i \in c.tickets : c.obj[i].our_ticket \in Numbers
    BY ContextFields DEF Ticket
  <2>. QED  BY <2>1, BoundsAssumption DEF Numbers
<1>2. Max(S) \in S /\ \A y \in S : Max(S) >= y
  <2>. HIDE DEF S
  <2>. QED  BY <1>1, NumbersMaxExists DEF Max
<1>3. \A y \in S : Max(S) \in Int /\ y \in Int
  <2>1. \A y \in Numbers : y \in Int
    BY BoundsAssumption DEF Numbers
  <2>. HIDE DEF S
  <2>. QED  BY <1>1, <1>2, <2>1
<1>4. GetLastTicket(c) = Max(S)
  BY DEF GetLastTicket
<1>5. \A y \in S : y <= Max(S)
  <2>. HIDE DEF S
  <2>. QED  BY <1>2, <1>3
<1>. QED  BY <1>2, <1>4, <1>5

(* The whole life of a new ticket up to the end of lock_exiting().         *)
LEMMA EnteringKept ==
  ASSUME OneLeader, NEW c \in ContextType, NEW i \in Requests, i \notin c.tickets,
         Numbered(c), ~c.obj[i].locked,
         \A j \in c.tickets : c.obj[j].our_ticket < MaxTicket
  PROVE  Kept(c, Entering(c, i), {i}, {})
<1>. DEFINE last == GetLastTicket(c)
            t == [c.obj[i] EXCEPT !.get_max_ticket = TRUE, !.our_ticket = last]
            g == [c EXCEPT !.obj[i] = t]
            u == [t EXCEPT !.our_ticket = last + 1]
            h == [g EXCEPT !.obj[i] = u]
<1>1. /\ last \in Nat /\ last < MaxTicket
      /\ \A j \in c.tickets : c.obj[j].our_ticket <= last
  BY GetLastTicketBounds, GetLastTicketType, BoundsAssumption DEF Numbers
<1>. HIDE DEF last
<1>2. /\ last \in Numbers /\ last + 1 \in Numbers
      /\ (last + 1) % (MaxTicket + 1) = last + 1
  BY <1>1, BoundsAssumption DEF Numbers
<1>3. /\ t \in Ticket /\ u \in Ticket
      /\ t.our_ticket = last /\ t.added_ticket = c.obj[i].added_ticket
      /\ u.our_ticket = last + 1 /\ u.locked = c.obj[i].locked
  <2>1. c.obj[i] \in Ticket
    BY ContextFields
  <2>. QED  BY <1>2, <2>1 DEF Ticket
<1>4. g \in ContextType /\ h \in ContextType
  <2>. HIDE DEF t, u
  <2>1. g \in ContextType
    BY <1>3, WithOneObj
  <2>. HIDE DEF g
  <2>. QED  BY <1>3, <2>1, WithOneObj
<1>5. /\ g.now = c.now /\ g.tickets = c.tickets /\ g.toClient = c.toClient
      /\ g.entering = c.entering /\ g.obj[i] = t /\ g.self = c.self
      /\ \A j \in Requests \ {i} : g.obj[j] = c.obj[j]
  <2>. HIDE DEF t
  <2>. QED  BY DEF ContextType
<1>6. /\ h.now = c.now /\ h.tickets = c.tickets /\ h.toClient = c.toClient
      /\ h.entering = c.entering /\ h.obj[i] = u
      /\ \A j \in Requests \ {i} : h.obj[j] = c.obj[j]
  <2>. HIDE DEF t, u, g
  <2>. QED  BY <1>4, <1>5 DEF ContextType
<1>7. Alone(c)
  BY ContextFields DEF Alone, Others, OneLeader
<1>8. Entering(c, i) = IF c.obj[i].get_max_ticket THEN c
                       ELSE MaxTicketReceived(g, i, last)
  BY <1>7 DEF Entering, Entered, last
<1>9. MaxTicketReceived(g, i, last)
        = IF c.obj[i].added_ticket THEN g ELSE AddTicket(h, i)
  <2>. HIDE DEF g, t
  <2>1. (IF last > g.obj[i].our_ticket THEN last ELSE g.obj[i].our_ticket) = last
    BY <1>1, <1>3, <1>5
  <2>2. MaxTicketReceived(g, i, last)
          = IF g.obj[i].added_ticket THEN g
            ELSE AddTicket([g EXCEPT !.obj[i] =
                             [@ EXCEPT !.our_ticket = last + 1]], i)
    BY <1>2, <2>1 DEF MaxTicketReceived
  <2>3. [g EXCEPT !.obj[i] = [@ EXCEPT !.our_ticket = last + 1]] = h
    BY <1>5
  <2>. QED  BY <1>3, <1>5, <2>2, <2>3
<1>. HIDE DEF g, h, t, u
<1>10. Kept(c, g, {i}, {})
  BY <1>4, <1>5, NewcomerKept
<1>11. Kept(c, h, {i}, {})
  BY <1>4, <1>6, NewcomerKept
<1>12. Kept(h, AddTicket(h, i), {i}, {}) /\ AddTicket(h, i) \in ContextType
  <2>1. c.tickets \subseteq Requests \ {i}
    BY ContextFields
  <2>2. \A j \in c.tickets : c.obj[j].our_ticket \in Nat
    BY ContextFields, BoundsAssumption DEF Ticket, Numbers
  <2>3. \A j \in h.tickets : h.obj[j].our_ticket < h.obj[i].our_ticket
    BY <1>1, <1>3, <1>6, <2>1, <2>2
  <2>4. Numbered(h)
    BY <1>11 DEF Kept
  <2>. QED  BY <1>3, <1>4, <1>6, <2>3, <2>4, AddTicketKept, AddTicketType
<1>13. Kept(c, AddTicket(h, i), {i}, {})
  BY <1>4, <1>11, <1>12, KeptTrans
<1>. QED  BY <1>8, <1>9, <1>10, <1>13, KeptRefl

(* An answer that is not a grant.                                          *)
LEMMA AnswerKept ==
  ASSUME NEW c \in ContextType, NEW i \in Requests, NEW E, i \in c.tickets \cup E,
         NEW m \in ClientMessage, m.cmd # "LOCKED"
  PROVE  Kept(c, SendToClient(c, i, m), E, {})
<1>. DEFINE d == SendToClient(c, i, m)
<1>0. d \in ContextType
  BY SendToClientType
<1>1. /\ d.now = c.now /\ d.tickets = c.tickets /\ d.entering = c.entering
      /\ d.obj = c.obj
      /\ d.toClient = [c.toClient EXCEPT ![i] = Append(@, m)]
  BY DEF SendToClient, ContextType
<1>2. \A j \in Requests :
        \/ d.toClient[j] = c.toClient[j]
        \/ j = i /\ d.toClient[j] = Append(c.toClient[j], m)
  BY <1>1, ContextFields
<1>. HIDE DEF d
<1>3. Frame(c, d, E)
  BY <1>1, <1>2 DEF Frame
<1>4. \A j \in Requests : \A x : Live(c, j, x) => Live(d, j, x)
  BY <1>1 DEF Live
<1>5. ASSUME NEW j \in Requests, Good(c, j)
      PROVE  Good(d, j)
  <2>1. c.toClient[j] \in Seq(ClientMessage)
    BY ContextFields
  <2>2. ASSUME NEW p \in 1..Len(d.toClient[j]), d.toClient[j][p].cmd = "LOCKED"
        PROVE  p \in 1..Len(c.toClient[j]) /\ d.toClient[j][p] = c.toClient[j][p]
    <3>1. CASE d.toClient[j] = c.toClient[j]
      BY <3>1
    <3>2. CASE d.toClient[j] = Append(c.toClient[j], m)
      BY <2>1, <2>2, <3>2, AppendAt
    <3>. QED  BY <1>2, <3>1, <3>2
  <2>. QED  BY <1>1, <1>4, <1>5, <2>2 DEF Good
<1>6. Sorted(c) => Sorted(d)
  BY <1>1 DEF Sorted, TicketKey
<1>7. Numbered(c) => Numbered(d)
  BY <1>1 DEF Numbered
<1>. QED  BY <1>3, <1>4, <1>5, <1>6, <1>7 DEF Kept, StaysLive, d

(* A refusal.                                                              *)
LEMMA RefuseKept ==
  ASSUME NEW c \in ContextType, NEW i \in Requests,
         NEW error \in {"timedout", "invalid", "duplicate"}
  PROVE  Kept(c, Refuse(c, i, error), {i}, {})
<1>. DEFINE m == [cmd |-> "LOCKFAILED", error |-> error]
<1>1. m \in ClientMessage /\ m.cmd # "LOCKED"
  BY DEF ClientMessage
<1>. HIDE DEF m
<1>2. Kept(c, SendToClient(c, i, m), {i}, {})
  BY <1>1, AnswerKept
<1>. QED  BY <1>2, KeptRefl DEF Refuse, m

(* msg_lock() of a request that is not known yet.                          *)
LEMMA LockKept ==
  ASSUME OneLeader, NEW c \in ContextType, NEW m \in RequestMessage,
         m.cmd = "LOCK", m.req \notin c.tickets, Numbered(c),
         \A j \in c.tickets : c.obj[j].our_ticket < MaxTicket
  PROVE  Kept(c, Lock(c, m), {m.req}, {})
<1>. DEFINE i == m.req
            c0 == Cleanup(c)
            new == NewTicket(c0.self, m.timeout, m.duration, m.unlock_duration)
            c1 == [c0 EXCEPT !.entering = @ \cup {i}, !.obj[i] = new]
            e == Entering(c1, i)
<1>1. i \in Requests
  BY RequestMessageFields
<1>2. /\ c0 \in ContextType /\ c0 \in ArmedContext
      /\ Kept(c, c0, {}, {}) /\ Kept(c, c0, {i}, {})
  BY CleanupType, CleanupArmed, CleanupKept, KeptWeaker
<1>. HIDE DEF c0
<1>3. c0.tickets \subseteq c.tickets
  BY <1>2 DEF Kept, Frame
<1>4. \A j \in c0.tickets : c0.obj[j].our_ticket < MaxTicket
  <2>1. c0.tickets \subseteq Requests
    BY <1>2, ContextFields
  <2>. QED  BY <1>2, <1>3, <2>1 DEF Kept, Frame
<1>5. new \in Ticket /\ ~new.locked
  <2>1. new \in Ticket
    BY <1>2, RequestMessageFields, ContextFields, NewTicketType
  <2>. QED  BY <2>1 DEF NewTicket
<1>. HIDE DEF new
<1>6. c1 \in ContextType
  BY <1>1, <1>2, <1>5, EnterType
<1>7. /\ c1.now = c0.now /\ c1.tickets = c0.tickets /\ c1.toClient = c0.toClient
      /\ c1.entering = c0.entering \cup {i} /\ c1.obj[i] = new
      /\ \A j \in Requests \ {i} : c1.obj[j] = c0.obj[j]
  BY <1>1, <1>2 DEF ContextType
<1>. HIDE DEF c1
<1>8. Kept(c0, c1, {i}, {}) /\ Kept(c, c1, {i}, {})
  <2>1. Kept(c0, c1, {i}, {})
    BY <1>1, <1>2, <1>3, <1>6, <1>7, NewcomerKept
  <2>. QED  BY <1>2, <1>6, <2>1, KeptTrans
<1>9. e \in ContextType /\ Kept(c1, e, {i}, {})
  <2>1. Numbered(c1)
    BY <1>8 DEF Kept
  <2>2. \A j \in c1.tickets : c1.obj[j].our_ticket < MaxTicket
    <3>1. c0.tickets \subseteq Requests \ {i}
      BY <1>2, <1>3, ContextFields
    <3>. QED  BY <1>4, <1>7, <3>1
  <2>3. i \notin c1.tickets /\ ~c1.obj[i].locked
    BY <1>3, <1>5, <1>7
  <2>. QED  BY <1>1, <1>6, <2>1, <2>2, <2>3, EnteringKept, EnteringType
<1>. HIDE DEF e
<1>10. Cleanup(e) \in ContextType /\ Kept(e, Cleanup(e), {i}, {})
  BY <1>9, CleanupType, CleanupKept, KeptWeaker
<1>11. Kept(c, Cleanup(e), {i}, {})
  <2>1. Kept(c, e, {i}, {})
    BY <1>6, <1>8, <1>9, KeptTrans
  <2>. QED  BY <1>9, <1>10, <2>1, KeptTrans
<1>12. ASSUME NEW error \in {"timedout", "invalid", "duplicate"}
       PROVE  Kept(c, Refuse(c0, i, error), {i}, {})
  <2>1. Refuse(c0, i, error) \in ContextType
    BY <1>1, <1>2, RefuseType DEF ArmedContext
  <2>2. Kept(c0, Refuse(c0, i, error), {i}, {})
    BY <1>1, <1>2, RefuseKept
  <2>. QED  BY <1>2, <2>1, <2>2, KeptTrans
<1>13. Lock(c, m) \in {Cleanup(e)} \cup
         {Refuse(c0, i, error) : error \in {"timedout", "invalid", "duplicate"}}
  BY DEF Lock, c0, new, c1, e
<1>. QED  BY <1>11, <1>12, <1>13

(* drop_ticket() of a ticket in place.                                     *)
LEMMA DropTicketKept ==
  ASSUME NEW c \in ContextType, NEW i \in Requests, i \in c.tickets
  PROVE  Kept(c, DropTicket(c, i), {}, {})
<1>. DEFINE ml == [cmd |-> "DROPTICKET", key |-> TicketKey(c, i)]
            d == SendToLeaders(c, ml)
            t == [d.obj[i] EXCEPT !.failed = TRUE]
            u == [d EXCEPT !.obj[i] = t]
            mc == [cmd |-> "UNLOCKED", error |-> ""]
            s == SendToClient(u, i, mc)
<1>1. ml \in LeaderMessage /\ mc \in ClientMessage /\ mc.cmd # "LOCKED"
  BY TicketKeyType DEF LeaderMessage, ClientMessage
<1>. HIDE DEF ml, mc
<1>2. d \in ContextType /\ Kept(c, d, {}, {}) /\ d.tickets = c.tickets
  <2>1. d.tickets = c.tickets
    BY DEF SendToLeaders, SendSeqToLeaders, ContextType
  <2>. QED  BY <1>1, <2>1, SendType, SendOneKept
<1>. HIDE DEF d
<1>3. /\ t \in Ticket /\ t.our_ticket = d.obj[i].our_ticket
      /\ t.key_number = d.obj[i].key_number /\ t.locked = d.obj[i].locked
      /\ t.lock_timeout = d.obj[i].lock_timeout
  <2>1. d.obj[i] \in Ticket
    BY <1>2, ContextFields
  <2>. QED  BY <2>1 DEF Ticket
<1>. HIDE DEF t
<1>4. u \in ContextType
  BY <1>2, <1>3, WithOneObj
<1>5. SameLocks(d, u) /\ u.entering = d.entering
  <2>1. \A j \in Requests : u.obj[j] = IF j = i THEN t ELSE d.obj[j]
    BY <1>2 DEF ContextType
  <2>2. /\ u.now = d.now /\ u.tickets = d.tickets /\ u.entering = d.entering
        /\ u.toClient = d.toClient
    BY <1>2 DEF ContextType
  <2>. HIDE DEF u
  <2>. QED  BY <1>3, <2>1, <2>2 DEF SameLocks
<1>. HIDE DEF u
<1>6. Kept(c, u, {}, {})
  <2>1. Kept(d, u, {}, {})
    BY <1>2, <1>4, <1>5, SameLocksKept
  <2>. QED  BY <1>2, <1>4, <2>1, KeptTrans
<1>7. s \in ContextType /\ Kept(u, s, {}, {})
  <2>1. i \in u.tickets
    BY <1>2, <1>5 DEF SameLocks
  <2>. QED  BY <1>1, <1>4, <2>1, SendToClientType, AnswerKept
<1>8. Kept(c, s, {}, {})
  BY <1>4, <1>6, <1>7, KeptTrans
<1>9. DropTicket(c, i) \in {d, s}
  BY DEF DropTicket, s, u, t, d, ml, mc
<1>. QED  BY <1>2, <1>8, <1>9

(* msg_unlock() only gives up the lock of the thread that asked for it.    *)
LEMMA UnlockKept ==
  ASSUME NEW c \in ContextType, NEW k \in Clients
  PROVE  Kept(c, Unlock(c, k), {}, {j \in Requests : EnteringKey(j) = k})
<1>. DEFINE X == {j \in Requests : EnteringKey(j) = k}
            mine == TicketsOf(c, k)
            i == FirstTicket(c, mine)
            d == DropTicket(c, i)
            T == d.tickets \ {i}
            e == [d EXCEPT !.tickets = T]
<1>1. CASE mine = {}
  <2>1. Cleanup(c) \in ContextType /\ Kept(c, Cleanup(c), {}, X)
    <3>. HIDE DEF X
    <3>. QED  BY CleanupType, CleanupKept, KeptWeaker
  <2>. QED  BY <1>1, <2>1 DEF Unlock
<1>2. CASE mine # {}
  <2>1. i \in Requests /\ i \in c.tickets /\ i \in X
    <3>1. mine \in SUBSET Requests
      BY TicketsOfType
    <3>2. i \in mine
      <4>. HIDE DEF mine
      <4>. QED  BY <3>1, <1>2, FirstTicketType
    <3>. QED  BY <3>1, <3>2 DEF TicketsOf
  <2>. HIDE DEF i, X
  <2>2. d \in ContextType /\ Kept(c, d, {}, {})
    BY <2>1, DropTicketType, DropTicketKept
  <2>. HIDE DEF d
  <2>3. e \in ContextType /\ Kept(d, e, {}, X)
    <3>1. e \in ContextType
      BY <2>2, ContextFields, WithTickets
    <3>2. T \in SUBSET d.tickets /\ \A j \in d.tickets \ X : j \in T
      BY <2>1
    <3>. HIDE DEF T
    <3>. QED  BY <2>2, <3>1, <3>2, FewerTicketsKept
  <2>. HIDE DEF e
  <2>4. Cleanup(e) \in ContextType /\ Kept(e, Cleanup(e), {}, X)
    BY <2>3, CleanupType, CleanupKept, KeptWeaker
  <2>5. Kept(c, d, {}, X)
    BY <2>2, KeptWeaker
  <2>6. Kept(c, e, {}, X)
    BY <2>2, <2>3, <2>5, KeptTrans
  <2>7. Kept(c, Cleanup(e), {}, X)
    BY <2>3, <2>4, <2>6, KeptTrans
  <2>8. Unlock(c, k) = Cleanup(e)
    BY <1>2 DEF Unlock, e, T, d, i
  <2>. QED  BY <2>7, <2>8 DEF X
<1>. QED  BY <1>1, <1>2

-----------------------------------------------------------------------------
(* The steps of the specification.                                         *)

(* What the leader does not know stays so unless it enters.                *)
LEMMA CleanKept ==
  ASSUME NEW c, NEW d, NEW E, Frame(c, d, E), NEW j \in Requests, j \notin E,
         Clean(c, j)
  PROVE  Clean(d, j)
  BY DEF Frame, Clean

(* The request of a thread that is not idle.                               *)
LEMMA CurrentRequest ==
  ASSUME IInv, NEW c \in Clients, client[c].phase # "idle"
  PROVE  Request(c) \in Requests
  BY DEF IInv, TypeOK, Client, Request, Requests

(* The leader's context after a handler.                                   *)
LEMMA NextContext ==
  ASSUME OneLeader, IInv, NEW l \in Leaders, NEW cx \in ContextType,
         Becomes(l, cx), toLeader' = [toLeader EXCEPT ![l] = cx.toLeader],
         cx.now = now, now' = now
  PROVE  Context(l)' = cx
<1>1. cx.self = l
  BY ContextFields DEF OneLeader
<1>2. /\ entering'[l] = cx.entering /\ tickets'[l] = cx.tickets
      /\ obj'[l] = cx.obj /\ timer'[l] = cx.timer /\ up'[l] = cx.up
      /\ toLeader'[l] = cx.toLeader /\ toClient'[l] = cx.toClient
  BY DEF Becomes, IInv, TypeOK
<1>. QED  BY <1>1, <1>2 DEF Context, ContextType

(* The last message and the others of a queue whose first one is taken.    *)
LEMMA TailAt ==
  ASSUME NEW S, NEW q \in Seq(S), q # <<>>
  PROVE  /\ Len(Tail(q)) = Len(q) - 1
         /\ Len(q) \in Nat \ {0}
         /\ \A p \in 1..Len(Tail(q)) : p + 1 \in 1..Len(q) /\ Tail(q)[p] = q[p + 1]
  OBVIOUS

(***************************************************************************)
(* What a handler of the leader has to ensure for the invariant.           *)
(***************************************************************************)
Queued(c, l, i) ==
  \E p \in 1..Len(fromClient[c][l]) :
    fromClient[c][l][p].cmd = "LOCK" /\ fromClient[c][l][p].req = i

(* A handler with the effect cx preserves the invariant.                   *)
LEMMA HandlerInv ==
  ASSUME OneLeader, IInv, LockInv, NEW l \in Leaders, NEW cx \in ContextType,
         NEW E, NEW X, Kept(Context(l), cx, E, X),
         Context(l)' = cx, client' = client, now' = now,
         \A c \in Clients :
           \/ fromClient'[c][l] = fromClient[c][l]
           \/ fromClient[c][l] # <<>> /\ fromClient'[c][l] = Tail(fromClient[c][l]),
         \A c \in Clients, i \in E : ~Queued(c, l, i)',
         \A c \in Clients, k \in 1..MaxRequests : k > client[c].n => <<c, k>> \notin E,
         \A c \in Clients : client[c].phase # "idle" /\ Request(c) \in X =>
           Good(cx, Request(c)) /\ ~Holds(c)
  PROVE  LockInv'
<1>. DEFINE cl == Context(l)
<1>0. /\ \A s \in Leaders : s = l
      /\ cl.now = now
      /\ \A c \in Clients : Request(c)' = Request(c) /\ (Holds(c)' <=> Holds(c))
  BY DEF OneLeader, Context, Request, Holds
<1>1. Tables'
  <2>1. Sorted(cx) /\ Numbered(cx)
    BY DEF LockInv, Tables, Kept
  <2>. QED  BY <1>0, <2>1 DEF Tables
<1>2. Grants'
  <2>1. ASSUME NEW c \in Clients, client[c].phase # "idle"
        PROVE  Good(cx, Request(c))
    BY <2>1, CurrentRequest DEF LockInv, Grants, Kept
  <2>2. ASSUME NEW c \in Clients, Holds(c)
        PROVE  Live(cx, Request(c), client[c].date)
    <3>1. client[c].phase # "idle" /\ client[c].date > now /\ client[c].date \in Nat
      BY <2>2 DEF Holds, IInv, TypeOK, Client
    <3>2. Request(c) \in Requests \ X
      BY <2>2, <3>1, CurrentRequest
    <3>3. StaysLive(cl, cx, Request(c)) /\ Live(cl, Request(c), client[c].date)
      BY <2>2, <3>2 DEF LockInv, Grants, Kept
    <3>. QED  BY <1>0, <3>1, <3>3 DEF StaysLive
  <2>. QED  BY <1>0, <2>1, <2>2 DEF Grants
<1>3. LastSent'
  <2>. SUFFICES ASSUME NEW c \in Clients
                PROVE  LET q == fromClient'[c][l]
                       IN  /\ client[c].phase = "held" => q = <<>>
                           /\ client[c].phase = "waiting" /\ q # <<>> =>
                                q[Len(q)].cmd = "LOCK" /\ q[Len(q)].req = Request(c)
    BY <1>0 DEF LastSent
  <2>1. CASE fromClient'[c][l] = fromClient[c][l]
    BY <2>1 DEF LockInv, LastSent
  <2>2. CASE fromClient[c][l] # <<>> /\ fromClient'[c][l] = Tail(fromClient[c][l])
    <3>. DEFINE q == fromClient[c][l]
    <3>1. q \in Seq(RequestMessage)
      BY DEF IInv, TypeOK
    <3>2. Tail(q) # <<>> => Tail(q)[Len(Tail(q))] = q[Len(q)]
      BY <2>2, <3>1
    <3>3. /\ client[c].phase # "held"
          /\ client[c].phase = "waiting" =>
               q[Len(q)].cmd = "LOCK" /\ q[Len(q)].req = Request(c)
      BY <2>2 DEF LockInv, LastSent
    <3>. QED  BY <2>2, <3>2, <3>3
  <2>. QED  BY <2>1, <2>2
<1>4. Unhandled'
  <2>. SUFFICES ASSUME NEW c \in Clients,
                       NEW p \in 1..Len(fromClient'[c][l]),
                       fromClient'[c][l][p].cmd = "LOCK"
                PROVE  /\ fromClient'[c][l][p].req[1] = c
                       /\ fromClient'[c][l][p].req[2] <= client[c].n
                       /\ Clean(cx, fromClient'[c][l][p].req)
                       /\ \A r \in 1..Len(fromClient'[c][l]) :
                            r # p /\ fromClient'[c][l][r].cmd = "LOCK" =>
                              fromClient'[c][l][r].req # fromClient'[c][l][p].req
    BY <1>0 DEF Unhandled
  <2>. DEFINE q == fromClient[c][l]
              w == fromClient'[c][l]
  <2>1. q \in Seq(RequestMessage)
    BY DEF IInv, TypeOK
  <2>2. PICK z \in {0, 1} : \A r \in 1..Len(w) :
          r + z \in 1..Len(q) /\ w[r] = q[r + z]
    <3>1. CASE w = q
      BY <2>1, <3>1
    <3>2. CASE q # <<>> /\ w = Tail(q)
      BY <2>1, <3>2, TailAt
    <3>. QED  BY <3>1, <3>2
  <2>3. /\ q[p + z].req[1] = c /\ q[p + z].req[2] <= client[c].n
        /\ Clean(cl, q[p + z].req)
        /\ \A r \in 1..Len(q) :
             r # p + z /\ q[r].cmd = "LOCK" => q[r].req # q[p + z].req
    BY <2>2 DEF LockInv, Unhandled
  <2>4. w[p].req \notin E
    BY DEF Queued
  <2>5. w[p].req \in Requests
    BY <2>1, <2>2, RequestMessageFields
  <2>6. Clean(cx, w[p].req)
    BY <2>2, <2>3, <2>4, <2>5, CleanKept DEF Kept
  <2>7. ASSUME NEW r \in 1..Len(w), r # p, w[r].cmd = "LOCK"
        PROVE  w[r].req # w[p].req
    <3>1. r + z # p + z
      BY <2>7
    <3>. QED  BY <2>2, <2>3, <2>7, <3>1
  <2>. QED  BY <2>2, <2>3, <2>6, <2>7
<1>5. Future'
  <2>. SUFFICES ASSUME NEW c \in Clients, NEW k \in 1..MaxRequests, k > client[c].n
                PROVE  Clean(cx, <<c, k>>)
    BY <1>0 DEF Future
  <2>1. <<c, k>> \in Requests /\ <<c, k>> \notin E
    BY DEF Requests
  <2>. QED  BY <2>1, CleanKept DEF LockInv, Future, Kept
<1>. QED  BY <1>1, <1>2, <1>3, <1>4, <1>5 DEF LockInv

(* The timer of the leader.                                                *)
LEMMA TimeoutInv ==
  ASSUME OneLeader, IInv, LockInv, NEW l \in Leaders, process_timeout(l)
  PROVE  LockInv'
<1>. DEFINE cx == Cleanup(Context(l))
<1>1. cx \in ContextType /\ Kept(Context(l), cx, {}, {})
  BY ContextOfLeader, CleanupType, CleanupKept
<1>2. /\ Becomes(l, cx) /\ toLeader' = [toLeader EXCEPT ![l] = cx.toLeader]
      /\ fromClient' = fromClient /\ client' = client /\ now' = now
  BY DEF process_timeout
<1>. HIDE DEF cx
<1>3. Context(l)' = cx
  <2>1. cx.now = now
    BY <1>1 DEF Kept, Frame, Context
  <2>. QED  BY <1>1, <1>2, <2>1, NextContext
<1>. QED  BY <1>1, <1>2, <1>3, HandlerInv

(* The context and the queues after a message of a thread was handled.     *)
LEMMA TakesFromClientFacts ==
  ASSUME OneLeader, IInv, NEW c \in Clients, NEW l \in Leaders,
         NEW cx \in ContextType, NEW E, NEW X, Kept(Context(l), cx, E, X),
         fromClient[c][l] # <<>>, TakesFromClient(c, l, cx)
  PROVE  /\ Context(l)' = cx /\ client' = client /\ now' = now
         /\ fromClient'[c][l] = Tail(fromClient[c][l])
         /\ \A d \in Clients \ {c} : fromClient'[d][l] = fromClient[d][l]
         /\ \A d \in Clients :
              \/ fromClient'[d][l] = fromClient[d][l]
              \/ fromClient[d][l] # <<>> /\ fromClient'[d][l] = Tail(fromClient[d][l])
<1>1. cx.now = now /\ now' = now
  BY DEF Kept, Frame, Context, TakesFromClient
<1>2. Context(l)' = cx
  BY <1>1, NextContext DEF TakesFromClient
<1>3. /\ fromClient'[c][l] = Tail(fromClient[c][l])
      /\ \A d \in Clients \ {c} : fromClient'[d][l] = fromClient[d][l]
  BY DEF TakesFromClient, IInv, TypeOK
<1>. QED  BY <1>1, <1>2, <1>3 DEF TakesFromClient

(* msg_lock().                                                             *)
LEMMA LockStepInv ==
  ASSUME OneLeader, IInv, LockInv, NumbersLeft,
         NEW c \in Clients, NEW l \in Leaders, msg_lock(c, l)
  PROVE  LockInv'
<1>. DEFINE q == fromClient[c][l]
            m == Head(q)
            cl == Context(l)
            cx == Lock(cl, m)
<1>1. /\ q # <<>> /\ q \in Seq(RequestMessage) /\ m \in RequestMessage
      /\ m.cmd = "LOCK" /\ TakesFromClient(c, l, cx)
  BY ClientHead DEF msg_lock, ClientSent, IInv, TypeOK
<1>2. 1 \in 1..Len(q) /\ m = q[1]
  BY <1>1
<1>3. /\ m.req[1] = c /\ m.req[2] <= client[c].n /\ Clean(cl, m.req)
      /\ \A r \in 1..Len(q) : r # 1 /\ q[r].cmd = "LOCK" => q[r].req # m.req
  <2>. HIDE DEF m
  <2>. QED  BY <1>1, <1>2 DEF LockInv, Unhandled
<1>4. cl \in ContextType
  BY ContextOfLeader
<1>5. Kept(cl, cx, {m.req}, {}) /\ cx \in ContextType
  <2>1. m.req \notin cl.tickets /\ Numbered(cl)
    BY <1>3 DEF Clean, LockInv, Tables
  <2>2. \A j \in cl.tickets : cl.obj[j].our_ticket < MaxTicket
    BY DEF NumbersLeft, Context
  <2>. HIDE DEF m, cl
  <2>. QED  BY <1>1, <1>4, <2>1, <2>2, LockKept, LockType DEF ArmedContext
<1>. HIDE DEF cx, m
<1>6. /\ Context(l)' = cx /\ client' = client /\ now' = now
      /\ fromClient'[c][l] = Tail(q)
      /\ \A d \in Clients \ {c} : fromClient'[d][l] = fromClient[d][l]
      /\ \A d \in Clients :
           \/ fromClient'[d][l] = fromClient[d][l]
           \/ fromClient[d][l] # <<>> /\ fromClient'[d][l] = Tail(fromClient[d][l])
  BY <1>1, <1>5, TakesFromClientFacts
<1>7. ASSUME NEW d \in Clients, NEW i \in {m.req}, Queued(d, l, i)'
      PROVE  FALSE
  <2>1. PICK p \in 1..Len(fromClient'[d][l]) :
          fromClient'[d][l][p].cmd = "LOCK" /\ fromClient'[d][l][p].req = m.req
    BY <1>7 DEF Queued
  <2>2. CASE d = c
    <3>1. p \in 1..Len(Tail(q))
      BY <1>6, <2>1, <2>2
    <3>2. p + 1 \in 1..Len(q) /\ p + 1 # 1 /\ Tail(q)[p] = q[p + 1]
      BY <1>1, <3>1, TailAt
    <3>3. q[p + 1].cmd = "LOCK" /\ q[p + 1].req = m.req
      BY <1>6, <2>1, <2>2, <3>2
    <3>. QED  BY <1>3, <3>2, <3>3
  <2>3. CASE d # c
    <3>1. fromClient'[d][l] = fromClient[d][l]
      BY <1>6, <2>3
    <3>2. fromClient[d][l][p].req[1] = d
      BY <2>1, <3>1 DEF LockInv, Unhandled
    <3>. QED  BY <1>3, <2>1, <2>3, <3>1, <3>2
  <2>. QED  BY <2>2, <2>3
<1>8. ASSUME NEW d \in Clients, NEW k \in 1..MaxRequests, k > client[d].n
      PROVE  <<d, k>> \notin {m.req}
  <2>1. client[d].n \in Nat /\ k \in Nat
    BY BoundsAssumption DEF IInv, TypeOK, Client
  <2>2. m.req = <<d, k>> => d = c /\ k <= client[c].n
    BY <1>3
  <2>. QED  BY <1>8, <2>1, <2>2
<1>. QED  BY <1>5, <1>6, <1>7, <1>8, HandlerInv

(* msg_unlock(): the thread that sent it does not rely on its lock, and    *)
(* has no grant to read, even if it asked for the lock again meanwhile.    *)
LEMMA UnlockStepInv ==
  ASSUME OneLeader, IInv, LockInv,
         NEW c \in Clients, NEW l \in Leaders, msg_unlock(c, l)
  PROVE  LockInv'
<1>. DEFINE q == fromClient[c][l]
            cl == Context(l)
            cx == Unlock(cl, c)
            X == {j \in Requests : EnteringKey(j) = c}
<1>1. q # <<>> /\ q \in Seq(RequestMessage) /\ TakesFromClient(c, l, cx)
  BY DEF msg_unlock, ClientSent, IInv, TypeOK
<1>2. cl \in ContextType
  BY ContextOfLeader
<1>3. Kept(cl, cx, {}, X) /\ cx \in ContextType
  <2>. HIDE DEF cl
  <2>. QED  BY <1>2, UnlockKept, UnlockType DEF ArmedContext
<1>. HIDE DEF cx
<1>4. /\ Context(l)' = cx /\ client' = client /\ now' = now
      /\ \A d \in Clients :
           \/ fromClient'[d][l] = fromClient[d][l]
           \/ fromClient[d][l] # <<>> /\ fromClient'[d][l] = Tail(fromClient[d][l])
  <2>. HIDE DEF X
  <2>. QED  BY <1>1, <1>3, TakesFromClientFacts
<1>5. ASSUME NEW d \in Clients, client[d].phase # "idle", Request(d) \in X
      PROVE  Good(cx, Request(d)) /\ ~Holds(d)
  <2>1. d = c
    BY <1>5 DEF EnteringKey, Request
  <2>2. client[c].phase # "held"
    BY <1>1 DEF LockInv, LastSent
  <2>3. client[c].phase = "waiting"
    BY <1>5, <2>1, <2>2 DEF IInv, TypeOK, Client
  <2>4. /\ Len(q) \in 1..Len(q)
        /\ q[Len(q)].cmd = "LOCK" /\ q[Len(q)].req = Request(c)
    BY <1>1, <2>3 DEF LockInv, LastSent
  <2>5. Clean(cl, Request(c))
    BY <2>4 DEF LockInv, Unhandled
  <2>6. Clean(cx, Request(c))
    BY <1>3, <1>5, <2>1, <2>5, CurrentRequest, CleanKept DEF Kept
  <2>7. Good(cx, Request(c))
    BY <2>6 DEF Clean, Good
  <2>. QED  BY <2>1, <2>2, <2>7 DEF Holds
<1>. HIDE DEF X
<1>. QED  BY <1>3, <1>4, <1>5, HandlerInv

(* What a step that concerns thread c leaves alone.                        *)
OthersSame(c, l) ==
  \A d \in Clients \ {c} :
    client'[d] = client[d] /\ fromClient'[d][l] = fromClient[d][l]

(* A step of thread c that leaves the leader alone preserves the           *)
(* invariant if c's own part of it is preserved.                           *)
LEMMA ClientSideInv ==
  ASSUME OneLeader, IInv, LockInv, NEW c \in Clients, NEW l \in Leaders,
         Context(l)' = Context(l), now' = now, OthersSame(c, l),
         client'[c].phase # "idle" => Good(Context(l), Request(c)'),
         ~Holds(c)',
         client'[c].n >= client[c].n, client'[c].n \in Nat,
         client'[c].phase = "held" => fromClient'[c][l] = <<>>,
         client'[c].phase = "waiting" /\ fromClient'[c][l] # <<>> =>
           /\ fromClient'[c][l][Len(fromClient'[c][l])].cmd = "LOCK"
           /\ fromClient'[c][l][Len(fromClient'[c][l])].req = Request(c)',
         \A p \in 1..Len(fromClient'[c][l]) : fromClient'[c][l][p].cmd = "LOCK" =>
           /\ fromClient'[c][l][p].req[1] = c
           /\ fromClient'[c][l][p].req[2] <= client'[c].n
           /\ Clean(Context(l), fromClient'[c][l][p].req)
           /\ \A r \in 1..Len(fromClient'[c][l]) :
                r # p /\ fromClient'[c][l][r].cmd = "LOCK" =>
                  fromClient'[c][l][r].req # fromClient'[c][l][p].req
  PROVE  LockInv'
<1>0. /\ \A s \in Leaders : s = l
      /\ \A d \in Clients \ {c} :
           /\ client'[d] = client[d] /\ fromClient'[d][l] = fromClient[d][l]
           /\ Request(d)' = Request(d) /\ (Holds(d)' <=> Holds(d))
  BY DEF OneLeader, OthersSame, Request, Holds
<1>1. Tables'
  BY <1>0 DEF LockInv, Tables
<1>2. Grants'
  <2>1. ASSUME NEW d \in Clients
        PROVE  /\ client'[d].phase # "idle" => Good(Context(l), Request(d)')
               /\ Holds(d)' => Live(Context(l), Request(d)', client'[d].date)
    <3>1. CASE d = c
      BY <3>1
    <3>2. CASE d # c
      BY <1>0, <3>2 DEF LockInv, Grants
    <3>. QED  BY <3>1, <3>2
  <2>. QED  BY <1>0, <2>1 DEF Grants
<1>3. LastSent'
  BY <1>0 DEF LockInv, LastSent
<1>4. Unhandled'
  <2>1. ASSUME NEW d \in Clients,
               NEW p \in 1..Len(fromClient'[d][l]), fromClient'[d][l][p].cmd = "LOCK"
        PROVE  /\ fromClient'[d][l][p].req[1] = d
               /\ fromClient'[d][l][p].req[2] <= client'[d].n
               /\ Clean(Context(l), fromClient'[d][l][p].req)
               /\ \A r \in 1..Len(fromClient'[d][l]) :
                    r # p /\ fromClient'[d][l][r].cmd = "LOCK" =>
                      fromClient'[d][l][r].req # fromClient'[d][l][p].req
    <3>1. CASE d = c
      BY <2>1, <3>1
    <3>2. CASE d # c
      <4>1. fromClient'[d][l] = fromClient[d][l] /\ client'[d].n = client[d].n
        BY <1>0, <3>2
      <4>. QED  BY <2>1, <4>1 DEF LockInv, Unhandled
    <3>. QED  BY <3>1, <3>2
  <2>. QED  BY <1>0, <2>1 DEF Unhandled
<1>5. Future'
  <2>1. ASSUME NEW d \in Clients, NEW k \in 1..MaxRequests, k > client'[d].n
        PROVE  k > client[d].n
    <3>1. CASE d = c
      BY <2>1, <3>1, BoundsAssumption DEF IInv, TypeOK, Client
    <3>2. CASE d # c
      BY <1>0, <2>1, <3>2
    <3>. QED  BY <3>1, <3>2
  <2>. QED  BY <1>0, <2>1 DEF LockInv, Future
<1>. QED  BY <1>1, <1>2, <1>3, <1>4, <1>5 DEF LockInv

(* The context of the leader does not depend on the threads.               *)
LEMMA SameContext ==
  ASSUME NEW l \in Leaders, UNCHANGED <<tables, toLeader, toClient, now>>
  PROVE  Context(l)' = Context(l)
  BY DEF Context, tables

(* What a queue to which a message was appended says of LOCKs.             *)
LEMMA SentTo ==
  ASSUME OneLeader, IInv, NEW c \in Clients, NEW l \in Leaders, NEW m,
         SendToSnaplock(c, m)
  PROVE  /\ fromClient'[c][l] = Append(fromClient[c][l], m)
         /\ \A d \in Clients \ {c} : fromClient'[d][l] = fromClient[d][l]
<1>1. PICK s \in Route(c) : fromClient' = [fromClient EXCEPT ![c][s] = Append(@, m)]
  BY DEF SendToSnaplock
<1>2. s = l
  BY HomeAssumption DEF Route, OneLeader
<1>. QED  BY <1>1, <1>2 DEF IInv, TypeOK

(* snap_lock::lock().                                                      *)
LEMMA ClientLockInv ==
  ASSUME OneLeader, IInv, LockInv, NEW c \in Clients, NEW l \in Leaders,
         ClientLock(c)
  PROVE  LockInv'
<1>. DEFINE q == fromClient[c][l]
            n == client[c].n
            w == fromClient'[c][l]
<1>1. PICK o \in Obtentions, d \in Durations, u \in UnlockDurations :
        /\ client' = [client EXCEPT ![c] =
             [ phase |-> "waiting", n |-> @.n + 1, obtention |-> now + o,
               date |-> 0, timedout |-> FALSE, threw |-> @.threw ]]
        /\ SendToSnaplock(c, [ cmd |-> "LOCK", req |-> <<c, client[c].n + 1>>,
                               timeout |-> now + o, duration |-> d,
                               unlock_duration |-> u ])
  BY DEF ClientLock
<1>. DEFINE m == [ cmd |-> "LOCK", req |-> <<c, n + 1>>, timeout |-> now + o,
                   duration |-> d, unlock_duration |-> u ]
<1>2. /\ n \in Nat /\ n + 1 \in 1..MaxRequests /\ q \in Seq(RequestMessage)
      /\ \A r \in Clients : client[r] \in Client
  BY BoundsAssumption DEF ClientLock, IInv, TypeOK, Client
<1>3. /\ client'[c].phase = "waiting" /\ client'[c].n = n + 1
      /\ Request(c)' = <<c, n + 1>> /\ ~Holds(c)'
      /\ \A r \in Clients \ {c} : client'[r] = client[r]
  BY <1>1 DEF IInv, TypeOK, Request, Holds
<1>4. m.cmd = "LOCK" /\ m.req = <<c, n + 1>>
  OBVIOUS
<1>5. w = Append(q, m) /\ \A r \in Clients \ {c} : fromClient'[r][l] = fromClient[r][l]
  BY <1>1, SentTo
<1>. HIDE DEF m
<1>6. /\ Len(w) = Len(q) + 1 /\ Len(q) \in Nat /\ w[Len(w)] = m
      /\ \A p \in 1..Len(w) : p = Len(w) \/ (p \in 1..Len(q) /\ w[p] = q[p])
  BY <1>2, <1>5
<1>7. Context(l)' = Context(l) /\ now' = now /\ OthersSame(c, l)
  BY <1>3, <1>5, SameContext DEF ClientLock, OthersSame
<1>8. Clean(Context(l), <<c, n + 1>>)
  BY <1>2 DEF LockInv, Future
<1>9. Good(Context(l), <<c, n + 1>>)
  BY <1>8 DEF Clean, Good
<1>. HIDE DEF w
<1>10. ASSUME NEW p \in 1..Len(q), q[p].cmd = "LOCK"
       PROVE  /\ q[p].req[1] = c /\ q[p].req[2] <= n
              /\ q[p].req[2] <= n + 1 /\ q[p].req # <<c, n + 1>>
              /\ Clean(Context(l), q[p].req)
  <2>1. /\ q[p].req[1] = c /\ q[p].req[2] <= n /\ Clean(Context(l), q[p].req)
    BY <1>10 DEF LockInv, Unhandled
  <2>2. q[p].req \in Requests
    BY <1>2, <1>10, RequestMessageFields
  <2>3. q[p].req[2] \in Nat
    BY <2>2, BoundsAssumption DEF Requests
  <2>. DEFINE k == q[p].req[2]
  <2>4. k <= n + 1 /\ k # n + 1
    <3>. HIDE DEF k, n
    <3>. QED  BY <1>2, <2>1, <2>3 DEF k
  <2>. QED  BY <2>1, <2>4
<1>11. ASSUME NEW p \in 1..Len(w), w[p].cmd = "LOCK"
       PROVE  /\ w[p].req[1] = c /\ w[p].req[2] <= client'[c].n
              /\ Clean(Context(l), w[p].req)
              /\ \A r \in 1..Len(w) :
                   r # p /\ w[r].cmd = "LOCK" => w[r].req # w[p].req
  <2>1. CASE p = Len(w)
    <3>1. w[p].req = <<c, n + 1>>
      BY <1>4, <1>6, <2>1
    <3>2. w[p].req[1] = c /\ w[p].req[2] <= client'[c].n
      BY <1>2, <1>3, <3>1
    <3>3. ASSUME NEW r \in 1..Len(w), r # p, w[r].cmd = "LOCK"
          PROVE  w[r].req # w[p].req
      BY <1>6, <1>10, <2>1, <3>1, <3>3
    <3>. QED  BY <1>8, <3>1, <3>2, <3>3
  <2>2. CASE p \in 1..Len(q) /\ w[p] = q[p]
    <3>1. /\ w[p].req[1] = c /\ w[p].req[2] <= client'[c].n
          /\ Clean(Context(l), w[p].req) /\ w[p].req # <<c, n + 1>>
      BY <1>3, <1>10, <1>11, <2>2
    <3>2. ASSUME NEW r \in 1..Len(w), r # p, w[r].cmd = "LOCK"
          PROVE  w[r].req # w[p].req
      <4>1. CASE r = Len(w)
        BY <1>4, <1>6, <3>1, <4>1
      <4>2. CASE r \in 1..Len(q) /\ w[r] = q[r]
        BY <1>11, <2>2, <3>2, <4>2 DEF LockInv, Unhandled
      <4>. QED  BY <1>6, <4>1, <4>2
    <3>. QED  BY <3>1, <3>2
  <2>. QED  BY <1>6, <2>1, <2>2
<1>12. /\ client'[c].n >= client[c].n /\ client'[c].n \in Nat
       /\ Good(Context(l), Request(c)')
       /\ w[Len(w)].cmd = "LOCK" /\ w[Len(w)].req = Request(c)'
  BY <1>2, <1>3, <1>4, <1>6, <1>9
<1>. QED  BY <1>3, <1>7, <1>11, <1>12, ClientSideInv DEF w

(* unlock().                                                               *)
LEMMA ClientUnlockInv ==
  ASSUME OneLeader, IInv, LockInv, NEW c \in Clients, NEW l \in Leaders,
         ClientUnlock(c)
  PROVE  LockInv'
<1>. DEFINE m == [cmd |-> "UNLOCK"]
            w == fromClient'[c][l]
<1>1. /\ client'[c].phase = "idle" /\ client'[c].n = client[c].n
      /\ client[c].n \in Nat /\ ~Holds(c)'
      /\ \A d \in Clients \ {c} : client'[d] = client[d]
  BY BoundsAssumption DEF ClientUnlock, Holds, IInv, TypeOK, Client
<1>2. fromClient[c][l] = <<>>
  BY DEF ClientUnlock, LockInv, LastSent
<1>3. /\ w = <<>> \/ w = <<m>>
      /\ \A d \in Clients \ {c} : fromClient'[d][l] = fromClient[d][l]
  <2>1. CASE client[c].date # 0
    <3>. HIDE DEF m
    <3>1. SendToSnaplock(c, m)
      BY <2>1 DEF ClientUnlock, m
    <3>2. /\ w = Append(<<>>, m)
          /\ \A d \in Clients \ {c} : fromClient'[d][l] = fromClient[d][l]
      BY <1>2, <3>1, SentTo
    <3>. QED  BY <3>2
  <2>2. CASE client[c].date = 0
    BY <1>2, <2>2 DEF ClientUnlock
  <2>. QED  BY <2>1, <2>2
<1>4. Context(l)' = Context(l) /\ now' = now /\ OthersSame(c, l)
  BY <1>1, <1>3, SameContext DEF ClientUnlock, OthersSame
<1>5. \A p \in 1..Len(w) : w[p].cmd # "LOCK"
  BY <1>3
<1>6. client'[c].n >= client[c].n /\ client'[c].n \in Nat
  BY <1>1
<1>. HIDE DEF m
<1>. QED  BY <1>1, <1>4, <1>5, <1>6, ClientSideInv

(* The obtention timeout of lock().                                        *)
LEMMA ClientTimeoutInv ==
  ASSUME OneLeader, IInv, LockInv, NEW c \in Clients, NEW l \in Leaders,
         ClientTimeout(c)
  PROVE  LockInv'
<1>1. /\ client'[c].phase = "idle" /\ client'[c].n = client[c].n
      /\ client[c].n \in Nat /\ ~Holds(c)'
      /\ \A d \in Clients \ {c} : client'[d] = client[d]
  BY BoundsAssumption DEF ClientTimeout, Holds, IInv, TypeOK, Client
<1>2. fromClient' = fromClient
  BY DEF ClientTimeout
<1>3. Context(l)' = Context(l) /\ now' = now /\ OthersSame(c, l)
  BY <1>1, <1>2, SameContext DEF ClientTimeout, OthersSame
<1>4. client'[c].n >= client[c].n /\ client'[c].n \in Nat
  BY <1>1
<1>5. \A p \in 1..Len(fromClient'[c][l]) : fromClient'[c][l][p].cmd = "LOCK" =>
        /\ fromClient'[c][l][p].req[1] = c
        /\ fromClient'[c][l][p].req[2] <= client'[c].n
        /\ Clean(Context(l), fromClient'[c][l][p].req)
        /\ \A r \in 1..Len(fromClient'[c][l]) :
             r # p /\ fromClient'[c][l][r].cmd = "LOCK" =>
               fromClient'[c][l][r].req # fromClient'[c][l][p].req
  BY <1>1, <1>2 DEF LockInv, Unhandled
<1>. QED  BY <1>1, <1>3, <1>4, <1>5, ClientSideInv

(* The clock: a grant that is over is no longer one.                       *)
LEMMA TickInv ==
  ASSUME OneLeader, IInv, LockInv, Tick
  PROVE  LockInv'
<1>1. /\ now' > now /\ now \in Nat /\ now' \in Nat
      /\ client' = client /\ fromClient' = fromClient
  BY DEF Tick, IInv, TypeOK
<1>2. \A c \in Clients : Request(c)' = Request(c) /\ (Holds(c)' => Holds(c))
  BY <1>1 DEF Request, Holds, IInv, TypeOK, Client
<1>3. ASSUME NEW l \in Leaders
      PROVE  /\ Context(l)'.tickets = Context(l).tickets
             /\ Context(l)'.entering = Context(l).entering
             /\ Context(l)'.obj = Context(l).obj
             /\ Context(l)'.toClient = Context(l).toClient
             /\ Context(l)'.now = now' /\ Context(l).now = now
  BY DEF Tick, tables, Context
<1>4. ASSUME NEW l \in Leaders
      PROVE  /\ Sorted(Context(l)) => Sorted(Context(l)')
             /\ Numbered(Context(l)) => Numbered(Context(l)')
             /\ \A j : Clean(Context(l), j) => Clean(Context(l)', j)
             /\ \A j, x : Live(Context(l), j, x) => Live(Context(l)', j, x)
  BY <1>3 DEF Sorted, TicketKey, Numbered, Clean, Live
<1>5. ASSUME NEW l \in Leaders, NEW j \in Requests, Good(Context(l), j)
      PROVE  Good(Context(l)', j)
  <2>. DEFINE q == toClient[l][j]
  <2>1. q \in Seq(ClientMessage) /\ Context(l).toClient[j] = q
    BY DEF IInv, TypeOK, Context
  <2>2. ASSUME NEW p \in 1..Len(q), q[p].cmd = "LOCKED", q[p].timeout_date > now'
        PROVE  Live(Context(l)', j, q[p].timeout_date)
    <3>1. q[p] \in ClientMessage
      BY <2>1
    <3>2. q[p].timeout_date \in Nat
      BY <2>2, <3>1 DEF ClientMessage
    <3>3. q[p].timeout_date > now
      BY <1>1, <2>2, <3>2
    <3>. QED  BY <1>3, <1>4, <1>5, <2>1, <2>2, <3>3 DEF Good
  <2>. QED  BY <1>3, <2>1, <2>2 DEF Good
<1>6. Tables'
  BY <1>4 DEF LockInv, Tables
<1>7. Grants'
  BY <1>1, <1>2, <1>4, <1>5, CurrentRequest DEF LockInv, Grants
<1>8. LastSent'
  BY <1>1, <1>2 DEF LockInv, LastSent
<1>9. Unhandled'
  BY <1>1, <1>4 DEF LockInv, Unhandled
<1>10. Future'
  BY <1>1, <1>4 DEF LockInv, Future
<1>. QED  BY <1>6, <1>7, <1>8, <1>9, <1>10 DEF LockInv

(***************************************************************************)
(* A thread reads a message: a LOCKED it relies on is backed by a locked   *)
(* ticket, and no LOCK of that thread is on its way then.                  *)
(***************************************************************************)
LEMMA ClientReadsInv ==
  ASSUME OneLeader, IInv, LockInv, NEW c \in Clients, NEW l \in Leaders,
         client[c].phase # "idle", ClientReads(c, l)
  PROVE  LockInv'
<1>. DEFINE i == Request(c)
            q == toClient[l][i]
            m == Head(q)
            cl == Context(l)
            cx == Context(l)'
<1>0. i \in Requests /\ \A s \in Leaders : s = l
  BY CurrentRequest DEF OneLeader
<1>1. /\ q # <<>> /\ q \in Seq(ClientMessage) /\ m \in ClientMessage
      /\ 1 \in 1..Len(q) /\ m = q[1]
  BY <1>0 DEF ClientReads, IInv, TypeOK
<1>2. /\ client' = [client EXCEPT ![c] = Received(client[c], m)]
      /\ toClient' = [toClient EXCEPT ![l][i] = Tail(q)]
      /\ fromClient' = fromClient /\ now' = now
      /\ UNCHANGED tables
  BY DEF ClientReads
<1>3. /\ cx.now = cl.now /\ cx.tickets = cl.tickets /\ cx.entering = cl.entering
      /\ cx.obj = cl.obj /\ cl.now = now
      /\ cl.toClient[i] = q /\ cx.toClient[i] = Tail(q)
      /\ \A j \in Requests \ {i} : cx.toClient[j] = cl.toClient[j]
  BY <1>0, <1>2 DEF Context, tables, IInv, TypeOK
<1>4. \A d \in Clients \ {c} :
        /\ client'[d] = client[d]
        /\ Request(d)' = Request(d) /\ (Holds(d)' <=> Holds(d))
  BY <1>2 DEF IInv, TypeOK, Request, Holds
<1>5. /\ client'[c].n = client[c].n
      /\ client'[c].phase = "waiting" => client[c].phase = "waiting"
      /\ client'[c].phase = "held" =>
           \/ client[c].phase = "held" /\ client'[c].date \in {0, client[c].date}
           \/ m.cmd = "LOCKED" /\ client'[c].date = m.timeout_date
           \/ client[c].phase = "waiting" /\ client'[c].date = 0
  <2>1. client[c] \in Client /\ client'[c] = Received(client[c], m)
    BY <1>2 DEF IInv, TypeOK
  <2>2. CASE m.cmd = "LOCKED"
    BY <2>1, <2>2 DEF Received, Client
  <2>3. CASE m.cmd = "LOCKFAILED"
    BY <2>1, <2>3 DEF Received, Client
  <2>4. CASE m.cmd = "UNLOCKED"
    BY <2>1, <2>4 DEF Received, Client
  <2>. QED  BY <1>1, <2>2, <2>3, <2>4 DEF ClientMessage
<1>6. Request(c)' = i
  BY <1>5 DEF Request
<1>. HIDE DEF i, m, q, cl
<1>7. /\ Sorted(cl) => Sorted(cx)
      /\ Numbered(cl) => Numbered(cx)
      /\ \A j, x : Live(cl, j, x) => Live(cx, j, x)
  BY <1>3 DEF Sorted, TicketKey, Numbered, Live
<1>8. \A j \in Requests : Clean(cl, j) => Clean(cx, j) /\ j # i
  BY <1>0, <1>1, <1>3 DEF Clean
<1>9. ASSUME NEW j \in Requests, Good(cl, j)
      PROVE  Good(cx, j)
  <2>1. CASE j = i
    <3>1. \A p \in 1..Len(Tail(q)) : p + 1 \in 1..Len(q) /\ Tail(q)[p] = q[p + 1]
      BY <1>1, TailAt
    <3>2. ASSUME NEW p \in 1..Len(Tail(q)),
                 Tail(q)[p].cmd = "LOCKED", Tail(q)[p].timeout_date > cx.now
          PROVE  Live(cx, j, Tail(q)[p].timeout_date)
      <4>. DEFINE r == p + 1
      <4>1. r \in 1..Len(q) /\ Tail(q)[p] = q[r]
        BY <3>1
      <4>. HIDE DEF r
      <4>. QED  BY <1>3, <1>7, <1>9, <2>1, <3>2, <4>1 DEF Good
    <3>. QED  BY <1>3, <2>1, <3>2 DEF Good
  <2>2. CASE j # i
    BY <1>3, <1>7, <1>9, <2>2 DEF Good
  <2>. QED  BY <2>1, <2>2
<1>10. Good(cl, i) /\ (Holds(c) => Live(cl, i, client[c].date))
  BY DEF LockInv, Grants, i, cl
<1>11. Holds(c)' => Live(cx, i, client'[c].date)
  <2>. SUFFICES ASSUME Holds(c)' PROVE Live(cx, i, client'[c].date)
    OBVIOUS
  <2>1. client'[c].phase = "held" /\ client'[c].date > now /\ now \in Nat
    BY <1>2 DEF Holds, IInv, TypeOK
  <2>2. client'[c].date # 0
    BY <2>1
  <2>3. CASE client[c].phase = "held" /\ client'[c].date = client[c].date
    BY <1>7, <1>10, <2>1, <2>3 DEF Holds
  <2>4. CASE m.cmd = "LOCKED" /\ client'[c].date = m.timeout_date
    BY <1>1, <1>3, <1>7, <1>10, <2>1, <2>4 DEF Good
  <2>. QED  BY <1>5, <2>1, <2>2, <2>3, <2>4
<1>12. Tables'
  BY <1>0, <1>7 DEF LockInv, Tables, cl
<1>13. Grants'
  <2>1. ASSUME NEW d \in Clients
        PROVE  /\ client'[d].phase # "idle" => Good(cx, Request(d)')
               /\ Holds(d)' => Live(cx, Request(d)', client'[d].date)
    <3>1. CASE d = c
      BY <1>0, <1>6, <1>9, <1>10, <1>11, <3>1
    <3>2. CASE d # c
      BY <1>4, <1>7, <1>9, <3>2, CurrentRequest DEF LockInv, Grants, cl
    <3>. QED  BY <3>1, <3>2
  <2>. QED  BY <1>0, <2>1 DEF Grants
<1>14. LastSent'
  <2>1. client[c].phase = "waiting" => fromClient[c][l] = <<>>
    <3>. SUFFICES ASSUME client[c].phase = "waiting", fromClient[c][l] # <<>>
                  PROVE  FALSE
      OBVIOUS
    <3>1. fromClient[c][l] \in Seq(RequestMessage)
      BY DEF IInv, TypeOK
    <3>2. /\ Len(fromClient[c][l]) \in 1..Len(fromClient[c][l])
          /\ fromClient[c][l][Len(fromClient[c][l])].cmd = "LOCK"
          /\ fromClient[c][l][Len(fromClient[c][l])].req = i
      BY <3>1 DEF LockInv, LastSent, i
    <3>3. Clean(cl, i)
      BY <3>2 DEF LockInv, Unhandled, cl
    <3>. QED  BY <1>0, <1>8, <3>3
  <2>2. fromClient[c][l] = <<>>
    BY <2>1 DEF LockInv, LastSent, IInv, TypeOK, Client
  <2>3. ASSUME NEW d \in Clients
        PROVE  LET w == fromClient'[d][l]
               IN  /\ client'[d].phase = "held" => w = <<>>
                   /\ client'[d].phase = "waiting" /\ w # <<>> =>
                        w[Len(w)].cmd = "LOCK" /\ w[Len(w)].req = Request(d)'
    <3>1. CASE d = c
      BY <1>2, <2>2, <3>1
    <3>2. CASE d # c
      BY <1>2, <1>4, <3>2 DEF LockInv, LastSent
    <3>. QED  BY <3>1, <3>2
  <2>. QED  BY <1>0, <2>3 DEF LastSent
<1>15. Unhandled'
  <2>1. \A d \in Clients : client'[d].n = client[d].n
    BY <1>4, <1>5
  <2>2. \A d \in Clients : \A p \in 1..Len(fromClient[d][l]) :
          fromClient[d][l][p].cmd = "LOCK" => fromClient[d][l][p].req \in Requests
    <3>1. \A d \in Clients : fromClient[d][l] \in Seq(RequestMessage)
      BY DEF IInv, TypeOK
    <3>. QED  BY <3>1, RequestMessageFields
  <2>3. ASSUME NEW d \in Clients,
               NEW p \in 1..Len(fromClient[d][l]), fromClient[d][l][p].cmd = "LOCK"
        PROVE  /\ fromClient[d][l][p].req[1] = d
               /\ fromClient[d][l][p].req[2] <= client'[d].n
               /\ Clean(cx, fromClient[d][l][p].req)
               /\ \A r \in 1..Len(fromClient[d][l]) :
                    r # p /\ fromClient[d][l][r].cmd = "LOCK" =>
                      fromClient[d][l][r].req # fromClient[d][l][p].req
    <3>1. /\ fromClient[d][l][p].req[1] = d
          /\ fromClient[d][l][p].req[2] <= client[d].n
          /\ Clean(cl, fromClient[d][l][p].req)
          /\ \A r \in 1..Len(fromClient[d][l]) :
               r # p /\ fromClient[d][l][r].cmd = "LOCK" =>
                 fromClient[d][l][r].req # fromClient[d][l][p].req
      BY <2>3 DEF LockInv, Unhandled, cl
    <3>2. Clean(cx, fromClient[d][l][p].req)
      BY <1>8, <2>2, <2>3, <3>1
    <3>. QED  BY <2>1, <3>1, <3>2
  <2>. QED  BY <1>0, <1>2, <2>3 DEF Unhandled
<1>16. Future'
  <2>1. \A d \in Clients : client'[d].n = client[d].n
    BY <1>4, <1>5
  <2>2. \A d \in Clients, k \in 1..MaxRequests : <<d, k>> \in Requests
    BY DEF Requests
  <2>. QED  BY <1>0, <1>8, <2>1, <2>2 DEF LockInv, Future, cl
<1>. QED  BY <1>12, <1>13, <1>14, <1>15, <1>16 DEF LockInv

(* The invariant holds initially.                                          *)
LEMMA InitLockInv ==
  ASSUME Init
  PROVE  LockInv
<1>1. \A l \in Leaders :
        /\ Context(l).tickets = {} /\ Context(l).entering = {}
        /\ \A i \in Requests : Context(l).toClient[i] = <<>>
  BY DEF Init, Context
<1>2. \A c \in Clients : /\ client[c].phase = "idle"
                         /\ \A l \in Leaders : fromClient[c][l] = <<>>
  BY DEF Init
<1>3. Tables
  BY <1>1 DEF Tables, Sorted, Numbered
<1>4. Grants /\ LastSent /\ Unhandled
  BY <1>2 DEF Grants, Holds, LastSent, Unhandled
<1>5. Future
  BY <1>1 DEF Future, Clean, Requests
<1>. QED  BY <1>3, <1>4, <1>5 DEF LockInv

(* The invariant is inductive as long as the numbers do not wrap.          *)
LEMMA NextLockInv ==
  ASSUME OneLeader, IInv, LockInv, NumbersLeft, [Next]_vars
  PROVE  LockInv'
<1>0. PICK l \in Leaders : TRUE
  <2>1. Leaders # {}
    BY LeadersAssumption, FS_EmptySet
  <2>. QED  BY <2>1
<1>1. ASSUME NEW c \in Clients, ClientStep(c) PROVE LockInv'
  <2>1. ASSUME NEW s \in Leaders, ClientRun(c, s) PROVE LockInv'
    BY <2>1, ClientReadsInv DEF ClientRun
  <2>2. ASSUME NEW s \in Leaders, ClientPeek(c, s) PROVE LockInv'
    BY <2>2, ClientReadsInv DEF ClientPeek
  <2>. QED  BY <1>0, <1>1, <2>1, <2>2, ClientLockInv, ClientUnlockInv, ClientTimeoutInv
            DEF ClientStep
<1>2. ASSUME NEW c \in Clients, NEW s \in Leaders, HandleClient(c, s) PROVE LockInv'
  BY <1>2, LockStepInv, UnlockStepInv DEF HandleClient
<1>3. ASSUME NEW s \in Leaders, NEW d \in Leaders, HandleLeader(s, d) PROVE FALSE
  <2>1. s # d
    BY <1>3 DEF HandleLeader, LeaderSent, msg_lock_entering, msg_lock_entered,
          msg_lock_exiting, msg_get_max_ticket, msg_max_ticket, msg_add_ticket,
          msg_ticket_added, msg_ticket_ready, msg_activate_lock, msg_lock_activated,
          msg_drop_ticket, msg_lock_failed
  <2>. QED  BY <2>1 DEF OneLeader
<1>4. ASSUME NEW s \in Leaders, process_timeout(s) PROVE LockInv'
  BY <1>4, TimeoutInv
<1>5. CASE Tick
  BY <1>5, TickInv
<1>6. CASE UNCHANGED vars
  <2>1. \A s \in Leaders : Context(s)' = Context(s)
    BY <1>6 DEF vars, Context
  <2>2. \A c \in Clients : Request(c)' = Request(c) /\ (Holds(c)' <=> Holds(c))
    BY <1>6 DEF vars, Request, Holds
  <2>3. client' = client /\ fromClient' = fromClient
    BY <1>6 DEF vars
  <2>4. Tables' /\ Grants'
    BY <2>1, <2>2, <2>3 DEF LockInv, Tables, Grants
  <2>5. LastSent' /\ Future'
    BY <2>1, <2>2, <2>3 DEF LockInv, LastSent, Future
  <2>6. Unhandled'
    BY <2>1, <2>3 DEF LockInv, Unhandled
  <2>. QED  BY <2>4, <2>5, <2>6 DEF LockInv
<1>. QED  BY <1>1, <1>2, <1>3, <1>4, <1>5, <1>6 DEF Next

(* The invariant, in every state reached before a number wraps.            *)
THEOREM LockInvHolds ==
  ASSUME OneLeader
  PROVE  Spec /\ []NumbersLeft => []LockInv
<1>1. Init => LockInv
  BY InitLockInv
<1>2. IInv /\ LockInv /\ NumbersLeft /\ [Next]_vars => LockInv'
  BY NextLockInv
<1>. QED  BY <1>1, <1>2, IInvHolds, PTL DEF Spec

(***************************************************************************)
(* On a cluster with one leader a locked ticket is the first of f_tickets: *)
(* no request that is numbered later sorts before it.                      *)
(***************************************************************************)
THEOREM OneLeaderLockedIsFirst ==
  ASSUME OneLeader
  PROVE  Spec /\ []NumbersLeft => []LockedIsFirst
<1>1. ASSUME LockInv PROVE LockedIsFirst
  <2>1. \A l \in Leaders :
          Context(l).tickets = tickets[l] /\ Context(l).obj = obj[l]
    BY DEF Context
  <2>. QED  BY <1>1, <2>1 DEF LockInv, Tables, Sorted, LockedIsFirst
<1>. QED  BY <1>1, LockInvHolds, PTL

(***************************************************************************)
(* On a cluster with one leader the lock is exclusive, for any number of   *)
(* threads, whatever they ask and however often, whenever they give up and *)
(* in whatever order their messages and the leader's timer are handled:    *)
(* is_locked() is never true in two threads.                               *)
(***************************************************************************)
THEOREM OneLeaderExclusion ==
  ASSUME OneLeader
  PROVE  Spec /\ []NumbersLeft => []MutualExclusion
<1>1. ASSUME IInv, LockInv PROVE MutualExclusion
  <2>. SUFFICES ASSUME NEW c \in Clients, NEW d \in Clients, Holds(c), Holds(d)
                PROVE  c = d
    BY DEF MutualExclusion
  <2>1. PICK l \in Leaders : TRUE
    BY LeadersAssumption, FS_EmptySet
  <2>. DEFINE cl == Context(l)
              i == Request(c)
              j == Request(d)
  <2>2. /\ i \in cl.tickets /\ cl.obj[i].locked
        /\ j \in cl.tickets /\ cl.obj[j].locked
    BY <1>1, <2>1 DEF LockInv, Grants, Live
  <2>3. /\ ~KeyLess(TicketKey(cl, i), TicketKey(cl, j))
        /\ ~KeyLess(TicketKey(cl, j), TicketKey(cl, i))
    BY <1>1, <2>1, <2>2 DEF LockInv, Tables, Sorted
  <2>4. i \in Requests /\ j \in Requests /\ cl \in ContextType
    BY <1>1, <2>1, ContextOfLeader, CurrentRequest DEF Holds
  <2>5. /\ cl.obj[i].key_number \in Nat /\ cl.obj[j].key_number \in Nat
        /\ c \in Nat /\ d \in Nat
    <3>1. c \in Nat /\ d \in Nat
      BY ClientsAssumption
    <3>. HIDE DEF i, j, cl
    <3>2. cl.obj[i] \in Ticket /\ cl.obj[j] \in Ticket
      BY <2>4, ContextFields
    <3>3. cl.obj[i].key_number \in Numbers /\ cl.obj[j].key_number \in Numbers
      BY <3>2 DEF Ticket
    <3>. QED  BY <3>1, <3>3, BoundsAssumption DEF Numbers
  <2>6. i[1] = c /\ j[1] = d
    BY DEF Request
  <2>. HIDE DEF i, j, cl
  <2>. QED  BY <2>3, <2>5, <2>6 DEF KeyLess, TicketKey, EnteringKey
<1>. QED  BY <1>1, IInvHolds, LockInvHolds, PTL

(***************************************************************************)
(* On a cluster with one leader, the lock a thread relies on is still in   *)
(* f_tickets and locked there: no timeout, UNLOCK or retry took it away    *)
(* before the date that the thread was given.                              *)
(***************************************************************************)
THEOREM OneLeaderGrantBacked ==
  ASSUME OneLeader
  PROVE  Spec /\ []NumbersLeft => []HeldIsLocked
<1>1. ASSUME IInv, LockInv PROVE HeldIsLocked
  <2>. SUFFICES ASSUME NEW c \in Clients, Holds(c)
                PROVE  \E l \in Leaders : /\ obj[l][Request(c)].owner = l
                                          /\ Request(c) \in tickets[l]
                                          /\ obj[l][Request(c)].locked
    BY DEF HeldIsLocked
  <2>1. PICK l \in Leaders : TRUE
    BY LeadersAssumption, FS_EmptySet
  <2>2. Request(c) \in tickets[l] /\ obj[l][Request(c)].locked
    BY <1>1, <2>1 DEF LockInv, Grants, Live, Context
  <2>3. obj[l][Request(c)].owner = l
    <3>1. obj[l][Request(c)] \in Ticket
      BY <1>1, CurrentRequest DEF IInv, TypeOK, Holds
    <3>. QED  BY <3>1 DEF Ticket, OneLeader
  <2>. QED  BY <2>2, <2>3
<1>. QED  BY <1>1, IInvHolds, LockInvHolds, PTL

-----------------------------------------------------------------------------
(***************************************************************************)
(* The threads see the lock of module ExclusiveLock.                       *)
(*                                                                         *)
(* OneLeaderExclusion says when a thread may be granted the lock.  What is *)
(* left is that a thread whose lock is over does not get it back from a    *)
(* message it had not read, which is GrantStands: a request is answered    *)
(* once.  The code ensures it in two places, as lock_activated() ignores a *)
(* ticket that is locked or failed and lock_failed() one that failed; so a *)
(* request with an answer is settled (Settled) as long as it is in a map.  *)
(* UNLOCKED is sent for a locked ticket, hence after its LOCKED (Order),   *)
(* or when the thread asks for it, which a thread that waits does not do.  *)
(***************************************************************************)
Answer(m) == m.cmd \in {"LOCKED", "LOCKFAILED"}

(* lock_activated() and lock_failed() send no answer to j.                 *)
Settled(c, j) ==
  j \in c.tickets \cup c.entering => c.obj[j].locked \/ c.obj[j].failed

(* At most one answer for j is in transit, and none if it was read.        *)
Told(c, j, read) ==
  LET q == c.toClient[j]
  IN  /\ \A p, r \in 1..Len(q) : Answer(q[p]) /\ Answer(q[r]) => p = r
      /\ \A p \in 1..Len(q) : Answer(q[p]) => ~read /\ Settled(c, j)
      /\ read => Settled(c, j)

(* The LOCKED of j is in transit when j is locked or UNLOCKED was sent.    *)
Order(c, j) ==
  LET q == c.toClient[j]
  IN  /\ \A p \in 1..Len(q) : q[p].cmd = "UNLOCKED" =>
           \E r \in 1..Len(q) : r < p /\ q[r].cmd = "LOCKED"
      /\ j \in c.tickets \cup c.entering /\ c.obj[j].locked =>
           \E r \in 1..Len(q) : q[r].cmd = "LOCKED"

AnswersInv ==
  \A l \in Leaders :
    /\ \A j \in Requests : Told(Context(l), j, FALSE)
    /\ \A c \in Clients :
         /\ client[c].phase = "held" => Told(Context(l), Request(c), TRUE)
         /\ client[c].phase = "waiting" => Order(Context(l), Request(c))

-----------------------------------------------------------------------------
(* What a function that takes c to d preserves, for the requests of J and, *)
(* as to the order of the messages, for those of K.                        *)
Steady(c, d, J, K) ==
  /\ \A j \in J : \A read \in BOOLEAN : Told(c, j, read) => Told(d, j, read)
  /\ \A j \in K : Order(c, j) => Order(d, j)

(* Steady composes                                                         *)
LEMMA SteadyTrans ==
  ASSUME NEW c, NEW d, NEW e, NEW J, NEW K,
         Steady(c, d, J, K), Steady(d, e, J, K)
  PROVE  Steady(c, e, J, K)
  BY DEF Steady

(* and is reflexive.                                                       *)
LEMMA SteadyRefl ==
  ASSUME NEW c, NEW J, NEW K
  PROVE  Steady(c, c, J, K)
  BY DEF Steady

(***************************************************************************)
(* What a request was told stays so while nothing is sent to it.           *)
(***************************************************************************)
LEMMA SameQueueTold ==
  ASSUME NEW c, NEW d, NEW j, d.toClient[j] = c.toClient[j],
         Settled(c, j) => Settled(d, j),
         NEW read, Told(c, j, read)
  PROVE  Told(d, j, read)
<1>. DEFINE q == c.toClient[j]
<1>1. /\ \A p, r \in 1..Len(q) : Answer(q[p]) /\ Answer(q[r]) => p = r
      /\ \A p \in 1..Len(q) : Answer(q[p]) => ~read /\ Settled(c, j)
      /\ read => Settled(c, j)
  BY DEF Told
<1>2. d.toClient[j] = q
  OBVIOUS
<1>. HIDE DEF q
<1>. QED  BY <1>1, <1>2 DEF Told

(* The same for the order.                                                 *)
LEMMA SameQueueOrder ==
  ASSUME NEW c, NEW d, NEW j, d.toClient[j] = c.toClient[j],
         j \in d.tickets \cup d.entering => j \in c.tickets \cup c.entering,
         d.obj[j].locked = c.obj[j].locked, Order(c, j)
  PROVE  Order(d, j)
<1>. DEFINE q == c.toClient[j]
<1>1. /\ \A p \in 1..Len(q) : q[p].cmd = "UNLOCKED" =>
           \E r \in 1..Len(q) : r < p /\ q[r].cmd = "LOCKED"
      /\ j \in c.tickets \cup c.entering /\ c.obj[j].locked =>
           \E r \in 1..Len(q) : q[r].cmd = "LOCKED"
  BY DEF Order
<1>2. d.toClient[j] = q
  OBVIOUS
<1>. HIDE DEF q
<1>. QED  BY <1>1, <1>2 DEF Order

(***************************************************************************)
(* No request enters, and none is locked, fails or is sent an answer.      *)
(***************************************************************************)
SameAnswers(c, d) ==
  /\ d.toClient = c.toClient
  /\ d.tickets \cup d.entering \subseteq c.tickets \cup c.entering
  /\ \A j \in Requests :
       /\ d.obj[j].locked = c.obj[j].locked
       /\ d.obj[j].failed = c.obj[j].failed

(* Such a change preserves everything.                                     *)
LEMMA SameAnswersSteady ==
  ASSUME NEW c, NEW d, SameAnswers(c, d)
  PROVE  Steady(c, d, Requests, Requests)
<1>1. \A j \in Requests : Settled(c, j) => Settled(d, j)
  BY DEF SameAnswers, Settled
<1>2. \A j \in Requests : \A read \in BOOLEAN : Told(c, j, read) => Told(d, j, read)
  BY <1>1, SameQueueTold DEF SameAnswers
<1>3. \A j \in Requests : Order(c, j) => Order(d, j)
  BY SameQueueOrder DEF SameAnswers
<1>. QED  BY <1>2, <1>3 DEF Steady

(***************************************************************************)
(* A message was appended to the queue of a request.  An answer is only    *)
(* sent to a request that is not settled, and settles it; UNLOCKED only    *)
(* follows a LOCKED.                                                       *)
(***************************************************************************)
LEMMA AppendTold ==
  ASSUME NEW c \in ContextType, NEW d, NEW j \in Requests, NEW m \in ClientMessage,
         d.toClient[j] = Append(c.toClient[j], m),
         Settled(d, j), Answer(m) => ~Settled(c, j),
         NEW read \in BOOLEAN, Told(c, j, read)
  PROVE  Told(d, j, read)
<1>. DEFINE q == c.toClient[j]
            w == d.toClient[j]
<1>1. q \in Seq(ClientMessage)
  BY ContextFields
<1>2. \A p \in 1..Len(w) : \/ p \in 1..Len(q) /\ w[p] = q[p]
                           \/ p = Len(q) + 1 /\ w[p] = m
  BY <1>1, AppendAt
<1>3. /\ \A p, r \in 1..Len(q) : Answer(q[p]) /\ Answer(q[r]) => p = r
      /\ \A p \in 1..Len(q) : Answer(q[p]) => ~read /\ Settled(c, j)
      /\ read => Settled(c, j)
  BY DEF Told
<1>. HIDE DEF q, w
<1>4. \A p, r \in 1..Len(w) : Answer(w[p]) /\ Answer(w[r]) => p = r
  BY <1>2, <1>3
<1>5. \A p \in 1..Len(w) : Answer(w[p]) => ~read
  BY <1>2, <1>3
<1>. QED  BY <1>4, <1>5 DEF Told, w

(* The same for the order of the messages.                                 *)
LEMMA AppendOrder ==
  ASSUME NEW c \in ContextType, NEW d, NEW j \in Requests, NEW m \in ClientMessage,
         d.toClient[j] = Append(c.toClient[j], m), Order(c, j),
         m.cmd = "UNLOCKED" => j \in c.tickets \cup c.entering /\ c.obj[j].locked,
         j \in d.tickets \cup d.entering /\ d.obj[j].locked =>
           \/ m.cmd = "LOCKED"
           \/ j \in c.tickets \cup c.entering /\ c.obj[j].locked
  PROVE  Order(d, j)
<1>. DEFINE q == c.toClient[j]
            w == d.toClient[j]
            L == \E r \in 1..Len(q) : q[r].cmd = "LOCKED"
<1>1. q \in Seq(ClientMessage)
  BY ContextFields
<1>2. \A p \in 1..Len(w) : \/ p \in 1..Len(q) /\ w[p] = q[p]
                           \/ p = Len(q) + 1 /\ w[p] = m
  BY <1>1, AppendAt
<1>3. /\ Len(q) \in Nat /\ Len(w) = Len(q) + 1 /\ w[Len(q) + 1] = m
      /\ \A p \in 1..Len(q) : p \in 1..Len(w) /\ w[p] = q[p]
  BY <1>1
<1>4. /\ \A p \in 1..Len(q) : q[p].cmd = "UNLOCKED" =>
           \E r \in 1..Len(q) : r < p /\ q[r].cmd = "LOCKED"
      /\ j \in c.tickets \cup c.entering /\ c.obj[j].locked => L
  BY DEF Order
<1>. HIDE DEF q, w
<1>5. ASSUME NEW p \in 1..Len(w), w[p].cmd = "UNLOCKED"
      PROVE  \E r \in 1..Len(w) : r < p /\ w[r].cmd = "LOCKED"
  <2>1. CASE p \in 1..Len(q) /\ w[p] = q[p]
    BY <1>3, <1>4, <1>5, <2>1
  <2>2. CASE p = Len(q) + 1 /\ w[p] = m
    <3>1. L
      BY <1>4, <1>5, <2>2
    <3>2. PICK r \in 1..Len(q) : q[r].cmd = "LOCKED"
      BY <3>1
    <3>3. r < p /\ r \in 1..Len(w) /\ w[r] = q[r]
      BY <1>3, <2>2
    <3>. QED  BY <3>2, <3>3
  <2>. QED  BY <1>2, <2>1, <2>2
<1>6. ASSUME j \in d.tickets \cup d.entering /\ d.obj[j].locked
      PROVE  \E r \in 1..Len(w) : w[r].cmd = "LOCKED"
  <2>1. CASE m.cmd = "LOCKED"
    <3>1. Len(q) + 1 \in 1..Len(w)
      BY <1>3
    <3>. QED  BY <1>3, <2>1, <3>1
  <2>2. CASE L
    BY <1>3, <2>2
  <2>. QED  BY <1>4, <1>6, <2>1, <2>2
<1>. QED  BY <1>5, <1>6 DEF Order, w

-----------------------------------------------------------------------------
(* The functions of the code, one by one.                                  *)

(* Messages to leaders.                                                    *)
LEMMA SendSteady ==
  ASSUME NEW c \in ContextType, NEW ms
  PROVE  Steady(c, SendSeqToLeaders(c, ms), Requests, Requests)
<1>1. SameAnswers(c, SendSeqToLeaders(c, ms))
  BY DEF SendSeqToLeaders, SameAnswers, ContextType
<1>. QED  BY <1>1, SameAnswersSteady

(* lock_failed(): a locked ticket gets an UNLOCKED, another one its only   *)
(* answer.                                                                 *)
LEMMA LockFailedSteady ==
  ASSUME NEW c \in ContextType, NEW S \in SUBSET (c.tickets \cup c.entering)
  PROVE  Steady(c, LockFailed(c, S), Requests, Requests)
<1>. DEFINE d == LockFailed(c, S)
<1>0. c.tickets \subseteq Requests /\ c.entering \subseteq Requests
  BY ContextFields
<1>1. d.tickets = c.tickets /\ d.entering = c.entering
  BY DEF LockFailed, ContextType
<1>2. \A j \in Requests :
        d.obj[j] = IF j \in S /\ ~c.obj[j].failed THEN FailTicket(c.obj[j]) ELSE c.obj[j]
  BY DEF LockFailed, ContextType
<1>3. \A j \in Requests :
        \/ d.toClient[j] = c.toClient[j]
        \/ /\ j \in S /\ ~c.obj[j].failed
           /\ d.toClient[j] = Append(c.toClient[j], FailureMessage(c.obj[j]))
  BY DEF LockFailed, ContextType
<1>4. \A t \in Ticket : FailTicket(t).locked = t.locked /\ FailTicket(t).failed
  BY DEF FailTicket, Ticket
<1>5. \A j \in Requests :
        /\ d.obj[j].locked = c.obj[j].locked
        /\ c.obj[j].failed => d.obj[j].failed
        /\ j \in S => d.obj[j].failed
  <2>1. \A j \in Requests : c.obj[j] \in Ticket
    BY ContextFields
  <2>. HIDE DEF d
  <2>. QED  BY <1>2, <1>4, <2>1
<1>. HIDE DEF d
<1>6. ASSUME NEW j \in Requests
      PROVE  /\ \A read \in BOOLEAN : Told(c, j, read) => Told(d, j, read)
             /\ Order(c, j) => Order(d, j)
  <2>. DEFINE m == FailureMessage(c.obj[j])
  <2>0. Settled(c, j) => Settled(d, j)
    BY <1>1, <1>5 DEF Settled
  <2>1. CASE d.toClient[j] = c.toClient[j]
    <3>1. \A read \in BOOLEAN : Told(c, j, read) => Told(d, j, read)
      BY <2>0, <2>1, SameQueueTold
    <3>2. Order(c, j) => Order(d, j)
      BY <1>1, <1>5, <2>1, SameQueueOrder
    <3>. QED  BY <3>1, <3>2
  <2>2. CASE /\ j \in S /\ ~c.obj[j].failed
             /\ d.toClient[j] = Append(c.toClient[j], m)
    <3>1. /\ m \in ClientMessage
          /\ m.cmd = "UNLOCKED" => c.obj[j].locked
          /\ Answer(m) => ~c.obj[j].locked
      BY DEF FailureMessage, ClientMessage, Answer
    <3>. HIDE DEF m
    <3>2. j \in c.tickets \cup c.entering
      BY <2>2
    <3>3. Settled(d, j) /\ (Answer(m) => ~Settled(c, j))
      BY <1>5, <2>2, <3>1, <3>2 DEF Settled
    <3>4. \A read \in BOOLEAN : Told(c, j, read) => Told(d, j, read)
      BY <2>2, <3>1, <3>3, AppendTold
    <3>5. Order(c, j) => Order(d, j)
      BY <1>1, <1>5, <2>2, <3>1, <3>2, AppendOrder
    <3>. QED  BY <3>4, <3>5
  <2>. QED  BY <1>3, <2>1, <2>2
<1>. QED  BY <1>6 DEF Steady, d

(* Erasing tickets and entering tickets.                                   *)
LEMMA FewerSteady ==
  ASSUME NEW c \in ContextType
  PROVE  /\ \A T \in SUBSET c.tickets :
              Steady(c, [c EXCEPT !.tickets = T], Requests, Requests)
         /\ \A S \in SUBSET c.entering :
              Steady(c, [c EXCEPT !.entering = S], Requests, Requests)
<1>1. \A T \in SUBSET c.tickets : SameAnswers(c, [c EXCEPT !.tickets = T])
  BY DEF SameAnswers, ContextType
<1>2. \A S \in SUBSET c.entering : SameAnswers(c, [c EXCEPT !.entering = S])
  BY DEF SameAnswers, ContextType
<1>. QED  BY <1>1, <1>2, SameAnswersSteady

(* The tickets that timed out.                                             *)
LEMMA PruneSteady ==
  ASSUME NEW c \in ContextType
  PROVE  /\ Steady(c, PruneTickets(c), Requests, Requests)
         /\ Steady(c, PruneEntering(c), Requests, Requests)
<1>1. Steady(c, PruneTickets(c), Requests, Requests)
  <2>. DEFINE f == LockFailed(c, {i \in c.tickets : TimedOut(c, i)})
              T == {i \in f.tickets : ~TimedOut(f, i)}
  <2>1. f \in ContextType /\ Steady(c, f, Requests, Requests)
    BY LockFailedType, ContextFields, LockFailedSteady
  <2>. HIDE DEF f
  <2>2. Steady(f, [f EXCEPT !.tickets = T], Requests, Requests)
    <3>1. T \in SUBSET f.tickets
      OBVIOUS
    <3>. HIDE DEF T
    <3>. QED  BY <2>1, <3>1, FewerSteady
  <2>3. PruneTickets(c) = [f EXCEPT !.tickets = T]
    BY DEF PruneTickets, f
  <2>. QED  BY <2>1, <2>2, <2>3, SteadyTrans
<1>2. Steady(c, PruneEntering(c), Requests, Requests)
  <2>. DEFINE f == LockFailed(c, {i \in c.entering : TimedOut(c, i)})
              T == {i \in f.entering : ~TimedOut(f, i)}
  <2>1. f \in ContextType /\ Steady(c, f, Requests, Requests)
    BY LockFailedType, ContextFields, LockFailedSteady
  <2>. HIDE DEF f
  <2>2. Steady(f, [f EXCEPT !.entering = T], Requests, Requests)
    <3>1. T \in SUBSET f.entering
      OBVIOUS
    <3>. HIDE DEF T
    <3>. QED  BY <2>1, <3>1, FewerSteady
  <2>3. PruneEntering(c) = [f EXCEPT !.entering = T]
    BY DEF PruneEntering, f
  <2>. QED  BY <2>1, <2>2, <2>3, SteadyTrans
<1>. QED  BY <1>1, <1>2

(* lock_activated(): the ticket was not settled, and LOCKED settles it.    *)
LEMMA LockActivatedSteady ==
  ASSUME OneLeader, NEW c \in ContextType, NEW i \in c.tickets
  PROVE  Steady(c, LockActivated(c, i), Requests, Requests)
<1>. DEFINE date == c.obj[i].lock_duration + c.now
            m == [cmd |-> "LOCKED", timeout_date |-> date]
            d == LockActivated(c, i)
<1>0. /\ c.tickets \subseteq Requests /\ i \in Requests
      /\ c.obj[i] \in Ticket /\ c.now \in Nat /\ c.self \in Leaders
  BY ContextFields
<1>1. date \in Nat /\ m \in ClientMessage /\ m.cmd = "LOCKED"
  BY <1>0 DEF Ticket, ClientMessage
<1>2. CASE ~Activatable(c.obj[i])
  BY <1>2, SteadyRefl DEF LockActivated
<1>3. CASE Activatable(c.obj[i])
  <2>1. c.obj[i].owner = c.self
    BY <1>0 DEF Ticket, OneLeader
  <2>2. /\ d.tickets = c.tickets /\ d.entering = c.entering
        /\ d.obj = [c.obj EXCEPT ![i] = [@ EXCEPT !.locked = TRUE,
                                                  !.lock_timeout = date]]
        /\ d.toClient = [c.toClient EXCEPT ![i] = Append(@, m)]
    BY <1>3, <2>1 DEF LockActivated, SendToClient, ContextType
  <2>. HIDE DEF d, date, m
  <2>3. /\ d.obj[i].locked /\ d.toClient[i] = Append(c.toClient[i], m)
        /\ \A j \in Requests \ {i} :
             d.obj[j] = c.obj[j] /\ d.toClient[j] = c.toClient[j]
    BY <1>0, <2>2, ContextFields DEF Ticket
  <2>4. Settled(d, i) /\ ~Settled(c, i)
    BY <1>0, <1>3, <2>3 DEF Activatable, Settled
  <2>5. ASSUME NEW j \in Requests
        PROVE  /\ \A read \in BOOLEAN : Told(c, j, read) => Told(d, j, read)
               /\ Order(c, j) => Order(d, j)
    <3>1. CASE j = i
      <4>1. \A read \in BOOLEAN : Told(c, i, read) => Told(d, i, read)
        BY <1>0, <1>1, <2>3, <2>4, AppendTold
      <4>2. Order(c, i) => Order(d, i)
        BY <1>0, <1>1, <2>3, AppendOrder
      <4>. QED  BY <3>1, <4>1, <4>2
    <3>2. CASE j # i
      <4>1. /\ d.obj[j] = c.obj[j] /\ d.toClient[j] = c.toClient[j]
            /\ Settled(c, j) => Settled(d, j)
        BY <2>2, <2>3, <3>2 DEF Settled
      <4>2. \A read \in BOOLEAN : Told(c, j, read) => Told(d, j, read)
        BY <4>1, SameQueueTold
      <4>3. Order(c, j) => Order(d, j)
        BY <2>2, <4>1, SameQueueOrder
      <4>. QED  BY <4>2, <4>3
    <3>. QED  BY <3>1, <3>2
  <2>. QED  BY <2>5 DEF Steady, d
<1>. QED  BY <1>2, <1>3

(* activate_first_lock().                                                  *)
LEMMA ActivateFirstLockSteady ==
  ASSUME OneLeader, NEW c \in ContextType
  PROVE  Steady(c, ActivateFirstLock(c), Requests, Requests)
<1>. DEFINE p == PruneTickets(c)
            first == FirstTicket(p, p.tickets)
<1>1. p \in ContextType /\ Steady(c, p, Requests, Requests)
  BY PruneTicketsType, PruneSteady
<1>. HIDE DEF p
<1>2. CASE p.tickets = {}
  BY <1>1, <1>2 DEF ActivateFirstLock, p
<1>3. CASE p.tickets # {}
  <2>1. first \in p.tickets
    BY <1>1, <1>3, FirstTicketType, ContextFields
  <2>. HIDE DEF first
  <2>2. ActivateFirstLock(c) \in {p, LockActivated(p, first)}
    <3>1. Alone(p)
      BY <1>1, ContextFields DEF Alone, Others, OneLeader
    <3>. QED  BY <1>3, <3>1 DEF ActivateFirstLock, ActivateLock, p, first
  <2>3. Steady(p, ActivateFirstLock(c), Requests, Requests)
    BY <1>1, <2>1, <2>2, LockActivatedSteady, SteadyRefl
  <2>. QED  BY <1>1, <2>3, SteadyTrans
<1>. QED  BY <1>2, <1>3

(* cleanup().                                                              *)
LEMMA CleanupSteady ==
  ASSUME OneLeader, NEW c \in ContextType
  PROVE  Steady(c, Cleanup(c), Requests, Requests)
<1>. DEFINE p == PruneTickets(c)
            a == IF p.tickets # c.tickets /\ p.tickets # {}
                 THEN ActivateFirstLock(p) ELSE p
            e == PruneEntering(a)
<1>1. p \in ContextType /\ Steady(c, p, Requests, Requests)
  BY PruneTicketsType, PruneSteady
<1>2. a \in ContextType /\ Steady(p, a, Requests, Requests)
  <2>. HIDE DEF p
  <2>. QED  BY <1>1, ActivateFirstLockType, ActivateFirstLockSteady, SteadyRefl
<1>. HIDE DEF p, a
<1>3. e \in ContextType /\ Steady(a, e, Requests, Requests)
  BY <1>2, PruneEnteringType, PruneSteady
<1>. HIDE DEF e
<1>4. Steady(e, Cleanup(c), Requests, Requests)
  <2>1. PICK t : Cleanup(c) = [e EXCEPT !.timer = t]
    BY DEF Cleanup, e, a, p
  <2>2. SameAnswers(e, Cleanup(c))
    BY <1>3, <2>1 DEF SameAnswers, ContextType
  <2>. QED  BY <2>2, SameAnswersSteady
<1>. QED  BY <1>1, <1>2, <1>3, <1>4, SteadyTrans

(* remove_entering() of every ticket.                                      *)
LEMMA RemoveEnteringSteady ==
  ASSUME NEW c \in ContextType, NEW k \in Clients
  PROVE  Steady(c, RemoveEntering(c, k), Requests, Requests)
<1>. DEFINE d == RemoveEntering(c, k)
<1>1. d.tickets = c.tickets /\ d.entering = c.entering /\ d.toClient = c.toClient
  BY DEF RemoveEntering, SendSeqToLeaders, ContextType
<1>2. \A j \in Requests : \E S, b :
        \/ d.obj[j] = c.obj[j]
        \/ d.obj[j] = [c.obj[j] EXCEPT !.still_entering = S, !.ready = b]
  BY DEF RemoveEntering, SendSeqToLeaders, ContextType
<1>. HIDE DEF d
<1>3. \A j \in Requests :
        d.obj[j].locked = c.obj[j].locked /\ d.obj[j].failed = c.obj[j].failed
  <2>. SUFFICES ASSUME NEW j \in Requests
                PROVE  /\ d.obj[j].locked = c.obj[j].locked
                       /\ d.obj[j].failed = c.obj[j].failed
    OBVIOUS
  <2>1. c.obj[j] \in Ticket
    BY ContextFields
  <2>. QED  BY <1>2, <2>1 DEF Ticket
<1>. QED  BY <1>1, <1>3, SameAnswersSteady DEF SameAnswers, d

(* msg_lock_exiting().                                                     *)
LEMMA LockExitingSteady ==
  ASSUME OneLeader, NEW c \in ContextType, NEW k \in Clients
  PROVE  Steady(c, LockExiting(c, k), Requests, Requests)
<1>. DEFINE e == [c EXCEPT !.entering = @ \ EnteringOf(c, k)]
            r == RemoveEntering(e, k)
            a == ActivateFirstLock(r)
<1>1. e \in ContextType /\ Steady(c, e, Requests, Requests)
  <2>1. c.entering \ EnteringOf(c, k) \in SUBSET c.entering
    OBVIOUS
  <2>. QED  BY <2>1, WithEntering, ContextFields, FewerSteady
<1>. HIDE DEF e
<1>2. r \in ContextType /\ Steady(c, r, Requests, Requests)
  BY <1>1, RemoveEnteringType, RemoveEnteringSteady, SteadyTrans
<1>. HIDE DEF r
<1>3. a \in ContextType /\ Steady(c, a, Requests, Requests)
  BY <1>2, ActivateFirstLockType, ActivateFirstLockSteady, SteadyTrans
<1>. HIDE DEF a
<1>4. /\ Steady(c, Cleanup(c), Requests, Requests)
      /\ Steady(c, Cleanup(e), Requests, Requests)
      /\ Steady(c, Cleanup(a), Requests, Requests)
  BY <1>1, <1>3, CleanupSteady, SteadyTrans
<1>5. LockExiting(c, k) \in {Cleanup(c), Cleanup(e), Cleanup(a)}
  BY DEF LockExiting, e, r, a
<1>. QED  BY <1>4, <1>5

(* A change of the object of one ticket.                                   *)
LEMMA OneObjSteady ==
  ASSUME NEW c \in ContextType, NEW i \in Requests, NEW t \in Ticket,
         t.locked = c.obj[i].locked, t.failed = c.obj[i].failed
  PROVE  /\ [c EXCEPT !.obj[i] = t] \in ContextType
         /\ [c EXCEPT !.obj[i] = t].tickets = c.tickets
         /\ [c EXCEPT !.obj[i] = t].entering = c.entering
         /\ [c EXCEPT !.obj[i] = t].obj[i] = t
         /\ Steady(c, [c EXCEPT !.obj[i] = t], Requests, Requests)
<1>. DEFINE d == [c EXCEPT !.obj[i] = t]
<1>1. \A j \in Requests : d.obj[j] = IF j = i THEN t ELSE c.obj[j]
  BY DEF ContextType
<1>2. d.tickets = c.tickets /\ d.entering = c.entering /\ d.toClient = c.toClient
  BY DEF ContextType
<1>3. d \in ContextType
  BY WithOneObj
<1>. HIDE DEF d
<1>4. SameAnswers(c, d)
  BY <1>1, <1>2 DEF SameAnswers
<1>. QED  BY <1>1, <1>2, <1>3, <1>4, SameAnswersSteady DEF d

(* ticket_added().                                                         *)
LEMMA TicketAddedSteady ==
  ASSUME OneLeader, NEW c \in ContextType, NEW i \in Requests
  PROVE  Steady(c, TicketAdded(c, i), Requests, Requests)
<1>. DEFINE t == [c.obj[i] EXCEPT !.quorum = TRUE, !.still_entering = c.entering]
            q == [c EXCEPT !.obj[i] = t]
            m == [cmd |-> "LOCKEXITING", key |-> EnteringKey(i)]
            s == SendToLeaders(q, m)
            x == LockExiting(s, EnteringKey(i))
<1>1. t \in Ticket /\ t.locked = c.obj[i].locked /\ t.failed = c.obj[i].failed
  <2>1. c.obj[i] \in Ticket /\ c.entering \in SUBSET Requests
    BY ContextFields
  <2>. QED  BY <2>1 DEF Ticket
<1>. HIDE DEF t
<1>2. q \in ContextType /\ Steady(c, q, Requests, Requests)
  BY <1>1, OneObjSteady
<1>. HIDE DEF q
<1>3. m \in LeaderMessage /\ EnteringKey(i) \in Clients
  BY RequestParts DEF LeaderMessage
<1>. HIDE DEF m
<1>4. s \in ContextType /\ Steady(c, s, Requests, Requests)
  BY <1>2, <1>3, SendType, SendSteady, SteadyTrans DEF SendToLeaders
<1>. HIDE DEF s
<1>5. Steady(c, x, Requests, Requests)
  BY <1>3, <1>4, LockExitingSteady, SteadyTrans
<1>. QED  BY <1>5, SteadyRefl DEF TicketAdded, x, s, q, m, t

(* add_ticket() of an entering ticket.                                     *)
LEMMA AddTicketSteady ==
  ASSUME OneLeader, NEW c \in ContextType, NEW i \in Requests, i \in c.entering
  PROVE  Steady(c, AddTicket(c, i), Requests, Requests)
<1>. DEFINE t == [c.obj[i] EXCEPT !.added_ticket = TRUE,
                                  !.key_number = c.obj[i].our_ticket]
            d == [c EXCEPT !.obj[i] = t]
            a == SetTicket(d, i)
            b == TicketAdded(a, i)
<1>1. t \in Ticket /\ t.locked = c.obj[i].locked /\ t.failed = c.obj[i].failed
  <2>1. c.obj[i] \in Ticket
    BY ContextFields
  <2>. QED  BY <2>1 DEF Ticket
<1>. HIDE DEF t
<1>2. /\ d \in ContextType /\ d.entering = c.entering
      /\ Steady(c, d, Requests, Requests)
  BY <1>1, OneObjSteady
<1>. HIDE DEF d
<1>3. a \in ContextType /\ Steady(d, a, Requests, Requests)
  <2>1. SameAnswers(d, a)
    BY <1>2 DEF SetTicket, SameAnswers, ContextType
  <2>. QED  BY <1>2, <2>1, SetTicketType, SameAnswersSteady
<1>. HIDE DEF a
<1>4. Steady(a, b, Requests, Requests)
  BY <1>3, TicketAddedSteady
<1>5. Alone(c)
  BY ContextFields DEF Alone, Others, OneLeader
<1>6. AddTicket(c, i) = b
  BY <1>5 DEF AddTicket, b, a, d, t
<1>. QED  BY <1>2, <1>3, <1>4, <1>6, SteadyTrans

(* The whole life of a new ticket up to the end of lock_exiting().         *)
LEMMA EnteringSteady ==
  ASSUME OneLeader, NEW c \in ContextType, NEW i \in Requests, i \in c.entering
  PROVE  Steady(c, Entering(c, i), Requests, Requests)
<1>. DEFINE last == GetLastTicket(c)
            t == [c.obj[i] EXCEPT !.get_max_ticket = TRUE, !.our_ticket = last]
            g == [c EXCEPT !.obj[i] = t]
<1>1. last \in Numbers
  BY GetLastTicketType
<1>. HIDE DEF last
<1>2. t \in Ticket /\ t.locked = c.obj[i].locked /\ t.failed = c.obj[i].failed
  <2>1. c.obj[i] \in Ticket
    BY ContextFields
  <2>. QED  BY <1>1, <2>1 DEF Ticket
<1>. HIDE DEF t
<1>3. /\ g \in ContextType /\ g.entering = c.entering
      /\ Steady(c, g, Requests, Requests)
  BY <1>2, OneObjSteady
<1>. HIDE DEF g
<1>4. Steady(g, MaxTicketReceived(g, i, last), Requests, Requests)
  <2>. DEFINE largest == IF last > g.obj[i].our_ticket THEN last ELSE g.obj[i].our_ticket
              number == (largest + 1) % (MaxTicket + 1)
              u == [g.obj[i] EXCEPT !.our_ticket = number]
              h == [g EXCEPT !.obj[i] = u]
  <2>0. g.obj[i] \in Ticket
    BY <1>3, ContextFields
  <2>1. number \in Numbers
    <3>1. largest \in Nat
      BY <1>1, <2>0, BoundsAssumption DEF Numbers, Ticket
    <3>. HIDE DEF largest
    <3>. QED  BY <3>1, BoundsAssumption DEF Numbers
  <2>. HIDE DEF number
  <2>2. u \in Ticket /\ u.locked = g.obj[i].locked /\ u.failed = g.obj[i].failed
    BY <2>0, <2>1 DEF Ticket
  <2>. HIDE DEF u
  <2>3. /\ h \in ContextType /\ h.entering = g.entering
        /\ Steady(g, h, Requests, Requests)
    BY <1>3, <2>2, OneObjSteady
  <2>. HIDE DEF h
  <2>4. Steady(g, AddTicket(h, i), Requests, Requests)
    BY <1>3, <2>3, AddTicketSteady, SteadyTrans
  <2>5. MaxTicketReceived(g, i, last) \in {g, AddTicket(h, i)}
    BY DEF MaxTicketReceived, h, u, number, largest
  <2>. QED  BY <2>4, <2>5, SteadyRefl
<1>5. Alone(c)
  BY ContextFields DEF Alone, Others, OneLeader
<1>6. Entering(c, i) \in {c, MaxTicketReceived(g, i, last)}
  BY <1>5 DEF Entering, Entered, last, g, t
<1>. QED  BY <1>3, <1>4, <1>6, SteadyTrans, SteadyRefl

(* Steady for fewer requests.                                              *)
LEMMA SteadyWeaker ==
  ASSUME NEW c, NEW d, Steady(c, d, Requests, Requests),
         NEW J \in SUBSET Requests, NEW K \in SUBSET Requests
  PROVE  Steady(c, d, J, K)
  BY DEF Steady

(* A request of which the leader knows nothing was told nothing.           *)
LEMMA CleanTold ==
  ASSUME NEW c, NEW j, Clean(c, j)
  PROVE  Told(c, j, FALSE) /\ Order(c, j)
  BY DEF Clean, Told, Order

(* A refusal is the only message to its request.                           *)
LEMMA RefuseSteady ==
  ASSUME NEW c \in ContextType, NEW i \in Requests, Clean(c, i),
         NEW error \in {"timedout", "invalid", "duplicate"}
  PROVE  /\ Steady(c, Refuse(c, i, error), Requests \ {i}, Requests \ {i})
         /\ Told(Refuse(c, i, error), i, FALSE)
         /\ Order(Refuse(c, i, error), i)
<1>. DEFINE m == [cmd |-> "LOCKFAILED", error |-> error]
            d == SendToClient(c, i, m)
<1>1. Refuse(c, i, error) \in {c, d}
  BY DEF Refuse
<1>2. Told(c, i, FALSE) /\ Order(c, i) /\ i \notin c.tickets \cup c.entering
  BY CleanTold DEF Clean
<1>3. m.cmd = "LOCKFAILED" /\ m \in ClientMessage
  BY DEF ClientMessage
<1>. HIDE DEF m
<1>4. /\ d.tickets = c.tickets /\ d.entering = c.entering /\ d.obj = c.obj
      /\ d.toClient[i] = Append(c.toClient[i], m)
      /\ \A j \in Requests \ {i} : d.toClient[j] = c.toClient[j]
  BY DEF SendToClient, ContextType
<1>5. d.toClient[i] = <<m>>
  BY <1>4 DEF Clean
<1>. HIDE DEF d
<1>6. Told(d, i, FALSE)
  <2>1. Settled(d, i)
    BY <1>2, <1>4 DEF Settled
  <2>2. 1..Len(d.toClient[i]) = {1}
    BY <1>5
  <2>. QED  BY <2>1, <2>2 DEF Told
<1>7. Order(d, i)
  <2>1. \A p \in 1..Len(d.toClient[i]) : d.toClient[i][p] = m
    BY <1>5
  <2>. QED  BY <1>2, <1>3, <1>4, <2>1 DEF Order
<1>8. \A j \in Requests \ {i} : \A read \in BOOLEAN : Told(c, j, read) => Told(d, j, read)
  <2>1. \A j \in Requests \ {i} : Settled(c, j) => Settled(d, j)
    BY <1>4 DEF Settled
  <2>. QED  BY <1>4, <2>1, SameQueueTold
<1>9. \A j \in Requests \ {i} : Order(c, j) => Order(d, j)
  BY <1>4, SameQueueOrder
<1>10. Steady(c, d, Requests \ {i}, Requests \ {i})
  BY <1>8, <1>9 DEF Steady
<1>. QED  BY <1>1, <1>2, <1>6, <1>7, <1>10, SteadyRefl

(* msg_lock() of a request that is not known yet.                          *)
LEMMA LockSteady ==
  ASSUME OneLeader, NEW c \in ContextType, NEW m \in RequestMessage,
         m.cmd = "LOCK", Clean(c, m.req)
  PROVE  /\ Steady(c, Lock(c, m), Requests \ {m.req}, Requests \ {m.req})
         /\ Told(Lock(c, m), m.req, FALSE)
         /\ Order(Lock(c, m), m.req)
<1>. DEFINE i == m.req
            J == Requests \ {i}
            c0 == Cleanup(c)
            new == NewTicket(c0.self, m.timeout, m.duration, m.unlock_duration)
            c1 == [c0 EXCEPT !.entering = @ \cup {i}, !.obj[i] = new]
            e == Entering(c1, i)
<1>1. i \in Requests
  BY RequestMessageFields
<1>2. c0 \in ContextType /\ Clean(c0, i) /\ Steady(c, c0, J, J)
  <2>1. c0 \in ContextType /\ Steady(c, c0, Requests, Requests)
    BY CleanupType, CleanupSteady
  <2>2. Frame(c, c0, {})
    BY CleanupKept DEF Kept
  <2>. HIDE DEF c0
  <2>3. Clean(c0, i)
    BY <1>1, <2>2, CleanKept
  <2>4. J \in SUBSET Requests
    OBVIOUS
  <2>. HIDE DEF J
  <2>. QED  BY <2>1, <2>3, <2>4, SteadyWeaker
<1>. HIDE DEF c0
<1>3. new \in Ticket /\ ~new.locked
  <2>1. new \in Ticket
    BY <1>2, RequestMessageFields, ContextFields, NewTicketType
  <2>. QED  BY <2>1 DEF NewTicket
<1>. HIDE DEF new
<1>4. c1 \in ContextType
  BY <1>1, <1>2, <1>3, EnterType
<1>5. /\ c1.tickets = c0.tickets /\ c1.toClient = c0.toClient
      /\ c1.entering = c0.entering \cup {i} /\ c1.obj[i] = new
      /\ \A j \in J : c1.obj[j] = c0.obj[j]
  BY <1>1, <1>2 DEF ContextType
<1>. HIDE DEF c1
<1>6. Told(c1, i, FALSE) /\ Order(c1, i)
  BY <1>2, <1>3, <1>5 DEF Clean, Told, Order
<1>7. Steady(c0, c1, J, J)
  <2>1. \A j \in J : (j \in c1.tickets \cup c1.entering
                        <=> j \in c0.tickets \cup c0.entering)
    BY <1>5
  <2>2. \A j \in J : Settled(c0, j) => Settled(c1, j)
    BY <1>5, <2>1 DEF Settled
  <2>3. \A j \in J : \A read \in BOOLEAN : Told(c0, j, read) => Told(c1, j, read)
    BY <1>5, <2>2, SameQueueTold
  <2>4. \A j \in J : Order(c0, j) => Order(c1, j)
    BY <1>5, <2>1, SameQueueOrder
  <2>. QED  BY <2>3, <2>4 DEF Steady
<1>8. e \in ContextType /\ Steady(c1, e, Requests, Requests)
  BY <1>1, <1>4, <1>5, EnteringSteady, EnteringType
<1>. HIDE DEF e
<1>9. Steady(c1, Cleanup(e), Requests, Requests)
  BY <1>8, CleanupSteady, SteadyTrans
<1>10. /\ Steady(c, Cleanup(e), J, J)
       /\ Told(Cleanup(e), i, FALSE) /\ Order(Cleanup(e), i)
  <2>1. Steady(c1, Cleanup(e), J, J)
    BY <1>9, SteadyWeaker
  <2>2. Told(Cleanup(e), i, FALSE) /\ Order(Cleanup(e), i)
    BY <1>1, <1>6, <1>9 DEF Steady
  <2>. HIDE DEF J
  <2>. QED  BY <1>2, <1>7, <2>1, <2>2, SteadyTrans
<1>11. ASSUME NEW error \in {"timedout", "invalid", "duplicate"}
       PROVE  /\ Steady(c, Refuse(c0, i, error), J, J)
              /\ Told(Refuse(c0, i, error), i, FALSE)
              /\ Order(Refuse(c0, i, error), i)
  <2>1. /\ Steady(c0, Refuse(c0, i, error), J, J)
        /\ Told(Refuse(c0, i, error), i, FALSE)
        /\ Order(Refuse(c0, i, error), i)
    BY <1>1, <1>2, RefuseSteady
  <2>. HIDE DEF J
  <2>. QED  BY <1>2, <2>1, SteadyTrans
<1>12. Lock(c, m) \in {Cleanup(e)} \cup
         {Refuse(c0, i, error) : error \in {"timedout", "invalid", "duplicate"}}
  BY DEF Lock, c0, new, c1, e
<1>. QED  BY <1>10, <1>11, <1>12

(* drop_ticket(): an UNLOCKED that the thread asked for.                   *)
LEMMA DropTicketSteady ==
  ASSUME NEW c \in ContextType, NEW i \in Requests, i \in c.tickets
  PROVE  Steady(c, DropTicket(c, i), Requests, Requests \ {i})
<1>. DEFINE ml == [cmd |-> "DROPTICKET", key |-> TicketKey(c, i)]
            d == SendToLeaders(c, ml)
            t == [d.obj[i] EXCEPT !.failed = TRUE]
            u == [d EXCEPT !.obj[i] = t]
            mc == [cmd |-> "UNLOCKED", error |-> ""]
            s == SendToClient(u, i, mc)
<1>1. mc \in ClientMessage /\ ~Answer(mc)
  BY DEF ClientMessage, Answer
<1>. HIDE DEF mc
<1>2. /\ d \in ContextType /\ Steady(c, d, Requests, Requests)
      /\ d.tickets = c.tickets
  <2>1. ml \in LeaderMessage
    BY TicketKeyType DEF LeaderMessage
  <2>2. d.tickets = c.tickets
    BY DEF SendToLeaders, SendSeqToLeaders, ContextType
  <2>. HIDE DEF ml
  <2>. QED  BY <2>1, <2>2, SendType, SendSteady DEF SendToLeaders
<1>. HIDE DEF d
<1>3. t \in Ticket /\ t.failed
  <2>1. d.obj[i] \in Ticket
    BY <1>2, ContextFields
  <2>. QED  BY <2>1 DEF Ticket
<1>. HIDE DEF t
<1>4. /\ s.tickets = d.tickets /\ s.entering = d.entering
      /\ s.obj[i] = t /\ s.toClient[i] = Append(d.toClient[i], mc)
      /\ \A j \in Requests \ {i} :
           s.obj[j] = d.obj[j] /\ s.toClient[j] = d.toClient[j]
  BY <1>2 DEF SendToClient, ContextType
<1>. HIDE DEF s
<1>5. \A j \in Requests \ {i} : Settled(d, j) => Settled(s, j)
  BY <1>4 DEF Settled
<1>6. Settled(s, i)
  BY <1>3, <1>4 DEF Settled
<1>7. ASSUME NEW j \in Requests, NEW read \in BOOLEAN, Told(d, j, read)
      PROVE  Told(s, j, read)
  <2>1. CASE j = i
    BY <1>1, <1>2, <1>4, <1>6, <1>7, <2>1, AppendTold
  <2>2. CASE j # i
    BY <1>4, <1>5, <1>7, <2>2, SameQueueTold
  <2>. QED  BY <2>1, <2>2
<1>8. \A j \in Requests \ {i} : Order(d, j) => Order(s, j)
  BY <1>4, SameQueueOrder
<1>9. Steady(d, s, Requests, Requests \ {i})
  BY <1>7, <1>8 DEF Steady
<1>10. Steady(c, d, Requests, Requests \ {i})
  BY <1>2, SteadyWeaker
<1>11. Steady(c, s, Requests, Requests \ {i})
  BY <1>9, <1>10, SteadyTrans
<1>12. DropTicket(c, i) \in {d, s}
  BY DEF DropTicket, s, u, t, d, ml, mc
<1>. QED  BY <1>10, <1>11, <1>12

(* msg_unlock() sends an UNLOCKED to a request of its thread at most.      *)
LEMMA UnlockSteady ==
  ASSUME OneLeader, NEW c \in ContextType, NEW k \in Clients
  PROVE  Steady(c, Unlock(c, k), Requests, {j \in Requests : EnteringKey(j) # k})
<1>. DEFINE K == {j \in Requests : EnteringKey(j) # k}
            mine == TicketsOf(c, k)
            i == FirstTicket(c, mine)
            d == DropTicket(c, i)
            T == d.tickets \ {i}
            e == [d EXCEPT !.tickets = T]
<1>0. K \in SUBSET Requests
  OBVIOUS
<1>1. CASE mine = {}
  <2>. HIDE DEF K
  <2>1. Steady(c, Cleanup(c), Requests, K)
    BY <1>0, CleanupSteady, SteadyWeaker
  <2>. QED  BY <1>1, <2>1 DEF Unlock, K
<1>2. CASE mine # {}
  <2>1. i \in Requests /\ i \in c.tickets /\ i \notin K
    <3>1. mine \in SUBSET Requests
      BY TicketsOfType
    <3>2. i \in mine
      <4>. HIDE DEF mine
      <4>. QED  BY <3>1, <1>2, FirstTicketType
    <3>. QED  BY <3>1, <3>2 DEF TicketsOf
  <2>. HIDE DEF i, K
  <2>2. d \in ContextType /\ Steady(c, d, Requests, K)
    <3>1. Steady(c, d, Requests, Requests \ {i})
      BY <2>1, DropTicketSteady
    <3>2. K \subseteq Requests \ {i}
      BY <1>0, <2>1
    <3>. QED  BY <2>1, <3>1, <3>2, DropTicketType DEF Steady
  <2>. HIDE DEF d
  <2>3. e \in ContextType /\ Steady(d, e, Requests, Requests)
    <3>1. e \in ContextType
      BY <2>2, ContextFields, WithTickets
    <3>2. T \in SUBSET d.tickets
      OBVIOUS
    <3>. HIDE DEF T
    <3>. QED  BY <2>2, <3>1, <3>2, FewerSteady
  <2>. HIDE DEF e
  <2>4. Steady(d, Cleanup(e), Requests, K)
    BY <1>0, <2>3, CleanupSteady, SteadyTrans, SteadyWeaker
  <2>5. Unlock(c, k) = Cleanup(e)
    BY <1>2 DEF Unlock, e, T, d, i
  <2>. QED  BY <2>2, <2>4, <2>5, SteadyTrans DEF K
<1>. QED  BY <1>1, <1>2

-----------------------------------------------------------------------------
(* The steps of the specification.                                         *)

(* A handler with the effect cx preserves the invariant.                   *)
LEMMA HandlerAnswers ==
  ASSUME OneLeader, IInv, AnswersInv, NEW l \in Leaders, NEW cx,
         NEW J, NEW K, Steady(Context(l), cx, J, K),
         Context(l)' = cx, client' = client,
         \A j \in Requests : j \in J \/ Told(cx, j, FALSE),
         \A c \in Clients : client[c].phase = "held" => Request(c) \in J,
         \A c \in Clients : client[c].phase = "waiting" =>
           Request(c) \in K \/ Order(cx, Request(c))
  PROVE  AnswersInv'
<1>. DEFINE cl == Context(l)
<1>0. /\ \A s \in Leaders : s = l
      /\ \A c \in Clients : Request(c)' = Request(c)
      /\ \A c \in Clients : client[c].phase # "idle" => Request(c) \in Requests
  BY CurrentRequest DEF OneLeader, Request
<1>1. /\ \A j \in Requests : Told(cl, j, FALSE)
      /\ \A c \in Clients :
           /\ client[c].phase = "held" => Told(cl, Request(c), TRUE)
           /\ client[c].phase = "waiting" => Order(cl, Request(c))
  BY DEF AnswersInv
<1>. HIDE DEF cl
<1>2. \A j \in Requests : Told(cx, j, FALSE)
  BY <1>1 DEF Steady, cl
<1>3. \A c \in Clients :
        /\ client[c].phase = "held" => Told(cx, Request(c), TRUE)
        /\ client[c].phase = "waiting" => Order(cx, Request(c))
  BY <1>0, <1>1 DEF Steady, cl
<1>. QED  BY <1>0, <1>2, <1>3 DEF AnswersInv

(* The timer of the leader.                                                *)
LEMMA TimeoutAnswers ==
  ASSUME OneLeader, IInv, AnswersInv, NEW l \in Leaders, process_timeout(l)
  PROVE  AnswersInv'
<1>. DEFINE cx == Cleanup(Context(l))
<1>1. /\ cx \in ContextType /\ Kept(Context(l), cx, {}, {})
      /\ Steady(Context(l), cx, Requests, Requests)
  BY ContextOfLeader, CleanupType, CleanupKept, CleanupSteady
<1>2. /\ Becomes(l, cx) /\ toLeader' = [toLeader EXCEPT ![l] = cx.toLeader]
      /\ client' = client /\ now' = now
  BY DEF process_timeout
<1>. HIDE DEF cx
<1>3. Context(l)' = cx
  <2>1. cx.now = now
    BY <1>1 DEF Kept, Frame, Context
  <2>. QED  BY <1>1, <1>2, <2>1, NextContext
<1>4. \A c \in Clients : client[c].phase # "idle" => Request(c) \in Requests
  BY CurrentRequest
<1>. QED  BY <1>1, <1>2, <1>3, <1>4, HandlerAnswers

(* msg_lock(): the request is that of no thread that has its answer.       *)
LEMMA LockStepAnswers ==
  ASSUME OneLeader, IInv, LockInv, NumbersLeft, AnswersInv,
         NEW c \in Clients, NEW l \in Leaders, msg_lock(c, l)
  PROVE  AnswersInv'
<1>. DEFINE q == fromClient[c][l]
            m == Head(q)
            cl == Context(l)
            cx == Lock(cl, m)
<1>1. /\ q # <<>> /\ q \in Seq(RequestMessage) /\ m \in RequestMessage
      /\ m.cmd = "LOCK" /\ TakesFromClient(c, l, cx)
  BY ClientHead DEF msg_lock, ClientSent, IInv, TypeOK
<1>2. 1 \in 1..Len(q) /\ m = q[1]
  BY <1>1
<1>3. m.req[1] = c /\ Clean(cl, m.req)
  <2>. HIDE DEF m
  <2>. QED  BY <1>1, <1>2 DEF LockInv, Unhandled
<1>4. cl \in ContextType
  BY ContextOfLeader
<1>5. Kept(cl, cx, {m.req}, {}) /\ cx \in ContextType
  <2>1. m.req \notin cl.tickets /\ Numbered(cl)
    BY <1>3 DEF Clean, LockInv, Tables
  <2>2. \A j \in cl.tickets : cl.obj[j].our_ticket < MaxTicket
    BY DEF NumbersLeft, Context
  <2>. HIDE DEF m, cl
  <2>. QED  BY <1>1, <1>4, <2>1, <2>2, LockKept, LockType DEF ArmedContext
<1>6. /\ Steady(cl, cx, Requests \ {m.req}, Requests \ {m.req})
      /\ Told(cx, m.req, FALSE) /\ Order(cx, m.req)
  <2>. HIDE DEF m, cl
  <2>. QED  BY <1>1, <1>3, <1>4, LockSteady
<1>. HIDE DEF cx, m
<1>7. Context(l)' = cx /\ client' = client
  BY <1>1, <1>5, TakesFromClientFacts
<1>8. \A d \in Clients : client[d].phase = "held" => Request(d) # m.req
  <2>. SUFFICES ASSUME NEW d \in Clients, client[d].phase = "held", Request(d) = m.req
                PROVE  FALSE
    OBVIOUS
  <2>1. d = c
    BY <1>3 DEF Request
  <2>. QED  BY <1>1, <2>1 DEF LockInv, LastSent
<1>9. \A d \in Clients : client[d].phase # "idle" => Request(d) \in Requests
  BY CurrentRequest
<1>10. \A j \in Requests : j \in Requests \ {m.req} \/ Told(cx, j, FALSE)
  BY <1>6
<1>11. /\ \A d \in Clients : client[d].phase = "held" =>
            Request(d) \in Requests \ {m.req}
       /\ \A d \in Clients : client[d].phase = "waiting" =>
            Request(d) \in Requests \ {m.req} \/ Order(cx, Request(d))
  BY <1>6, <1>8, <1>9
<1>. QED  BY <1>6, <1>7, <1>10, <1>11, HandlerAnswers

(* msg_unlock(): a thread that waits has sent a LOCK since, of which the   *)
(* leader knows nothing yet.                                               *)
LEMMA UnlockStepAnswers ==
  ASSUME OneLeader, IInv, LockInv, AnswersInv,
         NEW c \in Clients, NEW l \in Leaders, msg_unlock(c, l)
  PROVE  AnswersInv'
<1>. DEFINE q == fromClient[c][l]
            cl == Context(l)
            cx == Unlock(cl, c)
            X == {j \in Requests : EnteringKey(j) = c}
            K == {j \in Requests : EnteringKey(j) # c}
<1>1. q # <<>> /\ q \in Seq(RequestMessage) /\ TakesFromClient(c, l, cx)
  BY DEF msg_unlock, ClientSent, IInv, TypeOK
<1>2. cl \in ContextType
  BY ContextOfLeader
<1>3. /\ Kept(cl, cx, {}, X) /\ cx \in ContextType
      /\ Steady(cl, cx, Requests, K)
  <2>. HIDE DEF cl
  <2>. QED  BY <1>2, UnlockKept, UnlockType, UnlockSteady DEF ArmedContext
<1>. HIDE DEF cx
<1>4. Context(l)' = cx /\ client' = client
  <2>. HIDE DEF X
  <2>. QED  BY <1>1, <1>3, TakesFromClientFacts
<1>5. ASSUME NEW d \in Clients, client[d].phase = "waiting", Request(d) \notin K
      PROVE  Order(cx, Request(d))
  <2>0. Request(d) \in Requests
    BY <1>5, CurrentRequest
  <2>1. d = c
    BY <1>5, <2>0 DEF EnteringKey, Request
  <2>2. /\ Len(q) \in 1..Len(q)
        /\ q[Len(q)].cmd = "LOCK" /\ q[Len(q)].req = Request(c)
    BY <1>1, <1>5, <2>1 DEF LockInv, LastSent
  <2>3. Clean(cl, Request(c))
    BY <2>2 DEF LockInv, Unhandled
  <2>4. Clean(cx, Request(c))
    BY <1>3, <2>0, <2>1, <2>3, CleanKept DEF Kept
  <2>. QED  BY <2>1, <2>4, CleanTold
<1>6. \A d \in Clients : client[d].phase # "idle" => Request(d) \in Requests
  BY CurrentRequest
<1>. HIDE DEF X, K
<1>. QED  BY <1>3, <1>4, <1>5, <1>6, HandlerAnswers

(* A step of thread c that leaves the leader alone, after which c is idle  *)
(* or waits for the answer to a new request.                               *)
LEMMA ClientSideAnswers ==
  ASSUME IInv, LockInv, AnswersInv, NEW c \in Clients,
         UNCHANGED <<tables, toLeader, toClient, now>>,
         \A d \in Clients \ {c} : client'[d] = client[d],
         \/ client'[c].phase = "idle"
         \/ /\ client'[c].phase = "waiting"
            /\ client'[c].n = client[c].n + 1
            /\ client[c].n + 1 \in 1..MaxRequests
  PROVE  AnswersInv'
<1>0. client[c].n \in Nat
  BY BoundsAssumption DEF IInv, TypeOK, Client
<1>1. \A l \in Leaders : Context(l)' = Context(l)
  BY SameContext
<1>2. \A d \in Clients \ {c} : Request(d)' = Request(d)
  BY DEF Request
<1>3. ASSUME NEW l \in Leaders, client'[c].phase = "waiting"
      PROVE  Order(Context(l), Request(c)')
  <2>1. Request(c)' = <<c, client[c].n + 1>> /\ client[c].n + 1 \in 1..MaxRequests
    BY <1>3 DEF Request
  <2>2. Clean(Context(l), <<c, client[c].n + 1>>)
    BY <1>0, <2>1 DEF LockInv, Future
  <2>. QED  BY <2>1, <2>2, CleanTold
<1>4. client'[c].phase # "held"
  OBVIOUS
<1>5. ASSUME NEW l \in Leaders, NEW d \in Clients
      PROVE  /\ client'[d].phase = "held" => Told(Context(l), Request(d)', TRUE)
             /\ client'[d].phase = "waiting" => Order(Context(l), Request(d)')
  <2>1. CASE d = c
    BY <1>3, <1>4, <2>1
  <2>2. CASE d # c
    BY <1>2, <2>2 DEF AnswersInv
  <2>. QED  BY <2>1, <2>2
<1>. QED  BY <1>1, <1>5 DEF AnswersInv

(* The first message that a thread reads, and what is left.                *)
LEMMA TailTold ==
  ASSUME NEW c \in ContextType, NEW d, NEW j \in Requests, c.toClient[j] # <<>>,
         d.toClient[j] = Tail(c.toClient[j]),
         Settled(c, j) => Settled(d, j),
         NEW read \in BOOLEAN, Told(c, j, read)
  PROVE  /\ Told(d, j, read)
         /\ Answer(Head(c.toClient[j])) => ~read /\ Told(d, j, TRUE)
<1>. DEFINE q == c.toClient[j]
            w == d.toClient[j]
<1>1. q \in Seq(ClientMessage)
  BY ContextFields
<1>2. /\ \A p \in 1..Len(w) : p + 1 \in 1..Len(q) /\ w[p] = q[p + 1] /\ p + 1 # 1
      /\ 1 \in 1..Len(q) /\ Head(q) = q[1]
  BY <1>1, TailAt
<1>3. /\ \A p, r \in 1..Len(q) : Answer(q[p]) /\ Answer(q[r]) => p = r
      /\ \A p \in 1..Len(q) : Answer(q[p]) => ~read /\ Settled(c, j)
      /\ read => Settled(c, j)
  BY DEF Told
<1>. HIDE DEF q, w
<1>4. ASSUME NEW p \in 1..Len(w), NEW r \in 1..Len(w), Answer(w[p]), Answer(w[r])
      PROVE  p = r
  <2>1. p + 1 = r + 1
    BY <1>2, <1>3, <1>4
  <2>. QED  BY <2>1
<1>5. \A p \in 1..Len(w) : Answer(w[p]) => ~read /\ Settled(d, j)
  BY <1>2, <1>3
<1>6. Told(d, j, read)
  BY <1>3, <1>4, <1>5 DEF Told, w
<1>7. ASSUME Answer(q[1])
      PROVE  ~read /\ Told(d, j, TRUE)
  <2>1. ~read /\ Settled(d, j)
    BY <1>2, <1>3, <1>7
  <2>2. \A p \in 1..Len(w) : ~Answer(w[p])
    BY <1>2, <1>3, <1>7
  <2>. QED  BY <2>1, <2>2 DEF Told, w
<1>. QED  BY <1>2, <1>6, <1>7 DEF q

(***************************************************************************)
(* What a thread reads: while it waits an answer, and once it has the lock *)
(* no answer any more.                                                     *)
(***************************************************************************)
LEMMA Reads ==
  ASSUME OneLeader, IInv, AnswersInv, NEW c \in Clients, NEW l \in Leaders,
         client[c].phase # "idle", ClientReads(c, l)
  PROVE  /\ Head(toClient[l][Request(c)]) \in ClientMessage
         /\ client[c].phase = "waiting" => Answer(Head(toClient[l][Request(c)]))
         /\ client[c].phase = "held" => ~Answer(Head(toClient[l][Request(c)]))
<1>. DEFINE i == Request(c)
            q == toClient[l][i]
<1>1. i \in Requests /\ Context(l) \in ContextType /\ Context(l).toClient[i] = q
  BY CurrentRequest, ContextOfLeader DEF Context
<1>2. q # <<>> /\ q \in Seq(ClientMessage)
  BY <1>1 DEF ClientReads, IInv, TypeOK
<1>3. Head(q) \in ClientMessage /\ 1 \in 1..Len(q) /\ Head(q) = q[1]
  BY <1>2
<1>4. client[c].phase = "waiting" => q[1].cmd # "UNLOCKED"
  <2>. SUFFICES ASSUME client[c].phase = "waiting", q[1].cmd = "UNLOCKED"
                PROVE  FALSE
    OBVIOUS
  <2>1. Order(Context(l), i)
    BY DEF AnswersInv
  <2>2. \E r \in 1..Len(q) : r < 1
    BY <1>1, <1>3, <2>1 DEF Order
  <2>. QED  BY <2>2
<1>5. client[c].phase = "held" => ~Answer(q[1])
  <2>. SUFFICES ASSUME client[c].phase = "held", Answer(q[1])
                PROVE  FALSE
    OBVIOUS
  <2>1. Told(Context(l), i, TRUE)
    BY DEF AnswersInv
  <2>. QED  BY <1>1, <1>3, <2>1 DEF Told
<1>6. q[1].cmd # "UNLOCKED" => Answer(q[1])
  BY <1>3 DEF ClientMessage, Answer
<1>. QED  BY <1>3, <1>4, <1>5, <1>6

(* A thread that waits gets the lock or is done, one that has it is told   *)
(* that it is over; neither throws.                                        *)
LEMMA ReadResult ==
  ASSUME OneLeader, IInv, AnswersInv, NEW c \in Clients, NEW l \in Leaders,
         ClientRun(c, l) \/ ClientPeek(c, l)
  PROVE  /\ \A d \in Clients \ {c} : client'[d] = client[d]
         /\ client'[c].n = client[c].n
         /\ client'[c].threw = client[c].threw
         /\ client[c].phase = "waiting" => client'[c].phase \in {"held", "idle"}
         /\ client[c].phase = "held" => /\ client'[c].phase = "held"
                                        /\ client'[c].date = 0
                                        /\ client[c].date <= now
<1>. DEFINE m == Head(toClient[l][Request(c)])
<1>1. /\ ClientReads(c, l) /\ client[c].phase \in {"waiting", "held"}
      /\ client[c].phase = "held" => client[c].date # 0 /\ client[c].date <= now
  BY DEF ClientRun, ClientPeek
<1>2. /\ m \in ClientMessage
      /\ client[c].phase = "waiting" => Answer(m)
      /\ client[c].phase = "held" => ~Answer(m)
  BY <1>1, Reads
<1>3. client' = [client EXCEPT ![c] = Received(client[c], m)]
  BY <1>1 DEF ClientReads
<1>. HIDE DEF m
<1>4. /\ client[c] \in Client /\ client'[c] = Received(client[c], m)
      /\ \A d \in Clients \ {c} : client'[d] = client[d]
  BY <1>3 DEF IInv, TypeOK
<1>5. CASE m.cmd = "LOCKED"
  BY <1>1, <1>2, <1>4, <1>5 DEF Received, Client, Answer
<1>6. CASE m.cmd = "LOCKFAILED"
  BY <1>1, <1>2, <1>4, <1>6 DEF Received, Client, Answer
<1>7. CASE m.cmd = "UNLOCKED"
  BY <1>1, <1>2, <1>4, <1>7 DEF Received, Client, Answer
<1>. QED  BY <1>2, <1>5, <1>6, <1>7 DEF ClientMessage

(* A message that a thread reads.                                          *)
LEMMA ReadsAnswers ==
  ASSUME OneLeader, IInv, AnswersInv, NEW c \in Clients, NEW l \in Leaders,
         ClientRun(c, l) \/ ClientPeek(c, l)
  PROVE  AnswersInv'
<1>. DEFINE i == Request(c)
            q == toClient[l][i]
            cl == Context(l)
            cx == Context(l)'
<1>1. /\ ClientReads(c, l) /\ client[c].phase \in {"waiting", "held"}
  BY DEF ClientRun, ClientPeek
<1>2. /\ i \in Requests /\ cl \in ContextType
      /\ \A s \in Leaders : s = l
      /\ \A d \in Clients : client[d].phase # "idle" => Request(d) \in Requests
  BY <1>1, CurrentRequest, ContextOfLeader DEF OneLeader
<1>3. /\ q # <<>> /\ UNCHANGED tables
      /\ toClient' = [toClient EXCEPT ![l][i] = Tail(q)]
  BY <1>1 DEF ClientReads
<1>4. /\ cx.tickets = cl.tickets /\ cx.entering = cl.entering /\ cx.obj = cl.obj
      /\ cl.toClient[i] = q /\ cx.toClient[i] = Tail(q)
      /\ \A j \in Requests \ {i} : cx.toClient[j] = cl.toClient[j]
  BY <1>2, <1>3 DEF Context, tables, IInv, TypeOK
<1>5. /\ \A d \in Clients \ {c} : client'[d] = client[d] /\ Request(d)' = Request(d)
      /\ Request(c)' = i
      /\ client'[c].phase # "waiting"
      /\ client[c].phase = "waiting" => Answer(Head(q))
  <2>1. client[c].phase = "waiting" => Answer(Head(q))
    BY <1>1, Reads
  <2>2. /\ \A d \in Clients \ {c} : client'[d] = client[d]
        /\ client'[c].n = client[c].n
        /\ client'[c].phase # "waiting"
    BY <1>1, ReadResult
  <2>. QED  BY <2>1, <2>2 DEF Request
<1>6. /\ \A j \in Requests : Told(cl, j, FALSE)
      /\ \A d \in Clients :
           /\ client[d].phase = "held" => Told(cl, Request(d), TRUE)
           /\ client[d].phase = "waiting" => Order(cl, Request(d))
  BY DEF AnswersInv
<1>7. \A d \in Clients \ {c} : Request(d) # i
  BY DEF Request
<1>. HIDE DEF i, q, cl, cx
<1>8. /\ \A j \in Requests : Settled(cl, j) => Settled(cx, j)
      /\ cl.toClient[i] # <<>> /\ cx.toClient[i] = Tail(cl.toClient[i])
  BY <1>3, <1>4 DEF Settled
<1>9. /\ \A j \in Requests \ {i} : \A read \in BOOLEAN :
           Told(cl, j, read) => Told(cx, j, read)
      /\ \A j \in Requests \ {i} : Order(cl, j) => Order(cx, j)
  <2>1. \A j \in Requests \ {i} : \A read \in BOOLEAN :
          Told(cl, j, read) => Told(cx, j, read)
    BY <1>4, <1>8, SameQueueTold
  <2>2. \A j \in Requests \ {i} : Order(cl, j) => Order(cx, j)
    BY <1>4, SameQueueOrder
  <2>. QED  BY <2>1, <2>2
<1>10. \A j \in Requests : Told(cx, j, FALSE)
  <2>1. Told(cx, i, FALSE)
    BY <1>2, <1>6, <1>8, TailTold
  <2>. QED  BY <1>6, <1>9, <2>1
<1>11. Told(cx, i, TRUE)
  <2>1. CASE client[c].phase = "waiting"
    <3>1. Answer(Head(cl.toClient[i])) /\ Told(cl, i, FALSE)
      BY <1>2, <1>4, <1>5, <1>6, <2>1
    <3>. QED  BY <1>2, <1>8, <3>1, TailTold
  <2>2. CASE client[c].phase = "held"
    <3>1. Told(cl, i, TRUE)
      BY <1>6, <2>2 DEF i
    <3>. QED  BY <1>2, <1>8, <3>1, TailTold
  <2>. QED  BY <1>1, <2>1, <2>2
<1>12. ASSUME NEW d \in Clients
       PROVE  /\ client'[d].phase = "held" => Told(cx, Request(d)', TRUE)
              /\ client'[d].phase = "waiting" => Order(cx, Request(d)')
  <2>1. CASE d = c
    BY <1>5, <1>11, <2>1
  <2>2. CASE d # c
    <3>1. client'[d] = client[d] /\ Request(d)' = Request(d) /\ Request(d) # i
      BY <1>5, <1>7, <2>2
    <3>2. client[d].phase # "idle" => Request(d) \in Requests \ {i}
      BY <1>2, <3>1
    <3>. QED  BY <1>6, <1>9, <3>1, <3>2
  <2>. QED  BY <2>1, <2>2
<1>. QED  BY <1>2, <1>10, <1>12 DEF AnswersInv, cx

(* The invariant holds initially.                                          *)
LEMMA InitAnswers ==
  ASSUME Init
  PROVE  AnswersInv /\ NeverThrows
<1>1. \A l \in Leaders, j \in Requests : Clean(Context(l), j)
  BY DEF Init, Context, Clean
<1>2. \A c \in Clients : client[c].phase = "idle" /\ ~client[c].threw
  BY DEF Init
<1>. QED  BY <1>1, <1>2, CleanTold DEF AnswersInv, NeverThrows

(* The invariant is inductive.                                             *)
LEMMA NextAnswers ==
  ASSUME OneLeader, IInv, LockInv, NumbersLeft, AnswersInv, [Next]_vars
  PROVE  AnswersInv'
<1>1. ASSUME NEW c \in Clients, ClientStep(c) PROVE AnswersInv'
  <2>0. \A d \in Clients : client[d] \in Client
    BY DEF IInv, TypeOK
  <2>1. CASE ClientLock(c)
    <3>1. /\ UNCHANGED <<tables, toLeader, toClient, now>>
          /\ client'[c].phase = "waiting" /\ client'[c].n = client[c].n + 1
          /\ client[c].n + 1 \in 1..MaxRequests
          /\ \A d \in Clients \ {c} : client'[d] = client[d]
      BY <2>0, <2>1, BoundsAssumption DEF ClientLock, IInv, TypeOK, Client
    <3>. QED  BY <3>1, ClientSideAnswers
  <2>2. CASE ClientUnlock(c)
    <3>1. /\ UNCHANGED <<tables, toLeader, toClient, now>>
          /\ client'[c].phase = "idle"
          /\ \A d \in Clients \ {c} : client'[d] = client[d]
      BY <2>0, <2>2 DEF ClientUnlock, IInv, TypeOK, Client
    <3>. QED  BY <3>1, ClientSideAnswers
  <2>3. CASE ClientTimeout(c)
    <3>1. /\ UNCHANGED <<tables, toLeader, toClient, now>>
          /\ client'[c].phase = "idle"
          /\ \A d \in Clients \ {c} : client'[d] = client[d]
      BY <2>0, <2>3 DEF ClientTimeout, IInv, TypeOK, Client
    <3>. QED  BY <3>1, ClientSideAnswers
  <2>4. ASSUME NEW s \in Leaders, ClientRun(c, s) \/ ClientPeek(c, s)
        PROVE  AnswersInv'
    BY <2>4, ReadsAnswers
  <2>. QED  BY <1>1, <2>1, <2>2, <2>3, <2>4 DEF ClientStep
<1>2. ASSUME NEW c \in Clients, NEW s \in Leaders, HandleClient(c, s)
      PROVE  AnswersInv'
  BY <1>2, LockStepAnswers, UnlockStepAnswers DEF HandleClient
<1>3. ASSUME NEW s \in Leaders, NEW d \in Leaders, HandleLeader(s, d) PROVE FALSE
  <2>1. s # d
    BY <1>3 DEF HandleLeader, LeaderSent, msg_lock_entering, msg_lock_entered,
          msg_lock_exiting, msg_get_max_ticket, msg_max_ticket, msg_add_ticket,
          msg_ticket_added, msg_ticket_ready, msg_activate_lock, msg_lock_activated,
          msg_drop_ticket, msg_lock_failed
  <2>. QED  BY <2>1 DEF OneLeader
<1>4. ASSUME NEW s \in Leaders, process_timeout(s) PROVE AnswersInv'
  BY <1>4, TimeoutAnswers
<1>5. CASE Tick \/ UNCHANGED vars
  <2>1. /\ client' = client
        /\ \A l \in Leaders :
             /\ Context(l)'.tickets = Context(l).tickets
             /\ Context(l)'.entering = Context(l).entering
             /\ Context(l)'.obj = Context(l).obj
             /\ Context(l)'.toClient = Context(l).toClient
    BY <1>5 DEF Tick, vars, tables, Context
  <2>2. ASSUME NEW l \in Leaders
        PROVE  Steady(Context(l), Context(l)', Requests, Requests)
    BY <2>1, SameAnswersSteady DEF SameAnswers
  <2>3. PICK l \in Leaders : TRUE
    BY LeadersAssumption, FS_EmptySet
  <2>4. \A c \in Clients : client[c].phase # "idle" => Request(c) \in Requests
    BY CurrentRequest
  <2>. QED  BY <2>1, <2>2, <2>3, <2>4, HandlerAnswers
<1>. QED  BY <1>1, <1>2, <1>3, <1>4, <1>5 DEF Next

(* No step makes a connection throw.                                       *)
LEMMA NextNeverThrows ==
  ASSUME OneLeader, IInv, AnswersInv, NeverThrows, [Next]_vars
  PROVE  NeverThrows'
<1>1. ASSUME NEW c \in Clients, ClientStep(c) PROVE NeverThrows'
  <2>1. CASE ClientLock(c) \/ ClientUnlock(c) \/ ClientTimeout(c)
    <3>0. client \in [Clients -> Client]
      BY DEF IInv, TypeOK
    <3>1. ClientLock(c) => \A d \in Clients : client'[d].threw = client[d].threw
      BY <3>0 DEF ClientLock, Client
    <3>2. ClientUnlock(c) => \A d \in Clients : client'[d].threw = client[d].threw
      BY <3>0 DEF ClientUnlock, Client
    <3>3. ClientTimeout(c) => \A d \in Clients : client'[d].threw = client[d].threw
      BY <3>0 DEF ClientTimeout, Client
    <3>. QED  BY <2>1, <3>1, <3>2, <3>3 DEF NeverThrows
  <2>2. ASSUME NEW l \in Leaders, ClientRun(c, l) \/ ClientPeek(c, l)
        PROVE  NeverThrows'
    BY <2>2, ReadResult DEF NeverThrows
  <2>. QED  BY <1>1, <2>1, <2>2 DEF ClientStep
<1>2. ASSUME client' = client PROVE NeverThrows'
  BY <1>2 DEF NeverThrows
<1>3. ASSUME NEW c \in Clients, NEW s \in Leaders, HandleClient(c, s)
      PROVE  client' = client
  BY <1>3 DEF HandleClient, msg_lock, msg_unlock, TakesFromClient
<1>4. ASSUME NEW s \in Leaders, NEW d \in Leaders, HandleLeader(s, d)
      PROVE  client' = client
  BY <1>4 DEF HandleLeader, TakesFromLeader, msg_lock_entering, msg_lock_entered,
        msg_lock_exiting, msg_get_max_ticket, msg_max_ticket, msg_add_ticket,
        msg_ticket_added, msg_ticket_ready, msg_activate_lock, msg_lock_activated,
        msg_drop_ticket, msg_lock_failed
<1>5. CASE Tick \/ UNCHANGED vars \/ \E l \in Leaders : process_timeout(l)
  BY <1>2, <1>5 DEF Tick, vars, process_timeout
<1>. QED  BY <1>1, <1>2, <1>3, <1>4, <1>5 DEF Next

(* The invariant, in every state reached before a number wraps.            *)
THEOREM AnswersInvHolds ==
  ASSUME OneLeader
  PROVE  Spec /\ []NumbersLeft => []AnswersInv
<1>1. Init => AnswersInv
  BY InitAnswers
<1>2. IInv /\ LockInv /\ NumbersLeft /\ AnswersInv /\ [Next]_vars => AnswersInv'
  BY NextAnswers
<1>. QED  BY <1>1, <1>2, IInvHolds, LockInvHolds, PTL DEF Spec

(***************************************************************************)
(* On a cluster with one leader a request is answered once: when its       *)
(* LOCKED was sent neither another one nor a LOCKFAILED follows, whatever  *)
(* timeouts, retries and late UNLOCKs the leader handles meanwhile.        *)
(***************************************************************************)
THEOREM OneLeaderGrantStands ==
  ASSUME OneLeader
  PROVE  Spec /\ []NumbersLeft => []GrantStands
<1>1. ASSUME IInv, AnswersInv PROVE GrantStands
  <2>0. \A l \in Leaders, i \in Requests : Context(l).toClient[i] = toClient[l][i]
    BY DEF Context
  <2>1. ASSUME NEW i \in Requests, NEW l \in Leaders, NEW d \in Leaders,
               NEW j \in Answers(l, i, {"LOCKED"}),
               NEW k \in Answers(d, i, {"LOCKED", "LOCKFAILED"})
        PROVE  l = d /\ j = k
    <3>1. l = d /\ toClient[l][i] \in Seq(ClientMessage)
      BY <1>1 DEF OneLeader, IInv, TypeOK
    <3>2. /\ j \in 1..Len(toClient[l][i]) /\ Answer(toClient[l][i][j])
          /\ k \in 1..Len(toClient[l][i]) /\ Answer(toClient[l][i][k])
      BY <3>1 DEF Answers, Answer
    <3>3. Told(Context(l), i, FALSE)
      BY <1>1 DEF AnswersInv
    <3>. QED  BY <2>0, <3>1, <3>2, <3>3 DEF Told
  <2>2. ASSUME NEW c \in Clients, client[c].phase = "held", NEW l \in Leaders
        PROVE  Answers(l, Request(c), {"LOCKED", "LOCKFAILED"}) = {}
    <3>1. Request(c) \in Requests
      BY <1>1, <2>2, CurrentRequest
    <3>2. toClient[l][Request(c)] \in Seq(ClientMessage)
      BY <1>1, <3>1 DEF IInv, TypeOK
    <3>3. Told(Context(l), Request(c), TRUE)
      BY <1>1, <2>2 DEF AnswersInv
    <3>4. \A p \in 1..Len(toClient[l][Request(c)]) :
            ~Answer(toClient[l][Request(c)][p])
      BY <2>0, <3>1, <3>3 DEF Told
    <3>. QED  BY <3>2, <3>4 DEF Answers, Answer
  <2>. QED  BY <2>1, <2>2 DEF GrantStands
<1>. QED  BY <1>1, IInvHolds, AnswersInvHolds, PTL

(***************************************************************************)
(* On a cluster with one leader no connection throws: UNLOCKED is only     *)
(* received by a connection that has the lock.                             *)
(***************************************************************************)
THEOREM OneLeaderNeverThrows ==
  ASSUME OneLeader
  PROVE  Spec /\ []NumbersLeft => []NeverThrows
<1>1. Init => NeverThrows
  BY InitAnswers
<1>2. IInv /\ AnswersInv /\ NeverThrows /\ [Next]_vars => NeverThrows'
  BY NextNeverThrows
<1>. QED  BY <1>1, <1>2, IInvHolds, AnswersInvHolds, PTL DEF Spec

-----------------------------------------------------------------------------
(* The refinement.                                                         *)

Shown == [c \in Clients |-> Seen(c)]

(* A step that concerns thread c changes what c sees and nothing else.     *)
LEMMA ShownMoves ==
  ASSUME NEW c \in Clients, now' = now,
         \A d \in Clients \ {c} : client'[d] = client[d]
  PROVE  Shown' = [Shown EXCEPT ![c] = Seen(c)']
  BY DEF Shown, Seen

(* A step of the leader shows nothing.                                     *)
LEMMA ShownStays ==
  ASSUME client' = client, now' = now
  PROVE  Shown' = Shown
  BY DEF Shown, Seen

(* What c sees while it has no lock.                                       *)
LEMMA SeenPhases ==
  ASSUME IInv, NEW c \in Clients
  PROVE  /\ client[c].phase \in {"idle", "waiting", "held"}
         /\ client[c].phase # "held" => Seen(c) = client[c].phase
         /\ client[c].phase = "held" => Seen(c) \in {"held", "over"}
         /\ Seen(c) = "held" <=> Holds(c)
  BY DEF IInv, TypeOK, Client, Seen, Holds

(* The steps of a thread.                                                  *)
LEMMA ClientRefines ==
  ASSUME OneLeader, IInv, IInv', AnswersInv, MutualExclusion',
         NEW c \in Clients, ClientStep(c)
  PROVE  Abstract!Next \/ Shown' = Shown
<1>0. /\ client \in [Clients -> Client] /\ now \in Nat
      /\ Shown[c] = Seen(c)
      /\ \A d \in Clients : Shown[d] = Seen(d)
  BY DEF IInv, TypeOK, Shown
<1>1. CASE ClientLock(c)
  <2>1. /\ client[c].phase = "idle" /\ client'[c].phase = "waiting" /\ now' = now
        /\ \A d \in Clients \ {c} : client'[d] = client[d]
    BY <1>0, <1>1 DEF ClientLock
  <2>2. Seen(c) = "idle" /\ Seen(c)' = "waiting"
    BY <2>1 DEF Seen
  <2>3. Shown' = [Shown EXCEPT ![c] = "waiting"]
    BY <2>1, <2>2, ShownMoves
  <2>4. Abstract!Ask(c)
    BY <1>0, <2>2, <2>3 DEF Abstract!Ask, Shown
  <2>. QED  BY <2>4 DEF Abstract!Next
<1>2. CASE ClientUnlock(c)
  <2>1. /\ client[c].phase = "held" /\ client'[c].phase = "idle" /\ now' = now
        /\ \A d \in Clients \ {c} : client'[d] = client[d]
    BY <1>0, <1>2 DEF ClientUnlock, Client
  <2>2. Seen(c) \in {"held", "over"} /\ Seen(c)' = "idle"
    BY <2>1 DEF Seen
  <2>3. Shown' = [Shown EXCEPT ![c] = "idle"]
    BY <2>1, <2>2, ShownMoves
  <2>4. Abstract!Release(c)
    BY <1>0, <2>2, <2>3 DEF Abstract!Release, Shown
  <2>. QED  BY <2>4 DEF Abstract!Next
<1>3. CASE ClientTimeout(c)
  <2>1. /\ client[c].phase = "waiting" /\ client'[c].phase = "idle" /\ now' = now
        /\ \A d \in Clients \ {c} : client'[d] = client[d]
    BY <1>0, <1>3 DEF ClientTimeout, Client
  <2>2. Seen(c) = "waiting" /\ Seen(c)' = "idle"
    BY <2>1 DEF Seen
  <2>3. Shown' = [Shown EXCEPT ![c] = "idle"]
    BY <2>1, <2>2, ShownMoves
  <2>4. Abstract!Refuse(c)
    BY <1>0, <2>2, <2>3 DEF Abstract!Refuse, Shown
  <2>. QED  BY <2>4 DEF Abstract!Next
<1>4. ASSUME NEW l \in Leaders, ClientRun(c, l) \/ ClientPeek(c, l)
      PROVE  Abstract!Next \/ Shown' = Shown
  <2>1. /\ \A d \in Clients \ {c} : client'[d] = client[d]
        /\ client[c].phase = "waiting" => client'[c].phase \in {"held", "idle"}
        /\ client[c].phase = "held" => /\ client'[c].phase = "held"
                                       /\ client'[c].date = 0
                                       /\ client[c].date <= now
        /\ client[c].phase \in {"waiting", "held"} /\ now' = now
    <3>1. client[c].phase \in {"waiting", "held"} /\ now' = now
      BY <1>4 DEF ClientRun, ClientPeek, ClientReads
    <3>. QED  BY <1>4, <3>1, ReadResult
  <2>2. Shown' = [Shown EXCEPT ![c] = Seen(c)']
    BY <2>1, ShownMoves
  <2>3. CASE client[c].phase = "held"
    <3>1. Seen(c) = "over" /\ Seen(c)' = "over"
      BY <1>0, <2>1, <2>3 DEF Seen, Client
    <3>. QED  BY <1>0, <2>2, <3>1 DEF Shown
  <2>4. CASE client[c].phase = "waiting"
    <3>1. Seen(c) = "waiting"
      BY <2>4 DEF Seen
    <3>2. CASE Seen(c)' = "held"
      <4>1. Holds(c)'
        BY <3>2, SeenPhases DEF Holds, Seen
      <4>2. ASSUME NEW d \in Clients, Shown[d] = "held" PROVE FALSE
        <5>1. d # c
          BY <1>0, <3>1, <4>2
        <5>2. Holds(d)
          BY <1>0, <4>2, SeenPhases
        <5>3. Holds(d)'
          BY <2>1, <5>1, <5>2 DEF Holds
        <5>. QED  BY <4>1, <5>1, <5>3 DEF MutualExclusion
      <4>3. Abstract!Grant(c)
        BY <1>0, <2>2, <3>1, <3>2, <4>2 DEF Abstract!Grant, Abstract!Free, Shown
      <4>. QED  BY <4>3 DEF Abstract!Next
    <3>3. CASE Seen(c)' \in {"idle", "over"}
      <4>1. Abstract!Refuse(c)
        BY <1>0, <2>2, <3>1, <3>3 DEF Abstract!Refuse, Shown
      <4>. QED  BY <4>1 DEF Abstract!Next
    <3>4. Seen(c)' \in {"held", "idle", "over"}
      BY <2>1, <2>4 DEF Seen
    <3>. QED  BY <3>2, <3>3, <3>4
  <2>. QED  BY <2>1, <2>3, <2>4
<1>. QED  BY <1>1, <1>2, <1>3, <1>4 DEF ClientStep

(* The clock: at most one thread has a lock that can end.                  *)
LEMMA TickRefines ==
  ASSUME IInv, MutualExclusion, Tick
  PROVE  Abstract!Next \/ Shown' = Shown
<1>0. /\ client \in [Clients -> Client] /\ now \in Nat /\ now' = now + 1
      /\ client' = client
      /\ \A d \in Clients : Shown[d] = Seen(d)
  BY DEF IInv, TypeOK, Tick, Shown
<1>1. \A d \in Clients : Seen(d) # "held" => Seen(d)' = Seen(d)
  BY <1>0 DEF Seen, Client
<1>2. \A d \in Clients : Seen(d) = "held" => Seen(d)' \in {"held", "over"}
  BY <1>0 DEF Seen, Client
<1>3. CASE \E c \in Clients : Seen(c) = "held" /\ Seen(c)' = "over"
  <2>1. PICK c \in Clients : Seen(c) = "held" /\ Seen(c)' = "over"
    BY <1>3
  <2>2. \A d \in Clients : Seen(d) = "held" => d = c
    BY <2>1, SeenPhases DEF MutualExclusion
  <2>3. \A d \in Clients : Seen(d)' = IF Shown[d] = "held" THEN "over" ELSE Shown[d]
    BY <1>0, <1>1, <2>1, <2>2
  <2>4. Shown' = [d \in Clients |-> IF Shown[d] = "held" THEN "over" ELSE Shown[d]]
    BY <2>3 DEF Shown
  <2>5. Abstract!Expire
    BY <2>4 DEF Abstract!Expire, Shown
  <2>. QED  BY <2>5 DEF Abstract!Next
<1>4. CASE ~ \E c \in Clients : Seen(c) = "held" /\ Seen(c)' = "over"
  <2>1. \A d \in Clients : Seen(d)' = Seen(d)
    BY <1>1, <1>2, <1>4
  <2>. QED  BY <2>1 DEF Shown
<1>. QED  BY <1>3, <1>4

(* Every step is a step of ExclusiveLock or shows nothing.                 *)
LEMMA NextRefines ==
  ASSUME OneLeader, IInv, IInv', AnswersInv, MutualExclusion, MutualExclusion',
         [Next]_vars
  PROVE  Abstract!Next \/ Shown' = Shown
<1>1. ASSUME NEW c \in Clients, NEW s \in Leaders, HandleClient(c, s)
      PROVE  Shown' = Shown
  BY <1>1, ShownStays DEF HandleClient, msg_lock, msg_unlock, TakesFromClient
<1>2. ASSUME NEW s \in Leaders, NEW d \in Leaders, HandleLeader(s, d) PROVE FALSE
  <2>1. s # d
    BY <1>2 DEF HandleLeader, LeaderSent, msg_lock_entering, msg_lock_entered,
          msg_lock_exiting, msg_get_max_ticket, msg_max_ticket, msg_add_ticket,
          msg_ticket_added, msg_ticket_ready, msg_activate_lock, msg_lock_activated,
          msg_drop_ticket, msg_lock_failed
  <2>. QED  BY <2>1 DEF OneLeader
<1>3. CASE UNCHANGED vars \/ \E l \in Leaders : process_timeout(l)
  BY <1>3, ShownStays DEF vars, process_timeout
<1>. QED  BY <1>1, <1>2, <1>3, ClientRefines, TickRefines DEF Next

(***************************************************************************)
(* On a cluster with one leader the threads see one exclusive lock, for    *)
(* any number of threads, requests and timeouts: every step of the leader  *)
(* and of the connections is a step of ExclusiveLock or shows nothing.     *)
(***************************************************************************)
THEOREM OneLeaderRefinement ==
  ASSUME OneLeader
  PROVE  Spec /\ []NumbersLeft => ImplementsExclusiveLock
<1>1. Init => Abstract!Init
  BY DEF Init, Abstract!Init, Seen
<1>2. /\ IInv /\ IInv' /\ AnswersInv /\ MutualExclusion /\ MutualExclusion'
      /\ [Next]_vars
      => [Abstract!Next]_([c \in Clients |-> Seen(c)])
  BY NextRefines DEF Shown
<1>. QED  BY <1>1, <1>2, IInvHolds, AnswersInvHolds, OneLeaderExclusion, PTL
          DEF Spec, ImplementsExclusiveLock, Abstract!Spec
=============================================================================
