------------------------- MODULE SnapClusterTries --------------------------
(***************************************************************************)
(* Two daemons that run, one of which has heard of the other, are          *)
(* connected or about to try, and their services know it; for any          *)
(* computers, neighbours and bounds, as long as no connection breaks       *)
(* silently and no computer has more connections than it accepts.          *)
(*                                                                         *)
(* The invariant is about each pair c < d.  d is the one that connects; it *)
(* stops to try when c tells it that it stops (DISCONNECT).  It is then up *)
(* to c to send GOSSIP once it is back, which d must not read before that  *)
(* DISCONNECT (Asks).  d is refused by c only under a name that is in use; *)
(* what rules that out is the order of the events in the queue (Alone).    *)
(***************************************************************************)
EXTENDS SnapClusterProofs, FiniteSetTheorems

\* a permanent connection whose timer will connect, or that waits for nothing
Trying(p) == p.enabled /\ p.sock = None

Idle(p) == p.known /\ p.sock = None /\ ~p.enabled

\* d is told that c stops
Dropped(q) == \E n \in Sockets : Has(q, n, "DISCONNECT")

\* d reads GOSSIP after it knows that c had stopped
Gossip(p, q) ==
  /\ p.sock # None
  /\ Has(q, p.sock, "GOSSIP")
  /\ \A n \in Sockets : ~Before(q, p.sock, "GOSSIP", n, "DISCONNECT")

Asks(p, q) == Trying(p) \/ Gossip(p, q)

\* c still has to tell d that it exists
Tells(p, to, back) ==
  \/ Trying(p)
  \/ p.sock # None /\ (Has(to, p.sock, "GOSSIP") \/ Has(back, p.sock, "FIN"))

(***************************************************************************)
(* The queues between c and d: nothing is sent twice or refused, and a     *)
(* CONNECT comes after the end of the connections that are open before it. *)
(***************************************************************************)
Once(q) ==
  \A n \in Sockets : /\ ~Before(q, n, "CONNECT", n, "CONNECT")
                     /\ ~Before(q, n, "GOSSIP", n, "GOSSIP")
                     /\ ~Has(q, n, "REFUSE")

Open(s, c, d) == s.from = d /\ s.to = c /\ s.server # "closed"

Alone(q, m, n) ==
  Has(q, n, "CONNECT") => \/ Before(q, m, "FIN", n, "CONNECT")
                          \/ Before(q, n, "CONNECT", m, "SYN")

QueuesOK(c, d, to, back, sk) ==
  /\ Once(to)
  /\ Once(back)
  /\ \A m, n \in Sockets : m # n /\ Open(sk[m], c, d) => Alone(back, m, n)

\* what c and d know of each other, and told their services
KnowsOK(c, d, dc, dd, sk) ==
  /\ d \in dc.services_know => \E n \in Sockets : Member(sk[n], c, d)
  /\ \A n \in Sockets : Member(sk[n], c, d) =>
       (OwnNames => d \in dc.services_know) /\ d \in dc.f_all_neighbors
  /\ c \in dd.services_know =>
       dd.f_smaller_ips[c].sock # None \/ dd.f_smaller_ips[c].enabled

\* who has to try
TriesOK(c, d, dc, dd, to, back) ==
  /\ Dropped(to) \/ Idle(dd.f_smaller_ips[c]) =>
       /\ d \in dc.f_all_neighbors
       /\ dc.up => Asks(dc.f_gossip_ips[d], to)
  /\ dc.up /\ d \in dc.f_all_neighbors /\ c \notin dd.f_all_neighbors =>
       Tells(dc.f_gossip_ips[d], to, back)
  /\ \A n \in Sockets : Has(back, n, "RECEIVED") =>
       c \in dd.f_all_neighbors /\ ~Has(to, n, "GOSSIP")

PairOK(c, d) ==
  /\ QueuesOK(c, d, queue[c][d], queue[d][c], socket)
  /\ KnowsOK(c, d, daemon[c], daemon[d], socket)
  /\ TriesOK(c, d, daemon[c], daemon[d], queue[c][d], queue[d][c])

PairInv == \A c, d \in Computers : c < d => PairOK(c, d)

\* a daemon that runs connects to every smaller address it has heard of
ListOK(c, dm) ==
  /\ dm.up =>
       /\ dm.f_all_ips = dm.f_all_neighbors \ {c}
       /\ \A d \in dm.f_all_neighbors : d < c => dm.f_smaller_ips[d].known
  /\ ~dm.up => dm.services_know = {}

ListInv == \A c \in Computers : ListOK(c, daemon[c])

\* no connection broke, and one that has a name was accepted
PlainOK(s) == ~s.broken /\ (s.server # "closed" /\ s.server_name => s.type = "REMOTE")

PlainInv == \A n \in Sockets : PlainOK(socket[n])

PartsInv == PlainInv /\ ListInv /\ PairInv

TriesInv == breaks = 0 => PartsInv

\* no daemon has as many connections as it accepts
RoomLeft == \A c \in Computers : ~TooMany(c)

-----------------------------------------------------------------------------
(***************************************************************************)
(* What an event does to a queue.                                          *)
(***************************************************************************)
LEMMA NoneBefore == \A x, y, u, v : ~Before(<<>>, x, y, u, v)
BY NoEvents, BeforeHas

LEMMA OnceNone == Once(<<>>)
BY NoEvents, NoneBefore DEF Once

LEMMA OnceRest ==
  ASSUME NEW q, NEW r, Once(q), IsRest(r, q)
  PROVE  Once(r)
<1>1. /\ RestOrder(r, q, Head(q).sock, Head(q).msg)
      /\ \A n, m : Has(r, n, m) => Has(q, n, m)
  BY DEF IsRest
<1>2. \A x, y, u, v : Before(r, x, y, u, v) => Before(q, x, y, u, v)
  BY <1>1 DEF RestOrder
<1>3. QED
  BY <1>1, <1>2 DEF Once

LEMMA OnceSent ==
  ASSUME NEW q, NEW r, NEW n, NEW m, Once(q), IsSent(r, q, n, m), m # "REFUSE",
         m \in {"CONNECT", "GOSSIP"} => ~Has(q, n, m)
  PROVE  Once(r)
<1>1. /\ SentOrder(r, q, n, m)
      /\ \A x, y : Has(r, x, y) <=> Has(q, x, y) \/ (x = n /\ y = m)
  BY DEF IsSent
<1>2. \A x, y, u, v : Before(r, x, y, u, v) =>
        Before(q, x, y, u, v) \/ (u = n /\ v = m /\ Has(q, x, y))
  BY <1>1 DEF SentOrder
<1>3. QED
  BY <1>1, <1>2 DEF Once

LEMMA OnceWithout ==
  ASSUME NEW q, NEW r, NEW n, Once(q), IsWithout(r, q, n)
  PROVE  Once(r)
<1>1. /\ WithoutOrder(r, q, n)
      /\ \A x, y : Has(r, x, y) => Has(q, x, y)
  BY DEF IsWithout
<1>2. \A x, y, u, v : Before(r, x, y, u, v) => Before(q, x, y, u, v)
  BY <1>1 DEF WithoutOrder
<1>3. QED
  BY <1>1, <1>2 DEF Once

LEMMA OnceEnding ==
  ASSUME NEW q, NEW r, NEW T, Once(q), Ending(r, q, T)
  PROVE  Once(r)
<1>1. /\ EndingOrder(r, q)
      /\ \A x, y : Has(r, x, y) => Has(q, x, y) \/ y \in {"DISCONNECT", "FIN"}
  BY DEF Ending
<1>2. \A x, y, u, v : Before(r, x, y, u, v) => Before(q, x, y, u, v)
                                            \/ v \in {"DISCONNECT", "FIN"}
  BY <1>1 DEF EndingOrder
<1>3. QED
  BY <1>1, <1>2 DEF Once

\* the event that is read is not read again
LEMMA OnceRead ==
  ASSUME NEW q, NEW r, Once(q), IsRest(r, q), Head(q).sock \in Sockets,
         Head(q).msg \in {"CONNECT", "GOSSIP"}
  PROVE  ~Has(r, Head(q).sock, Head(q).msg)
<1>1. RestOrder(r, q, Head(q).sock, Head(q).msg)
  BY DEF IsRest
<1>2. \A u, v : Has(r, u, v) => Before(q, Head(q).sock, Head(q).msg, u, v)
  BY <1>1 DEF RestOrder
<1>3. QED
  BY <1>2 DEF Once

LEMMA AloneRest ==
  ASSUME NEW q, NEW r, NEW m \in Sockets, NEW n \in Sockets, Once(q), Alone(q, m, n),
         IsRest(r, q), ~(Head(q).sock = m /\ Head(q).msg = "FIN")
  PROVE  Alone(r, m, n)
<1>1. /\ RestOrder(r, q, Head(q).sock, Head(q).msg)
      /\ \A x, y : Has(r, x, y) => Has(q, x, y)
  BY DEF IsRest
<1>2. \A x, y, u, v : Before(q, x, y, u, v) =>
        Before(r, x, y, u, v) \/ (x = Head(q).sock /\ y = Head(q).msg)
  BY <1>1 DEF RestOrder
<1>3. CASE Head(q).sock = n /\ Head(q).msg = "CONNECT"
  BY <1>3, OnceRead DEF Alone
<1>4. CASE ~(Head(q).sock = n /\ Head(q).msg = "CONNECT")
  BY <1>1, <1>2, <1>4 DEF Alone
<1>5. QED
  BY <1>3, <1>4

LEMMA AloneSent ==
  ASSUME NEW q, NEW r, NEW m, NEW n, NEW x, NEW y, Alone(q, m, n),
         IsSent(r, q, x, y), y # "CONNECT"
  PROVE  Alone(r, m, n)
<1>1. /\ SentOrder(r, q, x, y)
      /\ Has(r, n, "CONNECT") => Has(q, n, "CONNECT")
  BY DEF IsSent
<1>2. \A a, b, u, v : Before(q, a, b, u, v) => Before(r, a, b, u, v)
  BY <1>1 DEF SentOrder
<1>3. QED
  BY <1>1, <1>2 DEF Alone

LEMMA AloneWithout ==
  ASSUME NEW q, NEW r, NEW m, NEW n, NEW x, Alone(q, m, n), IsWithout(r, q, x), x # m
  PROVE  Alone(r, m, n)
<1>1. /\ WithoutOrder(r, q, x)
      /\ Has(r, n, "CONNECT") => Has(q, n, "CONNECT") /\ n # x
  BY DEF IsWithout
<1>2. \A a, b, u, v : Before(q, a, b, u, v) /\ a # x /\ u # x => Before(r, a, b, u, v)
  BY <1>1 DEF WithoutOrder
<1>3. QED
  BY <1>1, <1>2 DEF Alone

LEMMA AloneEnding ==
  ASSUME NEW q, NEW r, NEW m, NEW n, NEW T, Alone(q, m, n), Ending(r, q, T)
  PROVE  Alone(r, m, n)
<1>1. /\ EndingOrder(r, q)
      /\ Has(r, n, "CONNECT") => Has(q, n, "CONNECT")
  BY DEF Ending
<1>2. \A a, b, u, v : Before(q, a, b, u, v) => Before(r, a, b, u, v)
  BY <1>1 DEF EndingOrder
<1>3. QED
  BY <1>1, <1>2 DEF Alone

LEMMA GossipRest ==
  ASSUME NEW p, NEW q, NEW r, Gossip(p, q), IsRest(r, q),
         ~(Head(q).sock = p.sock /\ Head(q).msg = "GOSSIP")
  PROVE  Gossip(p, r)
<1>1. /\ RestOrder(r, q, Head(q).sock, Head(q).msg)
      /\ Has(q, p.sock, "GOSSIP") => Has(r, p.sock, "GOSSIP")
  BY DEF IsRest
<1>2. \A x, y, u, v : Before(r, x, y, u, v) => Before(q, x, y, u, v)
  BY <1>1 DEF RestOrder
<1>3. QED
  BY <1>1, <1>2 DEF Gossip

LEMMA GossipSent ==
  ASSUME NEW p, NEW q, NEW r, NEW n, NEW m, Gossip(p, q), IsSent(r, q, n, m),
         m # "DISCONNECT"
  PROVE  Gossip(p, r)
<1>1. /\ SentOrder(r, q, n, m)
      /\ Has(q, p.sock, "GOSSIP") => Has(r, p.sock, "GOSSIP")
  BY DEF IsSent
<1>2. \A x, y, u : Before(r, x, y, u, "DISCONNECT") => Before(q, x, y, u, "DISCONNECT")
  BY <1>1 DEF SentOrder
<1>3. QED
  BY <1>1, <1>2 DEF Gossip

LEMMA GossipWithout ==
  ASSUME NEW p, NEW q, NEW r, NEW n, Gossip(p, q), IsWithout(r, q, n), n # p.sock
  PROVE  Gossip(p, r)
<1>1. /\ WithoutOrder(r, q, n)
      /\ Has(q, p.sock, "GOSSIP") => Has(r, p.sock, "GOSSIP")
  BY DEF IsWithout
<1>2. \A x, y, u, v : Before(r, x, y, u, v) => Before(q, x, y, u, v)
  BY <1>1 DEF WithoutOrder
<1>3. QED
  BY <1>1, <1>2 DEF Gossip

-----------------------------------------------------------------------------
(***************************************************************************)
(* What a step does to the queues between c and d.                         *)
(***************************************************************************)
OtherQueues(c, d) ==
  \A a, b \in Computers : {a, b} # {c, d} => queue'[a][b] = queue[a][b]

\* c takes the event m on socket n from what d sent
Takes(r, q, n, m) == IsRest(r, q) /\ Head(q).sock = n /\ Head(q).msg = m

\* c answers e on socket n, or nothing
Answers(r, q, n, e, answered) ==
  /\ answered => IsSent(r, q, n, e)
  /\ ~answered => r = q

\* c takes the event m, and then all that is left on socket n
Clears(r, q, n, m) == \E s : Takes(s, q, n, m) /\ IsWithout(r, s, n)

LEMMA TakeEffect ==
  ASSUME TypeOK, NEW c \in Computers, NEW d \in Computers, NEW m, Read(c, d, m), c # d,
         queue' = Rest(c, d)
  PROVE  /\ OtherQueues(c, d)
         /\ Takes(queue'[d][c], queue[d][c], SocketRead(c, d), m)
         /\ queue'[c][d] = queue[c][d]
<1>1. /\ TakenFrom(Rest(c, d), c, d)
      /\ SocketRead(c, d) = Head(queue[d][c]).sock
      /\ m = Head(queue[d][c]).msg
  BY ReadEvent
<1>2. QED
  BY <1>1 DEF TakenFrom, OnlyQueue, OtherQueues, Takes

LEMMA AnswerEffect ==
  ASSUME TypeOK, NEW c \in Computers, NEW d \in Computers, NEW m, NEW r, NEW answered,
         AnswerStep(c, d, m, r, answered), c # d
  PROVE  /\ OtherQueues(c, d)
         /\ Takes(queue'[d][c], queue[d][c], SocketRead(c, d), m)
         /\ Answers(queue'[c][d], queue[c][d], SocketRead(c, d), r, answered)
<1> DEFINE n == SocketRead(c, d)
           q == Rest(c, d)
<1>1. /\ TakenFrom(q, c, d)
      /\ n = Head(queue[d][c]).sock
      /\ m = Head(queue[d][c]).msg
      /\ n \in Sockets
      /\ q \in Queues
  BY ReadEvent DEF AnswerStep
<1>2. /\ answered => r \in Message /\ queue' = Sent(q, c, d, n, r)
      /\ ~answered => queue' = q
  BY DEF AnswerStep
<1> HIDE DEF n, q
<1>3. answered => SentTo(queue', q, c, d, n, r)
  BY <1>1, <1>2, Sending
<1>4. /\ \A a, b \in Computers : ~(a = c /\ b = d) => queue'[a][b] = q[a][b]
      /\ answered => IsSent(queue'[c][d], q[c][d], n, r)
      /\ ~answered => queue'[c][d] = q[c][d]
  BY <1>2, <1>3 DEF SentTo, OnlyQueue
<1>5. /\ IsRest(q[d][c], queue[d][c])
      /\ \A a, b \in Computers : ~(a = d /\ b = c) => q[a][b] = queue[a][b]
  BY <1>1 DEF TakenFrom, OnlyQueue
<1>6. OtherQueues(c, d)
  BY <1>4, <1>5 DEF OtherQueues
<1>7. Takes(queue'[d][c], queue[d][c], n, m)
  BY <1>1, <1>4, <1>5 DEF Takes
<1>8. Answers(queue'[c][d], queue[c][d], n, r, answered)
  BY <1>4, <1>5 DEF Answers
<1>9. QED
  BY <1>6, <1>7, <1>8 DEF n

LEMMA CloseEffect ==
  ASSUME TypeOK, NEW c \in Computers, NEW d \in Computers, NEW m,
         CloseStep(c, d, m), c # d, Other(c, SocketRead(c, d)) = d
  PROVE  /\ OtherQueues(c, d)
         /\ Clears(queue'[d][c], queue[d][c], SocketRead(c, d), m)
         /\ \E told : Answers(queue'[c][d], queue[c][d], SocketRead(c, d), "FIN", told)
<1> DEFINE n == SocketRead(c, d)
           q == Rest(c, d)
           told == IsOpen(d, n) /\ ~socket[n].broken
<1>1. /\ TakenFrom(q, c, d)
      /\ n = Head(queue[d][c]).sock
      /\ m = Head(queue[d][c]).msg
      /\ n \in Sockets
      /\ q \in Queues
  BY ReadEvent DEF CloseStep
<1>2. queue' = CloseQueue(c, q, n)
  BY DEF CloseStep
<1>3. ClosedWith(CloseQueue(c, q, n), q, c, d, n, told)
  BY <1>1, Closing
<1> HIDE DEF n, q, told
<1>4. /\ IsWithout(queue'[d][c], q[d][c], n)
      /\ told => IsSent(queue'[c][d], q[c][d], n, "FIN")
      /\ ~told => queue'[c][d] = q[c][d]
      /\ \A a, b \in Computers :
           ~(a = d /\ b = c) /\ ~(a = c /\ b = d) => queue'[a][b] = q[a][b]
  BY <1>2, <1>3 DEF ClosedWith
<1>5. /\ IsRest(q[d][c], queue[d][c])
      /\ \A a, b \in Computers : ~(a = d /\ b = c) => q[a][b] = queue[a][b]
  BY <1>1 DEF TakenFrom, OnlyQueue
<1>6. OtherQueues(c, d)
  BY <1>4, <1>5 DEF OtherQueues
<1>7. Clears(queue'[d][c], queue[d][c], n, m)
  <2>1. Takes(q[d][c], queue[d][c], n, m)
    BY <1>1, <1>5 DEF Takes
  <2>2. QED
    BY <1>4, <2>1 DEF Clears
<1>8. Answers(queue'[c][d], queue[c][d], n, "FIN", told)
  BY <1>4, <1>5 DEF Answers
<1>9. QED
  BY <1>6, <1>7, <1>8 DEF n

\* what is not sent is not there
LEMMA AnswersHas ==
  ASSUME NEW r, NEW q, NEW n, NEW e, NEW answered, Answers(r, q, n, e, answered)
  PROVE  /\ \A x, y : Has(q, x, y) => Has(r, x, y)
         /\ \A x, y : Has(r, x, y) /\ y # e => Has(q, x, y)
         /\ \A x, y : Has(r, x, y) /\ x # n => Has(q, x, y)
BY DEF Answers, IsSent

LEMMA TakesHas ==
  ASSUME NEW r, NEW q, NEW n, NEW m, Takes(r, q, n, m)
  PROVE  /\ Has(q, n, m)
         /\ \A x, y : Has(r, x, y) => Has(q, x, y)
         /\ \A x, y : Has(q, x, y) /\ ~(x = n /\ y = m) => Has(r, x, y)
BY DEF Takes, IsRest

LEMMA ClearsHas ==
  ASSUME NEW r, NEW q, NEW n, NEW m, Clears(r, q, n, m)
  PROVE  /\ Has(q, n, m)
         /\ \A x, y : Has(r, x, y) => Has(q, x, y) /\ x # n
         /\ \A x, y : Has(q, x, y) /\ x # n => Has(r, x, y)
<1>1. PICK s : Takes(s, q, n, m) /\ IsWithout(r, s, n)
  BY DEF Clears
<1>2. /\ Has(q, n, m)
      /\ \A x, y : Has(s, x, y) => Has(q, x, y)
      /\ \A x, y : Has(q, x, y) /\ ~(x = n /\ y = m) => Has(s, x, y)
  BY <1>1, TakesHas
<1>3. \A x, y : Has(r, x, y) <=> Has(s, x, y) /\ x # n
  BY <1>1 DEF IsWithout
<1>4. QED
  BY <1>2, <1>3

LEMMA AsksAnswers ==
  ASSUME NEW p, NEW q, NEW r, NEW n, NEW e, NEW answered, Answers(r, q, n, e, answered),
         e # "DISCONNECT"
  PROVE  /\ Asks(p, q) => Asks(p, r)
         /\ Dropped(r) => Dropped(q)
<1>1. CASE answered
  <2>1. IsSent(r, q, n, e)
    BY <1>1 DEF Answers
  <2>2. Gossip(p, q) => Gossip(p, r)
    BY <2>1, GossipSent
  <2>3. QED
    BY <2>2, AnswersHas DEF Asks, Dropped
<1>2. CASE ~answered
  BY <1>2 DEF Answers
<1>3. QED
  BY <1>1, <1>2

LEMMA AsksTakes ==
  ASSUME NEW p, NEW q, NEW r, NEW n, NEW m, Takes(r, q, n, m)
  PROVE  /\ Asks(p, q) /\ ~(n = p.sock /\ m = "GOSSIP") => Asks(p, r)
         /\ Dropped(r) => Dropped(q)
<1>1. Gossip(p, q) /\ ~(n = p.sock /\ m = "GOSSIP") => Gossip(p, r)
  BY GossipRest DEF Takes
<1>2. QED
  BY <1>1, TakesHas DEF Asks, Dropped

LEMMA AsksClears ==
  ASSUME NEW p, NEW q, NEW r, NEW n, NEW m, Clears(r, q, n, m)
  PROVE  /\ Asks(p, q) /\ n # p.sock => Asks(p, r)
         /\ Dropped(r) => Dropped(q)
<1>1. PICK s : Takes(s, q, n, m) /\ IsWithout(r, s, n)
  BY DEF Clears
<1>2. Asks(p, q) /\ n # p.sock => Asks(p, s)
  BY <1>1, AsksTakes
<1>3. Gossip(p, s) /\ n # p.sock => Gossip(p, r)
  BY <1>1, GossipWithout
<1>4. Dropped(r) => Dropped(q)
  BY ClearsHas DEF Dropped
<1>5. QED
  BY <1>2, <1>3, <1>4 DEF Asks

-----------------------------------------------------------------------------
(***************************************************************************)
(* QueuesOK after an event is read, by c or by d.                          *)
(***************************************************************************)
\* the sockets from d to c that are open were open
StillOpen(c, d, sk, tk) ==
  \A m \in Sockets : Open(tk[m], c, d) => Open(sk[m], c, d)

LEMMA QueuesTakes ==
  ASSUME NEW c, NEW d, NEW to, NEW back, NEW sk, NEW r, NEW n \in Sockets, NEW m,
         NEW tk, QueuesOK(c, d, to, back, sk), Takes(r, back, n, m),
         StillOpen(c, d, sk, tk), m = "FIN" => ~Open(tk[n], c, d)
  PROVE  QueuesOK(c, d, to, r, tk)
<1>1. IsRest(r, back) /\ Head(back).sock = n /\ Head(back).msg = m
  BY DEF Takes
<1>2. Once(r)
  BY <1>1, OnceRest DEF QueuesOK
<1>3. ASSUME NEW x \in Sockets, NEW y \in Sockets, x # y, Open(tk[x], c, d)
      PROVE  Alone(r, x, y)
  <2>1. Alone(back, x, y)
    BY <1>3 DEF QueuesOK, StillOpen
  <2>2. ~(n = x /\ m = "FIN")
    BY <1>3
  <2>3. Once(back)
    BY DEF QueuesOK
  <2>4. QED
    BY <1>1, <2>1, <2>2, <2>3, AloneRest
<1>4. QED
  BY <1>2, <1>3 DEF QueuesOK

LEMMA QueuesClears ==
  ASSUME NEW c, NEW d, NEW to, NEW back, NEW sk, NEW r, NEW n \in Sockets, NEW m,
         NEW tk, QueuesOK(c, d, to, back, sk), Clears(r, back, n, m),
         StillOpen(c, d, sk, tk), ~Open(tk[n], c, d)
  PROVE  QueuesOK(c, d, to, r, tk)
<1>1. PICK s : Takes(s, back, n, m) /\ IsWithout(r, s, n)
  BY DEF Clears
<1>2. QueuesOK(c, d, to, s, tk)
  BY <1>1, QueuesTakes
<1>3. Once(r)
  BY <1>1, <1>2, OnceWithout DEF QueuesOK
<1>4. ASSUME NEW x \in Sockets, NEW y \in Sockets, x # y, Open(tk[x], c, d)
      PROVE  Alone(r, x, y)
  <2>1. Alone(s, x, y) /\ n # x
    BY <1>2, <1>4 DEF QueuesOK
  <2>2. QED
    BY <1>1, <2>1, AloneWithout
<1>5. QED
  BY <1>2, <1>3, <1>4 DEF QueuesOK

\* what is sent to d is neither CONNECT nor GOSSIP
LEMMA QueuesAnswersTo ==
  ASSUME NEW c, NEW d, NEW to, NEW back, NEW sk, NEW r, NEW n, NEW e, NEW answered,
         QueuesOK(c, d, to, back, sk), Answers(r, to, n, e, answered),
         e \notin {"CONNECT", "GOSSIP", "REFUSE"}
  PROVE  QueuesOK(c, d, r, back, sk)
<1>1. Once(r)
  BY OnceSent DEF QueuesOK, Answers
<1>2. QED
  BY <1>1 DEF QueuesOK

LEMMA QueuesAnswersBack ==
  ASSUME NEW c, NEW d, NEW to, NEW back, NEW sk, NEW r, NEW n, NEW e, NEW answered,
         QueuesOK(c, d, to, back, sk), Answers(r, back, n, e, answered),
         e \notin {"CONNECT", "GOSSIP", "REFUSE"}
  PROVE  QueuesOK(c, d, to, r, sk)
<1>1. Once(r)
  BY OnceSent DEF QueuesOK, Answers
<1>2. ASSUME NEW x \in Sockets, NEW y \in Sockets, x # y, Open(sk[x], c, d)
      PROVE  Alone(r, x, y)
  <2>1. Alone(back, x, y)
    BY <1>2 DEF QueuesOK
  <2>2. QED
    BY <2>1, AloneSent DEF Answers
<1>3. QED
  BY <1>1, <1>2 DEF QueuesOK

\* d reads what c sent
LEMMA QueuesTo ==
  ASSUME NEW c, NEW d, NEW to, NEW back, NEW sk, NEW r, NEW n, NEW m, NEW tk,
         QueuesOK(c, d, to, back, sk), Takes(r, to, n, m) \/ Clears(r, to, n, m),
         StillOpen(c, d, sk, tk)
  PROVE  QueuesOK(c, d, r, back, tk)
<1>1. Once(r)
  <2>1. CASE Takes(r, to, n, m)
    BY <2>1, OnceRest DEF QueuesOK, Takes
  <2>2. CASE Clears(r, to, n, m)
    <3>1. PICK s : Takes(s, to, n, m) /\ IsWithout(r, s, n)
      BY <2>2 DEF Clears
    <3>2. Once(s)
      BY <3>1, OnceRest DEF QueuesOK, Takes
    <3>3. QED
      BY <3>1, <3>2, OnceWithout
  <2>3. QED
    BY <2>1, <2>2
<1>2. QED
  BY <1>1 DEF QueuesOK, StillOpen

-----------------------------------------------------------------------------
(***************************************************************************)
(* The daemon of a hears of addresses: r in place of dm.  It may try e     *)
(* again, and tells e of itself if it is new and larger.                   *)
(***************************************************************************)
Wider(a, e, dm, r) ==
  /\ r.up = dm.up
  /\ dm.f_all_neighbors \subseteq r.f_all_neighbors
  /\ a < e /\ e \in r.f_all_neighbors =>
       e \in dm.f_all_neighbors \/ Trying(r.f_gossip_ips[e])
  /\ r.f_gossip_ips[e] = dm.f_gossip_ips[e] \/ Trying(r.f_gossip_ips[e])
  /\ r.f_smaller_ips[e].sock = dm.f_smaller_ips[e].sock
  /\ dm.f_smaller_ips[e].enabled => r.f_smaller_ips[e].enabled
  /\ Idle(r.f_smaller_ips[e]) => Idle(dm.f_smaller_ips[e])

LEMMA WiderSame ==
  ASSUME NEW a, NEW e, NEW dm
  PROVE  Wider(a, e, dm, dm)
BY DEF Wider

\* r in place of dm: the addresses of new are new, those of others are tried again
Added(c, dm, others, new, r) ==
  /\ r.up = dm.up
  /\ r.services_know = dm.services_know
  /\ r.f_all_neighbors = dm.f_all_neighbors
  /\ r.f_all_ips = dm.f_all_ips \cup new
  /\ \A d \in Computers :
       /\ r.f_smaller_ips[d] =
            IF d < c /\ d \in new THEN NewPermanent
            ELSE IF d \in others /\ dm.f_smaller_ips[d].known
                    /\ dm.f_smaller_ips[d].sock = None
            THEN [dm.f_smaller_ips[d] EXCEPT !.enabled = TRUE]
            ELSE dm.f_smaller_ips[d]
       /\ r.f_gossip_ips[d] =
            IF d > c /\ d \in new THEN NewPermanent ELSE dm.f_gossip_ips[d]

LEMMA AddFields ==
  ASSUME NEW c \in Computers, NEW dm \in Daemon, NEW A \in SUBSET Computers
  PROVE  Added(c, dm, A \ {c}, (A \ {c}) \ dm.f_all_ips,
               add_remote_communicator(c, dm, A))
<1> DEFINE others == A \ {c}
           new == others \ dm.f_all_ips
           small(d) == IF d < c /\ d \in new THEN NewPermanent
                       ELSE IF d \in others /\ dm.f_smaller_ips[d].known
                               /\ dm.f_smaller_ips[d].sock = None
                       THEN [dm.f_smaller_ips[d] EXCEPT !.enabled = TRUE]
                       ELSE dm.f_smaller_ips[d]
           gossip(d) == IF d > c /\ d \in new THEN NewPermanent ELSE dm.f_gossip_ips[d]
           r == add_remote_communicator(c, dm, A)
<1>1. r = [dm EXCEPT !.f_all_ips = dm.f_all_ips \cup new,
                     !.f_smaller_ips = [d \in Computers |-> small(d)],
                     !.f_gossip_ips = [d \in Computers |-> gossip(d)]]
  BY DEF add_remote_communicator
<1>2. /\ r.up = dm.up
      /\ r.services_know = dm.services_know
      /\ r.f_all_neighbors = dm.f_all_neighbors
      /\ r.f_all_ips = dm.f_all_ips \cup new
      /\ \A d \in Computers : r.f_smaller_ips[d] = small(d) /\ r.f_gossip_ips[d] = gossip(d)
  <2> HIDE DEF r, small, gossip, new
  <2>1. QED
    BY <1>1 DEF Daemon
<1> HIDE DEF r
<1>3. QED
  BY <1>2 DEF Added, r

\* add_neighbors() of c
LEMMA WiderAdd ==
  ASSUME NEW c \in Computers, NEW dm \in Daemon, NEW A \in SUBSET Computers,
         DaemonOK(c, dm), ListOK(c, dm), dm.up
  PROVE  LET r == add_neighbors(c, dm, A)
         IN  /\ r.services_know = dm.services_know
             /\ \A e \in Computers : Wider(c, e, dm, r)
             /\ ListOK(c, r)
             /\ A \subseteq r.f_all_neighbors
             /\ \A e \in Computers :
                  dm.f_smaller_ips[e].known =>
                    r.f_smaller_ips[e] = dm.f_smaller_ips[e]
<1> DEFINE g == [dm EXCEPT !.f_all_neighbors = @ \cup A]
           B == A \ dm.f_all_neighbors
           others == B \ {c}
           new == others \ g.f_all_ips
           r == add_neighbors(c, dm, A)
<1>1. /\ g \in Daemon
      /\ g.up = dm.up
      /\ g.services_know = dm.services_know
      /\ g.f_all_neighbors = dm.f_all_neighbors \cup A
      /\ g.f_all_ips = dm.f_all_ips
      /\ g.f_smaller_ips = dm.f_smaller_ips
      /\ g.f_gossip_ips = dm.f_gossip_ips
  BY DEF Daemon
<1>2. /\ dm.f_all_ips = dm.f_all_neighbors \ {c}
      /\ \A d \in dm.f_all_neighbors : d < c => dm.f_smaller_ips[d].known
      /\ dm.f_all_neighbors \in SUBSET Computers
  BY DEF ListOK, Daemon
<1>3. B \in SUBSET Computers /\ r = add_remote_communicator(c, g, B)
  BY DEF add_neighbors
<1> HIDE DEF g, r
<1>4. new = others
  BY <1>1, <1>2
<1>5. /\ r.up = dm.up
      /\ r.services_know = dm.services_know
      /\ r.f_all_neighbors = dm.f_all_neighbors \cup A
      /\ r.f_all_ips = dm.f_all_ips \cup others
      /\ \A d \in Computers :
           /\ r.f_smaller_ips[d] =
                IF d < c /\ d \in others THEN NewPermanent
                ELSE IF d \in others /\ dm.f_smaller_ips[d].known
                        /\ dm.f_smaller_ips[d].sock = None
                THEN [dm.f_smaller_ips[d] EXCEPT !.enabled = TRUE]
                ELSE dm.f_smaller_ips[d]
           /\ r.f_gossip_ips[d] =
                IF d > c /\ d \in others THEN NewPermanent ELSE dm.f_gossip_ips[d]
  <2>1. Added(c, g, others, others, r)
    BY <1>1, <1>3, <1>4, AddFields
  <2> HIDE DEF others
  <2>2. QED
    BY <1>1, <2>1 DEF Added
<1> HIDE DEF others, B, new
<1>6. others = (A \ dm.f_all_neighbors) \ {c}
  BY DEF others, B
<1>7. ASSUME NEW d \in Computers, dm.f_smaller_ips[d].known
      PROVE  d \notin others /\ r.f_smaller_ips[d] = dm.f_smaller_ips[d]
  <2>1. d \in dm.f_all_ips
    BY <1>7 DEF DaemonOK
  <2>2. d \notin others
    BY <1>2, <1>6, <2>1
  <2>3. QED
    BY <1>5, <2>2
<1>8. ASSUME NEW d \in Computers, ~dm.f_smaller_ips[d].known
      PROVE  \/ d < c /\ d \in others /\ r.f_smaller_ips[d] = NewPermanent
             \/ r.f_smaller_ips[d] = dm.f_smaller_ips[d]
  BY <1>5, <1>8
<1>9. ASSUME NEW d \in Computers
      PROVE  Wider(c, d, dm, r)
  <2>1. /\ r.f_smaller_ips[d].sock = dm.f_smaller_ips[d].sock
        /\ dm.f_smaller_ips[d].enabled => r.f_smaller_ips[d].enabled
        /\ Idle(r.f_smaller_ips[d]) => Idle(dm.f_smaller_ips[d])
    <3>1. CASE dm.f_smaller_ips[d].known
      BY <1>7, <3>1
    <3>2. CASE ~dm.f_smaller_ips[d].known
      <4>1. Unused(dm.f_smaller_ips[d])
        BY <3>2 DEF DaemonOK
      <4>2. QED
        BY <1>8, <3>2, <4>1, PermanentTypes DEF Unused, Idle
    <3>3. QED
      BY <3>1, <3>2
  <2>2. r.f_gossip_ips[d] = dm.f_gossip_ips[d] \/ Trying(r.f_gossip_ips[d])
    BY <1>5, PermanentTypes DEF Trying
  <2>3. ASSUME c < d, d \in r.f_all_neighbors, d \notin dm.f_all_neighbors
        PROVE  Trying(r.f_gossip_ips[d])
    <3>1. d # c /\ d > c
      BY <2>3, NumberedComputers
    <3>2. d \in others
      BY <1>5, <1>6, <2>3, <3>1
    <3>3. r.f_gossip_ips[d] = NewPermanent
      BY <1>5, <3>1, <3>2
    <3>4. QED
      BY <3>3, PermanentTypes DEF Trying
  <2>4. QED
    BY <1>5, <2>1, <2>2, <2>3 DEF Wider
<1>10. ListOK(c, r)
  <2>1. r.f_all_ips = r.f_all_neighbors \ {c}
    BY <1>2, <1>5, <1>6
  <2>2. ASSUME NEW d \in r.f_all_neighbors, d < c
        PROVE  r.f_smaller_ips[d].known
    <3>1. d \in Computers /\ d # c
      BY <1>2, <1>5, <2>2, NumberedComputers
    <3>2. CASE dm.f_smaller_ips[d].known
      BY <1>7, <3>1, <3>2
    <3>3. CASE ~dm.f_smaller_ips[d].known
      <4>1. d \in others
        BY <1>2, <1>5, <1>6, <2>2, <3>1, <3>3
      <4>2. QED
        BY <1>5, <2>2, <3>1, <4>1, PermanentTypes
    <3>4. QED
      BY <3>2, <3>3
  <2>3. QED
    BY <1>5, <2>1, <2>2 DEF ListOK
<1>11. QED
  BY <1>5, <1>7, <1>9, <1>10 DEF r

\* add_remote_communicator() of c for a smaller address it has heard of
LEMMA WiderAgain ==
  ASSUME NEW c \in Computers, NEW dm \in Daemon, NEW d \in Computers,
         DaemonOK(c, dm), ListOK(c, dm), dm.up, d < c, d \in dm.f_all_neighbors
  PROVE  LET r == add_remote_communicator(c, dm, {d})
         IN  /\ r.services_know = dm.services_know
             /\ \A e \in Computers : Wider(c, e, dm, r)
             /\ ListOK(c, r)
             /\ ~Idle(r.f_smaller_ips[d])
             /\ d \in r.f_all_neighbors
<1> DEFINE r == add_remote_communicator(c, dm, {d})
           s == dm.f_smaller_ips[d]
<1>1. /\ dm.f_all_ips = dm.f_all_neighbors \ {c}
      /\ s.known
      /\ d # c
  BY NumberedComputers DEF ListOK
<1>2. ({d} \ {c}) \ dm.f_all_ips = {} /\ {d} \ {c} = {d}
  BY <1>1
<1>3. /\ r.up = dm.up
      /\ r.services_know = dm.services_know
      /\ r.f_all_neighbors = dm.f_all_neighbors
      /\ r.f_all_ips = dm.f_all_ips
      /\ \A e \in Computers :
           /\ r.f_smaller_ips[e] = IF e = d /\ s.known /\ s.sock = None
                                   THEN [s EXCEPT !.enabled = TRUE]
                                   ELSE dm.f_smaller_ips[e]
           /\ r.f_gossip_ips[e] = dm.f_gossip_ips[e]
  <2>1. {d} \in SUBSET Computers
    OBVIOUS
  <2>2. Added(c, dm, {d} \ {c}, ({d} \ {c}) \ dm.f_all_ips, r)
    BY <2>1, AddFields
  <2> HIDE DEF r
  <2>3. Added(c, dm, {d}, {}, r)
    BY <1>2, <2>2
  <2>4. QED
    BY <2>3 DEF Added
<1> HIDE DEF r
<1>4. LET k == [s EXCEPT !.enabled = TRUE]
      IN  k.known = s.known /\ k.sock = s.sock /\ k.enabled
  <2>1. s \in Permanent
    BY DEF Daemon
  <2>2. QED
    BY <2>1 DEF Permanent
<1>5. ASSUME NEW e \in Computers
      PROVE  Wider(c, e, dm, r) /\ (r.f_smaller_ips[e].known <=> dm.f_smaller_ips[e].known)
  <2>1. /\ r.f_smaller_ips[e].sock = dm.f_smaller_ips[e].sock
        /\ dm.f_smaller_ips[e].enabled => r.f_smaller_ips[e].enabled
        /\ Idle(r.f_smaller_ips[e]) => Idle(dm.f_smaller_ips[e])
        /\ r.f_smaller_ips[e].known <=> dm.f_smaller_ips[e].known
    BY <1>3, <1>4 DEF Idle
  <2>2. QED
    BY <1>3, <2>1 DEF Wider
<1>6. ~Idle(r.f_smaller_ips[d])
  BY <1>1, <1>3, <1>4 DEF Idle
<1>7. ListOK(c, r)
  <2>1. dm.f_all_neighbors \subseteq Computers
    BY DEF Daemon
  <2>2. QED
    BY <1>3, <1>5, <2>1 DEF ListOK
<1>8. QED
  BY <1>3, <1>5, <1>6, <1>7 DEF r

LEMMA WiderTwice ==
  ASSUME NEW a, NEW e, NEW dm, NEW g, NEW r, Wider(a, e, dm, g), Wider(a, e, g, r)
  PROVE  Wider(a, e, dm, r)
BY DEF Wider

-----------------------------------------------------------------------------
(***************************************************************************)
(* What keeps the parts of PairOK.                                         *)
(***************************************************************************)
\* the sockets from d to c are open, and accepted, as they were
SameOpen(c, d, sk, tk) ==
  \A n \in Sockets : /\ Open(tk[n], c, d) <=> Open(sk[n], c, d)
                     /\ Member(tk[n], c, d) <=> Member(sk[n], c, d)

LEMMA TriesWider ==
  ASSUME NEW c, NEW d, c < d, NEW dc, NEW dd, NEW rc, NEW rd, NEW to, NEW back,
         TriesOK(c, d, dc, dd, to, back), Wider(c, d, dc, rc), Wider(d, c, dd, rd)
  PROVE  TriesOK(c, d, rc, rd, to, back)
<1>1. /\ Asks(dc.f_gossip_ips[d], to) => Asks(rc.f_gossip_ips[d], to)
      /\ Tells(dc.f_gossip_ips[d], to, back) => Tells(rc.f_gossip_ips[d], to, back)
  BY DEF Wider, Asks, Tells
<1>2. Dropped(to) \/ Idle(rd.f_smaller_ips[c]) =>
        /\ d \in rc.f_all_neighbors
        /\ rc.up => Asks(rc.f_gossip_ips[d], to)
  BY <1>1 DEF Wider, TriesOK
<1>3. rc.up /\ d \in rc.f_all_neighbors /\ c \notin rd.f_all_neighbors =>
        Tells(rc.f_gossip_ips[d], to, back)
  <2>1. Trying(rc.f_gossip_ips[d]) => Tells(rc.f_gossip_ips[d], to, back)
    BY DEF Tells
  <2>2. QED
    BY <1>1, <2>1 DEF Wider, TriesOK
<1>4. \A n \in Sockets : Has(back, n, "RECEIVED") =>
        c \in rd.f_all_neighbors /\ ~Has(to, n, "GOSSIP")
  BY DEF Wider, TriesOK
<1>5. QED
  BY <1>2, <1>3, <1>4 DEF TriesOK

LEMMA TriesBack ==
  ASSUME NEW c, NEW d, NEW dc, NEW dd, NEW to, NEW back, NEW r,
         TriesOK(c, d, dc, dd, to, back),
         Has(back, dc.f_gossip_ips[d].sock, "FIN") => Has(r, dc.f_gossip_ips[d].sock, "FIN"),
         \A n \in Sockets : Has(r, n, "RECEIVED") => Has(back, n, "RECEIVED")
  PROVE  TriesOK(c, d, dc, dd, to, r)
<1>1. Tells(dc.f_gossip_ips[d], to, back) => Tells(dc.f_gossip_ips[d], to, r)
  BY DEF Tells
<1>2. QED
  BY <1>1 DEF TriesOK

LEMMA TriesTo ==
  ASSUME NEW c, NEW d, NEW dc, NEW dd, NEW to, NEW back, NEW r,
         TriesOK(c, d, dc, dd, to, back),
         Dropped(r) => Dropped(to),
         Asks(dc.f_gossip_ips[d], to) => Asks(dc.f_gossip_ips[d], r),
         Has(to, dc.f_gossip_ips[d].sock, "GOSSIP") => Has(r, dc.f_gossip_ips[d].sock, "GOSSIP"),
         \A n \in Sockets : Has(r, n, "GOSSIP") => Has(to, n, "GOSSIP")
  PROVE  TriesOK(c, d, dc, dd, r, back)
<1>1. Tells(dc.f_gossip_ips[d], to, back) => Tells(dc.f_gossip_ips[d], r, back)
  BY DEF Tells
<1>2. QED
  BY <1>1 DEF TriesOK

\* c or d reads an event; e is the answer
LEMMA TriesBackTakes ==
  ASSUME NEW c, NEW d, NEW dc, NEW dd, NEW to, NEW back, NEW r, NEW n, NEW m,
         TriesOK(c, d, dc, dd, to, back),
         \/ Takes(r, back, n, m) /\ (m = "FIN" => dc.f_gossip_ips[d].sock # n)
         \/ Clears(r, back, n, m) /\ dc.f_gossip_ips[d].sock # n
  PROVE  TriesOK(c, d, dc, dd, to, r)
<1>1. \A x, y : Has(r, x, y) => Has(back, x, y)
  BY TakesHas, ClearsHas
<1>2. Has(back, dc.f_gossip_ips[d].sock, "FIN") => Has(r, dc.f_gossip_ips[d].sock, "FIN")
  BY TakesHas, ClearsHas
<1>3. QED
  BY <1>1, <1>2, TriesBack

LEMMA TriesToTakes ==
  ASSUME NEW c, NEW d, NEW dc, NEW dd, NEW to, NEW back, NEW r, NEW n, NEW m,
         TriesOK(c, d, dc, dd, to, back),
         \/ Takes(r, to, n, m) /\ (m = "GOSSIP" => dc.f_gossip_ips[d].sock # n)
         \/ Clears(r, to, n, m) /\ dc.f_gossip_ips[d].sock # n
  PROVE  TriesOK(c, d, dc, dd, r, back)
<1>1. \A x, y : Has(r, x, y) => Has(to, x, y)
  BY TakesHas, ClearsHas
<1>2. Has(to, dc.f_gossip_ips[d].sock, "GOSSIP") => Has(r, dc.f_gossip_ips[d].sock, "GOSSIP")
  BY TakesHas, ClearsHas
<1>3. /\ Asks(dc.f_gossip_ips[d], to) => Asks(dc.f_gossip_ips[d], r)
      /\ Dropped(r) => Dropped(to)
  BY AsksTakes, AsksClears
<1>4. QED
  BY <1>1, <1>2, <1>3, TriesTo

LEMMA TriesAnswers ==
  ASSUME NEW c, NEW d, NEW dc, NEW dd, NEW to, NEW back, NEW r, NEW n, NEW e,
         NEW answered, TriesOK(c, d, dc, dd, to, back)
  PROVE  /\ Answers(r, to, n, e, answered) /\ e \notin {"DISCONNECT", "GOSSIP"} =>
              TriesOK(c, d, dc, dd, r, back)
         /\ Answers(r, back, n, e, answered) /\ e # "RECEIVED" =>
              TriesOK(c, d, dc, dd, to, r)
<1>1. ASSUME Answers(r, to, n, e, answered), e \notin {"DISCONNECT", "GOSSIP"}
      PROVE  TriesOK(c, d, dc, dd, r, back)
  <2>1. /\ Asks(dc.f_gossip_ips[d], to) => Asks(dc.f_gossip_ips[d], r)
        /\ Dropped(r) => Dropped(to)
    BY <1>1, AsksAnswers
  <2>2. \A x : Has(r, x, "GOSSIP") <=> Has(to, x, "GOSSIP")
    BY <1>1, AnswersHas
  <2>3. QED
    BY <2>1, <2>2, TriesTo
<1>2. ASSUME Answers(r, back, n, e, answered), e # "RECEIVED"
      PROVE  TriesOK(c, d, dc, dd, to, r)
  <2>1. /\ \A x : Has(r, x, "RECEIVED") => Has(back, x, "RECEIVED")
        /\ \A x : Has(back, x, "FIN") => Has(r, x, "FIN")
    BY <1>2, AnswersHas
  <2>2. QED
    BY <2>1, TriesBack
<1>3. QED
  BY <1>1, <1>2

\* the services of dm are told nothing of e, or that it is gone by a HANGUP
\* that names another computer than the one lost
SameKnown(dm, r, e) ==
  /\ e \in r.services_know => e \in dm.services_know
  /\ OwnNames /\ e \in dm.services_know => e \in r.services_know

LEMMA KnowsKept ==
  ASSUME NEW c, NEW d, NEW dc, NEW dd, NEW rc, NEW rd, NEW sk, NEW tk,
         KnowsOK(c, d, dc, dd, sk), Wider(c, d, dc, rc), Wider(d, c, dd, rd),
         SameOpen(c, d, sk, tk), SameKnown(dc, rc, d),
         c \in rd.services_know => c \in dd.services_know
  PROVE  KnowsOK(c, d, rc, rd, tk)
<1>1. d \in rc.services_know => \E n \in Sockets : Member(tk[n], c, d)
  BY DEF KnowsOK, SameOpen, SameKnown
<1>2. \A n \in Sockets : Member(tk[n], c, d) =>
        (OwnNames => d \in rc.services_know) /\ d \in rc.f_all_neighbors
  BY DEF KnowsOK, SameOpen, Wider, SameKnown
<1>3. c \in rd.services_know =>
        rd.f_smaller_ips[c].sock # None \/ rd.f_smaller_ips[c].enabled
  BY DEF KnowsOK, Wider
<1>4. QED
  BY <1>1, <1>2, <1>3 DEF KnowsOK

LEMMA QueuesSame ==
  ASSUME NEW c, NEW d, NEW to, NEW back, NEW sk, NEW tk, QueuesOK(c, d, to, back, sk),
         StillOpen(c, d, sk, tk)
  PROVE  QueuesOK(c, d, to, back, tk)
BY DEF QueuesOK, StillOpen

-----------------------------------------------------------------------------
(***************************************************************************)
(* A step of a that concerns b: the other pairs.                           *)
(***************************************************************************)
OtherEnds(a, b) ==
  \A x, y \in Computers : {x, y} # {a, b} => SameOpen(x, y, socket, socket')

LEMMA EndsKept ==
  ASSUME NEW n \in Sockets, NEW a \in Computers, NEW b \in Computers, OtherSockets(n),
         {socket[n].from, socket[n].to} = {a, b} \/ socket[n].server = "closed",
         {socket'[n].from, socket'[n].to} = {a, b}
  PROVE  OtherEnds(a, b)
<1>1. ASSUME NEW x \in Computers, NEW y \in Computers, {x, y} # {a, b},
             NEW m \in Sockets
      PROVE  /\ Open(socket'[m], x, y) <=> Open(socket[m], x, y)
             /\ Member(socket'[m], x, y) <=> Member(socket[m], x, y)
  <2>1. CASE m # n
    BY <2>1 DEF OtherSockets
  <2>2. CASE m = n
    <3>1. {socket[n].from, socket[n].to} = {a, b} => ~(socket[n].from = y /\ socket[n].to = x)
      BY <1>1
    <3>2. ~(socket'[n].from = y /\ socket'[n].to = x)
      BY <1>1
    <3>3. QED
      BY <2>2, <3>1, <3>2 DEF Open, Member
  <2>3. QED
    BY <2>1, <2>2
<1>2. QED
  BY <1>1 DEF OtherEnds, SameOpen

LEMMA EndsSame ==
  ASSUME NEW a, NEW b, socket' = socket
  PROVE  OtherEnds(a, b)
BY DEF OtherEnds, SameOpen

LEMMA PairKept ==
  ASSUME NEW c \in Computers, NEW d \in Computers, c < d, PairOK(c, d),
         queue'[c][d] = queue[c][d], queue'[d][c] = queue[d][c],
         Wider(c, d, daemon[c], daemon'[c]), Wider(d, c, daemon[d], daemon'[d]),
         SameKnown(daemon[c], daemon'[c], d), SameKnown(daemon[d], daemon'[d], c),
         SameOpen(c, d, socket, socket')
  PROVE  PairOK(c, d)'
<1> DEFINE to == queue[c][d]
           back == queue[d][c]
<1>1. QueuesOK(c, d, to, back, socket')
  <2>1. StillOpen(c, d, socket, socket')
    BY DEF SameOpen, StillOpen
  <2>2. QED
    BY <2>1, QueuesSame DEF PairOK
<1>2. KnowsOK(c, d, daemon'[c], daemon'[d], socket')
  BY KnowsKept DEF PairOK, SameKnown
<1>3. TriesOK(c, d, daemon'[c], daemon'[d], to, back)
  BY TriesWider DEF PairOK
<1>4. QED
  BY <1>1, <1>2, <1>3 DEF PairOK

\* a hears of addresses other than b, or changes what it knows of b only
Elsewhere(a, b) ==
  /\ OnlyDaemon(a)
  /\ \A e \in Computers : e # b =>
       /\ Wider(a, e, daemon[a], daemon'[a])
       /\ SameKnown(daemon[a], daemon'[a], e)

LEMMA NothingElsewhere ==
  ASSUME NEW a, NEW b, daemon' = daemon
  PROVE  Elsewhere(a, b)
BY WiderSame DEF Elsewhere, OnlyDaemon, SameKnown

LEMMA OtherPairs ==
  ASSUME PairInv, NEW a \in Computers, NEW b \in Computers, a # b,
         OtherQueues(a, b), OtherEnds(a, b), Elsewhere(a, b),
         NEW c \in Computers, NEW d \in Computers, c < d, {c, d} # {a, b}
  PROVE  PairOK(c, d)'
<1>1. c # d
  BY NumberedComputers
<1>2. queue'[c][d] = queue[c][d] /\ queue'[d][c] = queue[d][c]
  <2>1. {d, c} # {a, b}
    OBVIOUS
  <2>2. QED
    BY <2>1 DEF OtherQueues
<1>3. SameOpen(c, d, socket, socket')
  BY DEF OtherEnds
<1>4. /\ Wider(c, d, daemon[c], daemon'[c])
      /\ SameKnown(daemon[c], daemon'[c], d)
  <2>1. CASE c = a
    BY <2>1 DEF Elsewhere
  <2>2. CASE c # a
    BY <2>2, WiderSame DEF Elsewhere, OnlyDaemon, SameKnown
  <2>3. QED
    BY <2>1, <2>2
<1>5. /\ Wider(d, c, daemon[d], daemon'[d])
      /\ SameKnown(daemon[d], daemon'[d], c)
  <2>1. CASE d = a
    BY <2>1 DEF Elsewhere
  <2>2. CASE d # a
    BY <2>2, WiderSame DEF Elsewhere, OnlyDaemon, SameKnown
  <2>3. QED
    BY <2>1, <2>2
<1>6. PairOK(c, d)
  BY DEF PairInv
<1>7. QED
  BY <1>2, <1>3, <1>4, <1>5, <1>6, PairKept

\* what remains to be shown of such a step
LEMMA StepParts ==
  ASSUME PartsInv, NEW a \in Computers, NEW b \in Computers, a # b,
         OtherQueues(a, b), OtherEnds(a, b), Elsewhere(a, b),
         a < b => PairOK(a, b)', b < a => PairOK(b, a)',
         ListOK(a, daemon'[a]), PlainInv'
  PROVE  PartsInv'
<1>1. ASSUME NEW c \in Computers, NEW d \in Computers, c < d
      PROVE  PairOK(c, d)'
  <2>1. CASE {c, d} = {a, b}
    <3>1. (c = a /\ d = b) \/ (c = b /\ d = a)
      BY <2>1
    <3>2. QED
      BY <1>1, <3>1
  <2>2. CASE {c, d} # {a, b}
    BY <1>1, <2>2, OtherPairs DEF PartsInv
  <2>3. QED
    BY <2>1, <2>2
<1>2. ListInv'
  <2>1. ASSUME NEW c \in Computers
        PROVE  ListOK(c, daemon'[c])
    BY DEF PartsInv, ListInv, Elsewhere, OnlyDaemon
  <2>2. QED
    BY <2>1 DEF ListInv
<1>3. PairInv'
  BY <1>1 DEF PairInv
<1>4. QED
  BY <1>2, <1>3 DEF PartsInv

LEMMA ListSame ==
  ASSUME NEW c, NEW dm, NEW r, ListOK(c, dm), dm.up, r.up,
         r.f_all_ips = dm.f_all_ips, r.f_all_neighbors = dm.f_all_neighbors,
         \A e \in dm.f_all_neighbors : r.f_smaller_ips[e].known = dm.f_smaller_ips[e].known
  PROVE  ListOK(c, r)
BY DEF ListOK

LEMMA PlainKept ==
  ASSUME PlainInv, NEW n \in Sockets, OtherSockets(n), PlainOK(socket'[n])
  PROVE  PlainInv'
BY DEF PlainInv, OtherSockets

-----------------------------------------------------------------------------
(***************************************************************************)
(* The steps, in the order of Deliver.                                     *)
(***************************************************************************)
LEMMA PairSplit ==
  ASSUME NEW c \in Computers, NEW d \in Computers, PairInv, c < d
  PROVE  /\ QueuesOK(c, d, queue[c][d], queue[d][c], socket)
         /\ KnowsOK(c, d, daemon[c], daemon[d], socket)
         /\ TriesOK(c, d, daemon[c], daemon[d], queue[c][d], queue[d][c])
BY DEF PairInv, PairOK

\* a reads m from b, and answers nothing that matters: the pair, if the daemons
\* and the ends of the sockets are as they were
LEMMA TakenPair ==
  ASSUME ClusterInv, PairInv, NEW a \in Computers, NEW b \in Computers, NEW m,
         Read(a, b, m), m \notin {"FIN", "GOSSIP"}, queue' = Rest(a, b),
         daemon' = daemon,
         NEW c \in Computers, NEW d \in Computers, c < d, {c, d} = {a, b},
         SameOpen(c, d, socket, socket')
  PROVE  PairOK(c, d)'
<1> DEFINE n == SocketRead(a, b)
           to == queue[c][d]
           back == queue[d][c]
<1>0. TypeOK /\ a # b
  BY NumberedComputers DEF ClusterInv
<1>1. /\ Takes(queue'[b][a], queue[b][a], n, m)
      /\ queue'[a][b] = queue[a][b]
      /\ n \in Sockets
  BY <1>0, TakeEffect, ReadEvent
<1> HIDE DEF n
<1>2. /\ QueuesOK(c, d, to, back, socket)
      /\ KnowsOK(c, d, daemon[c], daemon[d], socket)
      /\ TriesOK(c, d, daemon[c], daemon[d], to, back)
  BY PairSplit
<1>3. StillOpen(c, d, socket, socket')
  BY DEF SameOpen, StillOpen
<1>4. KnowsOK(c, d, daemon[c], daemon[d], socket')
  BY <1>2, KnowsKept, WiderSame DEF SameKnown
<1>5. CASE c = a /\ d = b
  <2>1. Takes(queue'[d][c], back, n, m) /\ queue'[c][d] = to
    BY <1>1, <1>5
  <2> HIDE DEF to, back
  <2>2. QueuesOK(c, d, to, queue'[d][c], socket')
    BY <1>1, <1>2, <1>3, <2>1, QueuesTakes
  <2>3. TriesOK(c, d, daemon[c], daemon[d], to, queue'[d][c])
    BY <1>2, <2>1, TriesBackTakes
  <2>4. QED
    BY <1>4, <2>1, <2>2, <2>3 DEF PairOK
<1>6. CASE c = b /\ d = a
  <2>1. Takes(queue'[c][d], to, n, m) /\ queue'[d][c] = back
    BY <1>1, <1>6
  <2> HIDE DEF to, back
  <2>2. QueuesOK(c, d, queue'[c][d], back, socket')
    BY <1>2, <1>3, <2>1, QueuesTo
  <2>3. TriesOK(c, d, daemon[c], daemon[d], queue'[c][d], back)
    BY <1>2, <2>1, TriesToTakes
  <2>4. QED
    BY <1>4, <2>1, <2>2, <2>3 DEF PairOK
<1>7. QED
  BY <1>5, <1>6

\* the rest of such a step
LEMMA TakenParts ==
  ASSUME ClusterInv, PartsInv, NEW a \in Computers, NEW b \in Computers, NEW m,
         Read(a, b, m), m \notin {"FIN", "GOSSIP"}, queue' = Rest(a, b),
         daemon' = daemon, OtherEnds(a, b), SameOpen(a, b, socket, socket'),
         SameOpen(b, a, socket, socket'), PlainInv'
  PROVE  PartsInv'
<1>0. TypeOK /\ TransitInv /\ SocketInv /\ PairInv /\ ListInv
  BY DEF ClusterInv, PartsInv
<1>1. a # b
  BY <1>0, HeadRead DEF HeadOK
<1>2. OtherQueues(a, b)
  BY <1>0, <1>1, TakeEffect
<1>3. /\ a < b => PairOK(a, b)'
      /\ b < a => PairOK(b, a)'
  BY <1>0, TakenPair
<1>4. ListOK(a, daemon'[a])
  BY <1>0 DEF ListInv
<1>5. Elsewhere(a, b)
  BY NothingElsewhere
<1>6. QED
  BY <1>1, <1>2, <1>3, <1>4, <1>5, StepParts

LEMMA AcceptParts ==
  ASSUME ClusterInv, PartsInv, NEW a \in Computers, NEW b \in Computers,
         process_accept(a, b)
  PROVE  PartsInv'
<1> DEFINE n == SocketRead(a, b)
           s == socket[n]
           t == socket'[n]
<1>0. TypeOK /\ TransitInv /\ SocketInv /\ PlainInv
  BY DEF ClusterInv, PartsInv
<1>1. /\ Read(a, b, "SYN")
      /\ socket' = [socket EXCEPT ![n].server = "open"]
      /\ queue' = Rest(a, b)
      /\ daemon' = daemon
  BY DEF process_accept
<1>2. HeadOK(a, b, "SYN", n, s, Rest(a, b)[b][a])
  BY <1>0, <1>1, HeadRead
<1>3. n \in Sockets /\ s.from = b /\ s.to = a /\ s.server = "backlog"
  BY <1>2 DEF HeadOK
<1>4. /\ t.from = s.from /\ t.to = s.to /\ t.server = "open" /\ t.type = s.type
      /\ t.server_name = s.server_name /\ t.broken = s.broken
      /\ OtherSockets(n)
  BY <1>0, <1>1, <1>3 DEF TypeOK, Socket, OtherSockets
<1>5. SocketOK(n, s, queue[b][a])
  BY <1>0, <1>3 DEF SocketInv
<1>6. PlainOK(s)
  BY <1>0, <1>3 DEF PlainInv
<1> HIDE DEF n
<1>7. ASSUME NEW x, NEW y
      PROVE  SameOpen(x, y, socket, socket')
  <2>1. ASSUME NEW k \in Sockets
        PROVE  /\ Open(socket'[k], x, y) <=> Open(socket[k], x, y)
               /\ Member(socket'[k], x, y) <=> Member(socket[k], x, y)
    <3>1. CASE k # n
      BY <1>4, <3>1 DEF OtherSockets
    <3>2. CASE k = n
      BY <1>3, <1>4, <3>2 DEF Open, Member
    <3>3. QED
      BY <3>1, <3>2
  <2>2. QED
    BY <2>1 DEF SameOpen
<1>8. OtherEnds(a, b)
  BY <1>7 DEF OtherEnds
<1>9. PlainOK(t)
  BY <1>3, <1>4, <1>5, <1>6 DEF SocketOK, PlainOK
<1>10. PlainInv'
  BY <1>0, <1>3, <1>4, <1>9, PlainKept
<1>11. QED
  BY <1>1, <1>7, <1>8, <1>10, TakenParts

\* DISCONNECT on a connection that is not REMOTE
LEMMA IgnoredParts ==
  ASSUME ClusterInv, PartsInv, NEW a \in Computers, NEW b \in Computers,
         Read(a, b, "DISCONNECT"), queue' = Rest(a, b), daemon' = daemon,
         socket' = socket
  PROVE  PartsInv'
<1>1. \A x, y : SameOpen(x, y, socket, socket')
  BY DEF SameOpen
<1>2. OtherEnds(a, b) /\ PlainInv'
  BY EndsSame DEF PartsInv, PlainInv
<1>3. QED
  BY <1>1, <1>2, TakenParts

\* a name that CONNECT finds in use would be that of a connection whose end
\* was to be read before
LEMMA NameIsFree ==
  ASSUME ClusterInv, PairInv, NEW a \in Computers, NEW b \in Computers,
         Read(a, b, "CONNECT"), a < b
  PROVE  ~SameName(a, b, SocketRead(a, b))
<1> DEFINE n == SocketRead(a, b)
           q == queue[b][a]
           r == Rest(a, b)[b][a]
<1>0. TypeOK /\ TransitInv
  BY DEF ClusterInv
<1>1. /\ n \in Sockets
      /\ n = Head(q).sock
      /\ "CONNECT" = Head(q).msg
      /\ IsRest(r, q)
  BY <1>0, ReadEvent DEF TakenFrom
<1>2. Once(q)
  BY PairSplit DEF QueuesOK
<1>3. SUFFICES ASSUME NEW m \in Accepted(a, socket) \ {n}, socket[m].from = b
               PROVE  FALSE
  BY DEF SameName
<1>4. m \in Sockets /\ m # n /\ socket[m].to = a /\ socket[m].server = "open"
  BY DEF Accepted
<1>5. Open(socket[m], a, b)
  BY <1>3, <1>4 DEF Open
<1>6. Alone(q, m, n)
  BY <1>1, <1>4, <1>5, PairSplit DEF QueuesOK
<1>7. Transit(b, a, m, q, socket[m])
  BY <1>0, <1>4 DEF TransitInv
<1> HIDE DEF n, q, r
<1>8. ~Has(r, n, "CONNECT")
  BY <1>1, <1>2, OnceRead
<1>9. RestOrder(r, q, n, "CONNECT") /\ Has(q, n, "CONNECT")
  BY <1>1 DEF IsRest
<1>10. ~Before(q, m, "FIN", n, "CONNECT")
  <2>1. ~Before(r, m, "FIN", n, "CONNECT")
    BY <1>8, BeforeHas
  <2>2. QED
    BY <1>9, <2>1 DEF RestOrder
<1>11. ~Before(q, n, "CONNECT", m, "SYN")
  BY <1>4, <1>7, BeforeHas DEF Transit
<1>12. QED
  BY <1>6, <1>9, <1>10, <1>11 DEF Alone

\* the daemon of a that accepts b
LEMMA ConnectLearns ==
  ASSUME ClusterInv, ListInv, NEW a \in Computers, NEW b \in Computers,
         NEW A \in SUBSET Computers, b \in A, NEW sk, daemon[a].up,
         daemon' = [daemon EXCEPT ![a] = cluster_status(a,
           [add_neighbors(a, daemon[a], A) EXCEPT !.services_know = @ \cup {b}], sk)]
  PROVE  /\ OnlyDaemon(a)
         /\ \A e \in Computers : Wider(a, e, daemon[a], daemon'[a])
         /\ ListOK(a, daemon'[a])
         /\ daemon'[a].services_know = daemon[a].services_know \cup {b}
         /\ b \in daemon'[a].f_all_neighbors
<1> DEFINE dm == add_neighbors(a, daemon[a], A)
           k == [dm EXCEPT !.services_know = @ \cup {b}]
           r == cluster_status(a, k, sk)
<1>0. TypeOK /\ daemon[a] \in Daemon /\ DaemonOK(a, daemon[a]) /\ ListOK(a, daemon[a])
  BY DEF ClusterInv, TypeOK, DaemonInv, ListInv
<1>1. /\ dm.services_know = daemon[a].services_know
      /\ \A e \in Computers : Wider(a, e, daemon[a], dm)
      /\ ListOK(a, dm)
      /\ A \subseteq dm.f_all_neighbors
  BY <1>0, WiderAdd
<1>2. dm \in Daemon
  BY <1>0, NeighborTypes
<1>3. dm.up
  BY <1>1 DEF Wider
<1> HIDE DEF dm
<1>4. /\ k \in Daemon
      /\ k.up = dm.up
      /\ k.services_know = dm.services_know \cup {b}
      /\ k.f_all_neighbors = dm.f_all_neighbors
      /\ k.f_all_ips = dm.f_all_ips
      /\ k.f_smaller_ips = dm.f_smaller_ips
      /\ k.f_gossip_ips = dm.f_gossip_ips
  BY <1>2 DEF Daemon
<1>5. daemon' = [daemon EXCEPT ![a] = r]
  BY DEF dm
<1> HIDE DEF k
<1>6. /\ r.up = dm.up
      /\ r.services_know = dm.services_know \cup {b}
      /\ r.f_all_neighbors = dm.f_all_neighbors
      /\ r.f_all_ips = dm.f_all_ips
      /\ r.f_smaller_ips = dm.f_smaller_ips
      /\ r.f_gossip_ips = dm.f_gossip_ips
  BY <1>4, StatusFields
<1> HIDE DEF r
<1>7. daemon'[a] = r /\ OnlyDaemon(a)
  BY <1>0, <1>5, SettingDaemon
<1>8. \A e \in Computers : Wider(a, e, daemon[a], r)
  BY <1>1, <1>6 DEF Wider
<1>9. ListOK(a, r)
  BY <1>1, <1>3, <1>6, ListSame
<1>10. QED
  BY <1>1, <1>6, <1>7, <1>8, <1>9

LEMMA ConnectParts ==
  ASSUME ClusterInv, PartsInv, RoomLeft, NEW c \in Computers, NEW d \in Computers,
         CONNECT(c, d)
  PROVE  PartsInv'
<1> DEFINE n == SocketRead(c, d)
           s == socket[n]
           t == socket'[n]
           sk == [socket EXCEPT ![n].server_name = TRUE, ![n].type = "REMOTE"]
           to == queue[c][d]
           back == queue[d][c]
<1>0. TypeOK /\ TransitInv /\ SocketInv /\ PlainInv /\ ListInv /\ PairInv
  BY DEF ClusterInv, PartsInv
<1>1. Read(c, d, "CONNECT")
  BY DEF CONNECT
<1>2. HeadOK(c, d, "CONNECT", n, s, Rest(c, d)[d][c])
  BY <1>0, <1>1, HeadRead
<1>3. n \in Sockets /\ c # d /\ c < d /\ s.from = d /\ s.to = c /\ s.server = "open"
  BY <1>2 DEF HeadOK
<1>4. ~(SameName(c, d, n) \/ TooMany(c))
  BY <1>0, <1>1, <1>3, NameIsFree DEF RoomLeft
<1>5. /\ socket' = sk
      /\ queue' = IF IsOpen(d, n) THEN Sent(Rest(c, d), c, d, n, "ACCEPT")
                  ELSE Rest(c, d)
      /\ daemon' = [daemon EXCEPT ![c] = cluster_status(c,
           [add_neighbors(c, daemon[c], Neighbors[d] \cup {d})
              EXCEPT !.services_know = @ \cup {d}], sk)]
  BY <1>4, Zenon DEF CONNECT
<1>6. AnswerStep(c, d, "CONNECT", "ACCEPT", s.client)
  BY <1>0, <1>1, <1>5, MayAnswer
<1>7. /\ OtherQueues(c, d)
      /\ Takes(queue'[d][c], back, n, "CONNECT")
      /\ Answers(queue'[c][d], to, n, "ACCEPT", s.client)
  BY <1>0, <1>3, <1>6, AnswerEffect
<1>8. /\ t.from = s.from /\ t.to = s.to /\ t.server = "open" /\ t.type = "REMOTE"
      /\ t.broken = s.broken /\ OtherSockets(n)
  BY <1>0, <1>3, <1>5 DEF TypeOK, Socket, OtherSockets
<1>9. /\ OnlyDaemon(c)
      /\ \A e \in Computers : Wider(c, e, daemon[c], daemon'[c])
      /\ ListOK(c, daemon'[c])
      /\ daemon'[c].services_know = daemon[c].services_know \cup {d}
      /\ d \in daemon'[c].f_all_neighbors
  <2>1. Neighbors[d] \cup {d} \in SUBSET Computers /\ d \in Neighbors[d] \cup {d}
    BY ClusterAssumption
  <2>2. daemon[c].up
    BY <1>1 DEF Read
  <2> HIDE DEF sk
  <2>3. QED
    BY <1>0, <1>5, <2>1, <2>2, ConnectLearns
<1>10. /\ QueuesOK(c, d, to, back, socket)
       /\ KnowsOK(c, d, daemon[c], daemon[d], socket)
       /\ TriesOK(c, d, daemon[c], daemon[d], to, back)
  BY <1>0, <1>3, PairSplit
<1>11. PlainOK(s)
  BY <1>0, <1>3 DEF PlainInv
<1>12. daemon'[d] = daemon[d]
  BY <1>3, <1>9 DEF OnlyDaemon
<1> HIDE DEF n, sk, to, back
<1>13. OtherEnds(c, d)
  <2>1. {s.from, s.to} = {c, d} /\ {t.from, t.to} = {c, d}
    BY <1>3, <1>8
  <2>2. QED
    BY <1>3, <1>8, <2>1, EndsKept
<1>14. PlainInv'
  <2>1. PlainOK(t)
    BY <1>8, <1>11 DEF PlainOK
  <2>2. QED
    BY <1>0, <1>3, <1>8, <2>1, PlainKept
<1>15. Elsewhere(c, d)
  BY <1>9 DEF Elsewhere, SameKnown
<1>16. QueuesOK(c, d, queue'[c][d], queue'[d][c], socket')
  <2>1. StillOpen(c, d, socket, socket')
    BY <1>3, <1>8 DEF StillOpen, Open, OtherSockets
  <2>2. QueuesOK(c, d, to, queue'[d][c], socket')
    BY <1>3, <1>7, <1>10, <2>1, QueuesTakes
  <2>3. QED
    BY <1>7, <2>2, QueuesAnswersTo
<1>17. KnowsOK(c, d, daemon'[c], daemon[d], socket')
  <2>1. Member(t, c, d)
    BY <1>3, <1>8 DEF Member
  <2>2. QED
    BY <1>3, <1>9, <1>10, <2>1 DEF KnowsOK
<1>18. TriesOK(c, d, daemon'[c], daemon[d], queue'[c][d], queue'[d][c])
  <2>1. TriesOK(c, d, daemon'[c], daemon[d], to, back)
    BY <1>3, <1>9, <1>10, TriesWider, WiderSame
  <2>2. TriesOK(c, d, daemon'[c], daemon[d], to, queue'[d][c])
    BY <1>7, <2>1, TriesBackTakes
  <2>3. QED
    BY <1>7, <2>2, TriesAnswers
<1>19. PairOK(c, d)'
  BY <1>12, <1>16, <1>17, <1>18 DEF PairOK
<1>20. ~(d < c)
  BY <1>3, NumberedComputers
<1>21. QED
  BY <1>3, <1>7, <1>9, <1>13, <1>14, <1>15, <1>19, <1>20, StepParts

\* the daemon of a that b accepted
LEMMA AcceptLearns ==
  ASSUME ClusterInv, ListInv, NEW a \in Computers, NEW b \in Computers,
         ACCEPT(a, b), daemon[a].f_smaller_ips[b].known
  PROVE  /\ OnlyDaemon(a)
         /\ \A e \in Computers : Wider(a, e, daemon[a], daemon'[a])
         /\ ListOK(a, daemon'[a])
         /\ daemon'[a].services_know = daemon[a].services_know \cup {b}
<1> DEFINE p == daemon[a].f_smaller_ips[b]
           pp == [p EXCEPT !.type = "REMOTE"]
           k == [daemon[a] EXCEPT !.services_know = @ \cup {b}]
           dm == [daemon[a] EXCEPT !.f_smaller_ips[b].type = "REMOTE",
                                   !.services_know = @ \cup {b}]
           r == add_neighbors(a, dm, Neighbors[b])
<1>0. /\ TypeOK /\ daemon[a] \in Daemon /\ p \in Permanent
      /\ DaemonOK(a, daemon[a]) /\ ListOK(a, daemon[a])
      /\ daemon[a].f_all_neighbors \subseteq Computers
      /\ daemon[a].up
      /\ Neighbors[b] \in SUBSET Computers
  BY DaemonFields, ClusterAssumption DEF ClusterInv, DaemonInv, ListInv, ACCEPT, Read
<1>1. /\ pp \in Permanent
      /\ pp.known = p.known /\ pp.enabled = p.enabled /\ pp.sock = p.sock
  BY <1>0 DEF Permanent
<1>2. dm = [k EXCEPT !.f_smaller_ips[b] = pp]
  BY <1>0 DEF Daemon
<1>3. /\ k \in Daemon
      /\ k.up = daemon[a].up
      /\ k.services_know = daemon[a].services_know \cup {b}
      /\ k.f_all_neighbors = daemon[a].f_all_neighbors
      /\ k.f_all_ips = daemon[a].f_all_ips
      /\ k.f_smaller_ips = daemon[a].f_smaller_ips
      /\ k.f_gossip_ips = daemon[a].f_gossip_ips
  BY <1>0 DEF Daemon
<1> HIDE DEF k, pp, dm
<1>4. /\ SmallerSet(dm, k, b, pp)
      /\ dm.services_know = k.services_know
      /\ dm.f_all_neighbors = k.f_all_neighbors
      /\ dm \in Daemon
  BY <1>1, <1>2, <1>3, SettingSmaller, SetPermanent
<1>5. \A e \in Computers :
        /\ dm.f_smaller_ips[e].known = daemon[a].f_smaller_ips[e].known
        /\ dm.f_smaller_ips[e].enabled = daemon[a].f_smaller_ips[e].enabled
        /\ dm.f_smaller_ips[e].sock = daemon[a].f_smaller_ips[e].sock
        /\ dm.f_gossip_ips[e] = daemon[a].f_gossip_ips[e]
  BY <1>1, <1>3, <1>4 DEF SmallerSet
<1>6. dm.up = daemon[a].up /\ dm.f_all_ips = daemon[a].f_all_ips
  BY <1>3, <1>4 DEF SmallerSet
<1>7. DaemonOK(a, dm)
  <2>1. ASSUME NEW e \in Computers
        PROVE  ~dm.f_smaller_ips[e].known => Unused(dm.f_smaller_ips[e])
    <3>1. CASE e = b
      BY <1>1, <1>4, <3>1 DEF SmallerSet
    <3>2. CASE e # b
      BY <1>0, <1>3, <1>4, <3>2 DEF SmallerSet, DaemonOK
    <3>3. QED
      BY <3>1, <3>2
  <2>2. QED
    BY <1>0, <1>5, <1>6, <2>1 DEF DaemonOK
<1>8. ListOK(a, dm)
  <2>1. /\ dm.up
        /\ dm.f_all_neighbors = daemon[a].f_all_neighbors
        /\ \A e \in daemon[a].f_all_neighbors :
             dm.f_smaller_ips[e].known = daemon[a].f_smaller_ips[e].known
    BY <1>0, <1>3, <1>4, <1>5, <1>6
  <2>2. QED
    BY <1>0, <1>6, <2>1, ListSame
<1>9. \A e \in Computers : Wider(a, e, daemon[a], dm)
  BY <1>3, <1>4, <1>5, <1>6 DEF Wider, Idle
<1>10. /\ r.services_know = dm.services_know
       /\ \A e \in Computers : Wider(a, e, dm, r)
       /\ ListOK(a, r)
  BY <1>0, <1>4, <1>6, <1>7, <1>8, WiderAdd
<1>11. daemon' = [daemon EXCEPT ![a] = r]
  BY Zenon DEF ACCEPT, dm
<1> HIDE DEF r
<1>12. daemon'[a] = r /\ OnlyDaemon(a)
  BY <1>0, <1>11, SettingDaemon
<1>13. \A e \in Computers : Wider(a, e, daemon[a], r)
  BY <1>9, <1>10, WiderTwice
<1>14. QED
  BY <1>3, <1>4, <1>10, <1>12, <1>13

\* d reads an answer of c on the connection that it made
LEMMA AcceptedParts ==
  ASSUME ClusterInv, PartsInv, NEW c \in Computers, NEW d \in Computers,
         ACCEPT(d, c)
  PROVE  PartsInv'
<1> DEFINE n == SocketRead(d, c)
           s == socket[n]
           to == queue[c][d]
           back == queue[d][c]
<1>0. TypeOK /\ TransitInv /\ SocketInv /\ LinkInv /\ DaemonInv
  BY DEF ClusterInv
<1>1. PlainInv /\ ListInv /\ PairInv
  BY DEF PartsInv
<1>2. /\ Read(d, c, "ACCEPT")
      /\ queue' = Rest(d, c)
      /\ socket' = socket
  BY Zenon DEF ACCEPT
<1>3. HeadOK(d, c, "ACCEPT", n, s, Rest(d, c)[c][d])
  BY <1>0, <1>2, HeadRead
<1>4. n \in Sockets /\ c # d /\ c < d /\ s.from = d /\ s.to = c /\ s.client
  BY <1>3 DEF HeadOK
<1>5. daemon[d].f_smaller_ips[c].sock # None
  BY <1>0, <1>4, NoneIsNone DEF LinkInv, Link
<1>6. daemon[d].f_smaller_ips[c].known
  BY <1>0, <1>5 DEF DaemonInv, DaemonOK, Unused
<1>7. /\ OnlyDaemon(d)
      /\ \A e \in Computers : Wider(d, e, daemon[d], daemon'[d])
      /\ ListOK(d, daemon'[d])
      /\ daemon'[d].services_know = daemon[d].services_know \cup {c}
  BY <1>1, <1>6, AcceptLearns
<1>8. OtherQueues(d, c) /\ Takes(queue'[c][d], to, n, "ACCEPT") /\ queue'[d][c] = back
  BY <1>0, <1>2, <1>4, TakeEffect
<1>9. /\ QueuesOK(c, d, to, back, socket)
      /\ KnowsOK(c, d, daemon[c], daemon[d], socket)
      /\ TriesOK(c, d, daemon[c], daemon[d], to, back)
  BY <1>1, <1>4, PairSplit
<1>10. daemon'[c] = daemon[c]
  BY <1>4, <1>7 DEF OnlyDaemon
<1> HIDE DEF n, to, back
<1>11. QueuesOK(c, d, queue'[c][d], back, socket)
  BY <1>8, <1>9, QueuesTo DEF StillOpen
<1>12. KnowsOK(c, d, daemon[c], daemon'[d], socket)
  <2>1. daemon'[d].f_smaller_ips[c].sock # None
    BY <1>5, <1>7 DEF Wider
  <2>2. QED
    BY <1>9, <2>1 DEF KnowsOK
<1>13. TriesOK(c, d, daemon[c], daemon'[d], queue'[c][d], back)
  <2>1. TriesOK(c, d, daemon[c], daemon'[d], to, back)
    BY <1>4, <1>7, <1>9, TriesWider, WiderSame
  <2>2. QED
    BY <1>8, <2>1, TriesToTakes
<1>14. PairOK(c, d)'
  BY <1>2, <1>8, <1>10, <1>11, <1>12, <1>13 DEF PairOK
<1>15. Elsewhere(d, c)
  BY <1>7 DEF Elsewhere, SameKnown
<1>16. OtherEnds(d, c) /\ PlainInv'
  BY <1>1, <1>2, EndsSame DEF PlainInv
<1>17. ~(d < c)
  BY <1>4, NumberedComputers
<1>18. QED
  BY <1>4, <1>7, <1>8, <1>14, <1>15, <1>16, <1>17, StepParts

\* REFUSE is never sent
LEMMA RefusedParts ==
  ASSUME ClusterInv, PartsInv, NEW c \in Computers, NEW d \in Computers,
         REFUSE(d, c)
  PROVE  PartsInv'
<1>0. TypeOK /\ TransitInv /\ SocketInv /\ PairInv
  BY DEF ClusterInv, PartsInv
<1>1. Read(d, c, "REFUSE")
  BY DEF REFUSE
<1>2. HeadOK(d, c, "REFUSE", SocketRead(d, c), socket[SocketRead(d, c)], Rest(d, c)[c][d])
  BY <1>0, <1>1, HeadRead
<1>3. c < d /\ SocketRead(d, c) \in Sockets
  BY <1>2 DEF HeadOK
<1>4. Has(queue[c][d], SocketRead(d, c), "REFUSE")
  BY <1>0, <1>1, ReadEvent DEF TakenFrom, IsRest
<1>5. Once(queue[c][d])
  BY <1>0, <1>3, PairSplit DEF QueuesOK
<1>6. QED
  BY <1>3, <1>4, <1>5 DEF Once

\* d is told that c stops, on the connection that d made
LEMMA LeftParts ==
  ASSUME ClusterInv, PartsInv, NEW c \in Computers, NEW d \in Computers,
         DISCONNECT(d, c), socket[SocketRead(d, c)].from = d,
         daemon[d].f_smaller_ips[c].type = "REMOTE"
  PROVE  PartsInv'
<1> DEFINE n == SocketRead(d, c)
           s == socket[n]
           t == socket'[n]
           to == queue[c][d]
           back == queue[d][c]
<1>0. TypeOK /\ TransitInv /\ SocketInv /\ LinkInv /\ DaemonInv
  BY DEF ClusterInv
<1>1. PlainInv /\ ListInv /\ PairInv
  BY DEF PartsInv
<1>2. /\ CloseStep(d, c, "DISCONNECT")
      /\ OnlyDaemon(d)
      /\ daemon'[d].up = daemon[d].up
      /\ daemon'[d].f_all_neighbors = daemon[d].f_all_neighbors
      /\ daemon'[d].f_all_ips = daemon[d].f_all_ips
      /\ daemon'[d].f_gossip_ips = daemon[d].f_gossip_ips
      /\ \A e \in Computers :
           e # c => daemon'[d].f_smaller_ips[e] = daemon[d].f_smaller_ips[e]
      /\ daemon'[d].services_know = daemon[d].services_know \ {c}
      /\ daemon'[d].f_smaller_ips[c].sock = None
      /\ daemon'[d].f_smaller_ips[c].known = daemon[d].f_smaller_ips[c].known
  BY <1>0, DisconnectEffect
<1>3. Read(d, c, "DISCONNECT") /\ EndClosed(d, s, t) /\ OtherSockets(n)
  BY <1>2 DEF CloseStep
<1>4. HeadOK(d, c, "DISCONNECT", n, s, Rest(d, c)[c][d])
  BY <1>0, <1>3, HeadRead
<1>5. n \in Sockets /\ c # d /\ s.from = d /\ s.to = c
  BY <1>4 DEF HeadOK
<1>6. c < d
  BY <1>0 DEF DaemonInv, DaemonOK, Unused
<1>7. /\ t.from = d /\ t.to = c /\ t.server = s.server /\ t.type = s.type
      /\ t.server_name = s.server_name /\ t.broken = s.broken
  BY <1>3, <1>5 DEF EndClosed
<1>8. /\ OtherQueues(d, c)
      /\ Clears(queue'[c][d], to, n, "DISCONNECT")
      /\ \E told : Answers(queue'[d][c], back, n, "FIN", told)
  <2>1. Other(d, n) = c
    BY <1>5 DEF Other
  <2>2. QED
    BY <1>0, <1>2, <1>5, <2>1, CloseEffect
<1>9. /\ QueuesOK(c, d, to, back, socket)
      /\ KnowsOK(c, d, daemon[c], daemon[d], socket)
      /\ TriesOK(c, d, daemon[c], daemon[d], to, back)
  BY <1>1, <1>6, PairSplit
<1>10. daemon[c].f_gossip_ips[d].sock # n
  BY <1>0, <1>5 DEF LinkInv, Link
<1>11. daemon'[c] = daemon[c]
  BY <1>2, <1>5 DEF OnlyDaemon
<1> HIDE DEF n, to, back
<1>12. SameOpen(c, d, socket, socket')
  <2>1. ASSUME NEW k \in Sockets
        PROVE  /\ Open(socket'[k], c, d) <=> Open(socket[k], c, d)
               /\ Member(socket'[k], c, d) <=> Member(socket[k], c, d)
    <3>1. CASE k # n
      BY <1>3, <3>1 DEF OtherSockets
    <3>2. CASE k = n
      BY <1>5, <1>7, <3>2 DEF Open, Member
    <3>3. QED
      BY <3>1, <3>2
  <2>2. QED
    BY <2>1 DEF SameOpen
<1>13. OtherEnds(d, c)
  BY <1>3, <1>5, <1>7, EndsKept
<1>14. PlainInv'
  <2>1. PlainOK(s)
    BY <1>1, <1>5 DEF PlainInv
  <2>2. PlainOK(t)
    BY <1>7, <2>1 DEF PlainOK
  <2>3. QED
    BY <1>1, <1>3, <1>5, <2>2, PlainKept
<1>15. Elsewhere(d, c)
  <2>1. \A e \in Computers : e # c => Wider(d, e, daemon[d], daemon'[d])
    BY <1>2 DEF Wider
  <2>2. QED
    BY <1>2, <2>1 DEF Elsewhere, SameKnown
<1>16. ListOK(d, daemon'[d])
  <2>1. daemon[d].up /\ ListOK(d, daemon[d]) /\ daemon[d].f_all_neighbors \subseteq Computers
    BY <1>0, <1>1, <1>3, DaemonFields DEF Read, ListInv
  <2>2. \A e \in Computers : daemon'[d].f_smaller_ips[e].known = daemon[d].f_smaller_ips[e].known
    BY <1>2
  <2>3. /\ daemon'[d].up
        /\ daemon'[d].f_all_ips = daemon[d].f_all_ips
        /\ daemon'[d].f_all_neighbors = daemon[d].f_all_neighbors
        /\ \A e \in daemon[d].f_all_neighbors :
             daemon'[d].f_smaller_ips[e].known = daemon[d].f_smaller_ips[e].known
    BY <1>2, <2>1, <2>2
  <2>4. QED
    BY <2>1, <2>3, ListSame
<1>17. QueuesOK(c, d, queue'[c][d], queue'[d][c], socket')
  <2>1. StillOpen(c, d, socket, socket')
    BY <1>12 DEF SameOpen, StillOpen
  <2>2. QueuesOK(c, d, queue'[c][d], back, socket')
    BY <1>8, <1>9, <2>1, QueuesTo
  <2>3. QED
    BY <1>8, <2>2, QueuesAnswersBack
<1>18. KnowsOK(c, d, daemon[c], daemon'[d], socket')
  BY <1>2, <1>9, <1>12 DEF KnowsOK, SameOpen
<1>19. TriesOK(c, d, daemon[c], daemon'[d], queue'[c][d], queue'[d][c])
  <2>1. Dropped(to)
    BY <1>5, <1>8, ClearsHas DEF Dropped
  <2>2. /\ d \in daemon[c].f_all_neighbors
        /\ daemon[c].up => Asks(daemon[c].f_gossip_ips[d], queue'[c][d])
    BY <1>8, <1>9, <1>10, <2>1, AsksClears DEF TriesOK
  <2>3. TriesOK(c, d, daemon[c], daemon[d], queue'[c][d], back)
    BY <1>8, <1>9, <1>10, TriesToTakes
  <2>4. TriesOK(c, d, daemon[c], daemon'[d], queue'[c][d], back)
    BY <1>2, <2>2, <2>3 DEF TriesOK
  <2>5. QED
    BY <1>8, <2>4, TriesAnswers
<1>20. PairOK(c, d)'
  BY <1>11, <1>17, <1>18, <1>19 DEF PairOK
<1>21. ~(d < c)
  BY <1>6, NumberedComputers
<1>22. QED
  BY <1>5, <1>8, <1>13, <1>14, <1>15, <1>16, <1>20, <1>21, StepParts

\* c closes its end of the socket of d that has a name: no other is open
LEMMA NoMember ==
  ASSUME SocketInv, NameInv, NEW n \in Sockets, NEW c, NEW d, OtherSockets(n),
         socket[n].from = d, socket[n].to = c, socket[n].server # "closed",
         socket[n].server_name, socket'[n].server = "closed"
  PROVE  \A m \in Sockets : ~Member(socket'[m], c, d)
<1>1. SUFFICES ASSUME NEW m \in Sockets, Member(socket'[m], c, d)
               PROVE  FALSE
  OBVIOUS
<1>2. m # n
  BY <1>1 DEF Member
<1>3. Member(socket[m], c, d)
  BY <1>1, <1>2 DEF OtherSockets
<1>4. SameNames(socket[m], socket[n])
  BY <1>3 DEF Member, SameNames, SocketInv, SocketOK
<1>5. QED
  BY <1>2, <1>4 DEF NameInv

\* c is told that d stops, on the connection that d made
LEMMA LeavingParts ==
  ASSUME ClusterInv, PartsInv, NEW c \in Computers, NEW d \in Computers,
         DISCONNECT(c, d), socket[SocketRead(c, d)].from # c,
         socket[SocketRead(c, d)].type = "REMOTE"
  PROVE  PartsInv'
<1> DEFINE n == SocketRead(c, d)
           s == socket[n]
           t == socket'[n]
           to == queue[c][d]
           back == queue[d][c]
<1>0. TypeOK /\ TransitInv /\ SocketInv /\ LinkInv /\ DaemonInv /\ NameInv
  BY DEF ClusterInv
<1>1. PlainInv /\ ListInv /\ PairInv
  BY DEF PartsInv
<1>2. /\ CloseStep(c, d, "DISCONNECT")
      /\ OnlyDaemon(c)
      /\ daemon'[c].up = daemon[c].up
      /\ daemon'[c].f_all_neighbors = daemon[c].f_all_neighbors
      /\ daemon'[c].f_all_ips = daemon[c].f_all_ips
      /\ daemon'[c].f_gossip_ips = daemon[c].f_gossip_ips
      /\ \A e \in Computers : daemon'[c].f_smaller_ips[e] = daemon[c].f_smaller_ips[e]
      /\ daemon'[c].services_know = daemon[c].services_know \ {d}
  BY <1>0, DisconnectEffect
<1>3. Read(c, d, "DISCONNECT") /\ EndClosed(c, s, t) /\ OtherSockets(n)
  BY <1>2 DEF CloseStep
<1>4. HeadOK(c, d, "DISCONNECT", n, s, Rest(c, d)[d][c])
  BY <1>0, <1>3, HeadRead
<1>5. n \in Sockets /\ c # d /\ s.from = d /\ s.to = c /\ s.server = "open"
  BY <1>4 DEF HeadOK
<1>6. c < d /\ s.server_name
  <2>1. SocketOK(n, s, queue[d][c])
    BY <1>0, <1>5 DEF SocketInv
  <2>2. QED
    BY <1>5, <2>1 DEF SocketOK
<1>7. t.from = d /\ t.to = c /\ t.server = "closed" /\ t.broken = s.broken
  BY <1>3, <1>5 DEF EndClosed
<1>8. /\ OtherQueues(c, d)
      /\ Clears(queue'[d][c], back, n, "DISCONNECT")
      /\ \E told : Answers(queue'[c][d], to, n, "FIN", told)
  <2>1. Other(c, n) = d
    BY <1>5 DEF Other
  <2>2. QED
    BY <1>0, <1>2, <1>5, <2>1, CloseEffect
<1>9. /\ QueuesOK(c, d, to, back, socket)
      /\ KnowsOK(c, d, daemon[c], daemon[d], socket)
      /\ TriesOK(c, d, daemon[c], daemon[d], to, back)
  BY <1>1, <1>6, PairSplit
<1>10. daemon[c].f_gossip_ips[d].sock # n
  BY <1>0, <1>5 DEF LinkInv, Link
<1>11. daemon'[d] = daemon[d]
  BY <1>2, <1>5 DEF OnlyDaemon
<1>12. \A m \in Sockets : ~Member(socket'[m], c, d)
  BY <1>0, <1>3, <1>5, <1>6, <1>7, NoMember
<1> HIDE DEF n, to, back
<1>13. OtherEnds(c, d)
  <2>1. {s.from, s.to} = {c, d} /\ {t.from, t.to} = {c, d}
    BY <1>5, <1>7
  <2>2. QED
    BY <1>3, <1>5, <2>1, EndsKept
<1>14. PlainInv'
  <2>1. PlainOK(s)
    BY <1>1, <1>5 DEF PlainInv
  <2>2. PlainOK(t)
    BY <1>7, <2>1 DEF PlainOK
  <2>3. QED
    BY <1>1, <1>3, <1>5, <2>2, PlainKept
<1>15. \A e \in Computers : Wider(c, e, daemon[c], daemon'[c])
  BY <1>2 DEF Wider
<1>16. Elsewhere(c, d)
  BY <1>2, <1>15 DEF Elsewhere, SameKnown
<1>17. ListOK(c, daemon'[c])
  <2>1. daemon[c].up /\ ListOK(c, daemon[c]) /\ daemon[c].f_all_neighbors \subseteq Computers
    BY <1>0, <1>1, <1>3, DaemonFields DEF Read, ListInv
  <2>2. QED
    BY <1>2, <2>1, ListSame
<1>18. QueuesOK(c, d, queue'[c][d], queue'[d][c], socket')
  <2>1. StillOpen(c, d, socket, socket') /\ ~Open(socket'[n], c, d)
    BY <1>3, <1>7 DEF OtherSockets, Open, StillOpen
  <2>2. QueuesOK(c, d, to, queue'[d][c], socket')
    BY <1>5, <1>8, <1>9, <2>1, QueuesClears
  <2>3. QED
    BY <1>8, <2>2, QueuesAnswersTo
<1>19. KnowsOK(c, d, daemon'[c], daemon[d], socket')
  BY <1>2, <1>9, <1>12 DEF KnowsOK
<1>20. TriesOK(c, d, daemon'[c], daemon[d], queue'[c][d], queue'[d][c])
  <2>1. TriesOK(c, d, daemon'[c], daemon[d], to, back)
    BY <1>6, <1>9, <1>15, TriesWider, WiderSame
  <2>2. TriesOK(c, d, daemon'[c], daemon[d], to, queue'[d][c])
    BY <1>2, <1>8, <1>10, <2>1, TriesBackTakes
  <2>3. QED
    BY <1>8, <2>2, TriesAnswers
<1>21. PairOK(c, d)'
  BY <1>11, <1>18, <1>19, <1>20 DEF PairOK
<1>22. ~(d < c)
  BY <1>6, NumberedComputers
<1>23. QED
  BY <1>5, <1>8, <1>13, <1>14, <1>16, <1>17, <1>21, <1>22, StepParts

LEMMA DisconnectParts ==
  ASSUME ClusterInv, PartsInv, NEW a \in Computers, NEW b \in Computers,
         DISCONNECT(a, b)
  PROVE  PartsInv'
<1> DEFINE type == IF socket[SocketRead(a, b)].from = a
                   THEN daemon[a].f_smaller_ips[b].type
                   ELSE socket[SocketRead(a, b)].type
<1>1. CASE type = "REMOTE"
  BY <1>1, LeftParts, LeavingParts
<1>2. CASE type # "REMOTE"
  <2>1. /\ Read(a, b, "DISCONNECT")
        /\ queue' = Rest(a, b)
        /\ daemon' = daemon
        /\ socket' = socket
    BY <1>2, Zenon DEF DISCONNECT
  <2>2. QED
    BY <2>1, IgnoredParts
<1>3. QED
  BY <1>1, <1>2

\* d reads the GOSSIP of c: it connects to c, or does already
LEMMA GossipParts ==
  ASSUME ClusterInv, PartsInv, NEW c \in Computers, NEW d \in Computers,
         GOSSIP(d, c)
  PROVE  PartsInv'
<1> DEFINE n == SocketRead(d, c)
           s == socket[n]
           to == queue[c][d]
           back == queue[d][c]
           p == daemon[c].f_gossip_ips[d]
           dm == add_neighbors(d, daemon[d], {c})
           r == add_remote_communicator(d, dm, {c})
<1>0. TypeOK /\ TransitInv /\ SocketInv /\ DaemonInv
  BY DEF ClusterInv
<1>1. PlainInv /\ ListInv /\ PairInv
  BY DEF PartsInv
<1>2. /\ Read(d, c, "GOSSIP")
      /\ daemon' = [daemon EXCEPT ![d] = r]
      /\ queue' = IF IsOpen(c, n) THEN Sent(Rest(d, c), d, c, n, "RECEIVED")
                  ELSE Rest(d, c)
      /\ socket' = socket
  BY Zenon DEF GOSSIP
<1>3. HeadOK(d, c, "GOSSIP", n, s, Rest(d, c)[c][d])
  BY <1>0, <1>2, HeadRead
<1>4. n \in Sockets /\ c # d /\ c < d
  BY <1>3 DEF HeadOK
<1>5. AnswerStep(d, c, "GOSSIP", "RECEIVED", s.client)
  BY <1>0, <1>2, MayAnswer
<1>6. /\ OtherQueues(d, c)
      /\ Takes(queue'[c][d], to, n, "GOSSIP")
      /\ Answers(queue'[d][c], back, n, "RECEIVED", s.client)
  BY <1>0, <1>4, <1>5, AnswerEffect
<1>7. /\ dm.services_know = daemon[d].services_know
      /\ \A e \in Computers : Wider(d, e, daemon[d], dm)
      /\ ListOK(d, dm)
      /\ {c} \subseteq dm.f_all_neighbors
      /\ dm \in Daemon /\ DaemonOK(d, dm) /\ dm.up
  <2>1. daemon[d] \in Daemon /\ DaemonOK(d, daemon[d]) /\ ListOK(d, daemon[d]) /\ daemon[d].up
    BY <1>0, <1>1, <1>2 DEF TypeOK, DaemonInv, ListInv, Read
  <2>2. {c} \in SUBSET Computers
    OBVIOUS
  <2>3. Grown(d, daemon[d], dm)
    BY <2>1, <2>2, GrownNeighbors
  <2>4. /\ dm.services_know = daemon[d].services_know
        /\ \A e \in Computers : Wider(d, e, daemon[d], dm)
        /\ ListOK(d, dm)
        /\ {c} \subseteq dm.f_all_neighbors
    BY <2>1, <2>2, WiderAdd
  <2> HIDE DEF dm
  <2>5. QED
    BY <2>1, <2>3, <2>4 DEF Grown
<1> HIDE DEF dm
<1>8. /\ r.services_know = dm.services_know
      /\ \A e \in Computers : Wider(d, e, dm, r)
      /\ ListOK(d, r)
      /\ ~Idle(r.f_smaller_ips[c])
      /\ c \in r.f_all_neighbors
  <2>1. c \in dm.f_all_neighbors
    BY <1>7
  <2>2. QED
    BY <1>4, <1>7, <2>1, WiderAgain
<1> HIDE DEF r
<1>9. daemon'[d] = r /\ OnlyDaemon(d)
  BY <1>0, <1>2, SettingDaemon
<1>10. \A e \in Computers : Wider(d, e, daemon[d], r)
  BY <1>7, <1>8, WiderTwice
<1>11. r.services_know = daemon[d].services_know
  BY <1>7, <1>8
<1>12. /\ QueuesOK(c, d, to, back, socket)
       /\ KnowsOK(c, d, daemon[c], daemon[d], socket)
       /\ TriesOK(c, d, daemon[c], daemon[d], to, back)
  BY <1>1, <1>4, PairSplit
<1>13. daemon'[c] = daemon[c]
  BY <1>4, <1>9 DEF OnlyDaemon
<1> HIDE DEF n, to, back, p
<1>14. QueuesOK(c, d, queue'[c][d], queue'[d][c], socket)
  <2>1. QueuesOK(c, d, queue'[c][d], back, socket)
    BY <1>6, <1>12, QueuesTo DEF StillOpen
  <2>2. QED
    BY <1>6, <2>1, QueuesAnswersBack
<1>15. KnowsOK(c, d, daemon[c], r, socket)
  <2>1. SameOpen(c, d, socket, socket)
    BY DEF SameOpen
  <2>2. QED
    BY <1>10, <1>11, <1>12, <2>1, KnowsKept, WiderSame DEF SameKnown
<1>16. ASSUME Dropped(queue'[c][d])
       PROVE  /\ d \in daemon[c].f_all_neighbors
              /\ daemon[c].up => Asks(p, queue'[c][d])
  <2>1. Dropped(to) /\ (Asks(p, to) /\ n # p.sock => Asks(p, queue'[c][d]))
    BY <1>6, <1>16, AsksTakes
  <2>2. d \in daemon[c].f_all_neighbors /\ (daemon[c].up => Asks(p, to))
    BY <1>12, <2>1 DEF TriesOK, p
  <2>3. PICK k \in Sockets : Has(queue'[c][d], k, "DISCONNECT")
    BY <1>16 DEF Dropped
  <2>4. Before(to, n, "GOSSIP", k, "DISCONNECT")
    BY <1>6, <2>3 DEF Takes, IsRest, RestOrder
  <2>5. Gossip(p, to) => n # p.sock
    BY <2>4 DEF Gossip
  <2>6. QED
    BY <2>1, <2>2, <2>5 DEF Asks
<1>17. ASSUME NEW k \in Sockets, Has(queue'[d][c], k, "RECEIVED")
       PROVE  ~Has(queue'[c][d], k, "GOSSIP")
  <2>1. CASE k = n
    BY <1>4, <1>6, <1>12, <2>1, OnceRead DEF Takes, QueuesOK
  <2>2. CASE k # n
    <3>1. Has(back, k, "RECEIVED")
      BY <1>6, <1>17, <2>2, AnswersHas
    <3>2. ~Has(to, k, "GOSSIP")
      BY <1>12, <3>1 DEF TriesOK
    <3>3. QED
      BY <1>6, <3>2, TakesHas
  <2>3. QED
    BY <2>1, <2>2
<1>18. TriesOK(c, d, daemon[c], r, queue'[c][d], queue'[d][c])
  BY <1>8, <1>16, <1>17 DEF TriesOK, p
<1>19. PairOK(c, d)'
  BY <1>2, <1>9, <1>13, <1>14, <1>15, <1>18 DEF PairOK
<1>20. Elsewhere(d, c)
  BY <1>9, <1>10, <1>11 DEF Elsewhere, SameKnown
<1>21. OtherEnds(d, c) /\ PlainInv'
  BY <1>1, <1>2, EndsSame DEF PlainInv
<1>22. ~(d < c)
  BY <1>4, NumberedComputers
<1>23. QED
  BY <1>4, <1>6, <1>8, <1>9, <1>19, <1>20, <1>21, <1>22, StepParts

\* only the end that connected is closed
LEMMA ClientCloses ==
  ASSUME NEW n \in Sockets, OtherSockets(n),
         socket'[n].from = socket[n].from, socket'[n].to = socket[n].to,
         socket'[n].server = socket[n].server, socket'[n].type = socket[n].type
  PROVE  \A x, y : SameOpen(x, y, socket, socket')
<1>1. SUFFICES ASSUME NEW x, NEW y, NEW k \in Sockets
               PROVE  /\ Open(socket'[k], x, y) <=> Open(socket[k], x, y)
                      /\ Member(socket'[k], x, y) <=> Member(socket[k], x, y)
  BY DEF SameOpen
<1>2. CASE k # n
  BY <1>2 DEF OtherSockets
<1>3. CASE k = n
  BY <1>3 DEF Open, Member
<1>4. QED
  BY <1>2, <1>3

\* d knows of c
LEMMA ReceivedParts ==
  ASSUME ClusterInv, PartsInv, NEW c \in Computers, NEW d \in Computers,
         RECEIVED(c, d)
  PROVE  PartsInv'
<1> DEFINE n == SocketRead(c, d)
           s == socket[n]
           t == socket'[n]
           to == queue[c][d]
           back == queue[d][c]
           p == daemon[c].f_gossip_ips[d]
           r == [daemon[c] EXCEPT !.f_gossip_ips[d] = NoPermanent]
<1>0. TypeOK /\ TransitInv /\ SocketInv /\ LinkInv
  BY DEF ClusterInv
<1>1. PlainInv /\ ListInv /\ PairInv
  BY DEF PartsInv
<1>2. /\ Read(c, d, "RECEIVED")
      /\ daemon' = [daemon EXCEPT ![c].f_gossip_ips[d] = NoPermanent]
      /\ CloseStep(c, d, "RECEIVED")
  BY <1>0, CloseStepFrom DEF RECEIVED
<1>3. HeadOK(c, d, "RECEIVED", n, s, Rest(c, d)[d][c])
  BY <1>0, <1>2, HeadRead
<1>4. n \in Sockets /\ c # d /\ c < d /\ s.from = c /\ s.to = d /\ s.client
  BY <1>3 DEF HeadOK
<1>5. p.sock = n
  BY <1>0, <1>4 DEF LinkInv, Link
<1>6. EndClosed(c, s, t) /\ OtherSockets(n)
  BY <1>2 DEF CloseStep
<1>7. /\ t.from = c /\ t.to = d /\ t.server = s.server /\ t.type = s.type
      /\ t.server_name = s.server_name /\ t.broken = s.broken
  BY <1>4, <1>6 DEF EndClosed
<1>8. /\ OtherQueues(c, d)
      /\ Clears(queue'[d][c], back, n, "RECEIVED")
      /\ \E told : Answers(queue'[c][d], to, n, "FIN", told)
  <2>1. Other(c, n) = d
    BY <1>4 DEF Other
  <2>2. QED
    BY <1>0, <1>2, <1>4, <2>1, CloseEffect
<1>9. daemon' = [daemon EXCEPT ![c] = r]
  BY <1>2
<1>10. /\ GossipSet(r, daemon[c], d, NoPermanent)
       /\ r.services_know = daemon[c].services_know
       /\ r.f_all_neighbors = daemon[c].f_all_neighbors
  <2>1. r = [daemon[c] EXCEPT !.f_gossip_ips[d] = NoPermanent] /\ daemon[c] \in Daemon
    BY <1>0, DaemonFields
  <2> HIDE DEF r
  <2>2. QED
    BY <2>1, SettingGossip
<1>11. /\ QueuesOK(c, d, to, back, socket)
       /\ KnowsOK(c, d, daemon[c], daemon[d], socket)
       /\ TriesOK(c, d, daemon[c], daemon[d], to, back)
  BY <1>1, <1>4, PairSplit
<1> HIDE DEF n, to, back, r
<1>12. daemon'[c] = r /\ OnlyDaemon(c) /\ daemon'[d] = daemon[d]
  BY <1>0, <1>4, <1>9, SettingDaemon DEF OnlyDaemon
<1>13. \A x, y : SameOpen(x, y, socket, socket')
  BY <1>4, <1>6, <1>7, ClientCloses
<1>14. PlainInv'
  <2>1. PlainOK(s)
    BY <1>1, <1>4 DEF PlainInv
  <2>2. PlainOK(t)
    BY <1>7, <2>1 DEF PlainOK
  <2>3. QED
    BY <1>1, <1>4, <1>6, <2>2, PlainKept
<1>15. Elsewhere(c, d)
  <2>1. \A e \in Computers : e # d => Wider(c, e, daemon[c], r)
    BY <1>10 DEF GossipSet, Wider
  <2>2. QED
    BY <1>10, <1>12, <2>1 DEF Elsewhere, SameKnown
<1>16. ListOK(c, r)
  <2>1. daemon[c].up /\ ListOK(c, daemon[c])
    BY <1>1, <1>2 DEF Read, ListInv
  <2>2. QED
    BY <1>10, <2>1, ListSame DEF GossipSet
<1>17. QueuesOK(c, d, queue'[c][d], queue'[d][c], socket')
  <2>1. StillOpen(c, d, socket, socket') /\ ~Open(socket'[n], c, d)
    BY <1>4, <1>7, <1>13 DEF SameOpen, StillOpen, Open
  <2>2. QueuesOK(c, d, to, queue'[d][c], socket')
    BY <1>4, <1>8, <1>11, <2>1, QueuesClears
  <2>3. QED
    BY <1>8, <2>2, QueuesAnswersTo
<1>18. KnowsOK(c, d, r, daemon[d], socket')
  BY <1>10, <1>11, <1>13 DEF KnowsOK, SameOpen
<1>19. TriesOK(c, d, r, daemon[d], queue'[c][d], queue'[d][c])
  <2>1. c \in daemon[d].f_all_neighbors /\ ~Has(to, n, "GOSSIP")
    BY <1>4, <1>8, <1>11, ClearsHas DEF TriesOK
  <2>2. ~Asks(p, to)
    <3>1. p.sock # None
      BY <1>4, <1>5, NoneIsNone
    <3>2. QED
      BY <1>5, <2>1, <3>1 DEF Asks, Gossip, Trying
  <2>3. ~Dropped(to) /\ ~Idle(daemon[d].f_smaller_ips[c])
    BY <1>2, <1>11, <2>2 DEF TriesOK, Read
  <2>4. ~Dropped(queue'[c][d])
    BY <1>8, <2>3, AsksAnswers
  <2>5. \A k \in Sockets : Has(queue'[d][c], k, "RECEIVED") => ~Has(queue'[c][d], k, "GOSSIP")
    BY <1>8, <1>11, ClearsHas, AnswersHas DEF TriesOK
  <2>6. QED
    BY <2>1, <2>3, <2>4, <2>5 DEF TriesOK
<1>20. PairOK(c, d)'
  BY <1>12, <1>17, <1>18, <1>19 DEF PairOK
<1>21. ~(d < c)
  BY <1>4, NumberedComputers
<1>22. OtherEnds(c, d)
  BY <1>13 DEF OtherEnds
<1>23. QED
  BY <1>4, <1>8, <1>12, <1>14, <1>15, <1>16, <1>20, <1>21, <1>22, StepParts

-----------------------------------------------------------------------------
(***************************************************************************)
(* The other end is closed.                                                *)
(***************************************************************************)
HupOurs(a, b, s) ==
  /\ s.from = a /\ s.to = b /\ s.client
  /\ daemon' = [daemon EXCEPT ![a] = HungUp(a, b)]

HupTheirs(a, b, s) ==
  /\ s.from = b /\ s.to = a /\ s.server # "closed"
  /\ daemon' = [daemon EXCEPT ![a] =
       IF s.server_name THEN [daemon[a] EXCEPT !.services_know = @ \ {b}] ELSE @]

LEMMA HupEffect ==
  ASSUME ClusterInv, PlainInv, NEW a \in Computers, NEW b \in Computers,
         process_hup(a, b)
  PROVE  /\ SocketRead(a, b) \in Sockets
         /\ a # b
         /\ daemon[a].up
         /\ OtherQueues(a, b)
         /\ Takes(queue'[b][a], queue[b][a], SocketRead(a, b), "FIN")
         /\ queue'[a][b] = queue[a][b]
         /\ EndClosed(a, socket[SocketRead(a, b)], socket'[SocketRead(a, b)])
         /\ OtherSockets(SocketRead(a, b))
         /\ OtherEnds(a, b)
         /\ PlainInv'
         /\ \/ HupOurs(a, b, socket[SocketRead(a, b)])
            \/ HupTheirs(a, b, socket[SocketRead(a, b)])
<1> DEFINE n == SocketRead(a, b)
           s == socket[n]
           t == socket'[n]
<1>0. TypeOK /\ TransitInv /\ SocketInv
  BY DEF ClusterInv
<1>1. /\ Read(a, b, "FIN")
      /\ Lost(a, b, n, TRUE)
      /\ socket' = CloseEnd(a, socket, n)
      /\ queue' = Rest(a, b)
  BY DEF process_hup
<1>2. HeadOK(a, b, "FIN", n, s, Rest(a, b)[b][a])
  BY <1>0, <1>1, HeadRead
<1>3. /\ n \in Sockets /\ a # b
      /\ \/ s.from = b /\ s.to = a /\ s.server # "closed"
         \/ s.from = a /\ s.to = b /\ s.client
  BY <1>2 DEF HeadOK
<1>4. /\ OtherQueues(a, b)
      /\ Takes(queue'[b][a], queue[b][a], n, "FIN")
      /\ queue'[a][b] = queue[a][b]
  BY <1>0, <1>1, <1>3, TakeEffect
<1>5. EndClosed(a, s, t) /\ OtherSockets(n)
  <2>1. socket \in [Sockets -> Socket]
    BY <1>0 DEF TypeOK
  <2> HIDE DEF n
  <2>2. QED
    BY <1>1, <1>3, <2>1, EndCloses DEF OtherSockets
<1>6. daemon[a].up
  BY <1>1 DEF Read
<1>7. HupOurs(a, b, s) \/ HupTheirs(a, b, s)
  BY <1>1, <1>3 DEF Lost, HupOurs, HupTheirs
<1> HIDE DEF n
<1>8. OtherEnds(a, b)
  <2>1. {s.from, s.to} = {a, b} /\ {t.from, t.to} = {a, b}
    BY <1>3, <1>5 DEF EndClosed
  <2>2. QED
    BY <1>3, <1>5, <2>1, EndsKept
<1>9. PlainInv'
  <2>1. PlainOK(s)
    BY <1>3 DEF PlainInv
  <2>2. PlainOK(t)
    BY <1>3, <1>5, <2>1 DEF PlainOK, EndClosed
  <2>3. QED
    BY <1>3, <1>5, <2>2, PlainKept
<1>10. QED
  BY <1>3, <1>4, <1>5, <1>6, <1>7, <1>8, <1>9 DEF n

LEMMA RetriedFields ==
  ASSUME NEW p \in Permanent
  PROVE  /\ Retried(p).sock = None /\ Retried(p).enabled /\ Retried(p).known = p.known
         /\ Retried(p).f_connected = p.f_connected
BY DEF Retried, Permanent

\* d lost the connection that it made to c: it tries again
LEMMA HupSmaller ==
  ASSUME ClusterInv, PartsInv, NEW c \in Computers, NEW d \in Computers,
         process_hup(d, c), HupOurs(d, c, socket[SocketRead(d, c)]), c < d
  PROVE  PartsInv'
<1> DEFINE n == SocketRead(d, c)
           s == socket[n]
           t == socket'[n]
           to == queue[c][d]
           back == queue[d][c]
           p == daemon[d].f_smaller_ips[c]
           r == [daemon[d] EXCEPT !.f_smaller_ips[c] = Retried(p)]
<1>0. TypeOK /\ PlainInv /\ ListInv /\ PairInv
  BY DEF ClusterInv, PartsInv
<1>1. /\ n \in Sockets
      /\ c # d
      /\ daemon[d].up
      /\ OtherQueues(d, c)
      /\ Takes(queue'[c][d], to, n, "FIN")
      /\ queue'[d][c] = back
      /\ EndClosed(d, s, t)
      /\ OtherSockets(n)
      /\ OtherEnds(d, c)
      /\ PlainInv'
  BY <1>0, HupEffect
<1>2. s.from = d /\ daemon' = [daemon EXCEPT ![d] = HungUp(d, c)]
  BY DEF HupOurs
<1>3. daemon' = [daemon EXCEPT ![d] = r]
  BY <1>2 DEF HungUp
<1>4. /\ SmallerSet(r, daemon[d], c, Retried(p))
      /\ r.services_know = daemon[d].services_know
      /\ r.f_all_neighbors = daemon[d].f_all_neighbors
  <2>1. r = [daemon[d] EXCEPT !.f_smaller_ips[c] = Retried(p)] /\ daemon[d] \in Daemon
    BY <1>0, DaemonFields
  <2> HIDE DEF r, p
  <2>2. QED
    BY <2>1, SettingSmaller
<1>5. Retried(p).sock = None /\ Retried(p).enabled /\ Retried(p).known = p.known
  BY <1>0, DaemonFields, RetriedFields
<1>6. /\ QueuesOK(c, d, to, back, socket)
      /\ KnowsOK(c, d, daemon[c], daemon[d], socket)
      /\ TriesOK(c, d, daemon[c], daemon[d], to, back)
  BY <1>0, PairSplit
<1>7. SameOpen(c, d, socket, socket')
  BY <1>1, <1>2, ClientCloses DEF EndClosed
<1> HIDE DEF n, to, back, r
<1>8. daemon'[d] = r /\ OnlyDaemon(d) /\ daemon'[c] = daemon[c]
  BY <1>0, <1>1, <1>3, SettingDaemon DEF OnlyDaemon
<1>9. Elsewhere(d, c)
  <2>1. \A e \in Computers : e # c => Wider(d, e, daemon[d], r)
    BY <1>4 DEF SmallerSet, Wider
  <2>2. QED
    BY <1>4, <1>8, <2>1 DEF Elsewhere, SameKnown
<1>10. ListOK(d, r)
  <2>1. ListOK(d, daemon[d]) /\ daemon[d].f_all_neighbors \subseteq Computers
    BY <1>0, DaemonFields DEF ListInv
  <2>2. \A e \in Computers : r.f_smaller_ips[e].known = daemon[d].f_smaller_ips[e].known
    BY <1>4, <1>5 DEF SmallerSet
  <2>3. /\ r.up
        /\ r.f_all_ips = daemon[d].f_all_ips
        /\ \A e \in daemon[d].f_all_neighbors :
             r.f_smaller_ips[e].known = daemon[d].f_smaller_ips[e].known
    BY <1>1, <1>4, <2>1, <2>2 DEF SmallerSet
  <2>4. QED
    BY <1>1, <1>4, <2>1, <2>3, ListSame
<1>11. QueuesOK(c, d, queue'[c][d], back, socket')
  <2>1. StillOpen(c, d, socket, socket')
    BY <1>7 DEF SameOpen, StillOpen
  <2>2. QED
    BY <1>1, <1>6, <2>1, QueuesTo
<1>12. KnowsOK(c, d, daemon[c], r, socket')
  BY <1>4, <1>5, <1>6, <1>7 DEF KnowsOK, SameOpen, SmallerSet
<1>13. TriesOK(c, d, daemon[c], r, queue'[c][d], back)
  <2>1. TriesOK(c, d, daemon[c], daemon[d], queue'[c][d], back)
    BY <1>1, <1>6, TriesToTakes
  <2>2. ~Idle(r.f_smaller_ips[c])
    BY <1>4, <1>5 DEF SmallerSet, Idle
  <2>3. QED
    BY <1>4, <2>1, <2>2 DEF TriesOK
<1>14. PairOK(c, d)'
  BY <1>1, <1>8, <1>11, <1>12, <1>13 DEF PairOK
<1>15. ~(d < c)
  BY NumberedComputers
<1>16. QED
  BY <1>1, <1>8, <1>9, <1>10, <1>14, <1>15, StepParts

\* c lost the connection on which it told d of itself: it tries again
LEMMA HupGossip ==
  ASSUME ClusterInv, PartsInv, NEW c \in Computers, NEW d \in Computers,
         process_hup(c, d), HupOurs(c, d, socket[SocketRead(c, d)]), c < d
  PROVE  PartsInv'
<1> DEFINE n == SocketRead(c, d)
           s == socket[n]
           t == socket'[n]
           to == queue[c][d]
           back == queue[d][c]
           p == daemon[c].f_gossip_ips[d]
           r == [daemon[c] EXCEPT !.f_gossip_ips[d] = Retried(p)]
<1>0. TypeOK /\ PlainInv /\ ListInv /\ PairInv
  BY DEF ClusterInv, PartsInv
<1>1. /\ n \in Sockets
      /\ c # d
      /\ daemon[c].up
      /\ OtherQueues(c, d)
      /\ Takes(queue'[d][c], back, n, "FIN")
      /\ queue'[c][d] = to
      /\ EndClosed(c, s, t)
      /\ OtherSockets(n)
      /\ OtherEnds(c, d)
      /\ PlainInv'
  BY <1>0, HupEffect
<1>2. s.from = c /\ s.to = d /\ daemon' = [daemon EXCEPT ![c] = HungUp(c, d)] /\ ~(d < c)
  BY NumberedComputers DEF HupOurs
<1>3. daemon' = [daemon EXCEPT ![c] = r]
  BY <1>2 DEF HungUp
<1>4. /\ GossipSet(r, daemon[c], d, Retried(p))
      /\ r.services_know = daemon[c].services_know
      /\ r.f_all_neighbors = daemon[c].f_all_neighbors
  <2>1. r = [daemon[c] EXCEPT !.f_gossip_ips[d] = Retried(p)] /\ daemon[c] \in Daemon
    BY <1>0, DaemonFields
  <2> HIDE DEF r, p
  <2>2. QED
    BY <2>1, SettingGossip
<1>5. Trying(Retried(p))
  BY <1>0, DaemonFields, RetriedFields DEF Trying
<1>6. /\ QueuesOK(c, d, to, back, socket)
      /\ KnowsOK(c, d, daemon[c], daemon[d], socket)
      /\ TriesOK(c, d, daemon[c], daemon[d], to, back)
  BY <1>0, PairSplit
<1>7. SameOpen(c, d, socket, socket')
  BY <1>1, <1>2, ClientCloses DEF EndClosed
<1>8. ~Open(t, c, d)
  BY <1>1, <1>2 DEF Open, EndClosed
<1> HIDE DEF n, to, back, r
<1>9. daemon'[c] = r /\ OnlyDaemon(c) /\ daemon'[d] = daemon[d]
  BY <1>0, <1>1, <1>3, SettingDaemon DEF OnlyDaemon
<1>10. Elsewhere(c, d)
  <2>1. \A e \in Computers : e # d => Wider(c, e, daemon[c], r)
    BY <1>4 DEF GossipSet, Wider
  <2>2. QED
    BY <1>4, <1>9, <2>1 DEF Elsewhere, SameKnown
<1>11. ListOK(c, r)
  <2>1. ListOK(c, daemon[c])
    BY <1>0 DEF ListInv
  <2>2. QED
    BY <1>1, <1>4, <2>1, ListSame DEF GossipSet
<1>12. QueuesOK(c, d, to, queue'[d][c], socket')
  <2>1. StillOpen(c, d, socket, socket')
    BY <1>7 DEF SameOpen, StillOpen
  <2>2. QED
    BY <1>1, <1>6, <1>8, <2>1, QueuesTakes
<1>13. KnowsOK(c, d, r, daemon[d], socket')
  BY <1>4, <1>6, <1>7 DEF KnowsOK, SameOpen
<1>14. TriesOK(c, d, r, daemon[d], to, queue'[d][c])
  <2>1. Trying(r.f_gossip_ips[d])
    BY <1>4, <1>5 DEF GossipSet
  <2>2. \A k \in Sockets : Has(queue'[d][c], k, "RECEIVED") => Has(back, k, "RECEIVED")
    BY <1>1, TakesHas
  <2>3. QED
    BY <1>4, <1>6, <2>1, <2>2 DEF TriesOK, Asks, Tells
<1>15. PairOK(c, d)'
  BY <1>1, <1>9, <1>12, <1>13, <1>14 DEF PairOK
<1>16. QED
  BY <1>1, <1>2, <1>9, <1>10, <1>11, <1>15, StepParts

\* c lost a connection that d made
LEMMA HupAccepted ==
  ASSUME ClusterInv, PartsInv, NEW c \in Computers, NEW d \in Computers,
         process_hup(c, d), HupTheirs(c, d, socket[SocketRead(c, d)]), c < d
  PROVE  PartsInv'
<1> DEFINE n == SocketRead(c, d)
           s == socket[n]
           t == socket'[n]
           to == queue[c][d]
           back == queue[d][c]
           k == [daemon[c] EXCEPT !.services_know = @ \ {d}]
           r == IF s.server_name THEN k ELSE daemon[c]
<1>0. TypeOK /\ PlainInv /\ ListInv /\ PairInv /\ SocketInv /\ NameInv /\ LinkInv
  BY DEF ClusterInv, PartsInv
<1>1. /\ n \in Sockets
      /\ c # d
      /\ daemon[c].up
      /\ OtherQueues(c, d)
      /\ Takes(queue'[d][c], back, n, "FIN")
      /\ queue'[c][d] = to
      /\ EndClosed(c, s, t)
      /\ OtherSockets(n)
      /\ OtherEnds(c, d)
      /\ PlainInv'
  BY <1>0, HupEffect
<1>2. s.from = d /\ s.to = c /\ s.server # "closed"
  BY DEF HupTheirs
<1>3. daemon' = [daemon EXCEPT ![c] = r]
  BY DEF HupTheirs
<1>4. /\ r.up = daemon[c].up
      /\ r.f_all_neighbors = daemon[c].f_all_neighbors
      /\ r.f_all_ips = daemon[c].f_all_ips
      /\ r.f_smaller_ips = daemon[c].f_smaller_ips
      /\ r.f_gossip_ips = daemon[c].f_gossip_ips
      /\ r.services_know = IF s.server_name THEN daemon[c].services_know \ {d}
                           ELSE daemon[c].services_know
  <2>1. /\ k.up = daemon[c].up
        /\ k.f_all_neighbors = daemon[c].f_all_neighbors
        /\ k.f_all_ips = daemon[c].f_all_ips
        /\ k.f_smaller_ips = daemon[c].f_smaller_ips
        /\ k.f_gossip_ips = daemon[c].f_gossip_ips
        /\ k.services_know = daemon[c].services_know \ {d}
    BY <1>0, DaemonFields DEF Daemon
  <2> HIDE DEF k
  <2>2. QED
    BY <2>1
<1>5. /\ QueuesOK(c, d, to, back, socket)
      /\ KnowsOK(c, d, daemon[c], daemon[d], socket)
      /\ TriesOK(c, d, daemon[c], daemon[d], to, back)
  BY <1>0, PairSplit
<1>6. daemon[c].f_gossip_ips[d].sock # n
  BY <1>0, <1>1, <1>2 DEF LinkInv, Link
<1>7. t.server = "closed"
  BY <1>1, <1>2 DEF EndClosed
<1>8. SocketOK(n, s, back)
  BY <1>0, <1>1, <1>2 DEF SocketInv
<1>9. s.server_name => \A m \in Sockets : ~Member(socket'[m], c, d)
  BY <1>0, <1>1, <1>2, <1>7, NoMember
<1> HIDE DEF n, to, back, r
<1>10. daemon'[c] = r /\ OnlyDaemon(c) /\ daemon'[d] = daemon[d]
  BY <1>0, <1>1, <1>3, SettingDaemon DEF OnlyDaemon
<1>11. \A e \in Computers : Wider(c, e, daemon[c], r)
  BY <1>4 DEF Wider
<1>12. Elsewhere(c, d)
  BY <1>4, <1>10, <1>11 DEF Elsewhere, SameKnown
<1>13. ListOK(c, r)
  <2>1. ListOK(c, daemon[c])
    BY <1>0 DEF ListInv
  <2>2. QED
    BY <1>1, <1>4, <2>1, ListSame
<1>14. QueuesOK(c, d, to, queue'[d][c], socket')
  <2>1. StillOpen(c, d, socket, socket') /\ ~Open(t, c, d)
    BY <1>1, <1>7 DEF OtherSockets, Open, StillOpen
  <2>2. QED
    BY <1>1, <1>5, <2>1, QueuesTakes
<1>15. KnowsOK(c, d, r, daemon[d], socket')
  <2>1. CASE s.server_name
    BY <1>4, <1>5, <1>9, <2>1 DEF KnowsOK
  <2>2. CASE ~s.server_name
    <3>1. ~Member(s, c, d) /\ ~Member(t, c, d)
      BY <1>7, <1>8, <2>2 DEF Member, SocketOK
    <3>2. \A m \in Sockets : Member(socket'[m], c, d) <=> Member(socket[m], c, d)
      BY <1>1, <3>1 DEF OtherSockets
    <3>3. QED
      BY <1>4, <1>5, <2>2, <3>2 DEF KnowsOK
  <2>3. QED
    BY <2>1, <2>2
<1>16. TriesOK(c, d, r, daemon[d], to, queue'[d][c])
  <2>1. TriesOK(c, d, r, daemon[d], to, back)
    BY <1>5, <1>11, TriesWider, WiderSame
  <2>2. QED
    BY <1>1, <1>4, <1>6, <2>1, TriesBackTakes
<1>17. PairOK(c, d)'
  BY <1>1, <1>10, <1>14, <1>15, <1>16 DEF PairOK
<1>18. ~(d < c)
  BY NumberedComputers
<1>19. QED
  BY <1>1, <1>10, <1>12, <1>13, <1>17, <1>18, StepParts

\* d lost a connection on which c told it of itself
LEMMA HupUnnamed ==
  ASSUME ClusterInv, PartsInv, NEW c \in Computers, NEW d \in Computers,
         process_hup(d, c), HupTheirs(d, c, socket[SocketRead(d, c)]), c < d
  PROVE  PartsInv'
<1> DEFINE n == SocketRead(d, c)
           s == socket[n]
           t == socket'[n]
           to == queue[c][d]
           back == queue[d][c]
<1>0. TypeOK /\ PlainInv /\ ListInv /\ PairInv /\ SocketInv
  BY DEF ClusterInv, PartsInv
<1>1. /\ n \in Sockets
      /\ c # d
      /\ OtherQueues(d, c)
      /\ Takes(queue'[c][d], to, n, "FIN")
      /\ queue'[d][c] = back
      /\ EndClosed(d, s, t)
      /\ OtherSockets(n)
      /\ OtherEnds(d, c)
      /\ PlainInv'
  BY <1>0, HupEffect
<1>2. s.from = c /\ s.to = d /\ s.server # "closed"
  BY DEF HupTheirs
<1>3. ~(d < c)
  BY NumberedComputers
<1>4. ~s.server_name
  <2>1. SocketOK(n, s, to)
    BY <1>0, <1>1, <1>2 DEF SocketInv
  <2>2. QED
    BY <1>2, <1>3, <2>1 DEF SocketOK
<1>5. daemon' = daemon
  BY <1>0, <1>4 DEF HupTheirs, TypeOK
<1>6. /\ QueuesOK(c, d, to, back, socket)
      /\ KnowsOK(c, d, daemon[c], daemon[d], socket)
      /\ TriesOK(c, d, daemon[c], daemon[d], to, back)
  BY <1>0, PairSplit
<1> HIDE DEF n, to, back
<1>7. SameOpen(c, d, socket, socket')
  <2>1. t.from = c
    BY <1>1, <1>2 DEF EndClosed
  <2>2. QED
    BY <1>1, <1>2, <2>1 DEF SameOpen, Open, Member, OtherSockets
<1>8. QueuesOK(c, d, queue'[c][d], back, socket')
  <2>1. StillOpen(c, d, socket, socket')
    BY <1>7 DEF SameOpen, StillOpen
  <2>2. QED
    BY <1>1, <1>6, <2>1, QueuesTo
<1>9. KnowsOK(c, d, daemon[c], daemon[d], socket')
  BY <1>6, <1>7, KnowsKept, WiderSame DEF SameKnown
<1>10. TriesOK(c, d, daemon[c], daemon[d], queue'[c][d], back)
  BY <1>1, <1>6, TriesToTakes
<1>11. PairOK(c, d)'
  BY <1>1, <1>5, <1>8, <1>9, <1>10 DEF PairOK
<1>12. Elsewhere(d, c) /\ ListOK(d, daemon'[d])
  BY <1>0, <1>5, NothingElsewhere DEF ListInv
<1>13. QED
  BY <1>1, <1>3, <1>11, <1>12, StepParts

LEMMA HupParts ==
  ASSUME ClusterInv, PartsInv, NEW a \in Computers, NEW b \in Computers,
         process_hup(a, b)
  PROVE  PartsInv'
<1>1. /\ a # b
      /\ \/ HupOurs(a, b, socket[SocketRead(a, b)])
         \/ HupTheirs(a, b, socket[SocketRead(a, b)])
  BY HupEffect DEF PartsInv
<1>2. a < b \/ b < a
  BY <1>1, NumberedComputers
<1>3. QED
  BY <1>1, <1>2, HupSmaller, HupGossip, HupAccepted, HupUnnamed

-----------------------------------------------------------------------------
(***************************************************************************)
(* The timer of a permanent connection.                                    *)
(***************************************************************************)
LEMMA OpeningHas ==
  ASSUME NEW a, NEW b, NEW n, NEW first, Opening(a, b, n, first)
  PROVE  \A x, y : Has(queue'[a][b], x, y) <=>
           Has(queue[a][b], x, y) \/ (x = n /\ y \in {"SYN", first})
<1>1. PICK q : IsSent(q, queue[a][b], n, "SYN") /\ IsSent(queue'[a][b], q, n, first)
  BY DEF Opening
<1>2. /\ \A x, y : Has(q, x, y) <=> Has(queue[a][b], x, y) \/ (x = n /\ y = "SYN")
      /\ \A x, y : Has(queue'[a][b], x, y) <=> Has(q, x, y) \/ (x = n /\ y = first)
  BY <1>1 DEF IsSent
<1>3. QED
  BY <1>2

\* the sockets and the queues when a connects to b, on socket n
LEMMA OpeningParts ==
  ASSUME ClusterInv, PlainInv, NEW a \in Computers, NEW b \in Computers, a # b,
         NEW p, NEW n \in Sockets, NEW first \in {"CONNECT", "GOSSIP"},
         Connect(a, b, p, n, first)
  PROVE  /\ OtherQueues(a, b)
         /\ queue'[b][a] = queue[b][a]
         /\ Opening(a, b, n, first)
         /\ \A x, y : ~Has(queue[a][b], n, y) /\ ~Has(queue[b][a], n, y)
         /\ OtherEnds(a, b)
         /\ PlainInv'
         /\ OtherSockets(n)
         /\ socket[n].server = "closed"
         /\ socket'[n].from = a /\ socket'[n].to = b /\ socket'[n].type = "DOWN"
<1>0. TypeOK /\ TransitInv /\ first \in Message
  BY DEF ClusterInv, Message
<1>1. Opening(a, b, n, first)
  BY <1>0, ConnectOpens
<1>2. /\ OtherSockets(n)
      /\ Free(n)
      /\ socket'[n].from = a /\ socket'[n].to = b
      /\ socket'[n].server = "backlog" /\ socket'[n].type = "DOWN"
      /\ ~socket'[n].server_name /\ ~socket'[n].broken
  BY <1>0, NewSocketFields
<1>3. \A y : ~Has(queue[a][b], n, y) /\ ~Has(queue[b][a], n, y)
  BY <1>0, <1>2, FreeIsQuiet, HasOn
<1>4. OtherQueues(a, b) /\ queue'[b][a] = queue[b][a]
  BY <1>1 DEF Opening, OtherQueues
<1>5. socket[n].server = "closed"
  BY <1>2 DEF Free
<1>6. OtherEnds(a, b)
  BY <1>2, <1>5, EndsKept
<1>7. PlainInv'
  <2>1. PlainOK(socket'[n])
    BY <1>2 DEF PlainOK
  <2>2. QED
    BY <1>2, <2>1, PlainKept
<1>8. QED
  BY <1>1, <1>2, <1>3, <1>4, <1>5, <1>6, <1>7

\* d connects to c: what is left of its last connection ends before CONNECT
LEMMA ConnectedQueues ==
  ASSUME ClusterInv, PlainInv, NEW c \in Computers, NEW d \in Computers, c < d,
         NEW n \in Sockets, Opening(d, c, n, "CONNECT"), OtherSockets(n),
         daemon[d].f_smaller_ips[c].sock = None,
         \A y : ~Has(queue[d][c], n, y),
         QueuesOK(c, d, queue[c][d], queue[d][c], socket)
  PROVE  QueuesOK(c, d, queue[c][d], queue'[d][c], socket')
<1> DEFINE back == queue[d][c]
           r == queue'[d][c]
<1>0. LinkInv /\ ExchangeInv
  BY DEF ClusterInv
<1>1. PICK q : IsSent(q, back, n, "SYN") /\ IsSent(r, q, n, "CONNECT")
  BY DEF Opening
<1> HIDE DEF back, r
<1>2. SentOrder(q, back, n, "SYN") /\ SentOrder(r, q, n, "CONNECT")
  BY <1>1 DEF IsSent
<1>3. /\ \A x, y : Has(q, x, y) <=> Has(back, x, y) \/ (x = n /\ y = "SYN")
      /\ \A x, y : Has(r, x, y) <=> Has(q, x, y) \/ (x = n /\ y = "CONNECT")
  BY <1>1 DEF IsSent
<1>4. \A x, y, u, v : Before(back, x, y, u, v) => Before(r, x, y, u, v)
  BY <1>2 DEF SentOrder
<1>5. Once(r)
  <2>1. Once(back)
    BY DEF QueuesOK, back
  <2>2. Once(q)
    BY <1>1, <2>1, OnceSent
  <2>3. ~Has(q, n, "CONNECT")
    BY <1>3 DEF back
  <2>4. QED
    BY <1>1, <2>2, <2>3, OnceSent
<1>6. ASSUME NEW m \in Sockets, NEW k \in Sockets, m # k, Open(socket'[m], c, d),
             Has(r, k, "CONNECT")
      PROVE  Before(r, m, "FIN", k, "CONNECT") \/ Before(r, k, "CONNECT", m, "SYN")
  <2>1. CASE k = n
    <3>1. Open(socket[m], c, d)
      BY <1>6, <2>1 DEF OtherSockets
    <3>2. ~socket[m].client
      <4>1. socket[m].client => daemon[d].f_smaller_ips[c].sock = m
        BY <1>0, <3>1 DEF LinkInv, Link, Open
      <4>2. QED
        BY <4>1, NoneIsNone
    <3>3. ~socket[m].broken
      BY DEF PlainInv, PlainOK
    <3>4. Has(back, m, "FIN")
      BY <1>0, <3>1, <3>2, <3>3 DEF ExchangeInv, Exchange, Open, back
    <3>5. Has(q, m, "FIN")
      BY <1>3, <3>4
    <3>6. QED
      BY <1>2, <2>1, <3>5 DEF SentOrder
  <2>2. CASE k # n /\ m = n
    <3>1. Has(back, k, "CONNECT")
      BY <1>3, <1>6, <2>2
    <3>2. Before(q, k, "CONNECT", n, "SYN")
      BY <1>2, <3>1 DEF SentOrder
    <3>3. QED
      BY <1>2, <2>2, <3>2 DEF SentOrder
  <2>3. CASE k # n /\ m # n
    <3>1. Has(back, k, "CONNECT") /\ Open(socket[m], c, d)
      BY <1>3, <1>6, <2>3 DEF OtherSockets
    <3>2. Alone(back, m, k)
      BY <1>6, <3>1 DEF QueuesOK, back
    <3>3. QED
      BY <1>4, <3>1, <3>2 DEF Alone
  <2>4. QED
    BY <2>1, <2>2, <2>3
<1>7. Once(queue[c][d])
  BY DEF QueuesOK
<1>8. QED
  BY <1>5, <1>6, <1>7 DEF QueuesOK, Alone, r

LEMMA ConnectedParts ==
  ASSUME ClusterInv, PartsInv, NEW c \in Computers, NEW d \in Computers,
         process_connected(d, c)
  PROVE  PartsInv'
<1> DEFINE p == daemon[d].f_smaller_ips[c]
           to == queue[c][d]
           back == queue[d][c]
<1>0. TypeOK /\ DaemonInv /\ PlainInv /\ ListInv /\ PairInv
  BY DEF ClusterInv, PartsInv
<1>1. PICK n \in Sockets :
        /\ Connect(d, c, p, n, "CONNECT")
        /\ daemon' = [daemon EXCEPT ![d].f_smaller_ips[c] = Connected(@, n)]
  BY DEF process_connected
<1> DEFINE g == Connected(p, n)
           r == [daemon[d] EXCEPT !.f_smaller_ips[c] = g]
<1>2. daemon' = [daemon EXCEPT ![d] = r]
  BY <1>1
<1>3. daemon[d] \in Daemon /\ p \in Permanent /\ DaemonOK(d, daemon[d])
  BY <1>0, DaemonFields DEF DaemonInv
<1>4. g.sock = n /\ g.known = p.known
  BY <1>3 DEF Connected, Permanent
<1>5. p.known /\ p.sock = None /\ daemon[d].up
  BY <1>1 DEF Connect
<1>6. c < d /\ ~(d < c) /\ c # d
  BY <1>3, <1>5, NumberedComputers DEF DaemonOK
<1> HIDE DEF g
<1>7. /\ SmallerSet(r, daemon[d], c, g)
      /\ r.services_know = daemon[d].services_know
      /\ r.f_all_neighbors = daemon[d].f_all_neighbors
  <2>1. r = [daemon[d] EXCEPT !.f_smaller_ips[c] = g]
    OBVIOUS
  <2> HIDE DEF r
  <2>2. QED
    BY <1>3, <2>1, SettingSmaller
<1> HIDE DEF r
<1>8. daemon'[d] = r /\ OnlyDaemon(d) /\ daemon'[c] = daemon[c]
  BY <1>0, <1>2, <1>6, SettingDaemon DEF OnlyDaemon
<1>9. /\ OtherQueues(d, c)
      /\ queue'[c][d] = to
      /\ Opening(d, c, n, "CONNECT")
      /\ \A x, y : ~Has(back, n, y)
      /\ OtherEnds(d, c)
      /\ PlainInv'
      /\ OtherSockets(n)
      /\ socket[n].server = "closed"
      /\ socket'[n].type = "DOWN"
  BY <1>0, <1>1, <1>6, OpeningParts
<1>10. /\ QueuesOK(c, d, to, back, socket)
       /\ KnowsOK(c, d, daemon[c], daemon[d], socket)
       /\ TriesOK(c, d, daemon[c], daemon[d], to, back)
  BY <1>0, <1>6, PairSplit
<1>11. QueuesOK(c, d, to, queue'[d][c], socket')
  BY <1>0, <1>5, <1>6, <1>9, <1>10, ConnectedQueues
<1>12. \A x, y : Has(queue'[d][c], x, y) <=>
         Has(back, x, y) \/ (x = n /\ y \in {"SYN", "CONNECT"})
  BY <1>9, OpeningHas
<1> HIDE DEF to, back
<1>13. r.f_smaller_ips[c].sock # None
  BY <1>4, <1>7, NoneIsNone DEF SmallerSet
<1>14. KnowsOK(c, d, daemon[c], r, socket')
  <2>1. \A m \in Sockets : Member(socket'[m], c, d) <=> Member(socket[m], c, d)
    BY <1>9 DEF OtherSockets, Member
  <2>2. QED
    BY <1>10, <1>13, <2>1 DEF KnowsOK
<1>15. TriesOK(c, d, daemon[c], r, to, queue'[d][c])
  <2>1. TriesOK(c, d, daemon[c], daemon[d], to, queue'[d][c])
    BY <1>10, <1>12, TriesBack
  <2>2. ~Idle(r.f_smaller_ips[c])
    BY <1>13 DEF Idle
  <2>3. QED
    BY <1>7, <2>1, <2>2 DEF TriesOK
<1>16. PairOK(c, d)'
  BY <1>8, <1>9, <1>11, <1>14, <1>15 DEF PairOK
<1>17. Elsewhere(d, c)
  <2>1. \A e \in Computers : e # c => Wider(d, e, daemon[d], r)
    BY <1>7 DEF SmallerSet, Wider
  <2>2. QED
    BY <1>7, <1>8, <2>1 DEF Elsewhere, SameKnown
<1>18. ListOK(d, r)
  <2>1. ListOK(d, daemon[d]) /\ daemon[d].f_all_neighbors \subseteq Computers
    BY <1>0, DaemonFields DEF ListInv
  <2>2. \A e \in Computers : r.f_smaller_ips[e].known = daemon[d].f_smaller_ips[e].known
    BY <1>4, <1>7 DEF SmallerSet
  <2>3. /\ r.up
        /\ r.f_all_ips = daemon[d].f_all_ips
        /\ \A e \in daemon[d].f_all_neighbors :
             r.f_smaller_ips[e].known = daemon[d].f_smaller_ips[e].known
    BY <1>5, <1>7, <2>1, <2>2 DEF SmallerSet
  <2>4. QED
    BY <1>5, <1>7, <2>1, <2>3, ListSame
<1>19. QED
  BY <1>6, <1>8, <1>9, <1>16, <1>17, <1>18, StepParts

LEMMA GossipedParts ==
  ASSUME ClusterInv, PartsInv, NEW c \in Computers, NEW d \in Computers,
         gossip_connected(c, d)
  PROVE  PartsInv'
<1> DEFINE p == daemon[c].f_gossip_ips[d]
           to == queue[c][d]
           back == queue[d][c]
<1>0. TypeOK /\ DaemonInv /\ PlainInv /\ ListInv /\ PairInv
  BY DEF ClusterInv, PartsInv
<1>1. PICK n \in Sockets :
        /\ Connect(c, d, p, n, "GOSSIP")
        /\ daemon' = [daemon EXCEPT ![c].f_gossip_ips[d] = Connected(@, n)]
  BY DEF gossip_connected
<1> DEFINE g == Connected(p, n)
           r == [daemon[c] EXCEPT !.f_gossip_ips[d] = g]
<1>2. daemon' = [daemon EXCEPT ![c] = r]
  BY <1>1
<1>3. daemon[c] \in Daemon /\ p \in Permanent /\ DaemonOK(c, daemon[c])
  BY <1>0, DaemonFields DEF DaemonInv
<1>4. g.sock = n
  BY <1>3 DEF Connected, Permanent
<1>5. p.known /\ daemon[c].up
  BY <1>1 DEF Connect
<1>6. c < d /\ ~(d < c) /\ c # d
  BY <1>3, <1>5, NumberedComputers DEF DaemonOK
<1> HIDE DEF g
<1>7. /\ GossipSet(r, daemon[c], d, g)
      /\ r.services_know = daemon[c].services_know
      /\ r.f_all_neighbors = daemon[c].f_all_neighbors
  <2>1. r = [daemon[c] EXCEPT !.f_gossip_ips[d] = g]
    OBVIOUS
  <2> HIDE DEF r
  <2>2. QED
    BY <1>3, <2>1, SettingGossip
<1> HIDE DEF r
<1>8. daemon'[c] = r /\ OnlyDaemon(c) /\ daemon'[d] = daemon[d]
  BY <1>0, <1>2, <1>6, SettingDaemon DEF OnlyDaemon
<1>9. /\ OtherQueues(c, d)
      /\ queue'[d][c] = back
      /\ Opening(c, d, n, "GOSSIP")
      /\ \A x, y : ~Has(to, n, y) /\ ~Has(back, n, y)
      /\ OtherEnds(c, d)
      /\ PlainInv'
      /\ OtherSockets(n)
      /\ socket[n].server = "closed"
      /\ socket'[n].from = c
  BY <1>0, <1>1, <1>6, OpeningParts
<1>10. /\ QueuesOK(c, d, to, back, socket)
       /\ KnowsOK(c, d, daemon[c], daemon[d], socket)
       /\ TriesOK(c, d, daemon[c], daemon[d], to, back)
  BY <1>0, <1>6, PairSplit
<1>11. \A x, y : Has(queue'[c][d], x, y) <=>
         Has(to, x, y) \/ (x = n /\ y \in {"SYN", "GOSSIP"})
  BY <1>9, OpeningHas
<1>12. PICK q : IsSent(q, to, n, "SYN") /\ IsSent(queue'[c][d], q, n, "GOSSIP")
  BY <1>9 DEF Opening
<1> HIDE DEF to, back
<1>13. SameOpen(c, d, socket, socket')
  BY <1>6, <1>9 DEF SameOpen, Open, Member, OtherSockets
<1>14. QueuesOK(c, d, queue'[c][d], back, socket')
  <2>1. Once(to)
    BY <1>10 DEF QueuesOK
  <2>2. Once(q)
    BY <1>12, <2>1, OnceSent
  <2>3. ~Has(q, n, "GOSSIP")
    BY <1>9, <1>12 DEF IsSent
  <2>4. Once(queue'[c][d])
    BY <1>12, <2>2, <2>3, OnceSent
  <2>5. QED
    BY <1>10, <1>13, <2>4 DEF QueuesOK, SameOpen
<1>15. KnowsOK(c, d, r, daemon[d], socket')
  BY <1>7, <1>10, <1>13 DEF KnowsOK, SameOpen, GossipSet
<1>16. TriesOK(c, d, r, daemon[d], queue'[c][d], back)
  <2>1. n # None /\ Has(queue'[c][d], n, "GOSSIP")
    BY <1>11, NoneIsNone
  <2>2. \A k \in Sockets : ~Before(queue'[c][d], n, "GOSSIP", k, "DISCONNECT")
    <3>1. ASSUME NEW k \in Sockets, Before(queue'[c][d], n, "GOSSIP", k, "DISCONNECT")
          PROVE  FALSE
      <4>1. SentOrder(q, to, n, "SYN") /\ SentOrder(queue'[c][d], q, n, "GOSSIP")
        BY <1>12 DEF IsSent
      <4>2. Before(q, n, "GOSSIP", k, "DISCONNECT")
        BY <3>1, <4>1 DEF SentOrder
      <4>3. Before(to, n, "GOSSIP", k, "DISCONNECT")
        BY <4>1, <4>2 DEF SentOrder
      <4>4. QED
        BY <1>9, <4>3, BeforeHas
    <3>2. QED
      BY <3>1
  <2>3. r.f_gossip_ips[d].sock = n
    BY <1>4, <1>7 DEF GossipSet
  <2>4. /\ Asks(r.f_gossip_ips[d], queue'[c][d])
        /\ Tells(r.f_gossip_ips[d], queue'[c][d], back)
    BY <2>1, <2>2, <2>3 DEF Asks, Gossip, Tells
  <2>5. Dropped(queue'[c][d]) => Dropped(to)
    BY <1>11 DEF Dropped
  <2>6. \A k \in Sockets : Has(back, k, "RECEIVED") =>
          c \in daemon[d].f_all_neighbors /\ ~Has(queue'[c][d], k, "GOSSIP")
    BY <1>9, <1>10, <1>11 DEF TriesOK
  <2>7. QED
    BY <1>7, <1>10, <2>4, <2>5, <2>6 DEF TriesOK
<1>17. PairOK(c, d)'
  BY <1>8, <1>9, <1>14, <1>15, <1>16 DEF PairOK
<1>18. Elsewhere(c, d)
  <2>1. \A e \in Computers : e # d => Wider(c, e, daemon[c], r)
    BY <1>7 DEF GossipSet, Wider
  <2>2. QED
    BY <1>7, <1>8, <2>1 DEF Elsewhere, SameKnown
<1>19. ListOK(c, r)
  <2>1. ListOK(c, daemon[c])
    BY <1>0 DEF ListInv
  <2>2. QED
    BY <1>5, <1>7, <2>1, ListSame DEF GossipSet
<1>20. QED
  BY <1>6, <1>8, <1>9, <1>17, <1>18, <1>19, StepParts

\* d could not connect to c: its services no longer know c, and it tries again
LEMMA FailedParts ==
  ASSUME ClusterInv, PartsInv, NEW c \in Computers, NEW d \in Computers,
         process_connection_failed(d, c)
  PROVE  PartsInv'
<1> DEFINE p == daemon[d].f_smaller_ips[c]
           g == [p EXCEPT !.f_connected = FALSE]
<1>0. TypeOK /\ DaemonInv /\ PlainInv /\ ListInv /\ PairInv
  BY DEF ClusterInv, PartsInv
<1>1. /\ daemon[d].up
      /\ p.enabled
      /\ queue' = queue
      /\ socket' = socket
  BY DEF process_connection_failed
<1>a. PICK name \in SentFrom[d][c] :
        daemon' = [daemon EXCEPT ![d] =
          [daemon[d] EXCEPT !.f_smaller_ips[c].f_connected = FALSE,
                            !.services_know = @ \ {name}]]
  BY DEF process_connection_failed
<1>b. OwnNames => name = c
  BY DEF OwnNames
<1> DEFINE k == daemon[d].services_know \ {name}
           r == [daemon[d] EXCEPT !.f_smaller_ips[c] = g, !.services_know = k]
<1>2. daemon' = [daemon EXCEPT ![d] = r]
  BY <1>a
<1>3. daemon[d] \in Daemon /\ p \in Permanent /\ DaemonOK(d, daemon[d])
  BY <1>0, DaemonFields DEF DaemonInv
<1>4. g.sock = p.sock /\ g.known = p.known /\ g.enabled = p.enabled
  BY <1>3 DEF Permanent
<1>5. c < d /\ ~(d < c) /\ c # d
  BY <1>1, <1>3, NumberedComputers DEF DaemonOK, Unused
<1> HIDE DEF g, k
<1>6. /\ SmallerSet(r, daemon[d], c, g)
      /\ r.services_know = k
      /\ r.f_all_neighbors = daemon[d].f_all_neighbors
  BY <1>3 DEF SmallerSet, Daemon
<1> HIDE DEF r
<1>7. daemon'[d] = r /\ OnlyDaemon(d) /\ daemon'[c] = daemon[c]
  BY <1>0, <1>2, <1>5, SettingDaemon DEF OnlyDaemon
<1>8. \A e \in Computers :
        /\ r.f_smaller_ips[e].known = daemon[d].f_smaller_ips[e].known
        /\ r.f_smaller_ips[e].sock = daemon[d].f_smaller_ips[e].sock
        /\ r.f_smaller_ips[e].enabled = daemon[d].f_smaller_ips[e].enabled
  BY <1>4, <1>6 DEF SmallerSet
<1>9. \A e \in Computers : Wider(d, e, daemon[d], r)
  BY <1>6, <1>8 DEF SmallerSet, Wider, Idle
<1>10. Elsewhere(d, c)
  BY <1>b, <1>6, <1>7, <1>9 DEF Elsewhere, k, SameKnown
<1>11. ListOK(d, r)
  <2>1. ListOK(d, daemon[d]) /\ daemon[d].f_all_neighbors \subseteq Computers
    BY <1>0, DaemonFields DEF ListInv
  <2>2. /\ r.up
        /\ r.f_all_ips = daemon[d].f_all_ips
        /\ \A e \in daemon[d].f_all_neighbors :
             r.f_smaller_ips[e].known = daemon[d].f_smaller_ips[e].known
    BY <1>1, <1>6, <1>8, <2>1 DEF SmallerSet
  <2>3. QED
    BY <1>1, <1>6, <2>1, <2>2, ListSame
<1>12. /\ QueuesOK(c, d, queue[c][d], queue[d][c], socket)
       /\ KnowsOK(c, d, daemon[c], daemon[d], socket)
       /\ TriesOK(c, d, daemon[c], daemon[d], queue[c][d], queue[d][c])
  BY <1>0, <1>5, PairSplit
<1>13. KnowsOK(c, d, daemon[c], r, socket)
  <2>1. SameOpen(c, d, socket, socket)
    BY DEF SameOpen
  <2>2. QED
    BY <1>b, <1>6, <1>9, <1>12, <2>1, KnowsKept, WiderSame DEF k, SameKnown
<1>14. TriesOK(c, d, daemon[c], r, queue[c][d], queue[d][c])
  BY <1>5, <1>9, <1>12, TriesWider, WiderSame
<1>15. PairOK(c, d)'
  BY <1>1, <1>7, <1>12, <1>13, <1>14 DEF PairOK
<1>16. OtherEnds(d, c) /\ PlainInv' /\ OtherQueues(d, c)
  BY <1>0, <1>1, EndsSame DEF PlainInv, OtherQueues
<1>17. QED
  BY <1>5, <1>7, <1>10, <1>11, <1>15, <1>16, StepParts

-----------------------------------------------------------------------------
\* a is started: it connects to each smaller address it has heard of, and
\* tells each larger one that it exists
LEMMA StartEffect ==
  ASSUME ClusterInv, NEW a \in Computers, Start(a)
  PROVE  LET r == daemon'[a]
         IN  /\ ~daemon[a].up
             /\ OnlyDaemon(a)
             /\ r.up
             /\ r.services_know = {}
             /\ daemon[a].f_all_neighbors \subseteq r.f_all_neighbors
             /\ r.f_all_ips = r.f_all_neighbors \ {a}
             /\ \A d \in Computers :
                  /\ d \in r.f_all_neighbors /\ d < a => r.f_smaller_ips[d].known
                  /\ d \in r.f_all_neighbors /\ a < d => Trying(r.f_gossip_ips[d])
                  /\ ~Idle(r.f_smaller_ips[d])
             /\ r.f_all_neighbors \subseteq Computers
             /\ queue' = queue
             /\ socket' = socket
<1> DEFINE all == daemon[a].f_all_neighbors \cup {a} \cup Neighbors[a]
           small(d) == IF d \in all /\ d < a THEN NewPermanent ELSE NoPermanent
           large(d) == IF d \in all /\ d > a THEN NewPermanent ELSE NoPermanent
           dm == [ up |-> TRUE, f_all_neighbors |-> all, f_all_ips |-> all \ {a},
                   f_smaller_ips |-> [d \in Computers |-> small(d)],
                   f_gossip_ips |-> [d \in Computers |-> large(d)],
                   f_cluster_status |-> "unset", services_know |-> {} ]
           r == cluster_status(a, dm, socket)
<1>0. TypeOK
  BY DEF ClusterInv
<1>1. /\ ~daemon[a].up
      /\ daemon' = [daemon EXCEPT ![a] = r]
      /\ queue' = queue
      /\ socket' = socket
  BY Zenon DEF Start, Started
<1>2. all \in SUBSET Computers
  BY <1>0, DaemonFields, ClusterAssumption
<1>3. dm \in Daemon
  <2>1. \A d \in Computers : small(d) \in Permanent /\ large(d) \in Permanent
    BY PermanentTypes
  <2> HIDE DEF all, small, large
  <2>2. QED
    BY <1>2, <2>1 DEF Daemon
<1>4. /\ dm.up
      /\ dm.services_know = {}
      /\ dm.f_all_neighbors = all
      /\ dm.f_all_ips = all \ {a}
      /\ \A d \in Computers : dm.f_smaller_ips[d] = small(d) /\ dm.f_gossip_ips[d] = large(d)
  <2> HIDE DEF all, small, large
  <2>1. QED
    OBVIOUS
<1> HIDE DEF dm
<1>5. /\ r.up = dm.up
      /\ r.services_know = dm.services_know
      /\ r.f_all_neighbors = dm.f_all_neighbors
      /\ r.f_all_ips = dm.f_all_ips
      /\ r.f_smaller_ips = dm.f_smaller_ips
      /\ r.f_gossip_ips = dm.f_gossip_ips
  BY <1>3, StatusFields
<1> HIDE DEF r
<1>6. daemon'[a] = r /\ OnlyDaemon(a)
  BY <1>0, <1>1, SettingDaemon
<1>7. ASSUME NEW d \in Computers
      PROVE  /\ d \in all /\ d < a => small(d).known
             /\ d \in all /\ a < d => Trying(large(d))
             /\ ~Idle(small(d))
  <2>1. a < d <=> d > a
    BY NumberedComputers
  <2>2. QED
    BY <2>1, PermanentTypes DEF Trying, Idle
<1>8. daemon[a].f_all_neighbors \subseteq all
  OBVIOUS
<1> HIDE DEF all, small, large
<1>9. ASSUME NEW d \in Computers
      PROVE  /\ d \in r.f_all_neighbors /\ d < a => r.f_smaller_ips[d].known
             /\ d \in r.f_all_neighbors /\ a < d => Trying(r.f_gossip_ips[d])
             /\ ~Idle(r.f_smaller_ips[d])
  BY <1>4, <1>5, <1>7
<1>10. QED
  BY <1>1, <1>2, <1>4, <1>5, <1>6, <1>8, <1>9

LEMMA StartParts ==
  ASSUME ClusterInv, PartsInv, NEW a \in Computers, Start(a)
  PROVE  PartsInv'
<1> DEFINE r == daemon'[a]
<1>0. PlainInv /\ ListInv /\ PairInv
  BY DEF PartsInv
<1>1. /\ ~daemon[a].up
      /\ OnlyDaemon(a)
      /\ r.up
      /\ r.services_know = {}
      /\ daemon[a].f_all_neighbors \subseteq r.f_all_neighbors
      /\ r.f_all_ips = r.f_all_neighbors \ {a}
      /\ r.f_all_neighbors \subseteq Computers
      /\ queue' = queue
      /\ socket' = socket
  BY StartEffect
<1>2. \A d \in Computers :
        /\ d \in r.f_all_neighbors /\ d < a => r.f_smaller_ips[d].known
        /\ d \in r.f_all_neighbors /\ a < d => Trying(r.f_gossip_ips[d])
        /\ ~Idle(r.f_smaller_ips[d])
  BY StartEffect
<1> HIDE DEF r
<1>3. daemon[a].services_know = {}
  BY <1>0, <1>1 DEF ListInv, ListOK
<1>4. ListOK(a, r)
  BY <1>1, <1>2 DEF ListOK
<1>5. ListInv'
  <2>1. ASSUME NEW c \in Computers
        PROVE  ListOK(c, daemon'[c])
    BY <1>0, <1>1, <1>4 DEF ListInv, OnlyDaemon, r
  <2>2. QED
    BY <2>1 DEF ListInv
<1>6. ASSUME NEW c \in Computers, NEW d \in Computers, c < d
      PROVE  PairOK(c, d)'
  <2> DEFINE to == queue[c][d]
             back == queue[d][c]
             dc == daemon[c]
             dd == daemon[d]
  <2>1. c # d
    BY <1>6, NumberedComputers
  <2>2. /\ QueuesOK(c, d, to, back, socket)
        /\ KnowsOK(c, d, dc, dd, socket)
        /\ TriesOK(c, d, dc, dd, to, back)
    BY <1>0, <1>6, PairSplit
  <2>3. CASE c = a
    <3>1. daemon'[c] = r /\ daemon'[d] = dd
      BY <1>1, <2>1, <2>3 DEF OnlyDaemon, r
    <3> HIDE DEF to, back, dd
    <3>2. d \in daemon[a].f_all_neighbors => d \in r.f_all_neighbors
      BY <1>1
    <3>3. d \in r.f_all_neighbors => Trying(r.f_gossip_ips[d])
      BY <1>2, <1>6, <2>3
    <3>4. KnowsOK(c, d, r, dd, socket)
      BY <1>1, <1>3, <2>2, <2>3 DEF KnowsOK
    <3>5. TriesOK(c, d, r, dd, to, back)
      BY <2>2, <2>3, <3>2, <3>3 DEF TriesOK, Asks, Tells
    <3>6. QED
      BY <1>1, <2>2, <3>1, <3>4, <3>5 DEF PairOK, to, back
  <2>4. CASE d = a
    <3>1. daemon'[c] = dc /\ daemon'[d] = r
      BY <1>1, <2>1, <2>4 DEF OnlyDaemon, r
    <3> HIDE DEF to, back, dc
    <3>2. c \in daemon[a].f_all_neighbors => c \in r.f_all_neighbors
      BY <1>1
    <3>3. ~Idle(r.f_smaller_ips[c])
      BY <1>2
    <3>4. KnowsOK(c, d, dc, r, socket)
      BY <1>1, <2>2 DEF KnowsOK
    <3>5. TriesOK(c, d, dc, r, to, back)
      BY <2>2, <2>4, <3>2, <3>3 DEF TriesOK
    <3>6. QED
      BY <1>1, <2>2, <3>1, <3>4, <3>5 DEF PairOK, to, back
  <2>5. CASE c # a /\ d # a
    <3>1. daemon'[c] = dc /\ daemon'[d] = dd
      BY <1>1, <2>5 DEF OnlyDaemon
    <3>2. QED
      BY <1>1, <2>2, <3>1 DEF PairOK
  <2>6. QED
    BY <2>3, <2>4, <2>5
<1>7. PairInv'
  BY <1>6 DEF PairInv
<1>8. PlainInv'
  BY <1>0, <1>1 DEF PlainInv
<1>9. QED
  BY <1>5, <1>7, <1>8 DEF PartsInv

-----------------------------------------------------------------------------
(***************************************************************************)
(* A daemon is gone.                                                       *)
(***************************************************************************)
LEMMA GoneFields ==
  ASSUME TypeOK, NEW a \in Computers, NEW last, Gone(a, last)
  PROVE  /\ ~daemon'[a].up
         /\ daemon'[a].services_know = {}
         /\ daemon'[a].f_all_neighbors = daemon[a].f_all_neighbors
<1>1. daemon' = [daemon EXCEPT ![a] = GoneDaemon(a)]
  BY GoneEffect
<1>2. daemon'[a] = GoneDaemon(a)
  BY <1>1, SettingDaemon
<1>3. daemon[a] \in Daemon
  BY DEF TypeOK
<1>4. QED
  BY <1>2, <1>3 DEF GoneDaemon, Daemon

\* the sockets from d to c are those it had, and c has none if it is gone
LEMMA GoneOpens ==
  ASSUME TypeOK, SocketInv, NEW a \in Computers, GoneStep(a),
         NEW c \in Computers, NEW d \in Computers, c # d
  PROVE  /\ StillOpen(c, d, socket, socket')
         /\ c = a => \A x \in Sockets : ~Open(socket'[x], c, d)
         /\ c # a => SameOpen(c, d, socket, socket')
<1>1. ASSUME NEW x \in Sockets
      PROVE  /\ Open(socket'[x], c, d) => Open(socket[x], c, d)
             /\ c = a => ~Open(socket'[x], c, d)
             /\ c # a => /\ Open(socket'[x], c, d) <=> Open(socket[x], c, d)
                         /\ Member(socket'[x], c, d) <=> Member(socket[x], c, d)
  <2>1. CASE x \notin Mine(a)
    <3>1. socket'[x] = socket[x]
      BY <2>1 DEF GoneStep
    <3>2. socket[x].from # a /\ socket[x].to = a => socket[x].server = "closed"
      BY <2>1, MineEnds
    <3>3. QED
      BY <3>1, <3>2 DEF Open
  <2>2. CASE x \in Mine(a)
    <3>1. EndClosed(a, socket[x], socket'[x])
      BY <2>2 DEF GoneStep
    <3>2. socket[x].from # a => socket[x].to = a
      BY <2>2, MineEnds
    <3>3. CASE socket[x].from = a
      BY <3>1, <3>3 DEF EndClosed, Open, Member
    <3>4. CASE socket[x].from # a
      BY <3>1, <3>2, <3>4 DEF EndClosed, Open, Member
    <3>5. QED
      BY <3>3, <3>4
  <2>3. QED
    BY <2>1, <2>2
<1>2. QED
  BY <1>1 DEF StillOpen, SameOpen

\* c is gone: d has heard of its end, or finds out
LEMMA GoneSmaller ==
  ASSUME ClusterInv, PairInv, NEW c \in Computers, NEW d \in Computers, c < d,
         GoneStep(c), ~daemon'[c].up, daemon'[c].services_know = {},
         daemon'[c].f_all_neighbors = daemon[c].f_all_neighbors
  PROVE  PairOK(c, d)'
<1> DEFINE to == queue[c][d]
           back == queue[d][c]
           dc == daemon[c]
           dd == daemon[d]
           rc == daemon'[c]
           r == queue'[c][d]
<1>0. TypeOK /\ SocketInv /\ c # d
  BY NumberedComputers DEF ClusterInv
<1>1. /\ QueuesOK(c, d, to, back, socket)
      /\ KnowsOK(c, d, dc, dd, socket)
      /\ TriesOK(c, d, dc, dd, to, back)
  BY PairSplit
<1>2. /\ daemon'[d] = dd
      /\ queue'[d][c] = <<>>
      /\ Ending(r, to, Told(c, d))
      /\ Farewell(c, d)
  BY <1>0 DEF GoneStep, OnlyDaemon
<1>3. \A x \in Sockets : ~Open(socket'[x], c, d) /\ ~Member(socket'[x], c, d)
  BY <1>0, GoneOpens DEF Open, Member
<1>4. \A x, m : ~Has(<<>>, x, m)
  BY NoEvents
<1>5. QueuesOK(c, d, r, <<>>, socket')
  <2>1. Once(r)
    BY <1>1, <1>2, OnceEnding DEF QueuesOK
  <2>2. QED
    BY <1>3, <2>1, OnceNone DEF QueuesOK
<1>6. KnowsOK(c, d, rc, dd, socket')
  BY <1>1, <1>3 DEF KnowsOK
<1>7. Dropped(r) => d \in rc.f_all_neighbors
  <2>1. Dropped(r) => Dropped(to) \/ \E n \in Sockets : Member(socket[n], c, d)
    BY <1>2 DEF Farewell, Dropped
  <2>2. (\E n \in Sockets : Member(socket[n], c, d)) => d \in dc.f_all_neighbors
    BY <1>1 DEF KnowsOK
  <2>3. Dropped(to) => d \in dc.f_all_neighbors
    BY <1>1 DEF TriesOK
  <2>4. QED
    BY <2>1, <2>2, <2>3
<1>8. TriesOK(c, d, rc, dd, r, <<>>)
  BY <1>1, <1>4, <1>7 DEF TriesOK
<1>9. QED
  BY <1>2, <1>5, <1>6, <1>8 DEF PairOK

\* d is gone: c, which was telling d that it exists, finds out
LEMMA GoneLarger ==
  ASSUME ClusterInv, PairInv, NEW c \in Computers, NEW d \in Computers, c < d,
         GoneStep(d), ~daemon'[d].up, daemon'[d].services_know = {},
         daemon'[d].f_all_neighbors = daemon[d].f_all_neighbors
  PROVE  PairOK(c, d)'
<1> DEFINE to == queue[c][d]
           back == queue[d][c]
           dc == daemon[c]
           dd == daemon[d]
           rd == daemon'[d]
           r == queue'[d][c]
           p == dc.f_gossip_ips[d]
<1>0. TypeOK /\ TransitInv /\ SocketInv /\ LinkInv /\ c # d
  BY NumberedComputers DEF ClusterInv
<1>1. /\ QueuesOK(c, d, to, back, socket)
      /\ KnowsOK(c, d, dc, dd, socket)
      /\ TriesOK(c, d, dc, dd, to, back)
  BY PairSplit
<1>2. /\ daemon'[c] = dc
      /\ rd.f_smaller_ips[c] = NoPermanent
      /\ queue'[c][d] = <<>>
      /\ Ending(r, back, Told(d, c))
  BY <1>0 DEF GoneStep, OnlyDaemon
<1>3. StillOpen(c, d, socket, socket') /\ SameOpen(c, d, socket, socket')
  BY <1>0, GoneOpens
<1>4. \A x, m : ~Has(<<>>, x, m)
  BY NoEvents
<1>5. QueuesOK(c, d, <<>>, r, socket')
  <2>1. Once(r)
    BY <1>1, <1>2, OnceEnding DEF QueuesOK
  <2>2. ASSUME NEW x \in Sockets, NEW y \in Sockets, x # y, Open(socket'[x], c, d)
        PROVE  Alone(r, x, y)
    <3>1. Alone(back, x, y)
      BY <1>1, <1>3, <2>2 DEF QueuesOK, StillOpen
    <3>2. QED
      BY <1>2, <3>1, AloneEnding
  <2>3. QED
    BY <2>1, <2>2, OnceNone DEF QueuesOK
<1>6. KnowsOK(c, d, dc, rd, socket')
  BY <1>1, <1>3 DEF KnowsOK, SameOpen
<1>7. ~Dropped(<<>>) /\ ~Idle(rd.f_smaller_ips[c])
  BY <1>2, <1>4, PermanentTypes DEF Dropped, Idle
<1>8. Tells(p, to, back) => Tells(p, <<>>, r)
  <2>1. ASSUME p.sock # None, Has(to, p.sock, "GOSSIP")
        PROVE  Has(r, p.sock, "FIN")
    <3> DEFINE k == p.sock
    <3>1. k \in Sockets
      BY <1>0, <2>1, DaemonFields, PermanentFields
    <3> HIDE DEF k
    <3>2. socket[k].from = c /\ socket[k].to = d /\ socket[k].client
      BY <1>0, <3>1 DEF LinkInv, Link, k
    <3>3. Transit(c, d, k, to, socket[k])
      BY <1>0, <3>1 DEF TransitInv
    <3>4. On(to, k)
      BY <2>1, HasOn DEF k
    <3>5. socket[k].server # "closed" /\ ~socket[k].broken
      BY <1>0, <3>2, <3>3, <3>4 DEF Transit
    <3>6. k \in Mine(d)
      BY <1>0, <3>1, <3>2, <3>5 DEF Mine, IsOpen
    <3>7. k \in Told(d, c)
      BY <1>0, <3>1, <3>2, <3>5, <3>6, MineEnds
    <3>8. QED
      BY <1>2, <3>7 DEF Ending, k
  <2>2. Has(back, p.sock, "FIN") => Has(r, p.sock, "FIN")
    BY <1>2 DEF Ending
  <2>3. QED
    BY <2>1, <2>2 DEF Tells
<1>9. \A n : Has(r, n, "RECEIVED") => Has(back, n, "RECEIVED")
  BY <1>2 DEF Ending
<1>10. TriesOK(c, d, dc, rd, <<>>, r)
  <2> HIDE DEF to, back, dc, dd, rd, r
  <2>1. dc.up /\ d \in dc.f_all_neighbors /\ c \notin rd.f_all_neighbors => Tells(p, <<>>, r)
    BY <1>1, <1>8 DEF TriesOK, dd, rd
  <2>2. \A n \in Sockets : Has(r, n, "RECEIVED") => c \in rd.f_all_neighbors
    BY <1>1, <1>9 DEF TriesOK, dd, rd
  <2>3. QED
    BY <1>4, <1>7, <2>1, <2>2 DEF TriesOK
<1>11. QED
  BY <1>2, <1>5, <1>6, <1>10 DEF PairOK

LEMMA GoneParts ==
  ASSUME ClusterInv, PartsInv, NEW a \in Computers, NEW last, Gone(a, last),
         LastOK(a, last)
  PROVE  PartsInv'
<1>0. TypeOK /\ SocketInv /\ PlainInv /\ ListInv /\ PairInv
  BY DEF ClusterInv, PartsInv
<1>1. GoneStep(a)
  BY <1>0, GoneSteps
<1>2. /\ ~daemon'[a].up
      /\ daemon'[a].services_know = {}
      /\ daemon'[a].f_all_neighbors = daemon[a].f_all_neighbors
  BY <1>0, GoneFields
<1>3. OnlyDaemon(a)
  BY <1>1 DEF GoneStep
<1>4. ListInv'
  <2>1. ASSUME NEW c \in Computers
        PROVE  ListOK(c, daemon'[c])
    BY <1>0, <1>2, <1>3 DEF ListInv, ListOK, OnlyDaemon
  <2>2. QED
    BY <2>1 DEF ListInv
<1>5. PlainInv'
  <2>1. ASSUME NEW n \in Sockets
        PROVE  PlainOK(socket'[n])
    <3>1. PlainOK(socket[n])
      BY <1>0 DEF PlainInv
    <3>2. socket'[n] = socket[n] \/ EndClosed(a, socket[n], socket'[n])
      BY <1>1 DEF GoneStep
    <3>3. QED
      BY <3>1, <3>2 DEF PlainOK, EndClosed
  <2>2. QED
    BY <2>1 DEF PlainInv
<1>6. ASSUME NEW c \in Computers, NEW d \in Computers, c < d
      PROVE  PairOK(c, d)'
  <2>1. CASE c = a
    BY <1>0, <1>1, <1>2, <1>6, <2>1, GoneSmaller
  <2>2. CASE d = a
    BY <1>0, <1>1, <1>2, <1>6, <2>2, GoneLarger
  <2>3. CASE c # a /\ d # a
    <3>1. c # d
      BY <1>6, NumberedComputers
    <3>2. PairOK(c, d)
      BY <1>0, <1>6 DEF PairInv
    <3>3. /\ daemon'[c] = daemon[c] /\ daemon'[d] = daemon[d]
          /\ queue'[c][d] = queue[c][d] /\ queue'[d][c] = queue[d][c]
      BY <1>1, <1>3, <2>3 DEF GoneStep, OnlyDaemon
    <3>4. SameOpen(c, d, socket, socket')
      BY <1>0, <1>1, <2>3, <3>1, GoneOpens
    <3>5. QED
      BY <1>6, <3>2, <3>3, <3>4, PairKept, WiderSame DEF SameKnown
  <2>4. QED
    BY <2>1, <2>2, <2>3
<1>7. PairInv'
  BY <1>6 DEF PairInv
<1>8. QED
  BY <1>4, <1>5, <1>7 DEF PartsInv

-----------------------------------------------------------------------------
(***************************************************************************)
(* The invariant.                                                          *)
(***************************************************************************)
LEMMA InitTries ==
  ASSUME Init
  PROVE  TriesInv
<1>1. /\ \A c, d \in Computers : queue[c][d] = <<>>
      /\ \A n \in Sockets : ~socket[n].broken /\ socket[n].server = "closed"
      /\ \A c \in Computers : /\ ~daemon[c].up
                              /\ daemon[c].services_know = {}
                              /\ daemon[c].f_all_neighbors = {}
                              /\ \A d \in Computers : daemon[c].f_smaller_ips[d] = NoPermanent
  BY DEF Init
<1>2. PlainInv /\ ListInv
  BY <1>1 DEF PlainInv, PlainOK, ListInv, ListOK
<1>3. ASSUME NEW c \in Computers, NEW d \in Computers
      PROVE  PairOK(c, d)
  <2>1. QueuesOK(c, d, queue[c][d], queue[d][c], socket)
    BY <1>1, OnceNone DEF QueuesOK, Open
  <2>2. KnowsOK(c, d, daemon[c], daemon[d], socket)
    BY <1>1 DEF KnowsOK, Member
  <2>3. ~Dropped(<<>>) /\ ~Idle(NoPermanent)
    BY NoEvents, PermanentTypes DEF Dropped, Idle
  <2>4. TriesOK(c, d, daemon[c], daemon[d], queue[c][d], queue[d][c])
    BY <1>1, <2>3, NoEvents DEF TriesOK
  <2>5. QED
    BY <2>1, <2>2, <2>4 DEF PairOK
<1>4. QED
  BY <1>2, <1>3 DEF TriesInv, PartsInv, PairInv

LEMMA BreaksCounted ==
  ASSUME TypeOK, [Next]_vars, breaks' = 0
  PROVE  /\ breaks = 0
         /\ \A n \in Sockets : ~Break(n)
<1>1. ASSUME NEW n \in Sockets, Break(n)
      PROVE  FALSE
  BY <1>1 DEF Break, TypeOK
<1>2. ASSUME NEW c \in Computers, NEW d \in Computers, Deliver(c, d)
      PROVE  breaks' = breaks
  <2>1. process_accept(c, d) => breaks' = breaks
    BY Zenon DEF process_accept
  <2>2. CONNECT(c, d) => breaks' = breaks
    BY Zenon DEF CONNECT
  <2>3. ACCEPT(c, d) => breaks' = breaks
    BY Zenon DEF ACCEPT
  <2>4. REFUSE(c, d) => breaks' = breaks
    BY Zenon DEF REFUSE
  <2>5. DISCONNECT(c, d) => breaks' = breaks
    BY Zenon DEF DISCONNECT
  <2>6. GOSSIP(c, d) => breaks' = breaks
    BY Zenon DEF GOSSIP
  <2>7. RECEIVED(c, d) => breaks' = breaks
    BY Zenon DEF RECEIVED
  <2>8. process_hup(c, d) => breaks' = breaks
    BY Zenon DEF process_hup
  <2>9. QED
    BY <1>2, <2>1, <2>2, <2>3, <2>4, <2>5, <2>6, <2>7, <2>8 DEF Deliver
<1>3. ASSUME NEW c \in Computers, NEW d \in Computers, Timeout(c, d)
      PROVE  breaks' = breaks
  <2>1. process_connected(c, d) \/ gossip_connected(c, d) => breaks' = breaks
    BY Zenon DEF process_connected, gossip_connected, Connect
  <2>2. process_connection_failed(c, d) => breaks' = breaks
    BY Zenon DEF process_connection_failed
  <2>3. QED
    BY <1>3, <2>1, <2>2 DEF Timeout
<1>4. ASSUME NEW c \in Computers, Start(c) \/ Stop(c) \/ Crash(c)
      PROVE  breaks' = breaks
  BY <1>4 DEF Start, Stop, Crash, Gone
<1>5. ASSUME NEW c \in Computers, NEW n \in Sockets, Notice(c, n)
      PROVE  breaks' = breaks
  BY <1>5 DEF Notice
<1>6. CASE UNCHANGED vars
  BY <1>1, <1>6 DEF vars
<1>7. CASE Next
  <2>1. breaks' = breaks
    BY <1>1, <1>2, <1>3, <1>4, <1>5, <1>7 DEF Next
  <2>2. QED
    BY <1>1, <2>1
<1>8. QED
  BY <1>6, <1>7

LEMMA NextTries ==
  ASSUME ClusterInv, TriesInv, RoomLeft, [Next]_vars
  PROVE  TriesInv'
<1>1. SUFFICES ASSUME breaks' = 0
               PROVE  PartsInv'
  BY DEF TriesInv
<1>2. breaks = 0 /\ \A n \in Sockets : ~Break(n)
  BY <1>1, BreaksCounted DEF ClusterInv
<1>3. PartsInv
  BY <1>2 DEF TriesInv
<1>4. ASSUME NEW c \in Computers, NEW d \in Computers, Deliver(c, d)
      PROVE  PartsInv'
  <2>1. CASE process_accept(c, d)
    BY <1>3, <2>1, AcceptParts
  <2>2. CASE CONNECT(c, d)
    BY <1>3, <2>2, ConnectParts
  <2>3. CASE ACCEPT(c, d)
    BY <1>3, <2>3, AcceptedParts
  <2>4. CASE REFUSE(c, d)
    BY <1>3, <2>4, RefusedParts
  <2>5. CASE DISCONNECT(c, d)
    BY <1>3, <2>5, DisconnectParts
  <2>6. CASE GOSSIP(c, d)
    BY <1>3, <2>6, GossipParts
  <2>7. CASE RECEIVED(c, d)
    BY <1>3, <2>7, ReceivedParts
  <2>8. CASE process_hup(c, d)
    BY <1>3, <2>8, HupParts
  <2>9. QED
    BY <1>4, <2>1, <2>2, <2>3, <2>4, <2>5, <2>6, <2>7, <2>8 DEF Deliver
<1>5. ASSUME NEW c \in Computers, NEW d \in Computers, Timeout(c, d)
      PROVE  PartsInv'
  <2>1. CASE process_connected(c, d)
    BY <1>3, <2>1, ConnectedParts
  <2>2. CASE gossip_connected(c, d)
    BY <1>3, <2>2, GossipedParts
  <2>3. CASE process_connection_failed(c, d)
    BY <1>3, <2>3, FailedParts
  <2>4. QED
    BY <1>5, <2>1, <2>2, <2>3 DEF Timeout
<1>6. ASSUME NEW c \in Computers, Start(c)
      PROVE  PartsInv'
  BY <1>3, <1>6, StartParts
<1>7. ASSUME NEW c \in Computers, Stop(c) \/ Crash(c)
      PROVE  PartsInv'
  <2>1. PICK last : Gone(c, last) /\ LastOK(c, last)
    BY <1>7, StopWords, CrashOK
  <2>2. QED
    BY <1>3, <2>1, GoneParts
<1>8. ASSUME NEW c \in Computers, NEW n \in Sockets, Notice(c, n)
      PROVE  PartsInv'
  <2>1. ~socket[n].broken
    BY <1>3 DEF PartsInv, PlainInv, PlainOK
  <2>2. QED
    BY <1>8, <2>1 DEF Notice
<1>9. CASE UNCHANGED vars
  <2>1. UNCHANGED <<daemon, socket, queue>>
    BY <1>9 DEF vars
  <2>2. PlainInv' /\ ListInv'
    BY <1>3, <2>1 DEF PartsInv, PlainInv, ListInv
  <2>3. ASSUME NEW c \in Computers, NEW d \in Computers, c < d
        PROVE  PairOK(c, d)'
    <3>1. PairOK(c, d)
      BY <1>3, <2>3 DEF PartsInv, PairInv
    <3>2. QED
      BY <2>1, <3>1 DEF PairOK
  <2>4. QED
    BY <2>2, <2>3 DEF PartsInv, PairInv
<1>10. QED
  BY <1>2, <1>4, <1>5, <1>6, <1>7, <1>8, <1>9 DEF Next

LEMMA TriesInvariant == Spec /\ []RoomLeft => [](ClusterInv /\ TriesInv)
<1>1. Init => TriesInv
  BY InitTries
<1>2. ClusterInv /\ TriesInv /\ RoomLeft /\ [Next]_vars => TriesInv'
  BY NextTries
<1>3. QED
  BY <1>1, <1>2, ClusterInvariant, PTL DEF Spec

LEMMA TriesQuiet ==
  ASSUME PartsInv, EndsAgree, Quiet, NEW c \in Computers, NEW d \in Computers, c < d,
         daemon[c].up, daemon[d].up, Aware(c, d)
  PROVE  \/ Linked(c, d)
         \/ daemon[d].f_smaller_ips[c].enabled
         \/ daemon[c].f_gossip_ips[d].enabled
<1> DEFINE p == daemon[d].f_smaller_ips[c]
<1>1. queue[c][d] = <<>> /\ queue[d][c] = <<>> /\ \A x, m : ~Has(<<>>, x, m)
  BY NoEvents DEF Quiet
<1>2. TriesOK(c, d, daemon[c], daemon[d], <<>>, <<>>)
  BY <1>1, PairSplit DEF PartsInv
<1>3. ListOK(d, daemon[d])
  BY DEF PartsInv, ListInv
<1>4. p.sock # None => Linked(c, d)
  BY DEF EndsAgree
<1>5. CASE c \in daemon[d].f_all_neighbors
  <2>1. p.known
    BY <1>3, <1>5 DEF ListOK
  <2>2. Idle(p) => Trying(daemon[c].f_gossip_ips[d])
    BY <1>1, <1>2 DEF TriesOK, Asks, Gossip
  <2>3. QED
    BY <1>4, <2>1, <2>2 DEF Idle, Trying
<1>6. CASE c \notin daemon[d].f_all_neighbors
  <2>1. d \in daemon[c].f_all_neighbors
    BY <1>6 DEF Aware
  <2>2. Trying(daemon[c].f_gossip_ips[d])
    BY <1>1, <1>2, <1>6, <2>1 DEF TriesOK, Tells
  <2>3. QED
    BY <2>2 DEF Trying
<1>7. QED
  BY <1>5, <1>6

\* While no connection breaks silently and no computer has more connections
\* than it accepts, two daemons that run, of which one has heard of the other,
\* are connected or about to try once nothing is in transit: DISCONNECT, which
\* leaves the timer of the permanent connection disabled, is always followed
\* by a GOSSIP of the daemon that comes back.  For any computers, neighbours
\* and number of stops and crashes.
THEOREM AlwaysTries == Spec /\ []RoomLeft => []SomeoneTries
<1>1. ClusterInv /\ TriesInv /\ EndsAgree => SomeoneTries
  <2>1. SUFFICES ASSUME ClusterInv, TriesInv, EndsAgree, breaks = 0, Quiet,
                        NEW c \in Computers, NEW d \in Computers, c < d,
                        daemon[c].up, daemon[d].up, Aware(c, d)
                 PROVE  \/ Linked(c, d)
                        \/ daemon[d].f_smaller_ips[c].enabled
                        \/ daemon[c].f_gossip_ips[d].enabled
    BY DEF SomeoneTries
  <2>2. PartsInv
    BY <2>1 DEF TriesInv
  <2>3. QED
    BY <2>1, <2>2, TriesQuiet
<1>2. QED
  BY <1>1, TriesInvariant, BothEndsAgree, PTL

LEMMA KnowQuiet ==
  ASSUME ClusterInv, PartsInv, EndsAgree, Quiet,
         NEW c \in Computers, NEW d \in Computers, c < d
  PROVE  /\ d \in daemon[c].services_know => Linked(c, d)
         /\ c \in daemon[d].services_know =>
              Linked(c, d) \/ daemon[d].f_smaller_ips[c].enabled
         /\ OwnNames /\ Linked(c, d) =>
              d \in daemon[c].services_know /\ c \in daemon[d].services_know
<1> DEFINE p == daemon[d].f_smaller_ips[c]
<1>0. TypeOK /\ SocketInv /\ LinkInv /\ ExchangeInv /\ PlainInv
  BY DEF ClusterInv, PartsInv
<1>1. \A a, b \in Computers : \A x, m : ~Has(queue[a][b], x, m)
  BY NoEvents DEF Quiet
<1>2. KnowsOK(c, d, daemon[c], daemon[d], socket)
  BY PairSplit DEF PartsInv
<1>3. /\ p.sock # None => Linked(c, d)
      /\ \A n \in Accepted(c, socket) : socket[n].from = d => p.sock = n
  BY DEF EndsAgree
<1>4. ASSUME Linked(c, d), OwnNames
      PROVE  d \in daemon[c].services_know /\ c \in daemon[d].services_know
  <2>1. PICK n \in Accepted(c, socket) : /\ socket[n].from = d
                                         /\ socket[n].type = "REMOTE"
                                         /\ p.sock = n
    BY <1>4 DEF Linked
  <2>2. n \in Sockets /\ socket[n].to = c /\ socket[n].server = "open"
    BY DEF Accepted
  <2>3. Member(socket[n], c, d)
    BY <2>1, <2>2 DEF Member
  <2>4. d \in daemon[c].services_know
    BY <1>2, <1>4, <2>2, <2>3 DEF KnowsOK
  <2>5. socket[n].client /\ ~socket[n].broken
    BY <1>0, <2>1, <2>2 DEF LinkInv, Link, PlainInv, PlainOK
  <2>6. Exchange(n, socket[n], queue[d][c], queue[c][d], Joined(daemon[d], c))
    BY <1>0, <2>1, <2>2 DEF ExchangeInv
  <2>7. Joined(daemon[d], c)
    BY <1>1, <2>1, <2>2, <2>5, <2>6 DEF Exchange
  <2>8. QED
    BY <1>4, <2>4, <2>7 DEF Joined
<1>5. ASSUME d \in daemon[c].services_know
      PROVE  Linked(c, d)
  <2>1. PICK m \in Sockets : Member(socket[m], c, d)
    BY <1>2, <1>5 DEF KnowsOK
  <2>2. socket[m].from = d /\ socket[m].to = c /\ socket[m].server # "closed"
        /\ socket[m].type = "REMOTE"
    BY <2>1 DEF Member
  <2>3. socket[m].server # "backlog"
    BY <1>0, <2>2 DEF SocketInv, SocketOK
  <2>4. socket[m].server = "open"
    BY <1>0, <2>2, <2>3 DEF TypeOK, Socket
  <2>5. m \in Accepted(c, socket)
    BY <2>2, <2>4 DEF Accepted
  <2>6. p.sock = m
    BY <1>3, <2>2, <2>5
  <2>7. QED
    BY <1>3, <2>6, NoneIsNone
<1>6. c \in daemon[d].services_know => Linked(c, d) \/ p.enabled
  BY <1>2, <1>3 DEF KnowsOK
<1>7. QED
  BY <1>4, <1>5, <1>6

\* While no connection breaks silently and no computer has more connections
\* than it accepts, the services know no computer but those theirs is connected
\* to or about to try, once nothing is in transit, and all of the former if no
\* daemon passes the messages of others on: the HANGUP, DISCONNECT and CONNECT
\* they are told follow the connections, whatever order the ends are read in.
THEOREM ServicesAlwaysKnow == Spec /\ []RoomLeft => []ServicesKnow
<1>1. ClusterInv /\ TriesInv /\ EndsAgree => ServicesKnow
  <2>1. SUFFICES ASSUME ClusterInv, TriesInv, EndsAgree, breaks = 0, Quiet,
                        NEW c \in Computers, NEW d \in Computers, c < d
                 PROVE  /\ d \in daemon[c].services_know => Linked(c, d)
                        /\ c \in daemon[d].services_know =>
                             Linked(c, d) \/ daemon[d].f_smaller_ips[c].enabled
                        /\ OwnNames /\ Linked(c, d) =>
                             /\ d \in daemon[c].services_know
                             /\ c \in daemon[d].services_know
    BY DEF ServicesKnow
  <2>2. PartsInv
    BY <2>1 DEF TriesInv
  <2>3. QED
    BY <2>1, <2>2, KnowQuiet
<1>2. QED
  BY <1>1, TriesInvariant, BothEndsAgree, PTL

-----------------------------------------------------------------------------
(***************************************************************************)
(* A daemon has at most one permanent connection for each computer, and    *)
(* the sockets it accepted.                                                *)
(***************************************************************************)
LEMMA LiveConnections ==
  ASSUME NEW c \in Computers
  PROVE  LET N == count_live_connections(c, daemon[c], socket)
         IN  N \in Nat /\ N <= Cardinality(Computers) + MaxSockets
<1> DEFINE P == {d \in Computers : daemon[c].f_smaller_ips[d].known}
           A == Accepted(c, socket)
<1>1. /\ Cardinality(P) \in Nat
      /\ Cardinality(Computers) \in Nat
      /\ Cardinality(P) <= Cardinality(Computers)
  <2>1. P \in SUBSET Computers
    OBVIOUS
  <2> HIDE DEF P
  <2>2. QED
    BY <2>1, ClusterAssumption, FS_Subset, FS_CardinalityType
<1>2. IsFiniteSet(Sockets) /\ Cardinality(Sockets) = MaxSockets
  BY ClusterAssumption, FS_Interval DEF Sockets
<1>3. A \in SUBSET Sockets
  BY DEF Accepted
<1> HIDE DEF A
<1>4. Cardinality(A) \in Nat /\ Cardinality(A) <= MaxSockets
  BY <1>2, <1>3, FS_Subset, FS_CardinalityType
<1>5. count_live_connections(c, daemon[c], socket) = Cardinality(P) + Cardinality(A)
  BY DEF count_live_connections, A
<1> HIDE DEF P
<1>6. QED
  BY <1>1, <1>4, <1>5, ClusterAssumption

LEMMA EnoughRoom ==
  ASSUME Cardinality(Computers) + MaxSockets < f_max_connections
  PROVE  RoomLeft
<1>1. SUFFICES ASSUME NEW c \in Computers
               PROVE  ~TooMany(c)
  BY DEF RoomLeft
<1> DEFINE N == count_live_connections(c, daemon[c], socket)
<1>2. N \in Nat /\ N <= Cardinality(Computers) + MaxSockets
  BY LiveConnections
<1>3. Cardinality(Computers) \in Nat
  BY ClusterAssumption, FS_CardinalityType
<1> HIDE DEF N
<1>4. ~(N >= f_max_connections)
  BY <1>2, <1>3, ClusterAssumption
<1>5. QED
  BY <1>4 DEF TooMany, N

\* A cluster whose computers accept a connection of every computer, and all the
\* sockets that are in use besides, never runs out of them: nothing is assumed
\* of the behaviour.
THEOREM RoomForAll ==
  ASSUME Cardinality(Computers) + MaxSockets < f_max_connections
  PROVE  Spec => [](SomeoneTries /\ ServicesKnow)
<1>1. Spec => []RoomLeft
  BY EnoughRoom, PTL
<1>2. QED
  BY <1>1, AlwaysTries, ServicesAlwaysKnow, PTL
=============================================================================
