------------------------ MODULE SnapClusterProofs --------------------------
(***************************************************************************)
(* Theorems about SnapCluster, for any computers, neighbours and bounds:   *)
(* types, one connection per name, and ends that agree.                    *)
(***************************************************************************)
EXTENDS SnapCluster, SnapSequencesProofs

Entry == [sock : Sockets, msg : Message]

LEMMA NumberedComputers ==
  ASSUME NEW c \in Computers
  PROVE  c \in Nat
BY ClusterAssumption

LEMMA EntryTypes ==
  ASSUME NEW n \in Sockets, NEW m \in Message
  PROVE  [sock |-> n, msg |-> m] \in Entry
BY DEF Entry

LEMMA PermanentTypes ==
  /\ NoPermanent \in Permanent
  /\ NewPermanent \in Permanent
  /\ NewPermanent.known /\ NewPermanent.enabled
  /\ ~NoPermanent.known /\ ~NoPermanent.enabled
  /\ NoPermanent.sock = None /\ NewPermanent.sock = None
  /\ NoPermanent.type = "DOWN" /\ NewPermanent.type = "DOWN"
<1>1. NoPermanent \in Permanent
  BY DEF NoPermanent, Permanent
<1>2. NewPermanent \in Permanent
  BY <1>1 DEF NewPermanent, Permanent
<1>3. QED
  BY <1>1, <1>2 DEF NoPermanent, NewPermanent

LEMMA PermanentFields ==
  ASSUME NEW p \in Permanent
  PROVE  /\ p.known \in BOOLEAN /\ p.enabled \in BOOLEAN
         /\ p.sock \in Sockets \cup {None}
         /\ p.type \in {"DOWN", "REMOTE"}
BY DEF Permanent

LEMMA DaemonFields ==
  ASSUME TypeOK, NEW c \in Computers, NEW d \in Computers
  PROVE  /\ daemon[c] \in Daemon
         /\ daemon[c].up \in BOOLEAN
         /\ daemon[c].f_all_neighbors \in SUBSET Computers
         /\ daemon[c].f_all_ips \in SUBSET Computers
         /\ daemon[c].services_know \in SUBSET Computers
         /\ daemon[c].f_smaller_ips \in [Computers -> Permanent]
         /\ daemon[c].f_gossip_ips \in [Computers -> Permanent]
         /\ daemon[c].f_smaller_ips[d] \in Permanent
         /\ daemon[c].f_gossip_ips[d] \in Permanent
<1>1. daemon[c] \in Daemon
  BY DEF TypeOK
<1>2. QED
  BY <1>1 DEF Daemon

(***************************************************************************)
(* The helpers keep a daemon a daemon.                                     *)
(***************************************************************************)
LEMMA StatusTypes ==
  ASSUME NEW c \in Computers, NEW dm \in Daemon, NEW sk
  PROVE  cluster_status(c, dm, sk) \in Daemon
BY DEF cluster_status, Daemon

LEMMA AddTypes ==
  ASSUME NEW c \in Computers, NEW dm \in Daemon, NEW A \in SUBSET Computers
  PROVE  add_remote_communicator(c, dm, A) \in Daemon
<1> DEFINE others == A \ {c}
           new == others \ dm.f_all_ips
           small(d) == IF d < c /\ d \in new THEN NewPermanent
                       ELSE IF d \in others /\ dm.f_smaller_ips[d].known
                               /\ dm.f_smaller_ips[d].sock = None
                       THEN [dm.f_smaller_ips[d] EXCEPT !.enabled = TRUE]
                       ELSE dm.f_smaller_ips[d]
           gossip(d) == IF d > c /\ d \in new THEN NewPermanent ELSE dm.f_gossip_ips[d]
<1>1. ASSUME NEW d \in Computers
      PROVE  small(d) \in Permanent /\ gossip(d) \in Permanent
  <2>1. dm.f_smaller_ips[d] \in Permanent /\ dm.f_gossip_ips[d] \in Permanent
    BY DEF Daemon
  <2>2. [dm.f_smaller_ips[d] EXCEPT !.enabled = TRUE] \in Permanent
    BY <2>1 DEF Permanent
  <2>3. QED
    BY <2>1, <2>2, PermanentTypes
<1>2. [d \in Computers |-> small(d)] \in [Computers -> Permanent]
  BY <1>1
<1>3. [d \in Computers |-> gossip(d)] \in [Computers -> Permanent]
  BY <1>1
<1>4. dm.f_all_ips \cup new \in SUBSET Computers
  BY DEF Daemon
<1>5. add_remote_communicator(c, dm, A) =
        [dm EXCEPT !.f_all_ips = dm.f_all_ips \cup new,
                   !.f_smaller_ips = [d \in Computers |-> small(d)],
                   !.f_gossip_ips = [d \in Computers |-> gossip(d)]]
  BY DEF add_remote_communicator
<1> HIDE DEF small, gossip, new
<1>6. QED
  BY <1>2, <1>3, <1>4, <1>5 DEF Daemon

LEMMA NeighborTypes ==
  ASSUME NEW c \in Computers, NEW dm \in Daemon, NEW A \in SUBSET Computers
  PROVE  add_neighbors(c, dm, A) \in Daemon
<1>1. [dm EXCEPT !.f_all_neighbors = @ \cup A] \in Daemon
  BY DEF Daemon
<1>2. QED
  BY <1>1, AddTypes DEF add_neighbors

LEMMA StartedTypes ==
  ASSUME TypeOK, NEW c \in Computers
  PROVE  Started(c) \in Daemon
<1> DEFINE all == daemon[c].f_all_neighbors \cup {c} \cup Neighbors[c]
           small == [d \in Computers |->
                       IF d \in all /\ d < c THEN NewPermanent ELSE NoPermanent]
           gossip == [d \in Computers |->
                       IF d \in all /\ d > c THEN NewPermanent ELSE NoPermanent]
           dm == [ up |-> TRUE, f_all_neighbors |-> all, f_all_ips |-> all \ {c},
                   f_smaller_ips |-> small, f_gossip_ips |-> gossip,
                   f_cluster_status |-> "unset", services_know |-> {} ]
<1>1. all \in SUBSET Computers
  BY ClusterAssumption DEF TypeOK, Daemon
<1>2. small \in [Computers -> Permanent] /\ gossip \in [Computers -> Permanent]
  BY PermanentTypes
<1>3. Started(c) = cluster_status(c, dm, socket)
  BY DEF Started
<1> HIDE DEF all, small, gossip
<1>4. dm \in Daemon
  BY <1>1, <1>2 DEF Daemon
<1>5. QED
  BY <1>3, <1>4, StatusTypes

-----------------------------------------------------------------------------
(***************************************************************************)
(* What is in a queue: something on socket n, message m on socket n, and   *)
(* the order that matters: SYN opens the events of a socket, FIN closes    *)
(* them.                                                                   *)
(***************************************************************************)
On(q, n) == \E i \in 1..Len(q) : q[i].sock = n

Has(q, n, m) == \E i \in 1..Len(q) : q[i].sock = n /\ q[i].msg = m

Opens(q, n) ==
  \A i, j \in 1..Len(q) :
    q[i].sock = n /\ q[i].msg = "SYN" /\ j < i => q[j].sock # n

Closes(q, n) ==
  \A i, j \in 1..Len(q) :
    q[i].sock = n /\ q[i].msg = "FIN" /\ i < j => q[j].sock # n

\* event y on socket x comes before event v on socket u
Before(q, x, y, u, v) ==
  \E i, j \in 1..Len(q) :
    /\ i < j
    /\ q[i].sock = x /\ q[i].msg = y
    /\ q[j].sock = u /\ q[j].msg = v

LEMMA BeforeHas ==
  ASSUME NEW q, NEW x, NEW y, NEW u, NEW v, Before(q, x, y, u, v)
  PROVE  Has(q, x, y) /\ Has(q, u, v)
BY DEF Before, Has

\* the order of the events in r, without event m on socket n that was ahead
RestOrder(r, q, n, m) ==
  \A x, y, u, v :
    Before(q, x, y, u, v) <=> Before(r, x, y, u, v) \/ (x = n /\ y = m /\ Has(r, u, v))

\* the first event is taken
IsRest(r, q) ==
  /\ RestOrder(r, q, Head(q).sock, Head(q).msg)
  /\ \A n, m : Has(q, n, m) <=> Has(r, n, m) \/ (n = Head(q).sock /\ m = Head(q).msg)
  /\ \A n : On(q, n) <=> On(r, n) \/ n = Head(q).sock
  /\ \A n : Opens(q, n) => Opens(r, n)
  /\ \A n : Closes(q, n) => Closes(r, n)
  /\ Opens(q, Head(q).sock) => ~Has(r, Head(q).sock, "SYN")
  /\ Closes(q, Head(q).sock) /\ Head(q).msg = "FIN" => ~On(r, Head(q).sock)

LEMMA RestEvents ==
  ASSUME NEW q \in Seq(Entry), q # <<>>
  PROVE  Tail(q) \in Seq(Entry) /\ Head(q) \in Entry /\ IsRest(Tail(q), q)
<1> DEFINE r == Tail(q)
<1>1. /\ r \in Seq(Entry)
      /\ Len(q) \in Nat
      /\ Len(q) = Len(r) + 1
      /\ Len(r) \in Nat
      /\ \A i \in 1..Len(r) : r[i] = q[i + 1]
      /\ Head(q) = q[1]
      /\ Head(q) \in Entry
  OBVIOUS
<1> HIDE DEF r
<1>a. \A j \in 1..Len(q) : j # 1 => j - 1 \in 1..Len(r) /\ q[j] = r[j - 1]
  BY <1>1
<1>b. \A i \in 1..Len(r) : i + 1 \in 1..Len(q) /\ 1 < i + 1
  BY <1>1
<1>c. 1 \in 1..Len(q)
  BY <1>1
<1>2. ASSUME NEW n, NEW m
      PROVE  Has(q, n, m) <=> Has(r, n, m) \/ (n = Head(q).sock /\ m = Head(q).msg)
  <2>1. ASSUME Has(q, n, m)
        PROVE  Has(r, n, m) \/ (n = Head(q).sock /\ m = Head(q).msg)
    BY <1>1, <1>a, <2>1 DEF Has
  <2>2. ASSUME Has(r, n, m)
        PROVE  Has(q, n, m)
    BY <1>1, <1>b, <2>2 DEF Has
  <2>3. n = Head(q).sock /\ m = Head(q).msg => Has(q, n, m)
    BY <1>1, <1>c DEF Has
  <2>4. QED
    BY <2>1, <2>2, <2>3
<1>3. ASSUME NEW n
      PROVE  On(q, n) <=> On(r, n) \/ n = Head(q).sock
  BY <1>1, <1>a, <1>b, <1>c DEF On
<1>4. ASSUME NEW n, Opens(q, n)
      PROVE  Opens(r, n)
  <2> SUFFICES ASSUME NEW i \in 1..Len(r), NEW j \in 1..Len(r),
                      r[i].sock = n, r[i].msg = "SYN", j < i
      PROVE  r[j].sock # n
    BY DEF Opens
  <2>1. j + 1 < i + 1 /\ r[i] = q[i + 1] /\ r[j] = q[j + 1]
    BY <1>1
  <2>2. QED
    BY <1>b, <1>4, <2>1 DEF Opens
<1>5. ASSUME NEW n, Closes(q, n)
      PROVE  Closes(r, n)
  <2> SUFFICES ASSUME NEW i \in 1..Len(r), NEW j \in 1..Len(r),
                      r[i].sock = n, r[i].msg = "FIN", i < j
      PROVE  r[j].sock # n
    BY DEF Closes
  <2>1. i + 1 < j + 1 /\ r[i] = q[i + 1] /\ r[j] = q[j + 1]
    BY <1>1
  <2>2. QED
    BY <1>b, <1>5, <2>1 DEF Closes
<1>6. Opens(q, Head(q).sock) => ~Has(r, Head(q).sock, "SYN")
  BY <1>1, <1>b, <1>c DEF Opens, Has
<1>7. Closes(q, Head(q).sock) /\ Head(q).msg = "FIN" => ~On(r, Head(q).sock)
  BY <1>1, <1>b, <1>c DEF Closes, On
<1>d. ASSUME NEW x, NEW y, NEW u, NEW v, Before(q, x, y, u, v)
      PROVE  Before(r, x, y, u, v) \/ (x = Head(q).sock /\ y = Head(q).msg /\ Has(r, u, v))
  <2>1. PICK i \in 1..Len(q), j \in 1..Len(q) :
          /\ i < j
          /\ q[i].sock = x /\ q[i].msg = y
          /\ q[j].sock = u /\ q[j].msg = v
    BY <1>d DEF Before
  <2>2. j # 1 /\ j - 1 \in 1..Len(r) /\ q[j] = r[j - 1]
    BY <1>1, <1>a, <2>1
  <2>3. CASE i = 1
    BY <1>1, <2>1, <2>2, <2>3 DEF Has
  <2>4. CASE i # 1
    <3>1. i - 1 \in 1..Len(r) /\ q[i] = r[i - 1] /\ i - 1 < j - 1
      BY <1>1, <1>a, <2>1, <2>4
    <3>2. QED
      BY <2>1, <2>2, <3>1 DEF Before
  <2>5. QED
    BY <2>3, <2>4
<1>e. ASSUME NEW x, NEW y, NEW u, NEW v, Before(r, x, y, u, v)
      PROVE  Before(q, x, y, u, v)
  <2>1. PICK i \in 1..Len(r), j \in 1..Len(r) :
          /\ i < j
          /\ r[i].sock = x /\ r[i].msg = y
          /\ r[j].sock = u /\ r[j].msg = v
    BY <1>e DEF Before
  <2>2. i + 1 < j + 1 /\ r[i] = q[i + 1] /\ r[j] = q[j + 1]
    BY <1>1, <2>1
  <2>3. QED
    BY <1>b, <2>1, <2>2 DEF Before
<1>f. ASSUME NEW u, NEW v, Has(r, u, v)
      PROVE  Before(q, Head(q).sock, Head(q).msg, u, v)
  <2>1. PICK j \in 1..Len(r) : r[j].sock = u /\ r[j].msg = v
    BY <1>f DEF Has
  <2>2. j + 1 \in 1..Len(q) /\ 1 < j + 1 /\ r[j] = q[j + 1] /\ 1 \in 1..Len(q)
    BY <1>1, <1>b, <1>c, <2>1
  <2>3. QED
    BY <1>1, <2>1, <2>2 DEF Before
<1>g. RestOrder(r, q, Head(q).sock, Head(q).msg)
  BY <1>d, <1>e, <1>f DEF RestOrder
<1>8. IsRest(r, q)
  BY <1>2, <1>3, <1>4, <1>5, <1>6, <1>7, <1>g DEF IsRest
<1>9. QED
  BY <1>1, <1>8 DEF r

SentOrder(r, q, n, m) ==
  \A x, y, u, v :
    Before(r, x, y, u, v) <=> Before(q, x, y, u, v) \/ (u = n /\ v = m /\ Has(q, x, y))

\* event m on socket n was added
IsSent(r, q, n, m) ==
  /\ SentOrder(r, q, n, m)
  /\ \A x, y : Has(r, x, y) <=> Has(q, x, y) \/ (x = n /\ y = m)
  /\ \A x : On(r, x) <=> On(q, x) \/ x = n
  /\ \A x : Opens(q, x) /\ (m = "SYN" => ~On(q, n)) => Opens(r, x)
  /\ \A x : Closes(q, x) /\ ~Has(q, n, "FIN") => Closes(r, x)

LEMMA SentEvents ==
  ASSUME NEW q \in Seq(Entry), NEW n \in Sockets, NEW m \in Message
  PROVE  /\ Append(q, [sock |-> n, msg |-> m]) \in Seq(Entry)
         /\ IsSent(Append(q, [sock |-> n, msg |-> m]), q, n, m)
<1> DEFINE e == [sock |-> n, msg |-> m]
           r == Append(q, e)
<1>0. e \in Entry /\ e.sock = n /\ e.msg = m
  BY EntryTypes
<1> HIDE DEF e
<1>1. /\ r \in Seq(Entry)
      /\ Len(r) = Len(q) + 1
      /\ Len(q) \in Nat
      /\ \A i \in 1..Len(q) : r[i] = q[i]
      /\ r[Len(q) + 1] = e
  BY <1>0
<1> HIDE DEF r
<1>a. \A i \in 1..Len(r) : i \in 1..Len(q) \/ i = Len(q) + 1
  BY <1>1
<1>b. \A i \in 1..Len(q) : i \in 1..Len(r) /\ i < Len(q) + 1
  BY <1>1
<1>c. Len(q) + 1 \in 1..Len(r)
  BY <1>1
<1>d. \A i \in 1..Len(r) : ~(Len(q) + 1 < i)
  BY <1>1
<1>2. \A x, y : Has(r, x, y) <=> Has(q, x, y) \/ (x = n /\ y = m)
  BY <1>0, <1>1, <1>a, <1>b, <1>c DEF Has
<1>3. \A x : On(r, x) <=> On(q, x) \/ x = n
  BY <1>0, <1>1, <1>a, <1>b, <1>c DEF On
<1>4. ASSUME NEW x, Opens(q, x), m = "SYN" => ~On(q, n)
      PROVE  Opens(r, x)
  <2> SUFFICES ASSUME NEW i \in 1..Len(r), NEW j \in 1..Len(r),
                      r[i].sock = x, r[i].msg = "SYN", j < i
      PROVE  r[j].sock # x
    BY DEF Opens
  <2>1. j \in 1..Len(q)
    BY <1>1
  <2>2. QED
    BY <1>0, <1>1, <1>a, <1>4, <2>1 DEF Opens, On
<1>5. ASSUME NEW x, Closes(q, x), ~Has(q, n, "FIN")
      PROVE  Closes(r, x)
  <2> SUFFICES ASSUME NEW i \in 1..Len(r), NEW j \in 1..Len(r),
                      r[i].sock = x, r[i].msg = "FIN", i < j
      PROVE  r[j].sock # x
    BY DEF Closes
  <2>1. i \in 1..Len(q)
    BY <1>1
  <2>2. QED
    BY <1>0, <1>1, <1>a, <1>5, <2>1 DEF Closes, Has
<1>6. ASSUME NEW x, NEW y, NEW u, NEW v, Before(r, x, y, u, v)
      PROVE  Before(q, x, y, u, v) \/ (u = n /\ v = m /\ Has(q, x, y))
  <2>1. PICK i \in 1..Len(r), j \in 1..Len(r) :
          /\ i < j
          /\ r[i].sock = x /\ r[i].msg = y
          /\ r[j].sock = u /\ r[j].msg = v
    BY <1>6 DEF Before
  <2>2. i \in 1..Len(q) /\ q[i] = r[i]
    BY <1>1, <2>1
  <2>3. CASE j \in 1..Len(q)
    <3>1. q[j] = r[j]
      BY <1>1, <2>3
    <3>2. QED
      BY <2>1, <2>2, <2>3, <3>1 DEF Before
  <2>4. CASE j = Len(q) + 1
    BY <1>0, <1>1, <2>1, <2>2, <2>4 DEF Has
  <2>5. QED
    BY <1>a, <2>3, <2>4
<1>7. ASSUME NEW x, NEW y, NEW u, NEW v, Before(q, x, y, u, v)
      PROVE  Before(r, x, y, u, v)
  BY <1>1, <1>7, <1>b DEF Before
<1>8. ASSUME NEW x, NEW y, Has(q, x, y)
      PROVE  Before(r, x, y, n, m)
  <2>1. PICK i \in 1..Len(q) : q[i].sock = x /\ q[i].msg = y
    BY <1>8 DEF Has
  <2>2. i \in 1..Len(r) /\ i < Len(q) + 1 /\ r[i] = q[i]
    BY <1>1, <1>b, <2>1
  <2>3. QED
    BY <1>0, <1>1, <1>c, <2>1, <2>2 DEF Before
<1>9. SentOrder(r, q, n, m)
  BY <1>6, <1>7, <1>8 DEF SentOrder
<1>10. IsSent(r, q, n, m)
  BY <1>2, <1>3, <1>4, <1>5, <1>9 DEF IsSent
<1>11. QED
  BY <1>1, <1>10 DEF r, e

WithoutOrder(r, q, n) ==
  \A x, y, u, v : Before(r, x, y, u, v) <=> Before(q, x, y, u, v) /\ x # n /\ u # n

\* the events of socket n were thrown away
IsWithout(r, q, n) ==
  /\ WithoutOrder(r, q, n)
  /\ \A x, y : Has(r, x, y) <=> Has(q, x, y) /\ x # n
  /\ \A x : On(r, x) <=> On(q, x) /\ x # n
  /\ \A x : Opens(q, x) => Opens(r, x)
  /\ \A x : Closes(q, x) => Closes(r, x)

LEMMA WithoutEvents ==
  ASSUME NEW q \in Seq(Entry), NEW n
  PROVE  Without(q, n) \in Seq(Entry) /\ IsWithout(Without(q, n), q, n)
<1> DEFINE I == {i \in 1..Len(q) : q[i].sock # n}
           r == Without(q, n)
<1>1. PICK f : r \in Seq(Entry) /\ IsSelection(r, q, I, Len(q), f)
  BY SelectedProperties DEF Without
<1>2. Len(r) \in Nat /\ Len(q) \in Nat
  BY <1>1
<1> HIDE DEF r
<1>3. /\ \A k \in 1..Len(r) : f[k] \in 1..Len(q) /\ q[f[k]].sock # n /\ r[k] = q[f[k]]
      /\ \A k, l \in 1..Len(r) : k < l => f[k] < f[l]
      /\ \A i \in 1..Len(q) : q[i].sock # n => \E k \in 1..Len(r) : f[k] = i
  BY <1>1 DEF IsSelection
<1> HIDE DEF I
<1>4. \A x, y : Has(r, x, y) <=> Has(q, x, y) /\ x # n
  <2>1. ASSUME NEW x, NEW y, Has(r, x, y)
        PROVE  Has(q, x, y) /\ x # n
    BY <1>3, <2>1 DEF Has
  <2>2. ASSUME NEW x, NEW y, Has(q, x, y), x # n
        PROVE  Has(r, x, y)
    BY <1>3, <2>2 DEF Has
  <2>3. QED
    BY <2>1, <2>2
<1>5. \A x : On(r, x) <=> On(q, x) /\ x # n
  <2>1. ASSUME NEW x, On(r, x)
        PROVE  On(q, x) /\ x # n
    BY <1>3, <2>1 DEF On
  <2>2. ASSUME NEW x, On(q, x), x # n
        PROVE  On(r, x)
    BY <1>3, <2>2 DEF On
  <2>3. QED
    BY <2>1, <2>2
<1>a. \A k, l \in 1..Len(r) : /\ k < l => f[k] < f[l]
                              /\ r[k] = q[f[k]] /\ f[k] \in 1..Len(q)
                              /\ r[l] = q[f[l]] /\ f[l] \in 1..Len(q)
  BY <1>3
<1>6. \A x : Opens(q, x) => Opens(r, x)
  BY <1>a DEF Opens
<1>7. \A x : Closes(q, x) => Closes(r, x)
  BY <1>a DEF Closes
<1>8. ASSUME NEW x, NEW y, NEW u, NEW v, Before(r, x, y, u, v)
      PROVE  Before(q, x, y, u, v) /\ x # n /\ u # n
  <2>1. PICK k \in 1..Len(r), l \in 1..Len(r) :
          /\ k < l
          /\ r[k].sock = x /\ r[k].msg = y
          /\ r[l].sock = u /\ r[l].msg = v
    BY <1>8 DEF Before
  <2>2. /\ f[k] < f[l]
        /\ f[k] \in 1..Len(q) /\ q[f[k]].sock # n /\ r[k] = q[f[k]]
        /\ f[l] \in 1..Len(q) /\ q[f[l]].sock # n /\ r[l] = q[f[l]]
    BY <1>3, <2>1
  <2>3. QED
    BY <2>1, <2>2 DEF Before
<1>9. ASSUME NEW x, NEW y, NEW u, NEW v, Before(q, x, y, u, v), x # n, u # n
      PROVE  Before(r, x, y, u, v)
  <2>1. PICK i \in 1..Len(q), j \in 1..Len(q) :
          /\ i < j
          /\ q[i].sock = x /\ q[i].msg = y
          /\ q[j].sock = u /\ q[j].msg = v
    BY <1>9 DEF Before
  <2>2. PICK k \in 1..Len(r) : f[k] = i
    BY <1>3, <1>9, <2>1
  <2>3. PICK l \in 1..Len(r) : f[l] = j
    BY <1>3, <1>9, <2>1
  <2>4. k < l
    <3>1. ~(l < k) /\ k # l
      BY <1>3, <2>1, <2>2, <2>3
    <3>2. QED
      BY <1>2, <3>1
  <2>5. r[k] = q[i] /\ r[l] = q[j]
    BY <1>3, <2>2, <2>3
  <2>6. QED
    BY <2>1, <2>4, <2>5 DEF Before
<1>10. WithoutOrder(r, q, n)
  BY <1>8, <1>9 DEF WithoutOrder
<1>11. IsWithout(r, q, n)
  BY <1>4, <1>5, <1>6, <1>7, <1>10 DEF IsWithout
<1>12. QED
  BY <1>1, <1>11 DEF r

LEMMA NoEvents ==
  /\ <<>> \in Seq(Entry)
  /\ \A n, m : ~Has(<<>>, n, m)
  /\ \A n : ~On(<<>>, n) /\ Opens(<<>>, n) /\ Closes(<<>>, n)
BY DEF Has, On, Opens, Closes

JoinedOrder(r, q, p) ==
  \A x, y, u, v :
    Before(r, x, y, u, v) <=>
      \/ Before(q, x, y, u, v)
      \/ Before(p, x, y, u, v)
      \/ Has(q, x, y) /\ Has(p, u, v)

\* the events of p come after those of q
IsJoined(r, q, p) ==
  /\ JoinedOrder(r, q, p)
  /\ \A x, y : Has(r, x, y) <=> Has(q, x, y) \/ Has(p, x, y)
  /\ \A x : On(r, x) <=> On(q, x) \/ On(p, x)
  /\ \A x : Opens(q, x) /\ Opens(p, x) /\ ~Has(p, x, "SYN") => Opens(r, x)
  /\ \A x : /\ Closes(q, x)
            /\ Closes(p, x)
            /\ Has(q, x, "FIN") => ~On(p, x)
           => Closes(r, x)

LEMMA JoinedEvents ==
  ASSUME NEW q \in Seq(Entry), NEW p \in Seq(Entry)
  PROVE  q \o p \in Seq(Entry) /\ IsJoined(q \o p, q, p)
<1> DEFINE r == q \o p
<1>1. /\ r \in Seq(Entry)
      /\ Len(r) = Len(q) + Len(p)
      /\ Len(q) \in Nat
      /\ Len(p) \in Nat
      /\ \A i \in 1..Len(q) : r[i] = q[i]
      /\ \A i \in 1..Len(p) : r[Len(q) + i] = p[i]
  OBVIOUS
<1> HIDE DEF r
<1>2. /\ \A i \in 1..Len(r) : i \in 1..Len(q) \/ (i - Len(q) \in 1..Len(p)
                                                 /\ r[i] = p[i - Len(q)])
      /\ \A i \in 1..Len(q) : i \in 1..Len(r)
      /\ \A i \in 1..Len(p) : Len(q) + i \in 1..Len(r)
  <2>1. ASSUME NEW i \in 1..Len(r), i \notin 1..Len(q)
        PROVE  i - Len(q) \in 1..Len(p) /\ r[i] = p[i - Len(q)]
    <3>1. i - Len(q) \in 1..Len(p) /\ Len(q) + (i - Len(q)) = i
      BY <1>1, <2>1
    <3>2. QED
      BY <1>1, <3>1
  <2>2. QED
    BY <1>1, <2>1
<1>a. /\ \A i \in 1..Len(q) : r[i] = q[i] /\ i \in 1..Len(r)
      /\ \A i \in 1..Len(p) : r[Len(q) + i] = p[i] /\ Len(q) + i \in 1..Len(r)
  BY <1>1, <1>2
<1>3. ASSUME NEW x, NEW y
      PROVE  Has(r, x, y) <=> Has(q, x, y) \/ Has(p, x, y)
  <2>1. ASSUME Has(r, x, y)
        PROVE  Has(q, x, y) \/ Has(p, x, y)
    <3>1. PICK i \in 1..Len(r) : r[i].sock = x /\ r[i].msg = y
      BY <2>1 DEF Has
    <3>2. CASE i \in 1..Len(q)
      BY <1>a, <3>1, <3>2 DEF Has
    <3>3. CASE i \notin 1..Len(q)
      BY <1>2, <3>1, <3>3 DEF Has
    <3>4. QED
      BY <3>2, <3>3
  <2>2. Has(q, x, y) => Has(r, x, y)
    BY <1>a DEF Has
  <2>3. Has(p, x, y) => Has(r, x, y)
    BY <1>a DEF Has
  <2>4. QED
    BY <2>1, <2>2, <2>3
<1>4. ASSUME NEW x
      PROVE  On(r, x) <=> On(q, x) \/ On(p, x)
  <2>1. ASSUME On(r, x)
        PROVE  On(q, x) \/ On(p, x)
    <3>1. PICK i \in 1..Len(r) : r[i].sock = x
      BY <2>1 DEF On
    <3>2. CASE i \in 1..Len(q)
      BY <1>a, <3>1, <3>2 DEF On
    <3>3. CASE i \notin 1..Len(q)
      BY <1>2, <3>1, <3>3 DEF On
    <3>4. QED
      BY <3>2, <3>3
  <2>2. On(q, x) => On(r, x)
    BY <1>a DEF On
  <2>3. On(p, x) => On(r, x)
    BY <1>a DEF On
  <2>4. QED
    BY <2>1, <2>2, <2>3
<1>5. ASSUME NEW x, Opens(q, x), Opens(p, x), ~Has(p, x, "SYN")
      PROVE  Opens(r, x)
  <2> SUFFICES ASSUME NEW i \in 1..Len(r), NEW j \in 1..Len(r),
                      r[i].sock = x, r[i].msg = "SYN", j < i
      PROVE  r[j].sock # x
    BY DEF Opens
  <2>1. i \in 1..Len(q)
    BY <1>2, <1>5 DEF Has
  <2>2. j \in 1..Len(q)
    BY <1>1, <2>1
  <2>3. QED
    BY <1>1, <1>5, <2>1, <2>2 DEF Opens
<1>6. ASSUME NEW x, Closes(q, x), Closes(p, x), Has(q, x, "FIN") => ~On(p, x)
      PROVE  Closes(r, x)
  <2> SUFFICES ASSUME NEW i \in 1..Len(r), NEW j \in 1..Len(r),
                      r[i].sock = x, r[i].msg = "FIN", i < j
      PROVE  r[j].sock # x
    BY DEF Closes
  <2>1. CASE i \in 1..Len(q) /\ j \in 1..Len(q)
    BY <1>1, <1>6, <2>1 DEF Closes
  <2>2. CASE i \in 1..Len(q) /\ j \notin 1..Len(q)
    <3>1. Has(q, x, "FIN")
      BY <1>a, <2>2 DEF Has
    <3>2. ~On(p, x)
      BY <1>6, <3>1
    <3>3. j - Len(q) \in 1..Len(p) /\ r[j] = p[j - Len(q)]
      BY <1>2, <2>2
    <3>4. QED
      BY <3>2, <3>3 DEF On
  <2>3. CASE i \notin 1..Len(q)
    <3>1. j \notin 1..Len(q)
      BY <1>1, <2>3
    <3>2. /\ i - Len(q) \in 1..Len(p) /\ r[i] = p[i - Len(q)]
          /\ j - Len(q) \in 1..Len(p) /\ r[j] = p[j - Len(q)]
      BY <1>2, <2>3, <3>1
    <3>3. i - Len(q) < j - Len(q)
      BY <1>1
    <3>4. QED
      BY <1>6, <3>2, <3>3 DEF Closes
  <2>4. QED
    BY <2>1, <2>2, <2>3
<1>7. ASSUME NEW x, NEW y, NEW u, NEW v, Before(r, x, y, u, v)
      PROVE  \/ Before(q, x, y, u, v)
             \/ Before(p, x, y, u, v)
             \/ Has(q, x, y) /\ Has(p, u, v)
  <2>1. PICK i \in 1..Len(r), j \in 1..Len(r) :
          /\ i < j
          /\ r[i].sock = x /\ r[i].msg = y
          /\ r[j].sock = u /\ r[j].msg = v
    BY <1>7 DEF Before
  <2>2. CASE j \in 1..Len(q)
    <3>1. i \in 1..Len(q) /\ r[i] = q[i] /\ r[j] = q[j]
      BY <1>1, <2>1, <2>2
    <3>2. QED
      BY <2>1, <2>2, <3>1 DEF Before
  <2>3. CASE i \in 1..Len(q) /\ j \notin 1..Len(q)
    <3>1. r[i] = q[i] /\ j - Len(q) \in 1..Len(p) /\ r[j] = p[j - Len(q)]
      BY <1>2, <1>a, <2>3
    <3>2. QED
      BY <2>1, <2>3, <3>1 DEF Has
  <2>4. CASE i \notin 1..Len(q) /\ j \notin 1..Len(q)
    <3>1. /\ i - Len(q) \in 1..Len(p) /\ r[i] = p[i - Len(q)]
          /\ j - Len(q) \in 1..Len(p) /\ r[j] = p[j - Len(q)]
      BY <1>2, <2>4
    <3>2. i - Len(q) < j - Len(q)
      BY <1>1, <2>1
    <3>3. QED
      BY <2>1, <3>1, <3>2 DEF Before
  <2>5. QED
    BY <2>2, <2>3, <2>4
<1>8. ASSUME NEW x, NEW y, NEW u, NEW v, Before(q, x, y, u, v)
      PROVE  Before(r, x, y, u, v)
  BY <1>8, <1>a DEF Before
<1>9. ASSUME NEW x, NEW y, NEW u, NEW v, Before(p, x, y, u, v)
      PROVE  Before(r, x, y, u, v)
  <2>1. PICK i \in 1..Len(p), j \in 1..Len(p) :
          /\ i < j
          /\ p[i].sock = x /\ p[i].msg = y
          /\ p[j].sock = u /\ p[j].msg = v
    BY <1>9 DEF Before
  <2>2. Len(q) + i < Len(q) + j
    BY <1>1, <2>1
  <2>3. QED
    BY <1>a, <2>1, <2>2 DEF Before
<1>10. ASSUME NEW x, NEW y, NEW u, NEW v, Has(q, x, y), Has(p, u, v)
       PROVE  Before(r, x, y, u, v)
  <2>1. PICK i \in 1..Len(q) : q[i].sock = x /\ q[i].msg = y
    BY <1>10 DEF Has
  <2>2. PICK j \in 1..Len(p) : p[j].sock = u /\ p[j].msg = v
    BY <1>10 DEF Has
  <2>3. i < Len(q) + j
    BY <1>1, <2>1, <2>2
  <2>4. QED
    BY <1>a, <2>1, <2>2, <2>3 DEF Before
<1>11. JoinedOrder(r, q, p)
  BY <1>7, <1>8, <1>9, <1>10 DEF JoinedOrder
<1>12. IsJoined(r, q, p)
  BY <1>3, <1>4, <1>5, <1>6, <1>11 DEF IsJoined
<1>13. QED
  BY <1>1, <1>12 DEF r

\* one FIN on each socket of T
Fins(T) == Selected([n \in Sockets |-> [sock |-> n, msg |-> "FIN"]], T)

LEMMA FinEvents ==
  ASSUME NEW T \in SUBSET Sockets
  PROVE  /\ Fins(T) \in Seq(Entry)
         /\ \A x, y : Has(Fins(T), x, y) <=> x \in T /\ y = "FIN"
         /\ \A x : On(Fins(T), x) <=> x \in T
         /\ \A x : Opens(Fins(T), x) /\ Closes(Fins(T), x)
<1> DEFINE fin(n) == [sock |-> n, msg |-> "FIN"]
           s == [n \in Sockets |-> fin(n)]
           r == Fins(T)
<1>0. MaxSockets \in Nat /\ Sockets = 1..MaxSockets
  BY ClusterAssumption DEF Sockets
<1>1. \A n \in Sockets : fin(n) \in Entry /\ fin(n).sock = n /\ fin(n).msg = "FIN"
  BY EntryTypes DEF Message
<1> HIDE DEF fin
<1>2. s \in Seq(Entry) /\ Len(s) = MaxSockets
  <2>1. s \in [1..MaxSockets -> Entry]
    BY <1>0, <1>1
  <2>2. QED
    BY <1>0, <2>1
<1>3. r = Selected(s, T)
  BY DEF Fins, fin
<1>4. PICK f : r \in Seq(Entry) /\ IsSelection(r, s, T, MaxSockets, f)
  <2> HIDE DEF s, r
  <2>1. QED
    BY <1>2, <1>3, SelectedProperties
<1>5. Len(r) \in Nat
  BY <1>4
<1>6. \A n \in Sockets : s[n] = fin(n)
  OBVIOUS
<1> HIDE DEF s, r
<1>7. /\ \A k \in 1..Len(r) : f[k] \in T /\ f[k] \in Sockets
                               /\ r[k].sock = f[k] /\ r[k].msg = "FIN"
      /\ \A k, l \in 1..Len(r) : k < l => f[k] < f[l]
      /\ \A n \in T : \E k \in 1..Len(r) : f[k] = n
  <2>1. /\ \A k \in 1..Len(r) : f[k] \in T /\ r[k] = s[f[k]]
        /\ \A k, l \in 1..Len(r) : k < l => f[k] < f[l]
    BY <1>4 DEF IsSelection
  <2>2. \A n \in T : n \in 1..MaxSockets /\ n \in Sockets
    BY <1>0, <1>1
  <2>3. \A n \in T : \E k \in 1..Len(r) : f[k] = n
    <3>1. \A i \in 1..MaxSockets : i \in T => \E k \in 1..Len(r) : f[k] = i
      BY <1>4 DEF IsSelection
    <3>2. QED
      BY <2>2, <3>1
  <2>4. \A n \in Sockets : s[n].sock = n /\ s[n].msg = "FIN"
    BY <1>1, <1>6
  <2>5. QED
    BY <2>1, <2>2, <2>3, <2>4
<1>8. \A k, l \in 1..Len(r) : k < l => r[k].sock # r[l].sock
  BY <1>0, <1>7
<1>9. \A x, y : Has(r, x, y) <=> x \in T /\ y = "FIN"
  BY <1>7 DEF Has
<1>10. \A x : On(r, x) <=> x \in T
  BY <1>7 DEF On
<1>11. \A x : Opens(r, x)
  BY <1>7 DEF Opens
<1>12. \A x : Closes(r, x)
  BY <1>8 DEF Closes
<1>13. QED
  BY <1>4, <1>9, <1>10, <1>11, <1>12 DEF r

-----------------------------------------------------------------------------
(***************************************************************************)
(* One queue changes, the others stay.                                     *)
(***************************************************************************)
Queues == [Computers -> [Computers -> Seq(Entry)]]

OnlyQueue(r, q, a, b) ==
  \A x, y \in Computers : ~(x = a /\ y = b) => r[x][y] = q[x][y]

Changed(q, a, b, v) == [q EXCEPT ![a][b] = v]

LEMMA QueueChanged ==
  ASSUME NEW q \in Queues, NEW a \in Computers, NEW b \in Computers,
         NEW v \in Seq(Entry)
  PROVE  /\ Changed(q, a, b, v) \in Queues
         /\ Changed(q, a, b, v)[a][b] = v
         /\ OnlyQueue(Changed(q, a, b, v), q, a, b)
BY DEF Queues, OnlyQueue, Changed

\* c takes the first event from d
TakenFrom(r, c, d) ==
  /\ r \in Queues
  /\ IsRest(r[d][c], queue[d][c])
  /\ OnlyQueue(r, queue, d, c)

LEMMA Taken ==
  ASSUME TypeOK, NEW c \in Computers, NEW d \in Computers, queue[d][c] # <<>>
  PROVE  TakenFrom(Rest(c, d), c, d) /\ SocketRead(c, d) \in Sockets
<1> DEFINE v == Tail(queue[d][c])
<1>1. queue \in Queues /\ queue[d][c] \in Seq(Entry)
  BY DEF TypeOK, Queues, Entry
<1>2. /\ v \in Seq(Entry)
      /\ Head(queue[d][c]) \in Entry
      /\ IsRest(v, queue[d][c])
  BY <1>1, RestEvents
<1>3. Rest(c, d) = Changed(queue, d, c, v)
  BY DEF Rest, Changed
<1> HIDE DEF v
<1>4. /\ Rest(c, d) \in Queues
      /\ Rest(c, d)[d][c] = v
      /\ OnlyQueue(Rest(c, d), queue, d, c)
  BY <1>1, <1>2, <1>3, QueueChanged
<1>5. SocketRead(c, d) \in Sockets
  BY <1>2 DEF SocketRead, Entry
<1>6. QED
  BY <1>2, <1>4, <1>5 DEF TakenFrom

\* c sends m to d on socket n
SentTo(r, q, c, d, n, m) ==
  /\ r \in Queues
  /\ IsSent(r[c][d], q[c][d], n, m)
  /\ OnlyQueue(r, q, c, d)

LEMMA Sending ==
  ASSUME NEW q \in Queues, NEW c \in Computers, NEW d \in Computers,
         NEW n \in Sockets, NEW m \in Message
  PROVE  SentTo(Sent(q, c, d, n, m), q, c, d, n, m)
<1> DEFINE v == Append(q[c][d], [sock |-> n, msg |-> m])
<1>1. q[c][d] \in Seq(Entry)
  BY DEF Queues
<1>2. v \in Seq(Entry) /\ IsSent(v, q[c][d], n, m)
  BY <1>1, SentEvents
<1>3. Sent(q, c, d, n, m) = Changed(q, c, d, v)
  BY DEF Sent, Changed
<1> HIDE DEF v
<1>4. /\ Sent(q, c, d, n, m) \in Queues
      /\ Sent(q, c, d, n, m)[c][d] = v
      /\ OnlyQueue(Sent(q, c, d, n, m), q, c, d)
  BY <1>2, <1>3, QueueChanged
<1>5. QED
  BY <1>2, <1>4 DEF SentTo

\* what d sent to c on socket n is thrown away
PurgedFrom(r, q, c, d, n) ==
  /\ r \in Queues
  /\ IsWithout(r[d][c], q[d][c], n)
  /\ OnlyQueue(r, q, d, c)

LEMMA Purging ==
  ASSUME NEW q \in Queues, NEW c \in Computers, NEW d \in Computers, NEW n
  PROVE  PurgedFrom(Purge(q, c, d, n), q, c, d, n)
<1> DEFINE v == Without(q[d][c], n)
<1>1. q[d][c] \in Seq(Entry)
  BY DEF Queues
<1>2. v \in Seq(Entry) /\ IsWithout(v, q[d][c], n)
  BY <1>1, WithoutEvents
<1>3. Purge(q, c, d, n) = Changed(q, d, c, v)
  BY DEF Purge, Changed
<1> HIDE DEF v
<1>4. /\ Purge(q, c, d, n) \in Queues
      /\ Purge(q, c, d, n)[d][c] = v
      /\ OnlyQueue(Purge(q, c, d, n), q, d, c)
  BY <1>2, <1>3, QueueChanged
<1>5. QED
  BY <1>2, <1>4 DEF PurgedFrom

LEMMA ClosedQueueTypes ==
  ASSUME TypeOK, NEW q \in Queues, NEW c \in Computers, NEW n \in Sockets
  PROVE  CloseQueue(c, q, n) \in Queues
<1> DEFINE d == Other(c, n)
           p == Purge(q, c, d, n)
<1>1. d \in Computers
  BY DEF Other, TypeOK, Socket
<1> HIDE DEF d
<1>2. p \in Queues
  BY <1>1, Purging DEF PurgedFrom
<1> HIDE DEF p
<1>3. Sent(p, c, d, n, "FIN") \in Queues
  <2>1. "FIN" \in Message
    BY DEF Message
  <2>2. QED
    BY <1>1, <1>2, <2>1, Sending DEF SentTo
<1>4. QED
  BY <1>2, <1>3 DEF CloseQueue, d, p

LEMMA ClosedEndTypes ==
  ASSUME NEW sk \in [Sockets -> Socket], NEW c, NEW n \in Sockets
  PROVE  CloseEnd(c, sk, n) \in [Sockets -> Socket]
<1>1. sk[n] \in Socket
  OBVIOUS
<1>2. [sk[n] EXCEPT !.client = FALSE] \in Socket
  BY <1>1 DEF Socket
<1>3. [sk[n] EXCEPT !.server = "closed"] \in Socket
  BY <1>1 DEF Socket
<1>4. QED
  BY <1>2, <1>3 DEF CloseEnd

LEMMA ReadEvent ==
  ASSUME TypeOK, NEW c \in Computers, NEW d \in Computers, NEW m, Read(c, d, m)
  PROVE  /\ queue[d][c] # <<>>
         /\ TakenFrom(Rest(c, d), c, d)
         /\ Rest(c, d) \in Queues
         /\ SocketRead(c, d) \in Sockets
         /\ SocketRead(c, d) = Head(queue[d][c]).sock
         /\ m = Head(queue[d][c]).msg
<1>1. queue[d][c] # <<>> /\ m = Head(queue[d][c]).msg
  BY DEF Read
<1>2. TakenFrom(Rest(c, d), c, d) /\ SocketRead(c, d) \in Sockets
  BY <1>1, Taken
<1>3. QED
  BY <1>1, <1>2 DEF TakenFrom, SocketRead

-----------------------------------------------------------------------------
(***************************************************************************)
(* A daemon that is gone.                                                  *)
(***************************************************************************)
Mine(c) ==
  {n \in Sockets : c \in {socket[n].from, socket[n].to} /\ IsOpen(c, n)}

Told(c, d) ==
  {n \in Mine(c) : Other(c, n) = d /\ IsOpen(d, n) /\ ~socket[n].broken}

GoneDaemon(c) ==
  [daemon[c] EXCEPT !.up = FALSE, !.f_all_ips = {},
     !.f_smaller_ips = [d \in Computers |-> NoPermanent],
     !.f_gossip_ips = [d \in Computers |-> NoPermanent],
     !.f_cluster_status = "unset", !.services_know = {}]

Shut(c, n) ==
  IF n \notin Mine(c) THEN socket[n]
  ELSE IF socket[n].from = c THEN [socket[n] EXCEPT !.client = FALSE]
  ELSE [socket[n] EXCEPT !.server = "closed"]

GoneQueue(c, last, a, b) ==
  IF b = c THEN <<>>
  ELSE IF a = c THEN queue[a][b] \o last[b] \o Fins(Told(c, b))
  ELSE queue[a][b]

LEMMA GoneEffect ==
  ASSUME NEW c \in Computers, NEW last, Gone(c, last)
  PROVE  /\ daemon' = [daemon EXCEPT ![c] = GoneDaemon(c)]
         /\ socket' = [n \in Sockets |-> Shut(c, n)]
         /\ queue' = [a \in Computers |-> [b \in Computers |-> GoneQueue(c, last, a, b)]]
         /\ stops' = stops + 1
         /\ breaks' = breaks
BY Zenon DEF Gone, Mine, Told, GoneDaemon, Shut, GoneQueue, Fins

\* the last words of c, at most one DISCONNECT for each computer
LastWords(c, last) ==
  \A d \in Computers :
    \/ last[d] = <<>>
    \/ \E n \in Sockets : last[d] = <<[sock |-> n, msg |-> "DISCONNECT"]>>

LEMMA OneWord ==
  ASSUME NEW n \in Sockets
  PROVE  LET w == <<[sock |-> n, msg |-> "DISCONNECT"]>>
         IN  /\ w \in Seq(Entry)
             /\ \A x, y : Has(w, x, y) <=> x = n /\ y = "DISCONNECT"
             /\ \A x : On(w, x) <=> x = n
             /\ \A x : Opens(w, x) /\ Closes(w, x)
<1> DEFINE e == [sock |-> n, msg |-> "DISCONNECT"]
           w == <<e>>
<1>1. e \in Entry /\ e.sock = n /\ e.msg = "DISCONNECT"
  BY EntryTypes DEF Message
<1> HIDE DEF e
<1>2. w \in Seq(Entry) /\ Len(w) = 1 /\ w[1] = e
  BY <1>1
<1> HIDE DEF w
<1>3. /\ \A x, y : Has(w, x, y) <=> x = n /\ y = "DISCONNECT"
      /\ \A x : On(w, x) <=> x = n
      /\ \A x : Opens(w, x) /\ Closes(w, x)
  BY <1>1, <1>2 DEF Has, On, Opens, Closes
<1>4. QED
  BY <1>2, <1>3 DEF w, e

LEMMA LastTypes ==
  ASSUME NEW c, NEW last, LastWords(c, last), NEW d \in Computers
  PROVE  last[d] \in Seq(Entry)
BY OneWord, NoEvents DEF LastWords

LEMMA StopTypes ==
  ASSUME TypeOK, NEW c \in Computers, Stop(c)
  PROVE  \E last : Gone(c, last) /\ LastWords(c, last)
<1> DEFINE to(d) ==
             IF d < c /\ daemon[c].f_smaller_ips[d].sock # None
             THEN {daemon[c].f_smaller_ips[d].sock}
             ELSE {n \in Accepted(c, socket) :
                     socket[n].from = d /\ socket[n].type = "REMOTE"}
           live(d) == {n \in to(d) : IsOpen(d, n) /\ ~socket[n].broken}
           word(d) == IF live(d) = {} THEN <<>>
                      ELSE <<[sock |-> CHOOSE n \in live(d) : TRUE,
                              msg |-> "DISCONNECT"]>>
           last == [d \in Computers |-> word(d)]
<1>1. Gone(c, last)
  BY Zenon DEF Stop
<1>2. ASSUME NEW d \in Computers
      PROVE  \/ last[d] = <<>>
             \/ \E n \in Sockets : last[d] = <<[sock |-> n, msg |-> "DISCONNECT"]>>
  <2>1. last[d] = word(d)
    OBVIOUS
  <2>2. daemon[c].f_smaller_ips[d].sock \in Sockets \cup {None}
    BY DaemonFields, PermanentFields
  <2>3. live(d) \subseteq Sockets
    BY <2>2 DEF Accepted
  <2> HIDE DEF live, last
  <2>4. live(d) # {} => (CHOOSE n \in live(d) : TRUE) \in Sockets
    BY <2>3
  <2>5. QED
    BY <2>1, <2>4
<1>3. LastWords(c, last)
  BY <1>2 DEF LastWords
<1>4. QED
  BY <1>1, <1>3

LEMMA CrashWords ==
  ASSUME NEW c \in Computers, Crash(c)
  PROVE  Gone(c, [d \in Computers |-> <<>>])
         /\ LastWords(c, [d \in Computers |-> <<>>])
<1>1. Gone(c, [d \in Computers |-> <<>>])
  BY Zenon DEF Crash
<1>2. LastWords(c, [d \in Computers |-> <<>>])
  BY DEF LastWords
<1>3. QED
  BY <1>1, <1>2

LEMMA GoneTypes ==
  ASSUME TypeOK, NEW c \in Computers, NEW last, Gone(c, last), LastWords(c, last)
  PROVE  TypeOK'
<1>1. daemon' \in [Computers -> Daemon]
  <2>1. GoneDaemon(c) \in Daemon
    <3> DEFINE none == [d \in Computers |-> NoPermanent]
    <3>1. none \in [Computers -> Permanent]
      BY PermanentTypes
    <3>2. daemon[c] \in Daemon
      BY DEF TypeOK
    <3>3. GoneDaemon(c) = [daemon[c] EXCEPT !.up = FALSE, !.f_all_ips = {},
                             !.f_smaller_ips = none, !.f_gossip_ips = none,
                             !.f_cluster_status = "unset", !.services_know = {}]
      BY DEF GoneDaemon
    <3> HIDE DEF none
    <3>4. QED
      BY <3>1, <3>2, <3>3 DEF Daemon
  <2>2. QED
    BY <2>1, GoneEffect DEF TypeOK
<1>2. socket' \in [Sockets -> Socket]
  <2>1. ASSUME NEW n \in Sockets PROVE Shut(c, n) \in Socket
    BY DEF Shut, TypeOK, Socket
  <2>2. QED
    BY <2>1, GoneEffect
<1>3. queue' \in Queues
  <2>1. ASSUME NEW a \in Computers, NEW b \in Computers
        PROVE  GoneQueue(c, last, a, b) \in Seq(Entry)
    <3>1. Told(c, b) \in SUBSET Sockets
      BY DEF Told, Mine
    <3>2. Fins(Told(c, b)) \in Seq(Entry)
      BY <3>1, FinEvents
    <3>3. queue[a][b] \in Seq(Entry)
      BY DEF TypeOK, Entry
    <3>4. last[b] \in Seq(Entry)
      BY LastTypes
    <3>5. queue[a][b] \o last[b] \o Fins(Told(c, b)) \in Seq(Entry)
      BY <3>2, <3>3, <3>4, JoinedEvents
    <3>6. QED
      BY <3>3, <3>5, NoEvents DEF GoneQueue
  <2>2. QED
    BY <2>1, GoneEffect DEF Queues
<1>4. stops' \in Nat /\ breaks' \in Nat
  BY GoneEffect DEF TypeOK
<1>5. QED
  BY <1>1, <1>2, <1>3, <1>4 DEF TypeOK, Queues, Entry

-----------------------------------------------------------------------------
(***************************************************************************)
(* Every step keeps the types.                                             *)
(***************************************************************************)
LEMMA SetPermanent ==
  ASSUME NEW dm \in Daemon, NEW d \in Computers, NEW p \in Permanent
  PROVE  /\ [dm EXCEPT !.f_smaller_ips[d] = p] \in Daemon
         /\ [dm EXCEPT !.f_gossip_ips[d] = p] \in Daemon
<1>1. /\ [dm.f_smaller_ips EXCEPT ![d] = p] \in [Computers -> Permanent]
      /\ [dm.f_gossip_ips EXCEPT ![d] = p] \in [Computers -> Permanent]
  BY DEF Daemon
<1>2. QED
  BY <1>1 DEF Daemon

LEMMA SetKnow ==
  ASSUME NEW dm \in Daemon, NEW K \in SUBSET Computers
  PROVE  [dm EXCEPT !.services_know = K] \in Daemon
BY DEF Daemon

LEMMA LinkTypes ==
  ASSUME NEW p \in Permanent, NEW n \in Sockets
  PROVE  /\ Connected(p, n) \in Permanent
         /\ Retried(p) \in Permanent
         /\ [p EXCEPT !.sock = None] \in Permanent
         /\ [p EXCEPT !.sock = None, !.type = "DOWN"] \in Permanent
         /\ [p EXCEPT !.type = "REMOTE"] \in Permanent
         /\ [p EXCEPT !.f_connected = FALSE] \in Permanent
BY DEF Permanent, Connected, Retried

LEMMA SetDaemon ==
  ASSUME TypeOK, NEW c \in Computers, NEW dm \in Daemon
  PROVE  [daemon EXCEPT ![c] = dm] \in [Computers -> Daemon]
BY DEF TypeOK

LEMMA TypesFrom ==
  ASSUME TypeOK, daemon' \in [Computers -> Daemon],
         socket' \in [Sockets -> Socket], queue' \in Queues,
         UNCHANGED stops, breaks' = breaks \/ breaks' = breaks + 1
  PROVE  TypeOK'
<1>1. stops' \in Nat /\ breaks' \in Nat
  BY DEF TypeOK
<1>2. queue' \in [Computers -> [Computers -> Seq([sock : Sockets, msg : Message])]]
  BY DEF Queues, Entry
<1>3. QED
  BY <1>1, <1>2 DEF TypeOK

LEMMA ConnectTypes ==
  ASSUME TypeOK, NEW c \in Computers, NEW d \in Computers, NEW p,
         NEW n \in Sockets, NEW first \in Message, Connect(c, d, p, n, first)
  PROVE  /\ socket' \in [Sockets -> Socket]
         /\ queue' \in Queues
         /\ UNCHANGED <<stops, breaks>>
<1>1. NewSocket(c, d) \in Socket
  BY DEF NewSocket, Socket
<1>2. socket' \in [Sockets -> Socket]
  BY <1>1 DEF Connect, TypeOK
<1>3. queue \in Queues /\ "SYN" \in Message
  BY DEF TypeOK, Queues, Entry, Message
<1>4. Sent(queue, c, d, n, "SYN") \in Queues
  BY <1>3, Sending DEF SentTo
<1>5. Sent(Sent(queue, c, d, n, "SYN"), c, d, n, first) \in Queues
  BY <1>4, Sending DEF SentTo
<1>6. QED
  BY <1>2, <1>5 DEF Connect

LEMMA TimeoutTypes ==
  ASSUME TypeOK, NEW c \in Computers, NEW d \in Computers, Timeout(c, d)
  PROVE  TypeOK'
<1>0. /\ daemon[c] \in Daemon
      /\ daemon[c].f_smaller_ips[d] \in Permanent
      /\ daemon[c].f_gossip_ips[d] \in Permanent
      /\ daemon[c].services_know \in SUBSET Computers
  BY DaemonFields
<1>1. CASE process_connected(c, d)
  <2>1. PICK n \in Sockets :
          /\ Connect(c, d, daemon[c].f_smaller_ips[d], n, "CONNECT")
          /\ daemon' = [daemon EXCEPT ![c].f_smaller_ips[d] = Connected(@, n)]
    BY <1>1 DEF process_connected
  <2>2. Connected(daemon[c].f_smaller_ips[d], n) \in Permanent
    BY <1>0, LinkTypes
  <2>3. daemon' \in [Computers -> Daemon]
    BY <1>0, <2>1, <2>2, SetPermanent, SetDaemon
  <2>4. "CONNECT" \in Message
    BY DEF Message
  <2>5. QED
    BY <2>1, <2>3, <2>4, ConnectTypes, TypesFrom
<1>2. CASE gossip_connected(c, d)
  <2>1. PICK n \in Sockets :
          /\ Connect(c, d, daemon[c].f_gossip_ips[d], n, "GOSSIP")
          /\ daemon' = [daemon EXCEPT ![c].f_gossip_ips[d] = Connected(@, n)]
    BY <1>2 DEF gossip_connected
  <2>2. Connected(daemon[c].f_gossip_ips[d], n) \in Permanent
    BY <1>0, LinkTypes
  <2>3. daemon' \in [Computers -> Daemon]
    BY <1>0, <2>1, <2>2, SetPermanent, SetDaemon
  <2>4. "GOSSIP" \in Message
    BY DEF Message
  <2>5. QED
    BY <2>1, <2>3, <2>4, ConnectTypes, TypesFrom
<1>3. CASE process_connection_failed(c, d)
  <2> DEFINE p == [daemon[c].f_smaller_ips[d] EXCEPT !.f_connected = FALSE]
             dm == [daemon[c] EXCEPT !.f_smaller_ips[d] = p]
  <2>0. PICK name \in SentFrom[c][d] :
          daemon' = [daemon EXCEPT ![c] =
            [daemon[c] EXCEPT !.f_smaller_ips[d].f_connected = FALSE,
                              !.services_know = @ \ {name}]]
    BY <1>3 DEF process_connection_failed
  <2> DEFINE k == daemon[c].services_know \ {name}
  <2>1. p \in Permanent
    BY <1>0 DEF Permanent
  <2>2. k \in SUBSET Computers
    BY <1>0
  <2>3. daemon' = [daemon EXCEPT ![c] = [dm EXCEPT !.services_know = k]]
    BY <2>0, <1>0 DEF Daemon
  <2> HIDE DEF p, k
  <2>4. dm \in Daemon
    BY <1>0, <2>1, SetPermanent
  <2> HIDE DEF dm
  <2>5. daemon' \in [Computers -> Daemon]
    BY <2>2, <2>3, <2>4, SetKnow, SetDaemon
  <2>6. QED
    BY <1>3, <2>5 DEF process_connection_failed, TypeOK
<1>4. QED
  BY <1>1, <1>2, <1>3 DEF Timeout

LEMMA HungUpTypes ==
  ASSUME TypeOK, NEW c \in Computers, NEW d \in Computers
  PROVE  HungUp(c, d) \in Daemon
<1>1. /\ daemon[c] \in Daemon
      /\ daemon[c].f_smaller_ips[d] \in Permanent
      /\ daemon[c].f_gossip_ips[d] \in Permanent
  BY DaemonFields
<1>2. Retried(daemon[c].f_smaller_ips[d]) \in Permanent
      /\ Retried(daemon[c].f_gossip_ips[d]) \in Permanent
  BY <1>1 DEF Retried, Permanent
<1>3. QED
  BY <1>1, <1>2, SetPermanent DEF HungUp

LEMMA LostTypes ==
  ASSUME TypeOK, NEW c \in Computers, NEW d \in Computers, NEW n, NEW hangup,
         Lost(c, d, n, hangup)
  PROVE  daemon' \in [Computers -> Daemon]
<1> DEFINE dm == IF socket[n].from = c THEN HungUp(c, d)
                 ELSE IF hangup /\ socket[n].server_name
                 THEN [daemon[c] EXCEPT !.services_know = @ \ {d}]
                 ELSE daemon[c]
<1>1. daemon[c] \in Daemon /\ daemon[c].services_know \ {d} \in SUBSET Computers
  BY DaemonFields
<1>2. [daemon[c] EXCEPT !.services_know = @ \ {d}] \in Daemon
  BY <1>1, SetKnow
<1>3. dm \in Daemon
  BY <1>1, <1>2, HungUpTypes
<1>4. daemon' = [daemon EXCEPT ![c] = dm]
  BY DEF Lost
<1> HIDE DEF dm
<1>5. QED
  BY <1>3, <1>4, SetDaemon

LEMMA ReplyTypes ==
  ASSUME TypeOK, NEW c \in Computers, NEW d \in Computers, NEW m, Read(c, d, m),
         NEW r \in Message
  PROVE  Sent(Rest(c, d), c, d, SocketRead(c, d), r) \in Queues
BY ReadEvent, Sending DEF SentTo

LEMMA ConnectAnswerTypes ==
  ASSUME TypeOK, NEW c \in Computers, NEW d \in Computers, CONNECT(c, d)
  PROVE  TypeOK'
<1> DEFINE n == SocketRead(c, d)
           named == [socket EXCEPT ![n].server_name = TRUE]
           sk == [socket EXCEPT ![n].server_name = TRUE, ![n].type = "REMOTE"]
           dm == add_neighbors(c, daemon[c], Neighbors[d] \cup {d})
           k == dm.services_know \cup {d}
<1>1. Read(c, d, "CONNECT")
  BY DEF CONNECT
<1>2. n \in Sockets /\ Rest(c, d) \in Queues
  BY <1>1, ReadEvent
<1>3. /\ Sent(Rest(c, d), c, d, n, "REFUSE") \in Queues
      /\ Sent(Rest(c, d), c, d, n, "ACCEPT") \in Queues
  BY <1>1, ReplyTypes DEF Message
<1>a. socket \in [Sockets -> Socket] /\ socket[n] \in Socket
  BY <1>2 DEF TypeOK
<1>b. /\ [socket[n] EXCEPT !.server_name = TRUE] \in Socket
      /\ [socket[n] EXCEPT !.server_name = TRUE, !.type = "REMOTE"] \in Socket
  BY <1>a DEF Socket
<1>4. named \in [Sockets -> Socket]
  BY <1>2, <1>a, <1>b
<1>5. sk \in [Sockets -> Socket]
  <2>1. sk = [socket EXCEPT ![n] = [socket[n] EXCEPT !.server_name = TRUE, !.type = "REMOTE"]]
    BY <1>2, <1>a
  <2>2. QED
    BY <1>2, <1>a, <1>b, <2>1
<1>6. dm \in Daemon
  BY DaemonFields, NeighborTypes, ClusterAssumption
<1>7. k \in SUBSET Computers
  BY <1>6 DEF Daemon
<1>8. cluster_status(c, [dm EXCEPT !.services_know = k], sk) \in Daemon
  <2> HIDE DEF dm, k, sk
  <2>1. QED
    BY <1>6, <1>7, SetKnow, StatusTypes
<1>9. daemon' = daemon \/ daemon' = [daemon EXCEPT ![c] =
        cluster_status(c, [dm EXCEPT !.services_know = k], sk)]
  BY DEF CONNECT
<1>10. socket' \in [Sockets -> Socket]
  BY <1>4, <1>5 DEF CONNECT, TypeOK
<1>11. queue' \in Queues
  BY <1>2, <1>3 DEF CONNECT
<1>12. daemon' \in [Computers -> Daemon]
  <2> HIDE DEF dm, k, sk
  <2>1. QED
    BY <1>8, <1>9, SetDaemon DEF TypeOK
<1>13. QED
  BY <1>10, <1>11, <1>12, TypesFrom DEF CONNECT

LEMMA DisconnectTypes ==
  ASSUME TypeOK, NEW c \in Computers, NEW d \in Computers, DISCONNECT(c, d)
  PROVE  TypeOK'
<1> DEFINE n == SocketRead(c, d)
           ours == socket[n].from = c
           type == IF ours THEN daemon[c].f_smaller_ips[d].type ELSE socket[n].type
           closed == CloseEnd(c, socket, n)
           sk == IF ours THEN closed ELSE [closed EXCEPT ![n].type = "DOWN"]
           perm == daemon[c].f_smaller_ips[d]
           k == daemon[c].services_know \ {d}
           p == IF ours THEN [perm EXCEPT !.sock = None, !.type = "DOWN"] ELSE perm
           dm == [daemon[c] EXCEPT !.services_know = k, !.f_smaller_ips[d] = p]
<1>1. Read(c, d, "DISCONNECT")
  BY DEF DISCONNECT
<1>2. n \in Sockets /\ Rest(c, d) \in Queues
  BY <1>1, ReadEvent
<1>3. closed \in [Sockets -> Socket]
  BY <1>2, ClosedEndTypes DEF TypeOK
<1>4. sk \in [Sockets -> Socket]
  <2> HIDE DEF closed
  <2>1. [closed EXCEPT ![n].type = "DOWN"] \in [Sockets -> Socket]
    BY <1>2, <1>3 DEF Socket
  <2>2. QED
    BY <1>3, <2>1
<1>5. CloseQueue(c, Rest(c, d), n) \in Queues
  BY <1>2, ClosedQueueTypes
<1>6. daemon[c] \in Daemon /\ perm \in Permanent /\ k \in SUBSET Computers
  BY DaemonFields
<1>7. p \in Permanent
  BY <1>6 DEF Permanent
<1>8. dm \in Daemon
  <2> HIDE DEF p, k, perm
  <2>1. [daemon[c] EXCEPT !.services_know = k] \in Daemon
    BY <1>6, SetKnow
  <2>2. QED
    BY <1>7, <2>1, SetPermanent
<1>9. daemon' = daemon \/ daemon' = [daemon EXCEPT ![c] = cluster_status(c, dm, sk)]
  BY DEF DISCONNECT
<1>10. socket' \in [Sockets -> Socket]
  BY <1>4 DEF DISCONNECT, TypeOK
<1>11. queue' \in Queues
  BY <1>2, <1>5 DEF DISCONNECT
<1>12. daemon' \in [Computers -> Daemon]
  <2> HIDE DEF dm, sk
  <2>1. cluster_status(c, dm, sk) \in Daemon
    BY <1>8, StatusTypes
  <2>2. QED
    BY <1>9, <2>1, SetDaemon DEF TypeOK
<1>13. QED
  BY <1>10, <1>11, <1>12, TypesFrom DEF DISCONNECT

LEMMA DeliverTypes ==
  ASSUME TypeOK, NEW c \in Computers, NEW d \in Computers, Deliver(c, d)
  PROVE  TypeOK'
<1> DEFINE n == SocketRead(c, d)
<1>0. /\ daemon[c] \in Daemon
      /\ daemon[c].f_smaller_ips[d] \in Permanent
      /\ daemon[c].services_know \cup {d} \in SUBSET Computers
      /\ Neighbors[d] \in SUBSET Computers
      /\ {d} \in SUBSET Computers
      /\ socket \in [Sockets -> Socket]
  BY DaemonFields, ClusterAssumption DEF TypeOK
<1>1. CASE process_accept(c, d)
  <2>1. n \in Sockets /\ Rest(c, d) \in Queues
    BY <1>1, ReadEvent DEF process_accept
  <2>2. [socket EXCEPT ![n].server = "open"] \in [Sockets -> Socket]
    BY <1>0, <2>1 DEF Socket
  <2>3. QED
    BY <1>1, <2>1, <2>2, TypesFrom DEF process_accept, TypeOK
<1>2. CASE CONNECT(c, d)
  BY <1>2, ConnectAnswerTypes
<1>3. CASE ACCEPT(c, d)
  <2> DEFINE p == [daemon[c].f_smaller_ips[d] EXCEPT !.type = "REMOTE"]
             k == daemon[c].services_know \cup {d}
             dm == [daemon[c] EXCEPT !.f_smaller_ips[d] = p, !.services_know = k]
  <2>1. Rest(c, d) \in Queues
    BY <1>3, ReadEvent DEF ACCEPT
  <2>2. p \in Permanent
    BY <1>0 DEF Permanent
  <2>3. daemon' = [daemon EXCEPT ![c] = add_neighbors(c, dm, Neighbors[d])]
    BY <1>3 DEF ACCEPT
  <2>4. dm \in Daemon
    <3> HIDE DEF p, k
    <3>1. [daemon[c] EXCEPT !.f_smaller_ips[d] = p] \in Daemon
      BY <1>0, <2>2, SetPermanent
    <3>2. k \in SUBSET Computers
      BY <1>0 DEF k
    <3>3. QED
      BY <3>1, <3>2, SetKnow
  <2>5. daemon' \in [Computers -> Daemon]
    <3> HIDE DEF dm
    <3>1. add_neighbors(c, dm, Neighbors[d]) \in Daemon
      BY <1>0, <2>4, NeighborTypes
    <3>2. QED
      BY <2>3, <3>1, SetDaemon
  <2>6. QED
    BY <1>3, <1>0, <2>1, <2>5, TypesFrom DEF ACCEPT
<1>4. CASE REFUSE(c, d)
  <2> DEFINE p == [daemon[c].f_smaller_ips[d] EXCEPT !.sock = None]
  <2>1. n \in Sockets /\ Rest(c, d) \in Queues
    BY <1>4, ReadEvent DEF REFUSE
  <2>2. p \in Permanent
    BY <1>0 DEF Permanent
  <2>3. daemon' = [daemon EXCEPT ![c] = [daemon[c] EXCEPT !.f_smaller_ips[d] = p]]
    BY <1>4 DEF REFUSE
  <2>4. daemon' \in [Computers -> Daemon]
    <3> HIDE DEF p
    <3>1. QED
      BY <1>0, <2>2, <2>3, SetPermanent, SetDaemon
  <2>5. CloseEnd(c, socket, n) \in [Sockets -> Socket]
    BY <1>0, <2>1, ClosedEndTypes
  <2>6. CloseQueue(c, Rest(c, d), n) \in Queues
    BY <2>1, ClosedQueueTypes
  <2>7. QED
    BY <1>4, <2>4, <2>5, <2>6, TypesFrom DEF REFUSE
<1>5. CASE DISCONNECT(c, d)
  BY <1>5, DisconnectTypes
<1>6. CASE GOSSIP(c, d)
  <2> DEFINE dm == add_remote_communicator(c, add_neighbors(c, daemon[c], {d}), {d})
  <2>1. n \in Sockets /\ Rest(c, d) \in Queues
    BY <1>6, ReadEvent DEF GOSSIP
  <2>2. Sent(Rest(c, d), c, d, n, "RECEIVED") \in Queues
    BY <1>6, ReplyTypes DEF GOSSIP, Message
  <2>3. dm \in Daemon
    BY <1>0, NeighborTypes, AddTypes
  <2>4. daemon' = [daemon EXCEPT ![c] = dm]
    BY <1>6 DEF GOSSIP
  <2>5. daemon' \in [Computers -> Daemon]
    <3> HIDE DEF dm
    <3>1. QED
      BY <2>3, <2>4, SetDaemon
  <2>6. QED
    BY <1>0, <1>6, <2>1, <2>2, <2>5, TypesFrom DEF GOSSIP
<1>7. CASE RECEIVED(c, d)
  <2>1. n \in Sockets /\ Rest(c, d) \in Queues
    BY <1>7, ReadEvent DEF RECEIVED
  <2>3. daemon' = [daemon EXCEPT ![c] = [daemon[c] EXCEPT !.f_gossip_ips[d] = NoPermanent]]
    BY <1>7 DEF RECEIVED
  <2>4. daemon' \in [Computers -> Daemon]
    BY <1>0, <2>3, PermanentTypes, SetPermanent, SetDaemon
  <2>5. CloseEnd(c, socket, n) \in [Sockets -> Socket]
    BY <1>0, <2>1, ClosedEndTypes
  <2>6. CloseQueue(c, Rest(c, d), n) \in Queues
    BY <2>1, ClosedQueueTypes
  <2>7. QED
    BY <1>7, <2>4, <2>5, <2>6, TypesFrom DEF RECEIVED
<1>8. CASE process_hup(c, d)
  <2>1. n \in Sockets /\ Rest(c, d) \in Queues
    BY <1>8, ReadEvent DEF process_hup
  <2>2. daemon' \in [Computers -> Daemon]
    BY <1>8, LostTypes DEF process_hup
  <2>3. CloseEnd(c, socket, n) \in [Sockets -> Socket]
    BY <1>0, <2>1, ClosedEndTypes
  <2>4. QED
    BY <1>8, <2>1, <2>2, <2>3, TypesFrom DEF process_hup
<1>9. QED
  BY <1>1, <1>2, <1>3, <1>4, <1>5, <1>6, <1>7, <1>8 DEF Deliver

LEMMA BreakTypes ==
  ASSUME TypeOK, NEW n \in Sockets, Break(n)
  PROVE  TypeOK'
<1>1. socket[n].from \in Computers /\ socket[n].to \in Computers
  BY DEF TypeOK, Socket
<1>2. queue \in Queues
  BY DEF TypeOK, Queues, Entry
<1>3. Purge(queue, socket[n].from, socket[n].to, n) \in Queues
  BY <1>1, <1>2, Purging DEF PurgedFrom
<1>4. queue' \in Queues
  BY <1>1, <1>3, Purging DEF PurgedFrom, Break
<1>5. socket' \in [Sockets -> Socket]
  <2>1. socket[n] \in Socket
    BY DEF TypeOK
  <2>2. [socket[n] EXCEPT !.broken = TRUE,
           !.server = IF @ = "backlog" THEN "closed" ELSE @] \in Socket
    BY <2>1 DEF Socket
  <2>3. QED
    BY <2>2 DEF Break, TypeOK
<1>6. QED
  BY <1>4, <1>5, TypesFrom DEF Break, TypeOK

LEMMA NoticeTypes ==
  ASSUME TypeOK, NEW c \in Computers, NEW n \in Sockets, Notice(c, n)
  PROVE  TypeOK'
<1>1. Other(c, n) \in Computers
  BY DEF Other, TypeOK, Socket
<1>2. daemon' \in [Computers -> Daemon]
  BY <1>1, LostTypes DEF Notice
<1>3. socket' \in [Sockets -> Socket]
  BY ClosedEndTypes DEF Notice, TypeOK
<1>4. queue' \in Queues
  BY DEF Notice, TypeOK, Queues, Entry
<1>5. QED
  BY <1>2, <1>3, <1>4, TypesFrom DEF Notice

LEMMA InitTypes ==
  ASSUME Init
  PROVE  TypeOK
<1>1. PICK x \in Computers : x = CHOOSE c \in Computers : TRUE
  BY ClusterAssumption
<1>2. daemon \in [Computers -> Daemon]
  <2>1. [d \in Computers |-> NoPermanent] \in [Computers -> Permanent]
    BY PermanentTypes
  <2>2. QED
    BY <2>1 DEF Init, Daemon
<1>3. socket \in [Sockets -> Socket]
  BY <1>1 DEF Init, Socket
<1>4. queue \in [Computers -> [Computers -> Seq([sock : Sockets, msg : Message])]]
  BY DEF Init
<1>5. stops \in Nat /\ breaks \in Nat
  BY DEF Init
<1>6. QED
  BY <1>2, <1>3, <1>4, <1>5 DEF TypeOK

LEMMA NextTypes ==
  ASSUME TypeOK, [Next]_vars
  PROVE  TypeOK'
<1>1. ASSUME NEW c \in Computers, Start(c) PROVE TypeOK'
  <2>1. daemon' \in [Computers -> Daemon]
    BY <1>1, StartedTypes, SetDaemon DEF Start
  <2>2. QED
    BY <1>1, <2>1 DEF Start, TypeOK
<1>2. ASSUME NEW c \in Computers, Stop(c) PROVE TypeOK'
  BY <1>2, StopTypes, GoneTypes
<1>3. ASSUME NEW c \in Computers, Crash(c) PROVE TypeOK'
  BY <1>3, CrashWords, GoneTypes
<1>4. CASE UNCHANGED vars
  BY <1>4 DEF vars, TypeOK
<1>5. QED
  BY <1>1, <1>2, <1>3, <1>4, DeliverTypes, TimeoutTypes, BreakTypes, NoticeTypes
     DEF Next

(***************************************************************************)
(* The state of every daemon, socket and queue stays well formed: what a   *)
(* daemon knows of a permanent connection is a socket or none, and every   *)
(* event that is read was sent on a socket (TypeOK).                       *)
(***************************************************************************)
THEOREM ClusterTypes == Spec => []TypeOK
<1>1. Init => TypeOK
  BY InitTypes
<1>2. TypeOK /\ [Next]_vars => TypeOK'
  BY NextTypes
<1>3. QED
  BY <1>1, <1>2, PTL DEF Spec

-----------------------------------------------------------------------------
(***************************************************************************)
(* The invariant.  q is what a sent to b that b has not read, s is socket  *)
(* n: events are only left for an end that is open; SYN, CONNECT and       *)
(* GOSSIP come from the end that connected, the answers from the other     *)
(* one; after a FIN nothing follows, and its sender has closed its end.    *)
(***************************************************************************)
Transit(a, b, n, q, s) ==
  /\ On(q, n) =>
       /\ a # b
       /\ ~s.broken
       /\ \/ s.from = a /\ s.to = b /\ s.server # "closed"
          \/ s.from = b /\ s.to = a /\ s.client
  /\ Has(q, n, "SYN") => s.from = a /\ s.server = "backlog"
  /\ Has(q, n, "CONNECT") => s.from = a /\ b < a
  /\ Has(q, n, "GOSSIP") => s.from = a /\ a < b
  /\ Has(q, n, "ACCEPT") => s.from = b /\ a < b
  /\ Has(q, n, "REFUSE") => s.from = b /\ a < b
  /\ Has(q, n, "RECEIVED") => s.from = b /\ b < a
  /\ Has(q, n, "FIN") => /\ s.from = a => ~s.client
                         /\ s.from = b => s.server = "closed"
  /\ Opens(q, n)
  /\ Closes(q, n)

TransitInv ==
  \A a, b \in Computers : \A n \in Sockets : Transit(a, b, n, queue[a][b], socket[n])

\* a socket in the backlog has its SYN in transit; only computers with a
\* larger address are named, and an accepted one is
SocketOK(n, s, there) ==
  /\ s.client \/ s.server # "closed" => s.from # s.to
  /\ s.server = "backlog" => Has(there, n, "SYN") /\ s.type = "DOWN" /\ ~s.server_name
  /\ s.server # "closed" /\ s.type = "REMOTE" => s.server_name
  /\ s.server # "closed" /\ s.server_name => s.to < s.from

SocketInv ==
  \A n \in Sockets : SocketOK(n, socket[n], queue[socket[n].from][socket[n].to])

\* a daemon has one open connection with a name
SameNames(s, t) ==
  /\ s.server # "closed" /\ t.server # "closed"
  /\ s.to = t.to /\ s.from = t.from
  /\ s.server_name /\ t.server_name

NameInv == \A m, n \in Sockets : SameNames(socket[m], socket[n]) => m = n

\* a permanent connection that was never made, or is forgotten
Unused(p) == ~p.known /\ ~p.enabled /\ p.sock = None /\ p.type = "DOWN"

DaemonOK(c, dm) ==
  \A d \in Computers :
    /\ dm.f_smaller_ips[d].known => d < c /\ dm.up /\ d \in dm.f_all_ips
    /\ ~dm.f_smaller_ips[d].known => Unused(dm.f_smaller_ips[d])
    /\ dm.f_gossip_ips[d].known => c < d /\ dm.up /\ d \in dm.f_all_ips
    /\ ~dm.f_gossip_ips[d].known => Unused(dm.f_gossip_ips[d])

DaemonInv == \A c \in Computers : DaemonOK(c, daemon[c])

\* a permanent connection knows its socket, and no other is open at this end
Link(c, d, n, dm, s) ==
  /\ dm.f_smaller_ips[d].sock = n <=> d < c /\ s.from = c /\ s.to = d /\ s.client
  /\ dm.f_gossip_ips[d].sock = n <=> c < d /\ s.from = c /\ s.to = d /\ s.client

LinkInv ==
  \A c, d \in Computers : \A n \in Sockets : Link(c, d, n, daemon[c], socket[n])

\* the daemon dm was accepted by c, and told its services, which no HANGUP
\* that names another computer than the one lost can undo
Joined(dm, c) ==
  /\ dm.f_smaller_ips[c].type = "REMOTE"
  /\ OwnNames => c \in dm.services_know

\* CONNECT is on its way, or its answer, or both ends agree; an end that is
\* closed is about to be noticed
Exchange(n, s, there, back, joined) ==
  /\ s.client /\ ~s.broken /\ s.to < s.from =>
       \/ Has(there, n, "CONNECT")
       \/ Has(back, n, "REFUSE")
       \/ Has(back, n, "FIN")
       \/ /\ s.server = "open"
          /\ s.type = "REMOTE"
          /\ Has(back, n, "ACCEPT") \/ joined
  /\ s.client /\ ~s.broken /\ s.server = "closed" => Has(back, n, "FIN")
  /\ ~s.client /\ ~s.broken /\ s.server # "closed" => Has(there, n, "FIN")

ExchangeInv ==
  \A n \in Sockets :
    LET c == socket[n].to
        d == socket[n].from
    IN  Exchange(n, socket[n], queue[d][c], queue[c][d], Joined(daemon[d], c))

ClusterInv ==
  /\ TypeOK
  /\ TransitInv
  /\ SocketInv
  /\ NameInv
  /\ DaemonInv
  /\ LinkInv
  /\ ExchangeInv

-----------------------------------------------------------------------------
(***************************************************************************)
(* What an event does to Transit.                                          *)
(***************************************************************************)
LEMMA HasOn ==
  ASSUME NEW q, NEW n, NEW m, Has(q, n, m)
  PROVE  On(q, n)
BY DEF Has, On

LEMMA TransitNone ==
  ASSUME NEW a, NEW b, NEW n, NEW q, NEW s, ~On(q, n)
  PROVE  Transit(a, b, n, q, s)
<1>1. \A m : ~Has(q, n, m)
  BY HasOn
<1>2. Opens(q, n) /\ Closes(q, n)
  BY DEF On, Opens, Closes
<1>3. QED
  BY <1>1, <1>2 DEF Transit

LEMMA TransitRest ==
  ASSUME NEW a, NEW b, NEW n, NEW q, NEW r, NEW s,
         Transit(a, b, n, q, s), IsRest(r, q)
  PROVE  Transit(a, b, n, r, s)
<1>1. On(r, n) => On(q, n)
  BY DEF IsRest
<1>2. \A m : Has(r, n, m) => Has(q, n, m)
  BY DEF IsRest
<1>3. Opens(r, n) /\ Closes(r, n)
  BY DEF IsRest, Transit
<1>4. QED
  BY <1>1, <1>2, <1>3 DEF Transit

LEMMA TransitWithout ==
  ASSUME NEW a, NEW b, NEW n, NEW q, NEW r, NEW s, NEW x,
         Transit(a, b, n, q, s), IsWithout(r, q, x)
  PROVE  Transit(a, b, n, r, s)
<1>1. On(r, n) => On(q, n)
  BY DEF IsWithout
<1>2. \A m : Has(r, n, m) => Has(q, n, m)
  BY DEF IsWithout
<1>3. Opens(r, n) /\ Closes(r, n)
  BY DEF IsWithout, Transit
<1>4. QED
  BY <1>1, <1>2, <1>3 DEF Transit

\* what may be sent by a to b on socket n: s
MaySend(a, b, s, m) ==
  /\ a # b
  /\ ~s.broken
  /\ \/ s.from = a /\ s.to = b /\ s.server # "closed"
     \/ s.from = b /\ s.to = a /\ s.client
  /\ m = "SYN" => s.from = a /\ s.server = "backlog"
  /\ m = "CONNECT" => s.from = a /\ b < a
  /\ m = "GOSSIP" => s.from = a /\ a < b
  /\ m = "ACCEPT" => s.from = b /\ a < b
  /\ m = "REFUSE" => s.from = b /\ a < b
  /\ m = "RECEIVED" => s.from = b /\ b < a
  /\ m = "FIN" => (s.from = a => ~s.client) /\ (s.from = b => s.server = "closed")

LEMMA TransitSent ==
  ASSUME NEW a, NEW b, NEW n, NEW q, NEW r, NEW s, NEW m,
         Transit(a, b, n, q, s), IsSent(r, q, n, m), MaySend(a, b, s, m),
         m = "SYN" => ~On(q, n), ~Has(q, n, "FIN")
  PROVE  Transit(a, b, n, r, s)
<1>1. \A y : Has(r, n, y) <=> Has(q, n, y) \/ y = m
  BY DEF IsSent
<1>2. Opens(r, n)
  BY DEF IsSent, Transit
<1>3. Closes(r, n)
  BY DEF IsSent, Transit
<1>4. QED
  BY <1>1, <1>2, <1>3 DEF Transit, MaySend

LEMMA TransitSentOther ==
  ASSUME NEW a, NEW b, NEW n, NEW q, NEW r, NEW s, NEW m, NEW x,
         Transit(a, b, x, q, s), IsSent(r, q, n, m), x # n,
         m = "SYN" => ~On(q, n), ~Has(q, n, "FIN")
  PROVE  Transit(a, b, x, r, s)
<1>1. \A y : Has(r, x, y) <=> Has(q, x, y)
  BY DEF IsSent
<1>2. On(r, x) <=> On(q, x)
  BY DEF IsSent
<1>3. Opens(r, x)
  BY DEF IsSent, Transit
<1>4. Closes(r, x)
  BY DEF IsSent, Transit
<1>5. QED
  BY <1>1, <1>2, <1>3, <1>4 DEF Transit

LEMMA TransitSame ==
  ASSUME NEW a, NEW b, NEW n, NEW q, NEW s, NEW t, Transit(a, b, n, q, s),
         t.from = s.from, t.to = s.to, t.client = s.client,
         t.server = s.server, t.broken = s.broken
  PROVE  Transit(a, b, n, q, t)
BY DEF Transit

LEMMA TransitOpened ==
  ASSUME NEW a, NEW b, NEW n, NEW q, NEW s, NEW t, Transit(a, b, n, q, s),
         t.from = s.from, t.to = s.to, t.client = s.client, t.broken = s.broken,
         s.server = "backlog", t.server = "open", ~Has(q, n, "SYN")
  PROVE  Transit(a, b, n, q, t)
BY DEF Transit

\* the end of c of socket s is closed: t
EndClosed(c, s, t) ==
  /\ t.from = s.from /\ t.to = s.to /\ t.broken = s.broken
  /\ t.server_name = s.server_name
  /\ t.type \in {s.type, "DOWN"}
  /\ s.from = c => ~t.client /\ t.server = s.server /\ t.type = s.type
  /\ s.from # c => t.server = "closed" /\ t.client = s.client

LEMMA TransitClosed ==
  ASSUME NEW a, NEW b, NEW n, NEW q, NEW s, NEW t, NEW c, Transit(a, b, n, q, s),
         EndClosed(c, s, t), b = c => ~On(q, n), c \in {s.from, s.to}
  PROVE  Transit(a, b, n, q, t)
<1>1. CASE ~On(q, n)
  BY <1>1, TransitNone
<1>2. CASE On(q, n)
  BY <1>2 DEF Transit, EndClosed
<1>3. QED
  BY <1>1, <1>2

-----------------------------------------------------------------------------
(***************************************************************************)
(* The event m that c reads from d, on socket n: s; r is what is left.     *)
(***************************************************************************)
HeadOK(c, d, m, n, s, r) ==
  /\ n \in Sockets
  /\ c # d
  /\ ~s.broken
  /\ \/ s.from = d /\ s.to = c /\ s.server # "closed"
     \/ s.from = c /\ s.to = d /\ s.client
  /\ m = "SYN" => s.from = d /\ s.server = "backlog"
  /\ m = "CONNECT" => s.from = d /\ c < d
  /\ m = "GOSSIP" => s.from = d /\ d < c
  /\ m = "ACCEPT" => s.from = c /\ d < c
  /\ m = "REFUSE" => s.from = c /\ d < c
  /\ m = "RECEIVED" => s.from = c /\ c < d
  /\ m = "FIN" => /\ s.from = d => ~s.client
                  /\ s.from = c => s.server = "closed"
                  /\ ~On(r, n)
  /\ m # "SYN" /\ s.from = d => s.server = "open"
  /\ ~Has(r, n, "SYN")

LEMMA HeadRead ==
  ASSUME TypeOK, TransitInv, SocketInv, NEW c \in Computers, NEW d \in Computers,
         NEW m, Read(c, d, m)
  PROVE  HeadOK(c, d, m, SocketRead(c, d), socket[SocketRead(c, d)],
                Rest(c, d)[d][c])
<1> DEFINE n == SocketRead(c, d)
           s == socket[n]
           q == queue[d][c]
           r == Rest(c, d)[d][c]
<1>1. n \in Sockets /\ n = Head(q).sock /\ m = Head(q).msg /\ IsRest(r, q)
  BY ReadEvent DEF TakenFrom
<1>2. Transit(d, c, n, q, s)
  BY <1>1 DEF TransitInv
<1>3. s.server \in {"backlog", "open", "closed"}
  BY <1>1 DEF TypeOK, Socket
<1>4. s.from = d /\ s.to = c => SocketOK(n, s, q)
  BY <1>1 DEF SocketInv
<1> HIDE DEF n, s, q, r
<1>5. On(q, n) /\ Has(q, n, m)
  BY <1>1 DEF IsRest
<1>6. ~Has(r, n, "SYN")
  BY <1>1, <1>2 DEF IsRest, Transit
<1>7. m = "FIN" => ~On(r, n)
  BY <1>1, <1>2 DEF IsRest, Transit
<1>8. Has(q, n, "SYN") => m = "SYN"
  BY <1>1, <1>6 DEF IsRest
<1>9. /\ d # c
      /\ ~s.broken
      /\ \/ s.from = d /\ s.to = c /\ s.server # "closed"
         \/ s.from = c /\ s.to = d /\ s.client
  BY <1>2, <1>5 DEF Transit
<1>10. m # "SYN" /\ s.from = d => s.server = "open"
  BY <1>3, <1>4, <1>8, <1>9 DEF SocketOK
<1>11. HeadOK(c, d, m, n, s, r)
  BY <1>1, <1>2, <1>5, <1>6, <1>7, <1>9, <1>10 DEF HeadOK, Transit
<1>12. QED
  BY <1>11 DEF n, s, q, r

\* what is left is fine
LEMMA RestTransit ==
  ASSUME TypeOK, TransitInv, NEW c \in Computers, NEW d \in Computers,
         NEW m, Read(c, d, m), NEW a \in Computers, NEW b \in Computers,
         NEW n \in Sockets
  PROVE  Transit(a, b, n, Rest(c, d)[a][b], socket[n])
<1>1. TakenFrom(Rest(c, d), c, d)
  BY ReadEvent
<1>2. Transit(a, b, n, queue[a][b], socket[n])
  BY DEF TransitInv
<1>3. CASE a = d /\ b = c
  BY <1>1, <1>2, <1>3, TransitRest DEF TakenFrom
<1>4. CASE ~(a = d /\ b = c)
  BY <1>1, <1>2, <1>4 DEF TakenFrom, OnlyQueue
<1>5. QED
  BY <1>3, <1>4

\* no event other than the one that was read is gone
LEMMA RestHas ==
  ASSUME TypeOK, NEW c \in Computers, NEW d \in Computers, NEW m, Read(c, d, m),
         NEW a \in Computers, NEW b \in Computers, NEW x, NEW y,
         Has(queue[a][b], x, y), ~(a = d /\ b = c /\ x = SocketRead(c, d) /\ y = m)
  PROVE  Has(Rest(c, d)[a][b], x, y)
<1>1. /\ TakenFrom(Rest(c, d), c, d)
      /\ SocketRead(c, d) = Head(queue[d][c]).sock
      /\ m = Head(queue[d][c]).msg
  BY ReadEvent
<1>2. CASE a = d /\ b = c
  BY <1>1, <1>2 DEF TakenFrom, IsRest
<1>3. CASE ~(a = d /\ b = c)
  BY <1>1, <1>3 DEF TakenFrom, OnlyQueue
<1>4. QED
  BY <1>2, <1>3

\* c closes its end of socket n
ClosedWith(r, q, c, d, n, told) ==
  /\ r \in Queues
  /\ IsWithout(r[d][c], q[d][c], n)
  /\ told => IsSent(r[c][d], q[c][d], n, "FIN")
  /\ ~told => r[c][d] = q[c][d]
  /\ \A a, b \in Computers :
       ~(a = d /\ b = c) /\ ~(a = c /\ b = d) => r[a][b] = q[a][b]

LEMMA Closing ==
  ASSUME TypeOK, NEW q \in Queues, NEW c \in Computers, NEW d \in Computers,
         NEW n \in Sockets, c # d, Other(c, n) = d
  PROVE  ClosedWith(CloseQueue(c, q, n), q, c, d, n,
                    IsOpen(d, n) /\ ~socket[n].broken)
<1> DEFINE p == Purge(q, c, d, n)
           f == Sent(p, c, d, n, "FIN")
           r == CloseQueue(c, q, n)
<1>1. PurgedFrom(p, q, c, d, n)
  BY Purging
<1>2. p \in Queues
  BY <1>1 DEF PurgedFrom
<1>3. SentTo(f, p, c, d, n, "FIN")
  <2>1. "FIN" \in Message
    BY DEF Message
  <2> HIDE DEF p
  <2>2. QED
    BY <1>2, <2>1, Sending
<1>4. r = IF IsOpen(d, n) /\ ~socket[n].broken THEN f ELSE p
  BY DEF CloseQueue
<1> HIDE DEF p, f, r
<1>5. CASE IsOpen(d, n) /\ ~socket[n].broken
  BY <1>1, <1>3, <1>4, <1>5 DEF PurgedFrom, SentTo, OnlyQueue, ClosedWith, r
<1>6. CASE ~(IsOpen(d, n) /\ ~socket[n].broken)
  BY <1>1, <1>4, <1>6 DEF PurgedFrom, OnlyQueue, ClosedWith, r
<1>7. QED
  BY <1>5, <1>6

LEMMA EndCloses ==
  ASSUME NEW sk \in [Sockets -> Socket], NEW c, NEW n \in Sockets
  PROVE  /\ EndClosed(c, sk[n], CloseEnd(c, sk, n)[n])
         /\ \A x \in Sockets : x # n => CloseEnd(c, sk, n)[x] = sk[x]
<1>1. sk[n] \in Socket
  OBVIOUS
<1>2. CASE sk[n].from = c
  BY <1>1, <1>2 DEF CloseEnd, EndClosed, Socket
<1>3. CASE sk[n].from # c
  BY <1>1, <1>3 DEF CloseEnd, EndClosed, Socket
<1>4. QED
  BY <1>2, <1>3

-----------------------------------------------------------------------------
(***************************************************************************)
(* c closes its end of the socket on which it read m.                      *)
(***************************************************************************)
OtherSockets(n) == \A x \in Sockets : x # n => socket'[x] = socket[x]

CloseStep(c, d, m) ==
  /\ Read(c, d, m)
  /\ EndClosed(c, socket[SocketRead(c, d)], socket'[SocketRead(c, d)])
  /\ OtherSockets(SocketRead(c, d))
  /\ queue' = CloseQueue(c, Rest(c, d), SocketRead(c, d))

\* computers that are still joined, as far as it matters
JoinedStill ==
  \A x \in Sockets :
    LET c == socket[x].to
        d == socket[x].from
    IN  socket'[x].client /\ c < d /\ Joined(daemon[d], c) => Joined(daemon'[d], c)

\* what CloseStep leaves in the queues
LEMMA ClosedHas ==
  ASSUME ClusterInv, TypeOK', NEW c \in Computers, NEW d \in Computers, NEW m,
         CloseStep(c, d, m), NEW a \in Computers, NEW b \in Computers,
         NEW x \in Sockets, NEW y, Has(queue[a][b], x, y),
         x = SocketRead(c, d) => ~(a = d /\ b = c)
  PROVE  Has(queue'[a][b], x, y)
<1> DEFINE n == SocketRead(c, d)
           q == Rest(c, d)
<1>0. TypeOK /\ TransitInv /\ SocketInv /\ Read(c, d, m)
  BY DEF ClusterInv, CloseStep
<1>1. HeadOK(c, d, m, n, socket[n], q[d][c])
  BY <1>0, HeadRead
<1>2. q \in Queues /\ n \in Sockets
  BY <1>0, ReadEvent
<1>3. c # d /\ Other(c, n) = d
  BY <1>1 DEF HeadOK, Other
<1>4. ClosedWith(queue', q, c, d, n, IsOpen(d, n) /\ ~socket[n].broken)
  BY <1>0, <1>2, <1>3, Closing DEF CloseStep
<1>5. Has(q[a][b], x, y)
  BY <1>0, RestHas
<1> HIDE DEF n, q
<1>6. CASE a = d /\ b = c
  <2>1. x # n
    BY <1>6 DEF n
  <2>2. QED
    BY <1>4, <1>5, <1>6, <2>1 DEF ClosedWith, IsWithout
<1>7. CASE a = c /\ b = d
  BY <1>4, <1>5, <1>7 DEF ClosedWith, IsSent
<1>8. CASE ~(a = d /\ b = c) /\ ~(a = c /\ b = d)
  BY <1>4, <1>5, <1>8 DEF ClosedWith
<1>9. QED
  BY <1>6, <1>7, <1>8

LEMMA ClosedTransit ==
  ASSUME ClusterInv, NEW c \in Computers, NEW d \in Computers, NEW m,
         CloseStep(c, d, m)
  PROVE  TransitInv'
<1> DEFINE n == SocketRead(c, d)
           q == Rest(c, d)
           told == IsOpen(d, n) /\ ~socket[n].broken
<1>0. TypeOK /\ TransitInv /\ SocketInv /\ Read(c, d, m)
  BY DEF ClusterInv, CloseStep
<1>1. HeadOK(c, d, m, n, socket[n], q[d][c])
  BY <1>0, HeadRead
<1>2. q \in Queues /\ n \in Sockets
  BY <1>0, ReadEvent
<1>3. c # d /\ Other(c, n) = d
  BY <1>1 DEF HeadOK, Other
<1>4. ClosedWith(queue', q, c, d, n, told)
  BY <1>0, <1>2, <1>3, Closing DEF CloseStep
<1>5. EndClosed(c, socket[n], socket'[n]) /\ OtherSockets(n)
  BY DEF CloseStep
<1>6. \A a, b \in Computers : \A x \in Sockets : Transit(a, b, x, q[a][b], socket[x])
  BY <1>0, RestTransit
<1>7. told => MaySend(c, d, socket'[n], "FIN")
  BY <1>1, <1>5 DEF HeadOK, EndClosed, MaySend, IsOpen
<1>8. c \in {socket[n].from, socket[n].to} /\ d \in {socket[n].from, socket[n].to}
  BY <1>1 DEF HeadOK
<1> HIDE DEF n, q, told
<1>9. ~Has(q[c][d], n, "FIN")
  <2>1. Transit(c, d, n, q[c][d], socket[n])
    BY <1>2, <1>6
  <2>2. QED
    BY <1>1, <2>1 DEF HeadOK, Transit
<1>10. ASSUME NEW a \in Computers, NEW b \in Computers, NEW x \in Sockets
       PROVE  Transit(a, b, x, queue'[a][b], socket'[x])
  <2>0. Transit(a, b, x, q[a][b], socket[x])
    BY <1>6
  <2>1. CASE x # n
    <3>0. socket'[x] = socket[x]
      BY <1>5, <2>1 DEF OtherSockets
    <3>1. CASE a = d /\ b = c
      BY <1>4, <2>0, <3>0, <3>1, TransitWithout DEF ClosedWith
    <3>2. CASE a = c /\ b = d
      <4>1. CASE told
        <5>1. IsSent(queue'[a][b], q[a][b], n, "FIN")
          BY <1>4, <3>2, <4>1 DEF ClosedWith
        <5>2. ~Has(q[a][b], n, "FIN")
          BY <1>9, <3>2
        <5>3. Transit(a, b, x, queue'[a][b], socket[x])
          BY <2>0, <2>1, <5>1, <5>2, TransitSentOther
        <5>4. QED
          BY <3>0, <5>3
      <4>2. CASE ~told
        BY <1>4, <2>0, <3>0, <3>2, <4>2 DEF ClosedWith
      <4>3. QED
        BY <4>1, <4>2
    <3>3. CASE ~(a = d /\ b = c) /\ ~(a = c /\ b = d)
      BY <1>4, <2>0, <3>0, <3>3 DEF ClosedWith
    <3>4. QED
      BY <3>1, <3>2, <3>3
  <2>2. CASE x = n
    <3>1. CASE a = d /\ b = c
      <4>1. ~On(queue'[a][b], n)
        BY <1>4, <3>1 DEF ClosedWith, IsWithout
      <4>2. QED
        BY <2>2, <4>1, TransitNone
    <3>2. ~(a = d /\ b = c) => Transit(a, b, n, q[a][b], socket'[n])
      <4> SUFFICES ASSUME ~(a = d /\ b = c)
          PROVE  Transit(a, b, n, q[a][b], socket'[n])
        OBVIOUS
      <4>1. b = c => ~On(q[a][b], n)
        BY <1>3, <1>8, <2>0, <2>2 DEF Transit
      <4>2. Transit(a, b, n, q[a][b], socket[n])
        BY <2>0, <2>2
      <4>3. QED
        BY <1>5, <1>8, <4>1, <4>2, TransitClosed
    <3>3. CASE a = c /\ b = d
      <4>1. Transit(a, b, n, q[a][b], socket'[n])
        BY <1>3, <3>2, <3>3
      <4>2. CASE told
        <5>1. IsSent(queue'[a][b], q[a][b], n, "FIN")
          BY <1>4, <3>3, <4>2 DEF ClosedWith
        <5>2. ~Has(q[a][b], n, "FIN") /\ MaySend(a, b, socket'[n], "FIN")
          BY <1>7, <1>9, <3>3, <4>2
        <5>3. Transit(a, b, n, queue'[a][b], socket'[n])
          BY <4>1, <5>1, <5>2, TransitSent
        <5>4. QED
          BY <2>2, <5>3
      <4>3. CASE ~told
        BY <1>4, <2>2, <3>3, <4>1, <4>3 DEF ClosedWith
      <4>4. QED
        BY <4>2, <4>3
    <3>4. CASE ~(a = d /\ b = c) /\ ~(a = c /\ b = d)
      BY <1>4, <2>2, <3>2, <3>4 DEF ClosedWith
    <3>5. QED
      BY <3>1, <3>3, <3>4
  <2>3. QED
    BY <2>1, <2>2
<1>11. QED
  BY <1>10 DEF TransitInv

LEMMA ClosedSockets ==
  ASSUME ClusterInv, TypeOK', NEW c \in Computers, NEW d \in Computers, NEW m,
         CloseStep(c, d, m)
  PROVE  SocketInv' /\ NameInv'
<1> DEFINE n == SocketRead(c, d)
<1>0. TypeOK /\ TransitInv /\ SocketInv /\ NameInv /\ Read(c, d, m)
  BY DEF ClusterInv, CloseStep
<1>1. HeadOK(c, d, m, n, socket[n], Rest(c, d)[d][c])
  BY <1>0, HeadRead
<1>2. n \in Sockets
  BY <1>0, ReadEvent
<1>3. EndClosed(c, socket[n], socket'[n]) /\ OtherSockets(n)
  BY DEF CloseStep
<1>4. ASSUME NEW x \in Sockets
      PROVE  SocketOK(x, socket'[x], queue'[socket'[x].from][socket'[x].to])
  <2>0. SocketOK(x, socket[x], queue[socket[x].from][socket[x].to])
    BY <1>0 DEF SocketInv
  <2>1. socket[x].from \in Computers /\ socket[x].to \in Computers
    BY <1>0 DEF TypeOK, Socket
  <2>2. CASE x # n
    <3>1. socket'[x] = socket[x]
      BY <1>3, <2>2 DEF OtherSockets
    <3>2. Has(queue[socket[x].from][socket[x].to], x, "SYN")
          => Has(queue'[socket[x].from][socket[x].to], x, "SYN")
      BY <2>1, <2>2, ClosedHas
    <3>3. QED
      BY <2>0, <3>1, <3>2 DEF SocketOK
  <2>3. CASE x = n
    <3>1. socket'[n].from = socket[n].from /\ socket'[n].to = socket[n].to
      BY <1>3 DEF EndClosed
    <3>2. CASE socket[n].from = c
      <4>1. Has(queue[socket[n].from][socket[n].to], n, "SYN")
            => Has(queue'[socket[n].from][socket[n].to], n, "SYN")
        <5>1. ~(socket[n].from = d /\ socket[n].to = c)
          BY <1>1, <3>2 DEF HeadOK
        <5>2. QED
          BY <1>2, <2>1, <2>3, <5>1, ClosedHas
      <4>2. QED
        BY <1>3, <2>0, <2>3, <3>1, <3>2, <4>1 DEF SocketOK, EndClosed
    <3>3. CASE socket[n].from # c
      BY <1>3, <2>0, <2>3, <3>3 DEF SocketOK, EndClosed
    <3>4. QED
      BY <3>2, <3>3
  <2>4. QED
    BY <2>2, <2>3
<1>5. ASSUME NEW x \in Sockets, NEW y \in Sockets,
             SameNames(socket'[x], socket'[y])
      PROVE  x = y
  <2>1. ASSUME NEW z \in Sockets
        PROVE  /\ socket'[z].server # "closed" => socket[z].server # "closed"
               /\ socket'[z].from = socket[z].from
               /\ socket'[z].to = socket[z].to
               /\ socket'[z].server_name = socket[z].server_name
    BY <1>3 DEF EndClosed, OtherSockets
  <2>2. SameNames(socket[x], socket[y])
    BY <1>5, <2>1 DEF SameNames
  <2>3. QED
    BY <1>0, <2>2 DEF NameInv
<1>6. QED
  BY <1>4, <1>5 DEF SocketInv, NameInv

LEMMA ClosedExchange ==
  ASSUME ClusterInv, TypeOK', NEW c \in Computers, NEW d \in Computers, NEW m,
         CloseStep(c, d, m), JoinedStill
  PROVE  ExchangeInv'
<1> DEFINE n == SocketRead(c, d)
           q == Rest(c, d)
           told == IsOpen(d, n) /\ ~socket[n].broken
<1>0. TypeOK /\ TransitInv /\ SocketInv /\ ExchangeInv /\ Read(c, d, m)
  BY DEF ClusterInv, CloseStep
<1>1. HeadOK(c, d, m, n, socket[n], q[d][c])
  BY <1>0, HeadRead
<1>2. q \in Queues /\ n \in Sockets
  BY <1>0, ReadEvent
<1>3. c # d /\ Other(c, n) = d
  BY <1>1 DEF HeadOK, Other
<1>4. ClosedWith(queue', q, c, d, n, told)
  BY <1>0, <1>2, <1>3, Closing DEF CloseStep
<1>5. EndClosed(c, socket[n], socket'[n]) /\ OtherSockets(n)
  BY DEF CloseStep
<1>6. told => Has(queue'[c][d], n, "FIN")
  BY <1>4 DEF ClosedWith, IsSent
<1>7. ASSUME NEW x \in Sockets
      PROVE  Exchange(x, socket'[x], queue'[socket'[x].from][socket'[x].to],
                      queue'[socket'[x].to][socket'[x].from],
                      Joined(daemon'[socket'[x].from], socket'[x].to))
  <2> DEFINE f == socket[x].from
             t == socket[x].to
  <2>0. Exchange(x, socket[x], queue[f][t], queue[t][f], Joined(daemon[f], t))
    BY <1>0 DEF ExchangeInv
  <2>1. f \in Computers /\ t \in Computers
    BY <1>0 DEF TypeOK, Socket
  <2>2. CASE x # n
    <3>1. socket'[x] = socket[x]
      BY <1>5, <2>2 DEF OtherSockets
    <3>2. \A y : Has(queue[f][t], x, y) => Has(queue'[f][t], x, y)
      BY <2>1, <2>2, ClosedHas
    <3>3. \A y : Has(queue[t][f], x, y) => Has(queue'[t][f], x, y)
      BY <2>1, <2>2, ClosedHas
    <3>4. socket[x].client /\ t < f /\ Joined(daemon[f], t) => Joined(daemon'[f], t)
      BY <3>1 DEF JoinedStill
    <3>5. Exchange(x, socket[x], queue'[f][t], queue'[t][f], Joined(daemon'[f], t))
      <4> HIDE DEF f, t
      <4>1. socket[x].from = f /\ socket[x].to = t
        BY DEF f, t
      <4>2. QED
        BY <2>0, <3>2, <3>3, <3>4, <4>1 DEF Exchange
    <3>6. QED
      BY <3>1, <3>5
  <2>3. CASE x = n
    <3>1. socket'[n].from = socket[n].from /\ socket'[n].to = socket[n].to
          /\ socket'[n].broken = socket[n].broken
      BY <1>5 DEF EndClosed
    <3>2. CASE socket[n].from = c
      <4>1. f = c /\ t = d
        BY <1>1, <2>3, <3>2 DEF HeadOK
      <4>2. ~socket'[n].client /\ socket'[n].server = socket[n].server
        BY <1>5, <3>2 DEF EndClosed
      <4>3. ~socket[n].broken /\ socket[n].server # "closed" => told
        BY <1>3, <3>2 DEF IsOpen
      <4>4. QED
        BY <1>6, <2>3, <3>1, <4>1, <4>2, <4>3 DEF Exchange
    <3>3. CASE socket[n].from # c
      <4>1. f = d /\ t = c
        BY <1>1, <2>3, <3>3 DEF HeadOK
      <4>2. socket'[n].client = socket[n].client /\ socket'[n].server = "closed"
        BY <1>5, <3>3 DEF EndClosed
      <4>3. ~socket[n].broken /\ socket[n].client => told
        BY <2>3, <4>1 DEF IsOpen
      <4>4. QED
        BY <1>6, <2>3, <3>1, <4>1, <4>2, <4>3 DEF Exchange
    <3>4. QED
      BY <3>2, <3>3
  <2>4. QED
    BY <2>2, <2>3
<1>8. QED
  BY <1>7 DEF ExchangeInv

-----------------------------------------------------------------------------
(***************************************************************************)
(* The daemon that takes a step.                                           *)
(***************************************************************************)
OnlyDaemon(c) == \A x \in Computers : x # c => daemon'[x] = daemon[x]

SameLinks(dm, r) ==
  \A d \in Computers :
    /\ r.f_smaller_ips[d].sock = dm.f_smaller_ips[d].sock
    /\ r.f_gossip_ips[d].sock = dm.f_gossip_ips[d].sock

\* d no longer has a socket, if its connection was ours
LinkClosed(c, d, n, dm, r) ==
  \A x \in Computers :
    /\ x # d \/ socket[n].from # c =>
         /\ r.f_smaller_ips[x].sock = dm.f_smaller_ips[x].sock
         /\ r.f_gossip_ips[x].sock = dm.f_gossip_ips[x].sock
    /\ x = d /\ socket[n].from = c =>
         /\ r.f_smaller_ips[x].sock = None
         /\ r.f_gossip_ips[x].sock = None

LEMMA NoneIsNone ==
  ASSUME NEW n \in Sockets
  PROVE  n # None
BY DEF Sockets, None

LEMMA ClosedLinks ==
  ASSUME TypeOK, LinkInv, NEW c \in Computers, NEW d \in Computers, NEW n \in Sockets,
         EndClosed(c, socket[n], socket'[n]), OtherSockets(n), OnlyDaemon(c),
         LinkClosed(c, d, n, daemon[c], daemon'[c]), c # d,
         socket[n].from = c => socket[n].to = d /\ socket[n].client
  PROVE  LinkInv'
<1>1. ASSUME NEW a \in Computers, NEW b \in Computers, NEW x \in Sockets
      PROVE  Link(a, b, x, daemon'[a], socket'[x])
  <2>0. Link(a, b, x, daemon[a], socket[x]) /\ Link(a, b, n, daemon[a], socket[n])
    BY DEF LinkInv
  <2>1. x # n => socket'[x] = socket[x]
    BY DEF OtherSockets
  <2>2. a # c => daemon'[a] = daemon[a]
    BY DEF OnlyDaemon
  <2>3. a \in Nat /\ b \in Nat
    BY NumberedComputers
  <2>4. x # None
    BY NoneIsNone
  <2>5. CASE a # c
    <3>1. CASE x # n
      BY <2>0, <2>1, <2>2, <2>5, <3>1
    <3>2. CASE x = n
      BY <2>0, <2>2, <2>5, <3>2 DEF Link, EndClosed
    <3>3. QED
      BY <3>1, <3>2
  <2>6. CASE a = c
    <3>1. CASE b # d \/ socket[n].from # c
      <4>1. /\ daemon'[a].f_smaller_ips[b].sock = daemon[a].f_smaller_ips[b].sock
            /\ daemon'[a].f_gossip_ips[b].sock = daemon[a].f_gossip_ips[b].sock
        BY <2>6, <3>1 DEF LinkClosed
      <4>2. CASE x # n
        BY <2>0, <2>1, <4>1, <4>2 DEF Link
      <4>3. CASE x = n
        BY <2>0, <2>6, <3>1, <4>1, <4>3 DEF Link, EndClosed
      <4>4. QED
        BY <4>2, <4>3
    <3>2. CASE b = d /\ socket[n].from = c
      <4>1. /\ daemon'[a].f_smaller_ips[b].sock = None
            /\ daemon'[a].f_gossip_ips[b].sock = None
        BY <2>6, <3>2 DEF LinkClosed
      <4>2. CASE x = n
        BY <2>4, <2>6, <3>2, <4>1, <4>2 DEF Link, EndClosed
      <4>3. CASE x # n
        BY <2>0, <2>1, <2>3, <2>4, <2>6, <3>2, <4>1, <4>3 DEF Link
      <4>4. QED
        BY <4>2, <4>3
    <3>3. QED
      BY <3>1, <3>2
  <2>7. QED
    BY <2>5, <2>6
<1>2. QED
  BY <1>1 DEF LinkInv

LEMMA SameLinksKept ==
  ASSUME LinkInv, NEW c \in Computers, OnlyDaemon(c),
         SameLinks(daemon[c], daemon'[c]),
         \A n \in Sockets : /\ socket'[n].from = socket[n].from
                            /\ socket'[n].to = socket[n].to
                            /\ socket'[n].client = socket[n].client
  PROVE  LinkInv'
<1>1. ASSUME NEW a \in Computers, NEW b \in Computers, NEW x \in Sockets
      PROVE  Link(a, b, x, daemon'[a], socket'[x])
  <2>0. Link(a, b, x, daemon[a], socket[x])
    BY DEF LinkInv
  <2>1. /\ daemon'[a].f_smaller_ips[b].sock = daemon[a].f_smaller_ips[b].sock
        /\ daemon'[a].f_gossip_ips[b].sock = daemon[a].f_gossip_ips[b].sock
    BY DEF OnlyDaemon, SameLinks
  <2>2. QED
    BY <2>0, <2>1 DEF Link
<1>2. QED
  BY <1>1 DEF LinkInv

(***************************************************************************)
(* A daemon that hears of addresses: r in place of dm.                     *)
(***************************************************************************)
Grown(c, dm, r) ==
  /\ r \in Daemon
  /\ r.up = dm.up
  /\ r.services_know = dm.services_know
  /\ SameLinks(dm, r)
  /\ \A d \in Computers : r.f_smaller_ips[d].type = dm.f_smaller_ips[d].type
  /\ DaemonOK(c, r)

LEMMA GrownAdd ==
  ASSUME NEW c \in Computers, NEW dm \in Daemon, NEW A \in SUBSET Computers,
         DaemonOK(c, dm), dm.up
  PROVE  Grown(c, dm, add_remote_communicator(c, dm, A))
<1> DEFINE others == A \ {c}
           new == others \ dm.f_all_ips
           small(d) == IF d < c /\ d \in new THEN NewPermanent
                       ELSE IF d \in others /\ dm.f_smaller_ips[d].known
                               /\ dm.f_smaller_ips[d].sock = None
                       THEN [dm.f_smaller_ips[d] EXCEPT !.enabled = TRUE]
                       ELSE dm.f_smaller_ips[d]
           gossip(d) == IF d > c /\ d \in new THEN NewPermanent ELSE dm.f_gossip_ips[d]
           r == add_remote_communicator(c, dm, A)
<1>1. r = [dm EXCEPT !.f_all_ips = dm.f_all_ips \cup new,
                     !.f_smaller_ips = [d \in Computers |-> small(d)],
                     !.f_gossip_ips = [d \in Computers |-> gossip(d)]]
  BY DEF add_remote_communicator
<1>2. r \in Daemon
  BY AddTypes
<1>3. /\ r.up = dm.up
      /\ r.services_know = dm.services_know
      /\ r.f_all_ips = dm.f_all_ips \cup new
      /\ \A d \in Computers : r.f_smaller_ips[d] = small(d) /\ r.f_gossip_ips[d] = gossip(d)
  <2> HIDE DEF r, small, gossip, new
  <2>1. QED
    BY <1>1 DEF Daemon
<1> HIDE DEF r
<1>4. ASSUME NEW d \in Computers
      PROVE  /\ small(d).sock = dm.f_smaller_ips[d].sock
             /\ small(d).type = dm.f_smaller_ips[d].type
             /\ small(d).known => d < c /\ d \in dm.f_all_ips \cup new
             /\ ~small(d).known => Unused(small(d))
  <2>1. dm.f_smaller_ips[d] \in Permanent
    BY DEF Daemon
  <2>2. /\ dm.f_smaller_ips[d].known => d < c /\ d \in dm.f_all_ips
        /\ ~dm.f_smaller_ips[d].known => Unused(dm.f_smaller_ips[d])
    BY DEF DaemonOK
  <2>3. CASE d < c /\ d \in new
    BY <2>2, <2>3, PermanentTypes DEF Unused
  <2>4. CASE ~(d < c /\ d \in new) /\ d \in others /\ dm.f_smaller_ips[d].known
             /\ dm.f_smaller_ips[d].sock = None
    BY <2>1, <2>2, <2>4 DEF Permanent
  <2>5. CASE /\ ~(d < c /\ d \in new)
             /\ ~(d \in others /\ dm.f_smaller_ips[d].known
                  /\ dm.f_smaller_ips[d].sock = None)
    BY <2>2, <2>5
  <2>6. QED
    BY <2>3, <2>4, <2>5
<1>5. ASSUME NEW d \in Computers
      PROVE  /\ gossip(d).sock = dm.f_gossip_ips[d].sock
             /\ gossip(d).known => c < d /\ d \in dm.f_all_ips \cup new
             /\ ~gossip(d).known => Unused(gossip(d))
  <2>2. /\ dm.f_gossip_ips[d].known => c < d /\ d \in dm.f_all_ips
        /\ ~dm.f_gossip_ips[d].known => Unused(dm.f_gossip_ips[d])
    BY DEF DaemonOK
  <2>3. CASE d > c /\ d \in new
    BY <2>2, <2>3, PermanentTypes, NumberedComputers DEF Unused
  <2>4. CASE ~(d > c /\ d \in new)
    BY <2>2, <2>4
  <2>5. QED
    BY <2>3, <2>4
<1> HIDE DEF small, gossip, new
<1>6. SameLinks(dm, r)
  BY <1>3, <1>4, <1>5 DEF SameLinks
<1>7. \A d \in Computers : r.f_smaller_ips[d].type = dm.f_smaller_ips[d].type
  BY <1>3, <1>4
<1>8. DaemonOK(c, r)
  BY <1>3, <1>4, <1>5 DEF DaemonOK
<1>9. Grown(c, dm, r)
  BY <1>2, <1>3, <1>6, <1>7, <1>8 DEF Grown
<1>10. QED
  BY <1>9 DEF r

LEMMA GrownNeighbors ==
  ASSUME NEW c \in Computers, NEW dm \in Daemon, NEW A \in SUBSET Computers,
         DaemonOK(c, dm), dm.up
  PROVE  Grown(c, dm, add_neighbors(c, dm, A))
<1> DEFINE e == [dm EXCEPT !.f_all_neighbors = @ \cup A]
           B == A \ dm.f_all_neighbors
<1>1. /\ e \in Daemon
      /\ e.up = dm.up
      /\ e.services_know = dm.services_know
      /\ e.f_all_ips = dm.f_all_ips
      /\ e.f_smaller_ips = dm.f_smaller_ips
      /\ e.f_gossip_ips = dm.f_gossip_ips
  BY DEF Daemon
<1>2. add_neighbors(c, dm, A) = add_remote_communicator(c, e, B)
  BY DEF add_neighbors
<1> HIDE DEF e
<1>3. DaemonOK(c, e)
  BY <1>1 DEF DaemonOK
<1>4. Grown(c, e, add_remote_communicator(c, e, B))
  BY <1>1, <1>3, GrownAdd
<1>5. QED
  BY <1>1, <1>2, <1>4 DEF Grown, SameLinks

LEMMA StatusFields ==
  ASSUME NEW c \in Computers, NEW dm \in Daemon, NEW sk
  PROVE  LET r == cluster_status(c, dm, sk)
         IN  /\ r \in Daemon
             /\ r.up = dm.up
             /\ r.services_know = dm.services_know
             /\ r.f_all_neighbors = dm.f_all_neighbors
             /\ r.f_all_ips = dm.f_all_ips
             /\ r.f_smaller_ips = dm.f_smaller_ips
             /\ r.f_gossip_ips = dm.f_gossip_ips
BY StatusTypes DEF cluster_status, Daemon

-----------------------------------------------------------------------------
(***************************************************************************)
(* c reads m from d and may answer r on the same socket.                   *)
(***************************************************************************)
AnswerStep(c, d, m, r, answered) ==
  /\ Read(c, d, m)
  /\ answered => /\ r \in Message \ {"SYN", "FIN"}
                 /\ MaySend(c, d, socket[SocketRead(c, d)], r)
                 /\ queue' = Sent(Rest(c, d), c, d, SocketRead(c, d), r)
  /\ ~answered => queue' = Rest(c, d)

LEMMA AnswerHas ==
  ASSUME TypeOK, NEW c \in Computers, NEW d \in Computers, NEW m, NEW r,
         NEW answered, AnswerStep(c, d, m, r, answered)
  PROVE  /\ answered => Has(queue'[c][d], SocketRead(c, d), r)
         /\ \A a, b \in Computers : \A x, y :
              Has(queue[a][b], x, y) /\ ~(a = d /\ b = c /\ x = SocketRead(c, d) /\ y = m)
              => Has(queue'[a][b], x, y)
<1> DEFINE n == SocketRead(c, d)
           q == Rest(c, d)
<1>0. Read(c, d, m)
  BY DEF AnswerStep
<1>1. q \in Queues /\ n \in Sockets
  BY <1>0, ReadEvent
<1>2. \A a, b \in Computers : \A x, y :
        Has(queue[a][b], x, y) /\ ~(a = d /\ b = c /\ x = n /\ y = m) => Has(q[a][b], x, y)
  BY <1>0, RestHas
<1>3. answered => SentTo(queue', q, c, d, n, r)
  BY <1>1, Sending DEF AnswerStep
<1>4. ~answered => queue' = q
  BY DEF AnswerStep
<1> HIDE DEF n, q
<1>5. answered => Has(queue'[c][d], n, r)
  BY <1>3 DEF SentTo, IsSent
<1>6. \A a, b \in Computers : \A x, y : Has(q[a][b], x, y) => Has(queue'[a][b], x, y)
  BY <1>3, <1>4 DEF SentTo, IsSent, OnlyQueue
<1>7. \A a, b \in Computers : \A x, y :
        Has(queue[a][b], x, y) /\ ~(a = d /\ b = c /\ x = n /\ y = m)
        => Has(queue'[a][b], x, y)
  BY <1>2, <1>6
<1>8. QED
  BY <1>5, <1>7 DEF n

LEMMA AnswerTransit ==
  ASSUME TypeOK, TransitInv, SocketInv, NEW c \in Computers, NEW d \in Computers,
         NEW m, NEW r, NEW answered, AnswerStep(c, d, m, r, answered),
         NEW a \in Computers, NEW b \in Computers, NEW x \in Sockets
  PROVE  Transit(a, b, x, queue'[a][b], socket[x])
<1> DEFINE n == SocketRead(c, d)
           q == Rest(c, d)
<1>0. Read(c, d, m)
  BY DEF AnswerStep
<1>1. q \in Queues /\ n \in Sockets
  BY <1>0, ReadEvent
<1>2. Transit(a, b, x, q[a][b], socket[x]) /\ Transit(c, d, n, q[c][d], socket[n])
  BY <1>0, <1>1, RestTransit
<1>3. HeadOK(c, d, m, n, socket[n], q[d][c])
  BY <1>0, HeadRead
<1>4. answered => SentTo(queue', q, c, d, n, r) /\ MaySend(c, d, socket[n], r)
                  /\ r # "SYN" /\ r # "FIN"
  BY <1>1, Sending DEF AnswerStep
<1>5. ~answered => queue' = q
  BY DEF AnswerStep
<1> HIDE DEF n, q
<1>6. ~Has(q[c][d], n, "FIN")
  BY <1>2, <1>3 DEF HeadOK, Transit
<1>7. CASE ~answered
  BY <1>2, <1>5, <1>7
<1>8. CASE answered /\ ~(a = c /\ b = d)
  BY <1>2, <1>4, <1>8 DEF SentTo, OnlyQueue
<1>9. CASE answered /\ a = c /\ b = d
  <2>1. /\ IsSent(queue'[a][b], q[a][b], n, r)
        /\ MaySend(a, b, socket[n], r)
        /\ r = "SYN" => ~On(q[a][b], n)
        /\ ~Has(q[a][b], n, "FIN")
    BY <1>4, <1>6, <1>9 DEF SentTo
  <2>2. CASE x = n
    BY <1>2, <2>1, <2>2, TransitSent
  <2>3. CASE x # n
    BY <1>2, <2>1, <2>3, TransitSentOther
  <2>4. QED
    BY <2>2, <2>3
<1>10. QED
  BY <1>7, <1>8, <1>9

\* the other sockets do not notice
LEMMA AnswerOthers ==
  ASSUME ClusterInv, NEW c \in Computers, NEW d \in Computers, NEW m, NEW r,
         NEW answered, AnswerStep(c, d, m, r, answered), JoinedStill,
         NEW x \in Sockets, x # SocketRead(c, d), socket'[x] = socket[x]
  PROVE  LET f == socket'[x].from
             t == socket'[x].to
         IN  /\ SocketOK(x, socket'[x], queue'[f][t])
             /\ Exchange(x, socket'[x], queue'[f][t], queue'[t][f], Joined(daemon'[f], t))
<1> DEFINE f == socket[x].from
           t == socket[x].to
<1>0. TypeOK /\ SocketInv /\ ExchangeInv
  BY DEF ClusterInv
<1>1. f \in Computers /\ t \in Computers
  BY <1>0 DEF TypeOK, Socket
<1>2. /\ \A y : Has(queue[f][t], x, y) => Has(queue'[f][t], x, y)
      /\ \A y : Has(queue[t][f], x, y) => Has(queue'[t][f], x, y)
  <2> HIDE DEF f, t
  <2>1. \A a, b \in Computers : \A z, y :
          Has(queue[a][b], z, y) /\ z # SocketRead(c, d) => Has(queue'[a][b], z, y)
    BY <1>0, AnswerHas
  <2>2. QED
    BY <1>1, <2>1
<1>3. SocketOK(x, socket[x], queue[f][t])
  BY <1>0 DEF SocketInv
<1>4. Exchange(x, socket[x], queue[f][t], queue[t][f], Joined(daemon[f], t))
  BY <1>0 DEF ExchangeInv
<1>5. socket[x].client /\ t < f /\ Joined(daemon[f], t) => Joined(daemon'[f], t)
  BY DEF JoinedStill
<1>6. SocketOK(x, socket[x], queue'[f][t])
  BY <1>2, <1>3 DEF SocketOK
<1>7. Exchange(x, socket[x], queue'[f][t], queue'[t][f], Joined(daemon'[f], t))
  <2> HIDE DEF f, t
  <2>1. socket[x].from = f /\ socket[x].to = t
    BY DEF f, t
  <2>2. QED
    BY <1>2, <1>4, <1>5, <2>1 DEF Exchange
<1>8. QED
  BY <1>6, <1>7

\* what remains to be shown for a step that answers on socket n
LEMMA AnswerInv ==
  ASSUME ClusterInv, TypeOK', NEW c \in Computers, NEW d \in Computers, NEW m, NEW r,
         NEW answered, AnswerStep(c, d, m, r, answered),
         OtherSockets(SocketRead(c, d)),
         TransitInv', NameInv', DaemonInv', LinkInv', JoinedStill,
         LET n == SocketRead(c, d)
             f == socket'[n].from
             t == socket'[n].to
         IN  /\ SocketOK(n, socket'[n], queue'[f][t])
             /\ Exchange(n, socket'[n], queue'[f][t], queue'[t][f], Joined(daemon'[f], t))
  PROVE  ClusterInv'
<1>1. ASSUME NEW x \in Sockets
      PROVE  LET f == socket'[x].from
                 t == socket'[x].to
             IN  /\ SocketOK(x, socket'[x], queue'[f][t])
                 /\ Exchange(x, socket'[x], queue'[f][t], queue'[t][f],
                             Joined(daemon'[f], t))
  <2>1. CASE x = SocketRead(c, d)
    BY <2>1
  <2>2. CASE x # SocketRead(c, d)
    BY <2>2, AnswerOthers DEF OtherSockets
  <2>3. QED
    BY <2>1, <2>2
<1>2. SocketInv'
  BY <1>1 DEF SocketInv
<1>3. ExchangeInv'
  BY <1>1 DEF ExchangeInv
<1>4. QED
  BY <1>2, <1>3 DEF ClusterInv

\* the sockets keep what Transit looks at
LEMMA AnswerKeeps ==
  ASSUME ClusterInv, NEW c \in Computers, NEW d \in Computers,
         NEW m, NEW r, NEW answered, AnswerStep(c, d, m, r, answered),
         \A x \in Sockets : /\ socket'[x].from = socket[x].from
                            /\ socket'[x].to = socket[x].to
                            /\ socket'[x].client = socket[x].client
                            /\ socket'[x].server = socket[x].server
                            /\ socket'[x].broken = socket[x].broken
  PROVE  TransitInv'
<1>0. TypeOK /\ TransitInv /\ SocketInv
  BY DEF ClusterInv
<1>1. ASSUME NEW a \in Computers, NEW b \in Computers, NEW x \in Sockets
      PROVE  Transit(a, b, x, queue'[a][b], socket'[x])
  <2>1. Transit(a, b, x, queue'[a][b], socket[x])
    BY <1>0, AnswerTransit
  <2>2. QED
    BY <2>1, TransitSame
<1>2. QED
  BY <1>1 DEF TransitInv

LEMMA AcceptInv ==
  ASSUME ClusterInv, TypeOK', NEW c \in Computers, NEW d \in Computers,
         process_accept(c, d)
  PROVE  ClusterInv'
<1> DEFINE n == SocketRead(c, d)
           s == socket[n]
           t == socket'[n]
<1>0. /\ TypeOK /\ TransitInv /\ SocketInv /\ NameInv /\ DaemonInv /\ LinkInv
      /\ ExchangeInv
  BY DEF ClusterInv
<1>1. /\ AnswerStep(c, d, "SYN", "ACCEPT", FALSE)
      /\ Read(c, d, "SYN")
      /\ socket' = [socket EXCEPT ![n].server = "open"]
      /\ queue' = Rest(c, d)
      /\ daemon' = daemon
  BY DEF AnswerStep, process_accept
<1>2. n \in Sockets
  BY <1>0, <1>1, ReadEvent
<1>3. HeadOK(c, d, "SYN", n, s, queue'[d][c])
  BY <1>0, <1>1, HeadRead
<1>4. /\ t.from = s.from /\ t.to = s.to /\ t.client = s.client /\ t.broken = s.broken
      /\ t.type = s.type /\ t.server_name = s.server_name /\ t.server = "open"
  BY <1>0, <1>1, <1>2 DEF TypeOK, Socket
<1>5. OtherSockets(n)
  BY <1>0, <1>1 DEF TypeOK, OtherSockets
<1> HIDE DEF n
<1>6. /\ s.from = d /\ s.to = c /\ s.server = "backlog"
      /\ ~Has(queue'[d][c], n, "SYN")
  BY <1>3 DEF HeadOK
<1>7. SocketOK(n, s, queue[d][c])
  BY <1>0, <1>2, <1>6 DEF SocketInv
<1>8. Exchange(n, s, queue[d][c], queue[c][d], Joined(daemon[d], c))
  BY <1>0, <1>2, <1>6 DEF ExchangeInv
<1> HIDE DEF s, t
<1>9. TransitInv'
  <2>1. ASSUME NEW a \in Computers, NEW b \in Computers, NEW x \in Sockets
        PROVE  Transit(a, b, x, queue'[a][b], socket'[x])
    <3>1. Transit(a, b, x, queue'[a][b], socket[x])
      BY <1>0, <1>1, AnswerTransit
    <3>2. CASE x # n
      BY <1>5, <3>1, <3>2 DEF OtherSockets
    <3>3. CASE x = n
      <4>1. Transit(a, b, n, queue'[a][b], s)
        BY <3>1, <3>3 DEF s
      <4>2. Has(queue'[a][b], n, "SYN") => a = d /\ b = c
        BY <1>6, <4>1, HasOn DEF Transit
      <4>3. Transit(a, b, n, queue'[a][b], t)
        BY <1>4, <1>6, <4>1, <4>2, TransitOpened
      <4>4. QED
        BY <3>3, <4>3 DEF t
    <3>4. QED
      BY <3>2, <3>3
  <2>2. QED
    BY <2>1 DEF TransitInv
<1>10. NameInv'
  <2>1. ASSUME NEW x \in Sockets, NEW y \in Sockets, SameNames(socket'[x], socket'[y])
        PROVE  x = y
    <3>1. ~t.server_name
      BY <1>4, <1>6, <1>7 DEF SocketOK
    <3>2. x # n /\ y # n
      BY <2>1, <3>1 DEF SameNames, t
    <3>3. SameNames(socket[x], socket[y])
      BY <1>5, <2>1, <3>2 DEF OtherSockets
    <3>4. QED
      BY <1>0, <3>3 DEF NameInv
  <2>2. QED
    BY <2>1 DEF NameInv
<1>11. DaemonInv'
  BY <1>0, <1>1 DEF DaemonInv
<1>12. LinkInv'
  <2>1. OnlyDaemon(c) /\ SameLinks(daemon[c], daemon'[c])
    BY <1>1 DEF OnlyDaemon, SameLinks
  <2>2. \A x \in Sockets : /\ socket'[x].from = socket[x].from
                           /\ socket'[x].to = socket[x].to
                           /\ socket'[x].client = socket[x].client
    BY <1>4, <1>5 DEF OtherSockets, s, t
  <2>3. QED
    BY <1>0, <2>1, <2>2, SameLinksKept
<1>13. JoinedStill
  BY <1>1 DEF JoinedStill
<1>14. SocketOK(n, t, queue'[d][c])
  BY <1>4, <1>6, <1>7 DEF SocketOK
<1>15. Exchange(n, t, queue'[d][c], queue'[c][d], Joined(daemon'[d], c))
  <2>1. /\ \A y : Has(queue[d][c], n, y) /\ y # "SYN" => Has(queue'[d][c], n, y)
        /\ \A y : Has(queue[c][d], n, y) => Has(queue'[c][d], n, y)
    <3>1. c # d
      BY <1>3 DEF HeadOK
    <3>2. \A a, b \in Computers : \A x, y :
            Has(queue[a][b], x, y) /\ ~(a = d /\ b = c /\ x = n /\ y = "SYN")
            => Has(queue'[a][b], x, y)
      BY <1>0, <1>1, RestHas DEF n
    <3>3. QED
      BY <3>1, <3>2
  <2>2. QED
    BY <1>4, <1>6, <1>8, <2>1 DEF Exchange
<1>16. QED
  BY <1>1, <1>4, <1>5, <1>6, <1>9, <1>10, <1>11, <1>12, <1>13, <1>14, <1>15, AnswerInv
     DEF n, s, t

\* the sockets keep their ends
SameEnds(n) ==
  /\ OtherSockets(n)
  /\ socket'[n].from = socket[n].from
  /\ socket'[n].to = socket[n].to
  /\ socket'[n].client = socket[n].client
  /\ socket'[n].server = socket[n].server
  /\ socket'[n].broken = socket[n].broken

\* the daemon of c hears of addresses, keeps its sockets and stays joined
Learns(c) ==
  /\ OnlyDaemon(c)
  /\ SameLinks(daemon[c], daemon'[c])
  /\ DaemonOK(c, daemon'[c])
  /\ \A e \in Computers : Joined(daemon[c], e) => Joined(daemon'[c], e)

LEMMA LearnsNothing ==
  ASSUME DaemonInv, NEW c \in Computers, daemon' = daemon
  PROVE  Learns(c)
BY DEF Learns, OnlyDaemon, SameLinks, DaemonInv

LEMMA AnsweredInv ==
  ASSUME ClusterInv, TypeOK', NEW c \in Computers, NEW d \in Computers, NEW m, NEW r,
         NEW answered, AnswerStep(c, d, m, r, answered), SameEnds(SocketRead(c, d)),
         NameInv', Learns(c),
         LET n == SocketRead(c, d)
             f == socket'[n].from
             t == socket'[n].to
         IN  /\ SocketOK(n, socket'[n], queue'[f][t])
             /\ Exchange(n, socket'[n], queue'[f][t], queue'[t][f], Joined(daemon'[f], t))
  PROVE  ClusterInv'
<1> DEFINE n == SocketRead(c, d)
<1>0. TypeOK /\ DaemonInv /\ LinkInv
  BY DEF ClusterInv
<1>1. OtherSockets(n)
  BY DEF SameEnds
<1>2. \A x \in Sockets : /\ socket'[x].from = socket[x].from
                         /\ socket'[x].to = socket[x].to
                         /\ socket'[x].client = socket[x].client
                         /\ socket'[x].server = socket[x].server
                         /\ socket'[x].broken = socket[x].broken
  BY DEF SameEnds, OtherSockets
<1>3. TransitInv'
  BY <1>2, AnswerKeeps
<1>4. DaemonInv'
  BY <1>0 DEF DaemonInv, Learns, OnlyDaemon
<1>5. LinkInv'
  BY <1>0, <1>2, SameLinksKept DEF Learns
<1>6. JoinedStill
  <2>1. ASSUME NEW x \in Sockets, Joined(daemon[socket[x].from], socket[x].to)
        PROVE  Joined(daemon'[socket[x].from], socket[x].to)
    <3>1. socket[x].from \in Computers /\ socket[x].to \in Computers
      BY <1>0 DEF TypeOK, Socket
    <3>2. QED
      BY <2>1, <3>1 DEF Learns, OnlyDaemon
  <2>2. QED
    BY <2>1 DEF JoinedStill
<1>7. QED
  BY <1>1, <1>3, <1>4, <1>5, <1>6, AnswerInv

\* the answer of c to d: only if d still has its end
LEMMA MayAnswer ==
  ASSUME TypeOK, TransitInv, SocketInv, NEW c \in Computers, NEW d \in Computers,
         NEW m, Read(c, d, m), NEW r,
         \/ m = "CONNECT" /\ r \in {"ACCEPT", "REFUSE"}
         \/ m = "GOSSIP" /\ r = "RECEIVED",
         queue' = IF IsOpen(d, SocketRead(c, d))
                  THEN Sent(Rest(c, d), c, d, SocketRead(c, d), r)
                  ELSE Rest(c, d)
  PROVE  AnswerStep(c, d, m, r, socket[SocketRead(c, d)].client)
<1> DEFINE n == SocketRead(c, d)
<1>1. HeadOK(c, d, m, n, socket[n], Rest(c, d)[d][c])
  BY HeadRead
<1>2. /\ socket[n].from = d /\ socket[n].to = c /\ ~socket[n].broken
      /\ d # c
      /\ m = "CONNECT" => c < d
      /\ m = "GOSSIP" => d < c
  BY <1>1 DEF HeadOK
<1>3. IsOpen(d, n) = socket[n].client
  BY <1>2 DEF IsOpen
<1>4. socket[n].client => MaySend(c, d, socket[n], r)
  BY <1>2 DEF MaySend
<1>5. r \in Message \ {"SYN", "FIN"}
  BY DEF Message
<1> HIDE DEF n
<1>6. queue' = IF socket[n].client THEN Sent(Rest(c, d), c, d, n, r) ELSE Rest(c, d)
  BY <1>3 DEF n
<1>7. QED
  BY <1>4, <1>5, <1>6 DEF AnswerStep, n

LEMMA LearnsFrom ==
  ASSUME TypeOK, NEW c \in Computers, NEW r, daemon' = [daemon EXCEPT ![c] = r],
         SameLinks(daemon[c], r), DaemonOK(c, r),
         \A e \in Computers : Joined(daemon[c], e) => Joined(r, e)
  PROVE  Learns(c)
<1>1. daemon'[c] = r
  BY DEF TypeOK
<1>2. OnlyDaemon(c)
  BY DEF TypeOK, OnlyDaemon
<1>3. QED
  BY <1>1, <1>2 DEF Learns

\* c tells its services of d, and works out the status of the cluster
LEMMA LearnsConnect ==
  ASSUME TypeOK, DaemonInv, NEW c \in Computers, NEW d \in Computers,
         NEW A \in SUBSET Computers, NEW sk, daemon[c].up,
         daemon' = [daemon EXCEPT ![c] = cluster_status(c,
           [add_neighbors(c, daemon[c], A) EXCEPT !.services_know = @ \cup {d}], sk)]
  PROVE  Learns(c)
<1> DEFINE dm == add_neighbors(c, daemon[c], A)
           e == [dm EXCEPT !.services_know = @ \cup {d}]
           r == cluster_status(c, e, sk)
<1>0. daemon[c] \in Daemon /\ DaemonOK(c, daemon[c])
  BY DEF TypeOK, DaemonInv
<1>1. Grown(c, daemon[c], dm)
  BY <1>0, GrownNeighbors
<1>2. dm \in Daemon
  BY <1>1 DEF Grown
<1> HIDE DEF dm
<1>3. /\ e \in Daemon
      /\ e.up = dm.up
      /\ e.services_know = dm.services_know \cup {d}
      /\ e.f_all_ips = dm.f_all_ips
      /\ e.f_smaller_ips = dm.f_smaller_ips
      /\ e.f_gossip_ips = dm.f_gossip_ips
  BY <1>2 DEF Daemon
<1>4. daemon' = [daemon EXCEPT ![c] = r]
  BY DEF dm
<1> HIDE DEF e
<1>5. /\ r.up = e.up
      /\ r.services_know = e.services_know
      /\ r.f_all_ips = e.f_all_ips
      /\ r.f_smaller_ips = e.f_smaller_ips
      /\ r.f_gossip_ips = e.f_gossip_ips
  BY <1>3, StatusFields
<1> HIDE DEF r
<1>6. SameLinks(daemon[c], r)
  BY <1>1, <1>3, <1>5 DEF Grown, SameLinks
<1>7. DaemonOK(c, r)
  BY <1>1, <1>3, <1>5 DEF Grown, DaemonOK
<1>8. \A x \in Computers : Joined(daemon[c], x) => Joined(r, x)
  BY <1>1, <1>3, <1>5 DEF Grown, Joined
<1>9. QED
  BY <1>4, <1>6, <1>7, <1>8, LearnsFrom

\* the event that was read is gone, the others are still there
LEMMA AnswerEvents ==
  ASSUME TypeOK, TransitInv, SocketInv, NEW c \in Computers, NEW d \in Computers,
         NEW m, NEW r, NEW answered, AnswerStep(c, d, m, r, answered)
  PROVE  LET n == SocketRead(c, d)
         IN  /\ answered => Has(queue'[c][d], n, r)
             /\ \A y : Has(queue[d][c], n, y) /\ y # m => Has(queue'[d][c], n, y)
             /\ \A y : Has(queue[c][d], n, y) => Has(queue'[c][d], n, y)
<1> DEFINE n == SocketRead(c, d)
<1>0. HeadOK(c, d, m, n, socket[n], Rest(c, d)[d][c])
  BY HeadRead DEF AnswerStep
<1>1. c # d
  BY <1>0 DEF HeadOK
<1>2. /\ answered => Has(queue'[c][d], n, r)
      /\ \A a, b \in Computers : \A x, y :
           Has(queue[a][b], x, y) /\ ~(a = d /\ b = c /\ x = n /\ y = m)
           => Has(queue'[a][b], x, y)
  BY AnswerHas
<1> HIDE DEF n
<1>3. /\ \A y : Has(queue[d][c], n, y) /\ y # m => Has(queue'[d][c], n, y)
      /\ \A y : Has(queue[c][d], n, y) => Has(queue'[c][d], n, y)
  BY <1>1, <1>2
<1>4. QED
  BY <1>2, <1>3 DEF n

\* a name that c gives to socket n, from d, was not in use
LEMMA NewName ==
  ASSUME TypeOK, SocketInv, NameInv, NEW c \in Computers, NEW d \in Computers,
         NEW n \in Sockets, socket[n].from = d, socket[n].to = c,
         ~SameName(c, d, n), SameEnds(n)
  PROVE  NameInv'
<1>1. ASSUME NEW x \in Sockets, NEW y \in Sockets, SameNames(socket'[x], socket'[y]),
             x # n
      PROVE  x = y
  <2>1. socket'[x] = socket[x]
    BY <1>1 DEF SameEnds, OtherSockets
  <2>2. CASE y # n
    <3>1. SameNames(socket[x], socket[y])
      BY <1>1, <2>1, <2>2 DEF SameEnds, OtherSockets
    <3>2. QED
      BY <3>1 DEF NameInv
  <2>3. CASE y = n
    <3>1. /\ socket[x].server # "closed"
          /\ socket[x].from = d
          /\ socket[x].to = c
          /\ socket[x].server_name
      BY <1>1, <2>1, <2>3 DEF SameNames, SameEnds
    <3>2. socket[x].server \in {"backlog", "open", "closed"}
      BY DEF TypeOK, Socket
    <3>3. SocketOK(x, socket[x], queue[socket[x].from][socket[x].to])
      BY DEF SocketInv
    <3>4. socket[x].server = "open"
      BY <3>1, <3>2, <3>3 DEF SocketOK
    <3>5. QED
      BY <1>1, <3>1, <3>4 DEF SameName, Accepted
  <2>4. QED
    BY <2>2, <2>3
<1>2. ASSUME NEW x \in Sockets, NEW y \in Sockets, SameNames(socket'[x], socket'[y])
      PROVE  x = y
  <2>1. CASE x # n
    BY <1>1, <1>2, <2>1
  <2>2. CASE x = n
    <3>1. SameNames(socket'[y], socket'[x])
      BY <1>2 DEF SameNames
    <3>2. y # n => y = x
      BY <1>1, <3>1
    <3>3. QED
      BY <2>2, <3>2
  <2>3. QED
    BY <2>1, <2>2
<1>3. QED
  BY <1>2 DEF NameInv

LEMMA SameNamesKept ==
  ASSUME NameInv, socket' = socket
  PROVE  NameInv'
BY DEF NameInv

\* CONNECT is refused
LEMMA ConnectRefusedInv ==
  ASSUME ClusterInv, TypeOK', NEW c \in Computers, NEW d \in Computers,
         CONNECT(c, d), SameName(c, d, SocketRead(c, d)) \/ TooMany(c)
  PROVE  ClusterInv'
<1> DEFINE n == SocketRead(c, d)
           s == socket[n]
           t == socket'[n]
           named == [socket EXCEPT ![n].server_name = TRUE]
<1>0. /\ TypeOK /\ TransitInv /\ SocketInv /\ NameInv /\ DaemonInv
      /\ ExchangeInv
  BY DEF ClusterInv
<1>1. /\ Read(c, d, "CONNECT")
      /\ socket' = IF SameName(c, d, n) THEN socket ELSE named
      /\ queue' = IF IsOpen(d, n) THEN Sent(Rest(c, d), c, d, n, "REFUSE")
                  ELSE Rest(c, d)
      /\ daemon' = daemon
  BY Zenon DEF CONNECT
<1>2. n \in Sockets
  BY <1>0, <1>1, ReadEvent
<1>3. HeadOK(c, d, "CONNECT", n, s, Rest(c, d)[d][c])
  BY <1>0, <1>1, HeadRead
<1>4. s.from = d /\ s.to = c /\ s.server = "open" /\ c < d /\ ~s.broken
  BY <1>3 DEF HeadOK
<1>5. AnswerStep(c, d, "CONNECT", "REFUSE", s.client)
  BY <1>0, <1>1, MayAnswer
<1>6. /\ SameEnds(n)
      /\ t.type = s.type
      /\ s.server_name => t.server_name
  <2>1. CASE SameName(c, d, n)
    BY <1>1, <2>1 DEF SameEnds, OtherSockets
  <2>2. CASE ~SameName(c, d, n)
    <3>1. socket' = named
      BY <1>1, <2>2
    <3>2. QED
      BY <1>0, <1>2, <3>1 DEF TypeOK, Socket, SameEnds, OtherSockets
  <2>3. QED
    BY <2>1, <2>2
<1> HIDE DEF n
<1>7. NameInv'
  <2>1. CASE SameName(c, d, n)
    BY <1>0, <1>1, <2>1, SameNamesKept
  <2>2. CASE ~SameName(c, d, n)
    BY <1>0, <1>2, <1>4, <1>6, <2>2, NewName
  <2>3. QED
    BY <2>1, <2>2
<1>8. SocketOK(n, s, queue[d][c])
  BY <1>0, <1>2, <1>4 DEF SocketInv
<1>9. Exchange(n, s, queue[d][c], queue[c][d], Joined(daemon[d], c))
  BY <1>0, <1>2, <1>4 DEF ExchangeInv
<1>10. /\ s.client => Has(queue'[c][d], n, "REFUSE")
       /\ \A y : Has(queue[d][c], n, y) /\ y # "CONNECT" => Has(queue'[d][c], n, y)
  BY <1>0, <1>5, AnswerEvents DEF n
<1>11. /\ t.from = d /\ t.to = c /\ t.server = "open" /\ t.client = s.client
       /\ ~t.broken
  BY <1>4, <1>6 DEF SameEnds
<1> HIDE DEF s, t
<1>12. SocketOK(n, t, queue'[d][c])
  BY <1>4, <1>6, <1>8, <1>11 DEF SocketOK
<1>13. Exchange(n, t, queue'[d][c], queue'[c][d], Joined(daemon'[d], c))
  BY <1>4, <1>9, <1>10, <1>11 DEF Exchange
<1>14. Learns(c)
  BY <1>0, <1>1, LearnsNothing
<1>15. QED
  BY <1>5, <1>6, <1>7, <1>11, <1>12, <1>13, <1>14, AnsweredInv DEF n, s, t

\* CONNECT is accepted
LEMMA ConnectAcceptedInv ==
  ASSUME ClusterInv, TypeOK', NEW c \in Computers, NEW d \in Computers,
         CONNECT(c, d), ~(SameName(c, d, SocketRead(c, d)) \/ TooMany(c))
  PROVE  ClusterInv'
<1> DEFINE n == SocketRead(c, d)
           s == socket[n]
           t == socket'[n]
           sk == [socket EXCEPT ![n].server_name = TRUE, ![n].type = "REMOTE"]
<1>0. /\ TypeOK /\ TransitInv /\ SocketInv /\ NameInv /\ DaemonInv
      /\ ExchangeInv
  BY DEF ClusterInv
<1>1. /\ Read(c, d, "CONNECT")
      /\ socket' = sk
      /\ queue' = IF IsOpen(d, n) THEN Sent(Rest(c, d), c, d, n, "ACCEPT")
                  ELSE Rest(c, d)
      /\ daemon' = [daemon EXCEPT ![c] = cluster_status(c,
           [add_neighbors(c, daemon[c], Neighbors[d] \cup {d})
              EXCEPT !.services_know = @ \cup {d}], sk)]
  BY Zenon DEF CONNECT
<1>2. n \in Sockets
  BY <1>0, <1>1, ReadEvent
<1>3. HeadOK(c, d, "CONNECT", n, s, Rest(c, d)[d][c])
  BY <1>0, <1>1, HeadRead
<1>4. s.from = d /\ s.to = c /\ s.server = "open" /\ c < d /\ ~s.broken
  BY <1>3 DEF HeadOK
<1>5. AnswerStep(c, d, "CONNECT", "ACCEPT", s.client)
  BY <1>0, <1>1, MayAnswer
<1>6. SameEnds(n) /\ t.type = "REMOTE" /\ t.server_name
  BY <1>0, <1>1, <1>2 DEF TypeOK, Socket, SameEnds, OtherSockets
<1>7. Learns(c)
  <2>1. Neighbors[d] \cup {d} \in SUBSET Computers
    BY ClusterAssumption
  <2>2. daemon[c].up
    BY <1>1 DEF Read
  <2> HIDE DEF sk
  <2>3. QED
    BY <1>0, <1>1, <2>1, <2>2, LearnsConnect
<1> HIDE DEF n, sk
<1>8. NameInv'
  BY <1>0, <1>2, <1>4, <1>6, NewName DEF n
<1>9. SocketOK(n, s, queue[d][c])
  BY <1>0, <1>2, <1>4 DEF SocketInv
<1>10. Exchange(n, s, queue[d][c], queue[c][d], Joined(daemon[d], c))
  BY <1>0, <1>2, <1>4 DEF ExchangeInv
<1>11. /\ s.client => Has(queue'[c][d], n, "ACCEPT")
       /\ \A y : Has(queue[d][c], n, y) /\ y # "CONNECT" => Has(queue'[d][c], n, y)
  BY <1>0, <1>5, AnswerEvents DEF n
<1>12. /\ t.from = d /\ t.to = c /\ t.server = "open" /\ t.client = s.client
       /\ ~t.broken
  BY <1>4, <1>6 DEF SameEnds
<1> HIDE DEF s, t
<1>13. SocketOK(n, t, queue'[d][c])
  BY <1>4, <1>6, <1>9, <1>12 DEF SocketOK
<1>14. Exchange(n, t, queue'[d][c], queue'[c][d], Joined(daemon'[d], c))
  BY <1>4, <1>6, <1>10, <1>11, <1>12 DEF Exchange
<1>15. QED
  BY <1>5, <1>6, <1>7, <1>8, <1>12, <1>13, <1>14, AnsweredInv DEF n, s, t

LEMMA SocketsKept ==
  ASSUME NEW n, socket' = socket
  PROVE  SameEnds(n)
BY DEF SameEnds, OtherSockets

LEMMA AcceptedInv ==
  ASSUME ClusterInv, TypeOK', NEW c \in Computers, NEW d \in Computers, ACCEPT(c, d)
  PROVE  ClusterInv'
<1> DEFINE n == SocketRead(c, d)
           s == socket[n]
           p == daemon[c].f_smaller_ips[d]
           dm == [daemon[c] EXCEPT !.f_smaller_ips[d].type = "REMOTE",
                                   !.services_know = @ \cup {d}]
           r == add_neighbors(c, dm, Neighbors[d])
<1>0. /\ TypeOK /\ TransitInv /\ SocketInv /\ NameInv /\ DaemonInv /\ LinkInv
      /\ ExchangeInv
  BY DEF ClusterInv
<1>1. /\ Read(c, d, "ACCEPT")
      /\ daemon' = [daemon EXCEPT ![c] = r]
      /\ queue' = Rest(c, d)
      /\ socket' = socket
  BY Zenon DEF ACCEPT
<1>2. n \in Sockets
  BY <1>0, <1>1, ReadEvent
<1>3. HeadOK(c, d, "ACCEPT", n, s, Rest(c, d)[d][c])
  BY <1>0, <1>1, HeadRead
<1>4. s.from = c /\ s.to = d /\ s.client /\ d < c /\ ~s.broken
  BY <1>3 DEF HeadOK
<1>5. AnswerStep(c, d, "ACCEPT", "RECEIVED", FALSE)
  BY <1>1 DEF AnswerStep
<1>6. p.known
  <2>1. p.sock = n
    BY <1>0, <1>2, <1>4 DEF LinkInv, Link
  <2>2. p.sock # None
    BY <1>2, <2>1, NoneIsNone
  <2>3. QED
    BY <1>0, <2>2 DEF DaemonInv, DaemonOK, Unused
<1>7. /\ dm \in Daemon
      /\ dm.up = daemon[c].up
      /\ dm.services_know = daemon[c].services_know \cup {d}
      /\ dm.f_all_ips = daemon[c].f_all_ips
      /\ dm.f_gossip_ips = daemon[c].f_gossip_ips
      /\ \A e \in Computers : e # d => dm.f_smaller_ips[e] = daemon[c].f_smaller_ips[e]
      /\ dm.f_smaller_ips[d].sock = p.sock
      /\ dm.f_smaller_ips[d].known = p.known
      /\ dm.f_smaller_ips[d].type = "REMOTE"
  <2>1. daemon[c] \in Daemon /\ p \in Permanent
    BY <1>0, DaemonFields
  <2>2. dm = [daemon[c] EXCEPT !.f_smaller_ips = [@ EXCEPT ![d] = [p EXCEPT !.type = "REMOTE"]],
                               !.services_know = @ \cup {d}]
    BY <2>1 DEF Daemon
  <2>3. [p EXCEPT !.type = "REMOTE"] \in Permanent
    BY <2>1 DEF Permanent
  <2>4. /\ [p EXCEPT !.type = "REMOTE"].sock = p.sock
        /\ [p EXCEPT !.type = "REMOTE"].known = p.known
        /\ [p EXCEPT !.type = "REMOTE"].type = "REMOTE"
    BY <2>1 DEF Permanent
  <2> DEFINE pp == [p EXCEPT !.type = "REMOTE"]
  <2> HIDE DEF pp
  <2>5. dm = [daemon[c] EXCEPT !.f_smaller_ips = [@ EXCEPT ![d] = pp],
                               !.services_know = @ \cup {d}]
    BY <2>2 DEF pp
  <2> HIDE DEF p, dm
  <2>6. pp \in Permanent /\ pp.sock = p.sock /\ pp.known = p.known /\ pp.type = "REMOTE"
    BY <2>3, <2>4 DEF pp
  <2>7. QED
    BY <2>1, <2>5, <2>6 DEF Daemon
<1> HIDE DEF dm
<1>8. DaemonOK(c, dm)
  <2>1. DaemonOK(c, daemon[c])
    BY <1>0 DEF DaemonInv
  <2>2. QED
    BY <1>6, <1>7, <2>1 DEF DaemonOK
<1>9. Grown(c, dm, r)
  <2>1. Neighbors[d] \in SUBSET Computers
    BY ClusterAssumption
  <2>2. dm.up
    BY <1>1, <1>7 DEF Read
  <2>3. QED
    BY <1>7, <1>8, <2>1, <2>2, GrownNeighbors
<1> HIDE DEF r
<1>10. Learns(c)
  <2>1. SameLinks(daemon[c], r)
    BY <1>7, <1>9 DEF Grown, SameLinks
  <2>2. DaemonOK(c, r)
    BY <1>9 DEF Grown
  <2>3. \A e \in Computers : Joined(daemon[c], e) => Joined(r, e)
    BY <1>7, <1>9 DEF Grown, Joined
  <2>4. QED
    BY <1>0, <1>1, <2>1, <2>2, <2>3, LearnsFrom
<1>11. Joined(daemon'[c], d)
  <2>1. daemon'[c] = r
    BY <1>0, <1>1 DEF TypeOK
  <2>2. QED
    BY <1>7, <1>9, <2>1 DEF Grown, Joined
<1>12. SocketOK(n, s, queue[c][d])
  BY <1>0, <1>2, <1>4 DEF SocketInv
<1>13. Exchange(n, s, queue[c][d], queue[d][c], Joined(daemon[c], d))
  BY <1>0, <1>2, <1>4 DEF ExchangeInv
<1>14. /\ \A y : Has(queue[d][c], n, y) /\ y # "ACCEPT" => Has(queue'[d][c], n, y)
       /\ \A y : Has(queue[c][d], n, y) => Has(queue'[c][d], n, y)
  <2>1. c # d
    BY <1>3 DEF HeadOK
  <2>2. \A a, b \in Computers : \A x, y :
          Has(queue[a][b], x, y) /\ ~(a = d /\ b = c /\ x = n /\ y = "ACCEPT")
          => Has(queue'[a][b], x, y)
    BY <1>0, <1>1, RestHas
  <2> HIDE DEF n
  <2>3. QED
    BY <2>1, <2>2
<1>15. SameEnds(n) /\ NameInv' /\ socket'[n] = s
  BY <1>0, <1>1, SocketsKept, SameNamesKept
<1> HIDE DEF n, s, p
<1>16. SocketOK(n, s, queue'[c][d])
  BY <1>12, <1>14 DEF SocketOK
<1>17. Exchange(n, s, queue'[c][d], queue'[d][c], Joined(daemon'[c], d))
  BY <1>4, <1>11, <1>13, <1>14 DEF Exchange
<1>18. QED
  BY <1>4, <1>5, <1>10, <1>15, <1>16, <1>17, AnsweredInv DEF n, s

LEMMA GossipInv ==
  ASSUME ClusterInv, TypeOK', NEW c \in Computers, NEW d \in Computers, GOSSIP(c, d)
  PROVE  ClusterInv'
<1> DEFINE n == SocketRead(c, d)
           s == socket[n]
           dm == add_neighbors(c, daemon[c], {d})
           r == add_remote_communicator(c, dm, {d})
<1>0. /\ TypeOK /\ TransitInv /\ SocketInv /\ NameInv /\ DaemonInv
      /\ ExchangeInv
  BY DEF ClusterInv
<1>1. /\ Read(c, d, "GOSSIP")
      /\ daemon' = [daemon EXCEPT ![c] = r]
      /\ queue' = IF IsOpen(d, n) THEN Sent(Rest(c, d), c, d, n, "RECEIVED")
                  ELSE Rest(c, d)
      /\ socket' = socket
  BY Zenon DEF GOSSIP
<1>2. n \in Sockets
  BY <1>0, <1>1, ReadEvent
<1>3. HeadOK(c, d, "GOSSIP", n, s, Rest(c, d)[d][c])
  BY <1>0, <1>1, HeadRead
<1>4. s.from = d /\ s.to = c /\ d < c
  BY <1>3 DEF HeadOK
<1>5. AnswerStep(c, d, "GOSSIP", "RECEIVED", s.client)
  BY <1>0, <1>1, MayAnswer
<1>6. Grown(c, daemon[c], dm)
  <2>1. daemon[c] \in Daemon /\ DaemonOK(c, daemon[c])
    BY <1>0 DEF TypeOK, DaemonInv
  <2>2. daemon[c].up
    BY <1>1 DEF Read
  <2>3. QED
    BY <2>1, <2>2, GrownNeighbors
<1>7. dm \in Daemon /\ dm.up /\ DaemonOK(c, dm)
  BY <1>1, <1>6 DEF Read, Grown
<1> HIDE DEF dm
<1>8. Grown(c, dm, r)
  BY <1>7, GrownAdd
<1> HIDE DEF r
<1>9. Learns(c)
  <2>1. SameLinks(daemon[c], r)
    BY <1>6, <1>8 DEF Grown, SameLinks
  <2>2. DaemonOK(c, r)
    BY <1>8 DEF Grown
  <2>3. \A e \in Computers : Joined(daemon[c], e) => Joined(r, e)
    BY <1>6, <1>8 DEF Grown, Joined
  <2>4. QED
    BY <1>0, <1>1, <2>1, <2>2, <2>3, LearnsFrom
<1>10. SocketOK(n, s, queue[d][c])
  BY <1>0, <1>2, <1>4 DEF SocketInv
<1>11. Exchange(n, s, queue[d][c], queue[c][d], Joined(daemon[d], c))
  BY <1>0, <1>2, <1>4 DEF ExchangeInv
<1>12. /\ \A y : Has(queue[d][c], n, y) /\ y # "GOSSIP" => Has(queue'[d][c], n, y)
       /\ \A y : Has(queue[c][d], n, y) => Has(queue'[c][d], n, y)
  BY <1>0, <1>5, AnswerEvents
<1>13. SameEnds(n) /\ NameInv' /\ socket'[n] = s
  BY <1>0, <1>1, SocketsKept, SameNamesKept
<1>14. ~(s.to < s.from)
  BY <1>4, NumberedComputers
<1> HIDE DEF n, s
<1>15. SocketOK(n, s, queue'[d][c])
  BY <1>10, <1>12 DEF SocketOK
<1>16. Exchange(n, s, queue'[d][c], queue'[c][d], Joined(daemon'[d], c))
  BY <1>11, <1>12, <1>14 DEF Exchange
<1>17. QED
  BY <1>4, <1>5, <1>9, <1>13, <1>15, <1>16, AnsweredInv DEF n, s

\* DISCONNECT on a connection that is not REMOTE
LEMMA IgnoredInv ==
  ASSUME ClusterInv, TypeOK', NEW c \in Computers, NEW d \in Computers,
         Read(c, d, "DISCONNECT"), queue' = Rest(c, d), daemon' = daemon,
         socket' = socket
  PROVE  ClusterInv'
<1> DEFINE n == SocketRead(c, d)
           s == socket[n]
           f == s.from
           t == s.to
<1>0. /\ TypeOK /\ TransitInv /\ SocketInv /\ NameInv /\ DaemonInv
      /\ ExchangeInv
  BY DEF ClusterInv
<1>1. n \in Sockets
  BY <1>0, ReadEvent
<1>2. f \in Computers /\ t \in Computers
  BY <1>0, <1>1 DEF TypeOK, Socket
<1>3. AnswerStep(c, d, "DISCONNECT", "ACCEPT", FALSE)
  BY DEF AnswerStep
<1>4. SocketOK(n, s, queue[f][t])
  BY <1>0, <1>1 DEF SocketInv
<1>5. Exchange(n, s, queue[f][t], queue[t][f], Joined(daemon[f], t))
  BY <1>0, <1>1 DEF ExchangeInv
<1>6. \A a, b \in Computers : \A x, y :
        Has(queue[a][b], x, y) /\ y # "DISCONNECT" => Has(queue'[a][b], x, y)
  BY <1>0, RestHas
<1>7. SameEnds(n) /\ NameInv' /\ socket'[n] = s
  BY <1>0, SocketsKept, SameNamesKept
<1>8. Learns(c)
  BY <1>0, LearnsNothing
<1> HIDE DEF n, f, t
<1>9. /\ \A y : Has(queue[f][t], n, y) /\ y # "DISCONNECT" => Has(queue'[f][t], n, y)
      /\ \A y : Has(queue[t][f], n, y) /\ y # "DISCONNECT" => Has(queue'[t][f], n, y)
  BY <1>2, <1>6
<1>10. SocketOK(n, s, queue'[f][t])
  <2> HIDE DEF s
  <2>1. QED
    BY <1>4, <1>9 DEF SocketOK
<1>11. Exchange(n, s, queue'[f][t], queue'[t][f], Joined(daemon'[f], t))
  <2> HIDE DEF s
  <2>1. QED
    BY <1>5, <1>9 DEF Exchange
<1>12. QED
  BY <1>3, <1>7, <1>8, <1>10, <1>11, AnsweredInv DEF n, s, f, t

-----------------------------------------------------------------------------
(***************************************************************************)
(* One permanent connection changes: r in place of dm.                     *)
(***************************************************************************)
SmallerSet(r, dm, d, p) ==
  /\ r.up = dm.up
  /\ r.f_all_ips = dm.f_all_ips
  /\ r.f_gossip_ips = dm.f_gossip_ips
  /\ r.f_smaller_ips[d] = p
  /\ \A e \in Computers : e # d => r.f_smaller_ips[e] = dm.f_smaller_ips[e]

GossipSet(r, dm, d, p) ==
  /\ r.up = dm.up
  /\ r.f_all_ips = dm.f_all_ips
  /\ r.f_smaller_ips = dm.f_smaller_ips
  /\ r.f_gossip_ips[d] = p
  /\ \A e \in Computers : e # d => r.f_gossip_ips[e] = dm.f_gossip_ips[e]

LEMMA SettingSmaller ==
  ASSUME NEW dm \in Daemon, NEW d \in Computers, NEW p, NEW r,
         r = [dm EXCEPT !.f_smaller_ips[d] = p]
  PROVE  /\ SmallerSet(r, dm, d, p)
         /\ r.services_know = dm.services_know /\ r.f_all_neighbors = dm.f_all_neighbors
BY DEF Daemon, SmallerSet

LEMMA SettingGossip ==
  ASSUME NEW dm \in Daemon, NEW d \in Computers, NEW p, NEW r,
         r = [dm EXCEPT !.f_gossip_ips[d] = p]
  PROVE  /\ GossipSet(r, dm, d, p)
         /\ r.services_know = dm.services_know /\ r.f_all_neighbors = dm.f_all_neighbors
BY DEF Daemon, GossipSet

LEMMA SettingDaemon ==
  ASSUME TypeOK, NEW c \in Computers, NEW r, daemon' = [daemon EXCEPT ![c] = r]
  PROVE  daemon'[c] = r /\ OnlyDaemon(c)
BY DEF TypeOK, OnlyDaemon

\* what remains to be shown when c closes its end of socket n, on which it read m
LEMMA ClosedInv ==
  ASSUME ClusterInv, TypeOK', NEW c \in Computers, NEW d \in Computers, NEW m,
         CloseStep(c, d, m), OnlyDaemon(c), JoinedStill,
         LinkClosed(c, d, SocketRead(c, d), daemon[c], daemon'[c]),
         DaemonOK(c, daemon'[c])
  PROVE  ClusterInv'
<1> DEFINE n == SocketRead(c, d)
<1>0. TypeOK /\ TransitInv /\ SocketInv /\ DaemonInv /\ LinkInv /\ Read(c, d, m)
  BY DEF ClusterInv, CloseStep
<1>1. HeadOK(c, d, m, n, socket[n], Rest(c, d)[d][c])
  BY <1>0, HeadRead
<1>2. n \in Sockets /\ c # d /\ (socket[n].from = c => socket[n].to = d /\ socket[n].client)
  BY <1>1 DEF HeadOK
<1>3. TransitInv' /\ SocketInv' /\ NameInv' /\ ExchangeInv'
  BY ClosedTransit, ClosedSockets, ClosedExchange
<1>4. DaemonInv'
  BY <1>0 DEF DaemonInv, OnlyDaemon
<1>5. LinkInv'
  BY <1>0, <1>2, ClosedLinks DEF CloseStep
<1>6. QED
  BY <1>3, <1>4, <1>5 DEF ClusterInv

\* a daemon that stays joined to everyone
LEMMA AllJoined ==
  ASSUME TypeOK, NEW c \in Computers, OnlyDaemon(c),
         \A e \in Computers : Joined(daemon[c], e) => Joined(daemon'[c], e)
  PROVE  JoinedStill
<1>1. ASSUME NEW x \in Sockets, Joined(daemon[socket[x].from], socket[x].to)
      PROVE  Joined(daemon'[socket[x].from], socket[x].to)
  <2>1. socket[x].from \in Computers /\ socket[x].to \in Computers
    BY DEF TypeOK, Socket
  <2>2. QED
    BY <1>1, <2>1 DEF OnlyDaemon
<1>2. QED
  BY <1>1 DEF JoinedStill

LEMMA CloseStepFrom ==
  ASSUME TypeOK, NEW c \in Computers, NEW d \in Computers, NEW m, Read(c, d, m),
         socket' = CloseEnd(c, socket, SocketRead(c, d)),
         queue' = CloseQueue(c, Rest(c, d), SocketRead(c, d))
  PROVE  CloseStep(c, d, m)
<1> DEFINE n == SocketRead(c, d)
<1>1. n \in Sockets /\ socket \in [Sockets -> Socket]
  BY ReadEvent DEF TypeOK
<1>2. EndClosed(c, socket[n], socket'[n]) /\ OtherSockets(n)
  BY <1>1, EndCloses DEF OtherSockets
<1>3. QED
  BY <1>2 DEF CloseStep

LEMMA RefuseInv ==
  ASSUME ClusterInv, TypeOK', NEW c \in Computers, NEW d \in Computers, REFUSE(c, d)
  PROVE  ClusterInv'
<1> DEFINE n == SocketRead(c, d)
           p == daemon[c].f_smaller_ips[d]
           pp == [p EXCEPT !.sock = None]
           r == [daemon[c] EXCEPT !.f_smaller_ips[d] = pp]
<1>0. TypeOK /\ TransitInv /\ SocketInv /\ DaemonInv
  BY DEF ClusterInv
<1>1. /\ Read(c, d, "REFUSE")
      /\ daemon' = [daemon EXCEPT ![c].f_smaller_ips[d].sock = None]
      /\ CloseStep(c, d, "REFUSE")
  BY <1>0, CloseStepFrom DEF REFUSE
<1>2. daemon[c] \in Daemon /\ p \in Permanent /\ daemon[c].f_smaller_ips \in [Computers -> Permanent]
  BY <1>0, DaemonFields
<1>3. daemon' = [daemon EXCEPT ![c] = r]
  BY <1>1
<1>4. pp.sock = None /\ pp.known = p.known /\ pp.type = p.type /\ pp.enabled = p.enabled
  BY <1>2 DEF Permanent
<1>5. SmallerSet(r, daemon[c], d, pp) /\ r.services_know = daemon[c].services_know
  <2>1. r = [daemon[c] EXCEPT !.f_smaller_ips[d] = pp]
    OBVIOUS
  <2> HIDE DEF r, pp
  <2>2. QED
    BY <1>2, <2>1, SettingSmaller
<1>6. DaemonOK(c, daemon[c])
  BY <1>0 DEF DaemonInv
<1>7. HeadOK(c, d, "REFUSE", n, socket[n], Rest(c, d)[d][c])
  BY <1>0, <1>1, HeadRead
<1>8. socket[n].from = c /\ d < c /\ ~(c < d)
  BY <1>7, NumberedComputers DEF HeadOK
<1> HIDE DEF n, r, pp
<1>9. daemon'[c] = r /\ OnlyDaemon(c)
  BY <1>0, <1>3, SettingDaemon
<1>10. LinkClosed(c, d, n, daemon[c], r)
  <2>1. daemon[c].f_gossip_ips[d].sock = None
    BY <1>6, <1>8 DEF DaemonOK, Unused
  <2>2. QED
    BY <1>4, <1>5, <1>8, <2>1 DEF LinkClosed, SmallerSet
<1>11. DaemonOK(c, r)
  BY <1>4, <1>5, <1>6 DEF DaemonOK, SmallerSet, Unused
<1>12. \A e \in Computers : Joined(daemon[c], e) => Joined(r, e)
  BY <1>4, <1>5 DEF Joined, SmallerSet
<1>13. JoinedStill
  BY <1>0, <1>9, <1>12, AllJoined
<1>14. QED
  BY <1>1, <1>9, <1>10, <1>11, <1>13, ClosedInv DEF n

LEMMA ReceivedInv ==
  ASSUME ClusterInv, TypeOK', NEW c \in Computers, NEW d \in Computers, RECEIVED(c, d)
  PROVE  ClusterInv'
<1> DEFINE n == SocketRead(c, d)
           r == [daemon[c] EXCEPT !.f_gossip_ips[d] = NoPermanent]
<1>0. TypeOK /\ TransitInv /\ SocketInv /\ DaemonInv
  BY DEF ClusterInv
<1>1. /\ Read(c, d, "RECEIVED")
      /\ daemon' = [daemon EXCEPT ![c].f_gossip_ips[d] = NoPermanent]
      /\ CloseStep(c, d, "RECEIVED")
  BY <1>0, CloseStepFrom DEF RECEIVED
<1>2. daemon[c] \in Daemon
  BY <1>0, DaemonFields
<1>3. daemon' = [daemon EXCEPT ![c] = r]
  BY <1>1
<1>4. NoPermanent.sock = None /\ Unused(NoPermanent) /\ ~NoPermanent.known
  BY DEF NoPermanent, Unused
<1>5. GossipSet(r, daemon[c], d, NoPermanent) /\ r.services_know = daemon[c].services_know
  <2>1. r = [daemon[c] EXCEPT !.f_gossip_ips[d] = NoPermanent]
    OBVIOUS
  <2> HIDE DEF r
  <2>2. QED
    BY <1>2, <2>1, SettingGossip
<1>6. DaemonOK(c, daemon[c])
  BY <1>0 DEF DaemonInv
<1>7. HeadOK(c, d, "RECEIVED", n, socket[n], Rest(c, d)[d][c])
  BY <1>0, <1>1, HeadRead
<1>8. socket[n].from = c /\ c < d /\ ~(d < c)
  BY <1>7, NumberedComputers DEF HeadOK
<1> HIDE DEF n, r
<1>9. daemon'[c] = r /\ OnlyDaemon(c)
  BY <1>0, <1>3, SettingDaemon
<1>10. LinkClosed(c, d, n, daemon[c], r)
  <2>1. daemon[c].f_smaller_ips[d].sock = None
    BY <1>6, <1>8 DEF DaemonOK, Unused
  <2>2. QED
    BY <1>4, <1>5, <1>8, <2>1 DEF LinkClosed, GossipSet
<1>11. DaemonOK(c, r)
  BY <1>4, <1>5, <1>6 DEF DaemonOK, GossipSet
<1>12. \A e \in Computers : Joined(daemon[c], e) => Joined(r, e)
  BY <1>5 DEF Joined, GossipSet
<1>13. JoinedStill
  BY <1>0, <1>9, <1>12, AllJoined
<1>14. QED
  BY <1>1, <1>9, <1>10, <1>11, <1>13, ClosedInv DEF n

\* c no longer has d, to which it was joined on socket n, or which was on n
LEMMA LeftStill ==
  ASSUME TypeOK, LinkInv, NEW c \in Computers, NEW d \in Computers, NEW n \in Sockets,
         OnlyDaemon(c), EndClosed(c, socket[n], socket'[n]), OtherSockets(n),
         \/ socket[n].from = c /\ socket[n].to = d /\ socket[n].client
         \/ ~(d < c),
         \A e \in Computers : e # d /\ Joined(daemon[c], e) => Joined(daemon'[c], e)
  PROVE  JoinedStill
<1>1. ASSUME NEW x \in Sockets, socket'[x].client, socket[x].to < socket[x].from,
             Joined(daemon[socket[x].from], socket[x].to)
      PROVE  Joined(daemon'[socket[x].from], socket[x].to)
  <2>1. socket[x].from \in Computers /\ socket[x].to \in Computers
    BY DEF TypeOK, Socket
  <2>2. CASE socket[x].from # c
    BY <1>1, <2>1, <2>2 DEF OnlyDaemon
  <2>3. CASE socket[x].from = c /\ socket[x].to # d
    BY <1>1, <2>1, <2>3
  <2>4. CASE socket[x].from = c /\ socket[x].to = d
    <3>1. socket[n].from = c /\ socket[n].to = d /\ socket[n].client /\ d < c
      BY <1>1, <2>4
    <3>2. x # n
      BY <1>1, <3>1 DEF EndClosed
    <3>3. socket[x].client
      BY <1>1, <3>2 DEF OtherSockets
    <3>4. daemon[c].f_smaller_ips[d].sock = n
      BY <3>1 DEF LinkInv, Link
    <3>5. daemon[c].f_smaller_ips[d].sock = x
      BY <1>1, <2>4, <3>1, <3>3 DEF LinkInv, Link
    <3>6. QED
      BY <3>2, <3>4, <3>5
  <2>5. QED
    BY <2>2, <2>3, <2>4
<1>2. QED
  BY <1>1 DEF JoinedStill

\* c closes a REMOTE connection on which d told it that it stops
LEMMA DisconnectEffect ==
  ASSUME TypeOK, NEW c \in Computers, NEW d \in Computers,
         DISCONNECT(c, d),
         (IF socket[SocketRead(c, d)].from = c THEN daemon[c].f_smaller_ips[d].type
          ELSE socket[SocketRead(c, d)].type) = "REMOTE"
  PROVE  /\ CloseStep(c, d, "DISCONNECT")
         /\ OnlyDaemon(c)
         /\ daemon'[c].up = daemon[c].up
         /\ daemon'[c].f_all_neighbors = daemon[c].f_all_neighbors
         /\ daemon'[c].f_all_ips = daemon[c].f_all_ips
         /\ daemon'[c].f_gossip_ips = daemon[c].f_gossip_ips
         /\ \A e \in Computers :
              e # d => daemon'[c].f_smaller_ips[e] = daemon[c].f_smaller_ips[e]
         /\ daemon'[c].services_know = daemon[c].services_know \ {d}
         /\ socket[SocketRead(c, d)].from = c =>
              /\ daemon'[c].f_smaller_ips[d].sock = None
              /\ daemon'[c].f_smaller_ips[d].known = daemon[c].f_smaller_ips[d].known
              /\ daemon'[c].f_smaller_ips[d].enabled = daemon[c].f_smaller_ips[d].enabled
         /\ socket[SocketRead(c, d)].from # c =>
              daemon'[c].f_smaller_ips[d] = daemon[c].f_smaller_ips[d]
<1> DEFINE n == SocketRead(c, d)
           s == socket[n]
           ours == s.from = c
           closed == CloseEnd(c, socket, n)
           sk == IF ours THEN closed ELSE [closed EXCEPT ![n].type = "DOWN"]
           perm == daemon[c].f_smaller_ips[d]
           k == daemon[c].services_know \ {d}
           p == IF ours THEN [perm EXCEPT !.sock = None, !.type = "DOWN"] ELSE perm
           dm == [daemon[c] EXCEPT !.services_know = k, !.f_smaller_ips[d] = p]
           r == cluster_status(c, dm, sk)
<1>1. /\ Read(c, d, "DISCONNECT")
      /\ socket' = sk
      /\ queue' = CloseQueue(c, Rest(c, d), n)
      /\ daemon' = [daemon EXCEPT ![c] = r]
  BY Zenon DEF DISCONNECT
<1>2. n \in Sockets /\ socket \in [Sockets -> Socket]
  BY <1>1, ReadEvent DEF TypeOK
<1>3. EndClosed(c, s, sk[n]) /\ \A x \in Sockets : x # n => sk[x] = socket[x]
  <2>1. closed \in [Sockets -> Socket]
    BY <1>2, ClosedEndTypes
  <2>2. /\ EndClosed(c, s, closed[n])
        /\ \A x \in Sockets : x # n => closed[x] = socket[x]
    BY <1>2, EndCloses
  <2>3. CASE ours
    BY <2>2, <2>3
  <2>4. CASE ~ours
    <3> DEFINE down == [closed EXCEPT ![n].type = "DOWN"]
    <3> HIDE DEF closed
    <3>1. /\ down[n].from = closed[n].from /\ down[n].to = closed[n].to
          /\ down[n].broken = closed[n].broken /\ down[n].client = closed[n].client
          /\ down[n].server_name = closed[n].server_name
          /\ down[n].server = closed[n].server /\ down[n].type = "DOWN"
          /\ \A x \in Sockets : x # n => down[x] = closed[x]
      BY <1>2, <2>1 DEF Socket
    <3>2. sk = down
      BY <2>4
    <3> HIDE DEF down, sk
    <3>3. QED
      BY <2>2, <2>4, <3>1, <3>2 DEF EndClosed
  <2>5. QED
    BY <2>3, <2>4
<1>4. CloseStep(c, d, "DISCONNECT")
  BY <1>1, <1>3 DEF CloseStep, OtherSockets
<1>5. /\ r.up = daemon[c].up
      /\ r.f_all_neighbors = daemon[c].f_all_neighbors
      /\ r.f_all_ips = daemon[c].f_all_ips
      /\ r.f_gossip_ips = daemon[c].f_gossip_ips
      /\ r.f_smaller_ips[d] = p
      /\ \A e \in Computers : e # d => r.f_smaller_ips[e] = daemon[c].f_smaller_ips[e]
      /\ r.services_know = k
  <2>1. daemon[c] \in Daemon /\ perm \in Permanent /\ k \in SUBSET Computers
    BY DaemonFields
  <2>2. p \in Permanent
    BY <2>1 DEF Permanent
  <2> HIDE DEF p, k, perm, sk
  <2>3. [daemon[c] EXCEPT !.services_know = k] \in Daemon
    BY <2>1, SetKnow
  <2>4. dm \in Daemon
    BY <2>2, <2>3, SetPermanent
  <2>5. /\ dm.up = daemon[c].up
        /\ dm.f_all_neighbors = daemon[c].f_all_neighbors
        /\ dm.f_all_ips = daemon[c].f_all_ips
        /\ dm.f_gossip_ips = daemon[c].f_gossip_ips
        /\ dm.f_smaller_ips[d] = p
        /\ \A e \in Computers : e # d => dm.f_smaller_ips[e] = daemon[c].f_smaller_ips[e]
        /\ dm.services_know = k
    BY <2>1 DEF Daemon
  <2> HIDE DEF dm
  <2>6. QED
    BY <2>4, <2>5, StatusFields
<1>6. /\ ours => p.sock = None /\ p.known = perm.known /\ p.enabled = perm.enabled
      /\ ~ours => p = perm
  <2>1. perm \in Permanent
    BY DaemonFields
  <2>2. QED
    BY <2>1 DEF Permanent
<1>7. daemon'[c] = r /\ OnlyDaemon(c)
  <2> HIDE DEF r
  <2>1. QED
    BY <1>1, SettingDaemon
<1> HIDE DEF r, dm, p, sk, closed
<1>8. QED
  BY <1>4, <1>5, <1>6, <1>7

LEMMA DisconnectedInv ==
  ASSUME ClusterInv, TypeOK', NEW c \in Computers, NEW d \in Computers,
         DISCONNECT(c, d),
         (IF socket[SocketRead(c, d)].from = c THEN daemon[c].f_smaller_ips[d].type
          ELSE socket[SocketRead(c, d)].type) = "REMOTE"
  PROVE  ClusterInv'
<1> DEFINE n == SocketRead(c, d)
           s == socket[n]
           ours == s.from = c
           perm == daemon[c].f_smaller_ips[d]
           r == daemon'[c]
<1>0. TypeOK /\ TransitInv /\ SocketInv /\ DaemonInv /\ LinkInv
  BY DEF ClusterInv
<1>1. /\ CloseStep(c, d, "DISCONNECT")
      /\ OnlyDaemon(c)
      /\ r.up = daemon[c].up
      /\ r.f_all_ips = daemon[c].f_all_ips
      /\ r.f_gossip_ips = daemon[c].f_gossip_ips
      /\ \A e \in Computers : e # d => r.f_smaller_ips[e] = daemon[c].f_smaller_ips[e]
      /\ r.services_know = daemon[c].services_know \ {d}
      /\ ours => r.f_smaller_ips[d].sock = None /\ r.f_smaller_ips[d].known = perm.known
      /\ ~ours => r.f_smaller_ips[d] = perm
  BY <1>0, DisconnectEffect
<1>2. Read(c, d, "DISCONNECT")
  BY <1>1 DEF CloseStep
<1>3. HeadOK(c, d, "DISCONNECT", n, s, Rest(c, d)[d][c])
  BY <1>0, <1>2, HeadRead
<1>4. DaemonOK(c, daemon[c])
  BY <1>0 DEF DaemonInv
<1>5. /\ n \in Sockets
      /\ ours => s.to = d /\ s.client /\ perm.type = "REMOTE"
      /\ ~ours => s.from = d /\ s.to = c /\ s.type = "REMOTE" /\ s.server = "open"
  BY <1>3 DEF HeadOK
<1>6. ours => perm.known /\ d < c
  BY <1>4, <1>5 DEF DaemonOK, Unused
<1>7. ~ours => ~(d < c)
  <2>1. ~ours => SocketOK(n, s, queue[d][c])
    BY <1>0, <1>5 DEF SocketInv
  <2>2. ~ours => c < d
    BY <1>5, <2>1 DEF SocketOK
  <2>3. QED
    BY <2>2, NumberedComputers
<1> HIDE DEF n, r
<1>8. LinkClosed(c, d, n, daemon[c], r)
  <2>1. CASE ours
    <3>1. daemon[c].f_gossip_ips[d].sock = None
      <4>1. ~(c < d)
        BY <1>6, <2>1, NumberedComputers
      <4>2. QED
        BY <1>4, <4>1 DEF DaemonOK, Unused
    <3>2. QED
      BY <1>1, <2>1, <3>1 DEF LinkClosed
  <2>2. CASE ~ours
    BY <1>1, <2>2 DEF LinkClosed
  <2>3. QED
    BY <2>1, <2>2
<1>9. DaemonOK(c, r)
  BY <1>1, <1>4, <1>6 DEF DaemonOK
<1>10. JoinedStill
  <2>1. \A e \in Computers : e # d /\ Joined(daemon[c], e) => Joined(r, e)
    BY <1>1 DEF Joined
  <2>2. EndClosed(c, socket[n], socket'[n]) /\ OtherSockets(n)
    BY <1>1 DEF CloseStep, n
  <2>3. QED
    BY <1>0, <1>1, <1>5, <1>7, <2>1, <2>2, LeftStill DEF r
<1>11. QED
  BY <1>1, <1>8, <1>9, <1>10, ClosedInv DEF n, r

LEMMA DisconnectInv ==
  ASSUME ClusterInv, TypeOK', NEW c \in Computers, NEW d \in Computers,
         DISCONNECT(c, d)
  PROVE  ClusterInv'
<1> DEFINE type == IF socket[SocketRead(c, d)].from = c
                   THEN daemon[c].f_smaller_ips[d].type
                   ELSE socket[SocketRead(c, d)].type
<1>1. CASE type = "REMOTE"
  BY <1>1, DisconnectedInv
<1>2. CASE type # "REMOTE"
  <2>1. /\ Read(c, d, "DISCONNECT")
        /\ queue' = Rest(c, d)
        /\ daemon' = daemon
        /\ socket' = socket
    BY <1>2, Zenon DEF DISCONNECT
  <2>2. QED
    BY <2>1, IgnoredInv
<1>3. QED
  BY <1>1, <1>2

-----------------------------------------------------------------------------
(***************************************************************************)
(* c finds out that socket n, to d, is gone: nothing is left for it, and   *)
(* the other end is closed or the connection is broken.                    *)
(***************************************************************************)
HangStep(c, d, n) ==
  /\ n \in Sockets
  /\ c # d
  /\ \/ socket[n].from = d /\ socket[n].to = c /\ socket[n].server # "closed"
     \/ socket[n].from = c /\ socket[n].to = d /\ socket[n].client
  /\ socket[n].broken \/ /\ socket[n].from = c => socket[n].server = "closed"
                         /\ socket[n].from = d => ~socket[n].client
  /\ socket[n].from = c => socket[n].server # "backlog"
  /\ EndClosed(c, socket[n], socket'[n])
  /\ OtherSockets(n)
  /\ ~On(queue'[d][c], n)
  /\ \A a, b \in Computers : \A x \in Sockets : Transit(a, b, x, queue'[a][b], socket[x])
  /\ \A a, b \in Computers : \A x \in Sockets : \A y :
       x # n /\ Has(queue[a][b], x, y) => Has(queue'[a][b], x, y)

LEMMA HangTransit ==
  ASSUME NEW c \in Computers, NEW d \in Computers, NEW n, HangStep(c, d, n)
  PROVE  TransitInv'
<1>1. ASSUME NEW a \in Computers, NEW b \in Computers, NEW x \in Sockets
      PROVE  Transit(a, b, x, queue'[a][b], socket'[x])
  <2>1. Transit(a, b, x, queue'[a][b], socket[x])
    BY DEF HangStep
  <2>2. CASE x # n
    BY <2>1, <2>2 DEF HangStep, OtherSockets
  <2>3. CASE x = n
    <3>1. Transit(a, b, n, queue'[a][b], socket[n])
      BY <2>1, <2>3
    <3>2. b = c => ~On(queue'[a][b], n)
      <4>1. On(queue'[a][b], n) => a # b /\ {a, b} = {c, d}
        BY <3>1 DEF Transit, HangStep
      <4>2. b = c /\ On(queue'[a][b], n) => a = d
        BY <4>1
      <4>3. QED
        BY <4>2 DEF HangStep
    <3>3. EndClosed(c, socket[n], socket'[n]) /\ c \in {socket[n].from, socket[n].to}
      BY DEF HangStep
    <3>4. Transit(a, b, n, queue'[a][b], socket'[n])
      BY <3>1, <3>2, <3>3, TransitClosed
    <3>5. QED
      BY <2>3, <3>4
  <2>4. QED
    BY <2>2, <2>3
<1>2. QED
  BY <1>1 DEF TransitInv

LEMMA HangSockets ==
  ASSUME ClusterInv, NEW c \in Computers, NEW d \in Computers, NEW n,
         HangStep(c, d, n), JoinedStill
  PROVE  SocketInv' /\ NameInv' /\ ExchangeInv'
<1>0. TypeOK /\ SocketInv /\ NameInv /\ ExchangeInv
  BY DEF ClusterInv
<1>1. n \in Sockets /\ EndClosed(c, socket[n], socket'[n]) /\ OtherSockets(n)
  BY DEF HangStep
<1>2. ASSUME NEW x \in Sockets
      PROVE  /\ SocketOK(x, socket'[x], queue'[socket'[x].from][socket'[x].to])
             /\ Exchange(x, socket'[x], queue'[socket'[x].from][socket'[x].to],
                         queue'[socket'[x].to][socket'[x].from],
                         Joined(daemon'[socket'[x].from], socket'[x].to))
  <2> DEFINE f == socket[x].from
             t == socket[x].to
  <2>0. f \in Computers /\ t \in Computers
    BY <1>0 DEF TypeOK, Socket
  <2>1. SocketOK(x, socket[x], queue[f][t])
    BY <1>0 DEF SocketInv
  <2>2. Exchange(x, socket[x], queue[f][t], queue[t][f], Joined(daemon[f], t))
    BY <1>0 DEF ExchangeInv
  <2>3. CASE x # n
    <3>1. socket'[x] = socket[x]
      BY <1>1, <2>3 DEF OtherSockets
    <3>2. /\ \A y : Has(queue[f][t], x, y) => Has(queue'[f][t], x, y)
          /\ \A y : Has(queue[t][f], x, y) => Has(queue'[t][f], x, y)
      <4> HIDE DEF f, t
      <4>1. QED
        BY <2>0, <2>3 DEF HangStep
    <3>3. socket[x].client /\ t < f /\ Joined(daemon[f], t) => Joined(daemon'[f], t)
      BY <3>1 DEF JoinedStill
    <3>4. SocketOK(x, socket[x], queue'[f][t])
      BY <2>1, <3>2 DEF SocketOK
    <3>5. Exchange(x, socket[x], queue'[f][t], queue'[t][f], Joined(daemon'[f], t))
      <4> HIDE DEF f, t
      <4>1. socket[x].from = f /\ socket[x].to = t
        BY DEF f, t
      <4>2. QED
        BY <2>2, <3>2, <3>3, <4>1 DEF Exchange
    <3>6. QED
      BY <3>1, <3>4, <3>5
  <2>4. CASE x = n
    <3>1. SocketOK(n, socket[n], queue[f][t])
      BY <2>1, <2>4
    <3>2. SocketOK(n, socket'[n], queue'[f][t])
      BY <1>1, <3>1 DEF SocketOK, EndClosed, HangStep
    <3>3. Exchange(n, socket'[n], queue'[f][t], queue'[t][f], Joined(daemon'[f], t))
      BY <1>1 DEF Exchange, EndClosed, HangStep
    <3>4. socket'[n].from = f /\ socket'[n].to = t
      BY <1>1, <2>4 DEF EndClosed
    <3>5. QED
      BY <2>4, <3>2, <3>3, <3>4
  <2>5. QED
    BY <2>3, <2>4
<1>3. ASSUME NEW x \in Sockets, NEW y \in Sockets, SameNames(socket'[x], socket'[y])
      PROVE  x = y
  <2>1. ASSUME NEW z \in Sockets
        PROVE  /\ socket'[z].server # "closed" => socket[z].server # "closed"
               /\ socket'[z].from = socket[z].from
               /\ socket'[z].to = socket[z].to
               /\ socket'[z].server_name = socket[z].server_name
    BY <1>1 DEF EndClosed, OtherSockets
  <2>2. SameNames(socket[x], socket[y])
    BY <1>3, <2>1 DEF SameNames
  <2>3. QED
    BY <1>0, <2>2 DEF NameInv
<1>4. QED
  BY <1>2, <1>3 DEF SocketInv, NameInv, ExchangeInv

LEMMA LostInv ==
  ASSUME ClusterInv, TypeOK', NEW c \in Computers, NEW d \in Computers, NEW n, NEW hangup,
         HangStep(c, d, n), Lost(c, d, n, hangup)
  PROVE  ClusterInv'
<1> DEFINE s == socket[n]
           know == [daemon[c] EXCEPT !.services_know = @ \ {d}]
           r == IF s.from = c THEN HungUp(c, d)
                ELSE IF hangup /\ s.server_name THEN know
                ELSE daemon[c]
<1>0. TypeOK /\ SocketInv /\ DaemonInv /\ LinkInv
  BY DEF ClusterInv
<1>1. n \in Sockets /\ c # d /\ EndClosed(c, s, socket'[n]) /\ OtherSockets(n)
      /\ \/ s.from = d /\ s.to = c /\ s.server # "closed"
         \/ s.from = c /\ s.to = d /\ s.client
  BY DEF HangStep
<1>2. daemon' = [daemon EXCEPT ![c] = r]
  BY DEF Lost
<1>3. daemon[c] \in Daemon /\ DaemonOK(c, daemon[c])
  BY <1>0 DEF TypeOK, DaemonInv
<1>4. c \in Nat /\ d \in Nat
  BY NumberedComputers
<1> HIDE DEF r
<1>5. daemon'[c] = r /\ OnlyDaemon(c)
  BY <1>0, <1>2, SettingDaemon
<1>6. LinkClosed(c, d, n, daemon[c], r) /\ DaemonOK(c, r) /\ JoinedStill
  <2>1. CASE s.from = c
    <3>0. s.to = d /\ s.client /\ r = HungUp(c, d)
      BY <1>1, <2>1 DEF r
    <3>1. CASE d < c
      <4> DEFINE p == daemon[c].f_smaller_ips[d]
                 g == Retried(p)
      <4>1. r = [daemon[c] EXCEPT !.f_smaller_ips[d] = g]
        BY <3>0, <3>1 DEF HungUp
      <4>2. p \in Permanent
        BY <1>0, DaemonFields
      <4>3. g.sock = None /\ g.known = p.known /\ g.type = p.type
        BY <4>2 DEF Retried, Permanent
      <4>4. p.known
        <5>1. p.sock = n
          BY <1>0, <1>1, <2>1, <3>0, <3>1 DEF LinkInv, Link
        <5>2. n # None
          BY <1>1, NoneIsNone
        <5>3. QED
          BY <1>3, <5>1, <5>2 DEF DaemonOK, Unused
      <4> HIDE DEF g
      <4>5. SmallerSet(r, daemon[c], d, g) /\ r.services_know = daemon[c].services_know
        <5> HIDE DEF r
        <5>1. QED
          BY <1>3, <4>1, SettingSmaller
      <4>6. LinkClosed(c, d, n, daemon[c], r)
        <5>1. daemon[c].f_gossip_ips[d].sock = None
          BY <1>3, <1>4, <3>1 DEF DaemonOK, Unused
        <5>2. QED
          BY <2>1, <4>3, <4>5, <5>1 DEF LinkClosed, SmallerSet
      <4>7. DaemonOK(c, r)
        BY <1>3, <4>3, <4>4, <4>5 DEF DaemonOK, SmallerSet
      <4>8. \A e \in Computers : Joined(daemon[c], e) => Joined(r, e)
        BY <4>3, <4>5 DEF Joined, SmallerSet
      <4>9. QED
        BY <1>0, <1>5, <4>6, <4>7, <4>8, AllJoined
    <3>2. CASE ~(d < c)
      <4> DEFINE p == daemon[c].f_gossip_ips[d]
                 g == Retried(p)
      <4>0. c < d
        BY <1>1, <1>4, <3>2
      <4>1. r = [daemon[c] EXCEPT !.f_gossip_ips[d] = g]
        BY <3>0, <3>2 DEF HungUp
      <4>2. p \in Permanent
        BY <1>0, DaemonFields
      <4>3. g.sock = None /\ g.known = p.known
        BY <4>2 DEF Retried, Permanent
      <4>4. p.known
        <5>1. p.sock = n
          BY <1>0, <1>1, <2>1, <3>0, <4>0 DEF LinkInv, Link
        <5>2. n # None
          BY <1>1, NoneIsNone
        <5>3. QED
          BY <1>3, <5>1, <5>2 DEF DaemonOK, Unused
      <4> HIDE DEF g
      <4>5. GossipSet(r, daemon[c], d, g) /\ r.services_know = daemon[c].services_know
        <5> HIDE DEF r
        <5>1. QED
          BY <1>3, <4>1, SettingGossip
      <4>6. LinkClosed(c, d, n, daemon[c], r)
        <5>1. daemon[c].f_smaller_ips[d].sock = None
          BY <1>3, <3>2 DEF DaemonOK, Unused
        <5>2. QED
          BY <2>1, <4>3, <4>5, <5>1 DEF LinkClosed, GossipSet
      <4>7. DaemonOK(c, r)
        BY <1>3, <4>3, <4>4, <4>5 DEF DaemonOK, GossipSet
      <4>8. \A e \in Computers : Joined(daemon[c], e) => Joined(r, e)
        BY <4>5 DEF Joined, GossipSet
      <4>9. QED
        BY <1>0, <1>5, <4>6, <4>7, <4>8, AllJoined
    <3>3. QED
      BY <3>1, <3>2
  <2>2. CASE s.from # c /\ hangup /\ s.server_name
    <3>1. r = know
      BY <2>2 DEF r
    <3>2. /\ r.f_smaller_ips = daemon[c].f_smaller_ips
          /\ r.f_gossip_ips = daemon[c].f_gossip_ips
          /\ r.up = daemon[c].up
          /\ r.f_all_ips = daemon[c].f_all_ips
          /\ r.services_know = daemon[c].services_know \ {d}
      BY <1>3, <3>1 DEF Daemon
    <3>3. ~(d < c)
      <4>1. s.from = d /\ s.to = c /\ s.server # "closed"
        BY <1>1, <2>2
      <4>2. SocketOK(n, s, queue[d][c])
        BY <1>0, <1>1, <4>1 DEF SocketInv
      <4>3. QED
        BY <1>4, <2>2, <4>1, <4>2 DEF SocketOK
    <3>4. LinkClosed(c, d, n, daemon[c], r)
      BY <2>2, <3>2 DEF LinkClosed
    <3>5. DaemonOK(c, r)
      BY <1>3, <3>2 DEF DaemonOK
    <3>6. \A e \in Computers : e # d /\ Joined(daemon[c], e) => Joined(r, e)
      BY <3>2 DEF Joined
    <3>7. JoinedStill
      BY <1>0, <1>1, <1>5, <3>3, <3>6, LeftStill
    <3>8. QED
      BY <3>4, <3>5, <3>7
  <2>3. CASE s.from # c /\ ~(hangup /\ s.server_name)
    <3>1. r = daemon[c]
      BY <2>3 DEF r
    <3>2. LinkClosed(c, d, n, daemon[c], r)
      BY <2>3, <3>1 DEF LinkClosed
    <3>3. DaemonOK(c, r)
      BY <1>3, <3>1
    <3>4. JoinedStill
      BY <1>0, <1>5, <3>1, AllJoined
    <3>5. QED
      BY <3>2, <3>3, <3>4
  <2>4. QED
    BY <2>1, <2>2, <2>3
<1>7. LinkInv'
  BY <1>0, <1>1, <1>5, <1>6, ClosedLinks
<1>8. DaemonInv'
  BY <1>0, <1>5, <1>6 DEF DaemonInv, OnlyDaemon
<1>9. TransitInv' /\ SocketInv' /\ NameInv' /\ ExchangeInv'
  BY <1>6, HangTransit, HangSockets
<1>10. QED
  BY <1>7, <1>8, <1>9 DEF ClusterInv

\* nothing is in transit on a broken connection
LEMMA BrokenIsQuiet ==
  ASSUME TypeOK, TransitInv, SocketInv, NEW n \in Sockets, socket[n].broken
  PROVE  /\ \A a, b \in Computers : ~On(queue[a][b], n)
         /\ socket[n].server # "backlog"
<1>1. ASSUME NEW a \in Computers, NEW b \in Computers PROVE ~On(queue[a][b], n)
  BY DEF TransitInv, Transit
<1>2. socket[n].from \in Computers /\ socket[n].to \in Computers
  BY DEF TypeOK, Socket
<1>3. ~Has(queue[socket[n].from][socket[n].to], n, "SYN")
  BY <1>1, <1>2, HasOn
<1>4. QED
  BY <1>1, <1>3 DEF SocketInv, SocketOK

LEMMA HupInv ==
  ASSUME ClusterInv, TypeOK', NEW c \in Computers, NEW d \in Computers,
         process_hup(c, d)
  PROVE  ClusterInv'
<1> DEFINE n == SocketRead(c, d)
<1>0. TypeOK /\ TransitInv /\ SocketInv
  BY DEF ClusterInv
<1>1. /\ Read(c, d, "FIN")
      /\ Lost(c, d, n, TRUE)
      /\ socket' = CloseEnd(c, socket, n)
      /\ queue' = Rest(c, d)
  BY DEF process_hup
<1>2. n \in Sockets /\ socket \in [Sockets -> Socket]
  BY <1>0, <1>1, ReadEvent DEF TypeOK
<1>3. HeadOK(c, d, "FIN", n, socket[n], queue'[d][c])
  BY <1>0, <1>1, HeadRead
<1>4. EndClosed(c, socket[n], socket'[n]) /\ OtherSockets(n)
  BY <1>1, <1>2, EndCloses DEF OtherSockets
<1>5. \A a, b \in Computers : \A x \in Sockets : Transit(a, b, x, queue'[a][b], socket[x])
  BY <1>0, <1>1, RestTransit
<1>6. \A a, b \in Computers : \A x \in Sockets : \A y :
        x # n /\ Has(queue[a][b], x, y) => Has(queue'[a][b], x, y)
  BY <1>0, <1>1, RestHas
<1> HIDE DEF n
<1>7. HangStep(c, d, n)
  BY <1>2, <1>3, <1>4, <1>5, <1>6 DEF HangStep, HeadOK
<1>8. QED
  BY <1>1, <1>7, LostInv

LEMMA NoticeInv ==
  ASSUME ClusterInv, TypeOK', NEW c \in Computers, NEW n \in Sockets, Notice(c, n)
  PROVE  ClusterInv'
<1> DEFINE d == Other(c, n)
<1>0. TypeOK /\ TransitInv /\ SocketInv
  BY DEF ClusterInv
<1>1. PICK hangup \in BOOLEAN : Lost(c, d, n, hangup)
  BY DEF Notice
<1>2. /\ socket[n].broken
      /\ c \in {socket[n].from, socket[n].to}
      /\ IsOpen(c, n)
      /\ socket' = CloseEnd(c, socket, n)
      /\ queue' = queue
  BY DEF Notice
<1>3. d \in Computers /\ socket \in [Sockets -> Socket]
  BY <1>0 DEF TypeOK, Socket, Other
<1>4. socket[n].client \/ socket[n].server # "closed"
  BY <1>2 DEF IsOpen
<1>5. socket[n].from # socket[n].to
  BY <1>0, <1>4 DEF SocketInv, SocketOK
<1>6. /\ c # d
      /\ \/ socket[n].from = d /\ socket[n].to = c /\ socket[n].server # "closed"
         \/ socket[n].from = c /\ socket[n].to = d /\ socket[n].client
  BY <1>2, <1>5 DEF IsOpen, Other
<1>7. EndClosed(c, socket[n], socket'[n]) /\ OtherSockets(n)
  BY <1>2, <1>3, EndCloses DEF OtherSockets
<1>8. /\ \A a, b \in Computers : ~On(queue[a][b], n)
      /\ socket[n].server # "backlog"
  BY <1>0, <1>2, BrokenIsQuiet
<1>9. \A a, b \in Computers : \A x \in Sockets : Transit(a, b, x, queue'[a][b], socket[x])
  BY <1>0, <1>2 DEF TransitInv
<1> HIDE DEF d
<1>10. HangStep(c, d, n)
  BY <1>2, <1>3, <1>6, <1>7, <1>8, <1>9 DEF HangStep
<1>11. QED
  BY <1>1, <1>3, <1>10, LostInv

-----------------------------------------------------------------------------
(***************************************************************************)
(* A connection breaks.                                                    *)
(***************************************************************************)
LEMMA BreakInv ==
  ASSUME ClusterInv, TypeOK', NEW n \in Sockets, Break(n)
  PROVE  ClusterInv'
<1> DEFINE f == socket[n].from
           t == socket[n].to
           p == Purge(queue, f, t, n)
           q == Purge(p, t, f, n)
<1>0. /\ TypeOK /\ TransitInv /\ SocketInv /\ NameInv /\ DaemonInv /\ LinkInv
      /\ ExchangeInv
  BY DEF ClusterInv
<1>1. /\ socket[n].client
      /\ socket[n].server # "closed"
      /\ queue' = q
      /\ socket' = [socket EXCEPT ![n].broken = TRUE,
           ![n].server = IF @ = "backlog" THEN "closed" ELSE @]
      /\ daemon' = daemon
  BY DEF Break
<1>2. f \in Computers /\ t \in Computers
  BY <1>0 DEF TypeOK, Socket
<1>3. OtherSockets(n)
  BY <1>0, <1>1 DEF TypeOK, OtherSockets
<1>4. /\ socket'[n].from = f /\ socket'[n].to = t /\ socket'[n].client
      /\ socket'[n].broken /\ socket'[n].type = socket[n].type
      /\ socket'[n].server_name = socket[n].server_name
      /\ socket'[n].server # "backlog"
      /\ socket'[n].server # "closed" => socket'[n].server = socket[n].server
  BY <1>0, <1>1 DEF TypeOK, Socket
<1>5. PurgedFrom(p, queue, f, t, n)
  BY <1>0, <1>2, Purging DEF TypeOK, Queues, Entry
<1>6. PurgedFrom(queue', p, t, f, n)
  <2>1. p \in Queues
    BY <1>5 DEF PurgedFrom
  <2> HIDE DEF p
  <2>2. QED
    BY <1>1, <1>2, <2>1, Purging
<1> HIDE DEF p, q
<1>7. f # t
  BY <1>0, <1>1 DEF SocketInv, SocketOK
<1> HIDE DEF f, t
<1>8. ASSUME NEW a \in Computers, NEW b \in Computers
      PROVE  IsWithout(queue'[a][b], queue[a][b], n) \/ queue'[a][b] = queue[a][b]
  <2>1. CASE a = t /\ b = f
    BY <1>2, <1>5, <1>6, <1>7, <2>1 DEF PurgedFrom, OnlyQueue
  <2>2. CASE a = f /\ b = t
    BY <1>2, <1>5, <1>6, <1>7, <2>2 DEF PurgedFrom, OnlyQueue
  <2>3. CASE ~(a = t /\ b = f) /\ ~(a = f /\ b = t)
    BY <1>5, <1>6, <2>3 DEF PurgedFrom, OnlyQueue
  <2>4. QED
    BY <2>1, <2>2, <2>3
<1>9. ASSUME NEW a \in Computers, NEW b \in Computers
      PROVE  ~On(queue'[a][b], n)
  <2>1. CASE a = t /\ b = f
    BY <1>2, <1>5, <1>6, <1>7, <2>1 DEF PurgedFrom, OnlyQueue, IsWithout
  <2>2. CASE a = f /\ b = t
    BY <1>2, <1>6, <2>2 DEF PurgedFrom, IsWithout
  <2>3. CASE ~(a = t /\ b = f) /\ ~(a = f /\ b = t)
    <3>1. queue'[a][b] = queue[a][b]
      BY <1>5, <1>6, <2>3 DEF PurgedFrom, OnlyQueue
    <3>2. Transit(a, b, n, queue[a][b], socket[n])
      BY <1>0 DEF TransitInv
    <3>3. QED
      BY <2>3, <3>1, <3>2 DEF Transit, f, t
  <2>4. QED
    BY <2>1, <2>2, <2>3
<1>10. ASSUME NEW a \in Computers, NEW b \in Computers, NEW x, NEW y, x # n,
              Has(queue[a][b], x, y)
       PROVE  Has(queue'[a][b], x, y)
  <2>1. IsWithout(queue'[a][b], queue[a][b], n) \/ queue'[a][b] = queue[a][b]
    BY <1>8
  <2>2. QED
    BY <1>10, <2>1 DEF IsWithout
<1>11. TransitInv'
  <2>1. ASSUME NEW a \in Computers, NEW b \in Computers, NEW x \in Sockets
        PROVE  Transit(a, b, x, queue'[a][b], socket'[x])
    <3>1. CASE x = n
      <4>1. ~On(queue'[a][b], x)
        BY <1>9, <3>1
      <4>2. QED
        BY <4>1, TransitNone
    <3>2. CASE x # n
      <4>1. Transit(a, b, x, queue[a][b], socket[x])
        BY <1>0 DEF TransitInv
      <4>2. IsWithout(queue'[a][b], queue[a][b], n) \/ queue'[a][b] = queue[a][b]
        BY <1>8
      <4>3. Transit(a, b, x, queue'[a][b], socket[x])
        BY <4>1, <4>2, TransitWithout
      <4>4. QED
        BY <1>3, <3>2, <4>3 DEF OtherSockets
    <3>3. QED
      BY <3>1, <3>2
  <2>2. QED
    BY <2>1 DEF TransitInv
<1>12. ASSUME NEW x \in Sockets
       PROVE  /\ SocketOK(x, socket'[x], queue'[socket'[x].from][socket'[x].to])
              /\ Exchange(x, socket'[x], queue'[socket'[x].from][socket'[x].to],
                          queue'[socket'[x].to][socket'[x].from],
                          Joined(daemon'[socket'[x].from], socket'[x].to))
  <2> DEFINE ff == socket[x].from
             tt == socket[x].to
  <2>0. ff \in Computers /\ tt \in Computers
    BY <1>0 DEF TypeOK, Socket
  <2>1. SocketOK(x, socket[x], queue[ff][tt])
    BY <1>0 DEF SocketInv
  <2>2. Exchange(x, socket[x], queue[ff][tt], queue[tt][ff], Joined(daemon[ff], tt))
    BY <1>0 DEF ExchangeInv
  <2>3. CASE x # n
    <3>1. socket'[x] = socket[x]
      BY <1>3, <2>3 DEF OtherSockets
    <3>2. /\ \A y : Has(queue[ff][tt], x, y) => Has(queue'[ff][tt], x, y)
          /\ \A y : Has(queue[tt][ff], x, y) => Has(queue'[tt][ff], x, y)
      <4> HIDE DEF ff, tt
      <4>1. QED
        BY <1>10, <2>0, <2>3
    <3>4. SocketOK(x, socket[x], queue'[ff][tt])
      BY <2>1, <3>2 DEF SocketOK
    <3>5. Exchange(x, socket[x], queue'[ff][tt], queue'[tt][ff], Joined(daemon[ff], tt))
      BY <2>2, <3>2 DEF Exchange
    <3>6. QED
      BY <1>1, <3>1, <3>4, <3>5
  <2>4. CASE x = n
    <3>1. SocketOK(n, socket[n], queue[ff][tt])
      BY <2>1, <2>4
    <3>2. SocketOK(n, socket'[n], queue'[f][t])
      BY <1>1, <1>4, <1>7, <3>1 DEF SocketOK, f, t
    <3>3. Exchange(n, socket'[n], queue'[f][t], queue'[t][f], Joined(daemon'[f], t))
      BY <1>4 DEF Exchange
    <3>4. QED
      BY <1>4, <2>4, <3>2, <3>3
  <2>5. QED
    BY <2>3, <2>4
<1>13. NameInv'
  <2>1. ASSUME NEW x \in Sockets, NEW y \in Sockets, SameNames(socket'[x], socket'[y])
        PROVE  x = y
    <3>1. ASSUME NEW z \in Sockets
          PROVE  /\ socket'[z].server # "closed" => socket[z].server # "closed"
                 /\ socket'[z].from = socket[z].from
                 /\ socket'[z].to = socket[z].to
                 /\ socket'[z].server_name = socket[z].server_name
      BY <1>1, <1>3, <1>4 DEF OtherSockets, f, t
    <3>2. SameNames(socket[x], socket[y])
      BY <2>1, <3>1 DEF SameNames
    <3>3. QED
      BY <1>0, <3>2 DEF NameInv
  <2>2. QED
    BY <2>1 DEF NameInv
<1>14. DaemonInv'
  BY <1>0, <1>1 DEF DaemonInv
<1>15. LinkInv'
  <2>1. ASSUME NEW a \in Computers, NEW b \in Computers, NEW x \in Sockets
        PROVE  Link(a, b, x, daemon'[a], socket'[x])
    <3>1. Link(a, b, x, daemon[a], socket[x])
      BY <1>0 DEF LinkInv
    <3>2. /\ socket'[x].from = socket[x].from
          /\ socket'[x].to = socket[x].to
          /\ socket'[x].client = socket[x].client
      BY <1>0, <1>1, <1>3, <1>4 DEF OtherSockets, f, t, TypeOK, Socket
    <3>3. QED
      BY <1>1, <3>1, <3>2 DEF Link
  <2>2. QED
    BY <2>1 DEF LinkInv
<1>16. QED
  BY <1>11, <1>12, <1>13, <1>14, <1>15 DEF ClusterInv, SocketInv, ExchangeInv

-----------------------------------------------------------------------------
(***************************************************************************)
(* A new connection.                                                       *)
(***************************************************************************)
LEMMA FreeIsQuiet ==
  ASSUME TransitInv, NEW n \in Sockets, Free(n), NEW a \in Computers, NEW b \in Computers
  PROVE  ~On(queue[a][b], n)
BY DEF TransitInv, Transit, Free

\* the first message of a connection, on socket n of which nothing is in transit
Opening(c, d, n, first) ==
  /\ \A a, b \in Computers : ~(a = c /\ b = d) => queue'[a][b] = queue[a][b]
  /\ \E q : /\ IsSent(q, queue[c][d], n, "SYN")
            /\ IsSent(queue'[c][d], q, n, first)

LEMMA ConnectOpens ==
  ASSUME TypeOK, NEW c \in Computers, NEW d \in Computers, NEW p, NEW n \in Sockets,
         NEW first \in Message, Connect(c, d, p, n, first)
  PROVE  Opening(c, d, n, first)
<1> DEFINE q == Sent(queue, c, d, n, "SYN")
<1>1. queue \in Queues /\ "SYN" \in Message
  BY DEF TypeOK, Queues, Entry, Message
<1>2. SentTo(q, queue, c, d, n, "SYN")
  BY <1>1, Sending
<1>3. queue' = Sent(q, c, d, n, first)
  BY DEF Connect
<1>4. q \in Queues
  BY <1>2 DEF SentTo
<1> HIDE DEF q
<1>5. SentTo(queue', q, c, d, n, first)
  BY <1>3, <1>4, Sending
<1>6. QED
  BY <1>2, <1>5 DEF SentTo, OnlyQueue, Opening

LEMMA NewSocketFields ==
  ASSUME TypeOK, NEW c \in Computers, NEW d \in Computers, NEW p, NEW n \in Sockets,
         NEW first, Connect(c, d, p, n, first)
  PROVE  /\ OtherSockets(n)
         /\ Free(n)
         /\ socket'[n].from = c /\ socket'[n].to = d /\ socket'[n].client
         /\ socket'[n].server = "backlog" /\ socket'[n].type = "DOWN"
         /\ ~socket'[n].server_name /\ ~socket'[n].broken
<1>1. Free(n) /\ socket' = [socket EXCEPT ![n] = NewSocket(c, d)]
  BY DEF Connect
<1>2. socket'[n] = NewSocket(c, d) /\ OtherSockets(n)
  BY <1>1 DEF TypeOK, OtherSockets
<1>3. QED
  BY <1>1, <1>2 DEF NewSocket

LEMMA OpenedInv ==
  ASSUME ClusterInv, TypeOK', NEW c \in Computers, NEW d \in Computers, NEW p,
         NEW n \in Sockets, NEW first, Connect(c, d, p, n, first),
         (first = "CONNECT" /\ d < c) \/ (first = "GOSSIP" /\ c < d),
         DaemonInv', LinkInv', JoinedStill
  PROVE  ClusterInv'
<1>0. TypeOK /\ TransitInv /\ SocketInv /\ NameInv /\ ExchangeInv
  BY DEF ClusterInv
<1>1. first \in Message
  BY DEF Message
<1>2. Opening(c, d, n, first)
  BY <1>0, <1>1, ConnectOpens
<1>3. /\ OtherSockets(n)
      /\ Free(n)
      /\ socket'[n].from = c /\ socket'[n].to = d /\ socket'[n].client
      /\ socket'[n].server = "backlog" /\ socket'[n].type = "DOWN"
      /\ ~socket'[n].server_name /\ ~socket'[n].broken
  BY <1>0, NewSocketFields
<1>4. \A a, b \in Computers : ~On(queue[a][b], n)
  BY <1>0, <1>3, FreeIsQuiet
<1>5. PICK q : /\ IsSent(q, queue[c][d], n, "SYN")
               /\ IsSent(queue'[c][d], q, n, first)
  BY <1>2 DEF Opening
<1>6. c # d
  BY NumberedComputers
<1>7. ~Has(queue[c][d], n, "FIN") /\ ~Has(q, n, "FIN")
  BY <1>4, <1>5, HasOn DEF IsSent
<1>8. TransitInv'
  <2>1. ASSUME NEW a \in Computers, NEW b \in Computers, NEW x \in Sockets
        PROVE  Transit(a, b, x, queue'[a][b], socket'[x])
    <3>1. CASE ~(a = c /\ b = d)
      <4>1. queue'[a][b] = queue[a][b]
        BY <1>2, <3>1 DEF Opening
      <4>2. CASE x = n
        <5>1. ~On(queue'[a][b], x)
          BY <1>4, <4>1, <4>2
        <5>2. QED
          BY <5>1, TransitNone
      <4>3. CASE x # n
        BY <1>0, <1>3, <4>1, <4>3 DEF TransitInv, OtherSockets
      <4>4. QED
        BY <4>2, <4>3
    <3>2. CASE a = c /\ b = d
      <4>1. CASE x = n
        <5>1. Transit(c, d, n, queue[c][d], socket'[n])
          BY <1>4, TransitNone
        <5>2. MaySend(c, d, socket'[n], "SYN") /\ MaySend(c, d, socket'[n], first)
          BY <1>3, <1>6 DEF MaySend
        <5>3. Transit(c, d, n, q, socket'[n])
          BY <1>4, <1>5, <1>7, <5>1, <5>2, TransitSent
        <5>4. Transit(c, d, n, queue'[c][d], socket'[n])
          BY <1>5, <1>7, <5>2, <5>3, TransitSent
        <5>5. QED
          BY <3>2, <4>1, <5>4
      <4>2. CASE x # n
        <5>1. Transit(c, d, x, queue[c][d], socket[x])
          BY <1>0 DEF TransitInv
        <5>2. Transit(c, d, x, q, socket[x])
          BY <1>4, <1>5, <1>7, <4>2, <5>1, TransitSentOther
        <5>3. Transit(c, d, x, queue'[c][d], socket[x])
          BY <1>5, <1>7, <4>2, <5>2, TransitSentOther
        <5>4. QED
          BY <1>3, <3>2, <4>2, <5>3 DEF OtherSockets
      <4>3. QED
        BY <4>1, <4>2
    <3>3. QED
      BY <3>1, <3>2
  <2>2. QED
    BY <2>1 DEF TransitInv
<1>9. /\ Has(queue'[c][d], n, "SYN")
      /\ Has(queue'[c][d], n, first)
  BY <1>5 DEF IsSent
<1>10. \A a, b \in Computers : \A x, y :
         Has(queue[a][b], x, y) => Has(queue'[a][b], x, y)
  <2>1. \A x, y : Has(queue[c][d], x, y) => Has(queue'[c][d], x, y)
    BY <1>5 DEF IsSent
  <2>2. QED
    BY <1>2, <2>1 DEF Opening
<1>11. ASSUME NEW x \in Sockets
       PROVE  /\ SocketOK(x, socket'[x], queue'[socket'[x].from][socket'[x].to])
              /\ Exchange(x, socket'[x], queue'[socket'[x].from][socket'[x].to],
                          queue'[socket'[x].to][socket'[x].from],
                          Joined(daemon'[socket'[x].from], socket'[x].to))
  <2>1. CASE x = n
    <3>1. SocketOK(n, socket'[n], queue'[c][d])
      BY <1>3, <1>6, <1>9 DEF SocketOK
    <3>2. d < c => Has(queue'[c][d], n, "CONNECT")
      BY <1>9, NumberedComputers
    <3>3. Exchange(n, socket'[n], queue'[c][d], queue'[d][c], Joined(daemon'[c], d))
      BY <1>3, <3>2 DEF Exchange
    <3>4. QED
      BY <1>3, <2>1, <3>1, <3>3
  <2>2. CASE x # n
    <3> DEFINE f == socket[x].from
               t == socket[x].to
    <3>0. f \in Computers /\ t \in Computers
      BY <1>0 DEF TypeOK, Socket
    <3>1. SocketOK(x, socket[x], queue[f][t])
      BY <1>0 DEF SocketInv
    <3>2. Exchange(x, socket[x], queue[f][t], queue[t][f], Joined(daemon[f], t))
      BY <1>0 DEF ExchangeInv
    <3>3. socket'[x] = socket[x]
      BY <1>3, <2>2 DEF OtherSockets
    <3>4. /\ \A y : Has(queue[f][t], x, y) => Has(queue'[f][t], x, y)
          /\ \A y : Has(queue[t][f], x, y) => Has(queue'[t][f], x, y)
      <4> HIDE DEF f, t
      <4>1. QED
        BY <1>10, <3>0
    <3>5. socket[x].client /\ t < f /\ Joined(daemon[f], t) => Joined(daemon'[f], t)
      BY <3>3 DEF JoinedStill
    <3>6. SocketOK(x, socket[x], queue'[f][t])
      BY <3>1, <3>4 DEF SocketOK
    <3>7. Exchange(x, socket[x], queue'[f][t], queue'[t][f], Joined(daemon'[f], t))
      <4> HIDE DEF f, t
      <4>1. socket[x].from = f /\ socket[x].to = t
        BY DEF f, t
      <4>2. QED
        BY <3>2, <3>4, <3>5, <4>1 DEF Exchange
    <3>8. QED
      BY <3>3, <3>6, <3>7
  <2>3. QED
    BY <2>1, <2>2
<1>12. NameInv'
  <2>1. ASSUME NEW x \in Sockets, NEW y \in Sockets, SameNames(socket'[x], socket'[y])
        PROVE  x = y
    <3>1. x # n /\ y # n
      BY <1>3, <2>1 DEF SameNames
    <3>2. SameNames(socket[x], socket[y])
      BY <1>3, <2>1, <3>1 DEF OtherSockets
    <3>3. QED
      BY <1>0, <3>2 DEF NameInv
  <2>2. QED
    BY <2>1 DEF NameInv
<1>13. QED
  BY <1>8, <1>11, <1>12 DEF ClusterInv, SocketInv, ExchangeInv

LEMMA ConnectedInv ==
  ASSUME ClusterInv, TypeOK', NEW c \in Computers, NEW d \in Computers,
         process_connected(c, d)
  PROVE  ClusterInv'
<1> DEFINE p == daemon[c].f_smaller_ips[d]
<1>0. TypeOK /\ DaemonInv /\ LinkInv
  BY DEF ClusterInv
<1>1. PICK n \in Sockets :
        /\ Connect(c, d, p, n, "CONNECT")
        /\ daemon' = [daemon EXCEPT ![c].f_smaller_ips[d] = Connected(@, n)]
  BY DEF process_connected
<1> DEFINE g == Connected(p, n)
           r == [daemon[c] EXCEPT !.f_smaller_ips[d] = g]
<1>2. daemon' = [daemon EXCEPT ![c] = r]
  BY <1>1
<1>3. daemon[c] \in Daemon /\ p \in Permanent /\ DaemonOK(c, daemon[c])
  BY <1>0, DaemonFields DEF DaemonInv
<1>4. g.sock = n /\ g.known = p.known /\ g.type = p.type
  BY <1>3 DEF Connected, Permanent
<1>5. p.known /\ p.sock = None
  BY <1>1 DEF Connect
<1>6. /\ OtherSockets(n)
      /\ Free(n)
      /\ socket'[n].from = c /\ socket'[n].to = d /\ socket'[n].client
  BY <1>0, <1>1, NewSocketFields
<1>7. d < c
  BY <1>3, <1>5 DEF DaemonOK
<1> HIDE DEF g
<1>8. SmallerSet(r, daemon[c], d, g) /\ r.services_know = daemon[c].services_know
  <2>1. r = [daemon[c] EXCEPT !.f_smaller_ips[d] = g]
    OBVIOUS
  <2> HIDE DEF r
  <2>2. QED
    BY <1>3, <2>1, SettingSmaller
<1> HIDE DEF r
<1>9. daemon'[c] = r /\ OnlyDaemon(c)
  BY <1>0, <1>2, SettingDaemon
<1>10. DaemonOK(c, r)
  BY <1>3, <1>4, <1>5, <1>8 DEF DaemonOK, SmallerSet
<1>11. DaemonInv'
  BY <1>0, <1>9, <1>10 DEF DaemonInv, OnlyDaemon
<1>12. JoinedStill
  <2>1. \A e \in Computers : Joined(daemon[c], e) => Joined(r, e)
    BY <1>4, <1>8 DEF Joined, SmallerSet
  <2>2. QED
    BY <1>0, <1>9, <2>1, AllJoined
<1>13. LinkInv'
  <2>1. ASSUME NEW a \in Computers, NEW b \in Computers, NEW x \in Sockets
        PROVE  Link(a, b, x, daemon'[a], socket'[x])
    <3>0. Link(a, b, x, daemon[a], socket[x])
      BY <1>0 DEF LinkInv
    <3>1. /\ x # n => socket'[x] = socket[x]
          /\ a # c => daemon'[a] = daemon[a]
          /\ x # None
      BY <1>6, <1>9, NoneIsNone DEF OtherSockets, OnlyDaemon
    <3>2. ~(c < d) /\ ~socket[n].client
      BY <1>6, <1>7, NumberedComputers DEF Free
    <3>3. CASE a # c
      BY <1>6, <3>0, <3>1, <3>2, <3>3 DEF Link
    <3>4. CASE a = c /\ b # d
      BY <1>6, <1>8, <1>9, <3>0, <3>1, <3>2, <3>4 DEF Link, SmallerSet
    <3>5. CASE a = c /\ b = d
      BY <1>4, <1>5, <1>6, <1>7, <1>8, <1>9, <3>0, <3>1, <3>2, <3>5 DEF Link, SmallerSet
    <3>6. QED
      BY <3>3, <3>4, <3>5
  <2>2. QED
    BY <2>1 DEF LinkInv
<1>14. QED
  BY <1>1, <1>7, <1>11, <1>12, <1>13, OpenedInv

LEMMA GossipedInv ==
  ASSUME ClusterInv, TypeOK', NEW c \in Computers, NEW d \in Computers,
         gossip_connected(c, d)
  PROVE  ClusterInv'
<1> DEFINE p == daemon[c].f_gossip_ips[d]
<1>0. TypeOK /\ DaemonInv /\ LinkInv
  BY DEF ClusterInv
<1>1. PICK n \in Sockets :
        /\ Connect(c, d, p, n, "GOSSIP")
        /\ daemon' = [daemon EXCEPT ![c].f_gossip_ips[d] = Connected(@, n)]
  BY DEF gossip_connected
<1> DEFINE g == Connected(p, n)
           r == [daemon[c] EXCEPT !.f_gossip_ips[d] = g]
<1>2. daemon' = [daemon EXCEPT ![c] = r]
  BY <1>1
<1>3. daemon[c] \in Daemon /\ p \in Permanent /\ DaemonOK(c, daemon[c])
  BY <1>0, DaemonFields DEF DaemonInv
<1>4. g.sock = n /\ g.known = p.known
  BY <1>3 DEF Connected, Permanent
<1>5. p.known /\ p.sock = None
  BY <1>1 DEF Connect
<1>6. /\ OtherSockets(n)
      /\ Free(n)
      /\ socket'[n].from = c /\ socket'[n].to = d /\ socket'[n].client
  BY <1>0, <1>1, NewSocketFields
<1>7. c < d
  BY <1>3, <1>5 DEF DaemonOK
<1> HIDE DEF g
<1>8. GossipSet(r, daemon[c], d, g) /\ r.services_know = daemon[c].services_know
  <2>1. r = [daemon[c] EXCEPT !.f_gossip_ips[d] = g]
    OBVIOUS
  <2> HIDE DEF r
  <2>2. QED
    BY <1>3, <2>1, SettingGossip
<1> HIDE DEF r
<1>9. daemon'[c] = r /\ OnlyDaemon(c)
  BY <1>0, <1>2, SettingDaemon
<1>10. DaemonOK(c, r)
  BY <1>3, <1>4, <1>5, <1>8 DEF DaemonOK, GossipSet
<1>11. DaemonInv'
  BY <1>0, <1>9, <1>10 DEF DaemonInv, OnlyDaemon
<1>12. JoinedStill
  <2>1. \A e \in Computers : Joined(daemon[c], e) => Joined(r, e)
    BY <1>8 DEF Joined, GossipSet
  <2>2. QED
    BY <1>0, <1>9, <2>1, AllJoined
<1>13. LinkInv'
  <2>1. ASSUME NEW a \in Computers, NEW b \in Computers, NEW x \in Sockets
        PROVE  Link(a, b, x, daemon'[a], socket'[x])
    <3>0. Link(a, b, x, daemon[a], socket[x])
      BY <1>0 DEF LinkInv
    <3>1. /\ x # n => socket'[x] = socket[x]
          /\ a # c => daemon'[a] = daemon[a]
          /\ x # None
      BY <1>6, <1>9, NoneIsNone DEF OtherSockets, OnlyDaemon
    <3>2. ~(d < c) /\ ~socket[n].client
      BY <1>6, <1>7, NumberedComputers DEF Free
    <3>3. CASE a # c
      BY <1>6, <3>0, <3>1, <3>2, <3>3 DEF Link
    <3>4. CASE a = c /\ b # d
      BY <1>6, <1>8, <1>9, <3>0, <3>1, <3>2, <3>4 DEF Link, GossipSet
    <3>5. CASE a = c /\ b = d
      BY <1>4, <1>5, <1>6, <1>7, <1>8, <1>9, <3>0, <3>1, <3>2, <3>5 DEF Link, GossipSet
    <3>6. QED
      BY <3>3, <3>4, <3>5
  <2>2. QED
    BY <2>1 DEF LinkInv
<1>14. QED
  BY <1>1, <1>7, <1>11, <1>12, <1>13, OpenedInv

-----------------------------------------------------------------------------
(***************************************************************************)
(* Only the daemon of c changes.                                           *)
(***************************************************************************)
LEMMA DaemonStepInv ==
  ASSUME ClusterInv, TypeOK', NEW c \in Computers, OnlyDaemon(c),
         SameLinks(daemon[c], daemon'[c]), DaemonOK(c, daemon'[c]), JoinedStill,
         queue' = queue, socket' = socket
  PROVE  ClusterInv'
<1>0. /\ TypeOK /\ TransitInv /\ SocketInv /\ NameInv /\ DaemonInv /\ LinkInv
      /\ ExchangeInv
  BY DEF ClusterInv
<1>1. TransitInv' /\ SocketInv' /\ NameInv'
  BY <1>0 DEF TransitInv, SocketInv, NameInv
<1>2. DaemonInv'
  BY <1>0 DEF DaemonInv, OnlyDaemon
<1>3. LinkInv'
  BY <1>0, SameLinksKept
<1>4. ASSUME NEW x \in Sockets
      PROVE  Exchange(x, socket[x], queue[socket[x].from][socket[x].to],
                      queue[socket[x].to][socket[x].from],
                      Joined(daemon'[socket[x].from], socket[x].to))
  <2>1. Exchange(x, socket[x], queue[socket[x].from][socket[x].to],
                 queue[socket[x].to][socket[x].from],
                 Joined(daemon[socket[x].from], socket[x].to))
    BY <1>0 DEF ExchangeInv
  <2>2. socket[x].client /\ socket[x].to < socket[x].from
        /\ Joined(daemon[socket[x].from], socket[x].to)
        => Joined(daemon'[socket[x].from], socket[x].to)
    BY DEF JoinedStill
  <2>3. QED
    BY <2>1, <2>2 DEF Exchange
<1>5. ExchangeInv'
  BY <1>4 DEF ExchangeInv
<1>6. QED
  BY <1>1, <1>2, <1>3, <1>5 DEF ClusterInv

LEMMA FailedInv ==
  ASSUME ClusterInv, TypeOK', NEW c \in Computers, NEW d \in Computers,
         process_connection_failed(c, d)
  PROVE  ClusterInv'
<1> DEFINE p == daemon[c].f_smaller_ips[d]
           g == [p EXCEPT !.f_connected = FALSE]
<1>0. TypeOK /\ DaemonInv /\ LinkInv
  BY DEF ClusterInv
<1>a. PICK name \in SentFrom[c][d] :
        daemon' = [daemon EXCEPT ![c] =
          [daemon[c] EXCEPT !.f_smaller_ips[d].f_connected = FALSE,
                            !.services_know = @ \ {name}]]
  BY DEF process_connection_failed
<1> DEFINE k == daemon[c].services_know \ {name}
           r == [daemon[c] EXCEPT !.f_smaller_ips[d] = g, !.services_know = k]
<1>1. /\ p.sock = None
      /\ queue' = queue
      /\ socket' = socket
  BY DEF process_connection_failed
<1>b. OwnNames => name = d
  BY DEF OwnNames
<1>2. daemon' = [daemon EXCEPT ![c] = r]
  BY <1>a
<1>3. daemon[c] \in Daemon /\ p \in Permanent /\ DaemonOK(c, daemon[c])
  BY <1>0, DaemonFields DEF DaemonInv
<1>4. g.sock = p.sock /\ g.known = p.known /\ g.type = p.type /\ g.enabled = p.enabled
  BY <1>3 DEF Permanent
<1> HIDE DEF g, k
<1>5. SmallerSet(r, daemon[c], d, g) /\ r.services_know = k
  BY <1>3 DEF SmallerSet, Daemon
<1> HIDE DEF r
<1>6. daemon'[c] = r /\ OnlyDaemon(c)
  BY <1>0, <1>2, SettingDaemon
<1>7. SameLinks(daemon[c], r)
  BY <1>4, <1>5 DEF SmallerSet, SameLinks
<1>8. DaemonOK(c, r)
  BY <1>3, <1>4, <1>5 DEF DaemonOK, SmallerSet, Unused
<1>9. JoinedStill
  <2>1. ASSUME NEW x \in Sockets, socket'[x].client, socket[x].to < socket[x].from,
               Joined(daemon[socket[x].from], socket[x].to)
        PROVE  Joined(daemon'[socket[x].from], socket[x].to)
    <3>1. socket[x].from \in Computers /\ socket[x].to \in Computers
      BY <1>0 DEF TypeOK, Socket
    <3>2. CASE socket[x].from # c
      BY <1>6, <2>1, <3>1, <3>2 DEF OnlyDaemon
    <3>3. CASE socket[x].from = c /\ socket[x].to # d
      BY <1>b, <1>5, <1>6, <2>1, <3>1, <3>3 DEF Joined, SmallerSet, k
    <3>4. CASE socket[x].from = c /\ socket[x].to = d
      <4>1. p.sock = x
        BY <1>0, <1>1, <2>1, <3>4 DEF LinkInv, Link
      <4>2. QED
        BY <1>1, <4>1, NoneIsNone
    <3>5. QED
      BY <3>2, <3>3, <3>4
  <2>2. QED
    BY <2>1 DEF JoinedStill
<1>10. QED
  BY <1>1, <1>6, <1>7, <1>8, <1>9, DaemonStepInv

LEMMA StartInv ==
  ASSUME ClusterInv, TypeOK', NEW c \in Computers, Start(c)
  PROVE  ClusterInv'
<1> DEFINE all == daemon[c].f_all_neighbors \cup {c} \cup Neighbors[c]
           small(d) == IF d \in all /\ d < c THEN NewPermanent ELSE NoPermanent
           large(d) == IF d \in all /\ d > c THEN NewPermanent ELSE NoPermanent
           dm == [ up |-> TRUE, f_all_neighbors |-> all, f_all_ips |-> all \ {c},
                   f_smaller_ips |-> [d \in Computers |-> small(d)],
                   f_gossip_ips |-> [d \in Computers |-> large(d)],
                   f_cluster_status |-> "unset", services_know |-> {} ]
           r == cluster_status(c, dm, socket)
<1>0. TypeOK /\ DaemonInv
  BY DEF ClusterInv
<1>1. /\ ~daemon[c].up
      /\ daemon' = [daemon EXCEPT ![c] = r]
      /\ queue' = queue
      /\ socket' = socket
  BY Zenon DEF Start, Started
<1>2. DaemonOK(c, daemon[c])
  BY <1>0 DEF DaemonInv
<1>3. dm \in Daemon
  <2>1. all \in SUBSET Computers
    BY <1>0, DaemonFields, ClusterAssumption
  <2>2. \A d \in Computers : small(d) \in Permanent /\ large(d) \in Permanent
    BY PermanentTypes
  <2> HIDE DEF all, small, large
  <2>3. QED
    BY <2>1, <2>2 DEF Daemon
<1>4. /\ dm.up = TRUE
      /\ dm.f_all_ips = all \ {c}
      /\ \A d \in Computers : dm.f_smaller_ips[d] = small(d) /\ dm.f_gossip_ips[d] = large(d)
  <2> HIDE DEF all, small, large
  <2>1. QED
    OBVIOUS
<1> HIDE DEF dm
<1>5. /\ r.up = dm.up
      /\ r.f_all_ips = dm.f_all_ips
      /\ r.f_smaller_ips = dm.f_smaller_ips
      /\ r.f_gossip_ips = dm.f_gossip_ips
  BY <1>3, StatusFields
<1> HIDE DEF r
<1>6. daemon'[c] = r /\ OnlyDaemon(c)
  BY <1>0, <1>1, SettingDaemon
<1>7. ASSUME NEW d \in Computers
      PROVE  /\ small(d).sock = None /\ large(d).sock = None
             /\ small(d).known => d < c /\ d \in all \ {c}
             /\ large(d).known => c < d /\ d \in all \ {c}
             /\ ~small(d).known => Unused(small(d))
             /\ ~large(d).known => Unused(large(d))
  BY PermanentTypes, NumberedComputers DEF NoPermanent, NewPermanent, Unused
<1>8. ASSUME NEW d \in Computers
      PROVE  Unused(daemon[c].f_smaller_ips[d]) /\ Unused(daemon[c].f_gossip_ips[d])
  BY <1>1, <1>2 DEF DaemonOK
<1> HIDE DEF all, small, large
<1>9. SameLinks(daemon[c], r)
  BY <1>4, <1>5, <1>7, <1>8 DEF SameLinks, Unused
<1>10. DaemonOK(c, r)
  BY <1>4, <1>5, <1>7 DEF DaemonOK
<1>11. JoinedStill
  <2>1. \A e \in Computers : ~Joined(daemon[c], e)
    BY <1>8 DEF Joined, Unused
  <2>2. QED
    BY <1>0, <1>6, <2>1, AllJoined
<1>12. QED
  BY <1>1, <1>6, <1>9, <1>10, <1>11, DaemonStepInv

-----------------------------------------------------------------------------
(***************************************************************************)
(* A daemon is gone.  Its last words are sent on connections that are open *)
(* at both ends, and to a larger address only if it is connected to us.    *)
(***************************************************************************)
Member(s, c, d) ==
  /\ s.from = d
  /\ s.to = c
  /\ s.server # "closed"
  /\ s.type = "REMOTE"

LastOK(c, last) ==
  \A d \in Computers :
    \/ last[d] = <<>>
    \/ \E n \in Told(c, d) :
         /\ last[d] = <<[sock |-> n, msg |-> "DISCONNECT"]>>
         /\ c < d => Member(socket[n], c, d)

LEMMA StopWords ==
  ASSUME ClusterInv, NEW c \in Computers, Stop(c)
  PROVE  \E last : Gone(c, last) /\ LastOK(c, last)
<1> DEFINE to(d) ==
             IF d < c /\ daemon[c].f_smaller_ips[d].sock # None
             THEN {daemon[c].f_smaller_ips[d].sock}
             ELSE {n \in Accepted(c, socket) :
                     socket[n].from = d /\ socket[n].type = "REMOTE"}
           live(d) == {n \in to(d) : IsOpen(d, n) /\ ~socket[n].broken}
           word(d) == IF live(d) = {} THEN <<>>
                      ELSE <<[sock |-> CHOOSE n \in live(d) : TRUE,
                              msg |-> "DISCONNECT"]>>
           last == [d \in Computers |-> word(d)]
<1>0. TypeOK /\ SocketInv /\ LinkInv
  BY DEF ClusterInv
<1>1. Gone(c, last)
  BY Zenon DEF Stop
<1>2. ASSUME NEW d \in Computers
      PROVE  \/ last[d] = <<>>
             \/ \E n \in Told(c, d) :
                  /\ last[d] = <<[sock |-> n, msg |-> "DISCONNECT"]>>
                  /\ c < d => Member(socket[n], c, d)
  <2>1. last[d] = word(d)
    OBVIOUS
  <2>2. daemon[c].f_smaller_ips[d].sock \in Sockets \cup {None}
    BY <1>0, DaemonFields, PermanentFields
  <2>3. ASSUME NEW n \in to(d)
        PROVE  /\ n \in Sockets
               /\ c \in {socket[n].from, socket[n].to}
               /\ IsOpen(c, n)
               /\ Other(c, n) = d
               /\ c < d => Member(socket[n], c, d)
    <3>1. CASE d < c /\ daemon[c].f_smaller_ips[d].sock # None
      <4>1. n = daemon[c].f_smaller_ips[d].sock /\ n \in Sockets
        BY <2>2, <3>1
      <4>2. socket[n].from = c /\ socket[n].to = d /\ socket[n].client
        <5> HIDE DEF to, live, word, last
        <5>1. Link(c, d, n, daemon[c], socket[n])
          BY <1>0, <4>1 DEF LinkInv
        <5> DEFINE p == daemon[c].f_smaller_ips[d]
        <5>2. p.sock = n => socket[n].from = c /\ socket[n].to = d /\ socket[n].client
          BY <5>1 DEF Link
        <5> HIDE DEF p
        <5>3. QED
          BY <4>1, <5>2 DEF p
      <4>3. ~(c < d)
        BY <3>1, NumberedComputers
      <4>4. QED
        BY <4>1, <4>2, <4>3 DEF IsOpen, Other
    <3>2. CASE ~(d < c /\ daemon[c].f_smaller_ips[d].sock # None)
      <4>1. /\ n \in Sockets
            /\ socket[n].to = c
            /\ socket[n].server = "open"
            /\ socket[n].from = d
            /\ socket[n].type = "REMOTE"
        BY <3>2 DEF Accepted
      <4>2. socket[n].from # socket[n].to
        BY <1>0, <4>1 DEF SocketInv, SocketOK
      <4>3. Member(socket[n], c, d)
        BY <4>1 DEF Member
      <4>4. QED
        BY <4>1, <4>2, <4>3 DEF IsOpen, Other
    <3>3. QED
      BY <3>1, <3>2
  <2> HIDE DEF to
  <2>4. /\ live(d) \subseteq Told(c, d)
        /\ \A n \in live(d) : c < d => Member(socket[n], c, d)
    BY <2>3 DEF Told, Mine
  <2> HIDE DEF live, last
  <2>5. live(d) # {} => (CHOOSE n \in live(d) : TRUE) \in live(d)
    OBVIOUS
  <2>6. QED
    BY <2>1, <2>4, <2>5
<1> HIDE DEF last
<1>3. LastOK(c, last)
  BY <1>2 DEF LastOK
<1>4. QED
  BY <1>1, <1>3

LEMMA CrashOK ==
  ASSUME NEW c \in Computers, Crash(c)
  PROVE  \E last : Gone(c, last) /\ LastOK(c, last)
<1>1. LastOK(c, [d \in Computers |-> <<>>])
  BY DEF LastOK
<1>2. QED
  BY <1>1, CrashWords

EndingOrder(r, q) ==
  \A x, y, u, v :
    /\ Before(q, x, y, u, v) => Before(r, x, y, u, v)
    /\ Before(r, x, y, u, v) => Before(q, x, y, u, v) \/ v \in {"DISCONNECT", "FIN"}

\* the queue r in place of q: a word on a socket of T, then the end of each of T
Ending(r, q, T) ==
  /\ \A x, y : Has(q, x, y) => Has(r, x, y)
  /\ \A x, y : Has(r, x, y) => \/ Has(q, x, y)
                               \/ x \in T /\ y \in {"DISCONNECT", "FIN"}
  /\ \A x : On(r, x) => On(q, x) \/ x \in T
  /\ \A x : x \in T => Has(r, x, "FIN")
  /\ \A x : Opens(q, x) => Opens(r, x)
  /\ \A x : Closes(q, x) /\ (Has(q, x, "FIN") => x \notin T) => Closes(r, x)
  /\ EndingOrder(r, q)

LEMMA EndingWith ==
  ASSUME NEW q \in Seq(Entry), NEW w \in Seq(Entry), NEW T \in SUBSET Sockets,
         \/ w = <<>>
         \/ \E n \in T : w = <<[sock |-> n, msg |-> "DISCONNECT"]>>
  PROVE  /\ Ending(q \o w \o Fins(T), q, T)
         /\ w = <<>> => \A x : Has(q \o w \o Fins(T), x, "DISCONNECT")
                             => Has(q, x, "DISCONNECT")
<1> DEFINE j == q \o w
           F == Fins(T)
           r == j \o F
<1>1. j \in Seq(Entry) /\ IsJoined(j, q, w)
  BY JoinedEvents
<1>2. /\ F \in Seq(Entry)
      /\ \A x, y : Has(F, x, y) <=> x \in T /\ y = "FIN"
      /\ \A x : On(F, x) <=> x \in T
      /\ \A x : Opens(F, x) /\ Closes(F, x)
  BY FinEvents
<1>3. /\ \A x, y : Has(w, x, y) => x \in T /\ y = "DISCONNECT"
      /\ \A x : On(w, x) => x \in T
      /\ \A x : Opens(w, x) /\ Closes(w, x)
  <2>1. CASE w = <<>>
    BY <2>1, NoEvents
  <2>2. CASE \E n \in T : w = <<[sock |-> n, msg |-> "DISCONNECT"]>>
    <3>1. PICK n \in T : w = <<[sock |-> n, msg |-> "DISCONNECT"]>>
      BY <2>2
    <3>2. n \in Sockets
      OBVIOUS
    <3>3. /\ \A x, y : Has(w, x, y) <=> x = n /\ y = "DISCONNECT"
          /\ \A x : On(w, x) <=> x = n
          /\ \A x : Opens(w, x) /\ Closes(w, x)
      BY <3>1, <3>2, OneWord
    <3>4. QED
      BY <3>3
  <2>3. QED
    BY <2>1, <2>2
<1> HIDE DEF j, F
<1>4. IsJoined(r, j, F)
  BY <1>1, <1>2, JoinedEvents
<1> HIDE DEF r
<1>5. /\ \A x, y : Has(j, x, y) <=> Has(q, x, y) \/ Has(w, x, y)
      /\ \A x : On(j, x) <=> On(q, x) \/ On(w, x)
  BY <1>1 DEF IsJoined
<1>6. /\ \A x, y : Has(r, x, y) <=> Has(j, x, y) \/ Has(F, x, y)
      /\ \A x : On(r, x) <=> On(j, x) \/ On(F, x)
  BY <1>4 DEF IsJoined
<1>7. ASSUME NEW x, Opens(q, x) PROVE Opens(r, x)
  <2>1. Opens(j, x)
    BY <1>1, <1>3, <1>7 DEF IsJoined
  <2>2. QED
    BY <1>2, <1>4, <2>1 DEF IsJoined
<1>8. ASSUME NEW x, Closes(q, x), Has(q, x, "FIN") => x \notin T PROVE Closes(r, x)
  <2>1. Closes(j, x)
    BY <1>1, <1>3, <1>8 DEF IsJoined
  <2>2. Has(j, x, "FIN") => ~On(F, x)
    BY <1>2, <1>3, <1>5, <1>8
  <2>3. QED
    BY <1>2, <1>4, <2>1, <2>2 DEF IsJoined
<1>9. /\ \A x, y : Has(q, x, y) => Has(r, x, y)
      /\ \A x, y : Has(r, x, y) => \/ Has(q, x, y)
                                   \/ x \in T /\ y \in {"DISCONNECT", "FIN"}
      /\ \A x : On(r, x) => On(q, x) \/ x \in T
      /\ \A x : x \in T => Has(r, x, "FIN")
  BY <1>2, <1>3, <1>5, <1>6
<1>10. EndingOrder(r, q)
  <2>1. JoinedOrder(j, q, w) /\ JoinedOrder(r, j, F)
    BY <1>1, <1>4 DEF IsJoined
  <2>2. ASSUME NEW x, NEW y, NEW u, NEW v, Before(q, x, y, u, v)
        PROVE  Before(r, x, y, u, v)
    BY <2>1, <2>2 DEF JoinedOrder
  <2>3. \A x, y, u, v : Before(F, x, y, u, v) => Has(F, u, v)
    BY BeforeHas
  <2>4. \A x, y, u, v : Before(w, x, y, u, v) => Has(w, u, v)
    BY BeforeHas
  <2>5. ASSUME NEW x, NEW y, NEW u, NEW v, Before(r, x, y, u, v)
        PROVE  Before(q, x, y, u, v) \/ v \in {"DISCONNECT", "FIN"}
    <3>1. Before(j, x, y, u, v) \/ Has(F, u, v)
      BY <2>1, <2>3, <2>5 DEF JoinedOrder
    <3>2. Before(j, x, y, u, v) => Before(q, x, y, u, v) \/ Has(w, u, v)
      BY <2>1, <2>4 DEF JoinedOrder
    <3>3. QED
      BY <1>2, <1>3, <3>1, <3>2
  <2>6. QED
    BY <2>2, <2>5 DEF EndingOrder
<1>11. Ending(r, q, T)
  BY <1>7, <1>8, <1>9, <1>10 DEF Ending
<1>12. w = <<>> => \A x : Has(r, x, "DISCONNECT") => Has(q, x, "DISCONNECT")
  BY <1>2, <1>5, <1>6, NoEvents
<1>13. QED
  BY <1>11, <1>12 DEF r, j, F

\* DISCONNECT is only sent to b, which has a larger address, if b is connected
Farewell(c, b) ==
  \A x : Has(queue'[c][b], x, "DISCONNECT") =>
    \/ Has(queue[c][b], x, "DISCONNECT")
    \/ \E n \in Sockets : Member(socket[n], c, b)

GoneStep(c) ==
  /\ OnlyDaemon(c)
  /\ \A d \in Computers : /\ daemon'[c].f_smaller_ips[d] = NoPermanent
                          /\ daemon'[c].f_gossip_ips[d] = NoPermanent
  /\ \A x \in Sockets : x \notin Mine(c) => socket'[x] = socket[x]
  /\ \A x \in Mine(c) : EndClosed(c, socket[x], socket'[x])
  /\ \A a \in Computers : queue'[a][c] = <<>>
  /\ \A a, b \in Computers : a # c /\ b # c => queue'[a][b] = queue[a][b]
  /\ \A b \in Computers : b # c => Ending(queue'[c][b], queue[c][b], Told(c, b))
  /\ \A b \in Computers : c < b => Farewell(c, b)

LEMMA GoneSteps ==
  ASSUME TypeOK, NEW c \in Computers, NEW last, Gone(c, last), LastOK(c, last)
  PROVE  GoneStep(c)
<1>1. /\ daemon' = [daemon EXCEPT ![c] = GoneDaemon(c)]
      /\ socket' = [n \in Sockets |-> Shut(c, n)]
      /\ queue' = [a \in Computers |-> [b \in Computers |-> GoneQueue(c, last, a, b)]]
  BY GoneEffect
<1>2. /\ OnlyDaemon(c)
      /\ daemon'[c] = GoneDaemon(c)
  BY <1>1, SettingDaemon
<1>3. ASSUME NEW d \in Computers
      PROVE  /\ GoneDaemon(c).f_smaller_ips[d] = NoPermanent
             /\ GoneDaemon(c).f_gossip_ips[d] = NoPermanent
  <2>1. daemon[c] \in Daemon
    BY DEF TypeOK
  <2>2. QED
    BY <2>1 DEF GoneDaemon, Daemon
<1>4. ASSUME NEW x \in Sockets
      PROVE  /\ x \notin Mine(c) => socket'[x] = socket[x]
             /\ x \in Mine(c) => EndClosed(c, socket[x], socket'[x])
  <2>1. socket[x] \in Socket /\ socket'[x] = Shut(c, x)
    BY <1>1 DEF TypeOK
  <2>2. QED
    BY <2>1 DEF Shut, EndClosed, Socket
<1>5. ASSUME NEW a \in Computers, NEW b \in Computers
      PROVE  /\ b = c => queue'[a][b] = <<>>
             /\ a # c /\ b # c => queue'[a][b] = queue[a][b]
             /\ a = c /\ b # c => Ending(queue'[c][b], queue[c][b], Told(c, b))
             /\ a = c /\ b # c /\ c < b => Farewell(c, b)
  <2>1. queue'[a][b] = GoneQueue(c, last, a, b)
    BY <1>1
  <2>2. Told(c, b) \in SUBSET Sockets /\ queue[c][b] \in Seq(Entry)
    BY DEF Told, Mine, TypeOK, Entry
  <2>3. last[b] \in Seq(Entry)
    BY <2>2, OneWord, NoEvents DEF LastOK
  <2> DEFINE ended == queue[c][b] \o last[b] \o Fins(Told(c, b))
  <2>4. /\ Ending(ended, queue[c][b], Told(c, b))
        /\ last[b] = <<>> => \A x : Has(ended, x, "DISCONNECT")
                                  => Has(queue[c][b], x, "DISCONNECT")
    BY <2>2, <2>3, EndingWith DEF LastOK
  <2>5. a = c /\ b # c => queue'[c][b] = ended
    BY <2>1 DEF GoneQueue
  <2>6. c < b /\ last[b] # <<>> => \E n \in Sockets : Member(socket[n], c, b)
    BY <2>2 DEF LastOK
  <2> HIDE DEF ended
  <2>7. a = c /\ c < b /\ b # c => Farewell(c, b)
    BY <2>4, <2>5, <2>6 DEF Farewell
  <2>8. QED
    BY <2>1, <2>4, <2>5, <2>7 DEF GoneQueue
<1>6. Mine(c) \subseteq Sockets
  BY DEF Mine
<1>7. \A b \in Computers : b # c => Ending(queue'[c][b], queue[c][b], Told(c, b))
  BY <1>5
<1>8. \A b \in Computers : c < b => Farewell(c, b)
  <2>1. \A b \in Computers : c < b => b # c
    BY NumberedComputers
  <2>2. QED
    BY <1>5, <2>1
<1>9. /\ \A d \in Computers : /\ daemon'[c].f_smaller_ips[d] = NoPermanent
                              /\ daemon'[c].f_gossip_ips[d] = NoPermanent
      /\ \A x \in Sockets : x \notin Mine(c) => socket'[x] = socket[x]
      /\ \A x \in Mine(c) : EndClosed(c, socket[x], socket'[x])
  BY <1>2, <1>3, <1>4, <1>6
<1>10. /\ \A a \in Computers : queue'[a][c] = <<>>
       /\ \A a, b \in Computers : a # c /\ b # c => queue'[a][b] = queue[a][b]
  BY <1>5
<1>11. QED
  BY <1>2, <1>7, <1>8, <1>9, <1>10 DEF GoneStep

\* the two ends of a socket of c
LEMMA MineEnds ==
  ASSUME TypeOK, SocketInv, NEW c \in Computers, NEW x \in Sockets
  PROVE  /\ x \in Mine(c) => /\ socket[x].from # socket[x].to
                             /\ socket[x].from = c => socket[x].client
                             /\ socket[x].from # c => /\ socket[x].to = c
                                                      /\ socket[x].server # "closed"
         /\ x \notin Mine(c) => /\ socket[x].from = c => ~socket[x].client
                                /\ socket[x].from # c /\ socket[x].to = c
                                   => socket[x].server = "closed"
         /\ \A b \in Computers : b # c =>
              (x \in Told(c, b) <=>
                 /\ x \in Mine(c)
                 /\ ~socket[x].broken
                 /\ \/ /\ socket[x].from = c /\ socket[x].to = b
                       /\ socket[x].server # "closed"
                    \/ socket[x].from = b /\ socket[x].to = c /\ socket[x].client)
<1>1. socket[x].client \/ socket[x].server # "closed" => socket[x].from # socket[x].to
  BY DEF SocketInv, SocketOK
<1>2. x \in Mine(c) => /\ socket[x].from # socket[x].to
                       /\ socket[x].from = c => socket[x].client
                       /\ socket[x].from # c => /\ socket[x].to = c
                                                /\ socket[x].server # "closed"
  BY <1>1 DEF Mine, IsOpen
<1>3. x \notin Mine(c) => /\ socket[x].from = c => ~socket[x].client
                          /\ socket[x].from # c /\ socket[x].to = c
                             => socket[x].server = "closed"
  BY DEF Mine, IsOpen
<1>4. ASSUME NEW b \in Computers, b # c
      PROVE  x \in Told(c, b) <=>
               /\ x \in Mine(c)
               /\ ~socket[x].broken
               /\ \/ /\ socket[x].from = c /\ socket[x].to = b
                     /\ socket[x].server # "closed"
                  \/ socket[x].from = b /\ socket[x].to = c /\ socket[x].client
  BY <1>2, <1>4 DEF Told, Other, IsOpen
<1>5. QED
  BY <1>2, <1>3, <1>4

LEMMA GoneTransit ==
  ASSUME ClusterInv, NEW c \in Computers, GoneStep(c)
  PROVE  TransitInv'
<1>0. TypeOK /\ TransitInv /\ SocketInv
  BY DEF ClusterInv
<1>1. ASSUME NEW a \in Computers, NEW b \in Computers, NEW x \in Sockets
      PROVE  Transit(a, b, x, queue'[a][b], socket'[x])
  <2>0. Transit(a, b, x, queue[a][b], socket[x])
    BY <1>0 DEF TransitInv
  <2>1. CASE b = c
    <3>1. ~On(queue'[a][b], x)
      BY <2>1, NoEvents DEF GoneStep
    <3>2. QED
      BY <3>1, TransitNone
  <2>2. CASE a # c /\ b # c
    <3>1. queue'[a][b] = queue[a][b]
      BY <2>2 DEF GoneStep
    <3>2. CASE ~On(queue[a][b], x)
      BY <3>1, <3>2, TransitNone
    <3>3. CASE On(queue[a][b], x)
      <4>1. x \notin Mine(c)
        BY <2>0, <2>2, <3>3 DEF Transit, Mine
      <4>2. QED
        BY <2>0, <3>1, <4>1 DEF GoneStep
    <3>4. QED
      BY <3>2, <3>3
  <2>3. CASE a = c /\ b # c
    <3> DEFINE q == queue[c][b]
               r == queue'[c][b]
               s == socket[x]
               t == socket'[x]
    <3>0. Ending(r, q, Told(c, b))
      BY <2>3 DEF GoneStep
    <3>1. Transit(c, b, x, q, s)
      BY <2>0, <2>3
    <3>2. x \notin Mine(c) => t = s
      BY DEF GoneStep
    <3>3. x \in Mine(c) => EndClosed(c, s, t)
      BY DEF GoneStep
    <3>4. /\ x \in Mine(c) => /\ s.from # s.to
                              /\ s.from = c => s.client
                              /\ s.from # c => s.to = c /\ s.server # "closed"
          /\ x \in Told(c, b) <=>
               /\ x \in Mine(c)
               /\ ~s.broken
               /\ \/ s.from = c /\ s.to = b /\ s.server # "closed"
                  \/ s.from = b /\ s.to = c /\ s.client
      BY <1>0, <2>3, MineEnds
    <3> HIDE DEF q, r, s, t
    <3>5. Has(q, x, "FIN") => x \notin Mine(c)
      <4>1. Has(q, x, "FIN") => On(q, x)
        BY HasOn
      <4>2. QED
        BY <3>1, <3>4, <4>1 DEF Transit
    <3>6. Opens(r, x) /\ Closes(r, x)
      <4>1. Opens(q, x) /\ Closes(q, x)
        BY <3>1 DEF Transit
      <4>2. Has(q, x, "FIN") => x \notin Told(c, b)
        BY <3>4, <3>5
      <4>3. QED
        BY <3>0, <4>1, <4>2 DEF Ending
    <3>7. /\ On(r, x) => On(q, x) \/ x \in Told(c, b)
          /\ \A y : Has(r, x, y) => Has(q, x, y) \/ (x \in Told(c, b) /\ y \in {"DISCONNECT", "FIN"})
      BY <3>0 DEF Ending
    <3>8. Transit(c, b, x, r, t)
      <4>1. CASE x \notin Mine(c)
        <5>1. /\ On(r, x) => On(q, x)
              /\ \A y : Has(r, x, y) => Has(q, x, y)
          BY <3>4, <3>7, <4>1
        <5>2. QED
          BY <3>1, <3>2, <3>6, <4>1, <5>1 DEF Transit
      <4>2. CASE x \in Mine(c)
        <5>1. EndClosed(c, s, t)
          BY <3>3, <4>2
        <5>2. /\ Has(r, x, "SYN") => Has(q, x, "SYN")
              /\ Has(r, x, "CONNECT") => Has(q, x, "CONNECT")
              /\ Has(r, x, "GOSSIP") => Has(q, x, "GOSSIP")
              /\ Has(r, x, "ACCEPT") => Has(q, x, "ACCEPT")
              /\ Has(r, x, "REFUSE") => Has(q, x, "REFUSE")
              /\ Has(r, x, "RECEIVED") => Has(q, x, "RECEIVED")
          BY <3>7
        <5>3. On(r, x) =>
                /\ c # b
                /\ ~t.broken
                /\ \/ t.from = c /\ t.to = b /\ t.server # "closed"
                   \/ t.from = b /\ t.to = c /\ t.client
          BY <2>3, <3>1, <3>4, <3>7, <5>1 DEF Transit, EndClosed
        <5>4. /\ t.from = c => ~t.client
              /\ t.from = b => t.server = "closed"
          BY <2>3, <5>1 DEF EndClosed
        <5>5. /\ Has(r, x, "SYN") => t.from = c /\ t.server = "backlog"
              /\ Has(r, x, "CONNECT") => t.from = c /\ b < c
              /\ Has(r, x, "GOSSIP") => t.from = c /\ c < b
              /\ Has(r, x, "ACCEPT") => t.from = b /\ c < b
              /\ Has(r, x, "REFUSE") => t.from = b /\ c < b
              /\ Has(r, x, "RECEIVED") => t.from = b /\ b < c
          BY <3>1, <5>1, <5>2 DEF Transit, EndClosed
        <5>6. QED
          BY <3>6, <5>3, <5>4, <5>5 DEF Transit
      <4>3. QED
        BY <4>1, <4>2
    <3>9. QED
      BY <2>3, <3>8 DEF r, t
  <2>4. QED
    BY <2>1, <2>2, <2>3
<1>2. QED
  BY <1>1 DEF TransitInv

LEMMA GoneSocket ==
  ASSUME ClusterInv, NEW c \in Computers, GoneStep(c), NEW x \in Sockets
  PROVE  LET f == socket[x].from
             t == socket[x].to
         IN  /\ socket'[x].from = f /\ socket'[x].to = t
             /\ SocketOK(x, socket'[x], queue'[f][t])
             /\ Exchange(x, socket'[x], queue'[f][t], queue'[t][f], Joined(daemon'[f], t))
<1> DEFINE s == socket[x]
           f == s.from
           t == s.to
           u == socket'[x]
<1>0. TypeOK /\ SocketInv /\ ExchangeInv
  BY DEF ClusterInv
<1>1. f \in Computers /\ t \in Computers
  BY <1>0 DEF TypeOK, Socket
<1>2. SocketOK(x, s, queue[f][t])
  BY <1>0 DEF SocketInv
<1>3. Exchange(x, s, queue[f][t], queue[t][f], Joined(daemon[f], t))
  BY <1>0 DEF ExchangeInv
<1>4. /\ x \in Mine(c) => /\ f # t
                          /\ f = c => s.client
                          /\ f # c => t = c /\ s.server # "closed"
      /\ x \notin Mine(c) => /\ f = c => ~s.client
                             /\ f # c /\ t = c => s.server = "closed"
      /\ \A b \in Computers : b # c =>
           (x \in Told(c, b) <=>
              /\ x \in Mine(c)
              /\ ~s.broken
              /\ \/ f = c /\ t = b /\ s.server # "closed"
                 \/ f = b /\ t = c /\ s.client)
  BY <1>0, MineEnds
<1>5. x \notin Mine(c) => u = s
  BY DEF GoneStep
<1>6. x \in Mine(c) => EndClosed(c, s, u)
  BY DEF GoneStep
<1>7. u.from = f /\ u.to = t
  BY <1>5, <1>6 DEF EndClosed
<1>8. \A a, b \in Computers : \A y : b # c /\ Has(queue[a][b], x, y) => Has(queue'[a][b], x, y)
  BY DEF GoneStep, Ending
<1>9. \A b \in Computers : b # c /\ x \in Told(c, b) => Has(queue'[c][b], x, "FIN")
  BY DEF GoneStep, Ending
<1>10. f # c => daemon'[f] = daemon[f]
  BY <1>1 DEF GoneStep, OnlyDaemon
<1>11. s.client \/ s.server # "closed" => f # t
  BY <1>2 DEF SocketOK
<1>12. s.from = f /\ s.to = t
  OBVIOUS
<1> HIDE DEF s, u, f, t
<1>13. SocketOK(x, u, queue'[f][t])
  <2>1. CASE x \in Mine(c) /\ f = c
    <3>1. t # c
      BY <1>4, <2>1
    <3>2. Has(queue[f][t], x, "SYN") => Has(queue'[f][t], x, "SYN")
      BY <1>1, <1>8, <3>1
    <3>3. QED
      BY <1>2, <1>4, <1>6, <1>7, <1>12, <2>1, <3>2 DEF SocketOK, EndClosed
  <2>2. CASE x \in Mine(c) /\ f # c
    BY <1>2, <1>4, <1>6, <1>12, <2>2 DEF SocketOK, EndClosed
  <2>3. CASE x \notin Mine(c)
    <3>1. s.server = "backlog" => t # c
      BY <1>4, <1>11, <2>3
    <3>2. s.server = "backlog" /\ Has(queue[f][t], x, "SYN") => Has(queue'[f][t], x, "SYN")
      BY <1>1, <1>8, <3>1
    <3>3. QED
      BY <1>2, <1>5, <2>3, <3>2 DEF SocketOK
  <2>4. QED
    BY <2>1, <2>2, <2>3
<1>14. Exchange(x, u, queue'[f][t], queue'[t][f], Joined(daemon'[f], t))
  <2>1. CASE x \in Mine(c) /\ f = c
    <3>1. ~u.client /\ u.server = s.server /\ u.broken = s.broken
      BY <1>6, <1>12, <2>1 DEF EndClosed
    <3>2. ~s.broken /\ s.server # "closed" => Has(queue'[f][t], x, "FIN")
      BY <1>1, <1>4, <1>9, <2>1
    <3>3. QED
      BY <3>1, <3>2 DEF Exchange
  <2>2. CASE x \in Mine(c) /\ f # c
    <3>1. u.client = s.client /\ u.server = "closed" /\ u.broken = s.broken
      BY <1>6, <1>12, <2>2 DEF EndClosed
    <3>2. ~s.broken /\ s.client => Has(queue'[t][f], x, "FIN")
      BY <1>1, <1>4, <1>9, <2>2
    <3>3. QED
      BY <3>1, <3>2 DEF Exchange
  <2>3. CASE x \notin Mine(c) /\ f = c
    <3>1. ~s.client /\ u = s
      BY <1>4, <1>5, <2>3
    <3>2. s.server # "closed" /\ Has(queue[f][t], x, "FIN") => Has(queue'[f][t], x, "FIN")
      BY <1>1, <1>8, <1>11, <2>3
    <3>3. QED
      BY <1>3, <3>1, <3>2 DEF Exchange
  <2>4. CASE x \notin Mine(c) /\ f # c /\ t = c
    <3>1. s.server = "closed" /\ u = s
      BY <1>4, <1>5, <2>4
    <3>2. Has(queue[t][f], x, "FIN") => Has(queue'[t][f], x, "FIN")
      BY <1>1, <1>8, <2>4
    <3>3. QED
      BY <1>3, <3>1, <3>2 DEF Exchange
  <2>5. CASE x \notin Mine(c) /\ f # c /\ t # c
    <3>1. u = s /\ daemon'[f] = daemon[f]
      BY <1>5, <1>10, <2>5
    <3>2. /\ \A y : Has(queue[f][t], x, y) => Has(queue'[f][t], x, y)
          /\ \A y : Has(queue[t][f], x, y) => Has(queue'[t][f], x, y)
      BY <1>1, <1>8, <2>5
    <3>3. QED
      BY <1>3, <3>1, <3>2 DEF Exchange
  <2>6. QED
    BY <2>1, <2>2, <2>3, <2>4, <2>5
<1>15. QED
  BY <1>7, <1>13, <1>14 DEF s, u, f, t

LEMMA GoneInv ==
  ASSUME ClusterInv, TypeOK', NEW c \in Computers, GoneStep(c)
  PROVE  ClusterInv'
<1>0. TypeOK /\ SocketInv /\ NameInv /\ DaemonInv /\ LinkInv
  BY DEF ClusterInv
<1>1. SocketInv' /\ ExchangeInv'
  BY GoneSocket DEF SocketInv, ExchangeInv
<1>2. NameInv'
  <2>1. ASSUME NEW x \in Sockets, NEW y \in Sockets, SameNames(socket'[x], socket'[y])
        PROVE  x = y
    <3>1. ASSUME NEW z \in Sockets
          PROVE  /\ socket'[z].server # "closed" => socket[z].server # "closed"
                 /\ socket'[z].from = socket[z].from
                 /\ socket'[z].to = socket[z].to
                 /\ socket'[z].server_name = socket[z].server_name
      BY DEF GoneStep, EndClosed
    <3>2. SameNames(socket[x], socket[y])
      BY <2>1, <3>1 DEF SameNames
    <3>3. QED
      BY <1>0, <3>2 DEF NameInv
  <2>2. QED
    BY <2>1 DEF NameInv
<1>3. /\ NoPermanent.sock = None /\ ~NoPermanent.known
      /\ Unused(NoPermanent)
  BY DEF NoPermanent, Unused
<1>4. DaemonInv'
  <2>1. DaemonOK(c, daemon'[c])
    BY <1>3 DEF DaemonOK, GoneStep
  <2>2. QED
    BY <1>0, <2>1 DEF DaemonInv, GoneStep, OnlyDaemon
<1>5. LinkInv'
  <2>1. ASSUME NEW a \in Computers, NEW b \in Computers, NEW x \in Sockets
        PROVE  Link(a, b, x, daemon'[a], socket'[x])
    <3>0. Link(a, b, x, daemon[a], socket[x])
      BY <1>0 DEF LinkInv
    <3>1. socket'[x].from = socket[x].from /\ socket'[x].to = socket[x].to
      BY GoneSocket
    <3>2. CASE a # c
      <4>1. daemon'[a] = daemon[a]
        BY <3>2 DEF GoneStep, OnlyDaemon
      <4>2. socket[x].from = a => socket'[x].client = socket[x].client
        BY <3>2 DEF GoneStep, EndClosed
      <4>3. QED
        BY <3>0, <3>1, <4>1, <4>2 DEF Link
    <3>3. CASE a = c
      <4>1. /\ daemon'[a].f_smaller_ips[b].sock = None
            /\ daemon'[a].f_gossip_ips[b].sock = None
        BY <1>3, <3>3 DEF GoneStep
      <4>2. socket[x].from = c => ~socket'[x].client
        BY <1>0, MineEnds DEF GoneStep, EndClosed
      <4>3. x # None
        BY NoneIsNone
      <4>4. QED
        BY <3>1, <3>3, <4>1, <4>2, <4>3 DEF Link
    <3>4. QED
      BY <3>2, <3>3
  <2>2. QED
    BY <2>1 DEF LinkInv
<1>6. QED
  BY <1>1, <1>2, <1>4, <1>5, GoneTransit DEF ClusterInv

-----------------------------------------------------------------------------
LEMMA InitCluster ==
  ASSUME Init
  PROVE  ClusterInv
<1>0. TypeOK
  BY InitTypes
<1>1. /\ \A a, b \in Computers : queue[a][b] = <<>>
      /\ \A n \in Sockets : /\ ~socket[n].client
                            /\ socket[n].server = "closed"
      /\ \A c, d \in Computers : /\ daemon[c].f_smaller_ips[d] = NoPermanent
                                 /\ daemon[c].f_gossip_ips[d] = NoPermanent
  BY DEF Init
<1>2. TransitInv
  <2>1. ASSUME NEW a \in Computers, NEW b \in Computers, NEW n \in Sockets
        PROVE  Transit(a, b, n, queue[a][b], socket[n])
    <3>1. ~On(queue[a][b], n)
      BY <1>1, NoEvents
    <3>2. QED
      BY <3>1, TransitNone
  <2>2. QED
    BY <2>1 DEF TransitInv
<1>3. SocketInv
  BY <1>1 DEF SocketInv, SocketOK
<1>4. NameInv
  BY <1>1 DEF NameInv, SameNames
<1>5. /\ NoPermanent.sock = None /\ ~NoPermanent.known
      /\ Unused(NoPermanent)
  BY DEF NoPermanent, Unused
<1>6. DaemonInv
  BY <1>1, <1>5 DEF DaemonInv, DaemonOK
<1>7. LinkInv
  BY <1>1, <1>5, NoneIsNone DEF LinkInv, Link
<1>8. ExchangeInv
  BY <1>1 DEF ExchangeInv, Exchange
<1>9. QED
  BY <1>0, <1>2, <1>3, <1>4, <1>6, <1>7, <1>8 DEF ClusterInv

LEMMA NextCluster ==
  ASSUME ClusterInv, [Next]_vars
  PROVE  ClusterInv'
<1>0. TypeOK /\ TypeOK'
  BY NextTypes DEF ClusterInv
<1>1. ASSUME NEW c \in Computers, NEW d \in Computers, Deliver(c, d)
      PROVE  ClusterInv'
  <2>1. CASE process_accept(c, d)
    BY <1>0, <2>1, AcceptInv
  <2>2. CASE CONNECT(c, d)
    BY <1>0, <2>2, ConnectRefusedInv, ConnectAcceptedInv
  <2>3. CASE ACCEPT(c, d)
    BY <1>0, <2>3, AcceptedInv
  <2>4. CASE REFUSE(c, d)
    BY <1>0, <2>4, RefuseInv
  <2>5. CASE DISCONNECT(c, d)
    BY <1>0, <2>5, DisconnectInv
  <2>6. CASE GOSSIP(c, d)
    BY <1>0, <2>6, GossipInv
  <2>7. CASE RECEIVED(c, d)
    BY <1>0, <2>7, ReceivedInv
  <2>8. CASE process_hup(c, d)
    BY <1>0, <2>8, HupInv
  <2>9. QED
    BY <1>1, <2>1, <2>2, <2>3, <2>4, <2>5, <2>6, <2>7, <2>8 DEF Deliver
<1>2. ASSUME NEW c \in Computers, NEW d \in Computers, Timeout(c, d)
      PROVE  ClusterInv'
  BY <1>0, <1>2, ConnectedInv, GossipedInv, FailedInv DEF Timeout
<1>3. ASSUME NEW c \in Computers, Start(c)
      PROVE  ClusterInv'
  BY <1>0, <1>3, StartInv
<1>4. ASSUME NEW c \in Computers, Stop(c) \/ Crash(c)
      PROVE  ClusterInv'
  <2>1. PICK last : Gone(c, last) /\ LastOK(c, last)
    BY <1>4, StopWords, CrashOK
  <2>2. GoneStep(c)
    BY <1>0, <2>1, GoneSteps
  <2>3. QED
    BY <1>0, <2>2, GoneInv
<1>5. ASSUME NEW n \in Sockets, Break(n)
      PROVE  ClusterInv'
  BY <1>0, <1>5, BreakInv
<1>6. ASSUME NEW c \in Computers, NEW n \in Sockets, Notice(c, n)
      PROVE  ClusterInv'
  BY <1>0, <1>6, NoticeInv
<1>7. CASE UNCHANGED vars
  <2>1. UNCHANGED <<daemon, socket, queue>>
    BY <1>7 DEF vars
  <2>2. /\ TransitInv' /\ SocketInv' /\ NameInv' /\ DaemonInv' /\ LinkInv'
        /\ ExchangeInv'
    BY <2>1 DEF ClusterInv, TransitInv, SocketInv, NameInv, DaemonInv, LinkInv,
                ExchangeInv
  <2>3. QED
    BY <1>0, <2>2 DEF ClusterInv
<1>8. QED
  BY <1>1, <1>2, <1>3, <1>4, <1>5, <1>6, <1>7 DEF Next

LEMMA ClusterInvariant == Spec => []ClusterInv
<1>1. Init => ClusterInv
  BY InitCluster
<1>2. ClusterInv /\ [Next]_vars => ClusterInv'
  BY NextCluster
<1>3. QED
  BY <1>1, <1>2, PTL DEF Spec

\* However connections break, are retried or cross each other, a daemon never
\* has two accepted connections under the name of one computer: CONNECT looks
\* the name up, and a name is only given to an accepted connection.
THEOREM OneConnection == Spec => []OneConnectionPerName
<1>1. ClusterInv => OneConnectionPerName
  <2>1. SUFFICES ASSUME ClusterInv, NEW c \in Computers,
                        NEW m \in Accepted(c, socket), NEW n \in Accepted(c, socket),
                        socket[m].type = "REMOTE", socket[n].type = "REMOTE",
                        socket[m].from = socket[n].from
                 PROVE  m = n
    BY DEF OneConnectionPerName
  <2>2. /\ m \in Sockets /\ socket[m].to = c /\ socket[m].server = "open"
        /\ n \in Sockets /\ socket[n].to = c /\ socket[n].server = "open"
    BY DEF Accepted
  <2>3. socket[m].server_name /\ socket[n].server_name
    BY <2>1, <2>2 DEF ClusterInv, SocketInv, SocketOK
  <2>4. SameNames(socket[m], socket[n])
    BY <2>1, <2>2, <2>3 DEF SameNames
  <2>5. QED
    BY <2>1, <2>2, <2>4 DEF ClusterInv, NameInv
<1>2. QED
  BY <1>1, ClusterInvariant, PTL

\* Once nothing is in transit both ends agree on every connection, for any
\* number of computers and whatever stopped, crashed or broke before.
THEOREM BothEndsAgree == Spec => []EndsAgree
<1>1. ClusterInv => EndsAgree
  <2>1. SUFFICES ASSUME ClusterInv, Quiet, NEW c \in Computers, NEW d \in Computers,
                        c < d
                 PROVE  /\ daemon[d].f_smaller_ips[c].sock # None => Linked(c, d)
                        /\ \A n \in Accepted(c, socket) :
                             socket[n].from = d => daemon[d].f_smaller_ips[c].sock = n
    BY DEF EndsAgree
  <2>2. TypeOK /\ LinkInv /\ ExchangeInv
    BY <2>1 DEF ClusterInv
  <2>3. \A a, b \in Computers : \A n, m : ~Has(queue[a][b], n, m)
    BY <2>1, NoEvents DEF Quiet
  <2>4. ASSUME NEW n \in Sockets, socket[n].from = d, socket[n].to = c
        PROVE  /\ socket[n].client \/ socket[n].server # "closed" => ~socket[n].broken
               /\ socket[n].client =>
                    /\ socket[n].server = "open"
                    /\ socket[n].type = "REMOTE"
                    /\ Joined(daemon[d], c)
               /\ socket[n].server # "closed" => socket[n].client
    <3>1. socket[n].client \/ socket[n].server # "closed" => ~socket[n].broken
      BY <2>1 DEF Quiet, Free
    <3>2. Exchange(n, socket[n], queue[d][c], queue[c][d], Joined(daemon[d], c))
      BY <2>2, <2>4 DEF ExchangeInv
    <3>3. QED
      BY <2>1, <2>3, <2>4, <3>1, <3>2 DEF Exchange
  <2>5. ASSUME daemon[d].f_smaller_ips[c].sock # None
        PROVE  Linked(c, d)
    <3> DEFINE n == daemon[d].f_smaller_ips[c].sock
    <3>1. n \in Sockets
      BY <2>2, <2>5, DaemonFields, PermanentFields
    <3> HIDE DEF n
    <3>2. socket[n].from = d /\ socket[n].to = c /\ socket[n].client
      BY <2>2, <3>1 DEF LinkInv, Link, n
    <3>3. /\ socket[n].server = "open"
          /\ socket[n].type = "REMOTE"
          /\ daemon[d].f_smaller_ips[c].type = "REMOTE"
      BY <2>4, <3>1, <3>2 DEF Joined
    <3>4. n \in Accepted(c, socket)
      BY <3>1, <3>2, <3>3 DEF Accepted
    <3>5. QED
      BY <3>2, <3>3, <3>4 DEF Linked, n
  <2>6. ASSUME NEW n \in Accepted(c, socket), socket[n].from = d
        PROVE  daemon[d].f_smaller_ips[c].sock = n
    <3>1. n \in Sockets /\ socket[n].to = c /\ socket[n].server = "open"
      BY DEF Accepted
    <3>2. socket[n].client
      BY <2>4, <2>6, <3>1
    <3>3. QED
      BY <2>1, <2>2, <2>6, <3>1, <3>2 DEF LinkInv, Link
  <2>7. QED
    BY <2>5, <2>6
<1>2. QED
  BY <1>1, ClusterInvariant, PTL
=============================================================================
