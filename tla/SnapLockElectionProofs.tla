----------------------- MODULE SnapLockElectionProofs -----------------------
(***************************************************************************)
(* Theorems about SnapLockElection, for any computers, priorities, ids and *)
(* bounds: types, leaders that are known, LOCK messages that are not left  *)
(* in the cache, and one set of leaders for each election.                 *)
(***************************************************************************)
EXTENDS SnapLockElection, SnapSequencesProofs, FiniteSetTheorems

\* a list without the same element twice
Different(l) == \A i, j \in 1..Len(l) : i # j => l[i] # l[j]

\* the messages name each leader once
Letter ==
  {m \in Message : m.cmd \in {"LOCKLEADERS", "LOCKSTARTED"} =>
     \A i, j \in 1..Len(m.leaders) :
       i # j => m.leaders[i].name # m.leaders[j].name}

Post == [to : SUBSET Computers, msg : Letter]

\* the daemon while a handler runs
Work ==
  [ up : BOOLEAN, start : Nat, random : Nat, neighbors_count : Nat,
    computers : [Computers -> Computer], leaders : Seq(Computers),
    election_date : Nat, lock_status : {"LOCKREADY", "NOLOCK"},
    paced : BOOLEAN, message_cache : SUBSET Requests,
    out : Seq(Post), clock : Nat, handed : SUBSET Requests ]

\* the leaders are different and known
LeadersOK(s) ==
  /\ Different(s.leaders)
  /\ \A i \in 1..Len(s.leaders) : s.computers[s.leaders[i]].known

Mail == [Computers -> [Computers -> Seq(Letter)]]

LetterInv == net \in Mail

KnownInv == \A c \in Computers : LeadersOK(node[c])


LEMMA ComputerTypes ==
  /\ Unknown \in Computer /\ ~Unknown.known
  /\ \A r \in Nat : Named(r) \in Computer /\ Named(r).known
  /\ \A r, t \in Nat : Heard(r, t) \in Computer /\ Heard(r, t).known
                       /\ Heard(r, t).connected
BY DEF Unknown, Named, Heard, Computer

LEMMA DaemonFields ==
  ASSUME NEW s \in Daemon
  PROVE  /\ s.up \in BOOLEAN /\ s.start \in Nat /\ s.random \in Nat
         /\ s.neighbors_count \in Nat /\ s.computers \in [Computers -> Computer]
         /\ s.leaders \in Seq(Computers) /\ s.election_date \in Nat
         /\ s.lock_status \in {"LOCKREADY", "NOLOCK"} /\ s.paced \in BOOLEAN
         /\ s.message_cache \in SUBSET Requests
BY DEF Daemon

LEMMA WorkFields ==
  ASSUME NEW s \in Work
  PROVE  /\ s.up \in BOOLEAN /\ s.start \in Nat /\ s.random \in Nat
         /\ s.neighbors_count \in Nat /\ s.computers \in [Computers -> Computer]
         /\ s.leaders \in Seq(Computers) /\ s.election_date \in Nat
         /\ s.lock_status \in {"LOCKREADY", "NOLOCK"} /\ s.paced \in BOOLEAN
         /\ s.message_cache \in SUBSET Requests
         /\ s.out \in Seq(Post) /\ s.clock \in Nat /\ s.handed \in SUBSET Requests
BY DEF Work

\* the leaders are assigned
LEMMA SetLeaders ==
  ASSUME NEW s \in Work, NEW x \in Seq(Computers),
         NEW t, t = [s EXCEPT !.leaders = x]
  PROVE  /\ t \in Work /\ t.leaders = x /\ t.computers = s.computers
         /\ t.neighbors_count = s.neighbors_count /\ t.lock_status = s.lock_status
         /\ t.message_cache = s.message_cache /\ t.out = s.out
BY DEF Work

-----------------------------------------------------------------------------
(***************************************************************************)
(* What holds as long as no connection broke.                              *)
(***************************************************************************)
\* how many leaders there are after an election
Size == IF Total < 3 THEN Total ELSE 3

\* a daemon that is ready has nothing in its cache and leaders it can reach
Replayed(s) ==
  s.lock_status = "LOCKREADY" => is_ready(s) /\ s.message_cache = {}

SteadyNode(c, s) ==
  /\ s.neighbors_count \in {0, Total}
  /\ Len(s.leaders) \in {0, Size}
  /\ s.computers[c].known /\ s.computers[c].connected

\* m is sent by c to d
SteadyLetter(c, d, m) ==
  /\ m.cmd # "HANGUP"
  /\ m.cmd = "CLUSTERUP" => m.neighbors_count = Total
  /\ m.cmd \in {"LOCKLEADERS", "LOCKSTARTED"} =>
       /\ Len(m.leaders) \in {0, Size}
       /\ m.election_date > 0 => m.leaders # <<>>
  /\ m.cmd = "LOCKSTARTED" => c # d

SteadyNodes ==
  \A c \in Computers : node[c].up => SteadyNode(c, node[c]) /\ Replayed(node[c])

SteadyMail ==
  \A c, d \in Computers : \A i \in 1..Len(net[c][d]) :
    SteadyLetter(c, d, net[c][d][i])

SteadyLinks == \A c, d \in Computers : c \in f_connected[d] => {c, d} \in links

SteadyInv == Steady => SteadyNodes /\ SteadyMail /\ SteadyLinks

-----------------------------------------------------------------------------
OK(s) == s \in Work /\ LeadersOK(s)

\* t is s with other messages sent and another pace, status and cache
SameElectorate(s, t) ==
  /\ t.up = s.up /\ t.start = s.start /\ t.random = s.random
  /\ t.neighbors_count = s.neighbors_count
  /\ t.computers = s.computers
  /\ t.leaders = s.leaders
  /\ t.election_date = s.election_date
  /\ t.clock = s.clock

LEMMA LeaderTypes ==
  ASSUME NEW s \in Work, NEW i \in 1..Len(s.leaders)
  PROVE  /\ s.leaders[i] \in Computers
         /\ s.computers[s.leaders[i]] \in Computer
         /\ s.computers[s.leaders[i]].random \in Nat
<1>1. s.leaders \in Seq(Computers) /\ s.computers \in [Computers -> Computer]
  BY WorkFields
<1>2. s.leaders[i] \in Computers
  BY <1>1
<1>3. s.computers[s.leaders[i]] \in Computer
  BY <1>1, <1>2
<1>4. QED
  BY <1>2, <1>3 DEF Computer

(***************************************************************************)
(* The ids of the leaders in a message are those of different computers.   *)
(***************************************************************************)
LEMMA IdsTypes ==
  ASSUME NEW s, OK(s)
  PROVE  /\ Ids(s) \in Seq(LeaderId)
         /\ Len(Ids(s)) = Len(s.leaders)
         /\ \A i, j \in 1..Len(Ids(s)) : i # j => Ids(s)[i].name # Ids(s)[j].name
<1> DEFINE id(i) == [name |-> s.leaders[i],
                     random |-> s.computers[s.leaders[i]].random]
<1>1. s \in Work /\ Different(s.leaders)
  BY DEF OK, LeadersOK
<1>2. Len(s.leaders) \in Nat
  BY <1>1, WorkFields
<1>3. \A i \in 1..Len(s.leaders) : id(i) \in LeaderId /\ id(i).name = s.leaders[i]
  BY <1>1, LeaderTypes DEF LeaderId
<1>4. Ids(s) = [i \in 1..Len(s.leaders) |-> id(i)]
  BY DEF Ids
<1> HIDE DEF id
<1>5. Ids(s) \in Seq(LeaderId)
  BY <1>2, <1>3, <1>4
<1>6. Len(Ids(s)) = Len(s.leaders)
  BY <1>2, <1>4, <1>5
<1>7. \A i \in 1..Len(Ids(s)) : Ids(s)[i].name = s.leaders[i]
  BY <1>3, <1>4, <1>6
<1>8. QED
  BY <1>1, <1>5, <1>6, <1>7 DEF Different

LEMMA LockStartedTypes ==
  ASSUME NEW s, OK(s), NEW c, NEW b \in BOOLEAN
  PROVE  LockStarted(c, s, b) \in Letter
<1>1. /\ s.random \in Nat /\ s.start \in Nat /\ s.election_date \in Nat
  BY WorkFields DEF OK
<1> DEFINE m == LockStarted(c, s, b)
<1>2. m \in [ cmd : {"LOCKSTARTED"}, broadcast : BOOLEAN, random : Nat,
              starttime : Nat, election_date : Nat, leaders : Seq(LeaderId) ]
  BY <1>1, IdsTypes DEF LockStarted
<1>3. m.leaders = Ids(s)
  BY DEF LockStarted
<1>4. m \in Message
  BY <1>2 DEF Message
<1> HIDE DEF m
<1>5. m \in Letter
  BY <1>3, <1>4, IdsTypes DEF Letter
<1>6. QED
  BY <1>5 DEF m

LEMMA SendOK ==
  ASSUME NEW s, OK(s), NEW T \in SUBSET Computers, NEW m \in Letter
  PROVE  /\ OK(Send(s, T, m))
         /\ SameElectorate(s, Send(s, T, m))
         /\ Send(s, T, m).lock_status = s.lock_status
         /\ Send(s, T, m).message_cache = s.message_cache
         /\ Send(s, T, m).handed = s.handed
         /\ Send(s, T, m).out = Append(s.out, [to |-> T, msg |-> m])
<1> DEFINE p == [to |-> T, msg |-> m]
<1>1. s \in Work /\ s.out \in Seq(Post) /\ p \in Post
  BY WorkFields DEF OK, Post
<1> HIDE DEF p
<1>2. Append(s.out, p) \in Seq(Post)
  BY <1>1
<1>3. Send(s, T, m) = [s EXCEPT !.out = Append(s.out, p)]
  BY <1>1 DEF Send, p, Work
<1>4. Send(s, T, m) \in Work /\ SameElectorate(s, Send(s, T, m))
  BY <1>1, <1>2, <1>3 DEF Work, SameElectorate
<1>5. OK(Send(s, T, m))
  BY <1>4 DEF OK, LeadersOK, SameElectorate
<1>6. QED
  BY <1>1, <1>2, <1>3, <1>4, <1>5 DEF Work, p

(***************************************************************************)
(* is_ready() sends at most a LOCKSTARTED.                                 *)
(***************************************************************************)
LEMMA AfterIsReadyCases ==
  ASSUME NEW s, OK(s), NEW c
  PROVE  \/ AfterIsReady(c, s) = s
         \/ \E i \in Distant(s) :
              AfterIsReady(c, s) =
                [Send(s, {s.leaders[i]}, LockStarted(c, s, FALSE)) EXCEPT !.paced = TRUE]
<1>1. Distant(s) \in SUBSET Nat
  BY WorkFields DEF OK, Distant
<1>2. CASE EnoughComputers(s) /\ Distant(s) # {} /\ ~s.paced
  <2> DEFINE i == CHOOSE i \in Distant(s) : \A j \in Distant(s) : i <= j
  <2>1. i \in Distant(s)
    BY <1>1, <1>2, LeastNatural
  <2>2. AfterIsReady(c, s) =
          [Send(s, {s.leaders[i]}, LockStarted(c, s, FALSE)) EXCEPT !.paced = TRUE]
    BY <1>2 DEF AfterIsReady, reply_lockstarted
  <2> HIDE DEF i
  <2>3. QED
    BY <2>1, <2>2
<1>3. CASE ~(EnoughComputers(s) /\ Distant(s) # {} /\ ~s.paced)
  BY <1>3 DEF AfterIsReady
<1>4. QED
  BY <1>2, <1>3

LEMMA AfterIsReadyOK ==
  ASSUME NEW s, OK(s), NEW c
  PROVE  /\ OK(AfterIsReady(c, s))
         /\ SameElectorate(s, AfterIsReady(c, s))
         /\ AfterIsReady(c, s).lock_status = s.lock_status
         /\ AfterIsReady(c, s).message_cache = s.message_cache
         /\ AfterIsReady(c, s).handed = s.handed
         /\ \/ AfterIsReady(c, s).out = s.out
            \/ \E i \in Distant(s) : AfterIsReady(c, s).out =
                 Append(s.out, [to |-> {s.leaders[i]}, msg |-> LockStarted(c, s, FALSE)])
<1> DEFINE t == AfterIsReady(c, s)
<1>1. CASE t = s
  BY <1>1 DEF SameElectorate
<1>2. ASSUME NEW i \in Distant(s),
             t = [Send(s, {s.leaders[i]}, LockStarted(c, s, FALSE)) EXCEPT !.paced = TRUE]
      PROVE  /\ OK(t)
             /\ SameElectorate(s, t)
             /\ t.lock_status = s.lock_status
             /\ t.message_cache = s.message_cache
             /\ t.handed = s.handed
             /\ t.out = Append(s.out, [to |-> {s.leaders[i]},
                                       msg |-> LockStarted(c, s, FALSE)])
  <2> DEFINE m == LockStarted(c, s, FALSE)
             u == Send(s, {s.leaders[i]}, m)
  <2>1. m \in Letter /\ s.leaders[i] \in Computers
    BY LockStartedTypes, LeaderTypes DEF OK, Distant
  <2> HIDE DEF m, t
  <2>2. /\ OK(u) /\ SameElectorate(s, u) /\ u.lock_status = s.lock_status
        /\ u.message_cache = s.message_cache /\ u.handed = s.handed
        /\ u.out = Append(s.out, [to |-> {s.leaders[i]}, msg |-> m])
    BY <2>1, SendOK
  <2>3. t = [u EXCEPT !.paced = TRUE]
    BY <1>2 DEF m
  <2> HIDE DEF u
  <2>4. t \in Work /\ SameElectorate(u, t) /\ t.lock_status = u.lock_status
        /\ t.message_cache = u.message_cache /\ t.handed = u.handed /\ t.out = u.out
    BY <2>2, <2>3 DEF OK, Work, SameElectorate
  <2>5. SameElectorate(s, t)
    BY <2>2, <2>4 DEF SameElectorate
  <2>6. OK(t)
    BY <2>4, <2>5 DEF OK, LeadersOK, SameElectorate
  <2>7. QED
    BY <2>2, <2>4, <2>5, <2>6 DEF m
<1> HIDE DEF t
<1>3. t = s \/ \E i \in Distant(s) :
         t = [Send(s, {s.leaders[i]}, LockStarted(c, s, FALSE)) EXCEPT !.paced = TRUE]
  BY AfterIsReadyCases DEF t
<1>4. QED
  BY <1>1, <1>2, <1>3 DEF t

\* is_ready() looks at the computers and the leaders only
LEMMA SameReady ==
  ASSUME NEW s, NEW t, t.leaders = s.leaders, t.computers = s.computers,
         t.neighbors_count = s.neighbors_count
  PROVE  is_ready(t) <=> is_ready(s)
<1>1. Known(t) = Known(s) /\ Distant(t) = Distant(s)
      /\ neighbors_quorum(t) = neighbors_quorum(s)
  BY DEF Known, Distant, neighbors_quorum
<1>2. QED
  BY <1>1 DEF is_ready, EnoughComputers

LEMMA CheckOK ==
  ASSUME NEW s, OK(s), NEW c
  PROVE  /\ OK(check_lock_status(c, s))
         /\ SameElectorate(s, check_lock_status(c, s))
         /\ check_lock_status(c, s).lock_status =
              IF is_ready(s) THEN "LOCKREADY" ELSE "NOLOCK"
         /\ check_lock_status(c, s).message_cache =
              IF s.lock_status = "NOLOCK" /\ is_ready(s) THEN {} ELSE s.message_cache
         /\ check_lock_status(c, s).out = AfterIsReady(c, s).out
<1> DEFINE t == AfterIsReady(c, s)
           r == is_ready(s)
           u == check_lock_status(c, s)
<1>1. /\ OK(t) /\ SameElectorate(s, t) /\ t.lock_status = s.lock_status
      /\ t.message_cache = s.message_cache
  BY AfterIsReadyOK
<1>2. t \in Work /\ s \in Work /\ r \in BOOLEAN
  BY <1>1 DEF OK, is_ready
<1>3. s.lock_status \in {"LOCKREADY", "NOLOCK"} /\ s.message_cache \in SUBSET Requests
  BY <1>2, WorkFields
<1>4. u = IF t.lock_status = (IF r THEN "LOCKREADY" ELSE "NOLOCK") THEN t
          ELSE IF r
               THEN [t EXCEPT !.lock_status = "LOCKREADY",
                              !.handed = t.handed \cup s.message_cache,
                              !.message_cache = {}]
               ELSE [t EXCEPT !.lock_status = "NOLOCK"]
  BY <1>2 DEF check_lock_status, Work
<1> HIDE DEF t, r, u
<1>5. /\ u \in Work /\ SameElectorate(t, u)
      /\ u.lock_status = IF r THEN "LOCKREADY" ELSE "NOLOCK"
      /\ u.message_cache =
           IF s.lock_status = "NOLOCK" /\ r THEN {} ELSE s.message_cache
      /\ u.out = t.out
  <2>1. CASE t.lock_status = (IF r THEN "LOCKREADY" ELSE "NOLOCK")
    BY <1>1, <1>2, <1>4, <2>1 DEF SameElectorate
  <2>2. CASE t.lock_status # "LOCKREADY" /\ r
    <3>1. u = [t EXCEPT !.lock_status = "LOCKREADY",
                        !.handed = t.handed \cup s.message_cache,
                        !.message_cache = {}]
      BY <1>4, <2>2
    <3>2. s.lock_status = "NOLOCK"
      BY <1>1, <1>3, <2>2
    <3>3. QED
      BY <1>2, <1>3, <2>2, <3>1, <3>2 DEF SameElectorate, Work
  <2>3. CASE t.lock_status # "NOLOCK" /\ ~r
    <3>1. u = [t EXCEPT !.lock_status = "NOLOCK"]
      BY <1>4, <2>3
    <3>2. QED
      BY <1>1, <1>2, <2>3, <3>1 DEF SameElectorate, Work
  <2>4. QED
    BY <1>2, <2>1, <2>2, <2>3
<1>6. SameElectorate(s, u)
  BY <1>1, <1>5 DEF SameElectorate
<1>7. OK(u)
  BY <1>1, <1>5 DEF OK, LeadersOK, SameElectorate
<1>8. QED
  BY <1>5, <1>6, <1>7 DEF t, r, u

-----------------------------------------------------------------------------
(***************************************************************************)
(* The first of some computers in the order of election_status().          *)
(***************************************************************************)
LEMMA FirstCandidate ==
  ASSUME NEW s \in Work, NEW S \in SUBSET Computers, S # {}
  PROVE  \E d \in S : /\ ~Before(s, d, d)
                      /\ \A e \in S \ {d} : Before(s, d, e) /\ ~Before(s, e, d)
<1> DEFINE p(x) == IF IsLeader(s, x) THEN 0 ELSE Priority[x]
           r(x) == s.computers[x].random
<1>1. \A x \in Computers : x \in Nat /\ p(x) \in Nat /\ r(x) \in Nat
  BY ElectionAssumption, WorkFields DEF Computer
<1>2. \A d, e : Before(s, d, e) <=>
        \/ p(d) < p(e)
        \/ p(d) = p(e) /\ r(d) < r(e)
        \/ p(d) = p(e) /\ r(d) = r(e) /\ d < e
  BY DEF Before
<1> HIDE DEF p, r
<1>3. PICK x \in S : \A y \in S : p(x) <= p(y)
  <2> DEFINE T == {p(y) : y \in S}
  <2>1. T \in SUBSET Nat /\ T # {}
    BY <1>1
  <2> HIDE DEF T
  <2>2. PICK k \in T : \A l \in T : k <= l
    BY <2>1, LeastNatural
  <2>3. QED
    BY <2>2 DEF T
<1> DEFINE P == {y \in S : p(y) = p(x)}
<1>4. PICK z \in P : \A y \in P : r(z) <= r(y)
  <2> DEFINE T == {r(y) : y \in P}
  <2>1. T \in SUBSET Nat /\ T # {}
    BY <1>1
  <2> HIDE DEF T
  <2>2. PICK k \in T : \A l \in T : k <= l
    BY <2>1, LeastNatural
  <2>3. QED
    BY <2>2 DEF T
<1> DEFINE R == {y \in P : r(y) = r(z)}
<1>5. PICK d \in R : \A y \in R : d <= y
  <2>1. R \in SUBSET Nat /\ R # {}
    BY <1>1
  <2> HIDE DEF R
  <2>2. QED
    BY <2>1, LeastNatural
<1>6. d \in S /\ d \in Nat /\ p(d) \in Nat /\ r(d) \in Nat
  BY <1>1
<1>7. ~Before(s, d, d)
  BY <1>2, <1>6
<1>8. ASSUME NEW e \in S \ {d}
      PROVE  Before(s, d, e) /\ ~Before(s, e, d)
  <2>1. e \in Nat /\ p(e) \in Nat /\ r(e) \in Nat
    BY <1>1
  <2>2. p(d) <= p(e)
    BY <1>3
  <2>3. p(d) = p(e) => r(d) <= r(e)
    BY <1>4
  <2>4. p(d) = p(e) /\ r(d) = r(e) => d <= e
    BY <1>5
  <2>5. d # e
    OBVIOUS
  <2> HIDE DEF P, R
  <2>6. /\ p(d) < p(e) \/ (p(d) = p(e) /\ r(d) < r(e))
             \/ (p(d) = p(e) /\ r(d) = r(e) /\ d < e)
        /\ ~(p(e) < p(d)) /\ ~(p(e) = p(d) /\ r(e) < r(d))
        /\ ~(p(e) = p(d) /\ r(e) = r(d) /\ e < d)
    BY <1>6, <2>1, <2>2, <2>3, <2>4, <2>5
  <2>7. QED
    BY <1>2, <2>6
<1>9. QED
  BY <1>6, <1>7, <1>8

LEMMA CandidateSet ==
  ASSUME NEW s
  PROVE  /\ Candidates(s) \in SUBSET Computers
         /\ IsFiniteSet(Candidates(s))
         /\ Cardinality(Candidates(s)) \in Nat
         /\ IsFiniteSet(Known(s)) /\ Cardinality(Known(s)) \in Nat
         /\ Cardinality(Known(s)) <= Total
         /\ Total \in Nat
         /\ \A d \in Candidates(s) : d \in Computers /\ s.computers[d].known
<1>1. Known(s) \in SUBSET Computers /\ Candidates(s) \in SUBSET Known(s)
  BY DEF Known, Candidates
<1>2. IsFiniteSet(Known(s)) /\ Cardinality(Known(s)) <= Total
  BY <1>1, ElectionAssumption, FS_Subset DEF Total
<1>3. IsFiniteSet(Candidates(s))
  BY <1>1, <1>2, FS_Subset
<1>4. QED
  BY <1>1, <1>2, <1>3, FS_CardinalityType, ElectionAssumption DEF Total, Known

\* the first three candidates are there
LEMMA Ranks ==
  ASSUME NEW s \in Work, NEW k \in 0..2, k < Cardinality(Candidates(s))
  PROVE  \E d \in Candidates(s) :
           Cardinality({e \in Candidates(s) : Before(s, e, d)}) = k
<1> DEFINE C == Candidates(s)
           F(d) == {e \in C : Before(s, e, d)}
<1>1. C \in SUBSET Computers /\ IsFiniteSet(C) /\ Cardinality(C) \in Nat
  BY CandidateSet
<1> HIDE DEF C
<1>2. C # {}
  BY <1>1, FS_EmptySet DEF C
<1>3. PICK a \in C : /\ ~Before(s, a, a)
                     /\ \A e \in C \ {a} : Before(s, a, e) /\ ~Before(s, e, a)
  BY <1>1, <1>2, FirstCandidate
<1>4. F(a) = {}
  BY <1>3
<1>5. Cardinality(F(a)) = 0
  BY <1>4, FS_EmptySet
<1>6. CASE k = 0
  BY <1>5, <1>6 DEF C
<1> DEFINE C1 == C \ {a}
<1>7. IsFiniteSet(C1) /\ Cardinality(C1) = Cardinality(C) - 1
  BY <1>1, FS_RemoveElement
<1>8. ASSUME k # 0
      PROVE  \E d \in C : Cardinality(F(d)) = k
  <2>1. C1 # {} /\ C1 \in SUBSET Computers
    <3>1. Cardinality(C1) # 0
      BY <1>1, <1>7, <1>8 DEF C
    <3>2. QED
      BY <1>1, <3>1, FS_EmptySet
  <2> HIDE DEF C1
  <2>2. PICK b \in C1 : /\ ~Before(s, b, b)
                        /\ \A e \in C1 \ {b} : Before(s, b, e) /\ ~Before(s, e, b)
    BY <2>1, FirstCandidate
  <2>3. F(b) = {a} /\ b \in C
    BY <1>3, <2>2 DEF C1
  <2>4. Cardinality(F(b)) = 1
    BY <2>3, FS_Singleton
  <2> DEFINE C2 == C1 \ {b}
  <2>5. IsFiniteSet(C2) /\ Cardinality(C2) = Cardinality(C1) - 1
    BY <1>7, FS_RemoveElement
  <2>6. ASSUME k = 2
        PROVE  \E d \in C : Cardinality(F(d)) = k
    <3>1. C2 # {} /\ C2 \in SUBSET Computers
      <4>1. Cardinality(C2) # 0
        BY <1>1, <1>7, <2>5, <2>6 DEF C
      <4>2. QED
        BY <2>1, <2>5, <4>1, FS_EmptySet
    <3> HIDE DEF C2
    <3>2. PICK d \in C2 : /\ ~Before(s, d, d)
                          /\ \A e \in C2 \ {d} : Before(s, d, e) /\ ~Before(s, e, d)
      BY <3>1, FirstCandidate
    <3>3. F(d) = {a, b} /\ d \in C /\ a # b
      BY <1>3, <2>2, <3>2 DEF C1, C2
    <3>4. Cardinality(F(d)) = 2
      <4>1. IsFiniteSet({a}) /\ Cardinality({a}) = 1 /\ {a} \cup {b} = {a, b}
        BY FS_Singleton
      <4>2. Cardinality({a} \cup {b}) = 2
        BY <3>3, <4>1, FS_AddElement
      <4>3. QED
        BY <3>3, <4>1, <4>2
    <3>5. QED
      BY <2>6, <3>3, <3>4
  <2>7. k = 1 \/ k = 2
    BY <1>8
  <2>8. CASE k = 1
    BY <2>3, <2>4, <2>8
  <2>9. QED
    BY <2>6, <2>7, <2>8
<1>9. QED
  BY <1>6, <1>8 DEF C

(***************************************************************************)
(* The leaders that are elected are different computers that are known.    *)
(***************************************************************************)
LEMMA ElectedOK ==
  ASSUME NEW s \in Work
  PROVE  /\ Elected(s) \in Seq(Computers)
         /\ Len(Elected(s)) = IF Cardinality(Candidates(s)) < 3
                              THEN Cardinality(Candidates(s)) ELSE 3
         /\ Different(Elected(s))
         /\ \A i \in 1..Len(Elected(s)) : s.computers[Elected(s)[i]].known
<1> DEFINE n == Cardinality(Candidates(s))
           l == IF n < 3 THEN n ELSE 3
           F(d) == {e \in Candidates(s) : Before(s, e, d)}
           g(i) == CHOOSE d \in Candidates(s) : Cardinality(F(d)) = i - 1
           E == Elected(s)
<1>1. n \in Nat /\ l \in Nat /\ l <= 3 /\ l <= n
  BY CandidateSet
<1>2. E = [i \in 1..l |-> g(i)]
  BY DEF Elected
<1>3. ASSUME NEW i \in 1..l
      PROVE  g(i) \in Candidates(s) /\ Cardinality(F(g(i))) = i - 1
  <2>1. i - 1 \in 0..2 /\ i - 1 < n
    BY <1>1
  <2> HIDE DEF n
  <2>2. \E d \in Candidates(s) : Cardinality(F(d)) = i - 1
    BY <2>1, Ranks DEF n
  <2> HIDE DEF F
  <2>3. QED
    BY <2>2
<1> HIDE DEF g, l, E, F
<1>4. \A i \in 1..l : g(i) \in Computers /\ s.computers[g(i)].known
  BY <1>3, CandidateSet
<1>5. E \in Seq(Computers) /\ Len(E) = l
  BY <1>1, <1>2, <1>4
<1>6. Different(E)
  <2> SUFFICES ASSUME NEW i \in 1..l, NEW j \in 1..l, i # j
               PROVE  g(i) # g(j)
    BY <1>1, <1>2, <1>5 DEF Different
  <2>1. i - 1 # j - 1
    BY <1>1
  <2>2. QED
    BY <1>3, <2>1
<1>7. \A i \in 1..Len(E) : s.computers[E[i]].known
  BY <1>2, <1>4, <1>5
<1>8. QED
  BY <1>5, <1>6, <1>7 DEF E, l

\* the message of an election
LeadersMessage(t) ==
  [cmd |-> "LOCKLEADERS", election_date |-> t.election_date, leaders |-> Ids(t)]

LEMMA LeadersMessageTypes ==
  ASSUME NEW t, OK(t)
  PROVE  /\ LeadersMessage(t) \in Letter
         /\ LeadersMessage(t).cmd = "LOCKLEADERS"
         /\ LeadersMessage(t).leaders = Ids(t)
<1>1. t.election_date \in Nat
  BY WorkFields DEF OK
<1> DEFINE m == LeadersMessage(t)
<1>2. m \in [cmd : {"LOCKLEADERS"}, election_date : Nat, leaders : Seq(LeaderId)]
  BY <1>1, IdsTypes DEF LeadersMessage
<1>3. m.leaders = Ids(t) /\ m.cmd = "LOCKLEADERS"
  BY DEF LeadersMessage
<1>4. m \in Message
  BY <1>2 DEF Message
<1> HIDE DEF m
<1>5. m \in Letter
  BY <1>3, <1>4, IdsTypes DEF Letter
<1>6. QED
  BY <1>3, <1>5 DEF m

LEMMA ElectOK ==
  ASSUME NEW s, OK(s), NEW c
  PROVE  /\ OK(Elect(c, s))
         /\ Elect(c, s).leaders = Elected(s)
         /\ Elect(c, s).computers = s.computers
         /\ Elect(c, s).neighbors_count = s.neighbors_count
         /\ Elect(c, s).lock_status = s.lock_status
         /\ Elect(c, s).message_cache = s.message_cache
         /\ \E m \in Letter :
              /\ m.cmd = "LOCKLEADERS"
              /\ Len(m.leaders) = Len(Elected(s))
              /\ Elect(c, s).out = Append(s.out, [to |-> Computers, msg |-> m])
<1> DEFINE t == [s EXCEPT !.leaders = Elected(s), !.clock = s.clock + 1,
                          !.election_date = s.clock + 1]
           m == LeadersMessage(t)
<1>1. s \in Work /\ s.clock \in Nat
  BY WorkFields DEF OK
<1>2. Elect(c, s) = Send(t, Computers, m)
  BY <1>1 DEF Elect, LeadersMessage, Work
<1>3. s.clock + 1 \in Nat /\ Elected(s) \in Seq(Computers)
  BY <1>1, ElectedOK
<1>4. /\ t \in Work /\ t.leaders = Elected(s) /\ t.computers = s.computers
      /\ t.neighbors_count = s.neighbors_count /\ t.lock_status = s.lock_status
      /\ t.message_cache = s.message_cache /\ t.out = s.out
  BY <1>1, <1>3 DEF Work
<1> HIDE DEF t
<1>5. OK(t)
  BY <1>1, <1>4, ElectedOK DEF OK, LeadersOK
<1>6. m \in Letter /\ m.cmd = "LOCKLEADERS" /\ m.leaders = Ids(t)
  BY <1>5, LeadersMessageTypes
<1>7. Len(m.leaders) = Len(Elected(s))
  BY <1>4, <1>5, <1>6, IdsTypes
<1> HIDE DEF m
<1>8. /\ OK(Send(t, Computers, m)) /\ SameElectorate(t, Send(t, Computers, m))
      /\ Send(t, Computers, m).lock_status = t.lock_status
      /\ Send(t, Computers, m).message_cache = t.message_cache
      /\ Send(t, Computers, m).out = Append(t.out, [to |-> Computers, msg |-> m])
  BY <1>5, <1>6, SendOK
<1>9. QED
  BY <1>2, <1>4, <1>6, <1>7, <1>8 DEF SameElectorate

LEMMA ElectionOK ==
  ASSUME NEW s, OK(s), NEW c
  PROVE  OK(election_status(c, s))
<1>1. OK(check_lock_status(c, s))
  BY CheckOK
<1>2. OK(Elect(c, s))
  BY ElectOK
<1>3. OK(check_lock_status(c, Elect(c, s)))
  BY <1>2, CheckOK
<1>4. QED
  BY <1>1, <1>3 DEF election_status

(***************************************************************************)
(* The leaders of a message are known once they are set.                   *)
(***************************************************************************)
Names(ids) == \A i, j \in 1..Len(ids) : i # j => ids[i].name # ids[j].name

LEMMA SetLeadersOK ==
  ASSUME NEW s \in Work, NEW ids \in Seq(LeaderId), Names(ids)
  PROVE  /\ OK(set_leaders(s, ids))
         /\ set_leaders(s, ids).neighbors_count = s.neighbors_count
         /\ set_leaders(s, ids).lock_status = s.lock_status
         /\ set_leaders(s, ids).message_cache = s.message_cache
         /\ set_leaders(s, ids).out = s.out
         /\ Len(set_leaders(s, ids).leaders) = Len(ids)
         /\ \A d \in Computers : s.computers[d].known =>
              set_leaders(s, ids).computers[d] = s.computers[d]
<1> DEFINE L == [i \in 1..Len(ids) |-> ids[i].name]
           k(d) == CHOOSE i \in 1..Len(ids) : ids[i].name = d
           new(d) == ~s.computers[d].known /\ \E i \in 1..Len(ids) : ids[i].name = d
           f(d) == IF new(d) THEN Named(ids[k(d)].random) ELSE s.computers[d]
           C == [d \in Computers |-> f(d)]
           t == set_leaders(s, ids)
<1>1. /\ Len(ids) \in Nat
      /\ \A i \in 1..Len(ids) : ids[i].name \in Computers /\ ids[i].random \in Nat
  <2>1. Len(ids) \in Nat /\ \A i \in 1..Len(ids) : ids[i] \in LeaderId
    OBVIOUS
  <2>2. \A x \in LeaderId : x.name \in Computers /\ x.random \in Nat
    BY DEF LeaderId
  <2>3. QED
    BY <2>1, <2>2
<1>2. s.computers \in [Computers -> Computer]
  BY WorkFields
<1>3. t = [s EXCEPT !.leaders = L, !.computers = C]
  BY DEF set_leaders
<1>4. ASSUME NEW d \in Computers
      PROVE  /\ f(d) \in Computer
             /\ s.computers[d].known \/ new(d) => f(d).known
             /\ s.computers[d].known => f(d) = s.computers[d]
  <2>1. CASE new(d)
    <3>1. k(d) \in 1..Len(ids)
      BY <2>1
    <3>2. ids[k(d)].random \in Nat
      BY <1>1, <3>1
    <3> HIDE DEF k
    <3>3. QED
      BY <2>1, <3>2, ComputerTypes
  <2>2. CASE ~new(d)
    BY <1>2, <2>2
  <2>3. QED
    BY <2>1, <2>2
<1>5. L \in Seq(Computers) /\ Len(L) = Len(ids)
      /\ \A i \in 1..Len(ids) : L[i] = ids[i].name
  BY <1>1
<1> HIDE DEF L, f
<1>6. C \in [Computers -> Computer] /\ \A d \in Computers : C[d] = f(d)
  BY <1>4
<1> HIDE DEF C, t
<1>7. /\ t \in Work /\ t.leaders = L /\ t.computers = C
      /\ t.neighbors_count = s.neighbors_count /\ t.lock_status = s.lock_status
      /\ t.message_cache = s.message_cache /\ t.out = s.out
  BY <1>3, <1>5, <1>6 DEF Work
<1>8. Different(L)
  BY <1>5 DEF Different, Names
<1>9. ASSUME NEW i \in 1..Len(L) PROVE C[L[i]].known
  <2>1. L[i] = ids[i].name /\ L[i] \in Computers /\ i \in 1..Len(ids)
    BY <1>1, <1>5
  <2>2. s.computers[L[i]].known \/ new(L[i])
    BY <2>1
  <2>3. f(L[i]).known
    BY <1>4, <2>1, <2>2
  <2>4. QED
    BY <1>6, <2>1, <2>3
<1>10. OK(t)
  BY <1>7, <1>8, <1>9 DEF OK, LeadersOK
<1>11. \A d \in Computers : s.computers[d].known => C[d] = s.computers[d]
  BY <1>4, <1>6
<1>12. QED
  BY <1>5, <1>7, <1>10, <1>11 DEF t

-----------------------------------------------------------------------------
(***************************************************************************)
(* The handlers keep the types and the leaders known.                      *)
(***************************************************************************)
LEMMA LetterFields ==
  ASSUME NEW m \in Letter
  PROVE  /\ m.cmd \in {"CLUSTERUP", "CLUSTERDOWN", "HANGUP", "LOCKLEADERS",
                       "LOCKSTARTED"}
         /\ m.cmd = "CLUSTERUP" => m.neighbors_count \in Nat
         /\ m.cmd = "HANGUP" => m.server_name \in Computers
         /\ m.cmd \in {"LOCKLEADERS", "LOCKSTARTED"} =>
              /\ m.election_date \in Nat
              /\ m.leaders \in Seq(LeaderId)
              /\ Names(m.leaders)
         /\ m.cmd = "LOCKSTARTED" => m.random \in Nat /\ m.starttime \in Nat
<1>1. m \in Message
  BY DEF Letter
<1>2. /\ m.cmd \in {"CLUSTERUP", "CLUSTERDOWN", "HANGUP", "LOCKLEADERS",
                    "LOCKSTARTED"}
      /\ m.cmd = "CLUSTERUP" => m.neighbors_count \in Nat
      /\ m.cmd = "HANGUP" => m.server_name \in Computers
      /\ m.cmd \in {"LOCKLEADERS", "LOCKSTARTED"} =>
              m.election_date \in Nat /\ m.leaders \in Seq(LeaderId)
      /\ m.cmd = "LOCKSTARTED" => m.random \in Nat /\ m.starttime \in Nat
  BY <1>1 DEF Message
<1>3. m.cmd \in {"LOCKLEADERS", "LOCKSTARTED"} => Names(m.leaders)
  BY DEF Letter, Names
<1>4. QED
  BY <1>2, <1>3

\* no leaders, then the leaders are as they should be
LEMMA NoLeaders ==
  ASSUME NEW s \in Work, s.leaders = <<>>
  PROVE  OK(s)
BY DEF OK, LeadersOK, Different

LEMMA SendLockStartedOK ==
  ASSUME NEW s, OK(s), NEW c \in Computers, NEW d \in Computers
  PROVE  /\ OK(send_lockstarted(c, s))
         /\ OK(reply_lockstarted(c, s, d))
<1>1. LockStarted(c, s, TRUE) \in Letter /\ LockStarted(c, s, FALSE) \in Letter
  BY LockStartedTypes
<1>2. {d} \in SUBSET Computers /\ Computers \ {c} \in SUBSET Computers
  OBVIOUS
<1>3. OK(send_lockstarted(c, s))
  BY <1>1, <1>2, SendOK DEF send_lockstarted, SameElectorate
<1>4. OK(reply_lockstarted(c, s, d))
  BY <1>1, <1>2, SendOK DEF reply_lockstarted, SameElectorate
<1>5. QED
  BY <1>3, <1>4

LEMMA ClusterUpOK ==
  ASSUME NEW s, OK(s), NEW c \in Computers, NEW m \in Letter, m.cmd = "CLUSTERUP"
  PROVE  OK(msg_cluster_up(c, s, m))
<1> DEFINE t == [s EXCEPT !.neighbors_count = m.neighbors_count]
<1>1. m.neighbors_count \in Nat /\ s \in Work
  BY LetterFields DEF OK
<1>2. t \in Work /\ t.leaders = s.leaders /\ t.computers = s.computers
  BY <1>1 DEF Work
<1>3. msg_cluster_up(c, s, m) = send_lockstarted(c, election_status(c, t))
  BY DEF msg_cluster_up
<1> HIDE DEF t
<1>4. OK(t)
  BY <1>2 DEF OK, LeadersOK
<1>5. OK(election_status(c, t))
  BY <1>2, <1>4, ElectionOK
<1>6. QED
  BY <1>3, <1>5, SendLockStartedOK

LEMMA ClusterDownOK ==
  ASSUME NEW s, OK(s), NEW c \in Computers
  PROVE  OK(msg_cluster_down(c, s))
<1> DEFINE t == [s EXCEPT !.leaders = <<>>]
<1>1. t \in Work /\ t.leaders = <<>>
  <2> DEFINE none == <<>>
  <2>1. s \in Work /\ none \in Seq(Computers) /\ t = [s EXCEPT !.leaders = none]
    BY DEF OK
  <2> HIDE DEF t, none
  <2>2. t \in Work /\ t.leaders = none
    BY <2>1, SetLeaders
  <2>3. QED
    BY <2>2 DEF none
<1> HIDE DEF t
<1>2. OK(t)
  BY <1>1, NoLeaders
<1>3. msg_cluster_down(c, s) = check_lock_status(c, t)
  BY DEF msg_cluster_down, t
<1>4. QED
  BY <1>1, <1>2, <1>3, CheckOK

LEMMA ServerGoneOK ==
  ASSUME NEW s, OK(s), NEW c \in Computers, NEW m \in Letter, m.cmd = "HANGUP"
  PROVE  OK(msg_server_gone(c, s, m))
<1> DEFINE d == m.server_name
           I == {i \in 1..Len(s.leaders) : s.leaders[i] # d}
           L == Selected(s.leaders, I)
           t == [s EXCEPT !.computers[d] = Unknown, !.leaders = L]
<1>1. d \in Computers /\ s \in Work /\ LeadersOK(s) /\ s.leaders \in Seq(Computers)
      /\ s.computers \in [Computers -> Computer]
  BY LetterFields, WorkFields DEF OK
<1>2. msg_server_gone(c, s, m) \in
        {s, t, check_lock_status(c, election_status(c, t))}
  BY DEF msg_server_gone
<1> HIDE DEF d, L
<1>3. L \in Seq(Computers) /\ \E f : IsSelection(L, s.leaders, I, Len(s.leaders), f)
  BY <1>1, SelectedProperties DEF L
<1>4. PICK f : IsSelection(L, s.leaders, I, Len(s.leaders), f)
  BY <1>3
<1>5. /\ t \in Work /\ t.leaders = L
      /\ \A e \in Computers \ {d} : t.computers[e] = s.computers[e]
  BY <1>1, <1>3, ComputerTypes DEF Work
<1> HIDE DEF t
<1>6. Len(s.leaders) \in Nat /\ Len(L) \in Nat
  BY <1>1, <1>3
<1>7. ASSUME NEW i \in 1..Len(L)
      PROVE  /\ f[i] \in 1..Len(s.leaders) /\ L[i] = s.leaders[f[i]] /\ L[i] # d
             /\ L[i] \in Computers
  BY <1>3, <1>4, <1>7 DEF IsSelection
<1>8. Different(L)
  <2> SUFFICES ASSUME NEW i \in 1..Len(L), NEW j \in 1..Len(L), i # j
               PROVE  L[i] # L[j]
    BY DEF Different
  <2>1. f[i] # f[j]
    <3>1. f[i] \in Nat /\ f[j] \in Nat /\ i \in Nat /\ j \in Nat
      BY <1>6, <1>7
    <3>2. i < j => f[i] < f[j]
      BY <1>4 DEF IsSelection
    <3>3. j < i => f[j] < f[i]
      BY <1>4 DEF IsSelection
    <3>4. QED
      BY <3>1, <3>2, <3>3
  <2>2. QED
    <3>1. Different(s.leaders)
      BY <1>1 DEF LeadersOK
    <3>2. /\ f[i] \in 1..Len(s.leaders) /\ L[i] = s.leaders[f[i]]
          /\ f[j] \in 1..Len(s.leaders) /\ L[j] = s.leaders[f[j]]
      BY <1>7
    <3>3. s.leaders[f[i]] # s.leaders[f[j]]
      BY <2>1, <3>1, <3>2 DEF Different
    <3>4. QED
      BY <3>2, <3>3
<1>9. \A i \in 1..Len(L) : t.computers[L[i]].known
  BY <1>1, <1>5, <1>7 DEF LeadersOK
<1>10. OK(t)
  BY <1>5, <1>8, <1>9 DEF OK, LeadersOK
<1>11. OK(election_status(c, t))
  BY <1>5, <1>10, ElectionOK
<1>12. OK(check_lock_status(c, election_status(c, t)))
  BY <1>11, CheckOK
<1>13. QED
  BY <1>2, <1>5, <1>10, <1>12

LEMMA LockLeadersOK ==
  ASSUME NEW s, OK(s), NEW c \in Computers, NEW m \in Letter, m.cmd = "LOCKLEADERS"
  PROVE  OK(msg_lock_leaders(c, s, m))
<1> DEFINE t == [s EXCEPT !.election_date = m.election_date]
<1>1. s \in Work /\ m.election_date \in Nat /\ m.leaders \in Seq(LeaderId)
      /\ Names(m.leaders)
  BY LetterFields DEF OK
<1>2. t \in Work
  BY <1>1 DEF Work
<1>3. msg_lock_leaders(c, s, m) = check_lock_status(c, set_leaders(t, m.leaders))
  BY DEF msg_lock_leaders
<1> HIDE DEF t
<1>4. OK(set_leaders(t, m.leaders))
  BY <1>1, <1>2, SetLeadersOK
<1>5. QED
  BY <1>3, <1>4, CheckOK

\* the sender of LOCKSTARTED is known, nobody is forgotten
LEMMA MeetOK ==
  ASSUME NEW s, OK(s), NEW d \in Computers, NEW m \in Letter, m.cmd = "LOCKSTARTED"
  PROVE  /\ OK(Meet(s, d, m))
         /\ Meet(s, d, m).leaders = s.leaders
         /\ Meet(s, d, m).neighbors_count = s.neighbors_count
         /\ Meet(s, d, m).election_date = s.election_date
         /\ Meet(s, d, m).lock_status = s.lock_status
         /\ Meet(s, d, m).message_cache = s.message_cache
         /\ Meet(s, d, m).out = s.out
         /\ Meet(s, d, m).computers[d].known /\ Meet(s, d, m).computers[d].connected
         /\ \A e \in Computers \ {d} : Meet(s, d, m).computers[e] = s.computers[e]
<1> DEFINE x == IF s.computers[d].known
                THEN [s.computers[d] EXCEPT !.connected = TRUE, !.start = m.starttime]
                ELSE Heard(m.random, m.starttime)
           t == [s EXCEPT !.computers[d] = x]
<1>1. /\ s \in Work /\ s.computers \in [Computers -> Computer]
      /\ s.leaders \in Seq(Computers)
      /\ m.random \in Nat /\ m.starttime \in Nat
  BY LetterFields, WorkFields DEF OK
<1>2. s.computers[d] \in Computer
  BY <1>1
<1>3. x \in Computer /\ x.known /\ x.connected
  <2>1. CASE s.computers[d].known
    BY <1>1, <1>2, <2>1 DEF Computer
  <2>2. CASE ~s.computers[d].known
    BY <1>1, <2>2, ComputerTypes
  <2>3. QED
    BY <2>1, <2>2
<1>4. Meet(s, d, m) = t
  BY DEF Meet
<1> HIDE DEF x
<1>5. /\ t \in Work /\ t.leaders = s.leaders
      /\ t.neighbors_count = s.neighbors_count /\ t.lock_status = s.lock_status
      /\ t.election_date = s.election_date
      /\ t.message_cache = s.message_cache /\ t.out = s.out
      /\ t.computers[d] = x
      /\ \A e \in Computers \ {d} : t.computers[e] = s.computers[e]
  BY <1>1, <1>3 DEF Work
<1> HIDE DEF t
<1>6. OK(t)
  <2>1. \A i \in 1..Len(s.leaders) : s.leaders[i] \in Computers
    BY <1>1
  <2>2. QED
    BY <1>3, <1>5, <2>1 DEF OK, LeadersOK
<1>7. QED
  BY <1>3, <1>4, <1>5, <1>6

LEMMA NewerOK ==
  ASSUME NEW s, OK(s), NEW m \in Letter, m.cmd = "LOCKSTARTED"
  PROVE  /\ OK(Newer(s, m))
         /\ Newer(s, m).computers = s.computers
         /\ Newer(s, m).neighbors_count = s.neighbors_count
         /\ Newer(s, m).lock_status = s.lock_status
         /\ Newer(s, m).message_cache = s.message_cache
         /\ Newer(s, m).out = s.out
         /\ \/ Newer(s, m).leaders = s.leaders
            \/ Newer(s, m).leaders = <<>> /\ m.election_date > 0
<1> DEFINE t == [s EXCEPT !.election_date = m.election_date, !.leaders = <<>>]
<1>1. s \in Work /\ m.election_date \in Nat /\ s.election_date \in Nat
  BY LetterFields, WorkFields DEF OK
<1>2. /\ t \in Work /\ t.leaders = <<>> /\ t.computers = s.computers
      /\ t.neighbors_count = s.neighbors_count /\ t.lock_status = s.lock_status
      /\ t.message_cache = s.message_cache /\ t.out = s.out
  <2> DEFINE none == <<>>
  <2>1. /\ none \in Seq(Computers)
        /\ t = [s EXCEPT !.election_date = m.election_date, !.leaders = none]
    OBVIOUS
  <2> HIDE DEF t, none
  <2>2. /\ t \in Work /\ t.leaders = none /\ t.computers = s.computers
        /\ t.neighbors_count = s.neighbors_count /\ t.lock_status = s.lock_status
        /\ t.message_cache = s.message_cache /\ t.out = s.out
    BY <1>1, <2>1 DEF Work
  <2>3. QED
    BY <2>2 DEF none
<1>3. Newer(s, m) = IF m.election_date > s.election_date THEN t ELSE s
  BY DEF Newer
<1> HIDE DEF t
<1>4. OK(t)
  BY <1>2, NoLeaders
<1>5. CASE m.election_date > s.election_date
  <2>1. m.election_date > 0
    BY <1>1, <1>5
  <2>2. QED
    BY <1>2, <1>3, <1>4, <1>5, <2>1
<1>6. CASE ~(m.election_date > s.election_date)
  BY <1>3, <1>6
<1>7. QED
  BY <1>5, <1>6

\* the computers and leaders after the first half of msg_lock_started()
Learned(s, d, m) ==
  LET t == Newer(Meet(s, d, m), m)
  IN  IF t.leaders = <<>> THEN set_leaders(t, m.leaders) ELSE t

LEMMA LearnedOK ==
  ASSUME NEW s, OK(s), NEW d \in Computers, NEW m \in Letter, m.cmd = "LOCKSTARTED"
  PROVE  OK(Learned(s, d, m))
<1> DEFINE t == Newer(Meet(s, d, m), m)
<1>1. OK(t)
  BY MeetOK, NewerOK
<1>2. Learned(s, d, m) = IF t.leaders = <<>> THEN set_leaders(t, m.leaders) ELSE t
  BY DEF Learned
<1> HIDE DEF t
<1>3. m.leaders \in Seq(LeaderId) /\ Names(m.leaders) /\ t \in Work
  BY <1>1, LetterFields DEF OK
<1>4. OK(set_leaders(t, m.leaders))
  BY <1>3, SetLeadersOK
<1>5. QED
  BY <1>1, <1>2, <1>4

LEMMA StartedIs ==
  ASSUME NEW c, NEW s, NEW d, NEW m
  PROVE  msg_lock_started(c, s, d, m) =
           IF NewComputer(s, d, m)
           THEN reply_lockstarted(c, election_status(c, Learned(s, d, m)), d)
           ELSE election_status(c, Learned(s, d, m))
BY DEF msg_lock_started, Learned

LEMMA LockStartedOK ==
  ASSUME NEW s, OK(s), NEW c \in Computers, NEW d \in Computers,
         NEW m \in Letter, m.cmd = "LOCKSTARTED"
  PROVE  OK(msg_lock_started(c, s, d, m))
<1>1. OK(election_status(c, Learned(s, d, m)))
  BY LearnedOK, ElectionOK
<1>2. OK(reply_lockstarted(c, election_status(c, Learned(s, d, m)), d))
  BY <1>1, SendLockStartedOK
<1>3. QED
  BY <1>1, <1>2, StartedIs

LEMMA LockOK ==
  ASSUME NEW s, OK(s), NEW c \in Computers, NEW r \in Requests
  PROVE  OK(msg_lock(c, s, r))
<1> DEFINE t == AfterIsReady(c, s)
           u == [s EXCEPT !.handed = s.handed \cup {r}]
           v == [t EXCEPT !.message_cache = t.message_cache \cup {r}]
<1>1. OK(t)
  BY AfterIsReadyOK
<1>2. msg_lock(c, s, r) = IF is_ready(s) THEN u ELSE v
  BY <1>1 DEF msg_lock, OK, Work
<1> HIDE DEF t
<1>3. u \in Work /\ u.leaders = s.leaders /\ u.computers = s.computers
  BY DEF OK, Work
<1>4. v \in Work /\ v.leaders = t.leaders /\ v.computers = t.computers
  BY <1>1 DEF OK, Work
<1> HIDE DEF u, v
<1>5. OK(u)
  BY <1>3 DEF OK, LeadersOK
<1>6. OK(v)
  BY <1>1, <1>4 DEF OK, LeadersOK
<1>7. QED
  BY <1>2, <1>5, <1>6

LEMMA HandleOK ==
  ASSUME NEW s, OK(s), NEW c \in Computers, NEW d \in Computers, NEW m \in Letter
  PROVE  OK(Handle(c, s, d, m))
<1>1. CASE m.cmd = "CLUSTERUP"
  BY <1>1, ClusterUpOK DEF Handle
<1>2. CASE m.cmd = "CLUSTERDOWN"
  <2>1. Handle(c, s, d, m) = msg_cluster_down(c, s)
    BY <1>2 DEF Handle
  <2>2. QED
    BY <2>1, ClusterDownOK
<1>3. CASE m.cmd = "HANGUP"
  <2>1. Handle(c, s, d, m) = msg_server_gone(c, s, m)
    BY <1>3 DEF Handle
  <2>2. QED
    BY <1>3, <2>1, ServerGoneOK
<1>4. CASE m.cmd = "LOCKLEADERS"
  <2>1. Handle(c, s, d, m) = msg_lock_leaders(c, s, m)
    BY <1>4 DEF Handle
  <2>2. QED
    BY <1>4, <2>1, LockLeadersOK
<1>5. CASE m.cmd = "LOCKSTARTED"
  <2>1. Handle(c, s, d, m) = msg_lock_started(c, s, d, m)
    BY <1>5 DEF Handle
  <2>2. QED
    BY <1>5, <2>1, LockStartedOK
<1>6. QED
  BY <1>1, <1>2, <1>3, <1>4, <1>5, LetterFields

-----------------------------------------------------------------------------
(***************************************************************************)
(* What the daemon of c sent reaches d as it was sent.                     *)
(***************************************************************************)
LEMMA SentTypes ==
  ASSUME NEW c, NEW d, NEW out \in Seq(Post)
  PROVE  /\ Sent(c, d, out) \in Seq(Letter)
         /\ \A i \in 1..Len(Sent(c, d, out)) : \E j \in 1..Len(out) :
              d \in out[j].to /\ Sent(c, d, out)[i] = out[j].msg
<1> DEFINE I == {i \in 1..Len(out) : d \in out[i].to /\ Reaches(c, d, out[i].msg)}
           msgs == [i \in 1..Len(out) |-> out[i].msg]
           S == Sent(c, d, out)
<1>1. S = Selected(msgs, I)
  BY DEF Sent
<1>2. Len(out) \in Nat /\ \A i \in 1..Len(out) : out[i].msg \in Letter
  <2>1. Len(out) \in Nat /\ \A i \in 1..Len(out) : out[i] \in Post
    OBVIOUS
  <2>2. QED
    BY <2>1 DEF Post
<1>3. msgs \in Seq(Letter) /\ Len(msgs) = Len(out)
  BY <1>2
<1> HIDE DEF S, msgs
<1>4. S \in Seq(Letter) /\ \E f : IsSelection(S, msgs, I, Len(out), f)
  BY <1>1, <1>3, SelectedProperties
<1>5. PICK f : IsSelection(S, msgs, I, Len(out), f)
  BY <1>4
<1>6. ASSUME NEW i \in 1..Len(S)
      PROVE  \E j \in 1..Len(out) : d \in out[j].to /\ S[i] = out[j].msg
  <2>1. f[i] \in 1..Len(out) /\ f[i] \in I /\ S[i] = msgs[f[i]]
    BY <1>5 DEF IsSelection
  <2>2. QED
    BY <2>1 DEF msgs
<1>7. QED
  BY <1>4, <1>6 DEF S

LEMMA RunOK ==
  ASSUME TypeOK, KnownInv, NEW c \in Computers
  PROVE  /\ OK(Run(c))
         /\ Run(c).neighbors_count = node[c].neighbors_count
         /\ Run(c).leaders = node[c].leaders
         /\ Run(c).computers = node[c].computers
         /\ Run(c).lock_status = node[c].lock_status
         /\ Run(c).message_cache = node[c].message_cache
         /\ Run(c).out = <<>>
<1>1. node[c] \in Daemon /\ clock \in Nat /\ LeadersOK(node[c])
  BY DEF TypeOK, KnownInv
<1>2. <<>> \in Seq(Post) /\ {} \in SUBSET Requests
  OBVIOUS
<1>3. Run(c) \in Work
  BY <1>1, <1>2, DaemonFields DEF Run, Work
<1>4. QED
  BY <1>1, <1>3 DEF OK, LeadersOK, Run

LEMMA FinishOK ==
  ASSUME TypeOK, KnownInv, NEW c \in Computers, NEW s, OK(s), Finish(c, s)
  PROVE  /\ node' \in [Computers -> Daemon]
         /\ KnownInv'
         /\ clock' \in Nat
         /\ request' \in [Requests -> {"new", "cached", "handed", "failed", "lost"}]
         /\ \A d \in Computers \ {c} : node'[d] = node[d]
         /\ node'[c].neighbors_count = s.neighbors_count
         /\ node'[c].leaders = s.leaders
         /\ node'[c].computers = s.computers
         /\ node'[c].lock_status = s.lock_status
         /\ node'[c].message_cache = s.message_cache
<1> DEFINE x == [ up |-> s.up, start |-> s.start, random |-> s.random,
         neighbors_count |-> s.neighbors_count, computers |-> s.computers,
         leaders |-> s.leaders, election_date |-> s.election_date,
         lock_status |-> s.lock_status, paced |-> s.paced,
         message_cache |-> s.message_cache ]
<1>1. node' = [node EXCEPT ![c] = x] /\ clock' = s.clock
  BY DEF Finish
<1>2. x \in Daemon
  BY WorkFields DEF OK, Daemon
<1>3. /\ x.leaders = s.leaders /\ x.computers = s.computers
      /\ x.neighbors_count = s.neighbors_count /\ x.lock_status = s.lock_status
      /\ x.message_cache = s.message_cache
  OBVIOUS
<1> HIDE DEF x
<1>4. /\ node' \in [Computers -> Daemon] /\ node'[c] = x
      /\ \A d \in Computers \ {c} : node'[d] = node[d]
  BY <1>1, <1>2 DEF TypeOK
<1>5. \A d \in Computers : LeadersOK(node'[d])
  BY <1>3, <1>4 DEF OK, LeadersOK, KnownInv
<1>6. KnownInv'
  BY <1>5 DEF KnownInv, LeadersOK, Different
<1>7. clock' \in Nat
  BY <1>1, WorkFields DEF OK
<1>8. request' \in [Requests -> {"new", "cached", "handed", "failed", "lost"}]
  BY DEF Finish, TypeOK
<1>9. QED
  BY <1>3, <1>4, <1>6, <1>7, <1>8

-----------------------------------------------------------------------------
(***************************************************************************)
(* The queues.                                                             *)
(***************************************************************************)
In(q, m) == \E i \in 1..Len(q) : q[i] = m

LEMMA QueueTail ==
  ASSUME NEW q \in Seq(Letter), q # <<>>
  PROVE  /\ Tail(q) \in Seq(Letter) /\ Head(q) \in Letter /\ In(q, Head(q))
         /\ \A m : In(Tail(q), m) => In(q, m)
<1>1. Len(q) \in Nat /\ Len(q) # 0 /\ 1 \in 1..Len(q) /\ Head(q) = q[1]
  OBVIOUS
<1>2. Tail(q) \in Seq(Letter) /\ Len(Tail(q)) = Len(q) - 1
  BY <1>1
<1>3. \A i \in 1..Len(Tail(q)) : Tail(q)[i] = q[i + 1] /\ i + 1 \in 1..Len(q)
  BY <1>1, <1>2
<1>4. QED
  BY <1>1, <1>2, <1>3 DEF In

LEMMA QueueConcat ==
  ASSUME NEW q \in Seq(Letter), NEW r \in Seq(Letter)
  PROVE  /\ q \o r \in Seq(Letter)
         /\ \A m : In(q \o r, m) => In(q, m) \/ In(r, m)
<1>1. /\ q \o r \in Seq(Letter) /\ Len(q) \in Nat /\ Len(r) \in Nat
      /\ Len(q \o r) = Len(q) + Len(r)
      /\ \A i \in 1..(Len(q) + Len(r)) :
           (q \o r)[i] = IF i <= Len(q) THEN q[i] ELSE r[i - Len(q)]
  OBVIOUS
<1>2. ASSUME NEW m, NEW i \in 1..Len(q \o r), (q \o r)[i] = m
      PROVE  In(q, m) \/ In(r, m)
  <2>1. CASE i <= Len(q)
    BY <1>1, <1>2, <2>1 DEF In
  <2>2. CASE ~(i <= Len(q))
    <3>1. i - Len(q) \in 1..Len(r) /\ r[i - Len(q)] = m
      BY <1>1, <1>2, <2>2
    <3>2. QED
      BY <3>1 DEF In
  <2>3. QED
    BY <2>1, <2>2
<1>3. QED
  BY <1>1, <1>2 DEF In

LEMMA QueueAppend ==
  ASSUME NEW q \in Seq(Letter), NEW x \in Letter
  PROVE  /\ Append(q, x) \in Seq(Letter)
         /\ \A m : In(Append(q, x), m) => In(q, m) \/ m = x
<1>1. /\ Append(q, x) \in Seq(Letter) /\ Len(q) \in Nat
      /\ Len(Append(q, x)) = Len(q) + 1
      /\ \A i \in 1..Len(q) : Append(q, x)[i] = q[i]
      /\ Append(q, x)[Len(q) + 1] = x
  OBVIOUS
<1>2. \A i \in 1..(Len(q) + 1) : i \in 1..Len(q) \/ i = Len(q) + 1
  BY <1>1
<1>3. QED
  BY <1>1, <1>2 DEF In

LEMMA QueueSelected ==
  ASSUME NEW q \in Seq(Letter), NEW I
  PROVE  /\ Selected(q, I) \in Seq(Letter)
         /\ \A m : In(Selected(q, I), m) => In(q, m)
<1> DEFINE S == Selected(q, I)
<1>1. S \in Seq(Letter) /\ \E f : IsSelection(S, q, I, Len(q), f)
  BY SelectedProperties
<1> HIDE DEF S
<1>2. PICK f : IsSelection(S, q, I, Len(q), f)
  BY <1>1
<1>3. \A i \in 1..Len(S) : f[i] \in 1..Len(q) /\ S[i] = q[f[i]]
  BY <1>2 DEF IsSelection
<1>4. \A m : In(S, m) => In(q, m)
  BY <1>3 DEF In
<1>5. QED
  BY <1>1, <1>4 DEF S

LEMMA NoMail ==
  /\ <<>> \in Seq(Letter)
  /\ \A m : ~In(<<>>, m)
BY DEF In

\* one message more in the queue of c to itself
ToSelf(n, c, x) == [n EXCEPT ![c][c] = Append(n[c][c], x)]

\* in the queues w is what was in n, and x in that of c to itself
Joined(w, n, c, x) ==
  \A a, b \in Computers : \A m :
    In(w[a][b], m) => In(n[a][b], m) \/ (a = c /\ b = c /\ m = x)

LEMMA OneMore ==
  ASSUME NEW n \in Mail, NEW c \in Computers, NEW x \in Letter,
         NEW w, w = ToSelf(n, c, x)
  PROVE  w \in Mail /\ Joined(w, n, c, x)
<1>1. n[c] \in [Computers -> Seq(Letter)] /\ n[c][c] \in Seq(Letter)
  BY DEF Mail
<1> DEFINE q == Append(n[c][c], x)
<1>2. q \in Seq(Letter) /\ \A m : In(q, m) => In(n[c][c], m) \/ m = x
  BY <1>1, QueueAppend
<1> HIDE DEF q
<1>3. w = [n EXCEPT ![c][c] = q]
  BY DEF q, ToSelf
<1>4. w \in Mail
  BY <1>1, <1>2, <1>3 DEF Mail
<1>5. /\ w[c][c] = q
      /\ \A a, b \in Computers : ~(a = c /\ b = c) => w[a][b] = n[a][b]
  BY <1>2, <1>3 DEF Mail
<1>6. QED
  BY <1>2, <1>4, <1>5 DEF Joined

\* the queues of c after a handler
PostedBy(n, c, out) ==
  [n EXCEPT ![c] = [e \in Computers |-> n[c][e] \o Sent(c, e, out)]]

\* in the queues w is what was in n, and what the daemon of c sent
Reached(w, n, c, out) ==
  \A a, b \in Computers : \A m : In(w[a][b], m) =>
    \/ In(n[a][b], m)
    \/ a = c /\ \E j \in 1..Len(out) : b \in out[j].to /\ m = out[j].msg

LEMMA Posted ==
  ASSUME NEW n \in Mail, NEW c \in Computers, NEW out \in Seq(Post),
         NEW w, w = PostedBy(n, c, out)
  PROVE  w \in Mail /\ Reached(w, n, c, out)
<1> DEFINE f == [e \in Computers |-> n[c][e] \o Sent(c, e, out)]
<1>1. ASSUME NEW e \in Computers
      PROVE  /\ f[e] \in Seq(Letter)
             /\ \A m : In(f[e], m) =>
                  In(n[c][e], m) \/ \E j \in 1..Len(out) : e \in out[j].to /\ m = out[j].msg
  <2> DEFINE S == Sent(c, e, out)
  <2>1. /\ n[c][e] \in Seq(Letter) /\ S \in Seq(Letter)
        /\ \A i \in 1..Len(S) : \E j \in 1..Len(out) :
              e \in out[j].to /\ S[i] = out[j].msg
    BY SentTypes DEF Mail
  <2>2. f[e] = n[c][e] \o S
    OBVIOUS
  <2> HIDE DEF S, f
  <2>3. \A m : In(S, m) => \E j \in 1..Len(out) : e \in out[j].to /\ m = out[j].msg
    BY <2>1 DEF In
  <2>4. /\ n[c][e] \o S \in Seq(Letter)
        /\ \A m : In(n[c][e] \o S, m) => In(n[c][e], m) \/ In(S, m)
    BY <2>1, QueueConcat
  <2>5. QED
    BY <2>2, <2>3, <2>4
<1>2. f = [e \in Computers |-> f[e]] /\ w = [n EXCEPT ![c] = f]
  BY DEF PostedBy
<1> HIDE DEF f
<1>3. f \in [Computers -> Seq(Letter)]
  BY <1>1, <1>2
<1>4. w \in Mail
  BY <1>2, <1>3 DEF Mail
<1>5. \A a, b \in Computers : w[a][b] = IF a = c THEN f[b] ELSE n[a][b]
  BY <1>2 DEF Mail
<1>6. ASSUME NEW a \in Computers, NEW b \in Computers, NEW m, In(w[a][b], m)
      PROVE  \/ In(n[a][b], m)
             \/ a = c /\ \E j \in 1..Len(out) : b \in out[j].to /\ m = out[j].msg
  <2>1. CASE a = c
    <3>1. w[a][b] = f[b]
      BY <1>5, <2>1
    <3>2. In(f[b], m)
      BY <1>6, <3>1
    <3> DEFINE told(e, x) == \E j \in 1..Len(out) : e \in out[j].to /\ x = out[j].msg
    <3>3. In(n[c][b], m) \/ told(b, m)
      <4>1. \A e \in Computers : \A x : In(f[e], x) => In(n[c][e], x) \/ told(e, x)
        BY <1>1
      <4> HIDE DEF told
      <4>2. QED
        BY <3>2, <4>1
    <3>4. QED
      BY <2>1, <3>3
  <2>2. CASE a # c
    BY <1>5, <1>6, <2>2
  <2>3. QED
    BY <2>1, <2>2
<1>7. QED
  BY <1>4, <1>6 DEF Reached

\* c takes the first message of d
TakenBy(n, c, d) == [n EXCEPT ![d][c] = Tail(n[d][c])]

LEMMA Taken ==
  ASSUME NEW n \in Mail, NEW c \in Computers, NEW d \in Computers, n[d][c] # <<>>,
         NEW w, w = TakenBy(n, c, d)
  PROVE  /\ w \in Mail /\ Head(n[d][c]) \in Letter /\ In(n[d][c], Head(n[d][c]))
         /\ \A a, b \in Computers : \A m : In(w[a][b], m) => In(n[a][b], m)
<1>1. n[d] \in [Computers -> Seq(Letter)] /\ n[d][c] \in Seq(Letter)
  BY DEF Mail
<1> DEFINE q == Tail(n[d][c])
<1>2. /\ q \in Seq(Letter) /\ Head(n[d][c]) \in Letter /\ In(n[d][c], Head(n[d][c]))
      /\ \A m : In(q, m) => In(n[d][c], m)
  BY <1>1, QueueTail
<1>3. w = [n EXCEPT ![d][c] = q]
  BY DEF TakenBy
<1> HIDE DEF q
<1>4. w \in Mail
  BY <1>1, <1>2, <1>3 DEF Mail
<1>5. /\ w[d][c] = q
      /\ \A a, b \in Computers : ~(a = d /\ b = c) => w[a][b] = n[a][b]
  BY <1>2, <1>3 DEF Mail
<1>6. QED
  BY <1>2, <1>4, <1>5

-----------------------------------------------------------------------------
(***************************************************************************)
(* The actions.                                                            *)
(***************************************************************************)
ElectionInv == TypeOK /\ LetterInv /\ KnownInv

LEMMA MailTypes ==
  ASSUME NEW n \in Mail
  PROVE  n \in [Computers -> [Computers -> Seq(Message)]]
<1>1. Letter \subseteq Message
  BY DEF Letter
<1>2. \A q \in Seq(Letter) : q \in Seq(Message)
  BY <1>1
<1>3. QED
  BY <1>2 DEF Mail

LEMMA ReceiveEffect ==
  ASSUME ElectionInv, NEW c \in Computers, NEW d \in Computers, Receive(c, d)
  PROVE  LET m == Head(net[d][c])
             s == Handle(c, Run(c), d, m)
         IN  /\ m \in Letter /\ In(net[d][c], m) /\ OK(s) /\ Finish(c, s)
             /\ net' \in Mail /\ Reached(net', net, c, s.out)
<1> DEFINE m == Head(net[d][c])
           s == Handle(c, Run(c), d, m)
           after == TakenBy(net, c, d)
<1>1. net[d][c] # <<>> /\ Finish(c, s) /\ net' = PostedBy(after, c, s.out)
  <2>1. net[d][c] # <<>> /\ Finish(c, s)
    BY DEF Receive
  <2>2. net' = PostedBy(after, c, s.out)
    BY DEF Receive, TakenBy, PostedBy
  <2>3. QED
    BY <2>1, <2>2
<1>2. net \in Mail /\ OK(Run(c))
  BY RunOK DEF ElectionInv, LetterInv
<1>3. /\ after \in Mail /\ m \in Letter /\ In(net[d][c], m)
      /\ \A a, b \in Computers : \A x : In(after[a][b], x) => In(net[a][b], x)
  BY <1>1, <1>2, Taken
<1> HIDE DEF m, after
<1>4. OK(s)
  BY <1>2, <1>3, HandleOK
<1> HIDE DEF s
<1>5. s.out \in Seq(Post)
  BY <1>4, WorkFields DEF OK
<1>6. net' \in Mail /\ Reached(net', after, c, s.out)
  BY <1>1, <1>3, <1>5, Posted
<1>7. Reached(net', net, c, s.out)
  BY <1>3, <1>6 DEF Reached
<1>8. QED
  BY <1>1, <1>3, <1>4, <1>6, <1>7 DEF m, s

LEMMA LockEffect ==
  ASSUME ElectionInv, NEW r \in Requests, Lock(r)
  PROVE  LET c == At[r]
             s == msg_lock(c, Run(c), r)
         IN  /\ c \in Computers /\ OK(s) /\ Finish(c, s)
             /\ net' \in Mail /\ Reached(net', net, c, s.out)
<1> DEFINE c == At[r]
           s == msg_lock(c, Run(c), r)
<1>1. c \in Computers
  BY ElectionAssumption
<1>2. Finish(c, s) /\ net' = PostedBy(net, c, s.out)
  BY DEF Lock, PostedBy
<1> HIDE DEF c
<1>3. net \in Mail /\ OK(Run(c))
  BY <1>1, RunOK DEF ElectionInv, LetterInv
<1>4. OK(s)
  BY <1>1, <1>3, LockOK
<1> HIDE DEF s
<1>5. s.out \in Seq(Post)
  BY <1>4, WorkFields DEF OK
<1>6. net' \in Mail /\ Reached(net', net, c, s.out)
  BY <1>1, <1>2, <1>3, <1>5, Posted
<1>7. QED
  BY <1>1, <1>2, <1>4, <1>6 DEF c, s

\* the messages of a snapcommunicator to its snaplock
LEMMA ClusterLetters ==
  /\ Total \in Nat
  /\ \A n : /\ ClusterMessage(n) \in Letter
            /\ ClusterMessage(n).cmd \in {"CLUSTERUP", "CLUSTERDOWN"}
            /\ ClusterMessage(n).cmd = "CLUSTERUP" =>
                 ClusterMessage(n).neighbors_count = Total
  /\ \A d \in Computers : [cmd |-> "HANGUP", server_name |-> d] \in Letter
<1>1. Total \in Nat
  BY CandidateSet
<1>2. ASSUME NEW n
      PROVE  /\ ClusterMessage(n) \in Letter
             /\ ClusterMessage(n).cmd \in {"CLUSTERUP", "CLUSTERDOWN"}
             /\ ClusterMessage(n).cmd = "CLUSTERUP" =>
                  ClusterMessage(n).neighbors_count = Total
  <2> DEFINE u == [cmd |-> "CLUSTERUP", neighbors_count |-> Total]
             v == [cmd |-> "CLUSTERDOWN"]
  <2>1. u \in Letter /\ u.cmd = "CLUSTERUP" /\ u.neighbors_count = Total
    BY <1>1 DEF Letter, Message
  <2>2. v \in Letter /\ v.cmd = "CLUSTERDOWN"
    BY DEF Letter, Message
  <2>3. ClusterMessage(n) = u \/ ClusterMessage(n) = v
    BY DEF ClusterMessage
  <2> HIDE DEF u, v
  <2>4. QED
    BY <2>1, <2>2, <2>3
<1>3. ASSUME NEW d \in Computers
      PROVE  [cmd |-> "HANGUP", server_name |-> d] \in Letter
  <2> DEFINE u == [cmd |-> "HANGUP", server_name |-> d]
  <2>1. u \in [cmd : {"HANGUP"}, server_name : Computers] /\ u.cmd = "HANGUP"
    OBVIOUS
  <2> HIDE DEF u
  <2>2. u \in Message
    BY <2>1 DEF Message
  <2>3. u \in Letter
    BY <2>1, <2>2 DEF Letter
  <2>4. QED
    BY <2>3 DEF u
<1>4. QED
  BY <1>1, <1>2, <1>3

LEMMA InitInv == Init => ElectionInv
<1> SUFFICES ASSUME Init PROVE ElectionInv
  OBVIOUS
<1> DEFINE x == [ up |-> FALSE, start |-> 0, random |-> 0, neighbors_count |-> 0,
         computers |-> [d \in Computers |-> Unknown], leaders |-> <<>>,
         election_date |-> 0, lock_status |-> "NOLOCK", paced |-> FALSE,
         message_cache |-> {} ]
<1>1. node = [c \in Computers |-> x]
  BY DEF Init
<1>2. x \in Daemon /\ x.leaders = <<>>
  <2>1. <<>> \in Seq(Computers) /\ [d \in Computers |-> Unknown] \in [Computers -> Computer]
    BY ComputerTypes
  <2>2. QED
    BY <2>1 DEF Daemon
<1> HIDE DEF x
<1>3. node \in [Computers -> Daemon]
  BY <1>1, <1>2
<1>4. KnownInv
  BY <1>1, <1>2 DEF KnownInv, LeadersOK, Different
<1>5. net \in Mail
  BY NoMail DEF Init, Mail
<1>6. cluster \in [Computers -> {"CLUSTERUP", "CLUSTERDOWN"}]
  BY ClusterLetters DEF Init
<1>7. TypeOK
  BY <1>3, <1>5, <1>6, MailTypes DEF TypeOK, Init
<1>8. QED
  BY <1>4, <1>5, <1>7 DEF ElectionInv, LetterInv

\* the rest of the state is as before
LEMMA HandlerInv ==
  ASSUME ElectionInv, NEW c \in Computers, NEW s, OK(s), Finish(c, s), net' \in Mail,
         UNCHANGED <<links, f_connected, cluster, crashes, hangups>>
  PROVE  ElectionInv'
<1>1. /\ node' \in [Computers -> Daemon] /\ KnownInv' /\ clock' \in Nat
      /\ request' \in [Requests -> {"new", "cached", "handed", "failed", "lost"}]
  BY FinishOK DEF ElectionInv
<1>2. net' \in [Computers -> [Computers -> Seq(Message)]]
  BY MailTypes
<1>3. TypeOK'
  BY <1>1, <1>2 DEF ElectionInv, TypeOK
<1>4. QED
  BY <1>1, <1>3 DEF ElectionInv, LetterInv

LEMMA ReceiveInv ==
  ASSUME ElectionInv, NEW c \in Computers, NEW d \in Computers, Receive(c, d)
  PROVE  ElectionInv'
<1> DEFINE s == Handle(c, Run(c), d, Head(net[d][c]))
<1>1. OK(s) /\ Finish(c, s) /\ net' \in Mail
  BY ReceiveEffect
<1>2. UNCHANGED <<links, f_connected, cluster, crashes, hangups>>
  BY DEF Receive
<1> HIDE DEF s
<1>3. QED
  BY <1>1, <1>2, HandlerInv

LEMMA LockInv ==
  ASSUME ElectionInv, NEW r \in Requests, Lock(r)
  PROVE  ElectionInv'
<1> DEFINE c == At[r]
           s == msg_lock(c, Run(c), r)
<1>1. c \in Computers /\ OK(s) /\ Finish(c, s) /\ net' \in Mail
  BY LockEffect
<1>2. UNCHANGED <<links, f_connected, cluster, crashes, hangups>>
  BY DEF Lock
<1> HIDE DEF c, s
<1>3. QED
  BY <1>1, <1>2, HandlerInv

\* a step that changes the daemon of c only
LEMMA NodeInv ==
  ASSUME ElectionInv, NEW c \in Computers, NEW x \in Daemon, LeadersOK(x),
         node' = [node EXCEPT ![c] = x]
  PROVE  /\ node' \in [Computers -> Daemon] /\ KnownInv'
         /\ node'[c] = x /\ \A d \in Computers \ {c} : node'[d] = node[d]
<1>1. /\ node' \in [Computers -> Daemon] /\ node'[c] = x
      /\ \A d \in Computers \ {c} : node'[d] = node[d]
  BY DEF ElectionInv, TypeOK
<1>2. \A d \in Computers : LeadersOK(node'[d])
  BY <1>1 DEF ElectionInv, KnownInv
<1>3. KnownInv'
  BY <1>2 DEF KnownInv, LeadersOK, Different
<1>4. QED
  BY <1>1, <1>3

LEMMA CleanupEffect ==
  ASSUME ElectionInv, NEW r \in Requests, Cleanup(r)
  PROVE  LET c == At[r]
             x == [node[c] EXCEPT !.message_cache = node[c].message_cache \ {r}]
         IN  /\ c \in Computers /\ x \in Daemon /\ LeadersOK(x)
             /\ node' = [node EXCEPT ![c] = x]
             /\ x.leaders = node[c].leaders /\ x.computers = node[c].computers
             /\ x.neighbors_count = node[c].neighbors_count
             /\ x.lock_status = node[c].lock_status /\ x.up = node[c].up
             /\ x.message_cache \subseteq node[c].message_cache
<1> DEFINE c == At[r]
           x == [node[c] EXCEPT !.message_cache = node[c].message_cache \ {r}]
<1>1. c \in Computers
  BY ElectionAssumption
<1>2. node' = [node EXCEPT ![c] = x]
  BY DEF Cleanup
<1> HIDE DEF c
<1>3. node[c] \in Daemon /\ LeadersOK(node[c])
  BY <1>1 DEF ElectionInv, TypeOK, KnownInv
<1>4. /\ x \in Daemon
      /\ x.leaders = node[c].leaders /\ x.computers = node[c].computers
      /\ x.neighbors_count = node[c].neighbors_count
      /\ x.lock_status = node[c].lock_status /\ x.up = node[c].up
      /\ x.message_cache = node[c].message_cache \ {r}
  BY <1>3 DEF Daemon
<1>5. LeadersOK(x)
  BY <1>3, <1>4 DEF LeadersOK
<1>6. QED
  BY <1>1, <1>2, <1>4, <1>5 DEF c

LEMMA CleanupInv ==
  ASSUME ElectionInv, NEW r \in Requests, Cleanup(r)
  PROVE  ElectionInv'
<1> DEFINE c == At[r]
           x == [node[c] EXCEPT !.message_cache = node[c].message_cache \ {r}]
<1>1. c \in Computers /\ x \in Daemon /\ LeadersOK(x) /\ node' = [node EXCEPT ![c] = x]
  BY CleanupEffect
<1> HIDE DEF c, x
<1>2. node' \in [Computers -> Daemon] /\ KnownInv'
  BY <1>1, NodeInv
<1>3. request' \in [Requests -> {"new", "cached", "handed", "failed", "lost"}]
  BY DEF Cleanup, ElectionInv, TypeOK
<1>4. UNCHANGED <<net, links, f_connected, cluster, clock, crashes, hangups>>
  BY DEF Cleanup
<1>5. QED
  BY <1>2, <1>3, <1>4 DEF ElectionInv, TypeOK, LetterInv

LEMMA PaceEffect ==
  ASSUME ElectionInv, NEW c \in Computers, Pace(c)
  PROVE  LET x == [node[c] EXCEPT !.paced = FALSE]
         IN  /\ x \in Daemon /\ LeadersOK(x)
             /\ node' = [node EXCEPT ![c] = x]
             /\ x.leaders = node[c].leaders /\ x.computers = node[c].computers
             /\ x.neighbors_count = node[c].neighbors_count
             /\ x.lock_status = node[c].lock_status /\ x.up = node[c].up
             /\ x.message_cache = node[c].message_cache
<1> DEFINE x == [node[c] EXCEPT !.paced = FALSE]
<1>1. node' = [node EXCEPT ![c] = x]
  BY DEF Pace
<1>2. node[c] \in Daemon /\ LeadersOK(node[c])
  BY DEF ElectionInv, TypeOK, KnownInv
<1>3. /\ x \in Daemon
      /\ x.leaders = node[c].leaders /\ x.computers = node[c].computers
      /\ x.neighbors_count = node[c].neighbors_count
      /\ x.lock_status = node[c].lock_status /\ x.up = node[c].up
      /\ x.message_cache = node[c].message_cache
  BY <1>2 DEF Daemon
<1>4. LeadersOK(x)
  BY <1>2, <1>3 DEF LeadersOK
<1>5. QED
  BY <1>1, <1>3, <1>4

LEMMA PaceInv ==
  ASSUME ElectionInv, NEW c \in Computers, Pace(c)
  PROVE  ElectionInv'
<1> DEFINE x == [node[c] EXCEPT !.paced = FALSE]
<1>1. x \in Daemon /\ LeadersOK(x) /\ node' = [node EXCEPT ![c] = x]
  BY PaceEffect
<1> HIDE DEF x
<1>2. node' \in [Computers -> Daemon] /\ KnownInv'
  BY <1>1, NodeInv
<1>3. UNCHANGED <<net, links, f_connected, cluster, clock, crashes, hangups, request>>
  BY DEF Pace
<1>4. QED
  BY <1>2, <1>3 DEF ElectionInv, TypeOK, LetterInv

LEMMA StartEffect ==
  ASSUME ElectionInv, NEW c \in Computers, Start(c)
  PROVE  \E x \in Daemon :
           /\ LeadersOK(x)
           /\ node' = [node EXCEPT ![c] = x]
           /\ net' = ToSelf(net, c, ClusterMessage(Live(c)))
           /\ x.neighbors_count = 0 /\ x.leaders = <<>> /\ x.lock_status = "NOLOCK"
           /\ x.computers[c].known /\ x.computers[c].connected
<1>1. PICK random \in RandomIds : node' = [node EXCEPT ![c] =
         [ up |-> TRUE, start |-> node[c].start + 1, random |-> random,
           neighbors_count |-> 0,
           computers |-> [d \in Computers |->
              IF d = c THEN Heard(random, node[c].start + 1) ELSE Unknown],
           leaders |-> <<>>, election_date |-> 0, lock_status |-> "NOLOCK",
           paced |-> FALSE, message_cache |-> {} ]]
  BY DEF Start
<1> DEFINE h == Heard(random, node[c].start + 1)
           C == [d \in Computers |-> IF d = c THEN h ELSE Unknown]
           x == [ up |-> TRUE, start |-> node[c].start + 1, random |-> random,
                  neighbors_count |-> 0, computers |-> C,
                  leaders |-> <<>>, election_date |-> 0, lock_status |-> "NOLOCK",
                  paced |-> FALSE, message_cache |-> {} ]
<1>2. node' = [node EXCEPT ![c] = x]
  BY <1>1
<1>3. random \in Nat /\ node[c].start + 1 \in Nat
  BY ElectionAssumption, DaemonFields DEF ElectionInv, TypeOK
<1>4. h \in Computer /\ h.known /\ h.connected
  BY <1>3, ComputerTypes
<1> HIDE DEF h
<1>5. C \in [Computers -> Computer] /\ C[c] = h
  BY <1>4, ComputerTypes
<1> HIDE DEF C
<1>6. <<>> \in Seq(Computers)
  OBVIOUS
<1>7. /\ x \in Daemon /\ x.neighbors_count = 0 /\ x.leaders = <<>>
      /\ x.lock_status = "NOLOCK" /\ x.computers = C
  BY <1>3, <1>5, <1>6 DEF Daemon
<1> HIDE DEF x
<1>8. LeadersOK(x)
  BY <1>7 DEF LeadersOK, Different
<1>9. net' = ToSelf(net, c, ClusterMessage(Live(c)))
  BY DEF Start, ToSelf
<1>10. QED
  BY <1>2, <1>4, <1>5, <1>7, <1>8, <1>9

LEMMA StartInv ==
  ASSUME ElectionInv, NEW c \in Computers, Start(c)
  PROVE  ElectionInv'
<1>1. PICK x \in Daemon : /\ LeadersOK(x) /\ node' = [node EXCEPT ![c] = x]
                          /\ net' = ToSelf(net, c, ClusterMessage(Live(c)))
  BY StartEffect
<1>2. node' \in [Computers -> Daemon] /\ KnownInv'
  BY <1>1, NodeInv
<1>3. net' \in Mail
  BY <1>1, ClusterLetters, OneMore DEF ElectionInv, LetterInv
<1>4. UNCHANGED <<links, f_connected, cluster, clock, crashes, hangups, request>>
  BY DEF Start
<1>5. QED
  BY <1>2, <1>3, <1>4, MailTypes DEF ElectionInv, TypeOK, LetterInv

\* of what was in transit to the daemon of c a part may be left
LEMMA CrashEffect ==
  ASSUME ElectionInv, NEW c \in Computers, Crash(c)
  PROVE  /\ \E x \in Daemon : /\ LeadersOK(x) /\ ~x.up
                              /\ node' = [node EXCEPT ![c] = x]
         /\ net' \in Mail
         /\ \A a, b \in Computers : \A m : In(net'[a][b], m) => In(net[a][b], m)
<1> DEFINE x == [node[c] EXCEPT !.up = FALSE, !.message_cache = {}]
<1>1. node[c] \in Daemon /\ LeadersOK(node[c]) /\ node \in [Computers -> Daemon]
  BY DEF ElectionInv, TypeOK, KnownInv
<1>2. node' = [node EXCEPT ![c] = x]
  BY <1>1 DEF Crash
<1>3. /\ x \in Daemon /\ ~x.up /\ x.leaders = node[c].leaders
      /\ x.computers = node[c].computers
  BY <1>1 DEF Daemon
<1> HIDE DEF x
<1>4. LeadersOK(x)
  BY <1>1, <1>3 DEF LeadersOK
<1>5. PICK kept \in BOOLEAN :
        net' = [d \in Computers |-> [net[d] EXCEPT ![c] =
                 IF kept /\ d # c
                 THEN Selected(net[d][c], ToOne(net[d][c])) ELSE <<>>]]
  BY DEF Crash
<1> DEFINE q(d) == IF kept /\ d # c
                   THEN Selected(net[d][c], ToOne(net[d][c])) ELSE <<>>
<1>6. net' = [d \in Computers |-> [net[d] EXCEPT ![c] = q(d)]]
  BY <1>5
<1>7. \A d \in Computers : net[d] \in [Computers -> Seq(Letter)]
  BY DEF ElectionInv, LetterInv, Mail
<1>8. ASSUME NEW d \in Computers
      PROVE  q(d) \in Seq(Letter) /\ \A m : In(q(d), m) => In(net[d][c], m)
  <2>1. net[d][c] \in Seq(Letter)
    BY <1>7
  <2>2. CASE kept /\ d # c
    BY <2>1, <2>2, QueueSelected
  <2>3. CASE ~(kept /\ d # c)
    BY <2>3, NoMail
  <2>4. QED
    BY <2>2, <2>3
<1> HIDE DEF q
<1>9. \A d \in Computers : /\ net'[d] \in [Computers -> Seq(Letter)]
                           /\ net'[d][c] = q(d)
                           /\ \A e \in Computers \ {c} : net'[d][e] = net[d][e]
  BY <1>6, <1>7, <1>8
<1>10. net' \in Mail
  <2>1. net' = [d \in Computers |-> net'[d]]
    BY <1>6
  <2>2. QED
    BY <1>9, <2>1 DEF Mail
<1>11. ASSUME NEW a \in Computers, NEW b \in Computers, NEW m, In(net'[a][b], m)
       PROVE  In(net[a][b], m)
  <2>1. CASE b = c
    BY <1>8, <1>9, <1>11, <2>1
  <2>2. CASE b # c
    BY <1>9, <1>11, <2>2
  <2>3. QED
    BY <2>1, <2>2
<1>12. QED
  BY <1>2, <1>3, <1>4, <1>10, <1>11

LEMMA CrashInv ==
  ASSUME ElectionInv, NEW c \in Computers, Crash(c)
  PROVE  ElectionInv'
<1>1. PICK x \in Daemon : LeadersOK(x) /\ node' = [node EXCEPT ![c] = x]
  BY CrashEffect
<1>2. node' \in [Computers -> Daemon] /\ KnownInv'
  BY <1>1, NodeInv
<1>3. net' \in Mail
  BY CrashEffect
<1>4. request' \in [Requests -> {"new", "cached", "handed", "failed", "lost"}]
  BY DEF Crash, ElectionInv, TypeOK
<1>5. crashes' \in Nat
  BY DEF Crash, ElectionInv, TypeOK
<1>6. UNCHANGED <<links, f_connected, cluster, clock, hangups>>
  BY DEF Crash
<1>7. QED
  BY <1>2, <1>3, <1>4, <1>5, <1>6, MailTypes DEF ElectionInv, TypeOK, LetterInv

LEMMA ConnectEffect ==
  ASSUME ElectionInv, NEW c \in Computers, NEW d \in Computers, Connect(d, c)
  PROVE  /\ cluster' \in [Computers -> {"CLUSTERUP", "CLUSTERDOWN"}]
         /\ \E n : net' \in {net, ToSelf(net, c, ClusterMessage(n))}
         /\ node' = node /\ clock' = clock /\ crashes' = crashes
         /\ hangups' = hangups /\ request' = request
         /\ links' = links \cup {{c, d}}
         /\ f_connected' = [f_connected EXCEPT ![d] = f_connected[d] \cup {c}]
<1> DEFINE n == Cardinality({e \in Computers : e < c
                               \/ (e > c /\ {c, e} \in links')}) + 1
           m == ClusterMessage(n)
<1>1. /\ cluster' = [cluster EXCEPT ![c] = m.cmd]
      /\ net' = IF m.cmd # cluster[c] /\ node[c].up
                THEN [net EXCEPT ![c][c] = Append(net[c][c], m)] ELSE net
  BY DEF Connect
<1>2. m.cmd \in {"CLUSTERUP", "CLUSTERDOWN"}
  BY ClusterLetters
<1> HIDE DEF n
<1>3. net' \in {net, ToSelf(net, c, ClusterMessage(n))}
  BY <1>1 DEF ToSelf
<1>4. cluster' \in [Computers -> {"CLUSTERUP", "CLUSTERDOWN"}]
  BY <1>1, <1>2 DEF ElectionInv, TypeOK
<1>5. QED
  BY <1>3, <1>4 DEF Connect

LEMMA ConnectInv ==
  ASSUME ElectionInv, NEW c \in Computers, NEW d \in Computers, Connect(d, c)
  PROVE  ElectionInv'
<1>1. PICK n : net' \in {net, ToSelf(net, c, ClusterMessage(n))}
  BY ConnectEffect
<1>2. net \in Mail /\ ClusterMessage(n) \in Letter
  BY ClusterLetters DEF ElectionInv, LetterInv
<1>3. net' \in Mail
  BY <1>1, <1>2, OneMore
<1>4. /\ cluster' \in [Computers -> {"CLUSTERUP", "CLUSTERDOWN"}]
      /\ node' = node /\ clock' = clock /\ crashes' = crashes
      /\ hangups' = hangups /\ request' = request
      /\ links' = links \cup {{c, d}}
      /\ f_connected' = [f_connected EXCEPT ![d] = f_connected[d] \cup {c}]
  BY ConnectEffect
<1>5. links' \subseteq SUBSET Computers /\ f_connected' \in [Computers -> SUBSET Computers]
  BY <1>4 DEF ElectionInv, TypeOK
<1>6. KnownInv'
  BY <1>4 DEF ElectionInv, KnownInv, LeadersOK, Different
<1>7. QED
  BY <1>3, <1>4, <1>5, <1>6, MailTypes DEF ElectionInv, TypeOK, LetterInv

LEMMA HangupInv ==
  ASSUME ElectionInv, NEW c \in Computers, NEW d \in Computers, Hangup(d, c)
  PROVE  ElectionInv'
<1> DEFINE m == [cmd |-> "HANGUP", server_name |-> d]
           broken == [net EXCEPT ![c][d] = <<>>, ![d][c] = <<>>]
<1>1. net' = IF node[c].up THEN ToSelf(broken, c, m) ELSE broken
  BY DEF Hangup, ToSelf
<1>2. net \in Mail /\ m \in Letter
  BY ClusterLetters DEF ElectionInv, LetterInv
<1>3. broken \in Mail
  <2>1. \A n \in Mail : \A a, b \in Computers : [n EXCEPT ![a][b] = <<>>] \in Mail
    BY NoMail DEF Mail
  <2>2. QED
    BY <1>2, <2>1
<1> HIDE DEF m, broken
<1>4. net' \in Mail
  BY <1>1, <1>2, <1>3, OneMore
<1>5. /\ links' \subseteq SUBSET Computers /\ hangups' \in Nat
      /\ UNCHANGED <<node, f_connected, cluster, clock, crashes, request>>
  BY DEF Hangup, ElectionInv, TypeOK
<1>6. KnownInv'
  BY <1>5 DEF ElectionInv, KnownInv, LeadersOK, Different
<1>7. QED
  BY <1>4, <1>5, <1>6, MailTypes DEF ElectionInv, TypeOK, LetterInv

LEMMA ConnectionFailedInv ==
  ASSUME ElectionInv, NEW c \in Computers, NEW d \in Computers, ConnectionFailed(d, c)
  PROVE  ElectionInv'
<1>0. PICK name \in Computers :
        net' = IF node[d].up
               THEN [net EXCEPT ![d][d] =
                       Append(@, [cmd |-> "HANGUP", server_name |-> name])]
               ELSE net
  BY DEF ConnectionFailed
<1> DEFINE m == [cmd |-> "HANGUP", server_name |-> name]
<1>1. net' = IF node[d].up THEN ToSelf(net, d, m) ELSE net
  BY <1>0 DEF ToSelf
<1>2. net \in Mail /\ m \in Letter
  BY ClusterLetters DEF ElectionInv, LetterInv
<1> HIDE DEF m
<1>3. net' \in Mail
  BY <1>1, <1>2, OneMore
<1>4. /\ f_connected' \in [Computers -> SUBSET Computers]
      /\ UNCHANGED <<node, links, cluster, clock, crashes, hangups, request>>
  BY DEF ConnectionFailed, ElectionInv, TypeOK
<1>5. KnownInv'
  BY <1>4 DEF ElectionInv, KnownInv, LeadersOK, Different
<1>6. QED
  BY <1>3, <1>4, <1>5, MailTypes DEF ElectionInv, TypeOK, LetterInv

LEMMA NextInv == ElectionInv /\ [Next]_vars => ElectionInv'
<1> SUFFICES ASSUME ElectionInv, [Next]_vars PROVE ElectionInv'
  OBVIOUS
<1>1. ASSUME NEW c \in Computers, NEW d \in Computers,
             Receive(c, d) \/ Connect(c, d) \/ Hangup(c, d) \/ ConnectionFailed(c, d)
      PROVE  ElectionInv'
  BY <1>1, ReceiveInv, ConnectInv, HangupInv, ConnectionFailedInv
<1>2. ASSUME NEW c \in Computers, Start(c) \/ Crash(c) \/ Pace(c)
      PROVE  ElectionInv'
  BY <1>2, StartInv, CrashInv, PaceInv
<1>3. ASSUME NEW r \in Requests, Lock(r) \/ Cleanup(r)
      PROVE  ElectionInv'
  BY <1>3, LockInv, CleanupInv
<1>4. CASE UNCHANGED vars
  BY <1>4 DEF vars, ElectionInv, TypeOK, LetterInv, KnownInv, LeadersOK, Different
<1>5. QED
  BY <1>1, <1>2, <1>3, <1>4 DEF Next

(***************************************************************************)
(* The daemons, their messages and connections are well formed in every    *)
(* state; in particular the election always finds the leaders it chooses,  *)
(* and a computer named in a message has all that is known of a computer.  *)
(***************************************************************************)
THEOREM ElectionTypes == Spec => []TypeOK
<1>1. ElectionInv => TypeOK
  BY DEF ElectionInv
<1>2. QED
  BY <1>1, InitInv, NextInv, PTL DEF Spec

(***************************************************************************)
(* The leaders of a daemon are different computers it knows, whatever      *)
(* elections, messages of older leaders, restarts and hang ups there were: *)
(* f_leaders and f_computers are changed in separate places of the code.   *)
(***************************************************************************)
THEOREM LeadersAlwaysKnown == Spec => []LeadersKnown
<1>1. ElectionInv => LeadersKnown
  BY DEF ElectionInv, KnownInv, LeadersOK, Different, LeadersKnown
<1>2. QED
  BY <1>1, InitInv, NextInv, PTL DEF Spec

-----------------------------------------------------------------------------
(***************************************************************************)
(* The handlers as long as no connection broke.                            *)
(***************************************************************************)
SteadyOut(c, out) ==
  \A j \in 1..Len(out) : \A d \in out[j].to : SteadyLetter(c, d, out[j].msg)

SteadyWork(c, s) ==
  /\ SteadyNode(c, s)
  /\ SteadyOut(c, s.out)
  /\ s.lock_status = "LOCKREADY" => s.message_cache = {}

LEMMA SteadySend ==
  ASSUME NEW c \in Computers, NEW out \in Seq(Post), SteadyOut(c, out),
         NEW T \in SUBSET Computers, NEW m \in Letter,
         \A d \in T : SteadyLetter(c, d, m)
  PROVE  SteadyOut(c, Append(out, [to |-> T, msg |-> m]))
<1> DEFINE p == [to |-> T, msg |-> m]
<1>1. p.to = T /\ p.msg = m /\ p \in Post
  BY DEF Post
<1> HIDE DEF p
<1>2. /\ Len(out) \in Nat /\ Len(Append(out, p)) = Len(out) + 1
      /\ \A j \in 1..Len(out) : Append(out, p)[j] = out[j]
      /\ Append(out, p)[Len(out) + 1] = p
  BY <1>1
<1>3. ASSUME NEW j \in 1..Len(Append(out, p)), NEW d \in Append(out, p)[j].to
      PROVE  SteadyLetter(c, d, Append(out, p)[j].msg)
  <2>1. CASE j \in 1..Len(out)
    <3>1. Append(out, p)[j] = out[j]
      BY <1>2, <2>1
    <3>2. QED
      BY <1>3, <2>1, <3>1 DEF SteadyOut
  <2>2. CASE j = Len(out) + 1
    <3>1. Append(out, p)[j] = p
      BY <1>2, <2>2
    <3>2. QED
      BY <1>1, <1>3, <3>1
  <2>3. QED
    BY <1>2, <2>1, <2>2
<1>4. QED
  BY <1>3 DEF SteadyOut, p

LEMMA SteadyStarted ==
  ASSUME NEW s, OK(s), NEW c \in Computers, SteadyNode(c, s), NEW d, d # c,
         NEW b \in BOOLEAN
  PROVE  SteadyLetter(c, d, LockStarted(c, s, b))
<1> DEFINE m == LockStarted(c, s, b)
<1>1. /\ m.cmd = "LOCKSTARTED" /\ m.leaders = Ids(s)
      /\ m.election_date = IF s.leaders = <<>> THEN 0 ELSE s.election_date
  BY DEF LockStarted
<1>2. Ids(s) \in Seq(LeaderId) /\ Len(Ids(s)) = Len(s.leaders)
  BY IdsTypes
<1> HIDE DEF m
<1>3. Len(m.leaders) \in {0, Size}
  BY <1>1, <1>2 DEF SteadyNode
<1>4. m.election_date > 0 => m.leaders # <<>>
  <2>1. SUFFICES ASSUME m.leaders = <<>> PROVE m.election_date = 0
    OBVIOUS
  <2>2. Len(Ids(s)) = 0
    BY <1>1, <2>1
  <2>3. s.leaders \in Seq(Computers) /\ Len(s.leaders) = 0
    BY <1>2, <2>2, WorkFields DEF OK
  <2>4. s.leaders = <<>>
    BY <2>3
  <2>5. QED
    BY <1>1, <2>4
<1>5. QED
  BY <1>1, <1>3, <1>4 DEF SteadyLetter, m

LEMMA SteadyAfterIsReady ==
  ASSUME NEW s, OK(s), NEW c \in Computers, SteadyWork(c, s)
  PROVE  SteadyWork(c, AfterIsReady(c, s))
<1> DEFINE t == AfterIsReady(c, s)
           m == LockStarted(c, s, FALSE)
<1>1. /\ SameElectorate(s, t) /\ t.lock_status = s.lock_status
      /\ t.message_cache = s.message_cache
      /\ \/ t.out = s.out
         \/ \E i \in Distant(s) :
              t.out = Append(s.out, [to |-> {s.leaders[i]}, msg |-> m])
  BY AfterIsReadyOK
<1>2. m \in Letter
  BY LockStartedTypes
<1>3. \A d : d # c => SteadyLetter(c, d, m)
  BY SteadyStarted DEF SteadyWork
<1> HIDE DEF t, m
<1>4. ASSUME NEW i \in Distant(s)
      PROVE  SteadyOut(c, Append(s.out, [to |-> {s.leaders[i]}, msg |-> m]))
  <2>1. s.leaders[i] # c /\ s.leaders[i] \in Computers
    BY LeaderTypes DEF Distant, SteadyWork, SteadyNode, OK
  <2>2. {s.leaders[i]} \in SUBSET Computers /\ \A d \in {s.leaders[i]} : SteadyLetter(c, d, m)
    BY <1>3, <2>1
  <2>3. s.out \in Seq(Post)
    BY WorkFields DEF OK
  <2>4. QED
    BY <1>2, <2>2, <2>3, SteadySend DEF SteadyWork
<1>5. SteadyOut(c, t.out)
  BY <1>1, <1>4 DEF SteadyWork
<1>6. SteadyNode(c, t)
  BY <1>1 DEF SteadyWork, SteadyNode, SameElectorate
<1>7. SteadyWork(c, t)
  BY <1>1, <1>5, <1>6 DEF SteadyWork
<1>8. QED
  BY <1>7 DEF t

\* after check_lock_status() the cache was replayed
LEMMA SteadyCheck ==
  ASSUME NEW s, OK(s), NEW c \in Computers, SteadyWork(c, s)
  PROVE  /\ SteadyWork(c, check_lock_status(c, s))
         /\ Replayed(check_lock_status(c, s))
<1> DEFINE u == check_lock_status(c, s)
<1>1. /\ SameElectorate(s, u)
      /\ u.lock_status = IF is_ready(s) THEN "LOCKREADY" ELSE "NOLOCK"
      /\ u.message_cache =
           IF s.lock_status = "NOLOCK" /\ is_ready(s) THEN {} ELSE s.message_cache
      /\ u.out = AfterIsReady(c, s).out
  BY CheckOK
<1>2. SteadyOut(c, AfterIsReady(c, s).out)
  BY SteadyAfterIsReady DEF SteadyWork
<1>3. s.lock_status \in {"LOCKREADY", "NOLOCK"}
  BY WorkFields DEF OK
<1> HIDE DEF u
<1>4. SteadyNode(c, u)
  BY <1>1 DEF SteadyWork, SteadyNode, SameElectorate
<1>5. u.lock_status = "LOCKREADY" => is_ready(s) /\ u.message_cache = {}
  BY <1>1, <1>3 DEF SteadyWork
<1>6. is_ready(u) <=> is_ready(s)
  BY <1>1, SameReady DEF SameElectorate
<1>7. Replayed(u)
  BY <1>5, <1>6 DEF Replayed
<1>8. SteadyWork(c, u)
  BY <1>1, <1>2, <1>4, <1>5 DEF SteadyWork
<1>9. QED
  BY <1>7, <1>8 DEF u

\* an election has all the leaders there can be
LEMMA SteadyElected ==
  ASSUME NEW s, OK(s), NEW c \in Computers, SteadyNode(c, s), CanElect(c, s)
  PROVE  Len(Elected(s)) = Size
<1> DEFINE k == Cardinality(Known(s))
           n == Cardinality(Candidates(s))
           q == Total \div 2 + 1
<1>1. k \in Nat /\ n \in Nat /\ Total \in Nat /\ k <= Total
  BY CandidateSet
<1>2. s.neighbors_count = Total /\ Total # 0
  BY DEF SteadyNode, CanElect
<1>3. /\ q < 3 => k >= Total
      /\ k >= q
      /\ IF k <= 3 THEN k - n = 0 ELSE k - (k - n) >= 3
  BY <1>2 DEF CanElect, neighbors_quorum
<1>4. Len(Elected(s)) = IF n < 3 THEN n ELSE 3
  BY ElectedOK DEF OK
<1> HIDE DEF k, n
<1>5. q \in Nat /\ (Total <= 3 => q < 3) /\ (Total > 3 => q >= 3)
  BY <1>1, <1>2
<1> HIDE DEF q
<1>6. CASE Total <= 3
  BY <1>1, <1>3, <1>4, <1>5, <1>6 DEF Size
<1>7. CASE Total > 3
  BY <1>1, <1>3, <1>4, <1>5, <1>7 DEF Size
<1>8. QED
  BY <1>1, <1>6, <1>7

LEMMA SteadyElect ==
  ASSUME NEW s, OK(s), NEW c \in Computers, SteadyWork(c, s), CanElect(c, s)
  PROVE  SteadyWork(c, Elect(c, s))
<1> DEFINE t == Elect(c, s)
<1>1. /\ t.leaders = Elected(s) /\ t.computers = s.computers
      /\ t.neighbors_count = s.neighbors_count
      /\ t.lock_status = s.lock_status /\ t.message_cache = s.message_cache
  BY ElectOK
<1>2. PICK m \in Letter :
              /\ m.cmd = "LOCKLEADERS"
              /\ Len(m.leaders) = Len(Elected(s))
              /\ t.out = Append(s.out, [to |-> Computers, msg |-> m])
  BY ElectOK
<1>3. Len(Elected(s)) = Size
  BY SteadyElected DEF SteadyWork
<1>4. Size # 0
  <2>1. Total \in Nat /\ Total # 0
    BY CandidateSet, FS_EmptySet, ElectionAssumption DEF Total
  <2>2. QED
    BY <2>1 DEF Size
<1>5. m.leaders # <<>>
  <2>1. Len(<<>>) = 0
    OBVIOUS
  <2>2. QED
    BY <1>2, <1>3, <1>4, <2>1
<1>6. \A d \in Computers : SteadyLetter(c, d, m)
  BY <1>2, <1>3, <1>5 DEF SteadyLetter
<1>7. s.out \in Seq(Post) /\ Computers \in SUBSET Computers
  BY WorkFields DEF OK
<1>8. SteadyOut(c, t.out)
  BY <1>2, <1>6, <1>7, SteadySend DEF SteadyWork
<1> HIDE DEF t
<1>9. SteadyNode(c, t)
  BY <1>1, <1>3 DEF SteadyWork, SteadyNode
<1>10. SteadyWork(c, t)
  BY <1>1, <1>8, <1>9 DEF SteadyWork
<1>11. QED
  BY <1>10 DEF t

(***************************************************************************)
(* election_status() returns without check_lock_status() only when there   *)
(* are no leaders, or before the first CLUSTERUP.                          *)
(***************************************************************************)
LEMMA SteadyElection ==
  ASSUME NEW s, OK(s), NEW c \in Computers, SteadyWork(c, s),
         Len(s.leaders) = 0 => s.lock_status = "NOLOCK",
         s.neighbors_count = 0 /\ Len(s.leaders) # 3 => Replayed(s)
  PROVE  /\ SteadyWork(c, election_status(c, s))
         /\ Replayed(election_status(c, s))
<1>1. CASE AllLeaders(s)
  BY <1>1, SteadyCheck DEF election_status
<1>2. CASE ~AllLeaders(s) /\ CanElect(c, s)
  <2>1. OK(Elect(c, s)) /\ SteadyWork(c, Elect(c, s))
    BY <1>2, ElectOK, SteadyElect
  <2>2. election_status(c, s) = check_lock_status(c, Elect(c, s))
    BY <1>2 DEF election_status
  <2>3. QED
    BY <2>1, <2>2, SteadyCheck
<1>3. CASE ~AllLeaders(s) /\ ~CanElect(c, s)
  <2>1. election_status(c, s) = s
    BY <1>3 DEF election_status
  <2>2. CASE s.neighbors_count = 0
    BY <1>3, <2>1, <2>2 DEF AllLeaders
  <2>3. CASE s.neighbors_count # 0
    <3>1. s.neighbors_count = Total /\ Total \in Nat /\ Len(s.leaders) \in {0, Size}
      BY <2>3, CandidateSet DEF SteadyWork, SteadyNode
    <3>2. Len(s.leaders) = 0
      BY <1>3, <3>1 DEF AllLeaders, Size
    <3>3. Replayed(s)
      BY <3>2 DEF Replayed
    <3>4. QED
      BY <2>1, <3>3
  <2>4. QED
    BY <2>2, <2>3
<1>4. QED
  BY <1>1, <1>2, <1>3

\* a daemon that is ready has leaders
LEMMA ReadyLeaders ==
  ASSUME NEW s, Replayed(s), Len(s.leaders) = 0,
         s.lock_status \in {"LOCKREADY", "NOLOCK"}
  PROVE  s.lock_status = "NOLOCK"
BY DEF Replayed, is_ready, EnoughComputers

LEMMA SteadyAnswer ==
  ASSUME NEW s, OK(s), NEW c \in Computers, SteadyWork(c, s), Replayed(s),
         NEW T \in SUBSET Computers, c \notin T, NEW b \in BOOLEAN
  PROVE  LET t == Send(s, T, LockStarted(c, s, b))
         IN  SteadyWork(c, t) /\ Replayed(t)
<1> DEFINE m == LockStarted(c, s, b)
           t == Send(s, T, m)
<1>1. m \in Letter
  BY LockStartedTypes
<1>2. \A d \in T : SteadyLetter(c, d, m)
  BY SteadyStarted DEF SteadyWork
<1> HIDE DEF m
<1>3. /\ SameElectorate(s, t) /\ t.lock_status = s.lock_status
      /\ t.message_cache = s.message_cache
      /\ t.out = Append(s.out, [to |-> T, msg |-> m])
  BY <1>1, SendOK
<1>4. s.out \in Seq(Post)
  BY WorkFields DEF OK
<1>5. SteadyOut(c, t.out)
  BY <1>1, <1>2, <1>3, <1>4, SteadySend DEF SteadyWork
<1> HIDE DEF t
<1>6. SteadyNode(c, t)
  BY <1>3 DEF SteadyWork, SteadyNode, SameElectorate
<1>7. Replayed(t)
  BY <1>3, SameReady DEF Replayed, SameElectorate
<1>8. SteadyWork(c, t)
  BY <1>3, <1>5, <1>6 DEF SteadyWork
<1>9. QED
  BY <1>7, <1>8 DEF t, m

LEMMA SteadyClusterUp ==
  ASSUME NEW s, OK(s), NEW c \in Computers, SteadyWork(c, s), Replayed(s),
         NEW m \in Letter, m.cmd = "CLUSTERUP", m.neighbors_count = Total
  PROVE  /\ SteadyWork(c, msg_cluster_up(c, s, m))
         /\ Replayed(msg_cluster_up(c, s, m))
<1> DEFINE t == [s EXCEPT !.neighbors_count = m.neighbors_count]
           u == election_status(c, t)
<1>1. s \in Work /\ s.lock_status \in {"LOCKREADY", "NOLOCK"} /\ m.neighbors_count \in Nat
  BY LetterFields, WorkFields DEF OK
<1>2. /\ t \in Work /\ t.leaders = s.leaders /\ t.computers = s.computers
      /\ t.neighbors_count = Total /\ t.lock_status = s.lock_status
      /\ t.message_cache = s.message_cache /\ t.out = s.out
  BY <1>1 DEF Work
<1>3. msg_cluster_up(c, s, m) = Send(u, Computers \ {c}, LockStarted(c, u, TRUE))
  BY DEF msg_cluster_up, send_lockstarted
<1> HIDE DEF t
<1>4. OK(t) /\ SteadyWork(c, t)
  BY <1>2 DEF OK, LeadersOK, SteadyWork, SteadyNode
<1>5. Len(t.leaders) = 0 => t.lock_status = "NOLOCK"
  BY <1>1, <1>2, ReadyLeaders
<1>6. t.neighbors_count # 0
  <2>1. Total # 0
    BY FS_EmptySet, ElectionAssumption DEF Total
  <2>2. QED
    BY <1>2, <2>1
<1>7. OK(u) /\ SteadyWork(c, u) /\ Replayed(u)
  BY <1>4, <1>5, <1>6, ElectionOK, SteadyElection
<1> HIDE DEF u
<1>8. QED
  BY <1>3, <1>7, SteadyAnswer

LEMMA SteadyClusterDown ==
  ASSUME NEW s, OK(s), NEW c \in Computers, SteadyWork(c, s)
  PROVE  /\ SteadyWork(c, msg_cluster_down(c, s))
         /\ Replayed(msg_cluster_down(c, s))
<1> DEFINE t == [s EXCEPT !.leaders = <<>>]
<1>1. /\ t \in Work /\ t.leaders = <<>> /\ t.computers = s.computers
      /\ t.neighbors_count = s.neighbors_count /\ t.lock_status = s.lock_status
      /\ t.message_cache = s.message_cache /\ t.out = s.out
  <2> DEFINE none == <<>>
  <2>1. s \in Work /\ none \in Seq(Computers) /\ t = [s EXCEPT !.leaders = none]
    BY DEF OK
  <2> HIDE DEF t, none
  <2>2. /\ t \in Work /\ t.leaders = none /\ t.computers = s.computers
        /\ t.neighbors_count = s.neighbors_count /\ t.lock_status = s.lock_status
        /\ t.message_cache = s.message_cache /\ t.out = s.out
    BY <2>1, SetLeaders
  <2>3. QED
    BY <2>2 DEF none
<1>2. msg_cluster_down(c, s) = check_lock_status(c, t)
  BY DEF msg_cluster_down
<1> HIDE DEF t
<1>3. OK(t)
  BY <1>1, NoLeaders
<1>4. SteadyWork(c, t)
  BY <1>1 DEF SteadyWork, SteadyNode
<1>5. QED
  BY <1>2, <1>3, <1>4, SteadyCheck

LEMMA SteadyLockLeaders ==
  ASSUME NEW s, OK(s), NEW c \in Computers, SteadyWork(c, s),
         NEW m \in Letter, m.cmd = "LOCKLEADERS", NEW d, SteadyLetter(d, c, m)
  PROVE  /\ SteadyWork(c, msg_lock_leaders(c, s, m))
         /\ Replayed(msg_lock_leaders(c, s, m))
<1> DEFINE t == [s EXCEPT !.election_date = m.election_date]
           u == set_leaders(t, m.leaders)
<1>1. s \in Work /\ m.election_date \in Nat /\ m.leaders \in Seq(LeaderId)
      /\ Names(m.leaders)
  BY LetterFields DEF OK
<1>2. /\ t \in Work /\ t.computers = s.computers
      /\ t.neighbors_count = s.neighbors_count /\ t.lock_status = s.lock_status
      /\ t.message_cache = s.message_cache /\ t.out = s.out
  BY <1>1 DEF Work
<1>3. msg_lock_leaders(c, s, m) = check_lock_status(c, u)
  BY DEF msg_lock_leaders
<1> HIDE DEF t
<1>4. /\ OK(u) /\ u.neighbors_count = t.neighbors_count
      /\ u.lock_status = t.lock_status /\ u.message_cache = t.message_cache
      /\ u.out = t.out /\ Len(u.leaders) = Len(m.leaders)
      /\ \A e \in Computers : t.computers[e].known => u.computers[e] = t.computers[e]
  BY <1>1, <1>2, SetLeadersOK
<1> HIDE DEF u
<1>5. Len(m.leaders) \in {0, Size}
  BY DEF SteadyLetter
<1>6. SteadyNode(c, u)
  BY <1>2, <1>4, <1>5 DEF SteadyWork, SteadyNode
<1>7. SteadyWork(c, u)
  BY <1>2, <1>4, <1>6 DEF SteadyWork
<1>8. QED
  BY <1>3, <1>4, <1>7, SteadyCheck

\* two computers are all there are
LEMMA OnlyTwo ==
  ASSUME NEW c \in Computers, NEW d \in Computers, c # d, Total < 3
  PROVE  Total = 2 /\ Computers = {c, d}
<1>1. IsFiniteSet(Computers) /\ Total \in Nat
  BY CandidateSet, ElectionAssumption
<1>2. IsFiniteSet({c}) /\ Cardinality({c}) = 1 /\ {c} \cup {d} = {c, d}
  BY FS_Singleton
<1>3. IsFiniteSet({c, d}) /\ Cardinality({c, d}) = 2
  BY <1>2, FS_AddElement
<1>4. /\ {c, d} \in SUBSET Computers
      /\ Cardinality({c, d}) <= Total
      /\ Total = Cardinality({c, d}) => Computers = {c, d}
  BY <1>1, FS_Subset DEF Total
<1>5. QED
  BY <1>1, <1>3, <1>4

LEMMA SteadyLearned ==
  ASSUME NEW s, OK(s), NEW c \in Computers, SteadyWork(c, s), Replayed(s),
         NEW d \in Computers, NEW m \in Letter, m.cmd = "LOCKSTARTED",
         SteadyLetter(d, c, m)
  PROVE  LET w == Learned(s, d, m)
         IN  /\ SteadyWork(c, w)
             /\ Len(w.leaders) = 0 => w.lock_status = "NOLOCK"
             /\ w.neighbors_count = 0 /\ Len(w.leaders) # 3 => Replayed(w)
<1> DEFINE v == Meet(s, d, m)
           t == Newer(v, m)
           u == set_leaders(t, m.leaders)
           w == Learned(s, d, m)
<1>1. /\ d # c /\ Len(m.leaders) \in {0, Size}
      /\ m.election_date > 0 => m.leaders # <<>>
  BY DEF SteadyLetter
<1>2. m.leaders \in Seq(LeaderId) /\ Names(m.leaders)
  BY LetterFields
<1>3. s.lock_status \in {"LOCKREADY", "NOLOCK"} /\ s.leaders \in Seq(Computers)
  BY WorkFields DEF OK
<1>4. /\ OK(v) /\ v.leaders = s.leaders /\ v.neighbors_count = s.neighbors_count
      /\ v.lock_status = s.lock_status /\ v.message_cache = s.message_cache
      /\ v.out = s.out /\ v.computers[d].known /\ v.computers[d].connected
      /\ \A e \in Computers \ {d} : v.computers[e] = s.computers[e]
  BY MeetOK
<1> HIDE DEF v
<1>5. /\ OK(t) /\ t.computers = v.computers /\ t.neighbors_count = v.neighbors_count
      /\ t.lock_status = v.lock_status /\ t.message_cache = v.message_cache
      /\ t.out = v.out
      /\ \/ t.leaders = v.leaders
         \/ t.leaders = <<>> /\ m.election_date > 0
  BY <1>4, NewerOK
<1>6. w = IF t.leaders = <<>> THEN u ELSE t
  BY DEF Learned, v
<1> HIDE DEF t
<1>7. t \in Work /\ t.leaders \in Seq(Computers)
  BY <1>5, WorkFields DEF OK
<1>8. /\ u.neighbors_count = t.neighbors_count
      /\ u.lock_status = t.lock_status /\ u.message_cache = t.message_cache
      /\ u.out = t.out /\ Len(u.leaders) = Len(m.leaders)
      /\ \A e \in Computers : t.computers[e].known => u.computers[e] = t.computers[e]
  BY <1>2, <1>7, SetLeadersOK
<1> HIDE DEF u, w
<1>9. /\ w.neighbors_count = s.neighbors_count
      /\ w.lock_status = s.lock_status /\ w.message_cache = s.message_cache
      /\ w.out = s.out
      /\ \A e \in Computers : t.computers[e].known => w.computers[e] = t.computers[e]
  BY <1>4, <1>5, <1>6, <1>8
<1>10. Len(w.leaders) \in {0, Size}
  BY <1>1, <1>4, <1>5, <1>6, <1>8 DEF SteadyWork, SteadyNode
<1>11. s.computers[c].known /\ s.computers[c].connected
  BY DEF SteadyWork, SteadyNode
<1>12. /\ w.computers[c].known /\ w.computers[c].connected
       /\ w.computers[d].known /\ w.computers[d].connected
  BY <1>1, <1>4, <1>5, <1>9, <1>11
<1>13. SteadyWork(c, w)
  BY <1>9, <1>10, <1>12 DEF SteadyWork, SteadyNode
<1>14. ASSUME Len(w.leaders) = 0 PROVE w.lock_status = "NOLOCK"
  <2>1. t.leaders = <<>>
    BY <1>6, <1>7, <1>14
  <2>2. Len(m.leaders) = 0
    BY <1>6, <1>8, <1>14, <2>1
  <2>3. m.leaders = <<>>
    BY <1>2, <2>2
  <2>4. s.leaders = <<>>
    BY <1>1, <1>4, <1>5, <2>1, <2>3
  <2>5. Len(s.leaders) = 0
    BY <2>4
  <2>6. QED
    BY <1>3, <1>9, <2>5, ReadyLeaders
<1>15. ASSUME w.neighbors_count = 0, Len(w.leaders) # 3 PROVE Replayed(w)
  <2>1. CASE Len(w.leaders) = 0
    BY <1>14, <2>1 DEF Replayed
  <2>2. CASE Len(w.leaders) # 0
    <3>1. Total \in Nat /\ Total < 3 /\ Len(w.leaders) = Total
      BY <1>10, <1>15, <2>2, CandidateSet DEF Size
    <3>2. Total = 2 /\ Computers = {c, d}
      BY <1>1, <3>1, OnlyTwo
    <3>3. Known(w) = Computers
      BY <1>12, <3>2 DEF Known
    <3>4. Cardinality(Known(w)) = 2
      BY <3>2, <3>3 DEF Total
    <3>5. neighbors_quorum(w) = 1
      BY <1>15 DEF neighbors_quorum
    <3>6. EnoughComputers(w)
      BY <1>15, <3>1, <3>2, <3>4, <3>5 DEF EnoughComputers
    <3>7. OK(w)
      BY LearnedOK DEF w
    <3>8. Distant(w) = {}
      BY <1>12, <3>2, <3>7, LeaderTypes DEF Distant, OK
    <3>9. QED
      BY <1>13, <3>6, <3>8 DEF Replayed, is_ready, SteadyWork
  <2>3. QED
    BY <2>1, <2>2
<1>16. QED
  BY <1>13, <1>14, <1>15 DEF w

LEMMA SteadyLockStarted ==
  ASSUME NEW s, OK(s), NEW c \in Computers, SteadyWork(c, s), Replayed(s),
         NEW d \in Computers, NEW m \in Letter, m.cmd = "LOCKSTARTED",
         SteadyLetter(d, c, m)
  PROVE  /\ SteadyWork(c, msg_lock_started(c, s, d, m))
         /\ Replayed(msg_lock_started(c, s, d, m))
<1> DEFINE w == Learned(s, d, m)
           u == election_status(c, w)
<1>1. OK(w)
  BY LearnedOK
<1>2. /\ SteadyWork(c, w)
      /\ Len(w.leaders) = 0 => w.lock_status = "NOLOCK"
      /\ w.neighbors_count = 0 /\ Len(w.leaders) # 3 => Replayed(w)
  BY SteadyLearned
<1>3. msg_lock_started(c, s, d, m) \in {u, Send(u, {d}, LockStarted(c, u, FALSE))}
  BY StartedIs DEF reply_lockstarted
<1> HIDE DEF w
<1>4. OK(u) /\ SteadyWork(c, u) /\ Replayed(u)
  BY <1>1, <1>2, ElectionOK, SteadyElection
<1>5. c \notin {d} /\ {d} \in SUBSET Computers
  BY DEF SteadyLetter
<1> HIDE DEF u
<1>6. /\ SteadyWork(c, Send(u, {d}, LockStarted(c, u, FALSE)))
      /\ Replayed(Send(u, {d}, LockStarted(c, u, FALSE)))
  BY <1>4, <1>5, SteadyAnswer
<1>7. QED
  BY <1>3, <1>4, <1>6

LEMMA SteadyLock ==
  ASSUME NEW s, OK(s), NEW c \in Computers, SteadyWork(c, s), Replayed(s),
         NEW r \in Requests
  PROVE  SteadyWork(c, msg_lock(c, s, r)) /\ Replayed(msg_lock(c, s, r))
<1> DEFINE t == AfterIsReady(c, s)
           u == [s EXCEPT !.handed = s.handed \cup {r}]
           v == [t EXCEPT !.message_cache = t.message_cache \cup {r}]
<1>1. OK(t) /\ SteadyWork(c, t) /\ t.lock_status = s.lock_status
  BY AfterIsReadyOK, SteadyAfterIsReady
<1>2. msg_lock(c, s, r) = IF is_ready(s) THEN u ELSE v
  BY <1>1 DEF msg_lock, OK, Work
<1> HIDE DEF t
<1>3. /\ u.leaders = s.leaders /\ u.computers = s.computers
      /\ u.neighbors_count = s.neighbors_count /\ u.out = s.out
      /\ u.lock_status = s.lock_status /\ u.message_cache = s.message_cache
  BY DEF OK, Work
<1>4. /\ v.leaders = t.leaders /\ v.computers = t.computers
      /\ v.neighbors_count = t.neighbors_count /\ v.out = t.out
      /\ v.lock_status = t.lock_status
  BY <1>1 DEF OK, Work
<1> HIDE DEF u, v
<1>5. CASE is_ready(s)
  <2>1. SteadyWork(c, u)
    BY <1>3 DEF SteadyWork, SteadyNode
  <2>2. Replayed(u)
    BY <1>3, SameReady DEF Replayed
  <2>3. QED
    BY <1>2, <1>5, <2>1, <2>2
<1>6. CASE ~is_ready(s)
  <2>1. v.lock_status # "LOCKREADY"
    BY <1>1, <1>4, <1>6 DEF Replayed
  <2>2. SteadyWork(c, v) /\ Replayed(v)
    BY <1>1, <1>4, <2>1 DEF SteadyWork, SteadyNode, Replayed
  <2>3. QED
    BY <1>2, <1>6, <2>2
<1>7. QED
  BY <1>5, <1>6

LEMMA SteadyHandle ==
  ASSUME NEW s, OK(s), NEW c \in Computers, SteadyWork(c, s), Replayed(s),
         NEW d \in Computers, NEW m \in Letter, SteadyLetter(d, c, m)
  PROVE  SteadyWork(c, Handle(c, s, d, m)) /\ Replayed(Handle(c, s, d, m))
<1>1. CASE m.cmd = "CLUSTERUP"
  <2>1. Handle(c, s, d, m) = msg_cluster_up(c, s, m) /\ m.neighbors_count = Total
    BY <1>1 DEF Handle, SteadyLetter
  <2>2. QED
    BY <1>1, <2>1, SteadyClusterUp
<1>2. CASE m.cmd = "CLUSTERDOWN"
  <2>1. Handle(c, s, d, m) = msg_cluster_down(c, s)
    BY <1>2 DEF Handle
  <2>2. QED
    BY <2>1, SteadyClusterDown
<1>3. CASE m.cmd = "LOCKLEADERS"
  <2>1. Handle(c, s, d, m) = msg_lock_leaders(c, s, m)
    BY <1>3 DEF Handle
  <2>2. QED
    BY <1>3, <2>1, SteadyLockLeaders
<1>4. CASE m.cmd = "LOCKSTARTED"
  <2>1. Handle(c, s, d, m) = msg_lock_started(c, s, d, m)
    BY <1>4 DEF Handle
  <2>2. QED
    BY <1>4, <2>1, SteadyLockStarted
<1>5. m.cmd # "HANGUP"
  BY DEF SteadyLetter
<1>6. QED
  BY <1>1, <1>2, <1>3, <1>4, <1>5, LetterFields

-----------------------------------------------------------------------------
(***************************************************************************)
(* The actions as long as no connection broke.                             *)
(***************************************************************************)
LEMMA MailSteady ==
  ASSUME SteadyMail
  PROVE  \A a, b \in Computers : \A m : In(net[a][b], m) => SteadyLetter(a, b, m)
BY DEF SteadyMail, In

LEMMA SteadyMailNext ==
  ASSUME \A a, b \in Computers : \A m : In(net'[a][b], m) => SteadyLetter(a, b, m)
  PROVE  SteadyMail'
BY DEF SteadyMail, In

\* the daemon of c changed
LEMMA SteadyNodesNext ==
  ASSUME SteadyNodes, NEW c \in Computers,
         \A d \in Computers \ {c} : node'[d] = node[d],
         node'[c].up => SteadyNode(c, node'[c]) /\ Replayed(node'[c])
  PROVE  SteadyNodes'
<1>1. ASSUME NEW d \in Computers, node'[d].up
      PROVE  SteadyNode(d, node'[d]) /\ Replayed(node'[d])
  BY <1>1 DEF SteadyNodes
<1>2. QED
  BY <1>1 DEF SteadyNodes

\* what the daemon x has in common with the handler's s
LEMMA SteadySame ==
  ASSUME NEW c \in Computers, NEW s, NEW x, x.leaders = s.leaders,
         x.computers = s.computers, x.neighbors_count = s.neighbors_count,
         x.lock_status = s.lock_status, x.message_cache \subseteq s.message_cache,
         SteadyNode(c, s), Replayed(s)
  PROVE  SteadyNode(c, x) /\ Replayed(x)
<1>1. is_ready(x) <=> is_ready(s)
  BY SameReady
<1>2. QED
  BY <1>1 DEF SteadyNode, Replayed

\* a handler ended
LEMMA HandlerSteady ==
  ASSUME ElectionInv, SteadyNodes, SteadyMail, SteadyLinks,
         NEW c \in Computers, NEW s, OK(s), SteadyWork(c, s), Replayed(s),
         Finish(c, s), Reached(net', net, c, s.out), UNCHANGED <<links, f_connected>>
  PROVE  SteadyNodes' /\ SteadyMail' /\ SteadyLinks'
<1>1. /\ \A d \in Computers \ {c} : node'[d] = node[d]
      /\ node'[c].neighbors_count = s.neighbors_count
      /\ node'[c].leaders = s.leaders /\ node'[c].computers = s.computers
      /\ node'[c].lock_status = s.lock_status
      /\ node'[c].message_cache = s.message_cache
  BY FinishOK DEF ElectionInv
<1>2. SteadyNode(c, node'[c]) /\ Replayed(node'[c])
  BY <1>1, SteadySame DEF SteadyWork
<1>3. SteadyNodes'
  BY <1>1, <1>2, SteadyNodesNext
<1>4. SteadyMail'
  <2>1. ASSUME NEW a \in Computers, NEW b \in Computers, NEW m, In(net'[a][b], m)
        PROVE  SteadyLetter(a, b, m)
    BY <2>1, MailSteady DEF Reached, SteadyWork, SteadyOut
  <2>2. QED
    BY <2>1, SteadyMailNext
<1>5. SteadyLinks'
  BY DEF SteadyLinks
<1>6. QED
  BY <1>3, <1>4, <1>5

\* the daemon a handler starts with
LEMMA RunSteady ==
  ASSUME ElectionInv, SteadyNodes, NEW c \in Computers, node[c].up
  PROVE  OK(Run(c)) /\ SteadyWork(c, Run(c)) /\ Replayed(Run(c))
<1>1. /\ OK(Run(c)) /\ Run(c).neighbors_count = node[c].neighbors_count
      /\ Run(c).leaders = node[c].leaders /\ Run(c).computers = node[c].computers
      /\ Run(c).lock_status = node[c].lock_status
      /\ Run(c).message_cache = node[c].message_cache /\ Run(c).out = <<>>
  BY RunOK DEF ElectionInv
<1>2. SteadyNode(c, node[c]) /\ Replayed(node[c])
  BY DEF SteadyNodes
<1>3. SteadyNode(c, Run(c)) /\ Replayed(Run(c))
  BY <1>1, <1>2, SteadySame
<1>4. SteadyOut(c, Run(c).out)
  BY <1>1 DEF SteadyOut
<1>5. QED
  BY <1>1, <1>3, <1>4 DEF SteadyWork, Replayed

LEMMA ReceiveSteady ==
  ASSUME ElectionInv, SteadyNodes, SteadyMail, SteadyLinks,
         NEW c \in Computers, NEW d \in Computers, Receive(c, d)
  PROVE  SteadyNodes' /\ SteadyMail' /\ SteadyLinks'
<1> DEFINE m == Head(net[d][c])
           s == Handle(c, Run(c), d, m)
<1>1. /\ m \in Letter /\ In(net[d][c], m) /\ OK(s) /\ Finish(c, s)
      /\ Reached(net', net, c, s.out)
  BY ReceiveEffect
<1>2. node[c].up /\ UNCHANGED <<links, f_connected>>
  BY DEF Receive
<1> HIDE DEF m
<1>3. SteadyLetter(d, c, m)
  BY <1>1, MailSteady
<1>4. SteadyWork(c, s) /\ Replayed(s)
  BY <1>1, <1>2, <1>3, RunSteady, SteadyHandle
<1> HIDE DEF s
<1>5. QED
  BY <1>1, <1>2, <1>4, HandlerSteady

LEMMA LockSteady ==
  ASSUME ElectionInv, SteadyNodes, SteadyMail, SteadyLinks, NEW r \in Requests, Lock(r)
  PROVE  SteadyNodes' /\ SteadyMail' /\ SteadyLinks'
<1> DEFINE c == At[r]
           s == msg_lock(c, Run(c), r)
<1>1. c \in Computers /\ OK(s) /\ Finish(c, s) /\ Reached(net', net, c, s.out)
  BY LockEffect
<1>2. node[c].up /\ UNCHANGED <<links, f_connected>>
  BY DEF Lock
<1> HIDE DEF c
<1>3. SteadyWork(c, s) /\ Replayed(s)
  BY <1>1, <1>2, RunSteady, SteadyLock
<1> HIDE DEF s
<1>4. QED
  BY <1>1, <1>2, <1>3, HandlerSteady

\* the daemon of c goes on with x
LEMMA DaemonSteady ==
  ASSUME ElectionInv, SteadyNodes, SteadyMail, SteadyLinks,
         NEW c \in Computers, NEW x \in Daemon, LeadersOK(x),
         node' = [node EXCEPT ![c] = x], x.up => SteadyNode(c, x) /\ Replayed(x),
         UNCHANGED <<links, f_connected>>
  PROVE  SteadyNodes' /\ SteadyLinks'
<1>1. node'[c] = x /\ \A d \in Computers \ {c} : node'[d] = node[d]
  BY NodeInv
<1>2. SteadyNodes'
  BY <1>1, SteadyNodesNext
<1>3. QED
  BY <1>2 DEF SteadyLinks

LEMMA CleanupSteady ==
  ASSUME ElectionInv, SteadyNodes, SteadyMail, SteadyLinks, NEW r \in Requests,
         Cleanup(r)
  PROVE  SteadyNodes' /\ SteadyMail' /\ SteadyLinks'
<1> DEFINE c == At[r]
           x == [node[c] EXCEPT !.message_cache = node[c].message_cache \ {r}]
<1>1. /\ c \in Computers /\ x \in Daemon /\ LeadersOK(x)
      /\ node' = [node EXCEPT ![c] = x]
      /\ x.leaders = node[c].leaders /\ x.computers = node[c].computers
      /\ x.neighbors_count = node[c].neighbors_count
      /\ x.lock_status = node[c].lock_status
      /\ x.message_cache \subseteq node[c].message_cache
  BY CleanupEffect
<1>2. node[c].up /\ UNCHANGED <<net, links, f_connected>>
  BY DEF Cleanup
<1> HIDE DEF c, x
<1>3. SteadyNode(c, node[c]) /\ Replayed(node[c])
  BY <1>1, <1>2 DEF SteadyNodes
<1>4. SteadyNode(c, x) /\ Replayed(x)
  BY <1>1, <1>3, SteadySame
<1>5. SteadyNodes' /\ SteadyLinks'
  BY <1>1, <1>2, <1>4, DaemonSteady
<1>6. SteadyMail'
  BY <1>2 DEF SteadyMail
<1>7. QED
  BY <1>5, <1>6

LEMMA PaceSteady ==
  ASSUME ElectionInv, SteadyNodes, SteadyMail, SteadyLinks, NEW c \in Computers,
         Pace(c)
  PROVE  SteadyNodes' /\ SteadyMail' /\ SteadyLinks'
<1> DEFINE x == [node[c] EXCEPT !.paced = FALSE]
<1>1. /\ x \in Daemon /\ LeadersOK(x)
      /\ node' = [node EXCEPT ![c] = x]
      /\ x.leaders = node[c].leaders /\ x.computers = node[c].computers
      /\ x.neighbors_count = node[c].neighbors_count
      /\ x.lock_status = node[c].lock_status /\ x.up = node[c].up
      /\ x.message_cache = node[c].message_cache
  BY PaceEffect
<1>2. UNCHANGED <<net, links, f_connected>>
  BY DEF Pace
<1> HIDE DEF x
<1>3. ASSUME x.up PROVE SteadyNode(c, x) /\ Replayed(x)
  <2>1. SteadyNode(c, node[c]) /\ Replayed(node[c])
    BY <1>1, <1>3 DEF SteadyNodes
  <2>2. QED
    BY <1>1, <2>1, SteadySame
<1>4. SteadyNodes' /\ SteadyLinks'
  BY <1>1, <1>2, <1>3, DaemonSteady
<1>5. SteadyMail'
  BY <1>2 DEF SteadyMail
<1>6. QED
  BY <1>4, <1>5

\* the snapcommunicator of c told its snaplock about the cluster
LEMMA ToldSteady ==
  ASSUME ElectionInv, SteadyMail, NEW c \in Computers, NEW n,
         net' \in {net, ToSelf(net, c, ClusterMessage(n))}
  PROVE  SteadyMail'
<1> DEFINE x == ClusterMessage(n)
<1>1. net \in Mail /\ x \in Letter /\ SteadyLetter(c, c, x)
  BY ClusterLetters DEF ElectionInv, LetterInv, SteadyLetter
<1> HIDE DEF x
<1>2. ASSUME NEW a \in Computers, NEW b \in Computers, NEW m, In(net'[a][b], m)
      PROVE  SteadyLetter(a, b, m)
  <2>1. CASE net' = net
    BY <1>2, <2>1, MailSteady
  <2>2. CASE net' = ToSelf(net, c, x)
    <3>1. Joined(net', net, c, x)
      BY <1>1, <2>2, OneMore
    <3>2. In(net[a][b], m) \/ (a = c /\ b = c /\ m = x)
      BY <1>2, <3>1 DEF Joined
    <3>3. QED
      BY <1>1, <3>2, MailSteady
  <2>3. QED
    BY <2>1, <2>2 DEF x
<1>3. QED
  BY <1>2, SteadyMailNext

LEMMA StartSteady ==
  ASSUME ElectionInv, SteadyNodes, SteadyMail, SteadyLinks, NEW c \in Computers,
         Start(c)
  PROVE  SteadyNodes' /\ SteadyMail' /\ SteadyLinks'
<1>1. PICK x \in Daemon :
        /\ LeadersOK(x)
        /\ node' = [node EXCEPT ![c] = x]
        /\ net' = ToSelf(net, c, ClusterMessage(Live(c)))
        /\ x.neighbors_count = 0 /\ x.leaders = <<>> /\ x.lock_status = "NOLOCK"
        /\ x.computers[c].known /\ x.computers[c].connected
  BY StartEffect
<1>2. SteadyNode(c, x) /\ Replayed(x)
  BY <1>1 DEF SteadyNode, Replayed
<1>3. SteadyNodes' /\ SteadyLinks'
  BY <1>1, <1>2, DaemonSteady DEF Start
<1>4. SteadyMail'
  BY <1>1, ToldSteady
<1>5. QED
  BY <1>3, <1>4

LEMMA CrashSteady ==
  ASSUME ElectionInv, SteadyNodes, SteadyMail, SteadyLinks, NEW c \in Computers,
         Crash(c)
  PROVE  SteadyNodes' /\ SteadyMail' /\ SteadyLinks'
<1>1. PICK x \in Daemon : LeadersOK(x) /\ ~x.up /\ node' = [node EXCEPT ![c] = x]
  BY CrashEffect
<1>2. SteadyNodes' /\ SteadyLinks'
  BY <1>1, DaemonSteady DEF Crash
<1>3. \A a, b \in Computers : \A m : In(net'[a][b], m) => In(net[a][b], m)
  BY CrashEffect
<1>4. SteadyMail'
  BY <1>3, MailSteady, SteadyMailNext
<1>5. QED
  BY <1>2, <1>4

LEMMA ConnectSteady ==
  ASSUME ElectionInv, SteadyNodes, SteadyMail, SteadyLinks,
         NEW c \in Computers, NEW d \in Computers, Connect(d, c)
  PROVE  SteadyNodes' /\ SteadyMail' /\ SteadyLinks'
<1>1. /\ node' = node /\ links' = links \cup {{c, d}}
      /\ f_connected' = [f_connected EXCEPT ![d] = f_connected[d] \cup {c}]
  BY ConnectEffect
<1>2. PICK n : net' \in {net, ToSelf(net, c, ClusterMessage(n))}
  BY ConnectEffect
<1>3. SteadyMail'
  BY <1>2, ToldSteady
<1>4. SteadyNodes'
  BY <1>1 DEF SteadyNodes
<1>5. f_connected \in [Computers -> SUBSET Computers]
  BY DEF ElectionInv, TypeOK
<1>6. SteadyLinks'
  BY <1>1, <1>5 DEF SteadyLinks
<1>7. QED
  BY <1>3, <1>4, <1>6

LEMMA SteadyInit == Init => SteadyInv
<1>1. SUFFICES ASSUME Init PROVE SteadyNodes /\ SteadyMail /\ SteadyLinks
  BY DEF SteadyInv
<1>2. \A c \in Computers : ~node[c].up
  BY <1>1 DEF Init
<1>3. \A c, d \in Computers : net[c][d] = <<>> /\ f_connected[d] = {}
  BY <1>1 DEF Init
<1>4. QED
  BY <1>2, <1>3 DEF SteadyNodes, SteadyMail, SteadyLinks

\* a connection that breaks counts for good; until then an attempt to
\* connect has no former connection to report
LEMMA SteadyNext == ElectionInv /\ SteadyInv /\ [Next]_vars => SteadyInv'
<1> SUFFICES ASSUME ElectionInv, SteadyInv, [Next]_vars, hangups' = 0
             PROVE  SteadyNodes' /\ SteadyMail' /\ SteadyLinks'
  BY DEF SteadyInv, Steady
<1>1. ASSUME NEW c \in Computers, NEW d \in Computers, Hangup(c, d) PROVE FALSE
  BY <1>1 DEF Hangup, ElectionInv, TypeOK
<1>2. hangups = 0
  <2>1. ASSUME NEW c \in Computers, NEW d \in Computers,
               Receive(c, d) \/ Connect(c, d) \/ ConnectionFailed(c, d)
        PROVE  hangups' = hangups
    BY <2>1 DEF Receive, Connect, ConnectionFailed
  <2>2. ASSUME NEW c \in Computers, Start(c) \/ Crash(c) \/ Pace(c)
        PROVE  hangups' = hangups
    BY <2>2 DEF Start, Crash, Pace
  <2>3. ASSUME NEW r \in Requests, Lock(r) \/ Cleanup(r)
        PROVE  hangups' = hangups
    BY <2>3 DEF Lock, Cleanup
  <2>4. UNCHANGED vars => hangups' = hangups
    BY DEF vars
  <2>5. QED
    BY <1>1, <2>1, <2>2, <2>3, <2>4 DEF Next
<1>3. SteadyNodes /\ SteadyMail /\ SteadyLinks
  BY <1>2 DEF SteadyInv, Steady
<1>4. ASSUME NEW c \in Computers, NEW d \in Computers, ConnectionFailed(c, d) PROVE FALSE
  BY <1>3, <1>4 DEF ConnectionFailed, SteadyLinks
<1>5. ASSUME NEW c \in Computers, NEW d \in Computers, Receive(c, d) \/ Connect(c, d)
      PROVE  SteadyNodes' /\ SteadyMail' /\ SteadyLinks'
  BY <1>3, <1>5, ReceiveSteady, ConnectSteady
<1>6. ASSUME NEW c \in Computers, Start(c) \/ Crash(c) \/ Pace(c)
      PROVE  SteadyNodes' /\ SteadyMail' /\ SteadyLinks'
  BY <1>3, <1>6, StartSteady, CrashSteady, PaceSteady
<1>7. ASSUME NEW r \in Requests, Lock(r) \/ Cleanup(r)
      PROVE  SteadyNodes' /\ SteadyMail' /\ SteadyLinks'
  BY <1>3, <1>7, LockSteady, CleanupSteady
<1>8. CASE UNCHANGED vars
  BY <1>3, <1>8 DEF vars, SteadyNodes, SteadyMail, SteadyLinks
<1>9. QED
  BY <1>1, <1>4, <1>5, <1>6, <1>7, <1>8 DEF Next

(***************************************************************************)
(* As long as no connection broke, no LOCK is left in the cache of a       *)
(* snaplock that is ready, for any number of computers, restarts and       *)
(* messages in transit: the status is never LOCKREADY while is_ready()     *)
(* says no, so that a LOCK that is cached always finds a change of status  *)
(* still to come.                                                          *)
(***************************************************************************)
THEOREM NoLockLeftBehind == Spec => []CacheReplayed
<1>1. ElectionInv /\ SteadyInv => CacheReplayed
  BY DEF SteadyInv, SteadyNodes, Replayed, CacheReplayed, Ready
<1>2. Init => ElectionInv /\ SteadyInv
  BY InitInv, SteadyInit
<1>3. ElectionInv /\ SteadyInv /\ [Next]_vars => (ElectionInv /\ SteadyInv)'
  BY NextInv, SteadyNext
<1>4. QED
  BY <1>1, <1>2, <1>3, PTL DEF Spec

-----------------------------------------------------------------------------
(***************************************************************************)
(* Daemons that are ready with the same election have the same leaders.    *)
(* A history of the elections, the leaders of each date, explains the      *)
(* leaders of all daemons and of all messages in transit.                  *)
(***************************************************************************)
NamesOf(ids) == [i \in 1..Len(ids) |-> ids[i].name]

History == {E \in [Nat -> Seq(Computers)] : E[0] = <<>>}

\* the elections up to k are the same
Extends(F, E, k) == \A j \in 0..k : F[j] = E[j]

NodeAgrees(E, k, s) ==
  s.leaders = <<>> \/ (s.election_date \in 0..k /\ s.leaders = E[s.election_date])

LetterAgrees(E, k, m) ==
  m.cmd \in {"LOCKLEADERS", "LOCKSTARTED"} =>
    m.election_date \in 0..k /\ NamesOf(m.leaders) = E[m.election_date]

OutAgrees(E, k, out) == \A j \in 1..Len(out) : LetterAgrees(E, k, out[j].msg)

WorkAgrees(E, s) == NodeAgrees(E, s.clock, s) /\ OutAgrees(E, s.clock, s.out)

Agrees(E) ==
  /\ \A c \in Computers : NodeAgrees(E, clock, node[c])
  /\ \A a, b \in Computers : \A m : In(net[a][b], m) => LetterAgrees(E, clock, m)

Agreed == \E E \in History : Agrees(E)

LEMMA AgreesLater ==
  ASSUME NEW E, NEW F, NEW k \in Nat, NEW l \in Nat, k <= l, Extends(F, E, k)
  PROVE  /\ \A s : NodeAgrees(E, k, s) => NodeAgrees(F, l, s)
         /\ \A m : LetterAgrees(E, k, m) => LetterAgrees(F, l, m)
         /\ \A out : OutAgrees(E, k, out) => OutAgrees(F, l, out)
<1>1. \A j \in 0..k : j \in 0..l /\ F[j] = E[j]
  BY DEF Extends
<1>2. \A s : NodeAgrees(E, k, s) => NodeAgrees(F, l, s)
  BY <1>1 DEF NodeAgrees
<1>3. \A m : LetterAgrees(E, k, m) => LetterAgrees(F, l, m)
  BY <1>1 DEF LetterAgrees
<1>4. QED
  BY <1>2, <1>3 DEF OutAgrees

LEMMA NamesOfIds ==
  ASSUME NEW s, OK(s)
  PROVE  NamesOf(Ids(s)) = s.leaders
<1>1. s.leaders \in Seq(Computers) /\ Len(s.leaders) \in Nat
  BY WorkFields DEF OK
<1>2. Len(Ids(s)) = Len(s.leaders)
  BY IdsTypes
<1>3. \A i \in 1..Len(s.leaders) : Ids(s)[i].name = s.leaders[i]
  BY DEF Ids
<1>4. s.leaders = [i \in 1..Len(s.leaders) |-> s.leaders[i]]
  <2>1. \A q \in Seq(Computers) : q = [i \in 1..Len(q) |-> q[i]]
    OBVIOUS
  <2>2. QED
    BY <1>1, <2>1
<1>5. NamesOf(Ids(s)) = [i \in 1..Len(s.leaders) |-> s.leaders[i]]
  <2> DEFINE n == Len(s.leaders)
             q == Ids(s)
  <2>1. Len(q) = n /\ \A i \in 1..n : q[i].name = s.leaders[i]
    BY <1>2, <1>3
  <2> HIDE DEF n, q
  <2>2. NamesOf(q) = [i \in 1..n |-> s.leaders[i]]
    BY <2>1 DEF NamesOf
  <2>3. QED
    BY <2>2 DEF n, q
<1>6. QED
  BY <1>4, <1>5

LEMMA StartedAgrees ==
  ASSUME NEW E \in History, NEW k \in Nat, NEW s, OK(s), NodeAgrees(E, k, s),
         NEW c, NEW b \in BOOLEAN
  PROVE  LetterAgrees(E, k, LockStarted(c, s, b))
<1> DEFINE m == LockStarted(c, s, b)
<1>1. /\ NamesOf(m.leaders) = s.leaders
      /\ m.election_date = IF s.leaders = <<>> THEN 0 ELSE s.election_date
  BY NamesOfIds DEF LockStarted
<1> HIDE DEF m
<1>2. m.election_date \in 0..k /\ NamesOf(m.leaders) = E[m.election_date]
  <2>1. CASE s.leaders = <<>>
    <3>1. m.election_date = 0 /\ 0 \in 0..k /\ E[0] = <<>>
      BY <1>1, <2>1 DEF History
    <3>2. QED
      BY <1>1, <2>1, <3>1
  <2>2. CASE s.leaders # <<>>
    <3>1. m.election_date = s.election_date
      BY <1>1, <2>2
    <3>2. QED
      BY <1>1, <2>2, <3>1 DEF NodeAgrees
  <2>3. QED
    BY <2>1, <2>2
<1>3. QED
  BY <1>2 DEF LetterAgrees, m

LEMMA OutMore ==
  ASSUME NEW E, NEW k, NEW out \in Seq(Post), OutAgrees(E, k, out),
         NEW T \in SUBSET Computers, NEW m \in Letter, LetterAgrees(E, k, m)
  PROVE  OutAgrees(E, k, Append(out, [to |-> T, msg |-> m]))
<1> DEFINE p == [to |-> T, msg |-> m]
<1>1. p.msg = m /\ p \in Post
  BY DEF Post
<1> HIDE DEF p
<1>2. /\ Len(out) \in Nat /\ Len(Append(out, p)) = Len(out) + 1
      /\ \A j \in 1..Len(out) : Append(out, p)[j] = out[j]
      /\ Append(out, p)[Len(out) + 1] = p
  BY <1>1
<1>3. \A j \in 1..(Len(out) + 1) : j \in 1..Len(out) \/ j = Len(out) + 1
  BY <1>2
<1>4. OutAgrees(E, k, Append(out, p))
  BY <1>1, <1>2, <1>3 DEF OutAgrees
<1>5. QED
  BY <1>4 DEF p

LEMMA AgreesSend ==
  ASSUME NEW E \in History, NEW s, OK(s), WorkAgrees(E, s),
         NEW T \in SUBSET Computers, NEW m \in Letter, LetterAgrees(E, s.clock, m)
  PROVE  WorkAgrees(E, Send(s, T, m)) /\ Send(s, T, m).clock = s.clock
<1> DEFINE t == Send(s, T, m)
<1>1. SameElectorate(s, t) /\ t.out = Append(s.out, [to |-> T, msg |-> m])
  BY SendOK
<1>2. s.out \in Seq(Post)
  BY WorkFields DEF OK
<1> HIDE DEF t
<1>3. OutAgrees(E, s.clock, t.out)
  BY <1>1, <1>2, OutMore DEF WorkAgrees
<1>4. WorkAgrees(E, t) /\ t.clock = s.clock
  BY <1>1, <1>3 DEF WorkAgrees, NodeAgrees, SameElectorate
<1>5. QED
  BY <1>4 DEF t

LEMMA AgreesAfterIsReady ==
  ASSUME NEW E \in History, NEW s, OK(s), WorkAgrees(E, s), NEW c
  PROVE  WorkAgrees(E, AfterIsReady(c, s)) /\ AfterIsReady(c, s).clock = s.clock
<1> DEFINE t == AfterIsReady(c, s)
           m == LockStarted(c, s, FALSE)
<1>1. /\ SameElectorate(s, t)
      /\ \/ t.out = s.out
         \/ \E i \in Distant(s) : t.out = Append(s.out, [to |-> {s.leaders[i]}, msg |-> m])
  BY AfterIsReadyOK
<1>2. s.clock \in Nat /\ s.out \in Seq(Post)
  BY WorkFields DEF OK
<1>3. m \in Letter /\ LetterAgrees(E, s.clock, m)
  BY <1>2, LockStartedTypes, StartedAgrees DEF WorkAgrees
<1> HIDE DEF t, m
<1>4. ASSUME NEW i \in Distant(s)
      PROVE  OutAgrees(E, s.clock, Append(s.out, [to |-> {s.leaders[i]}, msg |-> m]))
  <2>1. {s.leaders[i]} \in SUBSET Computers
    BY LeaderTypes DEF Distant, OK
  <2>2. QED
    BY <1>2, <1>3, <2>1, OutMore DEF WorkAgrees
<1>5. OutAgrees(E, s.clock, t.out)
  BY <1>1, <1>4 DEF WorkAgrees
<1>6. WorkAgrees(E, t) /\ t.clock = s.clock
  BY <1>1, <1>5 DEF WorkAgrees, NodeAgrees, SameElectorate
<1>7. QED
  BY <1>6 DEF t

LEMMA AgreesCheck ==
  ASSUME NEW E \in History, NEW s, OK(s), WorkAgrees(E, s), NEW c
  PROVE  WorkAgrees(E, check_lock_status(c, s)) /\ check_lock_status(c, s).clock = s.clock
<1> DEFINE u == check_lock_status(c, s)
           t == AfterIsReady(c, s)
<1>1. SameElectorate(s, u) /\ u.out = t.out
  BY CheckOK
<1>2. WorkAgrees(E, t) /\ t.clock = s.clock
  BY AgreesAfterIsReady
<1> HIDE DEF t, u
<1>3. WorkAgrees(E, u) /\ u.clock = s.clock
  BY <1>1, <1>2 DEF WorkAgrees, NodeAgrees, SameElectorate
<1>4. QED
  BY <1>3 DEF u

\* an election adds to the history
LEMMA AgreesElect ==
  ASSUME NEW E \in History, NEW s, OK(s), WorkAgrees(E, s), NEW c
  PROVE  \E F \in History :
           /\ Extends(F, E, s.clock)
           /\ WorkAgrees(F, Elect(c, s))
           /\ Elect(c, s).clock = s.clock + 1
<1> DEFINE k == s.clock + 1
           L == Elected(s)
           F == [E EXCEPT ![k] = L]
           t == [s EXCEPT !.leaders = L, !.clock = k, !.election_date = k]
           m == LeadersMessage(t)
<1>1. s \in Work /\ s.clock \in Nat /\ k \in Nat /\ L \in Seq(Computers)
  BY WorkFields, ElectedOK DEF OK
<1>2. Elect(c, s) = Send(t, Computers, m)
  BY <1>1 DEF Elect, LeadersMessage, Work
<1>3. /\ t \in Work /\ t.leaders = L /\ t.computers = s.computers
      /\ t.clock = k /\ t.election_date = k /\ t.out = s.out
  <2> HIDE DEF L, k
  <2>1. QED
    BY <1>1 DEF Work
<1>4. m.election_date = t.election_date /\ m.cmd = "LOCKLEADERS" /\ m.leaders = Ids(t)
  BY DEF LeadersMessage
<1> HIDE DEF t
<1>5. OK(t)
  BY <1>1, <1>3, ElectedOK DEF OK, LeadersOK
<1>6. m \in Letter
  BY <1>5, LeadersMessageTypes
<1>7. NamesOf(m.leaders) = L
  BY <1>3, <1>4, <1>5, NamesOfIds
<1> HIDE DEF L, m
<1>8. F \in [Nat -> Seq(Computers)] /\ F[k] = L /\ \A j \in Nat \ {k} : F[j] = E[j]
  BY <1>1 DEF History
<1>9. F \in History
  <2>1. 0 \in Nat \ {k} /\ E[0] = <<>>
    BY <1>1 DEF History
  <2>2. QED
    BY <1>8, <2>1 DEF History
<1>10. Extends(F, E, s.clock)
  <2>1. \A j \in 0..s.clock : j \in Nat \ {k}
    BY <1>1
  <2>2. QED
    BY <1>8, <2>1 DEF Extends
<1> HIDE DEF F
<1>11. LetterAgrees(F, k, m) /\ NodeAgrees(F, k, t)
  BY <1>1, <1>3, <1>4, <1>7, <1>8 DEF LetterAgrees, NodeAgrees
<1>12. OutAgrees(F, k, t.out)
  BY <1>1, <1>3, <1>10, AgreesLater DEF WorkAgrees
<1>13. WorkAgrees(F, t)
  BY <1>3, <1>11, <1>12 DEF WorkAgrees
<1>14. WorkAgrees(F, Send(t, Computers, m)) /\ Send(t, Computers, m).clock = k
  BY <1>3, <1>5, <1>6, <1>9, <1>11, <1>13, AgreesSend
<1>15. QED
  BY <1>2, <1>9, <1>10, <1>14

-----------------------------------------------------------------------------
(***************************************************************************)
(* The handlers and the history.                                           *)
(***************************************************************************)
\* what a handler makes of s: it goes on with the history or adds to it
GoesOn(E, s, t) ==
  /\ t.clock \in Nat /\ s.clock <= t.clock
  /\ \E F \in History : Extends(F, E, s.clock) /\ WorkAgrees(F, t)

LEMMA GoesOnSame ==
  ASSUME NEW E \in History, NEW s, s.clock \in Nat, NEW t, t.clock = s.clock,
         WorkAgrees(E, t)
  PROVE  GoesOn(E, s, t)
<1>1. Extends(E, E, s.clock)
  BY DEF Extends
<1>2. QED
  BY <1>1 DEF GoesOn

LEMMA AgreesElection ==
  ASSUME NEW E \in History, NEW s, OK(s), WorkAgrees(E, s), NEW c
  PROVE  GoesOn(E, s, election_status(c, s))
<1>1. s.clock \in Nat
  BY WorkFields DEF OK
<1>2. GoesOn(E, s, check_lock_status(c, s))
  BY <1>1, AgreesCheck, GoesOnSame
<1>3. GoesOn(E, s, s)
  BY <1>1, GoesOnSame
<1>4. GoesOn(E, s, check_lock_status(c, Elect(c, s)))
  <2> DEFINE t == Elect(c, s)
             u == check_lock_status(c, t)
  <2>1. PICK F \in History :
          Extends(F, E, s.clock) /\ WorkAgrees(F, t) /\ t.clock = s.clock + 1
    BY AgreesElect
  <2>2. OK(t)
    BY ElectOK
  <2> HIDE DEF t
  <2>3. WorkAgrees(F, u) /\ u.clock = t.clock
    BY <2>1, <2>2, AgreesCheck
  <2> HIDE DEF u
  <2>4. GoesOn(E, s, u)
    BY <1>1, <2>1, <2>3 DEF GoesOn
  <2>5. QED
    BY <2>4 DEF u, t
<1>5. QED
  BY <1>2, <1>3, <1>4 DEF election_status

LEMMA SetLeadersDate ==
  ASSUME NEW s \in Work, NEW ids
  PROVE  /\ set_leaders(s, ids).leaders = NamesOf(ids)
         /\ set_leaders(s, ids).election_date = s.election_date
         /\ set_leaders(s, ids).clock = s.clock
         /\ set_leaders(s, ids).out = s.out
BY DEF set_leaders, NamesOf, Work

LEMMA NamesElected ==
  ASSUME NEW E \in History, NEW k, NEW m \in Letter, LetterAgrees(E, k, m),
         m.cmd \in {"LOCKLEADERS", "LOCKSTARTED"}
  PROVE  m.election_date \in 0..k /\ NamesOf(m.leaders) = E[m.election_date]
BY DEF LetterAgrees

LEMMA AgreesClusterUp ==
  ASSUME NEW E \in History, NEW s, OK(s), WorkAgrees(E, s), NEW c \in Computers,
         NEW m \in Letter, m.cmd = "CLUSTERUP"
  PROVE  GoesOn(E, s, msg_cluster_up(c, s, m))
<1> DEFINE t == [s EXCEPT !.neighbors_count = m.neighbors_count]
           u == election_status(c, t)
           x == LockStarted(c, u, TRUE)
           v == Send(u, Computers \ {c}, x)
<1>1. m.neighbors_count \in Nat /\ s \in Work /\ s.clock \in Nat
  BY LetterFields, WorkFields DEF OK
<1>2. /\ t \in Work /\ t.leaders = s.leaders /\ t.computers = s.computers
      /\ t.election_date = s.election_date /\ t.clock = s.clock /\ t.out = s.out
  BY <1>1 DEF Work
<1>3. msg_cluster_up(c, s, m) = v
  BY DEF msg_cluster_up, send_lockstarted
<1> HIDE DEF t
<1>4. OK(t) /\ WorkAgrees(E, t)
  BY <1>2 DEF OK, LeadersOK, WorkAgrees, NodeAgrees
<1>5. OK(u) /\ GoesOn(E, t, u)
  BY <1>4, ElectionOK, AgreesElection
<1> HIDE DEF u
<1>6. /\ u.clock \in Nat /\ s.clock <= u.clock
      /\ \E F \in History : Extends(F, E, s.clock) /\ WorkAgrees(F, u)
  BY <1>2, <1>5 DEF GoesOn
<1>7. PICK F \in History : Extends(F, E, s.clock) /\ WorkAgrees(F, u)
  BY <1>6
<1>8. x \in Letter /\ LetterAgrees(F, u.clock, x)
  BY <1>5, <1>6, <1>7, LockStartedTypes, StartedAgrees DEF WorkAgrees
<1> HIDE DEF x
<1>9. WorkAgrees(F, v) /\ v.clock = u.clock
  BY <1>5, <1>7, <1>8, AgreesSend
<1> HIDE DEF v
<1>10. GoesOn(E, s, v)
  BY <1>6, <1>7, <1>9 DEF GoesOn
<1>11. QED
  BY <1>3, <1>10

LEMMA AgreesClusterDown ==
  ASSUME NEW E \in History, NEW s, OK(s), WorkAgrees(E, s), NEW c \in Computers
  PROVE  GoesOn(E, s, msg_cluster_down(c, s))
<1> DEFINE none == <<>>
           t == [s EXCEPT !.leaders = none]
<1>1. s \in Work /\ none \in Seq(Computers) /\ s.clock \in Nat
  BY WorkFields DEF OK
<1>2. msg_cluster_down(c, s) = check_lock_status(c, t)
  BY DEF msg_cluster_down
<1> HIDE DEF none
<1>3. /\ t \in Work /\ t.leaders = none /\ t.clock = s.clock /\ t.out = s.out
  BY <1>1 DEF Work
<1> HIDE DEF t
<1>4. OK(t) /\ WorkAgrees(E, t)
  BY <1>3, NoLeaders DEF WorkAgrees, NodeAgrees, none
<1>5. QED
  BY <1>1, <1>2, <1>3, <1>4, AgreesCheck, GoesOnSame

LEMMA AgreesLockLeaders ==
  ASSUME NEW E \in History, NEW s, OK(s), WorkAgrees(E, s), NEW c \in Computers,
         NEW m \in Letter, m.cmd = "LOCKLEADERS", LetterAgrees(E, s.clock, m)
  PROVE  GoesOn(E, s, msg_lock_leaders(c, s, m))
<1> DEFINE t == [s EXCEPT !.election_date = m.election_date]
           u == set_leaders(t, m.leaders)
<1>1. /\ s \in Work /\ m.election_date \in Nat /\ m.leaders \in Seq(LeaderId)
      /\ Names(m.leaders) /\ s.clock \in Nat
  BY LetterFields, WorkFields DEF OK
<1>2. /\ t \in Work /\ t.election_date = m.election_date /\ t.clock = s.clock
      /\ t.out = s.out
  BY <1>1 DEF Work
<1>3. msg_lock_leaders(c, s, m) = check_lock_status(c, u)
  BY DEF msg_lock_leaders
<1> HIDE DEF t
<1>4. OK(u)
  BY <1>1, <1>2, SetLeadersOK
<1>5. /\ u.leaders = NamesOf(m.leaders) /\ u.election_date = m.election_date
      /\ u.clock = s.clock /\ u.out = s.out
  BY <1>2, SetLeadersDate
<1> HIDE DEF u
<1>6. WorkAgrees(E, u)
  BY <1>5, NamesElected DEF WorkAgrees, NodeAgrees
<1>7. QED
  BY <1>1, <1>3, <1>4, <1>5, <1>6, AgreesCheck, GoesOnSame

\* a LOCKSTARTED of an older election finds leaders, or nothing was elected
LEMMA AgreesLearned ==
  ASSUME NEW E \in History, NEW s, OK(s), WorkAgrees(E, s), NEW d \in Computers,
         s.leaders = <<>> => s.election_date = 0,
         NEW m \in Letter, m.cmd = "LOCKSTARTED", LetterAgrees(E, s.clock, m)
  PROVE  WorkAgrees(E, Learned(s, d, m)) /\ Learned(s, d, m).clock = s.clock
<1> DEFINE v == Meet(s, d, m)
           t == Newer(v, m)
           u == set_leaders(t, m.leaders)
<1>1. /\ m.election_date \in 0..s.clock
      /\ NamesOf(m.leaders) = E[m.election_date]
      /\ m.election_date \in Nat /\ s.election_date \in Nat /\ s.clock \in Nat
  BY NamesElected, LetterFields, WorkFields DEF OK
<1>2. /\ OK(v) /\ v.leaders = s.leaders /\ v.election_date = s.election_date
      /\ v.out = s.out
  BY MeetOK
<1>3. v.clock = s.clock
  BY DEF Meet, OK, Work
<1> HIDE DEF v
<1>4. /\ t.clock = s.clock /\ t.out = s.out
      /\ IF m.election_date > s.election_date
         THEN t.election_date = m.election_date /\ t.leaders = <<>>
         ELSE t.election_date = s.election_date /\ t.leaders = s.leaders
  <2> DEFINE none == <<>>
             y == [v EXCEPT !.election_date = m.election_date, !.leaders = none]
  <2>1. t = IF m.election_date > v.election_date THEN y ELSE v
    BY DEF Newer
  <2> HIDE DEF none
  <2>2. /\ y.clock = v.clock /\ y.out = v.out /\ y.election_date = m.election_date
        /\ y.leaders = none
    BY <1>2 DEF OK, Work
  <2> HIDE DEF y, t
  <2>3. QED
    BY <1>2, <1>3, <2>1, <2>2 DEF none
<1>5. OK(t)
  BY <1>2, NewerOK
<1>6. Learned(s, d, m) = IF t.leaders = <<>> THEN u ELSE t
  BY DEF Learned, v
<1> HIDE DEF t
<1>7. /\ u.leaders = NamesOf(m.leaders) /\ u.election_date = t.election_date
      /\ u.clock = s.clock /\ u.out = s.out
  BY <1>4, <1>5, SetLeadersDate DEF OK
<1> HIDE DEF u
<1>8. CASE t.leaders = <<>>
  <2>1. t.election_date = m.election_date
    BY <1>1, <1>4, <1>8
  <2>2. WorkAgrees(E, u)
    BY <1>1, <1>7, <2>1 DEF WorkAgrees, NodeAgrees
  <2>3. QED
    BY <1>6, <1>7, <1>8, <2>2
<1>9. CASE t.leaders # <<>>
  <2>1. t.election_date = s.election_date /\ t.leaders = s.leaders
    BY <1>4, <1>9
  <2>2. WorkAgrees(E, t)
    BY <1>4, <2>1 DEF WorkAgrees, NodeAgrees
  <2>3. QED
    BY <1>4, <1>6, <1>9, <2>2
<1>10. QED
  BY <1>8, <1>9

LEMMA AgreesLockStarted ==
  ASSUME NEW E \in History, NEW s, OK(s), WorkAgrees(E, s),
         NEW c \in Computers, NEW d \in Computers,
         s.leaders = <<>> => s.election_date = 0,
         NEW m \in Letter, m.cmd = "LOCKSTARTED", LetterAgrees(E, s.clock, m)
  PROVE  GoesOn(E, s, msg_lock_started(c, s, d, m))
<1> DEFINE w == Learned(s, d, m)
           u == election_status(c, w)
           x == LockStarted(c, u, FALSE)
           v == Send(u, {d}, x)
<1>1. OK(w) /\ WorkAgrees(E, w) /\ w.clock = s.clock
  BY LearnedOK, AgreesLearned
<1>2. msg_lock_started(c, s, d, m) \in {u, v}
  BY StartedIs DEF reply_lockstarted
<1> HIDE DEF w
<1>3. OK(u) /\ GoesOn(E, w, u)
  BY <1>1, ElectionOK, AgreesElection
<1> HIDE DEF u
<1>4. /\ u.clock \in Nat /\ s.clock <= u.clock
      /\ \E F \in History : Extends(F, E, s.clock) /\ WorkAgrees(F, u)
  BY <1>1, <1>3 DEF GoesOn
<1>5. PICK F \in History : Extends(F, E, s.clock) /\ WorkAgrees(F, u)
  BY <1>4
<1>6. x \in Letter /\ LetterAgrees(F, u.clock, x)
  BY <1>3, <1>4, <1>5, LockStartedTypes, StartedAgrees DEF WorkAgrees
<1> HIDE DEF x
<1>7. WorkAgrees(F, v) /\ v.clock = u.clock
  BY <1>3, <1>5, <1>6, AgreesSend
<1> HIDE DEF v
<1>8. GoesOn(E, s, u) /\ GoesOn(E, s, v)
  BY <1>4, <1>5, <1>7 DEF GoesOn
<1>9. QED
  BY <1>2, <1>8

LEMMA AgreesHandle ==
  ASSUME NEW E \in History, NEW s, OK(s), WorkAgrees(E, s),
         NEW c \in Computers, NEW d \in Computers,
         s.leaders = <<>> => s.election_date = 0,
         NEW m \in Letter, m.cmd # "HANGUP", LetterAgrees(E, s.clock, m)
  PROVE  GoesOn(E, s, Handle(c, s, d, m))
<1>1. CASE m.cmd = "CLUSTERUP"
  <2>1. Handle(c, s, d, m) = msg_cluster_up(c, s, m)
    BY <1>1 DEF Handle
  <2>2. QED
    BY <1>1, <2>1, AgreesClusterUp
<1>2. CASE m.cmd = "CLUSTERDOWN"
  <2>1. Handle(c, s, d, m) = msg_cluster_down(c, s)
    BY <1>2 DEF Handle
  <2>2. QED
    BY <2>1, AgreesClusterDown
<1>3. CASE m.cmd = "LOCKLEADERS"
  <2>1. Handle(c, s, d, m) = msg_lock_leaders(c, s, m)
    BY <1>3 DEF Handle
  <2>2. QED
    BY <1>3, <2>1, AgreesLockLeaders
<1>4. CASE m.cmd = "LOCKSTARTED"
  <2>1. Handle(c, s, d, m) = msg_lock_started(c, s, d, m)
    BY <1>4 DEF Handle
  <2>2. QED
    BY <1>4, <2>1, AgreesLockStarted
<1>5. QED
  BY <1>1, <1>2, <1>3, <1>4, LetterFields

LEMMA AgreesLock ==
  ASSUME NEW E \in History, NEW s, OK(s), WorkAgrees(E, s), NEW c \in Computers,
         NEW r \in Requests
  PROVE  GoesOn(E, s, msg_lock(c, s, r))
<1> DEFINE t == AfterIsReady(c, s)
           u == [s EXCEPT !.handed = s.handed \cup {r}]
           v == [t EXCEPT !.message_cache = t.message_cache \cup {r}]
<1>1. OK(t) /\ WorkAgrees(E, t) /\ t.clock = s.clock /\ s.clock \in Nat
  BY AfterIsReadyOK, AgreesAfterIsReady, WorkFields DEF OK
<1>2. msg_lock(c, s, r) = IF is_ready(s) THEN u ELSE v
  BY <1>1 DEF msg_lock, OK, Work
<1> HIDE DEF t
<1>3. /\ u.leaders = s.leaders /\ u.election_date = s.election_date
      /\ u.clock = s.clock /\ u.out = s.out
  BY DEF OK, Work
<1>4. /\ v.leaders = t.leaders /\ v.election_date = t.election_date
      /\ v.clock = t.clock /\ v.out = t.out
  BY <1>1 DEF OK, Work
<1> HIDE DEF u, v
<1>5. WorkAgrees(E, u) /\ WorkAgrees(E, v)
  BY <1>1, <1>3, <1>4 DEF WorkAgrees, NodeAgrees
<1>6. QED
  BY <1>1, <1>2, <1>3, <1>4, <1>5, GoesOnSame

-----------------------------------------------------------------------------
(***************************************************************************)
(* The actions on an undisturbed cluster.                                  *)
(***************************************************************************)
\* the state after a step, with the history F
LEMMA AgreedNext ==
  ASSUME NEW F \in History,
         \A c \in Computers : NodeAgrees(F, clock', node'[c]),
         \A a, b \in Computers : \A m : In(net'[a][b], m) => LetterAgrees(F, clock', m)
  PROVE  Agreed'
<1>1. Agrees(F)'
  BY DEF Agrees, NodeAgrees, LetterAgrees, In, NamesOf
<1>2. QED
  BY <1>1 DEF Agreed, History

LEMMA HandlerAgrees ==
  ASSUME ElectionInv, NEW E \in History, Agrees(E), NEW c \in Computers,
         NEW s, OK(s), GoesOn(E, Run(c), s), Finish(c, s), Reached(net', net, c, s.out)
  PROVE  Agreed'
<1>1. clock \in Nat /\ Run(c).clock = clock
  BY DEF ElectionInv, TypeOK, Run
<1>2. PICK F \in History : Extends(F, E, clock) /\ WorkAgrees(F, s)
  BY <1>1 DEF GoesOn
<1>3. s.clock \in Nat /\ clock <= s.clock
  BY <1>1 DEF GoesOn
<1>4. /\ \A x : NodeAgrees(E, clock, x) => NodeAgrees(F, s.clock, x)
      /\ \A m : LetterAgrees(E, clock, m) => LetterAgrees(F, s.clock, m)
  BY <1>1, <1>2, <1>3, AgreesLater
<1>5. /\ clock' = s.clock
      /\ node'[c].leaders = s.leaders /\ node'[c].election_date = s.election_date
  BY DEF Finish, ElectionInv, TypeOK
<1>6. \A d \in Computers \ {c} : node'[d] = node[d]
  BY FinishOK DEF ElectionInv
<1>7. ASSUME NEW d \in Computers PROVE NodeAgrees(F, s.clock, node'[d])
  <2>1. CASE d = c
    BY <1>2, <1>5, <2>1 DEF WorkAgrees, NodeAgrees
  <2>2. CASE d # c
    BY <1>4, <1>6, <2>2 DEF Agrees
  <2>3. QED
    BY <2>1, <2>2
<1>8. ASSUME NEW a \in Computers, NEW b \in Computers, NEW m, In(net'[a][b], m)
      PROVE  LetterAgrees(F, s.clock, m)
  <2>1. CASE In(net[a][b], m)
    BY <1>4, <2>1 DEF Agrees
  <2>2. ASSUME NEW j \in 1..Len(s.out), m = s.out[j].msg
        PROVE  LetterAgrees(F, s.clock, m)
    BY <1>2, <2>2 DEF WorkAgrees, OutAgrees
  <2>3. QED
    BY <1>8, <2>1, <2>2 DEF Reached
<1>9. QED
  BY <1>5, <1>7, <1>8, AgreedNext

LEMMA RunAgrees ==
  ASSUME ElectionInv, NEW E, Agrees(E), Undisturbed, NEW c \in Computers
  PROVE  /\ OK(Run(c)) /\ WorkAgrees(E, Run(c)) /\ Run(c).clock = clock
         /\ Run(c).leaders = <<>> => Run(c).election_date = 0
<1>1. OK(Run(c)) /\ Run(c).leaders = node[c].leaders /\ Run(c).out = <<>>
  BY RunOK DEF ElectionInv
<1>2. Run(c).clock = clock /\ Run(c).election_date = node[c].election_date
  BY DEF Run
<1>3. OutAgrees(E, clock, Run(c).out)
  BY <1>1 DEF OutAgrees
<1>4. NodeAgrees(E, clock, Run(c))
  BY <1>1, <1>2 DEF Agrees, NodeAgrees
<1>5. QED
  BY <1>1, <1>2, <1>3, <1>4 DEF WorkAgrees, Undisturbed

LEMMA ReceiveAgrees ==
  ASSUME ElectionInv, SteadyInv, Undisturbed, Agreed,
         NEW c \in Computers, NEW d \in Computers, Receive(c, d)
  PROVE  Agreed'
<1>1. PICK E \in History : Agrees(E)
  BY DEF Agreed
<1> DEFINE m == Head(net[d][c])
           s == Handle(c, Run(c), d, m)
<1>2. /\ m \in Letter /\ In(net[d][c], m) /\ OK(s) /\ Finish(c, s)
      /\ Reached(net', net, c, s.out)
  BY ReceiveEffect
<1> HIDE DEF m
<1>3. m.cmd # "HANGUP"
  BY <1>2, MailSteady DEF SteadyInv, Undisturbed, SteadyLetter
<1>4. LetterAgrees(E, clock, m)
  BY <1>1, <1>2 DEF Agrees
<1>5. GoesOn(E, Run(c), s)
  BY <1>1, <1>2, <1>3, <1>4, RunAgrees, AgreesHandle
<1> HIDE DEF s
<1>6. QED
  BY <1>1, <1>2, <1>5, HandlerAgrees

LEMMA LockAgrees ==
  ASSUME ElectionInv, Undisturbed, Agreed, NEW r \in Requests, Lock(r)
  PROVE  Agreed'
<1>1. PICK E \in History : Agrees(E)
  BY DEF Agreed
<1> DEFINE c == At[r]
           s == msg_lock(c, Run(c), r)
<1>2. c \in Computers /\ OK(s) /\ Finish(c, s) /\ Reached(net', net, c, s.out)
  BY LockEffect
<1> HIDE DEF c
<1>3. GoesOn(E, Run(c), s)
  BY <1>1, <1>2, RunAgrees, AgreesLock
<1> HIDE DEF s
<1>4. QED
  BY <1>1, <1>2, <1>3, HandlerAgrees

\* no leaders are found and no message of an election is sent
LEMMA OtherAgrees ==
  ASSUME Agreed, clock' = clock,
         \A c \in Computers :
           \/ node'[c].leaders = <<>>
           \/ /\ node'[c].leaders = node[c].leaders
              /\ node'[c].election_date = node[c].election_date,
         \A a, b \in Computers : \A m : In(net'[a][b], m) =>
           In(net[a][b], m) \/ m.cmd \notin {"LOCKLEADERS", "LOCKSTARTED"}
  PROVE  Agreed'
<1>1. PICK E \in History : Agrees(E)
  BY DEF Agreed
<1>2. \A c \in Computers : NodeAgrees(E, clock, node'[c])
  BY <1>1 DEF Agrees, NodeAgrees
<1>3. \A a, b \in Computers : \A m : In(net'[a][b], m) => LetterAgrees(E, clock, m)
  BY <1>1 DEF Agrees, LetterAgrees
<1>4. QED
  BY <1>1, <1>2, <1>3, AgreedNext

\* the snapcommunicator of c told its snaplock about the cluster
LEMMA ToldAgrees ==
  ASSUME ElectionInv, NEW c \in Computers, NEW n,
         net' \in {net, ToSelf(net, c, ClusterMessage(n))}
  PROVE  \A a, b \in Computers : \A m : In(net'[a][b], m) =>
           In(net[a][b], m) \/ m.cmd \notin {"LOCKLEADERS", "LOCKSTARTED"}
<1> DEFINE x == ClusterMessage(n)
<1>1. net \in Mail /\ x \in Letter /\ x.cmd \notin {"LOCKLEADERS", "LOCKSTARTED"}
  BY ClusterLetters DEF ElectionInv, LetterInv
<1> HIDE DEF x
<1>2. CASE net' = net
  BY <1>2
<1>3. CASE net' = ToSelf(net, c, x)
  <2>1. Joined(net', net, c, x)
    BY <1>1, <1>3, OneMore
  <2>2. QED
    BY <1>1, <2>1 DEF Joined
<1>4. QED
  BY <1>2, <1>3 DEF x

LEMMA DaemonAgrees ==
  ASSUME ElectionInv, Agreed, NEW c \in Computers,
         Start(c) \/ Crash(c) \/ Pace(c)
  PROVE  Agreed'
<1>1. node \in [Computers -> Daemon]
  BY DEF ElectionInv, TypeOK
<1>2. CASE Start(c)
  <2>1. PICK x \in Daemon :
          /\ node' = [node EXCEPT ![c] = x] /\ x.leaders = <<>>
          /\ net' = ToSelf(net, c, ClusterMessage(Live(c)))
    BY <1>2, StartEffect
  <2>2. node'[c] = x /\ \A d \in Computers \ {c} : node'[d] = node[d]
    BY <1>1, <2>1
  <2>3. clock' = clock
    BY <1>2 DEF Start
  <2>4. QED
    BY <2>1, <2>2, <2>3, ToldAgrees, OtherAgrees
<1>3. CASE Crash(c)
  <2>1. node' = [node EXCEPT ![c].up = FALSE, ![c].message_cache = {}]
        /\ clock' = clock
    BY <1>3 DEF Crash
  <2>2. \A d \in Computers : /\ node'[d].leaders = node[d].leaders
                             /\ node'[d].election_date = node[d].election_date
    BY <1>1, <2>1 DEF Daemon
  <2>3. \A a, b \in Computers : \A m : In(net'[a][b], m) => In(net[a][b], m)
    BY <1>3, CrashEffect
  <2>4. QED
    BY <2>1, <2>2, <2>3, OtherAgrees
<1>4. CASE Pace(c)
  <2>1. node' = [node EXCEPT ![c].paced = FALSE] /\ clock' = clock /\ net' = net
    BY <1>4 DEF Pace
  <2>2. \A d \in Computers : /\ node'[d].leaders = node[d].leaders
                             /\ node'[d].election_date = node[d].election_date
    BY <1>1, <2>1 DEF Daemon
  <2>3. QED
    BY <2>1, <2>2, OtherAgrees
<1>5. QED
  BY <1>2, <1>3, <1>4

LEMMA CleanupAgrees ==
  ASSUME ElectionInv, Agreed, NEW r \in Requests, Cleanup(r)
  PROVE  Agreed'
<1>1. node \in [Computers -> Daemon] /\ At[r] \in Computers
  BY ElectionAssumption DEF ElectionInv, TypeOK
<1>2. /\ node' = [node EXCEPT ![At[r]].message_cache = node[At[r]].message_cache \ {r}]
      /\ clock' = clock /\ net' = net
  BY DEF Cleanup
<1>3. \A d \in Computers : /\ node'[d].leaders = node[d].leaders
                           /\ node'[d].election_date = node[d].election_date
  BY <1>1, <1>2 DEF Daemon
<1>4. QED
  BY <1>2, <1>3, OtherAgrees

LEMMA ConnectAgrees ==
  ASSUME ElectionInv, Agreed, NEW c \in Computers, NEW d \in Computers, Connect(d, c)
  PROVE  Agreed'
<1>1. node' = node /\ clock' = clock
  BY ConnectEffect
<1>2. PICK n : net' \in {net, ToSelf(net, c, ClusterMessage(n))}
  BY ConnectEffect
<1>3. QED
  BY <1>1, <1>2, ToldAgrees, OtherAgrees

LEMMA AgreedStep ==
  ElectionInv /\ SteadyInv /\ Agreed /\ Undisturbed /\ Undisturbed' /\ [Next]_vars
    => Agreed'
<1> SUFFICES ASSUME ElectionInv, SteadyInv, Agreed, Undisturbed, Undisturbed',
                    [Next]_vars
             PROVE  Agreed'
  OBVIOUS
<1>1. ASSUME NEW c \in Computers, NEW d \in Computers, Hangup(c, d) PROVE FALSE
  BY <1>1 DEF Hangup, Undisturbed, Steady
<1>2. ASSUME NEW c \in Computers, NEW d \in Computers, ConnectionFailed(c, d) PROVE FALSE
  BY <1>2 DEF ConnectionFailed, SteadyInv, SteadyLinks, Undisturbed
<1>3. ASSUME NEW c \in Computers, NEW d \in Computers, Receive(c, d) \/ Connect(c, d)
      PROVE  Agreed'
  BY <1>3, ReceiveAgrees, ConnectAgrees
<1>4. ASSUME NEW c \in Computers, Start(c) \/ Crash(c) \/ Pace(c) PROVE Agreed'
  BY <1>4, DaemonAgrees
<1>5. ASSUME NEW r \in Requests, Lock(r) \/ Cleanup(r) PROVE Agreed'
  BY <1>5, LockAgrees, CleanupAgrees
<1>6. CASE UNCHANGED vars
  BY <1>6, OtherAgrees DEF vars
<1>7. QED
  BY <1>1, <1>2, <1>3, <1>4, <1>5, <1>6 DEF Next

LEMMA AgreedInit == Init => Agreed
<1> SUFFICES ASSUME Init PROVE Agreed
  OBVIOUS
<1> DEFINE none == <<>>
           E == [j \in Nat |-> none]
<1>1. none \in Seq(Computers)
  OBVIOUS
<1>2. E \in History
  BY <1>1 DEF History
<1>3. \A c \in Computers : node[c].leaders = <<>>
  BY DEF Init
<1>4. \A a, b \in Computers : net[a][b] = <<>>
  BY DEF Init
<1>5. Agrees(E)
  BY <1>3, <1>4, NoMail DEF Agrees, NodeAgrees
<1>6. QED
  BY <1>2, <1>5 DEF Agreed

(***************************************************************************)
(* In a cluster of any size, whatever daemons restart and whatever old     *)
(* elections are in transit: daemons that are ready with the same election *)
(* have the same leaders in the same order, as long as no connection broke *)
(* and no daemon lost its leaders to CLUSTERDOWN.                          *)
(***************************************************************************)
THEOREM OneElectionOneSetOfLeaders == Spec => SameElection
<1>1. Init => ElectionInv /\ SteadyInv /\ Agreed
  BY InitInv, SteadyInit, AgreedInit
<1>2. ElectionInv /\ SteadyInv /\ [Next]_vars => (ElectionInv /\ SteadyInv)'
  BY NextInv, SteadyNext
<1>3. ElectionInv /\ SteadyInv /\ Agreed /\ Undisturbed => SameLeaders
  <2> SUFFICES ASSUME ElectionInv, SteadyInv, Agreed, Undisturbed,
                      NEW c \in Computers, NEW d \in Computers,
                      Ready(c), Ready(d),
                      node[c].election_date = node[d].election_date
               PROVE  node[c].leaders = node[d].leaders
    BY DEF SameLeaders
  <2>1. SteadyNodes
    BY DEF SteadyInv, Undisturbed
  <2>2. \A e \in Computers : Ready(e) => Len(node[e].leaders) # 0
    BY <2>1 DEF SteadyNodes, Replayed, Ready, is_ready, EnoughComputers
  <2>3. node[c].leaders # <<>> /\ node[d].leaders # <<>>
    BY <2>2
  <2>4. QED
    BY <2>3 DEF Agreed, Agrees, NodeAgrees
<1>4. QED
  BY <1>1, <1>2, <1>3, AgreedStep, PTL DEF Spec, SameElection

=============================================================================
