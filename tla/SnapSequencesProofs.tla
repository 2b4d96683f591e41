------------------------ MODULE SnapSequencesProofs -------------------------
(***************************************************************************)
(* Induction over the natural numbers in a form the provers can apply (a   *)
(* set instead of a predicate), and what Selected() returns.               *)
(***************************************************************************)
EXTENDS SnapSequences, SequenceTheorems, WellFoundedInduction, TLAPS

(***************************************************************************)
(* A set of natural numbers that is not empty has a least element.         *)
(***************************************************************************)
LEMMA LeastNatural ==
  ASSUME NEW T \in SUBSET Nat, T # {}
  PROVE  \E x \in T : \A y \in T : x <= y
<1> DEFINE R == {ss \in Nat \X Nat : ss[1] < ss[2]}
<1>1. IsWellFoundedOn(OpToRel(<, Nat), Nat)
  BY NatLessThanWellFounded
<1>2. OpToRel(<, Nat) = R
  BY DEF OpToRel
<1>3. IsWellFoundedOn(R, Nat)
  BY <1>1, <1>2
<1> HIDE DEF R
<1>4. PICK x \in T : \A y \in T : <<y, x>> \notin R
  BY <1>3, WFMin
<1>5. ASSUME NEW y \in T PROVE x <= y
  <2>1. x \in Nat /\ y \in Nat
    OBVIOUS
  <2>2. y < x => <<y, x>> \in R
    BY <2>1 DEF R
  <2>3. QED
    BY <1>4, <2>1, <2>2
<1>6. QED
  BY <1>5

(***************************************************************************)
(* Induction: a set of natural numbers that has zero, and n + 1 with n,    *)
(* has all of them.                                                        *)
(***************************************************************************)
LEMMA SetInduction ==
  ASSUME NEW P \in SUBSET Nat, 0 \in P, \A n \in P : n + 1 \in P
  PROVE  P = Nat
<1> DEFINE T == Nat \ P
<1> SUFFICES ASSUME T # {} PROVE FALSE
  OBVIOUS
<1>1. PICK x \in T : \A y \in T : x <= y
  BY LeastNatural
<1>2. x # 0 /\ x \in Nat
  OBVIOUS
<1>3. x - 1 \in P
  BY <1>1, <1>2
<1>4. (x - 1) + 1 = x
  BY <1>2
<1>5. QED
  BY <1>1, <1>3, <1>4

-----------------------------------------------------------------------------
\* h is the function upto of Selected(s, I), on the first n elements
IsUpto(h, s, I, n) ==
  h = [m \in 0..n |->
         IF m = 0 THEN <<>>
         ELSE IF m \in I THEN Append(h[m - 1], s[m]) ELSE h[m - 1]]

(***************************************************************************)
(* The recursion in Selected() defines a function.                         *)
(***************************************************************************)
LEMMA UptoExists ==
  ASSUME NEW s, NEW I, NEW n \in Nat
  PROVE  \E h : IsUpto(h, s, I, n)
<1> DEFINE P == {k \in Nat : \E h : IsUpto(h, s, I, k)}
<1>1. 0 \in P
  <2> DEFINE h == [m \in 0..0 |-> <<>>]
  <2>1. IsUpto(h, s, I, 0)
    BY DEF IsUpto
  <2>2. QED
    BY <2>1
<1>2. ASSUME NEW k \in P PROVE k + 1 \in P
  <2>1. PICK h : IsUpto(h, s, I, k)
    OBVIOUS
  <2> DEFINE g == [m \in 0..(k + 1) |->
        IF m = 0 THEN <<>>
        ELSE IF m \in I THEN Append(h[m - 1], s[m]) ELSE h[m - 1]]
  <2>2. ASSUME NEW m \in 0..k PROVE g[m] = h[m]
    <3>1. h[m] = IF m = 0 THEN <<>>
                 ELSE IF m \in I THEN Append(h[m - 1], s[m]) ELSE h[m - 1]
      BY <2>1, Zenon DEF IsUpto
    <3>2. m \in 0..(k + 1)
      OBVIOUS
    <3>3. QED
      BY <3>1, <3>2
  <2>3. \A m \in 0..(k + 1) : m # 0 => m - 1 \in 0..k
    OBVIOUS
  <2> DEFINE gg == [m \in 0..(k + 1) |->
        IF m = 0 THEN <<>>
        ELSE IF m \in I THEN Append(g[m - 1], s[m]) ELSE g[m - 1]]
  <2> HIDE DEF g
  <2>4. g = gg
    BY <2>2, <2>3 DEF g
  <2>5. IsUpto(g, s, I, k + 1)
    BY <2>4 DEF IsUpto
  <2>6. QED
    BY <2>5
<1>3. P = Nat
  BY <1>1, <1>2, SetInduction
<1>4. QED
  BY <1>3
(***************************************************************************)
(* Selected() is the last value of that function.                          *)
(***************************************************************************)
LEMMA SelectedUpto ==
  ASSUME NEW S, NEW s \in Seq(S), NEW I
  PROVE  \E h : IsUpto(h, s, I, Len(s)) /\ Selected(s, I) = h[Len(s)]
<1> DEFINE h == CHOOSE h : IsUpto(h, s, I, Len(s))
<1>1. Selected(s, I) = h[Len(s)]
  BY DEF Selected, IsUpto
<1>2. Len(s) \in Nat
  OBVIOUS
<1>3. IsUpto(h, s, I, Len(s))
  BY <1>2, UptoExists
<1>4. QED
  BY <1>1, <1>3

\* r consists of the elements of s at the indices of I up to n, in order: f
\* says where each comes from
IsSelection(r, s, I, n, f) ==
  /\ f \in [1..Len(r) -> 1..n]
  /\ \A k \in 1..Len(r) : f[k] \in I /\ r[k] = s[f[k]]
  /\ \A k, l \in 1..Len(r) : k < l => f[k] < f[l]
  /\ \A i \in 1..n : i \in I => \E k \in 1..Len(r) : f[k] = i

(***************************************************************************)
(* What Selected() returns: the elements at the indices of I, each once    *)
(* and in the order of s.                                                  *)
(***************************************************************************)
LEMMA SelectedProperties ==
  ASSUME NEW S, NEW s \in Seq(S), NEW I
  PROVE  /\ Selected(s, I) \in Seq(S)
         /\ \E f : IsSelection(Selected(s, I), s, I, Len(s), f)
<1>1. PICK h : IsUpto(h, s, I, Len(s)) /\ Selected(s, I) = h[Len(s)]
  BY SelectedUpto
<1> DEFINE P == {n \in Nat : n <= Len(s) =>
                   h[n] \in Seq(S) /\ \E f : IsSelection(h[n], s, I, n, f)}
<1>2. 0 \in P
  <2>1. h[0] = <<>>
    BY <1>1 DEF IsUpto
  <2>2. IsSelection(<<>>, s, I, 0, [k \in {} |-> 0])
    BY DEF IsSelection
  <2>3. h[0] \in Seq(S)
    BY <2>1
  <2>4. \E f : IsSelection(h[0], s, I, 0, f)
    BY <2>1, <2>2
  <2>5. QED
    BY <2>3, <2>4
<1>3. ASSUME NEW n \in P PROVE n + 1 \in P
  <2> SUFFICES ASSUME n + 1 <= Len(s)
      PROVE  h[n + 1] \in Seq(S) /\ \E f : IsSelection(h[n + 1], s, I, n + 1, f)
    OBVIOUS
  <2>1. PICK f : IsSelection(h[n], s, I, n, f)
    OBVIOUS
  <2>2. h[n] \in Seq(S) /\ n \in Nat
    OBVIOUS
  <2>3. s[n + 1] \in S
    BY <2>2
  <2>4. n + 1 \in 0..Len(s) /\ n + 1 # 0 /\ (n + 1) - 1 = n
    BY <2>2
  <2>5. h[n + 1] = IF n + 1 \in I THEN Append(h[n], s[n + 1]) ELSE h[n]
    <3>1. h[n + 1] = IF n + 1 = 0 THEN <<>>
                     ELSE IF n + 1 \in I THEN Append(h[(n + 1) - 1], s[n + 1])
                     ELSE h[(n + 1) - 1]
      BY <1>1, <2>4, Zenon DEF IsUpto
    <3>2. QED
      BY <2>4, <3>1
  <2>6. CASE n + 1 \notin I
    <3>1. IsSelection(h[n], s, I, n + 1, f)
      BY <2>1, <2>2, <2>6 DEF IsSelection
    <3>2. QED
      BY <2>2, <2>5, <2>6, <3>1
  <2>7. CASE n + 1 \in I
    <3> DEFINE r == h[n]
               t == Append(r, s[n + 1])
               g == [k \in 1..(Len(r) + 1) |-> IF k = Len(r) + 1 THEN n + 1 ELSE f[k]]
    <3>1. /\ t \in Seq(S)
          /\ Len(t) = Len(r) + 1
          /\ t[Len(r) + 1] = s[n + 1]
          /\ \A k \in 1..Len(r) : t[k] = r[k]
          /\ Len(r) \in Nat
      BY <2>2, <2>3
    <3> HIDE DEF t, r
    <3>2. IsSelection(r, s, I, n, f)
      BY <2>1 DEF r
    <3>3. g \in [1..Len(t) -> 1..(n + 1)]
      BY <3>1, <3>2, <2>2 DEF IsSelection
    <3>4. \A k \in 1..Len(t) : g[k] \in I /\ t[k] = s[g[k]]
      BY <3>1, <3>2, <2>7 DEF IsSelection
    <3>5. ASSUME NEW k \in 1..Len(t), NEW l \in 1..Len(t), k < l
          PROVE  g[k] < g[l]
      <4> HIDE DEF P
      <4>0. k \in 1..Len(r)
        BY <3>1, <3>5
      <4>1. g[k] = f[k] /\ f[k] \in 1..n
        BY <3>1, <3>2, <4>0 DEF IsSelection
      <4>2. CASE l = Len(r) + 1
        BY <3>1, <4>1, <4>2, <2>2
      <4>3. CASE l # Len(r) + 1
        <5>1. l \in 1..Len(r)
          BY <3>1, <4>3
        <5>2. g[l] = f[l] /\ f[k] < f[l]
          BY <3>1, <3>2, <3>5, <4>0, <5>1 DEF IsSelection
        <5>3. QED
          BY <4>1, <5>2
      <4>4. QED
        BY <4>2, <4>3
    <3>6. \A i \in 1..(n + 1) : i \in I => \E k \in 1..Len(t) : g[k] = i
      BY <3>1, <3>2, <2>2 DEF IsSelection
    <3>7. IsSelection(t, s, I, n + 1, g)
      BY <3>3, <3>4, <3>5, <3>6 DEF IsSelection
    <3>8. h[n + 1] = t
      BY <2>5, <2>7 DEF t, r
    <3>9. QED
      BY <3>1, <3>7, <3>8
  <2>8. QED
    BY <2>6, <2>7
<1>4. P = Nat
  <2> HIDE DEF P
  <2>1. P \in SUBSET Nat
    BY DEF P
  <2>2. QED
    BY <1>2, <1>3, <2>1, SetInduction
<1>5. Len(s) \in P
  BY <1>4
<1>6. QED
  BY <1>1, <1>5
=============================================================================
