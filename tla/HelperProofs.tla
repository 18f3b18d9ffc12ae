---------------------------- MODULE HelperProofs ----------------------------
(***************************************************************************)
(* The theorems about the helpers.                                         *)
(*                                                                         *)
(* ArrayClient, for lists of any length and tables of any growth: the      *)
(* strings of a list lie in the slots in use, in their order and with      *)
(* nothing between them but empty slots (Lies), until they are reordered;  *)
(* then the slots still hold the same strings (Holds).  Visited is a       *)
(* recursive function; what it collects is proved by induction.            *)
(*                                                                         *)
(* Environment, for scripts of any length.  One slot is enough for nested  *)
(* operations because what an inner one saves and puts back while an outer *)
(* one has cleared the environment is the bare one (SlotBare).  As long as *)
(* none has called another before its own restore or left early, only the  *)
(* innermost one uses the slot, and what it holds is the user's (SlotFull).*)
(*                                                                         *)
(* Text, for texts of any length.  A round of safedir's loops makes the    *)
(* text shorter and no two characters neighbours that were not (Shrunk),   *)
(* so that what a loop has removed does not come back (Rid).  The link of  *)
(* a listing is the blocks of its characters behind each other (Spells):   *)
(* each round puts the next slash back, safedir finds nothing to clean in  *)
(* it, and each round of url_decode takes one block off.  trim is compared *)
(* with the columns of the characters round by round (Copies).             *)
(***************************************************************************)
EXTENDS ArrayClient, Environment, Text, FiniteSetTheorems,
        SequenceTheorems, WellFoundedInduction, TLAPS

(* The natural numbers are well-founded: every set of them has a least.    *)
LEMMA LeastIn == ASSUME NEW S, S \subseteq Nat, S # {} PROVE \E x \in S : \A y \in S : x <= y
<1> DEFINE R == OpToRel(<, Nat)
<1>1. IsWellFoundedOn(R, Nat)
  BY NatLessThanWellFounded
<1>2. \A x, y \in Nat : x < y => <<x, y>> \in R
  BY DEF OpToRel
<1> HIDE DEF R
<1>3. PICK x \in S : \A y \in S : ~(<<y, x>> \in R)
  BY <1>1, WFMin
<1>4. \A y \in S : x \in Nat /\ y \in Nat /\ ~(y < x)
  BY <1>2, <1>3
<1> QED
  BY <1>4

(* So one with 0 and the successor of each of its elements is all of them. *)
LEMMA Induct ==
  ASSUME NEW T, 0 \in T, \A n \in Nat : n \in T => n + 1 \in T
  PROVE  Nat \subseteq T
<1> DEFINE B == { n \in Nat : n \notin T }
<1>1. SUFFICES ASSUME B # {} PROVE FALSE
  OBVIOUS
<1>2. PICK x \in B : \A y \in B : x <= y
  BY <1>1, LeastIn
<1>3. x # 0 /\ x - 1 \in Nat /\ x - 1 \notin B
  BY <1>2
<1>4. x - 1 \in T /\ x = (x - 1) + 1
  BY <1>3
<1> QED
  BY <1>2, <1>3, <1>4

(* The sizes of the sets U give the elements of S their places.            *)
Ranked(S, U) ==
  /\ Cardinality(S) \in Nat
  /\ \A i \in S : Cardinality(U[i]) \in 1 .. Cardinality(S)
  /\ \A i, j \in S : U[i] \subseteq U[j] /\ j \notin U[i] => Cardinality(U[i]) < Cardinality(U[j])
  /\ \A i, j \in S : Cardinality(U[i]) = Cardinality(U[j]) => i = j
  /\ \A n \in 1 .. Cardinality(S) : \E i \in S : Cardinality(U[i]) = n

(* Counting what is up to each of them numbers the elements of a finite    *)
(* set in their order.                                                     *)
LEMMA Ranks ==
  ASSUME NEW S, IsFiniteSet(S), NEW U \in [S -> SUBSET S],
         \A i \in S : i \in U[i],
         \A i, j \in S : \/ i = j
                         \/ U[i] \subseteq U[j] /\ j \notin U[i]
                         \/ U[j] \subseteq U[i] /\ i \notin U[j]
  PROVE  Ranked(S, U)
<1>1. Cardinality(S) \in Nat
  BY FS_CardinalityType
<1>2. ASSUME NEW i \in S
      PROVE  IsFiniteSet(U[i]) /\ Cardinality(U[i]) \in 1 .. Cardinality(S)
  <2>1. IsFiniteSet(U[i]) /\ Cardinality(U[i]) <= Cardinality(S)
    BY FS_Subset
  <2>2. Cardinality(U[i]) \in Nat /\ Cardinality(U[i]) # 0
    BY <2>1, FS_CardinalityType, FS_EmptySet
  <2> QED
    BY <1>1, <2>1, <2>2
<1>3. ASSUME NEW i \in S, NEW j \in S, U[i] \subseteq U[j], j \notin U[i]
      PROVE  Cardinality(U[i]) < Cardinality(U[j])
  <2>1. Cardinality(U[i]) <= Cardinality(U[j]) /\ (Cardinality(U[j]) = Cardinality(U[i]) => U[j] = U[i])
    BY <1>2, <1>3, FS_Subset
  <2>2. U[i] # U[j]
    BY <1>3
  <2> QED
    BY <1>2, <2>1, <2>2
<1>4. ASSUME NEW i \in S, NEW j \in S, Cardinality(U[i]) = Cardinality(U[j]) PROVE i = j
  <2>1. Cardinality(U[i]) \in Nat /\ Cardinality(U[j]) \in Nat
    BY <1>2
  <2>2. ~(Cardinality(U[i]) < Cardinality(U[j])) /\ ~(Cardinality(U[j]) < Cardinality(U[i]))
    BY <1>4, <2>1
  <2> QED
    BY <1>3, <2>2
<1> DEFINE N == 1 .. Cardinality(S)
           rank == [i \in S |-> Cardinality(U[i])]
<1>5. rank \in Injection(S, N)
  <2>1. rank \in [S -> N]
    BY <1>2
  <2>2. \A i, j \in S : rank[i] = rank[j] => i = j
    BY <1>4
  <2> HIDE DEF rank
  <2> QED
    BY <2>1, <2>2 DEF Injection, IsInjective
<1>6. IsFiniteSet(N) /\ Cardinality(N) = Cardinality(S)
  <2>1. 1 \in Int /\ Cardinality(S) \in Int /\ (1 > Cardinality(S) => Cardinality(S) = 0)
        /\ Cardinality(S) - 1 + 1 = Cardinality(S)
    BY <1>1
  <2> QED
    BY <2>1, FS_Interval, ZenonT(30)
<1>7. rank \in Surjection(S, N)
  <2> HIDE DEF rank, N
  <2> QED
    BY <1>5, <1>6, FS_Injection
<1>8. \A n \in N : \E i \in S : rank[i] = n
  <2> HIDE DEF rank, N
  <2> QED
    BY <1>7 DEF Surjection
<1> QED
  BY <1>1, <1>2, <1>3, <1>4, <1>8 DEF Ranked

(* p lists the indexes kept in their order, and t their strings.           *)
Lists(p, t, s, kept) ==
  /\ p \in [1 .. Cardinality(kept) -> kept]
  /\ \A n \in 1 .. Cardinality(kept) : t[n] = s[p[n]]
  /\ \A m, n \in 1 .. Cardinality(kept) : m < n => p[m] < p[n]
  /\ \A i \in kept : \E n \in 1 .. Cardinality(kept) : p[n] = i

(* Picked puts the strings of the indexes kept behind each other, in order.*)
LEMMA PickedIs ==
  ASSUME NEW s \in Seq(Value), NEW kept \in SUBSET (1 .. Len(s))
  PROVE  /\ IsFiniteSet(kept) /\ Cardinality(kept) \in Nat
         /\ Picked(s, kept) \in Seq(Value) /\ Len(Picked(s, kept)) = Cardinality(kept)
         /\ \E p : Lists(p, Picked(s, kept), s, kept)
<1>1. Len(s) \in Nat /\ s \in [1 .. Len(s) -> Value] /\ \A i \in kept : i \in Nat
  OBVIOUS
<1>2. IsFiniteSet(kept)
  <2>1. IsFiniteSet(1 .. Len(s))
    BY <1>1, 1 \in Int, Len(s) \in Int, FS_Interval
  <2> QED
    BY <2>1, FS_Subset
<1> DEFINE U == [i \in kept |-> {k \in kept : k <= i}]
           N == Cardinality(kept)
<1>3. \A i \in kept : U[i] = {k \in kept : k <= i}
  OBVIOUS
<1>4. U \in [kept -> SUBSET kept]
  OBVIOUS
<1>a. \A i \in kept : Cardinality({k \in kept : k <= i}) = Cardinality(U[i])
  BY <1>3
<1> HIDE DEF U
<1>5. \A i, j \in kept : i < j => U[i] \subseteq U[j] /\ j \notin U[i]
  <2> TAKE i, j \in kept
  <2> HAVE i < j
  <2>1. i \in Nat /\ j \in Nat
    BY <1>1
  <2>2. ASSUME NEW k \in U[i] PROVE k \in U[j]
    <3>1. k \in kept /\ k <= i /\ k \in Nat
      BY <1>1, <1>3, <2>2
    <3>2. k <= j
      BY <2>1, <3>1
    <3> QED
      BY <1>3, <3>1, <3>2
  <2>3. j \notin U[i]
    BY <1>3, <2>1
  <2> QED
    BY <2>2, <2>3
<1>6. /\ N \in Nat
      /\ \A i, j \in kept : U[i] \subseteq U[j] /\ j \notin U[i] => Cardinality(U[i]) < Cardinality(U[j])
      /\ \A i, j \in kept : Cardinality(U[i]) = Cardinality(U[j]) => i = j
      /\ \A n \in 1 .. N : \E i \in kept : Cardinality(U[i]) = n
      /\ \A i \in kept : Cardinality(U[i]) \in 1 .. N
  <2>1. \A i \in kept : i \in U[i]
    BY <1>1, <1>3
  <2>2. \A i, j \in kept :
        \/ i = j
        \/ U[i] \subseteq U[j] /\ j \notin U[i]
        \/ U[j] \subseteq U[i] /\ i \notin U[j]
    <3> TAKE i, j \in kept
    <3>1. i = j \/ i < j \/ j < i
      BY <1>1
    <3> QED
      BY <1>5, <3>1
  <2>3. Ranked(kept, U)
    BY <1>2, <1>4, <2>1, <2>2, Ranks, Zenon
  <2> QED
    BY <2>3 DEF Ranked
<1> DEFINE q(n) == CHOOSE i \in kept : Cardinality({k \in kept : k <= i}) = n
           p == [n \in 1 .. N |-> q(n)]
<1>7. \A n \in 1 .. N : q(n) \in kept /\ Cardinality(U[q(n)]) = n
  <2> TAKE n \in 1 .. N
  <2>1. \E i \in kept : Cardinality({k \in kept : k <= i}) = n
    BY <1>6, <1>a
  <2>2. q(n) \in kept /\ Cardinality({k \in kept : k <= q(n)}) = n
    BY <2>1
  <2> QED
    BY <2>2, <1>a
<1>8. \A n \in 1 .. N : Picked(s, kept)[n] = s[q(n)]
  <2> HIDE DEF N
  <2> QED BY DEF Picked, N
<1>9. Picked(s, kept) = [n \in 1 .. N |-> s[q(n)]]
  BY DEF Picked
<1> HIDE DEF q
<1>10. \A n \in 1 .. N : p[n] \in kept /\ Cardinality(U[p[n]]) = n
  BY <1>7
<1>11. p \in [1 .. N -> kept]
  BY <1>7
<1>12. \A n \in 1 .. N : Picked(s, kept)[n] = s[p[n]]
  BY <1>8
<1>13. Picked(s, kept) \in Seq(Value) /\ Len(Picked(s, kept)) = N
  <2>1. \A n \in 1 .. N : s[q(n)] \in Value
    BY <1>1, <1>7
  <2> HIDE DEF N
  <2> QED
    BY <1>6, <1>9, <2>1
<1> HIDE DEF p
<1>14. \A m, n \in 1 .. N : m < n => p[m] < p[n]
  <2> HIDE DEF N
  <2> TAKE m, n \in 1 .. N
  <2> HAVE m < n
  <2>a. m \in Int /\ n \in Int
    BY <1>6
  <2>1. p[m] \in kept /\ p[n] \in kept /\ Cardinality(U[p[m]]) = m /\ Cardinality(U[p[n]]) = n
    BY <1>10
  <2>2. ASSUME p[n] < p[m] PROVE FALSE
    <3>1. Cardinality(U[p[n]]) < Cardinality(U[p[m]])
      BY <1>5, <1>6, <2>1, <2>2
    <3> QED
      BY <2>1, <2>a, <3>1
  <2>3. p[m] # p[n]
    BY <2>1
  <2> QED
    <3>1. p[m] \in Nat /\ p[n] \in Nat
      BY <1>1, <2>1
    <3> QED
      BY <2>2, <2>3, <3>1
<1>15. \A i \in kept : \E n \in 1 .. N : p[n] = i
  <2> TAKE i \in kept
  <2>1. Cardinality(U[i]) \in 1 .. N
    BY <1>6
  <2>2. p[Cardinality(U[i])] = i
    BY <1>6, <1>10, <2>1
  <2> QED
    BY <2>1, <2>2
<1>16. Lists(p, Picked(s, kept), s, kept)
  BY <1>11, <1>12, <1>14, <1>15 DEF Lists
<1> QED
  BY <1>2, <1>6, <1>13, <1>16

(* qsort loses nothing and makes nothing up.                               *)
LEMMA SortedIs ==
  ASSUME NEW s \in Seq(Value)
  PROVE  /\ csort(s) \in Seq(Value) /\ Len(csort(s)) = Len(s)
         /\ \A n \in 1 .. Len(s) : \E i \in 1 .. Len(s) : csort(s)[n] = s[i]
         /\ \A i \in 1 .. Len(s) : \E n \in 1 .. Len(s) : csort(s)[n] = s[i]
<1> DEFINE D == DOMAIN s
           upto(i) == {k \in D : s[k] < s[i] \/ (s[k] = s[i] /\ k <= i)}
           U == [i \in D |-> upto(i)]
           q(n) == CHOOSE i \in D : Cardinality(upto(i)) = n
<1>1. /\ Len(s) \in Nat /\ D = 1 .. Len(s) /\ D \subseteq Nat
      /\ \A i \in D : s[i] \in Value /\ s[i] \in Int
  <2>1. Len(s) \in Nat /\ D = 1 .. Len(s) /\ \A i \in D : s[i] \in Value
    OBVIOUS
  <2> HIDE DEF D
  <2>2. \A i \in D : s[i] \in Int
    BY <2>1, ClientAssumption
  <2>3. D \subseteq Nat
    BY <2>1
  <2> QED
    BY <2>1, <2>2, <2>3
<1>2. IsFiniteSet(D) /\ Cardinality(D) = Len(s)
  <2>1. 1 \in Int /\ Len(s) \in Int /\ (1 > Len(s) => Len(s) = 0) /\ Len(s) - 1 + 1 = Len(s)
    BY <1>1
  <2> QED
    BY <1>1, <2>1, FS_Interval, ZenonT(30)
<1>3. csort(s) = [n \in D |-> s[q(n)]]
  BY DEF csort
<1>4. U \in [D -> SUBSET D] /\ \A i \in D : U[i] = upto(i) /\ Cardinality(upto(i)) = Cardinality(U[i])
  <2> HIDE DEF D
  <2> QED OBVIOUS
<1> HIDE DEF D, U
<1>5. \A i, j \in D : s[i] < s[j] \/ (s[i] = s[j] /\ i < j) => U[i] \subseteq U[j] /\ j \notin U[i]
  <2> TAKE i, j \in D
  <2> HAVE s[i] < s[j] \/ (s[i] = s[j] /\ i < j)
  <2>1. ASSUME NEW k \in upto(i) PROVE k \in upto(j)
    BY <1>1, <2>1
  <2>2. j \notin upto(i)
    BY <1>1
  <2> QED
    BY <1>4, <2>1, <2>2
<1>6. /\ \A i, j \in D : Cardinality(U[i]) = Cardinality(U[j]) => i = j
      /\ \A n \in 1 .. Len(s) : \E i \in D : Cardinality(U[i]) = n
      /\ \A i \in D : Cardinality(U[i]) \in 1 .. Len(s)
  <2>1. \A i \in D : i \in U[i]
    <3> TAKE i \in D
    <3>1. i \in upto(i)
      BY <1>1
    <3> QED
      BY <1>4, <3>1
  <2>2. \A i, j \in D :
        \/ i = j
        \/ U[i] \subseteq U[j] /\ j \notin U[i]
        \/ U[j] \subseteq U[i] /\ i \notin U[j]
    <3> TAKE i, j \in D
    <3>1. i = j \/ (s[i] < s[j] \/ (s[i] = s[j] /\ i < j)) \/ (s[j] < s[i] \/ (s[j] = s[i] /\ j < i))
      BY <1>1
    <3> QED
      BY <1>5, <3>1
  <2>3. U \in [D -> SUBSET D]
    BY <1>4
  <2> HIDE DEF upto
  <2>4. Ranked(D, U)
    BY <1>2, <2>3, <2>1, <2>2, Ranks, Zenon
  <2> QED
    BY <1>2, <2>4 DEF Ranked
<1>7. \A n \in D : q(n) \in D /\ Cardinality(U[q(n)]) = n
  <2> TAKE n \in D
  <2>1. \E i \in D : Cardinality(upto(i)) = n
    <3> HIDE DEF upto
    <3> QED
      BY <1>1, <1>4, <1>6
  <2>2. q(n) \in D /\ Cardinality(upto(q(n))) = n
    <3> HIDE DEF upto
    <3> QED
      BY <2>1
  <2> HIDE DEF q, upto
  <2> QED
    BY <2>2, <1>4
<1> HIDE DEF q, upto
<1>8. \A n \in D : csort(s)[n] = s[q(n)] /\ s[q(n)] \in Value
  BY <1>1, <1>3, <1>7
<1>9. csort(s) \in Seq(Value) /\ Len(csort(s)) = Len(s)
  BY <1>1, <1>3, <1>8
<1>10. \A i \in D : \E n \in D : csort(s)[n] = s[i]
  <2> TAKE i \in D
  <2>1. Cardinality(U[i]) \in D
    BY <1>1, <1>6
  <2>2. q(Cardinality(U[i])) = i
    BY <1>6, <1>7, <2>1
  <2> QED
    BY <1>8, <2>1, <2>2
<1> QED
  BY <1>1, <1>7, <1>8, <1>9, <1>10

----------------------------------------------------------------------------
(* The slots of an array: the table has room for all that are in use.      *)
Row(a) ==
  /\ a = [data |-> a.data, size |-> a.size, removed |-> a.removed]
  /\ a.size \in Nat /\ a.removed \in Nat
  /\ \E c \in Nat : Used(a) < c /\ DOMAIN a.data = 0 .. c - 1
  /\ \A i \in DOMAIN a.data : a.data[i] \in Value \cup {NULL}

(* What Visited makes of the strings up to slot i - 1 at slot i.           *)
Collected(a, q, i) ==
  IF i > Used(a) \/ a.data[i] = NULL THEN q ELSE Append(q, a.data[i])

(* The sequences upto of Visited exist.                                    *)
LEMMA VisitChain ==
  ASSUME NEW a
  PROVE  \A m \in Nat : \E f : f = [k \in -1 .. m - 1 |-> IF k = -1 THEN <<>> ELSE Collected(a, f[k - 1], k)]
<1> DEFINE T == { m \in Nat : \E f : f = [k \in -1 .. m - 1 |-> IF k = -1 THEN <<>> ELSE Collected(a, f[k - 1], k)] }
<1>1. 0 \in T
  <2> DEFINE f == [k \in {-1} |-> <<>>]
  <2>1. f = [k \in -1 .. 0 - 1 |-> IF k = -1 THEN <<>> ELSE Collected(a, f[k - 1], k)]
    OBVIOUS
  <2> QED
    BY <2>1
<1>2. ASSUME NEW m \in Nat, m \in T PROVE m + 1 \in T
  <2>1. PICK f : f = [k \in -1 .. m - 1 |-> IF k = -1 THEN <<>> ELSE Collected(a, f[k - 1], k)]
    BY <1>2
  <2> DEFINE g == [k \in -1 .. (m + 1) - 1 |-> IF k < m THEN f[k] ELSE Collected(a, f[m - 1], m)]
  <2>2. \A k \in -1 .. m - 1 : g[k] = f[k] /\ f[k] = IF k = -1 THEN <<>> ELSE Collected(a, f[k - 1], k)
    BY <2>1
  <2>3. g[m] = Collected(a, f[m - 1], m) /\ g[m - 1] = f[m - 1] /\ DOMAIN g = -1 .. (m + 1) - 1
    <3>1. m \in -1 .. (m + 1) - 1 /\ ~(m < m) /\ m - 1 \in -1 .. m - 1
      OBVIOUS
    <3> QED
      BY <2>2, <3>1
  <2>4. g = [k \in -1 .. (m + 1) - 1 |-> g[k]]
    BY Zenon
  <2> HIDE DEF g
  <2>5. \A k \in -1 .. (m + 1) - 1 : g[k] = IF k = -1 THEN <<>> ELSE Collected(a, g[k - 1], k)
    <3> TAKE k \in -1 .. (m + 1) - 1
    <3>1. CASE k = m
      BY <2>3, <3>1
    <3>2. CASE k # m /\ k # -1
      <4>1. k \in -1 .. m - 1 /\ k - 1 \in -1 .. m - 1
        BY <3>2
      <4> QED
        BY <2>2, <3>2, <4>1
    <3>3. CASE k = -1
      BY <2>2, <3>3
    <3> QED
      BY <3>1, <3>2, <3>3
  <2>6. g = [k \in -1 .. (m + 1) - 1 |-> IF k = -1 THEN <<>> ELSE Collected(a, g[k - 1], k)]
    BY <2>4, <2>5
  <2> QED
    BY <2>6
<1> HIDE DEF T
<1>3. Nat \subseteq T
  BY <1>1, <1>2, Induct
<1> QED
  BY <1>3 DEF T

LEMMA CapacityIs ==
  ASSUME NEW a, NEW c \in Nat, DOMAIN a.data = 0 .. c - 1
  PROVE  Capacity(a) = c
<1>1. 0 \in Int /\ c - 1 \in Int /\ (0 > c - 1 => c = 0) /\ c - 1 - 0 + 1 = c
  OBVIOUS
<1> QED
  BY <1>1, FS_Interval, ZenonT(30) DEF Capacity

LEMMA VisitedIs ==
  ASSUME NEW a, NEW c \in Nat, DOMAIN a.data = 0 .. c - 1
  PROVE  \E f : /\ f[-1] = <<>>
                /\ \A k \in 0 .. c - 1 : f[k] = Collected(a, f[k - 1], k)
                /\ Visited(a) = f[c - 1]
<1> DEFINE next(f, i) ==
             IF i = -1 THEN <<>>
             ELSE IF i > Used(a) \/ a.data[i] = NULL THEN f[i - 1]
             ELSE Append(f[i - 1], a.data[i])
           ff == CHOOSE f : f = [i \in -1 .. c - 1 |-> next(f, i)]
<1>1. Visited(a) = ff[c - 1]
  BY CapacityIs DEF Visited
<1>2. \E f : f = [i \in -1 .. c - 1 |-> next(f, i)]
  <2>1. PICK f : f = [k \in -1 .. c - 1 |-> IF k = -1 THEN <<>> ELSE Collected(a, f[k - 1], k)]
    BY VisitChain
  <2>2. f = [i \in -1 .. c - 1 |-> next(f, i)]
    BY <2>1 DEF Collected
  <2> QED
    BY <2>2
<1>3. ff = [i \in -1 .. c - 1 |-> next(ff, i)]
  <2> HIDE DEF next
  <2> QED
    BY <1>2, Zenon
<1> HIDE DEF ff
<1>4. \A i \in -1 .. c - 1 : ff[i] = next(ff, i)
  <2> HIDE DEF next
  <2> QED
    BY <1>3
<1>5. ff[-1] = <<>>
  <2>1. -1 \in -1 .. c - 1
    OBVIOUS
  <2> QED
    BY <1>4, <2>1
<1>6. \A k \in 0 .. c - 1 : ff[k] = Collected(a, ff[k - 1], k)
  BY <1>4 DEF Collected
<1> QED
  BY <1>1, <1>5, <1>6

(* The strings of l lie in the slots e of the array, in their order, and   *)
(* nothing else does.                                                      *)
Lies(a, l, e) ==
  /\ e \in [1 .. Len(l) -> 1 .. Used(a)]
  /\ \A m, n \in 1 .. Len(l) : m < n => e[m] < e[n]
  /\ \A n \in 1 .. Len(l) : a.data[e[n]] = l[n]
  /\ \A i \in DOMAIN a.data : a.data[i] # NULL => \E n \in 1 .. Len(l) : e[n] = i

LEMMA Prefixes ==
  ASSUME NEW l \in Seq(Value)
  PROVE  /\ SubSeq(l, 1, 0) = <<>> /\ SubSeq(l, 1, Len(l)) = l
         /\ \A n \in 0 .. Len(l) - 1 : Append(SubSeq(l, 1, n), l[n + 1]) = SubSeq(l, 1, n + 1)
<1>1. Len(l) \in Nat /\ l = [i \in 1 .. Len(l) |-> l[i]]
  OBVIOUS
<1>2. \A n \in 0 .. Len(l) : Len(SubSeq(l, 1, n)) = n /\ \A i \in 1 .. n : SubSeq(l, 1, n)[i] = l[i]
  OBVIOUS
<1>3. \A n \in 0 .. Len(l) : SubSeq(l, 1, n) \in Seq(Value)
  OBVIOUS
<1>4. SubSeq(l, 1, 0) = <<>>
  BY <1>2, <1>3
<1>5. SubSeq(l, 1, Len(l)) = l
  BY <1>2, <1>3
<1>6. ASSUME NEW n \in 0 .. Len(l) - 1 PROVE Append(SubSeq(l, 1, n), l[n + 1]) = SubSeq(l, 1, n + 1)
  <2> DEFINE p == SubSeq(l, 1, n)
             q == SubSeq(l, 1, n + 1)
  <2>1. n \in 0 .. Len(l) /\ n + 1 \in 0 .. Len(l) /\ n \in Nat /\ l[n + 1] \in Value
    BY <1>1
  <2>2. p \in Seq(Value) /\ Len(p) = n /\ \A i \in 1 .. n : p[i] = l[i]
    BY <1>2, <1>3, <2>1
  <2>3. q \in Seq(Value) /\ Len(q) = n + 1 /\ \A i \in 1 .. n + 1 : q[i] = l[i]
    BY <1>2, <1>3, <2>1
  <2> HIDE DEF p, q
  <2>4. \A i \in 1 .. n + 1 : Append(p, l[n + 1])[i] = q[i]
    BY <2>1, <2>2, <2>3
  <2>5. Append(p, l[n + 1]) \in Seq(Value) /\ Len(Append(p, l[n + 1])) = n + 1
    BY <2>1, <2>2
  <2>6. Append(p, l[n + 1]) = q
    BY <2>3, <2>4, <2>5
  <2> QED
    BY <2>6 DEF p, q
<1> QED
  BY <1>4, <1>5, <1>6

(* array_get copies the strings where they lie.                            *)
LEMMA VisitsList ==
  ASSUME NEW a, Row(a), NEW l \in Seq(Value), NEW e, Lies(a, l, e)
  PROVE  Visited(a) = l
<1>1. PICK c \in Nat : Used(a) < c /\ DOMAIN a.data = 0 .. c - 1
  BY DEF Row
<1>2. PICK f : /\ f[-1] = <<>>
               /\ \A k \in 0 .. c - 1 : f[k] = Collected(a, f[k - 1], k)
               /\ Visited(a) = f[c - 1]
  BY <1>1, VisitedIs
<1>3. Len(l) \in Nat /\ NULL \notin Value /\ Used(a) \in Nat
  BY ClientAssumption DEF Row, Used
<1>4. \A n \in 1 .. Len(l) : e[n] \in 1 .. Used(a) /\ l[n] \in Value /\ a.data[e[n]] # NULL
  BY <1>3 DEF Lies
<1>5. \A m, n \in 1 .. Len(l) : m < n => e[m] < e[n]
  BY DEF Lies
<1> DEFINE T == { m \in Nat : m <= c =>
                    \E n \in 0 .. Len(l) :
                      /\ f[m - 1] = SubSeq(l, 1, n)
                      /\ \A k \in 1 .. Len(l) : e[k] <= m - 1 <=> k <= n }
<1>6. 0 \in T
  <2>1. \A k \in 1 .. Len(l) : e[k] <= 0 - 1 <=> k <= 0
    BY <1>3, <1>4
  <2>2. f[0 - 1] = SubSeq(l, 1, 0) /\ 0 \in 0 .. Len(l)
    <3>1. 0 - 1 = -1 /\ 0 \in 0 .. Len(l)
      BY <1>3
    <3>2. SubSeq(l, 1, 0) = <<>>
      BY Prefixes
    <3> QED
      BY <1>2, <3>1, <3>2
  <2> QED
    BY <2>1, <2>2
<1>7. ASSUME NEW m \in Nat, m \in T PROVE m + 1 \in T
  <2> SUFFICES ASSUME m + 1 <= c
               PROVE  \E n \in 0 .. Len(l) :
                        /\ f[(m + 1) - 1] = SubSeq(l, 1, n)
                        /\ \A k \in 1 .. Len(l) : e[k] <= (m + 1) - 1 <=> k <= n
    OBVIOUS
  <2>1. PICK n \in 0 .. Len(l) :
          /\ f[m - 1] = SubSeq(l, 1, n)
          /\ \A k \in 1 .. Len(l) : e[k] <= m - 1 <=> k <= n
    BY <1>7
  <2>2. m \in 0 .. c - 1 /\ m \in DOMAIN a.data /\ (m + 1) - 1 = m
    BY <1>1
  <2>3. f[m] = Collected(a, f[m - 1], m)
    BY <1>2, <2>2
  <2>4. CASE m > Used(a) \/ a.data[m] = NULL
    <3>1. f[m] = SubSeq(l, 1, n)
      BY <2>1, <2>3, <2>4 DEF Collected
    <3>2. \A k \in 1 .. Len(l) : e[k] # m
      BY <1>3, <1>4, <2>4
    <3>3. \A k \in 1 .. Len(l) : e[k] <= m <=> e[k] <= m - 1
      BY <1>3, <1>4, <3>2
    <3> QED
      BY <2>1, <2>2, <3>1, <3>3
  <2>5. CASE ~(m > Used(a) \/ a.data[m] = NULL)
    <3>1. PICK k \in 1 .. Len(l) : e[k] = m
      BY <2>2, <2>5 DEF Lies
    <3>2. k > n
      BY <1>3, <2>1, <3>1
    <3>3. k = n + 1
      <4> SUFFICES ASSUME n + 1 < k PROVE FALSE
        BY <1>3, <3>2
      <4>1. n + 1 \in 1 .. Len(l) /\ ~(n + 1 <= n)
        BY <1>3, <3>1
      <4>2. e[n + 1] < m /\ e[n + 1] \in Nat
        BY <1>3, <1>4, <1>5, <3>1, <4>1
      <4>3. e[n + 1] <= m - 1
        BY <4>2
      <4> QED
        BY <2>1, <4>1, <4>3
    <3>4. n \in 0 .. Len(l) - 1 /\ n + 1 \in 0 .. Len(l)
      BY <1>3, <3>1, <3>3
    <3>5. f[m] = SubSeq(l, 1, n + 1)
      <4>1. f[m] = Append(SubSeq(l, 1, n), a.data[m])
        BY <2>1, <2>3, <2>5 DEF Collected
      <4>2. a.data[m] = l[n + 1]
        BY <3>1, <3>3 DEF Lies
      <4> QED
        BY <3>4, <4>1, <4>2, Prefixes
    <3>6. ASSUME NEW j \in 1 .. Len(l) PROVE e[j] <= m <=> j <= n + 1
      <4>1. CASE j <= n
        <5>1. e[j] <= m - 1 /\ e[j] \in Nat
          BY <1>3, <1>4, <2>1, <4>1
        <5> QED
          BY <4>1, <5>1
      <4>2. CASE j = n + 1
        BY <1>3, <3>1, <3>3, <4>2
      <4>3. CASE j > n + 1
        <5>1. e[j] > m /\ e[j] \in Nat
          BY <1>3, <1>4, <1>5, <3>1, <3>3, <4>3
        <5> QED
          BY <4>3, <5>1
      <4> QED
        BY <1>3, <4>1, <4>2, <4>3
    <3>7. PICK p : p = n + 1
      OBVIOUS
    <3> QED
      BY <2>2, <3>4, <3>5, <3>6, <3>7
  <2> QED
    BY <2>4, <2>5
<1> HIDE DEF T
<1>8. c \in T
  BY <1>6, <1>7, Induct
<1>9. PICK n \in 0 .. Len(l) :
        /\ f[c - 1] = SubSeq(l, 1, n)
        /\ \A k \in 1 .. Len(l) : e[k] <= c - 1 <=> k <= n
  BY <1>8 DEF T
<1>10. n = Len(l)
  <2>1. \A k \in 1 .. Len(l) : k <= n
    BY <1>1, <1>3, <1>4, <1>9
  <2> QED
    BY <1>3, <2>1
<1> QED
  BY <1>2, <1>9, <1>10, Prefixes

(* Whatever order they lie in, it copies what the slots in use hold.       *)
LEMMA VisitsSet ==
  ASSUME NEW a, Row(a)
  PROVE  /\ Visited(a) \in Seq(Value)
         /\ \A v : (\E n \in 1 .. Len(Visited(a)) : Visited(a)[n] = v)
                   <=> v # NULL /\ \E i \in 0 .. Used(a) : a.data[i] = v
<1>1. PICK c \in Nat : Used(a) < c /\ DOMAIN a.data = 0 .. c - 1
  BY DEF Row
<1>2. PICK f : /\ f[-1] = <<>>
               /\ \A k \in 0 .. c - 1 : f[k] = Collected(a, f[k - 1], k)
               /\ Visited(a) = f[c - 1]
  BY <1>1, VisitedIs
<1>3. NULL \notin Value /\ Used(a) \in Nat /\ \A i \in 0 .. c - 1 : a.data[i] \in Value \cup {NULL}
  BY <1>1, ClientAssumption DEF Row, Used
<1> DEFINE Held(m) == \A v : (\E n \in 1 .. Len(f[m - 1]) : f[m - 1][n] = v)
                             <=> v # NULL /\ \E i \in 0 .. m - 1 : i <= Used(a) /\ a.data[i] = v
           T == { m \in Nat : m <= c => f[m - 1] \in Seq(Value) /\ Held(m) }
<1>4. 0 \in T
  <2>1. f[0 - 1] = <<>> /\ 0 - 1 = -1
    BY <1>2
  <2>2. f[0 - 1] \in Seq(Value) /\ Len(f[0 - 1]) = 0
    BY <2>1
  <2>3. Held(0)
    BY <2>2
  <2> HIDE DEF Held
  <2> QED
    BY <2>2, <2>3
<1>5. ASSUME NEW m \in Nat, m \in T PROVE m + 1 \in T
  <2> SUFFICES ASSUME m + 1 <= c
               PROVE  f[(m + 1) - 1] \in Seq(Value) /\ Held(m + 1)
    <3> HIDE DEF Held
    <3> QED
      OBVIOUS
  <2>1. f[m - 1] \in Seq(Value) /\ Held(m)
    <3> HIDE DEF Held
    <3> QED
      BY <1>5
  <2>2. m \in 0 .. c - 1 /\ (m + 1) - 1 = m
    BY <1>1
  <2>3. f[m] = Collected(a, f[m - 1], m)
    BY <1>2, <2>2
  <2>4. CASE m > Used(a) \/ a.data[m] = NULL
    <3>1. f[m] = f[m - 1]
      BY <2>3, <2>4 DEF Collected
    <3>2. \A v : v # NULL =>
             ((\E i \in 0 .. m - 1 : i <= Used(a) /\ a.data[i] = v)
                <=> \E i \in 0 .. (m + 1) - 1 : i <= Used(a) /\ a.data[i] = v)
      BY <1>3, <2>4
    <3>3. f[(m + 1) - 1] = f[m - 1]
      BY <2>2, <3>1
    <3>4. Held(m + 1)
      BY <2>1, <3>2, <3>3, ZenonT(30)
    <3> HIDE DEF Held
    <3> QED
      BY <2>1, <3>3, <3>4
  <2>5. CASE ~(m > Used(a) \/ a.data[m] = NULL)
    <3> DEFINE q == f[m - 1]
               w == a.data[m]
    <3>1. f[m] = Append(q, w) /\ w \in Value /\ w # NULL
      BY <1>3, <2>2, <2>3, <2>5 DEF Collected
    <3>2. q \in Seq(Value) /\ Len(q) \in Nat
      BY <2>1
    <3> HIDE DEF q
    <3>3. f[m] \in Seq(Value)
      BY <3>1, <3>2
    <3>4. \A v : (\E n \in 1 .. Len(f[m]) : f[m][n] = v) <=> v = w \/ \E n \in 1 .. Len(q) : q[n] = v
      <4>1. Len(f[m]) = Len(q) + 1 /\ f[m][Len(q) + 1] = w /\ \A n \in 1 .. Len(q) : f[m][n] = q[n]
        BY <3>1, <3>2
      <4>2. \A n \in 1 .. Len(f[m]) : n = Len(q) + 1 \/ n \in 1 .. Len(q)
        BY <3>2, <4>1
      <4>3. Len(q) + 1 \in 1 .. Len(f[m]) /\ \A n \in 1 .. Len(q) : n \in 1 .. Len(f[m])
        BY <3>2, <4>1
      <4> HIDE DEF w
      <4> QED
        BY <4>1, <4>2, <4>3
    <3>5. \A i : i \in 0 .. (m + 1) - 1 <=> i \in 0 .. m - 1 \/ i = m
      OBVIOUS
    <3>6. \A v : (\E i \in 0 .. (m + 1) - 1 : i <= Used(a) /\ a.data[i] = v)
             <=> v = w \/ \E i \in 0 .. m - 1 : i <= Used(a) /\ a.data[i] = v
      <4>1. m <= Used(a)
        BY <1>3, <2>5
      <4> QED
        BY <3>5, <4>1
    <3>7. \A v : (\E n \in 1 .. Len(q) : q[n] = v)
             <=> v # NULL /\ \E i \in 0 .. m - 1 : i <= Used(a) /\ a.data[i] = v
      BY <2>1 DEF q
    <3>8. Held(m + 1)
      <4> HIDE DEF w
      <4> QED
        BY <2>2, <3>1, <3>4, <3>6, <3>7
    <3> QED
      BY <2>2, <3>3, <3>8
  <2> QED
    BY <2>4, <2>5
<1>6. c \in T
  <2> HIDE DEF T
  <2> QED
    BY <1>4, <1>5, Induct
<1>7. Visited(a) \in Seq(Value) /\ Held(c)
  <2> HIDE DEF Held
  <2> QED
    BY <1>2, <1>6
<1>8. \A i : i \in 0 .. Used(a) <=> i \in 0 .. c - 1 /\ i <= Used(a)
  BY <1>1, <1>3
<1> QED
  BY <1>2, <1>7, <1>8

(* b is a with the slots hits emptied, and they are counted.              *)
Empties(a, hits, b) ==
  /\ b.data = [i \in DOMAIN a.data |-> IF i \in hits THEN NULL ELSE a.data[i]]
  /\ b.size = a.size - Cardinality(hits)
  /\ b.removed = a.removed + Cardinality(hits)
  /\ b = [data |-> b.data, size |-> b.size, removed |-> b.removed]

(* The slots hits are those of the strings that are not kept.              *)
SlotsOfOthers(a, l, e, kept, hits) ==
  /\ kept \subseteq 1 .. Len(l) /\ hits \subseteq DOMAIN a.data
  /\ \A i \in hits : a.data[i] # NULL
  /\ \A n \in 1 .. Len(l) : e[n] \in hits <=> n \notin kept

(* Emptying slots takes their strings out of the list.                     *)
LEMMA ThinnedLies ==
  ASSUME NEW a, Row(a), NEW l \in Seq(Value), NEW e, Lies(a, l, e), a.size = Len(l),
         NEW kept, NEW hits, SlotsOfOthers(a, l, e, kept, hits), NEW b, Empties(a, hits, b)
  PROVE  /\ Row(b) /\ Picked(l, kept) \in Seq(Value) /\ b.size = Len(Picked(l, kept))
         /\ \E d : Lies(b, Picked(l, kept), d)
<1> DEFINE N == 1 .. Len(l)
           r == Picked(l, kept)
<1> USE DEF Empties, SlotsOfOthers
<1>1. Len(l) \in Nat /\ NULL \notin Value /\ a.removed \in Nat /\ Used(a) \in Nat
  BY ClientAssumption DEF Row, Used
<1>2. IsFiniteSet(N) /\ Cardinality(N) = Len(l)
  <2>1. 1 \in Int /\ Len(l) \in Int /\ (1 > Len(l) => Len(l) = 0) /\ Len(l) - 1 + 1 = Len(l)
    BY <1>1
  <2> QED
    BY <2>1, FS_Interval, ZenonT(30)
<1>3. e \in [N -> 1 .. Used(a)] /\ (\A m, n \in N : m < n => e[m] < e[n])
  BY DEF Lies
<1>4. \A n \in N : a.data[e[n]] = l[n] /\ l[n] \in Value
  BY DEF Lies
<1>5. \A i \in DOMAIN a.data : a.data[i] # NULL => \E n \in N : e[n] = i
  BY DEF Lies
<1>6. /\ IsFiniteSet(kept) /\ Cardinality(kept) \in Nat
      /\ r \in Seq(Value) /\ Len(r) = Cardinality(kept)
  BY PickedIs
<1>a. PICK p : Lists(p, Picked(l, kept), l, kept)
  BY PickedIs
<1>7. /\ p \in [1 .. Cardinality(kept) -> kept]
      /\ \A n \in 1 .. Cardinality(kept) : r[n] = l[p[n]]
      /\ \A m, n \in 1 .. Cardinality(kept) : m < n => p[m] < p[n]
      /\ \A i \in kept : \E n \in 1 .. Cardinality(kept) : p[n] = i
  BY <1>a DEF Lists
<1> HIDE DEF N, r
<1>8. Cardinality(N \ kept) = Len(l) - Cardinality(kept) /\ IsFiniteSet(N \ kept)
  <2>1. N \cap kept = kept
    BY DEF N
  <2>2. IsFiniteSet(N \ kept) /\ Cardinality(N \ kept) = Cardinality(N) - Cardinality(N \cap kept)
    BY <1>2, FS_Difference, Zenon
  <2> QED
    BY <1>2, <2>1, <2>2
<1>9. Cardinality(hits) = Len(l) - Cardinality(kept)
  <2> DEFINE g == [n \in N \ kept |-> e[n]]
  <2>1. g \in [N \ kept -> hits]
    BY DEF N
  <2>2. \A m, n \in N \ kept : g[m] = g[n] => m = n
    <3> TAKE m, n \in N \ kept
    <3>1. m \in Nat /\ n \in Nat /\ e[m] \in Nat /\ e[n] \in Nat
      BY <1>1, <1>3 DEF N
    <3>2. m # n => e[m] < e[n] \/ e[n] < e[m]
      BY <1>3, <3>1
    <3> QED
      BY <3>1, <3>2
  <2>3. \A i \in hits : \E n \in N \ kept : g[n] = i
    <3> TAKE i \in hits
    <3>1. PICK n \in N : e[n] = i
      BY <1>5
    <3>2. n \notin kept
      BY <3>1 DEF N
    <3> QED
      BY <3>1, <3>2
  <2>4. DOMAIN g = N \ kept
    OBVIOUS
  <2> HIDE DEF g
  <2>5. g \in Bijection(N \ kept, hits)
    BY <2>1, <2>2, <2>3, <2>4 DEF Bijection, Injection, Surjection, IsInjective
  <2>6. ExistsBijection(N \ kept, hits)
    BY <2>5 DEF ExistsBijection
  <2> QED
    BY <1>8, <2>6, FS_Bijection
<1>10. /\ b.size = Cardinality(kept) /\ b.removed \in Nat /\ Used(b) = Used(a)
  <2>1. Cardinality(hits) \in Nat
    <3>1. kept \subseteq N
      BY DEF N
    <3>2. Cardinality(kept) <= Len(l)
      BY <1>2, <3>1, FS_Subset
    <3> QED
      BY <1>1, <1>6, <1>9, <3>2
  <2> DEFINE h == Cardinality(hits)
             m == Cardinality(kept)
  <2>2. b.size = Len(l) - h /\ b.removed = a.removed + h /\ h \in Nat /\ h = Len(l) - m /\ m \in Nat
    BY <1>6, <1>9, <2>1
  <2>3. Used(b) = b.size + b.removed /\ Used(a) = Len(l) + a.removed
    BY DEF Used
  <2>0. Len(l) \in Nat /\ a.removed \in Nat
    BY <1>1
  <2> HIDE DEF h, m, Empties, SlotsOfOthers
  <2>4. b.size = m
    BY <2>0, <2>2
  <2>5. b.removed \in Nat
    BY <2>0, <2>2
  <2>6. Used(b) = Used(a)
    BY <2>0, <2>2, <2>3
  <2> QED
    BY <2>4, <2>5, <2>6 DEF m
<1>11. DOMAIN b.data = DOMAIN a.data
       /\ \A i \in DOMAIN a.data : b.data[i] = IF i \in hits THEN NULL ELSE a.data[i]
  OBVIOUS
<1>12. Row(b)
  <2>1. \A i \in DOMAIN b.data : b.data[i] \in Value \cup {NULL}
    BY <1>11 DEF Row
  <2>2. b.size \in Nat
    BY <1>6, <1>10
  <2>3. \E c \in Nat : Used(b) < c /\ DOMAIN b.data = 0 .. c - 1
    BY <1>10, <1>11 DEF Row
  <2> QED
    BY <1>10, <2>1, <2>2, <2>3 DEF Row
<1> DEFINE d == [n \in 1 .. Len(r) |-> e[p[n]]]
<1>13. \A n \in 1 .. Len(r) : p[n] \in kept /\ p[n] \in N /\ d[n] = e[p[n]] /\ d[n] \in 1 .. Used(b)
  <2> TAKE n \in 1 .. Len(r)
  <2>1. p[n] \in kept
    BY <1>6, <1>7
  <2>2. p[n] \in N
    BY <2>1 DEF N
  <2> QED
    BY <1>3, <1>10, <2>1, <2>2
<1>14. d \in [1 .. Len(r) -> 1 .. Used(b)]
  BY <1>13
<1> HIDE DEF d
<1>15. \A m, n \in 1 .. Len(r) : m < n => d[m] < d[n]
  BY <1>3, <1>6, <1>7, <1>13
<1>16. \A n \in 1 .. Len(r) : b.data[d[n]] = r[n]
  <2> TAKE n \in 1 .. Len(r)
  <2>1. e[p[n]] \notin hits
    BY <1>13 DEF N
  <2>2. e[p[n]] \in DOMAIN a.data
    <3>1. e[p[n]] \in 1 .. Used(a)
      BY <1>3, <1>13
    <3>2. PICK c \in Nat : Used(a) < c /\ DOMAIN a.data = 0 .. c - 1
      BY DEF Row
    <3> QED
      BY <1>1, <3>1, <3>2
  <2>3. a.data[e[p[n]]] = l[p[n]] /\ r[n] = l[p[n]]
    BY <1>4, <1>6, <1>7, <1>13
  <2> QED
    BY <1>11, <1>13, <2>1, <2>2, <2>3
<1>17. \A i \in DOMAIN b.data : b.data[i] # NULL => \E n \in 1 .. Len(r) : d[n] = i
  <2> TAKE i \in DOMAIN b.data
  <2> HAVE b.data[i] # NULL
  <2>1. i \notin hits /\ a.data[i] # NULL /\ i \in DOMAIN a.data
    BY <1>11
  <2>2. PICK m \in N : e[m] = i
    BY <1>5, <2>1
  <2>3. m \in kept
    BY <2>1, <2>2 DEF N
  <2>4. PICK n \in 1 .. Cardinality(kept) : p[n] = m
    BY <1>7, <2>3
  <2> QED
    BY <1>6, <1>13, <2>2, <2>4
<1>18. Lies(b, r, d)
  BY <1>14, <1>15, <1>16, <1>17 DEF Lies
<1> QED
  BY <1>6, <1>10, <1>12, <1>18 DEF r

----------------------------------------------------------------------------
(* An array that was only filled: the strings are in the slots from 1 on.  *)
Full(a, l) ==
  /\ a.removed = 0 /\ a.size = Len(l)
  /\ \A i \in 1 .. Len(l) : a.data[i] = l[i]
  /\ \A i \in DOMAIN a.data : a.data[i] # NULL => i \in 1 .. Len(l)

(* The slots in use hold the strings of l, wherever and however often.     *)
Holds(a, l) ==
  \A v : (\E n \in 1 .. Len(l) : l[n] = v)
         <=> v # NULL /\ \E i \in 0 .. Used(a) : a.data[i] = v

LEMMA FullLies ==
  ASSUME NEW a, Row(a), NEW l \in Seq(Value), Full(a, l)
  PROVE  /\ Lies(a, l, [n \in 1 .. Len(l) |-> n])
         /\ Used(a) = Len(l)
<1>1. Len(l) \in Nat /\ Used(a) = Len(l)
  BY DEF Full, Used
<1>2. PICK e : e = [n \in 1 .. Len(l) |-> n]
  OBVIOUS
<1>3. \A n \in 1 .. Len(l) : e[n] = n
  BY <1>2
<1>4. e \in [1 .. Len(l) -> 1 .. Used(a)]
  BY <1>1, <1>2
<1>5. \A m, n \in 1 .. Len(l) : m < n => e[m] < e[n]
  BY <1>3
<1>6. Lies(a, l, e)
  BY <1>3, <1>4, <1>5 DEF Lies, Full
<1> QED
  BY <1>1, <1>2, <1>6

LEMMA LiesHolds ==
  ASSUME NEW a, Row(a), NEW l \in Seq(Value), NEW e, Lies(a, l, e)
  PROVE  Holds(a, l)
<1>1. PICK c \in Nat : Used(a) < c /\ DOMAIN a.data = 0 .. c - 1
  BY DEF Row
<1>2. NULL \notin Value /\ Used(a) \in Nat
  BY ClientAssumption DEF Row, Used
<1>3. ASSUME NEW n \in 1 .. Len(l)
      PROVE  l[n] # NULL /\ e[n] \in 0 .. Used(a) /\ a.data[e[n]] = l[n]
  <2>1. l[n] \in Value
    OBVIOUS
  <2>2. e[n] \in 1 .. Used(a) /\ a.data[e[n]] = l[n]
    BY DEF Lies
  <2> QED
    BY <1>2, <2>1, <2>2
<1>4. ASSUME NEW i \in 0 .. Used(a), a.data[i] # NULL
      PROVE  \E n \in 1 .. Len(l) : l[n] = a.data[i]
  <2>1. i \in DOMAIN a.data
    BY <1>1, <1>2
  <2> QED
    BY <1>4, <2>1 DEF Lies
<1> QED
  BY <1>3, <1>4 DEF Holds

LEMMA NewFull == Row(array_new) /\ Full(array_new, <<>>)
<1>1. Chunk \in Nat /\ Chunk > 0
  BY ArrayAssumption
<1>2. array_new.size = 0 /\ array_new.removed = 0 /\ Used(array_new) = 0
  BY DEF array_new, Used
<1>3. DOMAIN array_new.data = 0 .. Chunk - 1 /\ \A i \in 0 .. Chunk - 1 : array_new.data[i] = NULL
  BY DEF array_new
<1>4. array_new = [data |-> array_new.data, size |-> array_new.size, removed |-> array_new.removed]
  BY DEF array_new
<1>5. Row(array_new)
  BY <1>1, <1>2, <1>3, <1>4 DEF Row
<1> QED
  BY <1>2, <1>3, <1>5 DEF Full

LEMMA EmptiedFull == ASSUME NEW a, Row(a) PROVE Row(Emptied(a)) /\ Full(Emptied(a), <<>>)
<1>1. PICK c \in Nat : Used(a) < c /\ DOMAIN a.data = 0 .. c - 1
  BY DEF Row
<1> DEFINE b == Emptied(a)
<1>2. b.size = 0 /\ b.removed = 0 /\ Used(b) = 0
  BY DEF Emptied, Used
<1>3. DOMAIN b.data = 0 .. c - 1 /\ \A i \in 0 .. c - 1 : b.data[i] = NULL
  BY <1>1 DEF Emptied, Slots
<1>4. b = [data |-> b.data, size |-> b.size, removed |-> b.removed]
  BY DEF Emptied
<1>5. Used(a) \in Nat
  BY DEF Row, Used
<1> HIDE DEF b
<1>6. Row(b)
  BY <1>1, <1>2, <1>3, <1>4, <1>5 DEF Row
<1>7. Full(b, <<>>)
  BY <1>2, <1>3 DEF Full
<1> QED
  BY <1>6, <1>7 DEF b

(* What is added stands behind the rest, also when the table has grown.    *)
LEMMA AddFull ==
  ASSUME NEW a, Row(a), NEW l \in Seq(Value), Full(a, l), NEW v \in Value
  PROVE  Row(array_add(a, v)) /\ Full(array_add(a, v), Append(l, v))
<1>1. PICK c \in Nat : Used(a) < c /\ DOMAIN a.data = 0 .. c - 1
  BY DEF Row
<1>2. Len(l) \in Nat /\ a.removed = 0 /\ a.size = Len(l) /\ Len(l) < c /\ NULL \notin Value
  BY <1>1, ClientAssumption DEF Full, Used
<1>3. Capacity(a) = c /\ Chunk \in Nat /\ Chunk > 1
  BY <1>1, CapacityIs, ArrayAssumption
<1> DEFINE g == Grown(a)
           s == Len(l) + 1
<1>4. PICK d \in Nat : /\ c <= d /\ s < d /\ DOMAIN g = 0 .. d - 1
                       /\ \A i \in 0 .. d - 1 : g[i] = IF i < c THEN a.data[i] ELSE NULL
  <2>1. CASE a.size >= c - 1
    <3>1. g = [i \in 0 .. c + Chunk - 1 |-> IF i \in 0 .. c - 1 THEN a.data[i] ELSE NULL]
      BY <1>1, <1>3, <2>1 DEF Grown, FillLimit, Slots
    <3>2. PICK d \in Nat : d = c + Chunk
      BY <1>3
    <3>3. 0 .. c + Chunk - 1 = 0 .. d - 1
      BY <1>3, <3>2
    <3>4. g = [i \in 0 .. d - 1 |-> IF i \in 0 .. c - 1 THEN a.data[i] ELSE NULL]
      BY <3>1, <3>3
    <3>5. \A i \in 0 .. d - 1 : i \in 0 .. c - 1 <=> i < c
      BY <1>3
    <3>6. c <= d /\ s < d
      BY <1>2, <1>3, <3>2
    <3> HIDE DEF g
    <3> QED
      BY <3>4, <3>5, <3>6
  <2>2. CASE ~(a.size >= c - 1)
    <3>1. g = a.data
      BY <1>3, <2>2 DEF Grown, FillLimit
    <3>2. s < c
      BY <1>2, <2>2
    <3> HIDE DEF g, s
    <3> QED
      BY <1>1, <3>1, <3>2
  <2> QED
    BY <2>1, <2>2
<1> DEFINE b == array_add(a, v)
           r == Append(l, v)
<1>5. /\ b.size = s /\ b.removed = 0 /\ b.data = [g EXCEPT ![s] = v] /\ Used(b) = s
      /\ b = [data |-> b.data, size |-> b.size, removed |-> b.removed]
  BY <1>2 DEF array_add, Used
<1>6. r \in Seq(Value) /\ Len(r) = s /\ r[s] = v /\ \A i \in 1 .. Len(l) : r[i] = l[i]
  BY <1>2
<1> HIDE DEF b, g, r
<1>7. DOMAIN b.data = 0 .. d - 1 /\ b.data[s] = v /\ \A i \in 0 .. d - 1 : i # s => b.data[i] = g[i]
  <2>1. s \in 0 .. d - 1
    BY <1>2, <1>4
  <2> HIDE DEF s
  <2> QED
    BY <1>4, <1>5, <2>1
<1>8. \A i \in 0 .. d - 1 : b.data[i] \in Value \cup {NULL}
  <2> TAKE i \in 0 .. d - 1
  <2>1. CASE i = s
    BY <1>7, <2>1
  <2>2. CASE i # s /\ i < c
    <3>1. i \in DOMAIN a.data
      BY <1>1, <2>2
    <3> QED
      BY <1>4, <1>7, <2>2, <3>1 DEF Row
  <2>3. CASE i # s /\ ~(i < c)
    BY <1>4, <1>7, <2>3
  <2> QED
    BY <2>1, <2>2, <2>3
<1>9. Row(b)
  <2>1. s \in Nat /\ 0 \in Nat
    BY <1>2
  <2> HIDE DEF s
  <2> QED
    BY <1>4, <1>5, <1>7, <1>8, <2>1 DEF Row
<1>10. \A i \in 1 .. Len(r) : b.data[i] = r[i]
  <2> TAKE i \in 1 .. Len(r)
  <2>1. CASE i = s
    BY <1>6, <1>7, <2>1
  <2>2. CASE i # s
    <3>1. i \in 1 .. Len(l) /\ i \in 0 .. d - 1 /\ i < c
      BY <1>2, <1>4, <1>6, <2>2
    <3>2. b.data[i] = a.data[i] /\ r[i] = l[i]
      BY <1>4, <1>6, <1>7, <2>2, <3>1
    <3> QED
      BY <3>1, <3>2 DEF Full
  <2> QED
    BY <2>1, <2>2
<1>11. \A i \in DOMAIN b.data : b.data[i] # NULL => i \in 1 .. Len(r)
  <2> TAKE i \in DOMAIN b.data
  <2> HAVE b.data[i] # NULL
  <2>1. CASE i = s
    BY <1>2, <1>6, <2>1
  <2>2. CASE i # s
    <3>1. i \in 0 .. d - 1 /\ b.data[i] = g[i] /\ i < c /\ g[i] = a.data[i]
      BY <1>4, <1>7, <2>2
    <3>2. i \in 1 .. Len(l)
      BY <1>1, <3>1 DEF Full
    <3> QED
      BY <1>2, <1>6, <3>2
  <2> QED
    BY <2>1, <2>2
<1>12. Full(b, r)
  BY <1>5, <1>6, <1>10, <1>11 DEF Full
<1> QED
  BY <1>9, <1>12 DEF b, r

(* f is the array after each of the first m strings of s is added to a.    *)
IsChain(f, a, s, m) ==
  f = [i \in 0 .. m |-> IF i = 0 THEN a ELSE array_add(f[i - 1], s[i])]

(* The arrays after of array_adds exist.                                   *)
LEMMA AddChain ==
  ASSUME NEW a, NEW s
  PROVE  \A m \in Nat : \E f : IsChain(f, a, s, m)
<1> DEFINE T == { m \in Nat : \E f : f = [i \in 0 .. m |-> IF i = 0 THEN a ELSE array_add(f[i - 1], s[i])] }
<1>1. 0 \in T
  <2> DEFINE f == [i \in {0} |-> a]
  <2>1. f = [i \in 0 .. 0 |-> IF i = 0 THEN a ELSE array_add(f[i - 1], s[i])]
    OBVIOUS
  <2> QED
    BY <2>1
<1>2. ASSUME NEW m \in Nat, m \in T PROVE m + 1 \in T
  <2>1. PICK f : f = [i \in 0 .. m |-> IF i = 0 THEN a ELSE array_add(f[i - 1], s[i])]
    BY <1>2
  <2> DEFINE g == [i \in 0 .. m + 1 |-> IF i <= m THEN f[i] ELSE array_add(f[m], s[m + 1])]
  <2>2. \A i \in 0 .. m : g[i] = f[i] /\ f[i] = IF i = 0 THEN a ELSE array_add(f[i - 1], s[i])
    BY <2>1
  <2>3. g[m + 1] = array_add(f[m], s[m + 1]) /\ g[m] = f[m] /\ DOMAIN g = 0 .. m + 1
    <3>1. m + 1 \in 0 .. m + 1 /\ ~(m + 1 <= m) /\ m \in 0 .. m
      OBVIOUS
    <3> QED
      BY <2>2, <3>1
  <2>4. g = [i \in 0 .. m + 1 |-> g[i]]
    BY Zenon
  <2> HIDE DEF g
  <2>5. \A i \in 0 .. m + 1 : g[i] = IF i = 0 THEN a ELSE array_add(g[i - 1], s[i])
    <3> TAKE i \in 0 .. m + 1
    <3>1. CASE i = m + 1
      <4>1. i # 0 /\ i - 1 = m
        BY <3>1
      <4> QED
        BY <2>3, <3>1, <4>1
    <3>2. CASE i # m + 1 /\ i # 0
      <4>1. i \in 0 .. m /\ i - 1 \in 0 .. m
        BY <3>2
      <4> QED
        BY <2>2, <3>2, <4>1
    <3>3. CASE i = 0
      BY <2>2, <3>3
    <3> QED
      BY <3>1, <3>2, <3>3
  <2>6. g = [i \in 0 .. m + 1 |-> IF i = 0 THEN a ELSE array_add(g[i - 1], s[i])]
    BY <2>4, <2>5
  <2> QED
    BY <2>6
<1> HIDE DEF T
<1>3. Nat \subseteq T
  BY <1>1, <1>2, Induct
<1> QED
  BY <1>3 DEF T, IsChain

(* array_set fills the array with what it is given, of any length.         *)
LEMMA SetFull ==
  ASSUME NEW a, Row(a), NEW s \in Seq(Value)
  PROVE  Row(array_set(a, s)) /\ Full(array_set(a, s), s)
<1> DEFINE o == Emptied(a)
           next(f, i) == IF i = 0 THEN o ELSE array_add(f[i - 1], s[i])
           ff == CHOOSE f : f = [i \in 0 .. Len(s) |-> next(f, i)]
<1>1. array_set(a, s) = ff[Len(s)]
  BY DEF array_set, array_adds
<1>2. Len(s) \in Nat
  OBVIOUS
<1>3. \E f : f = [i \in 0 .. Len(s) |-> next(f, i)]
  <2> HIDE DEF o
  <2>1. \E f : IsChain(f, o, s, Len(s))
    BY <1>2, AddChain
  <2> QED
    BY <2>1, Zenon DEF IsChain
<1>4. ff = [i \in 0 .. Len(s) |-> next(ff, i)]
  <2> HIDE DEF next
  <2> QED
    BY <1>3, Zenon
<1> HIDE DEF ff, o
<1>5. \A i \in 0 .. Len(s) : ff[i] = IF i = 0 THEN o ELSE array_add(ff[i - 1], s[i])
  <2>1. \A i \in 0 .. Len(s) : ff[i] = next(ff, i)
    <3> HIDE DEF next
    <3> QED
      BY <1>4
  <2> QED
    BY <2>1
<1> DEFINE T == { m \in Nat : m <= Len(s) => Row(ff[m]) /\ Full(ff[m], SubSeq(s, 1, m)) }
<1>6. 0 \in T
  <2>1. ff[0] = o
    BY <1>2, <1>5
  <2>2. SubSeq(s, 1, 0) = <<>>
    BY Prefixes
  <2> QED
    BY <2>1, <2>2, EmptiedFull DEF o
<1>7. ASSUME NEW m \in Nat, m \in T PROVE m + 1 \in T
  <2> SUFFICES ASSUME m + 1 <= Len(s) PROVE Row(ff[m + 1]) /\ Full(ff[m + 1], SubSeq(s, 1, m + 1))
    OBVIOUS
  <2>1. Row(ff[m]) /\ Full(ff[m], SubSeq(s, 1, m))
    BY <1>2, <1>7
  <2>2. ff[m + 1] = array_add(ff[m], s[m + 1])
    <3>1. m + 1 \in 0 .. Len(s) /\ m + 1 # 0 /\ (m + 1) - 1 = m
      BY <1>2
    <3> QED
      BY <1>5, <3>1
  <2>3. s[m + 1] \in Value /\ SubSeq(s, 1, m) \in Seq(Value)
    <3>1. m + 1 \in 1 .. Len(s) /\ m \in 0 .. Len(s)
      BY <1>2
    <3> QED
      BY <3>1
  <2>4. Append(SubSeq(s, 1, m), s[m + 1]) = SubSeq(s, 1, m + 1)
    <3>1. m \in 0 .. Len(s) - 1
      BY <1>2
    <3> QED
      BY <3>1, Prefixes
  <2>5. Row(array_add(ff[m], s[m + 1])) /\ Full(array_add(ff[m], s[m + 1]), Append(SubSeq(s, 1, m), s[m + 1]))
    BY <2>1, <2>3, AddFull
  <2> QED
    BY <2>2, <2>4, <2>5
<1> HIDE DEF T
<1>8. Len(s) \in T
  BY <1>2, <1>6, <1>7, Induct
<1>9. Row(ff[Len(s)]) /\ Full(ff[Len(s)], SubSeq(s, 1, Len(s)))
  BY <1>2, <1>8 DEF T
<1> QED
  BY <1>1, <1>9, Prefixes

LEMMA RemoveLies ==
  ASSUME NEW a, Row(a), NEW l \in Seq(Value), a.size = Len(l), NEW e, Lies(a, l, e), NEW v \in Value
  PROVE  LET r == Picked(l, { i \in 1 .. Len(l) : l[i] # v })
             b == array_remove(a, v)
         IN  Row(b) /\ r \in Seq(Value) /\ b.size = Len(r) /\ \E d : Lies(b, r, d)
<1> DEFINE kept == { i \in 1 .. Len(l) : l[i] # v }
           hits == { i \in DOMAIN a.data : a.data[i] = v }
           b == array_remove(a, v)
<1>1. Empties(a, hits, b)
  BY DEF array_remove, Slots, Empties
<1>2. \A i \in hits : a.data[i] # NULL
  BY ClientAssumption
<1>3. \A n \in 1 .. Len(l) : e[n] \in DOMAIN a.data
  <2>1. PICK c \in Nat : Used(a) < c /\ DOMAIN a.data = 0 .. c - 1
    BY DEF Row
  <2>2. Used(a) \in Nat /\ \A n \in 1 .. Len(l) : e[n] \in 1 .. Used(a)
    BY DEF Row, Used, Lies
  <2> QED
    BY <2>1, <2>2
<1>4. \A n \in 1 .. Len(l) : e[n] \in hits <=> n \notin kept
  BY <1>3 DEF Lies
<1>5. SlotsOfOthers(a, l, e, kept, hits)
  BY <1>2, <1>4 DEF SlotsOfOthers
<1> HIDE DEF kept, hits, b
<1>6. Row(b) /\ Picked(l, kept) \in Seq(Value) /\ b.size = Len(Picked(l, kept)) /\ \E d : Lies(b, Picked(l, kept), d)
  BY <1>1, <1>5, ThinnedLies
<1> QED
  BY <1>6 DEF kept, b

(* array_uniq empties exactly the slots of the strings Thinned leaves out. *)
LEMMA UniqLies ==
  ASSUME NEW a, Row(a), NEW l \in Seq(Value), Full(a, l)
  PROVE  /\ Row(array_uniq(a)) /\ Thinned(l) \in Seq(Value)
         /\ array_uniq(a).size = Len(Thinned(l)) /\ \E d : Lies(array_uniq(a), Thinned(l), d)
<1> DEFINE kept == { i \in 1 .. Len(l) : ~ \E k \in i + 2 .. Len(l) : l[k] = l[i] }
           gone == { i \in DOMAIN a.data : a.data[i] # NULL /\
                       \E start \in DOMAIN a.data : i < start - 1 /\ a.data[start] = a.data[i] }
           b == array_uniq(a)
           e == [n \in 1 .. Len(l) |-> n]
<1>1. PICK c \in Nat : Used(a) < c /\ DOMAIN a.data = 0 .. c - 1
  BY DEF Row
<1>2. /\ Len(l) \in Nat /\ Len(l) < c /\ a.size = Len(l) /\ a.removed = 0 /\ NULL \notin Value
      /\ \A i \in 1 .. Len(l) : a.data[i] = l[i] /\ l[i] \in Value
  BY <1>1, ClientAssumption DEF Full, Used
<1>3. \A i \in DOMAIN a.data : a.data[i] # NULL => i \in 1 .. Len(l)
  BY DEF Full
<1>4. Cardinality(gone) \in Nat
  <2>1. IsFiniteSet(0 .. c - 1)
    BY FS_Interval
  <2>2. gone \subseteq 0 .. c - 1
    BY <1>1
  <2> HIDE DEF gone
  <2> QED
    BY <2>1, <2>2, FS_Subset, FS_CardinalityType
<1>5. /\ b.data = [i \in DOMAIN a.data |-> IF i \in gone THEN NULL ELSE a.data[i]]
      /\ b.size = a.size - Cardinality(gone)
      /\ b.removed = Cardinality(gone)
      /\ b = [data |-> b.data, size |-> b.size, removed |-> b.removed]
  BY DEF array_uniq, Slots
<1>6. b.removed = a.removed + Cardinality(gone)
  <2> HIDE DEF gone, b
  <2> QED
    BY <1>2, <1>4, <1>5
<1>a. Empties(a, gone, b)
  BY <1>5, <1>6 DEF Empties
<1>7. \A i \in gone : a.data[i] # NULL
  OBVIOUS
<1>8. ASSUME NEW n \in 1 .. Len(l) PROVE n \in gone <=> n \notin kept
  <2>1. n \in DOMAIN a.data /\ n \in Nat /\ a.data[n] = l[n] /\ a.data[n] # NULL
    BY <1>1, <1>2
  <2>2. ASSUME n \in gone PROVE n \notin kept
    <3>1. PICK start \in DOMAIN a.data : n < start - 1 /\ a.data[start] = a.data[n]
      BY <2>2
    <3>2. start \in 1 .. Len(l)
      BY <1>3, <2>1, <3>1
    <3>3. start \in n + 2 .. Len(l) /\ l[start] = l[n]
      BY <1>2, <2>1, <3>1, <3>2
    <3> QED
      BY <3>3
  <2>3. ASSUME n \notin kept PROVE n \in gone
    <3>1. PICK k \in n + 2 .. Len(l) : l[k] = l[n]
      BY <2>3
    <3>2. k \in 1 .. Len(l) /\ k \in DOMAIN a.data /\ n < k - 1
      BY <1>1, <1>2, <2>1
    <3> QED
      BY <1>2, <2>1, <3>1, <3>2
  <2> QED
    BY <2>2, <2>3
<1>9. kept \subseteq 1 .. Len(l) /\ gone \subseteq DOMAIN a.data
  OBVIOUS
<1>10. Lies(a, l, e) /\ \A n \in 1 .. Len(l) : e[n] = n
  BY FullLies
<1>11. Thinned(l) = Picked(l, kept)
  BY DEF Thinned
<1> HIDE DEF kept, gone, b, e
<1>12. \A n \in 1 .. Len(l) : e[n] \in gone <=> n \notin kept
  BY <1>8, <1>10
<1>b. SlotsOfOthers(a, l, e, kept, gone)
  BY <1>7, <1>9, <1>12 DEF SlotsOfOthers
<1>13. Row(b) /\ Picked(l, kept) \in Seq(Value) /\ b.size = Len(Picked(l, kept)) /\ \E d : Lies(b, Picked(l, kept), d)
  BY <1>2, <1>a, <1>b, <1>10, ThinnedLies
<1> QED
  BY <1>11, <1>13 DEF b

(* The exchange loses nothing: what an empty slot does not overwrite is in *)
(* both places.                                                            *)
LEMMA ReverseHolds ==
  ASSUME NEW a, Row(a), NEW l \in Seq(Value), Holds(a, l)
  PROVE  Row(array_reverse(a)) /\ Holds(array_reverse(a), Seqs!Reverse(l))
<1> DEFINE t == Used(a)
           h == t \div 2
           b == array_reverse(a)
           r == Seqs!Reverse(l)
<1>1. PICK c \in Nat : t < c /\ DOMAIN a.data = 0 .. c - 1
  BY DEF Row
<1>2. t \in Nat /\ h \in Nat /\ 2 * h <= t /\ t <= 2 * h + 1
  <2>1. t \in Nat
    BY DEF Row, Used
  <2> HIDE DEF t
  <2> QED
    BY <2>1
<1>3. \A v : (\E n \in 1 .. Len(r) : r[n] = v) <=> \E n \in 1 .. Len(l) : l[n] = v
  <2>1. Len(l) \in Nat
    OBVIOUS
  <2>2. Len(r) = Len(l) /\ \A n \in 1 .. Len(l) : r[n] = l[(Len(l) - n) + 1]
    BY <2>1 DEF Seqs!Reverse
  <2>3. \A n \in 1 .. Len(l) : /\ (Len(l) - n) + 1 \in 1 .. Len(l)
                               /\ (Len(l) - ((Len(l) - n) + 1)) + 1 = n
    BY <2>1
  <2> HIDE DEF r
  <2> QED
    BY <2>2, <2>3
<1>4. CASE a.size <= 1
  <2>1. b = a
    BY <1>4 DEF array_reverse
  <2> HIDE DEF b, r
  <2>2. Row(b) /\ Holds(b, r)
    BY <1>3, <2>1 DEF Holds
  <2> QED
    BY <2>2 DEF b, r
<1>5. CASE ~(a.size <= 1)
  <2>1. b = [a EXCEPT !.data =
               [i \in DOMAIN a.data |->
                  IF i < h
                  THEN IF a.data[t - 1 - i] # NULL THEN a.data[t - 1 - i] ELSE a.data[i]
                  ELSE IF i < t /\ t - 1 - i < h THEN a.data[t - 1 - i]
                  ELSE a.data[i]]]
    BY <1>5 DEF array_reverse, Slots
  <2>2. /\ b.size = a.size /\ b.removed = a.removed
        /\ b = [data |-> b.data, size |-> b.size, removed |-> b.removed]
        /\ b.data = [i \in DOMAIN a.data |->
                  IF i < h
                  THEN IF a.data[t - 1 - i] # NULL THEN a.data[t - 1 - i] ELSE a.data[i]
                  ELSE IF i < t /\ t - 1 - i < h THEN a.data[t - 1 - i]
                  ELSE a.data[i]]
    <3>1. a = [data |-> a.data, size |-> a.size, removed |-> a.removed]
      BY DEF Row
    <3> HIDE DEF b, h, t
    <3> QED
      BY <2>1, <3>1
  <2>3. Used(b) = t
    BY <2>2 DEF Used
  <2> HIDE DEF b, h, r
  <2>4. /\ DOMAIN b.data = 0 .. c - 1
        /\ \A i \in 0 .. c - 1 :
             b.data[i] = IF i < h
                  THEN IF a.data[t - 1 - i] # NULL THEN a.data[t - 1 - i] ELSE a.data[i]
                  ELSE IF i < t /\ t - 1 - i < h THEN a.data[t - 1 - i]
                  ELSE a.data[i]
    BY <1>1, <2>2
  <2> HIDE DEF t
  <2>5. ASSUME NEW i \in 0 .. c - 1
        PROVE  /\ b.data[i] = a.data[i] \/ (t - 1 - i \in 0 .. t /\ b.data[i] = a.data[t - 1 - i])
               /\ t - 1 - i \in 0 .. t \/ b.data[i] = a.data[i]
    <3>1. i < t => t - 1 - i \in 0 .. t
      BY <1>2
    <3>2. h <= t
      BY <1>2
    <3>3. i < h => i < t
      BY <1>2, <3>2
    <3> QED
      BY <2>4, <3>1, <3>3
  <2>6. \A i \in 0 .. t : i \in 0 .. c - 1
    BY <1>1, <1>2
  <2>7. \A i \in 0 .. c - 1 : a.data[i] \in Value \cup {NULL}
    BY <1>1 DEF Row
  <2>8. \A i \in 0 .. c - 1 : b.data[i] \in Value \cup {NULL}
    BY <2>5, <2>6, <2>7
  <2>9. Row(b)
    BY <1>1, <2>2, <2>3, <2>4, <2>8 DEF Row
  <2>10. ASSUME NEW i \in 0 .. t PROVE \E j \in 0 .. t : a.data[j] = b.data[i]
    BY <2>5, <2>6
  <2>11. ASSUME NEW j \in 0 .. t, a.data[j] # NULL PROVE \E i \in 0 .. t : b.data[i] = a.data[j]
    <3>1. PICK m : m = t - 1 - j
      OBVIOUS
    <3>2. t - 1 - m = j
      BY <1>2, <3>1
    <3>3. CASE j < h
      <4>1. m \in 0 .. t /\ ~(m < h) /\ m < t
        BY <1>2, <3>1, <3>3
      <4>2. b.data[m] = a.data[j]
        BY <2>4, <2>6, <3>2, <3>3, <4>1
      <4> QED
        BY <4>1, <4>2
    <3>4. CASE ~(j < h) /\ j < t /\ m < h
      <4>1. m \in 0 .. t
        BY <1>2, <3>1, <3>4
      <4>2. b.data[m] = a.data[j]
        BY <2>4, <2>6, <2>11, <3>2, <3>4, <4>1
      <4> QED
        BY <4>1, <4>2
    <3>5. CASE ~(j < h) /\ ~(j < t /\ m < h)
      <4>1. b.data[j] = a.data[j]
        BY <2>4, <2>6, <3>1, <3>5
      <4> QED
        BY <4>1
    <3> QED
      BY <3>3, <3>4, <3>5
  <2>12. \A v : v # NULL => ((\E i \in 0 .. t : b.data[i] = v) <=> \E j \in 0 .. t : a.data[j] = v)
    BY <2>10, <2>11
  <2>13. Holds(b, r)
    BY <1>3, <2>3, <2>12 DEF Holds, t
  <2> QED
    BY <2>9, <2>13 DEF b, r
<1> QED
  BY <1>4, <1>5

LEMMA SortHolds ==
  ASSUME NEW a, Row(a), NEW l \in Seq(Value), a.size = Len(l), Visited(a) = l
  PROVE  /\ Row(array_sort(a)) /\ Holds(array_sort(a), csort(l))
         /\ csort(l) \in Seq(Value)
<1> DEFINE b == array_sort(a)
           s == csort(l)
<1>1. PICK c \in Nat : Used(a) < c /\ DOMAIN a.data = 0 .. c - 1
  BY DEF Row
<1>2. Len(l) \in Nat /\ Used(a) \in Nat /\ Len(l) <= Used(a) /\ NULL \notin Value
  BY ClientAssumption DEF Row, Used
<1>3. s \in Seq(Value) /\ Len(s) = Len(l)
  BY SortedIs
<1>4. /\ b.size = a.size /\ b.removed = a.removed
      /\ b = [data |-> b.data, size |-> b.size, removed |-> b.removed]
      /\ b.data = [i \in DOMAIN a.data |-> IF i < Len(s) THEN s[i + 1] ELSE NULL]
  <2>1. b = [a EXCEPT !.data = [i \in DOMAIN a.data |-> IF i < Len(s) THEN s[i + 1] ELSE NULL]]
    BY DEF array_sort, Slots
  <2>2. a = [data |-> a.data, size |-> a.size, removed |-> a.removed]
    BY DEF Row
  <2> HIDE DEF b, s
  <2> QED
    BY <2>1, <2>2
<1>5. Used(b) = Used(a)
  BY <1>4 DEF Used
<1> HIDE DEF b, s
<1>6. /\ DOMAIN b.data = 0 .. c - 1
      /\ \A i \in 0 .. c - 1 : b.data[i] = IF i < Len(s) THEN s[i + 1] ELSE NULL
  BY <1>1, <1>4
<1>7. \A i \in 0 .. c - 1 : i < Len(s) => i + 1 \in 1 .. Len(s) /\ s[i + 1] \in Value
  <2>1. \A n \in 1 .. Len(s) : s[n] \in Value
    BY <1>3
  <2>2. \A i \in 0 .. c - 1 : i < Len(s) => i + 1 \in 1 .. Len(s)
    BY <1>2, <1>3
  <2> QED
    BY <2>1, <2>2
<1>8. Row(b)
  <2>1. \A i \in 0 .. c - 1 : b.data[i] \in Value \cup {NULL}
    BY <1>6, <1>7
  <2> QED
    BY <1>1, <1>4, <1>5, <1>6, <2>1 DEF Row
<1>9. ASSUME NEW n \in 1 .. Len(s)
      PROVE  s[n] # NULL /\ \E i \in 0 .. Used(b) : b.data[i] = s[n]
  <2>1. PICK i : i = n - 1
    OBVIOUS
  <2>2. i \in 0 .. c - 1 /\ i < Len(s) /\ i + 1 = n /\ i \in 0 .. Used(b)
    BY <1>1, <1>2, <1>3, <1>5, <2>1
  <2>3. b.data[i] = s[n] /\ s[n] \in Value
    BY <1>6, <1>7, <2>2
  <2> QED
    BY <1>2, <2>2, <2>3
<1>10. ASSUME NEW i \in 0 .. Used(b), b.data[i] # NULL
       PROVE  \E n \in 1 .. Len(s) : s[n] = b.data[i]
  <2>1. i \in 0 .. c - 1
    BY <1>1, <1>2, <1>5
  <2>2. i < Len(s)
    BY <1>6, <1>10, <2>1
  <2> QED
    BY <1>6, <1>7, <2>1, <2>2
<1>11. Holds(b, s)
  BY <1>9, <1>10 DEF Holds
<1> QED
  BY <1>3, <1>8, <1>11 DEF b, s

----------------------------------------------------------------------------
(* The array holds the list its caller means.                              *)
AInv ==
  /\ Row(arr) /\ list \in Seq(Value) /\ phase \in {"fill", "prune", "ordered"}
  /\ phase = "fill" => Full(arr, list)
  /\ phase # "ordered" => arr.size = Len(list) /\ \E e : Lies(arr, list, e)
  /\ phase = "ordered" => Holds(arr, list)

LEMMA InitAInv == Init => AInv
<1> SUFFICES ASSUME Init PROVE AInv
  OBVIOUS
<1>1. Row(arr) /\ Full(arr, list) /\ list \in Seq(Value)
  BY NewFull DEF Init
<1>2. \E e : Lies(arr, list, e)
  BY <1>1, FullLies
<1> QED
  BY <1>1, <1>2 DEF Init, AInv, Full

LEMMA NextAInv == AInv /\ [Next]_vars => AInv'
<1> SUFFICES ASSUME AInv, [Next]_vars PROVE AInv'
  OBVIOUS
<1>1. Row(arr) /\ list \in Seq(Value)
  BY DEF AInv
<1>2. ASSUME Row(arr)', list' \in Seq(Value), Full(arr', list'), phase' = "fill" PROVE AInv'
  <2>1. Lies(arr', list', [n \in 1 .. Len(list') |-> n])
    BY <1>2, FullLies
  <2>2. arr'.size = Len(list')
    BY <1>2 DEF Full
  <2>3. PICK a, l : a = arr' /\ l = list'
    OBVIOUS
  <2>4. \E e : Lies(arr, list, e)'
    BY <2>1 DEF Lies, Used
  <2> QED
    BY <1>2, <2>2, <2>4 DEF AInv, Full
<1>3. ASSUME NEW v \in Value, Add(v) PROVE AInv'
  <2>1. Row(arr') /\ Full(arr', list') /\ list' \in Seq(Value)
    BY <1>1, <1>3, AddFull DEF Add, AInv
  <2> QED
    BY <1>2, <1>3, <2>1 DEF Add, AInv, Row, Used
<1>4. ASSUME NEW values \in Given, Set(values) PROVE AInv'
  <2>1. values \in Seq(Value)
    BY ClientAssumption
  <2>2. Row(arr') /\ Full(arr', list') /\ list' \in Seq(Value)
    BY <1>1, <1>4, <2>1, SetFull DEF Set
  <2> QED
    BY <1>2, <1>4, <2>2 DEF Set, AInv, Row, Used
<1>5. ASSUME NEW v \in Value, RemoveString(v) PROVE AInv'
  <2>1. phase # "ordered" /\ phase' = "prune"
    BY <1>5 DEF RemoveString
  <2>2. PICK e : arr.size = Len(list) /\ Lies(arr, list, e)
    BY <2>1 DEF AInv
  <2>3. Row(arr') /\ list' \in Seq(Value) /\ arr'.size = Len(list') /\ \E d : Lies(arr', list', d)
    BY <1>1, <1>5, <2>2, RemoveLies DEF RemoveString
  <2> QED
    BY <2>1, <2>3 DEF AInv, Row, Used, Lies
<1>6. CASE UniqList
  <2>1. phase = "fill" /\ phase' = "prune" /\ Full(arr, list)
    BY <1>6 DEF UniqList, AInv
  <2>2. Row(arr') /\ list' \in Seq(Value) /\ arr'.size = Len(list') /\ \E d : Lies(arr', list', d)
    BY <1>1, <1>6, <2>1, UniqLies DEF UniqList
  <2> QED
    BY <2>1, <2>2 DEF AInv, Row, Used, Lies
<1>7. CASE ReverseList
  <2>1. phase # "ordered" /\ phase' = "ordered"
    BY <1>7 DEF ReverseList
  <2>2. PICK e : arr.size = Len(list) /\ Lies(arr, list, e)
    BY <2>1 DEF AInv
  <2>3. Holds(arr, list)
    BY <1>1, <2>2, LiesHolds
  <2>4. Row(arr') /\ Holds(arr', list')
    BY <1>1, <1>7, <2>3, ReverseHolds DEF ReverseList
  <2>5. list' \in Seq(Value)
    BY <1>1, <1>7 DEF ReverseList, Seqs!Reverse
  <2> QED
    BY <2>1, <2>4, <2>5 DEF AInv, Row, Used, Holds
<1>8. CASE SortList
  <2>1. phase # "ordered" /\ phase' = "ordered"
    BY <1>8 DEF SortList
  <2>2. PICK e : arr.size = Len(list) /\ Lies(arr, list, e)
    BY <2>1 DEF AInv
  <2>3. Visited(arr) = list
    BY <1>1, <2>2, VisitsList
  <2>4. Row(arr') /\ Holds(arr', list') /\ list' \in Seq(Value)
    BY <1>1, <1>8, <2>2, <2>3, SortHolds DEF SortList
  <2> QED
    BY <2>1, <2>4 DEF AInv, Row, Used, Holds
<1>9. CASE UNCHANGED vars
  <2>1. arr' = arr /\ list' = list /\ phase' = phase
    BY <1>9 DEF vars
  <2> QED
    BY <2>1 DEF AInv
<1> QED
  BY <1>3, <1>4, <1>5, <1>6, <1>7, <1>8, <1>9 DEF Next

(* The invariant of a caller's array: its strings lie in the slots in use, *)
(* in their order until they are reordered.                                *)
THEOREM ArrayInvariance == Spec => []AInv
BY InitAInv, NextAInv, PTL DEF Spec

LEMMA GetsList == AInv => GetIsList
<1> SUFFICES ASSUME AInv, phase # "ordered" PROVE array_get(arr) = list /\ arr.size = Len(list)
  BY DEF GetIsList
<1>1. PICK e : arr.size = Len(list) /\ Lies(arr, list, e)
  BY DEF AInv
<1> QED
  BY <1>1, VisitsList DEF AInv, array_get

LEMMA MissesNewest == AInv => HasMissesOnlyTheNewest
<1> SUFFICES ASSUME AInv PROVE HasMissesOnlyTheNewest
  OBVIOUS
<1>1. PICK c \in Nat : Used(arr) < c /\ DOMAIN arr.data = 0 .. c - 1
  BY DEF AInv, Row
<1>2. Len(list) \in Nat /\ Used(arr) \in Nat /\ NULL \notin Value /\ list \in Seq(Value)
  BY ClientAssumption DEF AInv, Row, Used
<1>3. Seqs!ToSet(list) = {list[i] : i \in 1 .. Len(list)}
  BY <1>2 DEF Seqs!ToSet
<1>4. ASSUME phase # "ordered", NEW v \in Value, array_has(arr, v) PROVE v \in Seqs!ToSet(list)
  <2>1. PICK e : Lies(arr, list, e)
    BY <1>4 DEF AInv
  <2>2. PICK i \in DOMAIN arr.data : arr.data[i] = v
    BY <1>4 DEF array_has, Slots
  <2>3. PICK n \in 1 .. Len(list) : e[n] = i
    BY <1>2, <2>1, <2>2 DEF Lies
  <2>4. list[n] = v
    BY <2>1, <2>2, <2>3 DEF Lies
  <2> QED
    BY <1>3, <2>4
<1>5. ASSUME phase # "ordered", NEW n \in 1 .. Len(list) - 1 PROVE array_has(arr, list[n])
  <2>1. PICK e : Lies(arr, list, e)
    BY <1>5 DEF AInv
  <2>2. n \in 1 .. Len(list) /\ n + 1 \in 1 .. Len(list) /\ n < n + 1
    BY <1>2
  <2>3. e[n] < e[n + 1] /\ e[n] \in 1 .. Used(arr) /\ e[n + 1] \in 1 .. Used(arr) /\ arr.data[e[n]] = list[n]
    BY <2>1, <2>2 DEF Lies
  <2>4. e[n] \in Slots(arr) /\ e[n] < Used(arr)
    BY <1>1, <1>2, <2>3 DEF Slots
  <2> QED
    BY <2>3, <2>4 DEF array_has
<1>6. ASSUME list # <<>>, NEW v \in Seqs!ToSet(Seqs!Front(list))
      PROVE  \E n \in 1 .. Len(list) - 1 : list[n] = v
  <2> DEFINE f == SubSeq(list, 1, Len(list) - 1)
  <2>1. Len(list) - 1 \in Nat
    BY <1>2, <1>6
  <2>2. f \in Seq(Value) /\ Len(f) = Len(list) - 1 /\ \A n \in 1 .. Len(list) - 1 : f[n] = list[n]
    <3>1. PICK l \in Seq(Value) : l = list
      BY <1>2
    <3>2. \A n \in 0 .. Len(l) : SubSeq(l, 1, n) \in Seq(Value) /\ Len(SubSeq(l, 1, n)) = n
                                /\ \A i \in 1 .. n : SubSeq(l, 1, n)[i] = l[i]
      OBVIOUS
    <3>3. Len(list) - 1 \in 0 .. Len(list)
      BY <1>2, <2>1
    <3> QED
      BY <3>1, <3>2, <3>3
  <2>3. v \in Seqs!ToSet(f)
    BY <1>6 DEF Seqs!Front
  <2> HIDE DEF f
  <2> QED
    BY <2>2, <2>3 DEF Seqs!ToSet
<1> QED
  BY <1>4, <1>5, <1>6 DEF HasMissesOnlyTheNewest

LEMMA InBounds == AInv => ScansInBounds
<1> SUFFICES ASSUME AInv PROVE ScansInBounds
  OBVIOUS
<1>1. PICK c \in Nat : Used(arr) < c /\ DOMAIN arr.data = 0 .. c - 1
  BY DEF AInv, Row
<1> QED
  BY <1>1, CapacityIs DEF ScansInBounds

LEMMA KeepsEveryString == AInv => ReorderKeepsEveryString
<1> SUFFICES ASSUME AInv, phase = "ordered" PROVE Seqs!ToSet(array_get(arr)) = Seqs!ToSet(list)
  BY DEF ReorderKeepsEveryString
<1>1. Visited(arr) \in Seq(Value) /\ list \in Seq(Value)
  BY VisitsSet DEF AInv
<1>2. \A v : (\E n \in 1 .. Len(Visited(arr)) : Visited(arr)[n] = v) <=> \E n \in 1 .. Len(list) : list[n] = v
  <2>1. Row(arr) /\ Holds(arr, list)
    BY DEF AInv
  <2>2. \A v : (\E n \in 1 .. Len(Visited(arr)) : Visited(arr)[n] = v)
               <=> v # NULL /\ \E i \in 0 .. Used(arr) : arr.data[i] = v
    BY <2>1, VisitsSet
  <2> QED
    BY <2>1, <2>2 DEF Holds
<1> DEFINE q == Visited(arr)
<1>3. Seqs!ToSet(list) = {list[n] : n \in 1 .. Len(list)}
  BY <1>1 DEF Seqs!ToSet
<1>4. Seqs!ToSet(q) = {q[n] : n \in 1 .. Len(q)}
  BY <1>1 DEF Seqs!ToSet
<1>5. array_get(arr) = q
  BY DEF array_get
<1> HIDE DEF q
<1>6. \A v : v \in {q[n] : n \in 1 .. Len(q)} <=> v \in {list[n] : n \in 1 .. Len(list)}
  BY <1>2 DEF q
<1> QED
  BY <1>3, <1>4, <1>5, <1>6

(* array_get returns the list the caller means, at any length and however  *)
(* often the table grew (array.c:210-227).                                 *)
THEOREM ListIsReturned == Spec => []GetIsList
BY ArrayInvariance, GetsList, PTL

(* array_has claims nothing and misses the last string only                *)
(* (array.c:112-126).                                                      *)
THEOREM OnlyNewestMissed == Spec => []HasMissesOnlyTheNewest
BY ArrayInvariance, MissesNewest, PTL

(* No loop reads beyond the table (array.c:82-88, 112-126, 234-260).       *)
THEOREM ScansStayInTable == Spec => []ScansInBounds
BY ArrayInvariance, InBounds, PTL

(* array_reverse and array_sort keep the strings (array.c:191-260).        *)
THEOREM NoStringIsLost == Spec => []ReorderKeepsEveryString
BY ArrayInvariance, KeepsEveryString, PTL

----------------------------------------------------------------------------
EnvSpec == EnvInit /\ [][EnvNext]_envVars

Has(s, step) == \E i \in DOMAIN s : s[i] = step

(* What an operation is made of.                                          *)
Steps == {"save", "clear", "restore", "sysconf", "build", "check", "need", "quit", "sources"}

(* A frame that has saved and is yet to restore, and one that uses the slot*)
(* at all.                                                                 *)
Pending(s) == Has(s, "restore") /\ ~Has(s, "save")
Uses(s) == Has(s, "save") \/ Has(s, "clear") \/ Has(s, "restore")

(* The order of the steps in what is left of an operation.                 *)
Ordered(s) ==
  /\ \A i, j \in DOMAIN s : i < j /\ s[i] \in {"clear", "restore"} => s[j] # "save"
  /\ \A i, j \in DOMAIN s : i < j /\ s[i] = "restore" => s[j] # "restore"
  /\ \A i \in DOMAIN s : s[i] \in {"save", "clear"} => \E j \in DOMAIN s : i < j /\ s[j] = "restore"

Frames ==
  /\ frames \in Seq(Seq(Steps))
  /\ \A i \in DOMAIN frames : Ordered(frames[i])

BareWithin == \A i \in DOMAIN frames : Within(frames[i]) => environ = "bare"
SlotBare ==
  \A i, j \in DOMAIN frames :
    i < j /\ Pending(frames[i]) /\ Within(frames[j]) => environ_save = "bare"
SlotFull ==
  ~upset =>
    /\ \A i \in DOMAIN frames : i > 1 => ~Uses(frames[i])
    /\ IF frames # <<>> /\ Pending(frames[1]) THEN environ_save = "full" ELSE environ = "full"

EInv == Frames /\ BareWithin /\ SlotBare /\ SlotFull

----------------------------------------------------------------------------
(* Within is having a restore left but no clear.                           *)
LEMMA WithinHas == ASSUME NEW s PROVE Within(s) <=> Has(s, "restore") /\ ~Has(s, "clear")
BY DEF Within, Has

(* What remains of a frame after its first step.                           *)
LEMMA TailHas ==
  ASSUME NEW s \in Seq(Steps), s # <<>>, NEW step
  PROVE  /\ Tail(s) \in Seq(Steps)
         /\ Has(Tail(s), step) => Has(s, step)
         /\ Has(s, step) /\ s[1] # step => Has(Tail(s), step)
<1>1. /\ Tail(s) \in Seq(Steps) /\ Len(s) \in Nat /\ Len(s) > 0
      /\ DOMAIN s = 1 .. Len(s) /\ DOMAIN Tail(s) = 1 .. Len(s) - 1
      /\ \A i \in 1 .. Len(s) - 1 : Tail(s)[i] = s[i + 1]
  OBVIOUS
<1>2. ASSUME NEW i \in DOMAIN Tail(s) PROVE i + 1 \in DOMAIN s /\ Tail(s)[i] = s[i + 1]
  BY <1>1
<1>3. ASSUME NEW i \in DOMAIN s, i # 1 PROVE i - 1 \in DOMAIN Tail(s) /\ Tail(s)[i - 1] = s[i]
  <2>1. i \in 1 .. Len(s) /\ i - 1 \in 1 .. Len(s) - 1 /\ (i - 1) + 1 = i
    BY <1>1, <1>3
  <2> QED
    BY <1>1, <2>1
<1> QED
  BY <1>1, <1>2, <1>3, ZenonT(30) DEF Has

LEMMA TailOrdered ==
  ASSUME NEW s \in Seq(Steps), s # <<>>, Ordered(s)
  PROVE  /\ Ordered(Tail(s))
         /\ s[1] \in {"clear", "restore"} => ~Has(Tail(s), "save")
         /\ s[1] = "restore" => ~Has(Tail(s), "restore")
         /\ s[1] \in {"save", "clear"} => Has(Tail(s), "restore")
<1>1. /\ Len(s) \in Nat /\ Len(s) > 0
      /\ DOMAIN s = 1 .. Len(s) /\ DOMAIN Tail(s) = 1 .. Len(s) - 1
      /\ \A i \in 1 .. Len(s) - 1 : Tail(s)[i] = s[i + 1]
  OBVIOUS
<1>2. \A i \in DOMAIN Tail(s) : i + 1 \in DOMAIN s /\ Tail(s)[i] = s[i + 1] /\ 1 < i + 1
  BY <1>1
<1>3. \A i \in DOMAIN s : i > 1 => i - 1 \in DOMAIN Tail(s) /\ Tail(s)[i - 1] = s[i]
  BY <1>1
<1>4. 1 \in DOMAIN s /\ DOMAIN s \subseteq Nat /\ DOMAIN Tail(s) \subseteq Nat
  BY <1>1
<1>5. s[1] \in {"clear", "restore"} => ~Has(Tail(s), "save")
  BY <1>2, <1>4 DEF Ordered, Has
<1>6. s[1] = "restore" => ~Has(Tail(s), "restore")
  BY <1>2, <1>4 DEF Ordered, Has
<1>7. s[1] \in {"save", "clear"} => Has(Tail(s), "restore")
  BY <1>3, <1>4 DEF Ordered, Has
<1>8. \A i, j \in DOMAIN Tail(s) : i < j => i + 1 < j + 1
  BY <1>4
<1>9. /\ \A i, j \in DOMAIN Tail(s) : i < j /\ Tail(s)[i] \in {"clear", "restore"} => Tail(s)[j] # "save"
      /\ \A i, j \in DOMAIN Tail(s) : i < j /\ Tail(s)[i] = "restore" => Tail(s)[j] # "restore"
  BY <1>2, <1>8 DEF Ordered
<1>10. ASSUME NEW i \in DOMAIN Tail(s), Tail(s)[i] \in {"save", "clear"}
       PROVE  \E j \in DOMAIN Tail(s) : i < j /\ Tail(s)[j] = "restore"
  <2>1. PICK j \in DOMAIN s : i + 1 < j /\ s[j] = "restore"
    BY <1>2, <1>10 DEF Ordered
  <2>2. j > 1 /\ i < j - 1
    BY <1>4, <1>2, <2>1
  <2> QED
    BY <1>3, <2>1, <2>2
<1> QED
  BY <1>5, <1>6, <1>7, <1>9, <1>10 DEF Ordered

(* The operations of Body.                                                 *)
Ops == {"install", "single", "remove", "index", "sysconf", "build", "check", "job"}

LEMMA BodyIs ==
  /\ Body["install"] = <<"save", "clear", "sysconf", "quit", "sources", "sysconf", "restore">>
  /\ Body["single"] = <<"build", "sysconf">>
  /\ Body["remove"] = <<"sysconf", "quit", "sysconf">>
  /\ Body["index"] = <<"save", "clear", "restore">>
  /\ Body["sysconf"] = <<"save", "clear", "restore">>
  /\ Body["build"] = <<"save", "clear", "check", "restore">>
  /\ Body["check"] = <<"save", "clear", "need", "restore">>
  /\ Body["job"] = <<"save", "clear", "quit", "restore">>
  /\ DOMAIN Body = Ops
BY DEF Body, Ops, install_main, package_get_single, build_single, check_build_dependencies,
       sysconf_main, remove_main, index_main, run_job

LEMMA BodySeq ==
  ASSUME NEW op \in DOMAIN Body
  PROVE  Body[op] \in Seq(Steps) /\ Ordered(Body[op])
<1>1. CASE op = "install"
  <2> DEFINE s == <<"save", "clear", "sysconf", "quit", "sources", "sysconf", "restore">>
  <2>1. Body[op] = s
    BY <1>1, BodyIs
  <2>2. s \in Seq(Steps)
    BY DEF Steps
  <2>3. DOMAIN s = 1 .. 7
    OBVIOUS
  <2>4. /\ s[1] = "save"
        /\ s[2] = "clear"
        /\ s[3] = "sysconf"
        /\ s[4] = "quit"
        /\ s[5] = "sources"
        /\ s[6] = "sysconf"
        /\ s[7] = "restore"
    OBVIOUS
  <2> HIDE DEF s
  <2>5. Ordered(s)
    BY <2>3, <2>4 DEF Ordered
  <2> QED
    BY <2>1, <2>2, <2>5
<1>2. CASE op = "remove"
  <2> DEFINE s == <<"sysconf", "quit", "sysconf">>
  <2>1. Body[op] = s
    BY <1>2, BodyIs
  <2>2. s \in Seq(Steps)
    BY DEF Steps
  <2>3. DOMAIN s = 1 .. 3
    OBVIOUS
  <2>4. /\ s[1] = "sysconf"
        /\ s[2] = "quit"
        /\ s[3] = "sysconf"
    OBVIOUS
  <2> HIDE DEF s
  <2>5. Ordered(s)
    BY <2>3, <2>4 DEF Ordered
  <2> QED
    BY <2>1, <2>2, <2>5
<1>3. CASE op = "index" \/ op = "sysconf"
  <2> DEFINE s == <<"save", "clear", "restore">>
  <2>1. Body[op] = s
    BY <1>3, BodyIs
  <2>2. s \in Seq(Steps)
    BY DEF Steps
  <2>3. DOMAIN s = 1 .. 3
    OBVIOUS
  <2>4. /\ s[1] = "save"
        /\ s[2] = "clear"
        /\ s[3] = "restore"
    OBVIOUS
  <2> HIDE DEF s
  <2>5. Ordered(s)
    BY <2>3, <2>4 DEF Ordered
  <2> QED
    BY <2>1, <2>2, <2>5
<1>4. CASE op = "build"
  <2> DEFINE s == <<"save", "clear", "check", "restore">>
  <2>1. Body[op] = s
    BY <1>4, BodyIs
  <2>2. s \in Seq(Steps)
    BY DEF Steps
  <2>3. DOMAIN s = 1 .. 4
    OBVIOUS
  <2>4. /\ s[1] = "save"
        /\ s[2] = "clear"
        /\ s[3] = "check"
        /\ s[4] = "restore"
    OBVIOUS
  <2> HIDE DEF s
  <2>5. Ordered(s)
    BY <2>3, <2>4 DEF Ordered
  <2> QED
    BY <2>1, <2>2, <2>5
<1>5. CASE op = "check"
  <2> DEFINE s == <<"save", "clear", "need", "restore">>
  <2>1. Body[op] = s
    BY <1>5, BodyIs
  <2>2. s \in Seq(Steps)
    BY DEF Steps
  <2>3. DOMAIN s = 1 .. 4
    OBVIOUS
  <2>4. /\ s[1] = "save"
        /\ s[2] = "clear"
        /\ s[3] = "need"
        /\ s[4] = "restore"
    OBVIOUS
  <2> HIDE DEF s
  <2>5. Ordered(s)
    BY <2>3, <2>4 DEF Ordered
  <2> QED
    BY <2>1, <2>2, <2>5
<1>6. CASE op = "job"
  <2> DEFINE s == <<"save", "clear", "quit", "restore">>
  <2>1. Body[op] = s
    BY <1>6, BodyIs
  <2>2. s \in Seq(Steps)
    BY DEF Steps
  <2>3. DOMAIN s = 1 .. 4
    OBVIOUS
  <2>4. /\ s[1] = "save"
        /\ s[2] = "clear"
        /\ s[3] = "quit"
        /\ s[4] = "restore"
    OBVIOUS
  <2> HIDE DEF s
  <2>5. Ordered(s)
    BY <2>3, <2>4 DEF Ordered
  <2> QED
    BY <2>1, <2>2, <2>5
<1>7. CASE op = "single"
  <2> DEFINE s == <<"build", "sysconf">>
  <2>1. Body[op] = s
    BY <1>7, BodyIs
  <2>2. s \in Seq(Steps)
    BY DEF Steps
  <2>3. DOMAIN s = 1 .. 2
    OBVIOUS
  <2>4. s[1] = "build" /\ s[2] = "sysconf"
    OBVIOUS
  <2> HIDE DEF s
  <2>5. Ordered(s)
    BY <2>3, <2>4 DEF Ordered
  <2> QED
    BY <2>1, <2>2, <2>5
<1> QED
  BY <1>1, <1>2, <1>3, <1>4, <1>5, <1>6, <1>7, BodyIs DEF Ops

LEMMA BodyUses ==
  ASSUME NEW op \in DOMAIN Body
  PROVE  ~Pending(Body[op]) /\ ~Within(Body[op])
<1>1. CASE op \in {"remove", "single"}
  BY <1>1, BodyIs DEF Pending, Within, Has
<1>2. CASE op \notin {"remove", "single"}
  <2>1. Has(Body[op], "save") /\ Has(Body[op], "clear")
    BY <1>2, BodyIs DEF Has, Ops
  <2> QED
    BY <2>1, WithinHas DEF Pending
<1> QED
  BY <1>1, <1>2

(* Who has nothing to restore does not use the slot any more.              *)
LEMMA SpanUses ==
  ASSUME NEW s \in Seq(Steps), Ordered(s), ~Has(s, "restore")
  PROVE  ~Uses(s)
BY DEF Ordered, Has, Uses

----------------------------------------------------------------------------
(* The operations under way when the innermost one has taken a step, has   *)
(* called another, or is gone.                                             *)
LEMMA RestIs ==
  ASSUME Frames, frames # <<>>, frames[1] # <<>>
  PROVE  /\ 1 \in DOMAIN frames /\ frames[1] \in Seq(Steps) /\ Tail(frames[1]) \in Seq(Steps)
         /\ Rest \in Seq(Seq(Steps)) /\ DOMAIN Rest = DOMAIN frames
         /\ Rest[1] = Tail(frames[1])
         /\ \A i \in DOMAIN frames : i > 1 => Rest[i] = frames[i]
<1>1. /\ frames \in Seq(Seq(Steps)) /\ Len(frames) \in Nat /\ Len(frames) > 0
      /\ DOMAIN frames = 1 .. Len(frames)
  BY DEF Frames
<1>2. frames[1] \in Seq(Steps)
  BY <1>1
<1>3. Tail(frames[1]) \in Seq(Steps)
  BY <1>2
<1>4. /\ Tail(frames) \in Seq(Seq(Steps)) /\ Len(Tail(frames)) = Len(frames) - 1
      /\ \A i \in 1 .. Len(frames) - 1 : Tail(frames)[i] = frames[i + 1]
  BY <1>1
<1>5. <<Tail(frames[1])>> \in Seq(Seq(Steps))
  BY <1>3
<1>6. /\ Rest \in Seq(Seq(Steps)) /\ Len(Rest) = Len(frames) /\ Rest[1] = Tail(frames[1])
      /\ \A i \in 2 .. Len(frames) : Rest[i] = Tail(frames)[i - 1]
  BY <1>1, <1>4, <1>5 DEF Rest
<1>7. \A i \in 2 .. Len(frames) : i - 1 \in 1 .. Len(frames) - 1 /\ (i - 1) + 1 = i
  BY <1>1
<1>8. \A i \in 2 .. Len(frames) : Rest[i] = frames[i]
  BY <1>4, <1>6, <1>7
<1> QED
  BY <1>1, <1>2, <1>3, <1>6, <1>8

LEMMA PushIs ==
  ASSUME NEW top \in Seq(Steps), NEW rest \in Seq(Seq(Steps))
  PROVE  /\ <<top>> \o rest \in Seq(Seq(Steps)) /\ (<<top>> \o rest)[1] = top
         /\ <<top>> \o rest # <<>> /\ 1 \in DOMAIN (<<top>> \o rest)
         /\ \A i \in DOMAIN (<<top>> \o rest) :
              i \in Nat /\ i >= 1
              /\ (i > 1 => i - 1 \in DOMAIN rest /\ (<<top>> \o rest)[i] = rest[i - 1])
<1>1. <<top>> \in Seq(Seq(Steps)) /\ Len(rest) \in Nat /\ DOMAIN rest = 1 .. Len(rest)
  OBVIOUS
<1>2. /\ <<top>> \o rest \in Seq(Seq(Steps)) /\ Len(<<top>> \o rest) = Len(rest) + 1
      /\ (<<top>> \o rest)[1] = top
      /\ \A i \in 2 .. Len(rest) + 1 : (<<top>> \o rest)[i] = rest[i - 1]
  BY <1>1
<1>3. DOMAIN (<<top>> \o rest) = 1 .. Len(rest) + 1
  BY <1>2
<1> QED
  BY <1>1, <1>2, <1>3

LEMMA PopIs ==
  ASSUME Frames, frames # <<>>
  PROVE  /\ Tail(frames) \in Seq(Seq(Steps)) /\ 1 \in DOMAIN frames
         /\ \A i \in DOMAIN Tail(frames) :
              i \in Nat /\ i >= 1 /\ i + 1 \in DOMAIN frames /\ Tail(frames)[i] = frames[i + 1]
         /\ Tail(frames) # <<>> => 1 \in DOMAIN Tail(frames)
<1>1. /\ frames \in Seq(Seq(Steps)) /\ Len(frames) \in Nat /\ Len(frames) > 0
      /\ DOMAIN frames = 1 .. Len(frames)
  BY DEF Frames
<1>2. /\ Tail(frames) \in Seq(Seq(Steps)) /\ DOMAIN Tail(frames) = 1 .. Len(frames) - 1
      /\ Len(Tail(frames)) = Len(frames) - 1
      /\ \A i \in 1 .. Len(frames) - 1 : Tail(frames)[i] = frames[i + 1]
  BY <1>1
<1>3. Tail(frames) # <<>> => Len(frames) - 1 > 0
  BY <1>1, <1>2
<1> QED
  BY <1>1, <1>2, <1>3

LEMMA FrameIndexes == Frames => \A i \in DOMAIN frames : i \in Nat /\ i >= 1
BY DEF Frames

(* What the rest of a frame may still do, when its first step is done.     *)
LEMMA AdvanceHas ==
  ASSUME Frames, frames # <<>>, frames[1] # <<>>
  PROVE  /\ \A step : Has(Rest[1], step) => Has(frames[1], step)
         /\ \A step : Has(frames[1], step) /\ frames[1][1] # step => Has(Rest[1], step)
         /\ Has(frames[1], frames[1][1])
<1>1. frames[1] \in Seq(Steps) /\ Rest[1] = Tail(frames[1])
  BY RestIs
<1>2. 1 \in DOMAIN frames[1]
  BY <1>1
<1>3. /\ \A step : Has(Rest[1], step) => Has(frames[1], step)
      /\ \A step : Has(frames[1], step) /\ frames[1][1] # step => Has(Rest[1], step)
  BY <1>1, TailHas
<1>4. Has(frames[1], frames[1][1])
  BY <1>2 DEF Has
<1> QED
  BY <1>3, <1>4

LEMMA AdvanceFrames ==
  ASSUME Frames, frames # <<>>, frames[1] # <<>>, frames' = Rest
  PROVE  Frames'
<1>1. 1 \in DOMAIN frames /\ frames[1] \in Seq(Steps)
  BY RestIs
<1>2. Ordered(Tail(frames[1]))
  BY <1>1, TailOrdered DEF Frames
<1>3. \A i \in DOMAIN frames : i > 1 => Ordered(Rest[i])
  BY RestIs DEF Frames
<1>4. \A i \in DOMAIN frames : i = 1 \/ i > 1
  BY FrameIndexes
<1>5. \A i \in DOMAIN Rest : Ordered(Rest[i])
  BY <1>2, <1>3, <1>4, RestIs
<1> QED
  BY <1>5, RestIs DEF Frames

(* The first step is done: it is enough to look at the innermost frame.    *)
LEMMA AdvanceEInv ==
  ASSUME EInv, frames # <<>>, frames[1] # <<>>, frames' = Rest, UNCHANGED <<hooks, upset>>,
         Within(Rest[1]) => environ' = "bare",
         \A j \in DOMAIN frames : j > 1 /\ Within(frames[j]) =>
           environ' = "bare" /\ (Pending(Rest[1]) => environ_save' = "bare"),
         environ_save' = environ_save
           \/ \A j \in DOMAIN frames : j > 1 /\ Within(frames[j]) => environ_save' = "bare",
         ~upset => IF Pending(Rest[1]) THEN environ_save' = "full" ELSE environ' = "full"
  PROVE  EInv'
<1>1. Frames'
  BY AdvanceFrames DEF EInv
<1>2. /\ 1 \in DOMAIN frames /\ DOMAIN Rest = DOMAIN frames
      /\ \A i \in DOMAIN frames : i > 1 => Rest[i] = frames[i]
      /\ \A i \in DOMAIN frames : i = 1 \/ i > 1
  BY RestIs, FrameIndexes DEF EInv
<1>3. BareWithin'
  <2> SUFFICES ASSUME NEW i \in DOMAIN Rest, Within(Rest[i]) PROVE environ' = "bare"
    BY DEF BareWithin
  <2> QED
    BY <1>2
<1>4. SlotBare'
  <2> SUFFICES ASSUME NEW i \in DOMAIN Rest, NEW j \in DOMAIN Rest, i < j, Pending(Rest[i]),
                      Within(Rest[j])
               PROVE  environ_save' = "bare"
    BY DEF SlotBare
  <2>1. j > 1 /\ Within(frames[j])
    BY <1>2, FrameIndexes DEF EInv
  <2>2. i > 1 => Pending(frames[i])
    BY <1>2
  <2> QED
    BY <1>2, <2>1, <2>2 DEF EInv, SlotBare
<1>5. SlotFull'
  <2>1. ~upset => \A i \in DOMAIN Rest : i > 1 => ~Uses(Rest[i])
    BY <1>2 DEF EInv, SlotFull
  <2>2. Rest # <<>>
    BY <1>2
  <2> QED
    BY <2>1, <2>2 DEF SlotFull
<1> QED
  BY <1>1, <1>3, <1>4, <1>5 DEF EInv

----------------------------------------------------------------------------
(* Ordering facts of the innermost frame.                                  *)
LEMMA TopOrdered ==
  ASSUME Frames, frames # <<>>, frames[1] # <<>>
  PROVE  /\ frames[1][1] \in {"clear", "restore"} => ~Has(Rest[1], "save")
         /\ frames[1][1] = "restore" => ~Has(Rest[1], "restore")
         /\ frames[1][1] \in {"save", "clear"} => Has(Rest[1], "restore")
<1>1. 1 \in DOMAIN frames /\ frames[1] \in Seq(Steps) /\ Rest[1] = Tail(frames[1])
  BY RestIs
<1>2. Ordered(frames[1])
  BY <1>1 DEF Frames
<1> QED
  BY <1>1, <1>2, TailOrdered

(* What is saved inside a cleared environment is the bare one, and what is *)
(* saved first is the user's.                                              *)
LEMMA SaveEInv == ASSUME EInv, save_env PROVE EInv'
<1>1. /\ frames # <<>> /\ frames[1] # <<>> /\ frames[1][1] = "save" /\ frames' = Rest
      /\ environ_save' = environ /\ environ' = environ /\ hooks' = hooks /\ upset' = upset
  BY DEF save_env, Does, Saved
<1>2. Frames /\ 1 \in DOMAIN frames
  BY <1>1, RestIs DEF EInv
<1>3. /\ \A step : Has(Rest[1], step) => Has(frames[1], step)
      /\ Has(frames[1], "clear") => Has(Rest[1], "clear")
      /\ Has(frames[1], "save")
  BY <1>1, <1>2, AdvanceHas
<1>4. \A j \in DOMAIN frames : Within(frames[j]) => environ = "bare"
  BY DEF EInv, BareWithin
<1>5. Within(Rest[1]) => environ = "bare"
  BY <1>2, <1>3, <1>4, WithinHas
<1>6. ~upset => environ = "full"
  BY <1>1, <1>3 DEF EInv, SlotFull, Pending
<1> QED
  BY <1>1, <1>4, <1>5, <1>6, AdvanceEInv

(* Who clears has saved.                                                   *)
LEMMA ClearEInv == ASSUME EInv, clear_env PROVE EInv'
<1>1. /\ frames # <<>> /\ frames[1] # <<>> /\ frames[1][1] = "clear" /\ frames' = Rest
      /\ environ_save' = environ_save /\ environ' = "bare" /\ hooks' = hooks /\ upset' = upset
  BY DEF clear_env, Does
<1>2. Frames /\ 1 \in DOMAIN frames
  BY <1>1, RestIs DEF EInv
<1>3. Pending(Rest[1]) /\ Pending(frames[1])
  BY <1>1, <1>2, AdvanceHas, TopOrdered DEF Pending
<1>4. \A j \in DOMAIN frames : j > 1 /\ Within(frames[j]) => environ_save = "bare"
  BY <1>2, <1>3 DEF EInv, SlotBare
<1>5. ~upset => environ_save = "full"
  BY <1>1, <1>3 DEF EInv, SlotFull
<1> QED
  BY <1>1, <1>3, <1>4, <1>5, AdvanceEInv

(* What is restored is bare inside a cleared environment, and the user's   *)
(* otherwise.                                                              *)
LEMMA RestoreEInv == ASSUME EInv, restore_env PROVE EInv'
<1>1. /\ frames # <<>> /\ frames[1] # <<>> /\ frames[1][1] = "restore" /\ frames' = Rest
      /\ environ_save' = environ_save /\ environ' = environ_save /\ hooks' = hooks /\ upset' = upset
  BY DEF restore_env, Does
<1>2. Frames /\ 1 \in DOMAIN frames
  BY <1>1, RestIs DEF EInv
<1>3. Pending(frames[1]) /\ ~Pending(Rest[1]) /\ ~Within(Rest[1])
  BY <1>1, <1>2, AdvanceHas, TopOrdered, WithinHas DEF Pending
<1>4. \A j \in DOMAIN frames : j > 1 /\ Within(frames[j]) => environ_save = "bare"
  BY <1>2, <1>3 DEF EInv, SlotBare
<1>5. ~upset => environ_save = "full"
  BY <1>1, <1>3 DEF EInv, SlotFull
<1> QED
  BY <1>1, <1>3, <1>4, <1>5, AdvanceEInv

(* A step that is passed over changes nothing that the frame will do.      *)
LEMMA PassedOver ==
  ASSUME EInv, frames # <<>>, frames[1] # <<>>,
         frames[1][1] \in {"sysconf", "build", "check", "need", "quit", "sources"}
  PROVE  /\ Within(Rest[1]) <=> Within(frames[1])
         /\ Pending(Rest[1]) <=> Pending(frames[1])
         /\ Uses(Rest[1]) => Uses(frames[1])
<1>1. Frames
  BY DEF EInv
<1>2. \A step \in {"save", "clear", "restore"} : Has(Rest[1], step) <=> Has(frames[1], step)
  BY <1>1, AdvanceHas
<1> QED
  BY <1>2, WithinHas DEF Pending, Uses

LEMMA PassEInv == ASSUME EInv, Pass PROVE EInv'
<1>1. /\ frames # <<>> /\ frames[1] # <<>> /\ frames' = Rest
      /\ frames[1][1] \in {"sysconf", "build", "check", "need", "quit", "sources"}
      /\ environ_save' = environ_save /\ environ' = environ /\ hooks' = hooks /\ upset' = upset
  BY DEF Pass, Does
<1>2. Frames /\ 1 \in DOMAIN frames
  BY <1>1, RestIs DEF EInv
<1>3. (Within(Rest[1]) <=> Within(frames[1])) /\ (Pending(Rest[1]) <=> Pending(frames[1]))
  BY <1>1, PassedOver
<1>4. \A j \in DOMAIN frames : Within(frames[j]) => environ = "bare"
  BY DEF EInv, BareWithin
<1>5. \A j \in DOMAIN frames : j > 1 /\ Within(frames[j]) /\ Pending(frames[1]) =>
        environ_save = "bare"
  BY <1>2 DEF EInv, SlotBare
<1>6. ~upset => IF Pending(frames[1]) THEN environ_save = "full" ELSE environ = "full"
  BY <1>1 DEF EInv, SlotFull
<1> QED
  BY <1>1, <1>2, <1>3, <1>4, <1>5, <1>6, AdvanceEInv

(* A new operation has not saved yet; one that calls another and does not  *)
(* upset does not need the slot itself any more.                           *)
LEMMA CallEInv ==
  ASSUME EInv, NEW op \in DOMAIN Body, Call(op) \/ (Source /\ op = "single") PROVE EInv'
<1>1. PICK rest \in {Rest, frames} :
        /\ frames # <<>> /\ frames[1] # <<>> /\ frames' = <<Body[op]>> \o rest
        /\ frames[1][1] \in {"sysconf", "build", "check", "need", "sources"}
        /\ upset' = (upset \/ Has(frames[1], "restore"))
        /\ environ_save' = environ_save /\ environ' = environ /\ hooks' = hooks
  <2>1. CASE Call(op)
    BY <2>1 DEF Call, Does, InSpan, Has
  <2>2. CASE Source /\ op = "single"
    BY <2>2 DEF Source, Does, InSpan, Has
  <2> QED
    BY <2>1, <2>2
<1>2. /\ Frames /\ 1 \in DOMAIN frames /\ frames \in Seq(Seq(Steps)) /\ frames[1] \in Seq(Steps)
      /\ rest \in Seq(Seq(Steps)) /\ DOMAIN rest = DOMAIN frames
      /\ \A i \in DOMAIN frames : i > 1 => rest[i] = frames[i]
      /\ \A i \in DOMAIN frames : i \in Nat /\ i >= 1
      /\ rest[1] = Rest[1] \/ rest[1] = frames[1]
  BY <1>1, RestIs, FrameIndexes DEF EInv, Frames
<1>3. /\ Within(rest[1]) <=> Within(frames[1])
      /\ Pending(rest[1]) <=> Pending(frames[1])
      /\ Uses(rest[1]) => Uses(frames[1])
  BY <1>1, <1>2, PassedOver
<1>4. Body[op] \in Seq(Steps) /\ Ordered(Body[op]) /\ ~Pending(Body[op]) /\ ~Within(Body[op])
  BY BodySeq, BodyUses
<1>5. /\ frames' \in Seq(Seq(Steps)) /\ frames'[1] = Body[op] /\ frames' # <<>>
      /\ \A i \in DOMAIN frames' :
           i \in Nat /\ i >= 1
           /\ (i > 1 => i - 1 \in DOMAIN frames /\ frames'[i] = rest[i - 1])
  BY <1>1, <1>2, <1>4, PushIs
<1>6. Frames'
  <2>1. \A i \in DOMAIN frames : Ordered(rest[i])
    <3>1. Ordered(frames[1]) /\ Rest[1] = Tail(frames[1])
      BY <1>1, <1>2, RestIs DEF Frames
    <3>2. Ordered(rest[1])
      BY <1>1, <1>2, <3>1, TailOrdered
    <3>3. \A i \in DOMAIN frames : i > 1 => rest[i] = frames[i] /\ Ordered(frames[i])
      BY <1>2 DEF Frames
    <3>4. \A i \in DOMAIN frames : i = 1 \/ i > 1
      BY <1>2
    <3> QED
      BY <3>2, <3>3, <3>4
  <2>2. \A i \in DOMAIN frames' : i = 1 \/ i > 1
    BY <1>5
  <2> QED
    BY <1>4, <1>5, <2>1, <2>2 DEF Frames
<1>7. \A i \in DOMAIN frames : (Within(rest[i]) <=> Within(frames[i]))
                              /\ (Pending(rest[i]) <=> Pending(frames[i]))
  <2>1. \A i \in DOMAIN frames : i = 1 \/ i > 1
    BY <1>2
  <2>2. \A i \in DOMAIN frames : i > 1 => rest[i] = frames[i]
    BY <1>2
  <2> QED
    BY <2>1, <2>2, <1>3, Zenon
<1>8. BareWithin'
  <2> SUFFICES ASSUME NEW i \in DOMAIN frames', Within(frames'[i]) PROVE environ = "bare"
    BY <1>1 DEF BareWithin
  <2>1. i > 1
    BY <1>4, <1>5
  <2>2. i - 1 \in DOMAIN frames /\ Within(frames[i - 1])
    BY <1>5, <1>7, <2>1
  <2> QED
    BY <2>2 DEF EInv, BareWithin
<1>9. SlotBare'
  <2> SUFFICES ASSUME NEW i \in DOMAIN frames', NEW j \in DOMAIN frames', i < j,
                      Pending(frames'[i]), Within(frames'[j])
               PROVE  environ_save = "bare"
    BY <1>1 DEF SlotBare
  <2>1. i > 1 /\ j > 1 /\ i - 1 < j - 1
    BY <1>4, <1>5
  <2>2. /\ i - 1 \in DOMAIN frames /\ Pending(frames[i - 1])
        /\ j - 1 \in DOMAIN frames /\ Within(frames[j - 1])
    BY <1>5, <1>7, <2>1
  <2> QED
    BY <2>1, <2>2 DEF EInv, SlotBare
<1>10. SlotFull'
  <2> SUFFICES ASSUME ~upset, ~Has(frames[1], "restore")
               PROVE  /\ \A i \in DOMAIN frames' : i > 1 => ~Uses(frames'[i])
                      /\ environ = "full"
    BY <1>1, <1>4, <1>5 DEF SlotFull
  <2>1. ~Uses(frames[1]) /\ ~Pending(frames[1])
    BY <1>2, SpanUses DEF Frames, Pending
  <2>2. \A i \in DOMAIN frames : ~Uses(rest[i])
    <3>1. \A i \in DOMAIN frames : i = 1 \/ i > 1
      BY <1>2
    <3>2. \A i \in DOMAIN frames : i > 1 => ~Uses(frames[i])
      BY DEF EInv, SlotFull
    <3> QED
      BY <1>2, <1>3, <2>1, <3>1, <3>2
  <2>3. environ = "full"
    BY <1>1, <2>1 DEF EInv, SlotFull
  <2> QED
    BY <1>5, <2>2, <2>3
<1> QED
  BY <1>6, <1>8, <1>9, <1>10 DEF EInv

(* A script starts an operation when none is under way.                    *)
LEMMA StartEInv == ASSUME EInv, NEW op \in DOMAIN Body, Start(op) PROVE EInv'
<1>1. /\ frames = <<>> /\ frames' = <<Body[op]>> /\ op \in DOMAIN Body
      /\ upset' = upset
      /\ environ_save' = environ_save /\ environ' = environ /\ hooks' = hooks
  BY DEF Start
<1>2. Body[op] \in Seq(Steps) /\ Ordered(Body[op]) /\ ~Pending(Body[op]) /\ ~Within(Body[op])
  BY BodySeq, BodyUses
<1>3. /\ frames' \in Seq(Seq(Steps)) /\ frames' # <<>> /\ frames'[1] = Body[op]
      /\ \A i \in DOMAIN frames' : i = 1
  BY <1>1, <1>2
<1>4. Frames'
  BY <1>2, <1>3 DEF Frames
<1>5. BareWithin'
  BY <1>2, <1>3 DEF BareWithin
<1>6. SlotBare'
  BY <1>2, <1>3 DEF SlotBare
<1>7. ~upset' => environ = "full"
  BY <1>1 DEF EInv, SlotFull
<1>8. SlotFull'
  BY <1>1, <1>2, <1>3, <1>7 DEF SlotFull
<1> QED
  BY <1>4, <1>5, <1>6, <1>8 DEF EInv

(* An operation that is gone leaves the ones that called it.               *)
LEMMA PopEInv == ASSUME EInv, Quit \/ Return PROVE EInv'
<1>1. /\ frames # <<>> /\ frames' = Tail(frames)
      /\ environ_save' = environ_save /\ environ' = environ /\ hooks' = hooks
      /\ ~upset' => ~upset /\ ~Has(frames[1], "restore")
  <2>1. CASE Quit
    BY <2>1 DEF Quit, Does, InSpan, Has
  <2>2. CASE Return
    <3>1. /\ frames # <<>> /\ frames' = Tail(frames) /\ frames[1] = <<>> /\ upset' = upset
          /\ environ_save' = environ_save /\ environ' = environ /\ hooks' = hooks
      BY <2>2 DEF Return
    <3>2. ~Has(frames[1], "restore")
      BY <3>1 DEF Has
    <3> QED
      BY <3>1, <3>2
  <2> QED
    BY <2>1, <2>2
<1>2. /\ frames' \in Seq(Seq(Steps)) /\ 1 \in DOMAIN frames
      /\ \A i \in DOMAIN frames' :
           i \in Nat /\ i >= 1 /\ i + 1 \in DOMAIN frames /\ frames'[i] = frames[i + 1]
      /\ frames' # <<>> => 1 \in DOMAIN frames'
  BY <1>1, PopIs DEF EInv
<1>3. Frames'
  BY <1>2 DEF EInv, Frames
<1>4. BareWithin'
  BY <1>1, <1>2 DEF EInv, BareWithin
<1>5. SlotBare'
  <2> SUFFICES ASSUME NEW i \in DOMAIN frames', NEW j \in DOMAIN frames', i < j,
                      Pending(frames'[i]), Within(frames'[j])
               PROVE  environ_save = "bare"
    BY <1>1 DEF SlotBare
  <2>1. i + 1 < j + 1
    BY <1>2
  <2> QED
    BY <1>2, <2>1 DEF EInv, SlotBare
<1>6. SlotFull'
  <2> SUFFICES ASSUME ~upset'
               PROVE  /\ \A i \in DOMAIN frames' : i > 1 => ~Uses(frames'[i])
                      /\ environ = "full" /\ (frames' # <<>> => ~Pending(frames'[1]))
    BY <1>1 DEF SlotFull
  <2>1. ~Has(frames[1], "restore") /\ ~upset
    BY <1>1
  <2>2. \A i \in DOMAIN frames : i > 1 => ~Uses(frames[i])
    BY <2>1 DEF EInv, SlotFull
  <2>3. ~Pending(frames[1])
    BY <2>1 DEF Pending
  <2>4. environ = "full"
    BY <1>1, <2>1, <2>3 DEF EInv, SlotFull
  <2>5. \A i \in DOMAIN frames' : i + 1 > 1 /\ ~Uses(frames'[i])
    BY <1>2, <2>2
  <2>6. \A i \in DOMAIN frames' : ~Pending(frames'[i])
    BY <2>5 DEF Pending, Uses
  <2> QED
    BY <1>2, <2>4, <2>5, <2>6
<1> QED
  BY <1>3, <1>4, <1>5, <1>6 DEF EInv

----------------------------------------------------------------------------
LEMMA InitEInv == EnvInit => EInv
BY DEF EnvInit, EInv, Frames, BareWithin, SlotBare, SlotFull

LEMMA NextEInv == EInv /\ [EnvNext]_envVars => EInv'
<1> SUFFICES ASSUME EInv, [EnvNext]_envVars PROVE EInv'
  OBVIOUS
<1>1. ASSUME NEW op \in DOMAIN Body, Start(op) \/ Call(op) PROVE EInv'
  BY <1>1, StartEInv, CallEInv
<1>2. CASE save_env \/ clear_env \/ restore_env
  BY <1>2, SaveEInv, ClearEInv, RestoreEInv
<1>3. CASE Source \/ Pass \/ Quit \/ Return
  BY <1>3, BodyIs, CallEInv, PassEInv, PopEInv DEF Ops
<1>4. CASE UNCHANGED envVars
  BY <1>4 DEF envVars, EInv, Frames, BareWithin, SlotBare, SlotFull
<1> QED
  BY <1>1, <1>2, <1>3, <1>4 DEF EnvNext

(* Between clear_env and restore_env the environment is bare, however      *)
(* operations nest in the one slot of save_env, a build inside an          *)
(* installation included; and between the operations of a script it is the *)
(* user's unless one has called another inside its own span or has left    *)
(* early: for scripts of any length and operations of any depth            *)
(* (value.c:88-115).                                                       *)
THEOREM OneSlotIsEnough == EnvSpec => []EnvironmentKept
<1>1. EInv => EnvironmentKept
  <2> SUFFICES ASSUME EInv PROVE EnvironmentKept
    OBVIOUS
  <2>1. \A i \in DOMAIN frames : Within(frames[i]) => environ = "bare"
    BY DEF EInv, BareWithin
  <2>2. frames = <<>> /\ ~upset => environ = "full"
    BY DEF EInv, SlotFull
  <2> QED
    BY <2>1, <2>2 DEF EnvironmentKept
<1> QED
  BY <1>1, InitEInv, NextEInv, PTL DEF EnvSpec

----------------------------------------------------------------------------
(* Occurs, said with indexes.                                              *)
LEMMA OccursAt ==
  ASSUME NEW C, NEW s \in Seq(C), NEW f \in Seq(C), Len(f) > 0
  PROVE  Occurs(f, s) <=> \E i \in 1 .. Len(s) - Len(f) + 1 : SubSeq(s, i, i + Len(f) - 1) = f
<1>1. Len(s) \in Nat /\ Len(f) \in Nat
  OBVIOUS
<1>2. ASSUME NEW i \in 0 .. Len(s), NEW j \in 0 .. Len(s), SubSeq(s, i + 1, j) = f
      PROVE  i + 1 \in 1 .. Len(s) - Len(f) + 1 /\ j = (i + 1) + Len(f) - 1
  <2>1. Len(f) = IF i + 1 <= j THEN j - (i + 1) + 1 ELSE 0
    BY <1>1, <1>2
  <2> QED
    BY <1>1, <2>1
<1>3. ASSUME NEW i \in 1 .. Len(s) - Len(f) + 1
      PROVE  i - 1 \in 0 .. Len(s) /\ i + Len(f) - 1 \in 0 .. Len(s) /\ i = (i - 1) + 1
  BY <1>1
<1>4. Occurs(f, s) <=> \E i, j \in 0 .. Len(s) : SubSeq(s, i + 1, j) = f
  BY DEF Occurs, Strings!SubSeqs
<1> QED
  <2>1. ASSUME NEW i \in 0 .. Len(s), NEW j \in 0 .. Len(s), SubSeq(s, i + 1, j) = f
        PROVE  \E k \in 1 .. Len(s) - Len(f) + 1 : SubSeq(s, k, k + Len(f) - 1) = f
    BY <1>2, <2>1
  <2>2. ASSUME NEW i \in 1 .. Len(s) - Len(f) + 1, SubSeq(s, i, i + Len(f) - 1) = f
        PROVE  \E k, j \in 0 .. Len(s) : SubSeq(s, k + 1, j) = f
    BY <1>3, <2>2
  <2> QED
    BY <1>4, <2>1, <2>2

(* f stands in s from index i on.                                          *)
At(f, s, i) == i \in 1 .. Len(s) - Len(f) + 1 /\ SubSeq(s, i, i + Len(f) - 1) = f
First(f, s, i) == At(f, s, i) /\ \A h \in 1 .. i - 1 : ~At(f, s, h)

(* IndexFirstSubSeq, which looks for the shortest prefix with f in it.     *)
LEMMA FirstIs ==
  ASSUME NEW C, NEW s \in Seq(C), NEW f \in Seq(C), Len(f) > 0, NEW i, First(f, s, i)
  PROVE  Strings!IndexFirstSubSeq(f, s) = i
<1> DEFINE P(n) == f \in Strings!SubSeqs(SubSeq(s, 1, n))
           last == i + Len(f) - 1
<1>1. Len(s) \in Nat /\ Len(f) \in Nat /\ i \in 1 .. Len(s) - Len(f) + 1 /\ i \in Nat
  BY DEF First, At
<1>2. ASSUME NEW n \in 0 .. Len(s) PROVE P(n) <=> \E k \in 1 .. n - Len(f) + 1 : At(f, s, k)
  <2> DEFINE t == SubSeq(s, 1, n)
  <2>1. t \in Seq(C) /\ Len(t) = n /\ n \in Nat
    BY <1>1
  <2>2. ASSUME NEW k \in 1 .. n - Len(f) + 1
        PROVE  /\ SubSeq(t, k, k + Len(f) - 1) = SubSeq(s, k, k + Len(f) - 1)
               /\ k \in 1 .. Len(s) - Len(f) + 1
    BY <1>1, <2>1
  <2> HIDE DEF t
  <2>3. Occurs(f, t) <=> \E k \in 1 .. n - Len(f) + 1 : SubSeq(t, k, k + Len(f) - 1) = f
    BY <2>1, OccursAt
  <2>4. Occurs(f, t) <=> \E k \in 1 .. n - Len(f) + 1 : At(f, s, k)
    BY <2>2, <2>3 DEF At
  <2> QED
    BY <2>4 DEF Occurs, t
<1> HIDE DEF P
<1>3. last \in 0 .. Len(s) /\ P(last) /\ \A j \in 0 .. last - 1 : ~P(j)
  <2>1. last \in 0 .. Len(s) /\ i \in 1 .. last - Len(f) + 1
    BY <1>1
  <2>2. P(last)
    BY <1>2, <2>1 DEF First
  <2>3. ASSUME NEW j \in 0 .. last - 1, P(j) PROVE FALSE
    <3>1. j \in 0 .. Len(s)
      BY <1>1, <2>1
    <3>2. PICK k \in 1 .. j - Len(f) + 1 : At(f, s, k)
      BY <1>2, <2>3, <3>1
    <3>3. k \in 1 .. i - 1
      BY <1>1, <3>1
    <3> QED
      BY <3>2, <3>3 DEF First
  <2> QED
    BY <2>1, <2>2, <2>3
<1>4. ASSUME NEW l \in 0 .. Len(s), P(l), \A j \in 0 .. l - 1 : ~P(j) PROVE l = last
  <2>1. ~(last < l)
    BY <1>1, <1>3, <1>4
  <2>2. ~(l < last)
    BY <1>1, <1>3, <1>4
  <2> QED
    BY <1>1, <2>1, <2>2
<1> DEFINE chosen == CHOOSE l \in 0 .. Len(s) : P(l) /\ \A j \in 0 .. l - 1 : ~P(j)
<1>5. chosen = last
  <2> HIDE DEF last
  <2>1. \E l \in 0 .. Len(s) : P(l) /\ \A j \in 0 .. l - 1 : ~P(j)
    BY <1>3
  <2>2. chosen \in 0 .. Len(s) /\ P(chosen) /\ \A j \in 0 .. chosen - 1 : ~P(j)
    BY <2>1
  <2> QED
    BY <1>4, <2>2
<1>6. Strings!IndexFirstSubSeq(f, s) = chosen - (Len(f) - 1)
  BY DEF Strings!IndexFirstSubSeq, P
<1> HIDE DEF chosen
<1> QED
  BY <1>1, <1>5, <1>6

LEMMA FirstExists ==
  ASSUME NEW C, NEW s \in Seq(C), NEW f \in Seq(C), Len(f) > 0, Occurs(f, s)
  PROVE  \E i : First(f, s, i)
<1> DEFINE S == { i \in Nat : At(f, s, i) }
<1>1. PICK k \in 1 .. Len(s) - Len(f) + 1 : SubSeq(s, k, k + Len(f) - 1) = f
  BY OccursAt
<1>2. k \in S
  BY <1>1 DEF At
<1>3. PICK i \in S : \A y \in S : i <= y
  <2> HIDE DEF S
  <2>1. S \subseteq Nat
    BY DEF S
  <2> QED
    BY <1>2, <2>1, LeastIn
<1>4. \A h \in 1 .. i - 1 : ~At(f, s, h)
  BY <1>3
<1> QED
  BY <1>3, <1>4 DEF First

(* What replacing the first of them yields.                                *)
LEMMA OnceIs ==
  ASSUME NEW C, NEW s \in Seq(C), NEW f \in Seq(C), Len(f) > 0, NEW by \in Seq(C),
         NEW i, First(f, s, i)
  PROVE  ReplaceOnce(s, f, by) = SubSeq(s, 1, i - 1) \o by \o SubSeq(s, i + Len(f), Len(s))
<1>1. Occurs(f, s)
  BY OccursAt DEF First, At
<1>2. Strings!IndexFirstSubSeq(f, s) = i
  BY FirstIs
<1> QED
  BY <1>1, <1>2 DEF ReplaceOnce, Occurs, Strings!ReplaceFirstSubSeq, Strings!ReplaceSubSeqAt

LEMMA OnceNone ==
  ASSUME NEW s, NEW f, NEW by, ~Occurs(f, s)
  PROVE  ReplaceOnce(s, f, by) = s
BY DEF ReplaceOnce, Occurs, Strings!ReplaceFirstSubSeq

(* f is what step makes of b in m rounds, each given its number.           *)
Rounds(f, b, step, m) ==
  f = [i \in 0 .. m |-> IF i = 0 THEN b ELSE step[<<i, f[i - 1]>>]]

(* A recursion over rounds defines a function; and only one (below).       *)
LEMMA RoundsExist ==
  ASSUME NEW D, NEW b \in D, NEW step \in [Nat \X D -> D]
  PROVE  \A m \in Nat : \E f \in [0 .. m -> D] : Rounds(f, b, step, m)
<1> DEFINE T == { m \in Nat : \E f \in [0 .. m -> D] : Rounds(f, b, step, m) }
<1>1. 0 \in T
  <2> DEFINE f == [i \in 0 .. 0 |-> b]
  <2>1. f = [i \in 0 .. 0 |-> IF i = 0 THEN b ELSE step[<<i, f[i - 1]>>]]
    OBVIOUS
  <2>2. f \in [0 .. 0 -> D]
    OBVIOUS
  <2> QED
    BY <2>1, <2>2 DEF Rounds
<1>2. ASSUME NEW m \in Nat, m \in T PROVE m + 1 \in T
  <2>1. PICK f \in [0 .. m -> D] : Rounds(f, b, step, m)
    BY <1>2
  <2>a. f = [i \in 0 .. m |-> IF i = 0 THEN b ELSE step[<<i, f[i - 1]>>]]
    BY <2>1 DEF Rounds
  <2> DEFINE g == [i \in 0 .. m + 1 |-> IF i <= m THEN f[i] ELSE step[<<m + 1, f[m]>>]]
  <2>b. step[<<m + 1, f[m]>>] \in D
    <3>1. f[m] \in D /\ m + 1 \in Nat
      OBVIOUS
    <3>2. <<m + 1, f[m]>> \in Nat \X D
      BY <3>1
    <3> QED
      BY <3>2
  <2>c. g \in [0 .. m + 1 -> D]
    <3>1. \A i \in 0 .. m + 1 : i <= m => f[i] \in D
      OBVIOUS
    <3> QED
      BY <2>b, <3>1
  <2>2. \A i \in 0 .. m : g[i] = f[i] /\ f[i] = IF i = 0 THEN b ELSE step[<<i, f[i - 1]>>]
    BY <2>a
  <2>3. g[m + 1] = step[<<m + 1, f[m]>>] /\ g[m] = f[m] /\ DOMAIN g = 0 .. m + 1
    <3>1. m + 1 \in 0 .. m + 1 /\ ~(m + 1 <= m) /\ m \in 0 .. m
      OBVIOUS
    <3> QED
      BY <2>2, <3>1
  <2>4. g = [i \in 0 .. m + 1 |-> g[i]]
    BY Zenon
  <2> HIDE DEF g
  <2>5. \A i \in 0 .. m + 1 : g[i] = IF i = 0 THEN b ELSE step[<<i, g[i - 1]>>]
    <3> TAKE i \in 0 .. m + 1
    <3>1. CASE i = m + 1
      <4>1. i # 0 /\ i - 1 = m
        BY <3>1
      <4> QED
        BY <2>3, <3>1, <4>1
    <3>2. CASE i # m + 1 /\ i # 0
      <4>1. i \in 0 .. m /\ i - 1 \in 0 .. m
        BY <3>2
      <4> QED
        BY <2>2, <3>2, <4>1
    <3>3. CASE i = 0
      <4>1. i \in 0 .. m
        BY <3>3
      <4> QED
        BY <2>2, <3>3, <4>1
    <3> QED
      BY <3>1, <3>2, <3>3
  <2>6. Rounds(g, b, step, m + 1)
    BY <2>4, <2>5 DEF Rounds
  <2> QED
    BY <2>c, <2>6
<1> HIDE DEF T
<1>3. Nat \subseteq T
  BY <1>1, <1>2, Induct
<1> QED
  BY <1>3 DEF T

RoundsFrom(f, D, b, step, m) ==
  f \in [0 .. m -> D] /\ f[0] = b /\ \A i \in 1 .. m : f[i] = step[<<i, f[i - 1]>>]

LEMMA RoundsAre ==
  ASSUME NEW D, NEW b \in D, NEW step \in [Nat \X D -> D], NEW m \in Nat
  PROVE  \E f : RoundsFrom(f, D, b, step, m)
<1>1. PICK f \in [0 .. m -> D] : Rounds(f, b, step, m)
  BY RoundsExist
<1>2. f = [i \in 0 .. m |-> IF i = 0 THEN b ELSE step[<<i, f[i - 1]>>]]
  BY <1>1 DEF Rounds
<1>3. f[0] = b
  BY <1>2
<1>4. \A i \in 1 .. m : f[i] = step[<<i, f[i - 1]>>]
  BY <1>2
<1> QED
  BY <1>3, <1>4 DEF RoundsFrom

LEMMA OnceType ==
  ASSUME NEW C, NEW s \in Seq(C), NEW f \in Seq(C), Len(f) > 0, NEW by \in Seq(C)
  PROVE  ReplaceOnce(s, f, by) \in Seq(C)
<1>1. CASE ~Occurs(f, s)
  BY <1>1, OnceNone
<1>2. CASE Occurs(f, s)
  <2>1. PICK i : First(f, s, i)
    BY <1>2, FirstExists
  <2>2. Len(s) \in Nat /\ Len(f) \in Nat /\ i \in 1 .. Len(s) - Len(f) + 1
    BY <2>1 DEF First, At
  <2>3. SubSeq(s, 1, i - 1) \in Seq(C) /\ SubSeq(s, i + Len(f), Len(s)) \in Seq(C)
    BY <2>2
  <2>4. ReplaceOnce(s, f, by) = SubSeq(s, 1, i - 1) \o by \o SubSeq(s, i + Len(f), Len(s))
    BY <2>1, OnceIs
  <2>5. \A x, y \in Seq(C) : x \o by \o y \in Seq(C)
    OBVIOUS
  <2> QED
    BY <2>3, <2>4, <2>5
<1> QED
  BY <1>1, <1>2

(* g[n] is what n replacements leave of s.                                 *)
Replacements(g, s, f, by, C) ==
  /\ g \in [0 .. Len(s) -> Seq(C)] /\ g[0] = s
  /\ \A n \in 1 .. Len(s) : g[n] = ReplaceOnce(g[n - 1], f, by)

(* ReplaceAll is a recursive function: what its rounds make of s.          *)
LEMMA ReplaceAllIs ==
  ASSUME NEW C, NEW s \in Seq(C), NEW f \in Seq(C), Len(f) > 0, NEW by \in Seq(C)
  PROVE  \E g : Replacements(g, s, f, by, C) /\ ReplaceAll(s, f, by) = g[Len(s)]
<1> DEFINE next(g, n) == IF n = 0 THEN s ELSE ReplaceOnce(g[n - 1], f, by)
           gg == CHOOSE g : g = [n \in 0 .. Len(s) |-> next(g, n)]
           step == [p \in Nat \X Seq(C) |-> ReplaceOnce(p[2], f, by)]
<1>1. ReplaceAll(s, f, by) = gg[Len(s)]
  BY DEF ReplaceAll
<1>2. step \in [Nat \X Seq(C) -> Seq(C)]
  BY OnceType
<1>3. \A n \in Nat, x \in Seq(C) : step[<<n, x>>] = ReplaceOnce(x, f, by)
  OBVIOUS
<1> HIDE DEF step
<1>4. Len(s) \in Nat
  OBVIOUS
<1>5. PICK g \in [0 .. Len(s) -> Seq(C)] : g[0] = s
                                             /\ \A i \in 1 .. Len(s) : g[i] = step[<<i, g[i - 1]>>]
  <2> DEFINE D == Seq(C)
  <2>1. s \in D /\ step \in [Nat \X D -> D]
    BY <1>2
  <2> HIDE DEF D
  <2>2. \E g : RoundsFrom(g, D, s, step, Len(s))
    BY <1>4, <2>1, RoundsAre
  <2> QED
    BY <2>2 DEF D, RoundsFrom
<1>6. \A n \in 1 .. Len(s) : g[n] = ReplaceOnce(g[n - 1], f, by)
  <2> TAKE n \in 1 .. Len(s)
  <2>1. n \in Nat /\ n - 1 \in 0 .. Len(s)
    BY <1>4
  <2>2. g[n - 1] \in Seq(C)
    BY <2>1
  <2>3. g[n] = step[<<n, g[n - 1]>>]
    BY <1>5
  <2> QED
    BY <1>3, <2>1, <2>2, <2>3
<1>7. g = [n \in 0 .. Len(s) |-> next(g, n)]
  <2>1. g = [n \in 0 .. Len(s) |-> g[n]]
    OBVIOUS
  <2>2. \A n \in 0 .. Len(s) : g[n] = next(g, n)
    BY <1>4, <1>5, <1>6
  <2> HIDE DEF next
  <2> QED
    BY <2>1, <2>2
<1>8. gg = [n \in 0 .. Len(s) |-> next(gg, n)]
  <2> HIDE DEF next
  <2> QED
    BY <1>7, Zenon
<1> HIDE DEF gg
<1>9. gg[0] = s /\ \A n \in 1 .. Len(s) : gg[n] = ReplaceOnce(gg[n - 1], f, by)
  <2>1. \A n \in 0 .. Len(s) : gg[n] = next(gg, n)
    <3> HIDE DEF next
    <3> QED
      BY <1>8
  <2> QED
    BY <1>4, <2>1
<1> DEFINE T == { n \in Nat : n <= Len(s) => gg[n] = g[n] }
<1>10. 0 \in T
  BY <1>5, <1>9
<1>11. ASSUME NEW n \in Nat, n \in T PROVE n + 1 \in T
  <2> SUFFICES ASSUME n + 1 <= Len(s) PROVE gg[n + 1] = g[n + 1]
    OBVIOUS
  <2>1. gg[n] = g[n] /\ n + 1 \in 1 .. Len(s) /\ (n + 1) - 1 = n
    BY <1>4, <1>11
  <2> QED
    BY <1>6, <1>9, <2>1
<1> HIDE DEF T
<1>12. Len(s) \in T
  BY <1>4, <1>10, <1>11, Induct
<1>13. gg[Len(s)] = g[Len(s)]
  BY <1>4, <1>12 DEF T
<1> QED
  BY <1>1, <1>5, <1>6, <1>13 DEF Replacements

(* The first n sequences of ss behind each other are g[n].                 *)
Flattens(g, ss, C) ==
  /\ g \in [0 .. Len(ss) -> Seq(C)] /\ g[0] = <<>>
  /\ \A n \in 1 .. Len(ss) : g[n] = g[n - 1] \o ss[n]

(* FlattenSeq is a recursive function: it puts one behind the other.       *)
LEMMA FlattenIs ==
  ASSUME NEW C, NEW ss \in Seq(Seq(C))
  PROVE  \E g : Flattens(g, ss, C) /\ Strings!FlattenSeq(ss) = g[Len(ss)]
<1> DEFINE D == Seq(C)
           step == [p \in Nat \X D |-> IF p[1] \in 1 .. Len(ss) THEN p[2] \o ss[p[1]] ELSE p[2]]
           next(h, i) == IF i = 1 THEN ss[i] ELSE h[i - 1] \o ss[i]
           hh == CHOOSE h : h = [i \in 1 .. Len(ss) |-> next(h, i)]
<1>1. Len(ss) \in Nat /\ \A i \in 1 .. Len(ss) : ss[i] \in D
  OBVIOUS
<1>2. step \in [Nat \X D -> D] /\ <<>> \in D
  OBVIOUS
<1>3. \A n \in 1 .. Len(ss), x \in D : step[<<n, x>>] = x \o ss[n]
  <2> TAKE n \in 1 .. Len(ss), x \in D
  <2> HIDE DEF D
  <2>1. n \in Nat /\ <<n, x>> \in Nat \X D /\ <<n, x>>[1] = n /\ <<n, x>>[2] = x
    BY <1>1
  <2> QED
    BY <2>1
<1> HIDE DEF step, D
<1>4. PICK g : RoundsFrom(g, D, <<>>, step, Len(ss))
  BY <1>1, <1>2, RoundsAre
<1>5. g \in [0 .. Len(ss) -> D] /\ g[0] = <<>> /\ \A n \in 1 .. Len(ss) : g[n] = g[n - 1] \o ss[n]
  <2>1. g \in [0 .. Len(ss) -> D] /\ g[0] = <<>>
          /\ \A n \in 1 .. Len(ss) : g[n] = step[<<n, g[n - 1]>>]
    BY <1>4 DEF RoundsFrom
  <2>2. \A n \in 1 .. Len(ss) : g[n - 1] \in D
    <3>1. \A n \in 1 .. Len(ss) : n - 1 \in 0 .. Len(ss)
      BY <1>1
    <3> QED
      BY <2>1, <3>1
  <2> QED
    BY <1>3, <2>1, <2>2
<1>6. Flattens(g, ss, C)
  BY <1>5 DEF Flattens, D
<1>7. CASE Len(ss) = 0
  <2>1. Strings!FlattenSeq(ss) = ss /\ ss = <<>>
    BY <1>7 DEF Strings!FlattenSeq
  <2> QED
    BY <1>5, <1>6, <1>7, <2>1
<1>8. CASE Len(ss) > 0
  <2>1. Strings!FlattenSeq(ss) = hh[Len(ss)]
    BY <1>8 DEF Strings!FlattenSeq
  <2>2. g[1] = ss[1]
    <3>a. 1 \in 1 .. Len(ss) /\ 1 - 1 = 0
      BY <1>1, <1>8
    <3>b. g[1] = g[0] \o ss[1]
      BY <1>5, <3>a
    <3>1. g[1] = g[0] \o ss[1] /\ ss[1] \in Seq(C)
      BY <1>1, <3>a, <3>b DEF D
    <3> QED
      BY <1>5, <3>1
  <2> DEFINE h == [i \in 1 .. Len(ss) |-> g[i]]
  <2>3. \A i \in 1 .. Len(ss) : h[i] = next(h, i)
    <3> TAKE i \in 1 .. Len(ss)
    <3>1. CASE i = 1
      BY <2>2, <3>1
    <3>2. CASE i # 1
      <4>1. i - 1 \in 1 .. Len(ss)
        BY <1>1, <3>2
      <4> QED
        BY <1>5, <3>2, <4>1
    <3> QED
      BY <3>1, <3>2
  <2>4. h = [i \in 1 .. Len(ss) |-> h[i]]
    BY Zenon
  <2> HIDE DEF h
  <2>5. h = [i \in 1 .. Len(ss) |-> next(h, i)]
    <3> HIDE DEF next
    <3> QED
      BY <2>3, <2>4
  <2>6. hh = [i \in 1 .. Len(ss) |-> next(hh, i)]
    <3> HIDE DEF next
    <3> QED
      BY <2>5, Zenon
  <2> HIDE DEF hh
  <2>7. \A i \in 1 .. Len(ss) : hh[i] = IF i = 1 THEN ss[i] ELSE hh[i - 1] \o ss[i]
    <3>1. \A i \in 1 .. Len(ss) : hh[i] = next(hh, i)
      <4> HIDE DEF next
      <4> QED
        BY <2>6
    <3> QED
      BY <3>1
  <2> DEFINE T == { n \in Nat : n \in 1 .. Len(ss) => hh[n] = g[n] }
  <2>8. 0 \in T
    OBVIOUS
  <2>9. ASSUME NEW n \in Nat, n \in T PROVE n + 1 \in T
    <3> SUFFICES ASSUME n + 1 \in 1 .. Len(ss) PROVE hh[n + 1] = g[n + 1]
      OBVIOUS
    <3>1. CASE n = 0
      BY <2>2, <2>7, <3>1
    <3>2. CASE n # 0
      <4>1. n \in 1 .. Len(ss) /\ (n + 1) - 1 = n /\ n + 1 # 1
        BY <1>1, <3>2
      <4>2. hh[n] = g[n]
        BY <2>9, <4>1
      <4> QED
        <5>1. g[n + 1] = g[n] \o ss[n + 1]
          BY <1>5, <4>1
        <5>2. hh[n + 1] = hh[n] \o ss[n + 1]
          BY <2>7, <4>1
        <5> QED
          BY <4>2, <5>1, <5>2
    <3> QED
      BY <3>1, <3>2
  <2> HIDE DEF T
  <2>10. Len(ss) \in T
    BY <1>1, <2>8, <2>9, Induct
  <2>11. hh[Len(ss)] = g[Len(ss)]
    BY <1>1, <1>8, <2>10 DEF T
  <2> QED
    BY <1>6, <2>1, <2>11
<1> QED
  BY <1>1, <1>7, <1>8

(* c and d stand beside each other in s.                                   *)
Pair(s, c, d) == \E i \in 1 .. Len(s) - 1 : s[i] = c /\ s[i + 1] = d

LEMMA PairOccurs ==
  ASSUME NEW C, NEW s \in Seq(C), NEW c \in C, NEW d \in C
  PROVE  Occurs(<<c, d>>, s) <=> Pair(s, c, d)
<1> DEFINE f == <<c, d>>
<1>1. f \in Seq(C) /\ Len(f) = 2 /\ f[1] = c /\ f[2] = d /\ Len(f) > 0
  OBVIOUS
<1> HIDE DEF f
<1>2. Occurs(f, s) <=> \E i \in 1 .. Len(s) - Len(f) + 1 : SubSeq(s, i, i + Len(f) - 1) = f
  BY <1>1, OccursAt, Zenon
<1>3. ASSUME NEW i \in 1 .. Len(s) - 1
      PROVE  SubSeq(s, i, i + 1) = f <=> s[i] = c /\ s[i + 1] = d
  <2> DEFINE t == SubSeq(s, i, i + 1)
  <2>1. t \in Seq(C) /\ Len(t) = 2 /\ t[1] = s[i] /\ t[2] = s[i + 1]
    <3>1. i \in Int /\ i + 1 \in Int /\ \A k \in i .. i + 1 : s[k] \in C
      OBVIOUS
    <3>2. t \in Seq(C) /\ Len(t) = (IF i <= i + 1 THEN (i + 1) - i + 1 ELSE 0)
          /\ \A k \in 1 .. (i + 1) - i + 1 : t[k] = s[i + k - 1]
      BY <3>1, SubSeqProperties
    <3>3. i <= i + 1 /\ (i + 1) - i + 1 = 2 /\ i + 1 - 1 = i /\ i + 2 - 1 = i + 1
      BY <3>1
    <3>4. t[1] = s[i + 1 - 1] /\ t[2] = s[i + 2 - 1]
      BY <3>2, <3>3
    <3> QED
      BY <3>2, <3>3, <3>4
  <2> HIDE DEF t
  <2>2. t = f <=> t[1] = f[1] /\ t[2] = f[2]
    BY <1>1, <2>1
  <2> QED
    BY <1>1, <2>1, <2>2 DEF t
<1>4. Len(s) - Len(f) + 1 = Len(s) - 1 /\ \A i \in 1 .. Len(s) - 1 : i + Len(f) - 1 = i + 1
  BY <1>1
<1>5. Occurs(f, s) <=> \E i \in 1 .. Len(s) - 1 : SubSeq(s, i, i + 1) = f
  BY <1>2, <1>4
<1> QED
  BY <1>3, <1>5 DEF Pair, f

(* t is u, b and v behind each other.                                      *)
Joins(t, u, b, v) ==
  /\ Len(t) = Len(u) + Len(b) + Len(v)
  /\ \A k \in 1 .. Len(u) : t[k] = u[k]
  /\ \A k \in 1 .. Len(b) : t[Len(u) + k] = b[k]
  /\ \A k \in 1 .. Len(v) : t[Len(u) + Len(b) + k] = v[k]

LEMMA Three ==
  ASSUME NEW C, NEW u \in Seq(C), NEW b \in Seq(C), NEW v \in Seq(C)
  PROVE  u \o b \o v \in Seq(C) /\ Joins(u \o b \o v, u, b, v)
<1>1. PICK w : w = u \o b
  OBVIOUS
<1>2. /\ w \in Seq(C) /\ Len(w) = Len(u) + Len(b)
      /\ \A i \in 1 .. Len(u) + Len(b) : w[i] = IF i <= Len(u) THEN u[i] ELSE b[i - Len(u)]
  BY <1>1, ConcatProperties
<1>3. /\ w \o v \in Seq(C) /\ Len(w \o v) = Len(w) + Len(v)
      /\ \A i \in 1 .. Len(w) + Len(v) : (w \o v)[i] = IF i <= Len(w) THEN w[i] ELSE v[i - Len(w)]
  <2>1. w \in Seq(C)
    BY <1>2
  <2> QED
    BY <2>1, ConcatProperties
<1>4. Len(u) \in Nat /\ Len(b) \in Nat /\ Len(v) \in Nat
  OBVIOUS
<1>5. PICK t : t = w \o v
  OBVIOUS
<1>6. \A k \in 1 .. Len(u) : t[k] = u[k]
  BY <1>2, <1>3, <1>4, <1>5
<1>7. \A k \in 1 .. Len(b) : t[Len(u) + k] = b[k]
  <2> TAKE k \in 1 .. Len(b)
  <2>1. Len(u) + k \in 1 .. Len(w) /\ ~(Len(u) + k <= Len(u)) /\ (Len(u) + k) - Len(u) = k
        /\ Len(u) + k \in 1 .. Len(w) + Len(v)
    BY <1>2, <1>4
  <2> QED
    BY <1>2, <1>3, <1>5, <2>1
<1>8. \A k \in 1 .. Len(v) : t[Len(u) + Len(b) + k] = v[k]
  <2> TAKE k \in 1 .. Len(v)
  <2>1. PICK n : n = Len(u) + Len(b) + k
    OBVIOUS
  <2>2. n \in 1 .. Len(w) + Len(v) /\ ~(n <= Len(w)) /\ n - Len(w) = k
    BY <1>2, <1>4, <2>1
  <2> QED
    BY <1>3, <1>5, <2>1, <2>2
<1> QED
  BY <1>1, <1>2, <1>3, <1>4, <1>5, <1>6, <1>7, <1>8 DEF Joins

(* A replacement by the character the replaced part begins and ends with   *)
(* makes the text shorter and makes no new neighbours.                     *)
Shrunk(r, s, f, C) ==
  /\ r \in Seq(C) /\ Len(r) <= Len(s)
  /\ Occurs(f, s) => Len(r) < Len(s)
  /\ \A c, d : Pair(r, c, d) => Pair(s, c, d)

LEMMA OnceShrinks ==
  ASSUME NEW C, NEW s \in Seq(C), NEW f \in Seq(C), Len(f) >= 2, f[1] = f[Len(f)]
  PROVE  Shrunk(ReplaceOnce(s, f, <<f[1]>>), s, f, C)
<1> DEFINE by == <<f[1]>>
           m == Len(f)
<1>1. m \in Nat /\ m >= 2 /\ f[1] \in C /\ f[m] = f[1] /\ by \in Seq(C) /\ Len(by) = 1
        /\ by[1] = f[1]
  OBVIOUS
<1> HIDE DEF by
<1>2. CASE ~Occurs(f, s)
  BY <1>2, OnceNone DEF Shrunk, by
<1>3. CASE Occurs(f, s)
  <2>1. PICK i : First(f, s, i)
    BY <1>1, <1>3, FirstExists
  <2>2. i \in 1 .. Len(s) - m + 1 /\ Len(s) \in Nat /\ SubSeq(s, i, i + m - 1) = f
    BY <2>1 DEF First, At
  <2> DEFINE u == SubSeq(s, 1, i - 1)
             v == SubSeq(s, i + m, Len(s))
             r == u \o by \o v
  <2>3. u \in Seq(C) /\ Len(u) = i - 1 /\ \A k \in 1 .. i - 1 : u[k] = s[k]
    BY <1>1, <2>2
  <2>4. v \in Seq(C) /\ Len(v) = Len(s) - (i + m - 1)
          /\ \A k \in 1 .. Len(v) : v[k] = s[k + (i + m - 1)]
    <3> HIDE DEF m
    <3>1. i + m \in 1 .. Len(s) + 1 /\ i + m - 1 \in Nat
      BY <1>1, <2>2
    <3>2. v \in Seq(C) /\ Len(v) = Len(s) - (i + m - 1)
      BY <1>1, <2>2, <3>1
    <3>3. \A k \in 1 .. Len(v) : v[k] = s[(i + m) + k - 1]
      BY <1>1, <2>2, <3>1, <3>2
    <3>4. \A k \in 1 .. Len(v) : (i + m) + k - 1 = k + (i + m - 1)
      BY <1>1, <2>2, <3>2
    <3> QED
      BY <3>2, <3>3, <3>4
  <2>5. s[i] = f[1] /\ s[i + m - 1] = f[1]
    <3> DEFINE w == SubSeq(s, i, i + m - 1)
    <3>1. w[1] = s[i] /\ w[m] = s[i + m - 1]
      <4> HIDE DEF m
      <4>1. PICK e : e = i + m - 1
        OBVIOUS
      <4>2. i \in 1 .. Len(s) /\ e \in i .. Len(s) /\ e - i + 1 = m
        BY <1>1, <2>2, <4>1
      <4>3. i \in Int /\ e \in Int /\ \A k \in i .. e : s[k] \in C
        BY <2>2, <4>2
      <4>4. \A k \in 1 .. m : w[k] = s[i + k - 1]
        <5>1. \A k \in 1 .. e - i + 1 : SubSeq(s, i, e)[k] = s[i + k - 1]
          BY <4>3, SubSeqProperties
        <5> QED
          BY <4>1, <4>2, <5>1
      <4>5. 1 \in 1 .. m /\ m \in 1 .. m /\ i + 1 - 1 = i
        BY <1>1, <4>2
      <4> HIDE DEF w
      <4>6. w[1] = s[i + 1 - 1]
        BY <4>4, <4>5
      <4> QED
        BY <4>4, <4>5, <4>6
    <3> QED
      BY <1>1, <2>2, <3>1
  <2> HIDE DEF u, v, m
  <2>a. r \in Seq(C) /\ Joins(r, u, by, v)
    BY <1>1, <2>3, <2>4, Three
  <2> HIDE DEF r
  <2>6. r \in Seq(C) /\ Len(r) = Len(s) - m + 1
    <3>1. r \in Seq(C) /\ Len(r) = Len(u) + 1 + Len(v)
      BY <1>1, <2>a DEF Joins
    <3> QED
      BY <1>1, <2>2, <2>3, <2>4, <3>1
  <2>7. \A k \in 1 .. i : r[k] = s[k]
    <3> TAKE k \in 1 .. i
    <3>1. CASE k = i
      <4>1. r[Len(u) + 1] = by[1]
        BY <1>1, <2>a DEF Joins
      <4>2. Len(u) + 1 = k
        BY <2>2, <2>3, <3>1
      <4> QED
        BY <1>1, <2>5, <3>1, <4>1, <4>2
    <3>2. CASE k # i
      <4>1. k \in 1 .. i - 1
        BY <2>2, <3>2
      <4>2. r[k] = u[k]
        BY <1>1, <2>3, <2>a, <4>1 DEF Joins
      <4> QED
        BY <2>3, <4>1, <4>2
    <3> QED
      BY <3>1, <3>2
  <2>8. \A k \in i .. Len(r) : r[k] = s[k + m - 1]
    <3> TAKE k \in i .. Len(r)
    <3>1. CASE k = i
      BY <2>2, <2>5, <2>7, <3>1
    <3>2. CASE k # i
      <4>1. k - i \in 1 .. Len(v) /\ (k - i) + (i + m - 1) = k + m - 1
        BY <1>1, <2>2, <2>4, <2>6, <3>2
      <4>2. r[Len(u) + Len(by) + (k - i)] = v[k - i]
        BY <1>1, <2>3, <2>a, <4>1 DEF Joins
      <4>3. Len(u) + Len(by) + (k - i) = k
        BY <1>1, <2>2, <2>3, <4>1
      <4> QED
        BY <2>4, <4>1, <4>2, <4>3
    <3> QED
      BY <3>1, <3>2
  <2>9. ASSUME NEW c, NEW d, Pair(r, c, d) PROVE Pair(s, c, d)
    <3>1. PICK k \in 1 .. Len(r) - 1 : r[k] = c /\ r[k + 1] = d
      BY <2>9 DEF Pair
    <3>2. CASE k < i
      <4>1. k \in 1 .. i /\ k + 1 \in 1 .. i /\ k \in 1 .. Len(s) - 1
        BY <1>1, <2>2, <2>6, <3>2
      <4> QED
        BY <2>7, <3>1, <4>1 DEF Pair
    <3>3. CASE k >= i
      <4>1. k \in i .. Len(r) /\ k + 1 \in i .. Len(r) /\ k + m - 1 \in 1 .. Len(s) - 1
            /\ (k + 1) + m - 1 = (k + m - 1) + 1
        BY <1>1, <2>2, <2>6, <3>3
      <4>2. s[k + m - 1] = c /\ s[(k + m - 1) + 1] = d
        BY <2>8, <3>1, <4>1
      <4> QED
        BY <4>1, <4>2 DEF Pair
    <3> QED
      BY <2>2, <3>2, <3>3
  <2>10. ReplaceOnce(s, f, by) = r
    <3>1. Len(f) > 0
      BY <1>1 DEF m
    <3> QED
      BY <1>1, <2>1, <3>1, OnceIs DEF r, u, v, m
  <2>11. Len(r) < Len(s)
    BY <1>1, <2>2, <2>6
  <2> QED
    BY <2>6, <2>9, <2>10, <2>11 DEF Shrunk, by
<1> QED
  BY <1>2, <1>3

(* The loops of safedir end without what they look for.                    *)
Rid(r, s, f, C) ==
  /\ r \in Seq(C) /\ Len(r) <= Len(s) /\ ~Occurs(f, r)
  /\ \A c, d : Pair(r, c, d) => Pair(s, c, d)

LEMMA ReplaceAllRids ==
  ASSUME NEW C, NEW s \in Seq(C), NEW f \in Seq(C), Len(f) >= 2, f[1] = f[Len(f)],
         NEW by, by = <<f[1]>>
  PROVE  Rid(ReplaceAll(s, f, by), s, f, C)
<1>1. Len(s) \in Nat /\ Len(f) > 0 /\ by \in Seq(C)
  OBVIOUS
<1>0. PICK g : Replacements(g, s, f, by, C) /\ ReplaceAll(s, f, by) = g[Len(s)]
  BY <1>1, ReplaceAllIs
<1>2. /\ g \in [0 .. Len(s) -> Seq(C)] /\ g[0] = s
      /\ \A n \in 1 .. Len(s) : g[n] = ReplaceOnce(g[n - 1], f, by)
      /\ ReplaceAll(s, f, by) = g[Len(s)]
  BY <1>0 DEF Replacements
<1> DEFINE Good(n) == /\ g[n] \in Seq(C) /\ Len(g[n]) <= Len(s)
                      /\ Occurs(f, g[n]) => Len(g[n]) <= Len(s) - n
                      /\ \A c, d : Pair(g[n], c, d) => Pair(s, c, d)
           T == { n \in Nat : n <= Len(s) => Good(n) }
<1>3. 0 \in T
  BY <1>1, <1>2
<1>4. ASSUME NEW n \in Nat, n \in T PROVE n + 1 \in T
  <2> SUFFICES ASSUME n + 1 <= Len(s) PROVE Good(n + 1)
    <3> HIDE DEF Good
    <3> QED
      OBVIOUS
  <2>1. Good(n)
    <3> HIDE DEF Good
    <3> QED
      BY <1>1, <1>4
  <2>2. PICK x : x = g[n]
    OBVIOUS
  <2>3. PICK y : y = g[n + 1]
    OBVIOUS
  <2>4. y = ReplaceOnce(x, f, by)
    <3>1. n + 1 \in 1 .. Len(s) /\ (n + 1) - 1 = n
      BY <1>1
    <3> QED
      BY <1>2, <2>2, <2>3, <3>1
  <2>5. Shrunk(y, x, f, C)
    BY <2>1, <2>2, <2>4, OnceShrinks
  <2>6. Len(x) \in Nat /\ Len(y) \in Nat
    BY <2>1, <2>2, <2>5 DEF Shrunk
  <2>7. Occurs(f, y) => Occurs(f, x)
    BY <2>4, OnceNone
  <2>8. Occurs(f, y) => Len(y) <= Len(s) - (n + 1)
    BY <1>1, <2>1, <2>2, <2>5, <2>6, <2>7 DEF Shrunk
  <2>9. y \in Seq(C) /\ Len(y) <= Len(s)
    BY <1>1, <2>1, <2>2, <2>5, <2>6 DEF Shrunk
  <2>10. \A c, d : Pair(y, c, d) => Pair(s, c, d)
    BY <2>1, <2>2, <2>5 DEF Shrunk
  <2> QED
    BY <2>3, <2>8, <2>9, <2>10
<1> HIDE DEF T, Good
<1>5. Len(s) \in T
  BY <1>1, <1>3, <1>4, Induct
<1>6. Good(Len(s))
  BY <1>1, <1>5 DEF T
<1> DEFINE r == g[Len(s)]
<1>7. r \in Seq(C) /\ Len(r) <= Len(s) /\ (Occurs(f, r) => Len(r) <= 0)
        /\ \A c, d : Pair(r, c, d) => Pair(s, c, d)
  BY <1>1, <1>6 DEF Good
<1> HIDE DEF r
<1>8. ~Occurs(f, r)
  <2> SUFFICES ASSUME Occurs(f, r) PROVE FALSE
    OBVIOUS
  <2>1. \E i \in 1 .. Len(r) - Len(f) + 1 : SubSeq(r, i, i + Len(f) - 1) = f
    BY <1>1, <1>7, OccursAt
  <2> QED
    BY <1>7, <2>1
<1> QED
  BY <1>2, <1>7, <1>8 DEF r, Rid

(* The later loops make nothing adjacent that an earlier one removed.      *)
LEMMA CleanedIs ==
  ASSUME NEW C, "." \in C, "/" \in C, NEW s \in Seq(C)
  PROVE  /\ Cleaned(s) \in Seq(C) /\ Len(Cleaned(s)) <= Len(s)
         /\ ~Pair(Cleaned(s), ".", ".") /\ ~Pair(Cleaned(s), "/", "/")
<1> DEFINE a == ReplaceAll(s, Dots, <<".">>)
           b == ReplaceAll(a, Slashes, <<"/">>)
           f == <<"/", ".", "/">>
           c == ReplaceAll(b, f, <<"/">>)
<1>1. Dots \in Seq(C) /\ Len(Dots) = 2 /\ Dots[1] = "." /\ Dots[2] = "."
  BY DEF Dots
<1>2. Slashes \in Seq(C) /\ Len(Slashes) = 2 /\ Slashes[1] = "/" /\ Slashes[2] = "/"
  BY DEF Slashes
<1>3. f \in Seq(C) /\ Len(f) = 3 /\ f[1] = "/" /\ f[3] = "/"
  OBVIOUS
<1> HIDE DEF f
<1>4. Rid(a, s, Dots, C)
  BY <1>1, ReplaceAllRids
<1> HIDE DEF a
<1>5. Rid(b, a, Slashes, C)
  <2>1. a \in Seq(C)
    BY <1>4 DEF Rid
  <2>2. Len(Slashes) >= 2 /\ Slashes[1] = Slashes[Len(Slashes)] /\ <<"/">> = <<Slashes[1]>>
    BY <1>2
  <2> QED
    BY <1>2, <2>1, <2>2, ReplaceAllRids, Zenon
<1> HIDE DEF b
<1>6. Rid(c, b, f, C)
  <2>1. b \in Seq(C)
    BY <1>5 DEF Rid
  <2>2. Len(f) >= 2 /\ f[1] = f[Len(f)] /\ <<"/">> = <<f[1]>>
    BY <1>3
  <2> QED
    BY <1>3, <2>1, <2>2, ReplaceAllRids, Zenon
<1> HIDE DEF c
<1>7. Len(c) <= Len(s)
  <2>1. Len(s) \in Nat /\ Len(a) \in Nat /\ Len(b) \in Nat /\ Len(c) \in Nat
    BY <1>4, <1>5, <1>6 DEF Rid
  <2> QED
    BY <1>4, <1>5, <1>6, <2>1 DEF Rid
<1>8. ~Pair(a, ".", ".") /\ ~Pair(b, "/", "/")
  BY <1>4, <1>5, PairOccurs DEF Rid, Dots, Slashes
<1>9. Cleaned(s) = c
  BY DEF Cleaned, a, b, c, f
<1> QED
  BY <1>5, <1>6, <1>7, <1>8, <1>9 DEF Rid

(* Leading is a CHOOSE: what it chooses exists.                            *)
LEMMA LeadingIs ==
  ASSUME NEW C, NEW s \in Seq(C), NEW c
  PROVE  /\ Leading(s, c) \in 0 .. Len(s)
         /\ \A i \in 1 .. Leading(s, c) : s[i] = c
         /\ Leading(s, c) = Len(s) \/ s[Leading(s, c) + 1] # c
<1> DEFINE S == { n \in Nat : n = Len(s) \/ s[n + 1] # c }
           ok(n) == (\A i \in 1 .. n : s[i] = c) /\ (n = Len(s) \/ s[n + 1] # c)
<1>1. Len(s) \in Nat /\ Len(s) \in S
  OBVIOUS
<1>2. PICK n \in S : \A y \in S : n <= y
  <2> HIDE DEF S
  <2>1. S \subseteq Nat
    BY DEF S
  <2> QED
    BY <1>1, <2>1, LeastIn
<1>3. n \in 0 .. Len(s)
  BY <1>1, <1>2
<1>4. \A i \in 1 .. n : s[i] = c
  <2> TAKE i \in 1 .. n
  <2>1. i - 1 \in Nat /\ ~(n <= i - 1) /\ (i - 1) + 1 = i
    BY <1>3
  <2>2. i - 1 \notin S
    BY <1>2, <2>1
  <2> QED
    BY <2>1, <2>2
<1>5. \E k \in 0 .. Len(s) : ok(k)
  BY <1>2, <1>3, <1>4
<1> DEFINE l == CHOOSE k \in 0 .. Len(s) : ok(k)
<1>6. l \in 0 .. Len(s) /\ ok(l)
  <2> HIDE DEF ok
  <2> QED
    BY <1>5
<1>7. Leading(s, c) = l
  BY DEF Leading
<1> HIDE DEF l
<1> QED
  BY <1>6, <1>7

(* Both ends of a sequence.                                                *)
LEMMA Prefix ==
  ASSUME NEW C, NEW s \in Seq(C), NEW n \in 0 .. Len(s)
  PROVE  /\ SubSeq(s, 1, n) \in Seq(C) /\ Len(SubSeq(s, 1, n)) = n
         /\ \A i \in 1 .. n : SubSeq(s, 1, n)[i] = s[i]
OBVIOUS

LEMMA Suffix ==
  ASSUME NEW C, NEW s \in Seq(C), NEW n \in 0 .. Len(s)
  PROVE  /\ SubSeq(s, n + 1, Len(s)) \in Seq(C) /\ Len(SubSeq(s, n + 1, Len(s))) = Len(s) - n
         /\ \A i \in 1 .. Len(s) - n : SubSeq(s, n + 1, Len(s))[i] = s[n + i]
<1>1. n + 1 \in Int /\ Len(s) \in Int /\ \A i \in n + 1 .. Len(s) : s[i] \in C
  OBVIOUS
<1> DEFINE t == SubSeq(s, n + 1, Len(s))
<1>2. /\ t \in Seq(C) /\ Len(t) = IF n + 1 <= Len(s) THEN Len(s) - (n + 1) + 1 ELSE 0
      /\ \A i \in 1 .. Len(s) - (n + 1) + 1 : t[i] = s[(n + 1) + i - 1]
  BY <1>1, SubSeqProperties
<1> HIDE DEF t
<1>3. Len(t) = Len(s) - n
  BY <1>1, <1>2
<1>4. \A i \in 1 .. Len(s) - n : t[i] = s[n + i]
  <2>1. Len(s) - (n + 1) + 1 = Len(s) - n /\ \A i \in 1 .. Len(s) - n : (n + 1) + i - 1 = n + i
    BY <1>1
  <2> QED
    BY <1>2, <2>1
<1> QED
  BY <1>2, <1>3, <1>4 DEF t

LEMMA StartsWithIs ==
  ASSUME NEW C, NEW c \in C, NEW s \in Seq(C), Len(s) >= 1, s[1] = c
  PROVE  startswith(s, <<c>>)
<1> DEFINE one == <<c>>
<1>1. one \in Seq(C) /\ Len(one) = 1 /\ one[1] = c
  OBVIOUS
<1> HIDE DEF one
<1>2. SubSeq(one, 1, Len(one)) = one
  BY <1>1, SubSeqFull
<1>3. Len(one) \in 0 .. Len(s) /\ Len(one) <= Len(s)
  BY <1>1
<1> DEFINE t == SubSeq(s, 1, Len(one))
<1>4. t \in Seq(C) /\ Len(t) = Len(one) /\ \A i \in 1 .. Len(one) : t[i] = s[i]
  BY <1>3, Prefix
<1> HIDE DEF t
<1>5. t = one
  BY <1>1, <1>4
<1>6. startswith(s, one)
  BY <1>2, <1>3, <1>5 DEF startswith, Strings!IsPrefix, t
<1> QED
  BY <1>6 DEF one

(* A path that begins with its only slash there.                           *)
LEMMA SafedirIs ==
  ASSUME NEW C, "." \in C, "/" \in C, NEW dir \in Seq(C), NEW behind \in Seq(C)
  PROVE  LET r == safedir(dir, behind)
         IN  /\ r \in Seq(C) /\ Len(r) >= 1 /\ Len(r) <= Len(dir) + 1 /\ r[1] = "/"
             /\ ~Pair(r, ".", ".") /\ ~Pair(r, "/", "/")
<1> DEFINE printed == [i \in DOMAIN dir |-> Printable(dir[i])]
           ret == Cleaned(printed \o behind)
           k == IF Len(ret) < Len(dir) THEN Len(ret) ELSE Len(dir)
           all == SubSeq(ret, 1, k)
           n == LeadingSlashes(all)
           rest == SubSeq(all, n + 1, Len(all))
           r == <<"/">> \o rest
<1>1. Len(dir) \in Nat /\ dir \in [1 .. Len(dir) -> C]
  OBVIOUS
<1>2. printed \in Seq(C) /\ printed \o behind \in Seq(C)
  <2>1. printed \in [1 .. Len(dir) -> C]
    BY <1>1 DEF Printable
  <2>2. printed \in Seq(C)
    BY <1>1, <2>1
  <2> HIDE DEF printed
  <2> QED
    BY <2>2
<1> HIDE DEF printed
<1>3. ret \in Seq(C) /\ ~Pair(ret, ".", ".") /\ ~Pair(ret, "/", "/")
  BY <1>2, CleanedIs
<1> HIDE DEF ret
<1>4. k \in 0 .. Len(ret) /\ k <= Len(dir)
  BY <1>1, <1>3
<1> HIDE DEF k
<1>5. all \in Seq(C) /\ Len(all) = k /\ \A i \in 1 .. k : all[i] = ret[i]
  BY <1>3, <1>4, Prefix
<1> HIDE DEF all
<1>6. n \in 0 .. k /\ (n = k \/ all[n + 1] # "/")
  BY <1>5, LeadingIs DEF LeadingSlashes
<1> HIDE DEF n
<1>7. rest \in Seq(C) /\ Len(rest) = k - n /\ \A i \in 1 .. k - n : rest[i] = all[n + i]
  BY <1>5, <1>6, Suffix
<1> HIDE DEF rest
<1>8. k \in Nat /\ n \in Nat /\ Len(ret) \in Nat
  BY <1>3, <1>4, <1>6
<1>9. r \in Seq(C) /\ Len(r) = k - n + 1 /\ r[1] = "/" /\ \A i \in 1 .. k - n : r[i + 1] = rest[i]
  <2> DEFINE a == <<"/">>
  <2>1. a \in Seq(C) /\ Len(a) = 1 /\ a[1] = "/"
    OBVIOUS
  <2> HIDE DEF a
  <2>2. /\ a \o rest \in Seq(C) /\ Len(a \o rest) = Len(a) + Len(rest)
        /\ \A i \in 1 .. Len(a) + Len(rest) : (a \o rest)[i] = IF i <= Len(a)
             THEN a[i] ELSE rest[i - Len(a)]
    BY <1>7, <2>1, ConcatProperties
  <2>3. PICK w : w = a \o rest
    OBVIOUS
  <2>4. w[1] = "/" /\ Len(w) = k - n + 1
    BY <1>7, <1>8, <2>1, <2>2, <2>3, <1>6
  <2>5. \A i \in 1 .. k - n : w[i + 1] = rest[i]
    <3> TAKE i \in 1 .. k - n
    <3>1. i + 1 \in 1 .. Len(a) + Len(rest) /\ ~(i + 1 <= Len(a)) /\ (i + 1) - Len(a) = i
      BY <1>7, <1>8, <2>1
    <3> QED
      BY <2>2, <2>3, <3>1
  <2> QED
    BY <2>2, <2>3, <2>4, <2>5 DEF a
<1> HIDE DEF r
<1>10. ASSUME NEW c, NEW d, Pair(r, c, d) PROVE (c = "/" /\ d # "/") \/ Pair(ret, c, d)
  <2>1. PICK i \in 1 .. Len(r) - 1 : r[i] = c /\ r[i + 1] = d
    BY <1>10 DEF Pair
  <2>2. CASE i = 1
    <3>1. n # k /\ r[1 + 1] = rest[1] /\ rest[1] = all[n + 1]
      BY <1>7, <1>8, <1>9, <2>1, <2>2, <1>6
    <3> QED
      BY <1>6, <1>9, <2>1, <2>2, <3>1
  <2>3. CASE i # 1
    <3>1. /\ i - 1 \in 1 .. k - n /\ i \in 1 .. k - n /\ n + i = (n + (i - 1)) + 1
               /\ (i - 1) + 1 = i
          /\ n + (i - 1) \in 1 .. k /\ n + i \in 1 .. k /\ n + (i - 1) \in 1 .. Len(ret) - 1
      BY <1>4, <1>6, <1>8, <1>9, <2>1, <2>3
    <3>2. c = rest[i - 1] /\ d = rest[i]
      BY <1>9, <2>1, <3>1
    <3>3. c = ret[n + (i - 1)] /\ d = ret[(n + (i - 1)) + 1]
      BY <1>5, <1>7, <3>1, <3>2
    <3> QED
      BY <3>1, <3>3 DEF Pair
  <2> QED
    BY <2>2, <2>3
<1>11. ~Pair(r, ".", ".") /\ ~Pair(r, "/", "/")
  BY <1>3, <1>10
<1>12. Len(r) >= 1 /\ Len(r) <= Len(dir) + 1
  BY <1>1, <1>4, <1>6, <1>8, <1>9
<1>13. safedir(dir, behind) = r
  BY DEF safedir, r, rest, n, all, k, ret, printed
<1> QED
  BY <1>9, <1>11, <1>12, <1>13

(* Texts are made of the characters of their use.                          *)
TextTyped == use \in DOMAIN Alphabet /\ text \in Seq(Alphabet[use])

LEMMA TextInvariance == TextSpec => []TextTyped
<1>1. TextInit => TextTyped
  BY DEF TextInit, TextTyped
<1>2. TextTyped /\ [TextNext]_textVars => TextTyped'
  BY DEF TextTyped, TextNext, Type, textVars
<1> QED
  BY <1>1, <1>2, PTL DEF TextSpec

LEMMA PathStaysBelow == TextTyped => SafedirStaysBelow
<1> SUFFICES ASSUME TextTyped, use = "path", NEW behind \in Behind
             PROVE  LET dir == safedir(text, behind) IN
                    /\ startswith(dir, <<"/">>)
                    /\ ~ Occurs(Dots, dir) /\ ~ Occurs(Slashes, dir)
                    /\ Len(dir) <= Len(text) + 1
  BY DEF SafedirStaysBelow
<1> DEFINE C == Alphabet[use] \cup {".", "/", "a"}
           dir == safedir(text, behind)
<1>1. text \in Seq(C) /\ behind \in Seq(C) /\ "." \in C /\ "/" \in C
  <2>1. text \in Seq(C)
    BY DEF TextTyped
  <2>2. behind = <<>> \/ \E c, d \in {".", "/", "a"} : behind = <<c>> \/ behind = <<c, d>>
    BY DEF Behind
  <2>3. behind \in Seq(C)
    <3>1. \A c, d \in C : <<>> \in Seq(C) /\ <<c>> \in Seq(C) /\ <<c, d>> \in Seq(C)
      <4> HIDE DEF C
      <4> QED
        OBVIOUS
    <3>2. {".", "/", "a"} \subseteq C
      OBVIOUS
    <3> HIDE DEF C
    <3> QED
      BY <2>2, <3>1, <3>2
  <2> QED
    BY <2>1, <2>3
<1> HIDE DEF C
<1>2. /\ dir \in Seq(C) /\ Len(dir) >= 1 /\ Len(dir) <= Len(text) + 1 /\ dir[1] = "/"
      /\ ~Pair(dir, ".", ".") /\ ~Pair(dir, "/", "/")
  BY <1>1, SafedirIs
<1> HIDE DEF dir
<1>3. ~Occurs(Dots, dir) /\ ~Occurs(Slashes, dir)
  BY <1>1, <1>2, PairOccurs DEF Dots, Slashes
<1>4. startswith(dir, <<"/">>)
  BY <1>1, <1>2, StartsWithIs
<1> QED
  BY <1>2, <1>3, <1>4 DEF dir

(* A cleaned path has no empty component and none that leads upwards, for  *)
(* paths of any length and whatever stands behind the copy (safedir,       *)
(* file.c:210-273).                                                        *)
THEOREM PathsStayBelow == TextSpec => []SafedirStaysBelow
BY TextInvariance, PathStaysBelow, PTL

(* l is the last newline before i, or 0.                                   *)
LastBreak(s, i, l) ==
  /\ l \in 0 .. i - 1 /\ (l = 0 \/ s[l] = "\n")
  /\ \A g \in l + 1 .. i - 1 : s[g] # "\n"

LEMMA ColumnIs ==
  ASSUME NEW s, NEW i \in Nat, NEW l, LastBreak(s, i, l)
  PROVE  Column(s, i) = i - l
<1>1. l \in 0 .. i - 1 /\ l \in Nat /\ (l = 0 \/ s[l] = "\n")
        /\ \A g \in l + 1 .. i - 1 : s[g] # "\n"
  BY DEF LastBreak
<1> DEFINE is(h) == s[h] = "\n" /\ \A g \in h + 1 .. i - 1 : s[g] # "\n"
           c == CHOOSE h \in 1 .. i - 1 : is(h)
<1>2. Column(s, i) = i - (IF \E h \in 1 .. i - 1 : s[h] = "\n" THEN c ELSE 0)
  BY DEF Column
<1>3. CASE l = 0
  <2>1. ~ \E h \in 1 .. i - 1 : s[h] = "\n"
    BY <1>1, <1>3
  <2> QED
    BY <1>2, <1>3, <2>1
<1>4. CASE l # 0
  <2>1. l \in 1 .. i - 1 /\ is(l)
    BY <1>1, <1>4
  <2>2. c \in 1 .. i - 1 /\ is(c)
    <3> HIDE DEF is
    <3> QED
      BY <2>1
  <2> HIDE DEF c
  <2>3. c \in Nat /\ ~(l < c) /\ ~(c < l)
    BY <1>1, <2>1, <2>2
  <2>4. c = l
    BY <1>1, <2>3
  <2> QED
    BY <1>2, <2>1, <2>4
<1> QED
  BY <1>3, <1>4

LEMMA BreakExists ==
  ASSUME NEW s, NEW i \in Nat, i > 0
  PROVE  \E l : LastBreak(s, i, l)
<1> DEFINE T == { n \in Nat : \E l : LastBreak(s, n + 1, l) }
<1>1. 0 \in T
  <2>1. LastBreak(s, 0 + 1, 0)
    BY DEF LastBreak
  <2> QED
    BY <2>1
<1>2. ASSUME NEW n \in Nat, n \in T PROVE n + 1 \in T
  <2>1. PICK l : LastBreak(s, n + 1, l)
    BY <1>2
  <2>2. CASE s[n + 1] = "\n"
    <3>1. LastBreak(s, (n + 1) + 1, n + 1)
      BY <2>2 DEF LastBreak
    <3> QED
      BY <3>1
  <2>3. CASE s[n + 1] # "\n"
    <3>1. LastBreak(s, (n + 1) + 1, l)
      BY <2>1, <2>3 DEF LastBreak
    <3> QED
      BY <3>1
  <2> QED
    BY <2>2, <2>3
<1> HIDE DEF T
<1>3. i - 1 \in T /\ (i - 1) + 1 = i
  BY <1>1, <1>2, Induct
<1> QED
  BY <1>3 DEF T

LEMMA ColumnType ==
  ASSUME NEW s, NEW i \in Nat, i > 0
  PROVE  Column(s, i) \in Nat
<1>1. PICK l : LastBreak(s, i, l)
  BY BreakExists
<1> QED
  BY <1>1, ColumnIs DEF LastBreak

(* The columns count up along a line.                                      *)
LEMMA ColumnNext ==
  ASSUME NEW s, NEW i \in Nat, i > 0
  PROVE  Column(s, i + 1) = (IF s[i] = "\n" THEN 1 ELSE Column(s, i) + 1)
<1>4. PICK l : LastBreak(s, i, l)
  BY BreakExists
<1>5. Column(s, i) = i - l /\ l \in Nat
  BY <1>4, ColumnIs DEF LastBreak
<1>6. CASE s[i] = "\n"
  <2>1. LastBreak(s, i + 1, i)
    BY <1>6 DEF LastBreak
  <2>2. Column(s, i + 1) = (i + 1) - i
    BY <2>1, ColumnIs
  <2> QED
    BY <1>6, <2>2
<1>7. CASE s[i] # "\n"
  <2>1. LastBreak(s, i + 1, l)
    BY <1>4, <1>7 DEF LastBreak
  <2>2. Column(s, i + 1) = (i + 1) - l
    BY <2>1, ColumnIs
  <2> QED
    BY <1>5, <1>7, <2>2
<1> QED
  BY <1>6, <1>7

(* g[n] is what the indent leaves of the first n characters.               *)
Dedents(g, s, C) ==
  /\ g \in [0 .. Len(s) -> Seq(C)] /\ g[0] = <<>>
  /\ \A n \in 1 .. Len(s) :
       g[n] = IF Column(s, n) > count_tab(s) THEN Append(g[n - 1], s[n]) ELSE g[n - 1]

LEMMA DedentedIs ==
  ASSUME NEW C, NEW s \in Seq(C)
  PROVE  \E g : Dedents(g, s, C) /\ Dedented(s) = g[Len(s)]
<1> DEFINE ss == [i \in DOMAIN s |-> IF Column(s, i) > count_tab(s) THEN <<s[i]>> ELSE <<>>]
<1>1. Len(s) \in Nat /\ DOMAIN s = 1 .. Len(s) /\ \A i \in 1 .. Len(s) : s[i] \in C
  OBVIOUS
<1>2. ss \in Seq(Seq(C)) /\ Len(ss) = Len(s)
  <2> DEFINE D == Seq(C)
  <2>1. \A i \in 1 .. Len(s) : <<s[i]>> \in D /\ <<>> \in D
    BY <1>1
  <2> HIDE DEF D
  <2>2. ss \in [1 .. Len(s) -> D]
    BY <1>1, <2>1
  <2> HIDE DEF ss
  <2> QED
    BY <1>1, <2>2 DEF D
<1>3. \A i \in 1 .. Len(s) : ss[i] = IF Column(s, i) > count_tab(s) THEN <<s[i]>> ELSE <<>>
  BY <1>1
<1>4. Dedented(s) = Strings!FlattenSeq(ss)
  BY DEF Dedented
<1> HIDE DEF ss
<1>5. PICK g : Flattens(g, ss, C) /\ Strings!FlattenSeq(ss) = g[Len(ss)]
  BY <1>2, FlattenIs
<1>6. g \in [0 .. Len(s) -> Seq(C)] /\ g[0] = <<>>
        /\ \A n \in 1 .. Len(s) : g[n] = g[n - 1] \o ss[n]
  BY <1>2, <1>5 DEF Flattens
<1>7. ASSUME NEW n \in 1 .. Len(s)
      PROVE  g[n] = IF Column(s, n) > count_tab(s) THEN Append(g[n - 1], s[n]) ELSE g[n - 1]
  <2>1. n - 1 \in 0 .. Len(s)
    BY <1>1
  <2>2. g[n - 1] \in Seq(C) /\ s[n] \in C
    BY <1>1, <1>6, <2>1
  <2>3. \A q \in Seq(C), c \in C : q \o <<c>> = Append(q, c) /\ q \o <<>> = q
    OBVIOUS
  <2>4. g[n] = g[n - 1] \o ss[n]
    BY <1>6
  <2> QED
    BY <1>3, <2>2, <2>3, <2>4
<1> QED
  BY <1>2, <1>4, <1>5, <1>6, <1>7 DEF Dedents

LEMMA TabsAre ==
  ASSUME NEW C, NEW s \in Seq(C)
  PROVE  /\ Len(s) \in Nat /\ count_tab(s) \in 0 .. Len(s) /\ count_tab(s) \in Nat
         /\ \A i \in 1 .. count_tab(s) : s[i] # "\n"
<1>1. PICK c : c = " "
  OBVIOUS
<1>a. c # "\n"
  BY <1>1
<1>2. Leading(s, c) \in 0 .. Len(s) /\ \A i \in 1 .. Leading(s, c) : s[i] = c
  BY LeadingIs
<1>3. Len(s) \in Nat
  OBVIOUS
<1>4. count_tab(s) = Leading(s, c)
  BY <1>1, Zenon DEF count_tab
<1> QED
  BY <1>a, <1>2, <1>3, <1>4

(* The rounds of trim.                                                     *)
Copies(a, s, C) ==
  /\ a \in [0 .. Len(s) -> [j : Nat, str : Seq(C)]]
  /\ a[0] = [j |-> count_tab(s) + 1, str |-> <<>>]
  /\ \A n \in 1 .. Len(s) : a[n] = Copy(s, a[n - 1])

LEMMA TrimIs ==
  ASSUME NEW C, NEW s \in Seq(C)
  PROVE  \E a : Copies(a, s, C) /\ trim(s) = a[Len(s)].str
<1> DEFINE D == [j : Nat, str : Seq(C)]
           start == [j |-> count_tab(s) + 1, str |-> <<>>]
           step == [p \in Nat \X D |-> IF p[2].j > 0 THEN Copy(s, p[2]) ELSE p[2]]
           next(h, n) == IF n = 0 THEN start ELSE Copy(s, h[n - 1])
           hh == CHOOSE h : h = [n \in 0 .. Len(s) |-> next(h, n)]
<1>1. Len(s) \in Nat /\ count_tab(s) \in 0 .. Len(s) /\ \A i \in 1 .. Len(s) : s[i] \in C
  BY TabsAre
<1>2. start \in D /\ start.j > 0
  BY <1>1
<1>3. ASSUME NEW at \in D, at.j > 0 PROVE Copy(s, at) \in D /\ Copy(s, at).j > 0
  <2>1. at.j \in Nat /\ at.str \in Seq(C)
    BY <1>3
  <2>2. CASE at.j > Len(s)
    BY <1>3, <2>2 DEF Copy
  <2>3. CASE ~(at.j > Len(s))
    <3>1. s[at.j] \in C
      BY <1>1, <1>3, <2>1, <2>3
    <3>2. Append(at.str, s[at.j]) \in Seq(C)
      BY <2>1, <3>1
    <3>3. NextFrom(s, at.j) \in Nat /\ NextFrom(s, at.j) > 0
      BY <1>1, <2>1 DEF NextFrom
    <3>4. Copy(s, at) = [j |-> NextFrom(s, at.j), str |-> Append(at.str, s[at.j])]
      BY <2>3 DEF Copy
    <3> QED
      BY <3>2, <3>3, <3>4
  <2> QED
    BY <2>2, <2>3
<1>4. step \in [Nat \X D -> D] /\ \A n \in Nat, x \in D : x.j > 0 => step[<<n, x>>] = Copy(s, x)
  <2>1. \A p \in Nat \X D : p[2] \in D /\ (p[2].j > 0 => Copy(s, p[2]) \in D)
    <3> HIDE DEF D
    <3> QED
      BY <1>3
  <2> HIDE DEF D
  <2>2. step \in [Nat \X D -> D]
    BY <2>1
  <2>3. \A n \in Nat, x \in D : <<n, x>> \in Nat \X D /\ <<n, x>>[2] = x
    OBVIOUS
  <2>4. \A n \in Nat, x \in D : step[<<n, x>>] = IF x.j > 0 THEN Copy(s, x) ELSE x
    BY <2>3
  <2> HIDE DEF step
  <2> QED
    BY <2>2, <2>4
<1> HIDE DEF step, start, D
<1>5. PICK a : RoundsFrom(a, D, start, step, Len(s))
  BY <1>1, <1>2, <1>4, RoundsAre
<1>6. a \in [0 .. Len(s) -> D] /\ a[0] = start
        /\ \A n \in 1 .. Len(s) : a[n] = step[<<n, a[n - 1]>>]
  BY <1>5 DEF RoundsFrom
<1> DEFINE P == { n \in Nat : n <= Len(s) => a[n].j > 0 }
<1>7. 0 \in P
  BY <1>2, <1>6
<1>8. ASSUME NEW n \in Nat, n \in P PROVE n + 1 \in P
  <2> SUFFICES ASSUME n + 1 <= Len(s) PROVE a[n + 1].j > 0
    OBVIOUS
  <2>1. n \in 0 .. Len(s) /\ n + 1 \in 1 .. Len(s) /\ (n + 1) - 1 = n /\ n + 1 \in Nat
    BY <1>1
  <2>2. a[n] \in D /\ a[n].j > 0
    BY <1>6, <1>8, <2>1
  <2>3. a[n + 1] = Copy(s, a[n])
    BY <1>4, <1>6, <2>1, <2>2
  <2> QED
    BY <1>3, <2>2, <2>3
<1> HIDE DEF P
<1>9. Nat \subseteq P
  BY <1>7, <1>8, Induct
<1>10. \A n \in 1 .. Len(s) : a[n] = Copy(s, a[n - 1])
  <2> TAKE n \in 1 .. Len(s)
  <2>1. n \in Nat /\ n - 1 \in 0 .. Len(s) /\ n - 1 \in Nat /\ n - 1 <= Len(s)
    BY <1>1
  <2>2. a[n - 1] \in D /\ a[n - 1].j > 0
    BY <1>6, <1>9, <2>1 DEF P
  <2> QED
    BY <1>4, <1>6, <2>1, <2>2
<1>11. a = [n \in 0 .. Len(s) |-> next(a, n)]
  <2>1. a = [n \in 0 .. Len(s) |-> a[n]]
    BY <1>6
  <2>2. \A n \in 0 .. Len(s) : a[n] = next(a, n)
    BY <1>1, <1>6, <1>10
  <2> HIDE DEF next
  <2> QED
    BY <2>1, <2>2
<1>12. hh = [n \in 0 .. Len(s) |-> next(hh, n)]
  <2> HIDE DEF next
  <2> QED
    BY <1>11, Zenon
<1>13. trim(s) = hh[Len(s)].str
  BY DEF trim, start
<1> HIDE DEF hh
<1>14. hh[0] = start /\ \A n \in 1 .. Len(s) : hh[n] = Copy(s, hh[n - 1])
  <2>1. \A n \in 0 .. Len(s) : hh[n] = next(hh, n)
    <3> HIDE DEF next
    <3> QED
      BY <1>12
  <2> QED
    BY <1>1, <2>1
<1> DEFINE T == { n \in Nat : n <= Len(s) => hh[n] = a[n] }
<1>15. 0 \in T
  BY <1>6, <1>14
<1>16. ASSUME NEW n \in Nat, n \in T PROVE n + 1 \in T
  <2> SUFFICES ASSUME n + 1 <= Len(s) PROVE hh[n + 1] = a[n + 1]
    OBVIOUS
  <2>1. hh[n] = a[n] /\ n + 1 \in 1 .. Len(s) /\ (n + 1) - 1 = n
    BY <1>1, <1>16
  <2> QED
    BY <1>10, <1>14, <2>1
<1> HIDE DEF T
<1>17. Len(s) \in T
  BY <1>1, <1>15, <1>16, Induct
<1>18. hh[Len(s)] = a[Len(s)]
  BY <1>1, <1>17 DEF T
<1> QED
  BY <1>6, <1>10, <1>13, <1>18 DEF Copies, D, start

(* The lines: blanks at the start have their place as column, and behind a *)
(* newline the next columns are cut off.                                   *)
LongLines(s) == \A i \in 1 .. Len(s) : s[i] = "\n" => Column(s, i) > count_tab(s)

LEMMA LeadIsCut ==
  ASSUME NEW C, NEW s \in Seq(C), NEW g, Dedents(g, s, C)
  PROVE  /\ \A i \in 0 .. count_tab(s) : g[i] = <<>>
         /\ Column(s, count_tab(s) + 1) = count_tab(s) + 1
<1> DEFINE t == count_tab(s)
<1>1. Len(s) \in Nat /\ t \in 0 .. Len(s) /\ t \in Nat /\ \A i \in 1 .. t : s[i] # "\n"
  BY TabsAre
<1> HIDE DEF t
<1>2. ASSUME NEW i \in 1 .. t + 1 PROVE Column(s, i) = i
  <2>1. i \in Nat /\ LastBreak(s, i, 0)
    BY <1>1 DEF LastBreak
  <2> QED
    BY <2>1, ColumnIs
<1> DEFINE T == { i \in Nat : i <= t => g[i] = <<>> }
<1>3. 0 \in T
  BY DEF Dedents
<1>4. ASSUME NEW i \in Nat, i \in T PROVE i + 1 \in T
  <2> SUFFICES ASSUME i + 1 <= t PROVE g[i + 1] = <<>>
    OBVIOUS
  <2>1. g[i] = <<>> /\ i + 1 \in 1 .. Len(s) /\ (i + 1) - 1 = i /\ i + 1 \in 1 .. t + 1
    BY <1>1, <1>4
  <2>2. ~(Column(s, i + 1) > t)
    BY <1>1, <1>2, <2>1
  <2> QED
    BY <2>1, <2>2 DEF Dedents, t
<1> HIDE DEF T
<1>5. Nat \subseteq T
  BY <1>3, <1>4, Induct
<1>6. \A i \in 0 .. t : g[i] = <<>>
  BY <1>1, <1>5 DEF T
<1>7. Column(s, t + 1) = t + 1
  BY <1>1, <1>2
<1> QED
  BY <1>6, <1>7 DEF t

LEMMA BreakIsCut ==
  ASSUME NEW C, NEW s \in Seq(C), NEW g, Dedents(g, s, C), LongLines(s),
         NEW j \in 1 .. Len(s), s[j] = "\n"
  PROVE  /\ \A k \in 0 .. count_tab(s) : j + k <= Len(s) => g[j + k] = g[j]
         /\ j + count_tab(s) + 1 <= Len(s) => Column(s, j + count_tab(s) + 1) = count_tab(s) + 1
<1> DEFINE t == count_tab(s)
           Clear(k) == \A h \in j + 1 .. j + k : s[h] # "\n"
           T == { k \in Nat : k <= t /\ j + k <= Len(s) => Clear(k) /\ g[j + k] = g[j] }
<1>1. Len(s) \in Nat /\ t \in Nat
  BY TabsAre
<1>2. 0 \in T
  OBVIOUS
<1> HIDE DEF t
<1>3. ASSUME NEW k \in Nat, Clear(k) PROVE Column(s, j + k + 1) = k + 1
  <2>1. LastBreak(s, j + k + 1, j) /\ j + k + 1 \in Nat
    BY <1>3 DEF LastBreak
  <2>2. Column(s, j + k + 1) = (j + k + 1) - j
    BY <2>1, ColumnIs
  <2> QED
    BY <2>2
<1>4. ASSUME NEW k \in Nat, k \in T PROVE k + 1 \in T
  <2> SUFFICES ASSUME k + 1 <= t, j + (k + 1) <= Len(s) PROVE Clear(k + 1) /\ g[j + (k + 1)] = g[j]
    OBVIOUS
  <2>1. Clear(k) /\ g[j + k] = g[j]
    <3>1. k <= t /\ j + k <= Len(s)
      BY <1>1
    <3> HIDE DEF Clear
    <3> QED
      BY <1>4, <3>1
  <2>2. PICK n : n = j + k + 1
    OBVIOUS
  <2>3. n \in 1 .. Len(s) /\ n - 1 = j + k /\ n = j + (k + 1)
    BY <1>1, <2>2
  <2>4. Column(s, n) = k + 1
    BY <1>3, <2>1, <2>2
  <2>5. ~(Column(s, n) > t)
    BY <1>1, <2>4
  <2>6. s[n] # "\n"
    BY <2>3, <2>5 DEF LongLines, t
  <2>7. Clear(k + 1)
    BY <2>1, <2>3, <2>6
  <2>8. g[n] = g[n - 1]
    BY <2>3, <2>5 DEF Dedents, t
  <2> QED
    BY <2>1, <2>3, <2>7, <2>8
<1> HIDE DEF T
<1>5. Nat \subseteq T
  BY <1>2, <1>4, Induct
<1>6. \A k \in 0 .. t : j + k <= Len(s) => Clear(k) /\ g[j + k] = g[j]
  <2> HIDE DEF Clear
  <2> QED
    BY <1>1, <1>5 DEF T
<1>7. j + t + 1 <= Len(s) => Column(s, j + t + 1) = t + 1
  <2> SUFFICES ASSUME j + t + 1 <= Len(s) PROVE Column(s, j + t + 1) = t + 1
    OBVIOUS
  <2>1. t \in 0 .. t /\ j + t <= Len(s)
    BY <1>1
  <2>2. Clear(t)
    BY <1>6, <2>1
  <2> QED
    BY <1>1, <1>3, <2>2
<1> QED
  BY <1>6, <1>7 DEF t

(* After n rounds everything before the place of the copy is dedented, and *)
(* the place is behind the indent of its line or the end of the text.      *)
LEMMA TrimIsDedented ==
  ASSUME NEW C, NEW s \in Seq(C), LongLines(s)
  PROVE  trim(s) = Dedented(s)
<1> DEFINE t == count_tab(s)
           m == Len(s)
<1>1. m \in Nat /\ t \in 0 .. m /\ t \in Nat
  BY TabsAre
<1>2. PICK a : Copies(a, s, C) /\ trim(s) = a[Len(s)].str
  BY TrimIs
<1>3. PICK g : Dedents(g, s, C) /\ Dedented(s) = g[Len(s)]
  BY DedentedIs
<1>4. /\ g \in [0 .. m -> Seq(C)]
      /\ \A n \in 1 .. m : g[n] = IF Column(s, n) > t THEN Append(g[n - 1], s[n]) ELSE g[n - 1]
  BY <1>3 DEF Dedents
<1>5. a[0] = [j |-> t + 1, str |-> <<>>] /\ \A n \in 1 .. m : a[n] = Copy(s, a[n - 1])
  BY <1>2 DEF Copies
<1>6. (\A i \in 0 .. t : g[i] = <<>>) /\ Column(s, t + 1) = t + 1
  BY <1>3, LeadIsCut
<1>b. \A j \in 1 .. m : s[j] = "\n" =>
        /\ \A k \in 0 .. t : j + k <= m => g[j + k] = g[j]
        /\ j + t + 1 <= m => Column(s, j + t + 1) = t + 1
  BY <1>3, BreakIsCut
<1> HIDE DEF t, m
<1> DEFINE At2(x, n) ==
             /\ x.j \in Nat /\ x.j > n
             /\ x.j > m => x.str = g[m]
             /\ x.j <= m => Column(s, x.j) > t /\ x.str = g[x.j - 1]
<1>7. At2(a[0], 0)
  <2> DEFINE x == a[0]
  <2>1. x.j = t + 1 /\ x.str = <<>>
    BY <1>5
  <2> HIDE DEF x
  <2>2. x.j > m => m = t
    BY <1>1, <2>1
  <2>3. m \in 0 .. t => g[m] = <<>>
    BY <1>6
  <2>4. x.j > m => x.str = g[m]
    BY <1>1, <2>1, <2>2, <2>3
  <2>5. t \in 0 .. t /\ (t + 1) - 1 = t /\ t + 1 > t
    BY <1>1
  <2>6. Column(s, x.j) > t /\ x.str = g[x.j - 1]
    BY <1>6, <2>1, <2>5
  <2> QED
    BY <1>1, <2>1, <2>4, <2>6 DEF x
<1>8. ASSUME NEW n \in 0 .. m - 1, NEW x, At2(x, n) PROVE At2(Copy(s, x), n + 1)
  <2>1. CASE x.j > m
    BY <1>1, <1>8, <2>1 DEF Copy, m
  <2>2. CASE x.j <= m
    <3> DEFINE j == x.j
               y == Copy(s, x)
    <3>1. j \in 1 .. m /\ j > n /\ Column(s, j) > t /\ x.str = g[j - 1] /\ n \in Nat
      BY <1>1, <1>8, <2>2
    <3>2. y.j = NextFrom(s, j) /\ y.str = Append(g[j - 1], s[j])
      <4>1. ~(x.j > Len(s))
        BY <1>1, <2>2, <3>1 DEF m
      <4> QED
        BY <3>1, <4>1 DEF Copy
    <3>3. y.str = g[j]
      BY <1>4, <3>1, <3>2
    <3> HIDE DEF y, j
    <3>4. CASE s[j] # "\n"
      <4>1. y.j = j + 1 /\ Column(s, j + 1) = Column(s, j) + 1 /\ (j + 1) - 1 = j
        <5>1. j \in Nat /\ j > 0
          BY <1>1, <3>1
        <5> QED
          BY <3>2, <3>4, <5>1, ColumnNext DEF NextFrom
      <4>2. Column(s, j) \in Int
        <5>1. j \in Nat /\ j > 0
          BY <1>1, <3>1
        <5> QED
          BY <5>1, ColumnType
      <4>3. y.j > m => j = m
        BY <1>1, <3>1, <4>1
      <4>4. Column(s, y.j) > t
        BY <1>1, <3>1, <4>1, <4>2
      <4>5. y.j \in Nat /\ y.j > n + 1
        BY <1>1, <3>1, <4>1
      <4> QED
        BY <3>3, <4>1, <4>3, <4>4, <4>5 DEF y
    <3>5. CASE s[j] = "\n"
      <4>1. y.j = j + t + 1
        BY <3>2, <3>5 DEF NextFrom, t
      <4>2. y.j \in Nat /\ y.j > n + 1
        BY <1>1, <3>1, <4>1
      <4>3. /\ \A k \in 0 .. t : j + k <= m => g[j + k] = g[j]
            /\ j + t + 1 <= m => Column(s, j + t + 1) = t + 1
        BY <1>b, <3>1, <3>5
      <4>4. y.j > m => y.str = g[m]
        <5> SUFFICES ASSUME y.j > m PROVE y.str = g[m]
          OBVIOUS
        <5>1. m - j \in 0 .. t /\ j + (m - j) = m /\ j + (m - j) <= m
          BY <1>1, <3>1, <4>1
        <5>2. g[j + (m - j)] = g[j]
          BY <4>3, <5>1
        <5> QED
          BY <3>3, <5>1, <5>2
      <4>5. y.j <= m => Column(s, y.j) > t /\ y.str = g[y.j - 1]
        <5> SUFFICES ASSUME y.j <= m PROVE Column(s, y.j) > t /\ y.str = g[y.j - 1]
          OBVIOUS
        <5>1. t \in 0 .. t /\ j + t <= m /\ y.j - 1 = j + t /\ t + 1 > t /\ j + t + 1 <= m
          BY <1>1, <3>1, <4>1
        <5>2. g[j + t] = g[j] /\ Column(s, j + t + 1) = t + 1
          BY <4>3, <5>1
        <5> QED
          BY <3>3, <4>1, <5>1, <5>2
      <4> QED
        BY <4>2, <4>4, <4>5 DEF y
    <3> QED
      BY <3>4, <3>5
  <2> QED
    BY <1>1, <1>8, <2>1, <2>2
<1> DEFINE T == { n \in Nat : n <= m => At2(a[n], n) }
<1> HIDE DEF At2
<1>9. 0 \in T
  BY <1>7
<1>10. ASSUME NEW n \in Nat, n \in T PROVE n + 1 \in T
  <2> SUFFICES ASSUME n + 1 <= m PROVE At2(a[n + 1], n + 1)
    OBVIOUS
  <2>1. n \in 0 .. m - 1 /\ n + 1 \in 1 .. m /\ (n + 1) - 1 = n /\ n <= m
    BY <1>1
  <2>2. At2(Copy(s, a[n]), n + 1)
    BY <1>8, <1>10, <2>1
  <2>3. a[n + 1] = Copy(s, a[n])
    BY <1>5, <2>1
  <2> QED
    BY <2>2, <2>3
<1> HIDE DEF T
<1>11. m \in T
  BY <1>1, <1>9, <1>10, Induct
<1>12. At2(a[m], m)
  BY <1>1, <1>11 DEF T
<1>13. a[m].str = g[m]
  BY <1>12 DEF At2
<1> QED
  BY <1>2, <1>3, <1>13 DEF m

LEMMA AreaIsDedented == TextTyped => TrimDedents
<1> SUFFICES ASSUME TextTyped,
                    \A i \in DOMAIN text : text[i] = "\n" => Column(text, i) > count_tab(text)
             PROVE  trim(text) = Dedented(text)
  BY DEF TrimDedents
<1>1. text \in Seq(Alphabet[use])
  BY DEF TextTyped
<1>2. LongLines(text)
  BY <1>1 DEF LongLines
<1> QED
  BY <1>1, <1>2, TrimIsDedented

(* trim takes the first line's indent off every line of an area whose      *)
(* lines have at least that one, for areas of any length (string.c:68-90). *)
THEOREM IndentIsCutOff == TextSpec => []TrimDedents
BY TextInvariance, AreaIsDedented, PTL

Chars == {"A", "a", "2", "5", ".", "/", "%", "*"}

(* The codes, and that each leads back to its character.                   *)
LEMMA CodesAre ==
  /\ DOMAIN Code = {"/", "%", "*"}
  /\ Code["/"] = <<"2", "F">> /\ Code["%"] = <<"2", "5">> /\ Code["*"] = <<"2", "A">>
BY DEF Code

LEMMA DecodedIs ==
  /\ \A code : Decoded(code) \in {"/", "%", "*", "other"}
  /\ \A c \in DOMAIN Code : Decoded(Code[c]) = c
<1>1. ASSUME NEW code PROVE Decoded(code) \in {"/", "%", "*", "other"}
  BY CodesAre DEF Decoded
<1>2. ASSUME NEW c \in DOMAIN Code PROVE Decoded(Code[c]) = c
  <2> DEFINE d == CHOOSE x \in DOMAIN Code : Code[x] = Code[c]
  <2>1. d \in DOMAIN Code /\ Code[d] = Code[c]
    OBVIOUS
  <2> HIDE DEF d
  <2>a. \A x, y \in DOMAIN Code : Code[x][2] = Code[y][2] => x = y
    BY CodesAre
  <2>2. d = c
    BY <2>1, <2>a
  <2> QED
    BY <2>2 DEF Decoded, d
<1> QED
  BY <1>1, <1>2

(* The rounds of url_decode.                                               *)
Decodes(a, s, C) ==
  /\ a \in [0 .. Len(s) -> [i : Nat, output : Seq(C)]]
  /\ a[0] = [i |-> 1, output |-> <<>>]
  /\ \A n \in 1 .. Len(s) : a[n] = Decode(s, a[n - 1])

LEMMA DecodeType ==
  ASSUME NEW C, {"/", "%", "*", "other"} \subseteq C, NEW s \in Seq(C),
         NEW at \in [i : Nat, output : Seq(C)], at.i > 0
  PROVE  Decode(s, at) \in [i : Nat, output : Seq(C)] /\ Decode(s, at).i > 0
<1> DEFINE c == s[at.i]
           digits == at.i + 2 <= Len(s) /\ isHexDigit(s[at.i + 1]) /\ isHexDigit(s[at.i + 2])
           code == SubSeq(s, at.i + 1, at.i + 2)
<1>1. at.i \in Nat /\ at.output \in Seq(C) /\ Len(s) \in Nat
  OBVIOUS
<1>2. CASE at.i > Len(s)
  BY <1>2 DEF Decode
<1>3. CASE ~(at.i > Len(s)) /\ c # "%"
  <2>1. Decode(s, at) = [i |-> at.i + 1, output |-> Append(at.output, c)]
    BY <1>3 DEF Decode
  <2>2. c \in C
    BY <1>1, <1>3
  <2> QED
    BY <1>1, <2>1, <2>2
<1>4. CASE ~(at.i > Len(s)) /\ c = "%" /\ digits
  <2>1. Decode(s, at) = [i |-> at.i + 3, output |-> Append(at.output, Decoded(code))]
    BY <1>4 DEF Decode
  <2>2. Decoded(code) \in C
    BY DecodedIs
  <2> HIDE DEF code
  <2>3. Append(at.output, Decoded(code)) \in Seq(C)
    BY <1>1, <2>2
  <2> QED
    BY <1>1, <2>1, <2>3
<1>5. CASE ~(at.i > Len(s)) /\ c = "%" /\ ~digits
  <2>1. Decode(s, at) = [at EXCEPT !.i = at.i + 1]
    BY <1>5 DEF Decode
  <2> QED
    BY <1>1, <2>1
<1> QED
  BY <1>2, <1>3, <1>4, <1>5

(* url_decode is a recursive function: its rounds.                         *)
LEMMA DecodesAre ==
  ASSUME NEW C, {"/", "%", "*", "other"} \subseteq C, NEW s \in Seq(C)
  PROVE  \E a : Decodes(a, s, C) /\ url_decode(s) = a[Len(s)].output
<1> DEFINE D == [i : Nat, output : Seq(C)]
           start == [i |-> 1, output |-> <<>>]
           step == [p \in Nat \X D |-> IF p[2].i > 0 THEN Decode(s, p[2]) ELSE p[2]]
           next(h, n) == IF n = 0 THEN start ELSE Decode(s, h[n - 1])
           hh == CHOOSE h : h = [n \in 0 .. Len(s) |-> next(h, n)]
<1>1. Len(s) \in Nat
  OBVIOUS
<1>2. start \in D /\ start.i > 0
  OBVIOUS
<1>3. \A at \in D : at.i > 0 => Decode(s, at) \in D /\ Decode(s, at).i > 0
  BY DecodeType
<1>4. step \in [Nat \X D -> D] /\ \A n \in Nat, x \in D : x.i > 0 => step[<<n, x>>] = Decode(s, x)
  <2>1. \A p \in Nat \X D : p[2] \in D /\ (p[2].i > 0 => Decode(s, p[2]) \in D)
    <3> HIDE DEF D
    <3> QED
      BY <1>3
  <2> HIDE DEF D
  <2>2. step \in [Nat \X D -> D]
    BY <2>1
  <2>3. \A n \in Nat, x \in D : <<n, x>> \in Nat \X D /\ <<n, x>>[2] = x
    OBVIOUS
  <2>4. \A n \in Nat, x \in D : step[<<n, x>>] = IF x.i > 0 THEN Decode(s, x) ELSE x
    BY <2>3
  <2> HIDE DEF step
  <2> QED
    BY <2>2, <2>4
<1> HIDE DEF step, start, D
<1>5. PICK a : RoundsFrom(a, D, start, step, Len(s))
  BY <1>1, <1>2, <1>4, RoundsAre
<1>6. a \in [0 .. Len(s) -> D] /\ a[0] = start
        /\ \A n \in 1 .. Len(s) : a[n] = step[<<n, a[n - 1]>>]
  BY <1>5 DEF RoundsFrom
<1> DEFINE P == { n \in Nat : n <= Len(s) => a[n].i > 0 }
<1>7. 0 \in P
  BY <1>2, <1>6
<1>8. ASSUME NEW n \in Nat, n \in P PROVE n + 1 \in P
  <2> SUFFICES ASSUME n + 1 <= Len(s) PROVE a[n + 1].i > 0
    OBVIOUS
  <2>1. n \in 0 .. Len(s) /\ n + 1 \in 1 .. Len(s) /\ (n + 1) - 1 = n /\ n + 1 \in Nat
    BY <1>1
  <2>2. a[n] \in D /\ a[n].i > 0
    BY <1>6, <1>8, <2>1
  <2>3. a[n + 1] = Decode(s, a[n])
    BY <1>4, <1>6, <2>1, <2>2
  <2> QED
    BY <1>3, <2>2, <2>3
<1> HIDE DEF P
<1>9. Nat \subseteq P
  BY <1>7, <1>8, Induct
<1>10. \A n \in 1 .. Len(s) : a[n] = Decode(s, a[n - 1])
  <2> TAKE n \in 1 .. Len(s)
  <2>1. n \in Nat /\ n - 1 \in 0 .. Len(s) /\ n - 1 \in Nat /\ n - 1 <= Len(s)
    BY <1>1
  <2>2. a[n - 1] \in D /\ a[n - 1].i > 0
    BY <1>6, <1>9, <2>1 DEF P
  <2> QED
    BY <1>4, <1>6, <2>1, <2>2
<1>11. a = [n \in 0 .. Len(s) |-> next(a, n)]
  <2>1. a = [n \in 0 .. Len(s) |-> a[n]]
    BY <1>6
  <2>2. \A n \in 0 .. Len(s) : a[n] = next(a, n)
    BY <1>1, <1>6, <1>10
  <2> HIDE DEF next
  <2> QED
    BY <2>1, <2>2
<1>12. hh = [n \in 0 .. Len(s) |-> next(hh, n)]
  <2> HIDE DEF next
  <2> QED
    BY <1>11, Zenon
<1>13. url_decode(s) = hh[Len(s)].output
  BY DEF url_decode, start
<1> HIDE DEF hh
<1>14. hh[0] = start /\ \A n \in 1 .. Len(s) : hh[n] = Decode(s, hh[n - 1])
  <2>1. \A n \in 0 .. Len(s) : hh[n] = next(hh, n)
    <3> HIDE DEF next
    <3> QED
      BY <1>12
  <2> QED
    BY <1>1, <2>1
<1> DEFINE T == { n \in Nat : n <= Len(s) => hh[n] = a[n] }
<1>15. 0 \in T
  BY <1>6, <1>14
<1>16. ASSUME NEW n \in Nat, n \in T PROVE n + 1 \in T
  <2> SUFFICES ASSUME n + 1 <= Len(s) PROVE hh[n + 1] = a[n + 1]
    OBVIOUS
  <2>1. hh[n] = a[n] /\ n + 1 \in 1 .. Len(s) /\ (n + 1) - 1 = n
    BY <1>1, <1>16
  <2> QED
    BY <1>10, <1>14, <2>1
<1> HIDE DEF T
<1>17. Len(s) \in T
  BY <1>1, <1>15, <1>16, Induct
<1>18. hh[Len(s)] = a[Len(s)]
  BY <1>1, <1>17 DEF T
<1> QED
  BY <1>6, <1>10, <1>13, <1>18 DEF Decodes, D, start

(* w is the blocks of ss behind each other, the first k end at p[k].       *)
Spells(w, ss, p, C) ==
  /\ w \in Seq(C) /\ p \in [0 .. Len(ss) -> Nat] /\ p[0] = 0 /\ p[Len(ss)] = Len(w)
  /\ \A k \in 1 .. Len(ss) :
       /\ Len(ss[k]) > 0 /\ p[k] = p[k - 1] + Len(ss[k])
       /\ \A j \in 1 .. Len(ss[k]) : w[p[k - 1] + j] = ss[k][j]

(* Index h is in one of the blocks.                                        *)
InBlock(h, ss, p) == \E k \in 1 .. Len(ss) : \E j \in 1 .. Len(ss[k]) : h = p[k - 1] + j

(* Blocks are not empty, so the ends grow; every index is in a block; and  *)
(* the blocks determine the word.                                          *)
LEMMA EndsOrdered ==
  ASSUME NEW C, NEW ss \in Seq(Seq(C)), NEW w, NEW p, Spells(w, ss, p, C)
  PROVE  /\ \A n \in 0 .. Len(ss) : p[n] \in n .. Len(w)
         /\ \A m, n \in 0 .. Len(ss) : m <= n => p[m] <= p[n]
<1>1. Len(ss) \in Nat /\ \A k \in 1 .. Len(ss) : Len(ss[k]) \in Nat
  OBVIOUS
<1>0. /\ w \in Seq(C) /\ p \in [0 .. Len(ss) -> Nat] /\ p[0] = 0 /\ p[Len(ss)] = Len(w)
      /\ \A k \in 1 .. Len(ss) : Len(ss[k]) > 0 /\ p[k] = p[k - 1] + Len(ss[k])
  BY Zenon DEF Spells
<1>2. /\ Len(w) \in Nat /\ \A n \in 0 .. Len(ss) : p[n] \in Nat
      /\ p[0] = 0 /\ p[Len(ss)] = Len(w)
      /\ \A k \in 1 .. Len(ss) : Len(ss[k]) > 0 /\ p[k] = p[k - 1] + Len(ss[k])
  <2>1. Len(w) \in Nat
    BY <1>0
  <2>2. \A n \in 0 .. Len(ss) : p[n] \in Nat
    BY <1>0
  <2> QED
    BY <1>0, <2>1, <2>2, Zenon
<1> DEFINE T == { n \in Nat : n <= Len(ss) => p[n] >= n /\ \A m \in 0 .. n : p[m] <= p[n] }
<1>3. 0 \in T
  BY <1>1, <1>2
<1>4. ASSUME NEW n \in Nat, n \in T PROVE n + 1 \in T
  <2> SUFFICES ASSUME n + 1 <= Len(ss) PROVE p[n + 1] >= n + 1
    /\ \A m \in 0 .. n + 1 : p[m] <= p[n + 1]
    OBVIOUS
  <2>1. n + 1 \in 1 .. Len(ss) /\ (n + 1) - 1 = n /\ n \in 0 .. Len(ss) /\ n + 1 \in 0 .. Len(ss)
    BY <1>1
  <2>2. p[n + 1] = p[n] + Len(ss[n + 1]) /\ Len(ss[n + 1]) > 0 /\ Len(ss[n + 1]) \in Nat
    BY <1>1, <1>2, <2>1
  <2>3. p[n] \in Nat /\ p[n] >= n /\ \A m \in 0 .. n : p[m] <= p[n] /\ p[m] \in Nat
    BY <1>1, <1>2, <1>4, <2>1
  <2>4. p[n + 1] >= n + 1 /\ p[n] <= p[n + 1]
    BY <2>2, <2>3
  <2>5. ASSUME NEW m \in 0 .. n + 1 PROVE p[m] <= p[n + 1]
    <3>1. CASE m = n + 1
      BY <1>2, <2>1, <3>1
    <3>2. CASE m # n + 1
      <4>1. m \in 0 .. n
        BY <3>2
      <4> QED
        BY <2>2, <2>3, <4>1
    <3> QED
      BY <3>1, <3>2
  <2> QED
    BY <2>4, <2>5
<1> HIDE DEF T
<1>5. Nat \subseteq T
  BY <1>3, <1>4, Induct
<1>6. \A n \in 0 .. Len(ss) : p[n] >= n /\ \A m \in 0 .. n : p[m] <= p[n]
  BY <1>1, <1>5 DEF T
<1> QED
  BY <1>1, <1>2, <1>6

LEMMA SomeBlock ==
  ASSUME NEW C, NEW ss \in Seq(Seq(C)), NEW w, NEW p, Spells(w, ss, p, C), NEW h \in 1 .. Len(w)
  PROVE  InBlock(h, ss, p)
<1> DEFINE S == { k \in Nat : k <= Len(ss) /\ h <= p[k] }
<1>1. Len(ss) \in Nat /\ \A k \in 1 .. Len(ss) : Len(ss[k]) \in Nat
  OBVIOUS
<1>0. /\ w \in Seq(C) /\ p \in [0 .. Len(ss) -> Nat] /\ p[0] = 0 /\ p[Len(ss)] = Len(w)
      /\ \A k \in 1 .. Len(ss) : p[k] = p[k - 1] + Len(ss[k])
  BY Zenon DEF Spells
<1>2. /\ Len(w) \in Nat /\ \A n \in 0 .. Len(ss) : p[n] \in Nat
      /\ p[0] = 0 /\ p[Len(ss)] = Len(w)
      /\ \A k \in 1 .. Len(ss) : p[k] = p[k - 1] + Len(ss[k])
  <2>1. Len(w) \in Nat
    BY <1>0
  <2>2. \A n \in 0 .. Len(ss) : p[n] \in Nat
    BY <1>0
  <2> QED
    BY <1>0, <2>1, <2>2, Zenon
<1>3. Len(ss) \in S
  BY <1>1, <1>2
<1>4. PICK k \in S : \A y \in S : k <= y
  <2>1. S \subseteq Nat /\ S # {}
    BY <1>3
  <2> HIDE DEF S
  <2> QED
    BY <2>1, LeastIn
<1>5. k \in 1 .. Len(ss)
  BY <1>1, <1>2, <1>4
<1>6. k - 1 \in 0 .. Len(ss) /\ k - 1 \notin S
  BY <1>1, <1>4, <1>5
<1>7. PICK q : q = p[k - 1]
  OBVIOUS
<1>8. q \in Nat /\ p[k] = q + Len(ss[k]) /\ h <= p[k] /\ ~(h <= q) /\ Len(ss[k]) \in Nat
  <2>1. h <= p[k]
    BY <1>4
  <2>2. q \in Nat /\ p[k] = q + Len(ss[k]) /\ Len(ss[k]) \in Nat
    BY <1>1, <1>2, <1>5, <1>6, <1>7
  <2>3. ~(h <= q)
    BY <1>1, <1>5, <1>6, <1>7
  <2> QED
    BY <2>1, <2>2, <2>3
<1>9. h - q \in 1 .. Len(ss[k]) /\ h = q + (h - q)
  BY <1>8
<1> QED
  BY <1>5, <1>7, <1>9 DEF InBlock

LEMMA SameWord ==
  ASSUME NEW C, NEW ss \in Seq(Seq(C)), NEW v, NEW q, Spells(v, ss, q, C), NEW w,
         NEW p, Spells(w, ss, p, C)
  PROVE  v = w
<1>1. Len(ss) \in Nat /\ \A k \in 1 .. Len(ss) : Len(ss[k]) \in Nat
  OBVIOUS
<1>2. /\ v \in Seq(C) /\ w \in Seq(C) /\ p[0] = 0 /\ q[0] = 0
      /\ p[Len(ss)] = Len(w) /\ q[Len(ss)] = Len(v)
      /\ \A k \in 1 .. Len(ss) :
           /\ p[k] = p[k - 1] + Len(ss[k]) /\ q[k] = q[k - 1] + Len(ss[k])
           /\ \A j \in 1 .. Len(ss[k]) : w[p[k - 1] + j] = ss[k][j] /\ v[q[k - 1] + j] = ss[k][j]
  BY DEF Spells
<1> DEFINE T == { n \in Nat : n <= Len(ss) => p[n] = q[n] }
<1>3. 0 \in T
  BY <1>2
<1>4. ASSUME NEW n \in Nat, n \in T PROVE n + 1 \in T
  <2> SUFFICES ASSUME n + 1 <= Len(ss) PROVE p[n + 1] = q[n + 1]
    OBVIOUS
  <2>1. n + 1 \in 1 .. Len(ss) /\ (n + 1) - 1 = n /\ p[n] = q[n]
    BY <1>1, <1>4
  <2> QED
    BY <1>2, <2>1
<1> HIDE DEF T
<1>5. Nat \subseteq T
  BY <1>3, <1>4, Induct
<1>6. \A n \in 0 .. Len(ss) : p[n] = q[n]
  BY <1>1, <1>5 DEF T
<1>7. Len(v) = Len(w)
  BY <1>1, <1>2, <1>6
<1>8. ASSUME NEW h \in 1 .. Len(w) PROVE v[h] = w[h]
  <2>1. PICK k \in 1 .. Len(ss) : \E j \in 1 .. Len(ss[k]) : h = p[k - 1] + j
    <3>1. InBlock(h, ss, p)
      BY SomeBlock
    <3> QED
      BY <3>1 DEF InBlock
  <2>2. PICK j \in 1 .. Len(ss[k]) : h = p[k - 1] + j
    BY <2>1
  <2>3. k - 1 \in 0 .. Len(ss)
    BY <1>1
  <2> QED
    BY <1>2, <1>6, <2>2, <2>3
<1> QED
  <2>1. v \in Seq(C) /\ w \in Seq(C)
    BY <1>2
  <2> QED
    BY <1>7, <1>8, <2>1

(* FlattenSeq spells its blocks.                                           *)
LEMMA FlattenSpells ==
  ASSUME NEW C, NEW ss \in Seq(Seq(C)), \A k \in 1 .. Len(ss) : Len(ss[k]) > 0
  PROVE  \E p : Spells(Strings!FlattenSeq(ss), ss, p, C)
<1>1. PICK g : Flattens(g, ss, C) /\ Strings!FlattenSeq(ss) = g[Len(ss)]
  BY FlattenIs
<1>2. /\ g \in [0 .. Len(ss) -> Seq(C)] /\ g[0] = <<>>
      /\ \A n \in 1 .. Len(ss) : g[n] = g[n - 1] \o ss[n]
  BY <1>1 DEF Flattens
<1>3. Len(ss) \in Nat /\ \A k \in 1 .. Len(ss) : ss[k] \in Seq(C) /\ Len(ss[k]) \in Nat
  OBVIOUS
<1>4. ASSUME NEW n \in 1 .. Len(ss)
      PROVE  /\ n - 1 \in 0 .. Len(ss) /\ Len(g[n - 1]) \in Nat
                  /\ Len(g[n]) = Len(g[n - 1]) + Len(ss[n])
             /\ \A i \in 1 .. Len(g[n - 1]) : g[n][i] = g[n - 1][i]
             /\ \A j \in 1 .. Len(ss[n]) : g[n][Len(g[n - 1]) + j] = ss[n][j]
  <2>1. n - 1 \in 0 .. Len(ss) /\ ss[n] \in Seq(C)
    BY <1>3
  <2>2. PICK x : x = g[n - 1]
    OBVIOUS
  <2>3. PICK y : y = ss[n]
    OBVIOUS
  <2>4. x \in Seq(C) /\ y \in Seq(C) /\ g[n] = x \o y
    BY <1>2, <2>1, <2>2, <2>3
  <2>5. Len(x \o y) = Len(x) + Len(y)
          /\ \A i \in 1 .. Len(x) + Len(y) : (x \o y)[i] = IF i <= Len(x) THEN x[i] ELSE y[i - Len(x)]
    BY <2>4, ConcatProperties
  <2>6. Len(x) \in Nat /\ Len(y) \in Nat
    BY <2>4
  <2>7. \A i \in 1 .. Len(x) : g[n][i] = x[i]
    BY <2>4, <2>5, <2>6
  <2>8. \A j \in 1 .. Len(y) : g[n][Len(x) + j] = y[j]
    <3> TAKE j \in 1 .. Len(y)
    <3>1. Len(x) + j \in 1 .. Len(x) + Len(y) /\ ~(Len(x) + j <= Len(x))
            /\ (Len(x) + j) - Len(x) = j
      BY <2>6
    <3> QED
      BY <2>4, <2>5, <3>1
  <2> QED
    BY <2>1, <2>2, <2>3, <2>4, <2>5, <2>6, <2>7, <2>8
<1> DEFINE p == [n \in 0 .. Len(ss) |-> Len(g[n])]
           Kept(n) == \A k \in 1 .. n : \A j \in 1 .. Len(ss[k]) :
                        /\ Len(g[k - 1]) + j \in 1 .. Len(g[n])
                        /\ g[n][Len(g[k - 1]) + j] = ss[k][j]
           T == { n \in Nat : n <= Len(ss) => Kept(n) }
<1>5. 0 \in T
  OBVIOUS
<1>6. ASSUME NEW n \in Nat, n \in T PROVE n + 1 \in T
  <2> SUFFICES ASSUME n + 1 <= Len(ss), NEW k \in 1 .. n + 1, NEW j \in 1 .. Len(ss[k])
               PROVE  /\ Len(g[k - 1]) + j \in 1 .. Len(g[n + 1])
                      /\ g[n + 1][Len(g[k - 1]) + j] = ss[k][j]
    OBVIOUS
  <2>1. n + 1 \in 1 .. Len(ss) /\ (n + 1) - 1 = n /\ k \in 1 .. Len(ss)
    BY <1>3
  <2>a. PICK o : o = n + 1
    OBVIOUS
  <2>b. o \in 1 .. Len(ss) /\ o - 1 = n
    BY <2>1, <2>a
  <2>c. /\ Len(g[o - 1]) \in Nat /\ Len(g[o]) = Len(g[o - 1]) + Len(ss[o])
        /\ \A i \in 1 .. Len(g[o - 1]) : g[o][i] = g[o - 1][i]
        /\ \A i \in 1 .. Len(ss[o]) : g[o][Len(g[o - 1]) + i] = ss[o][i]
    BY <1>4, <2>b
  <2>d. Len(ss[o]) \in Nat
    BY <1>3, <2>b
  <2>2. /\ Len(g[n]) \in Nat /\ Len(g[n + 1]) = Len(g[n]) + Len(ss[n + 1]) /\ Len(ss[n + 1]) \in Nat
        /\ \A i \in 1 .. Len(g[n]) : g[n + 1][i] = g[n][i]
        /\ \A i \in 1 .. Len(ss[n + 1]) : g[n + 1][Len(g[n]) + i] = ss[n + 1][i]
    BY <2>a, <2>b, <2>c, <2>d
  <2>e. Len(g[n]) <= Len(g[n + 1])
          /\ \A i \in 1 .. Len(ss[n + 1]) : Len(g[n]) + i \in 1 .. Len(g[n + 1])
    <3>1. PICK a : a = Len(g[n])
      OBVIOUS
    <3>2. PICK b : b = Len(g[n + 1])
      OBVIOUS
    <3>3. a \in Nat /\ Len(ss[n + 1]) \in Nat /\ b = a + Len(ss[n + 1])
      BY <2>2, <3>1, <3>2
    <3>4. a <= b /\ \A i \in 1 .. Len(ss[n + 1]) : a + i \in 1 .. b
      BY <3>3
    <3> QED
      BY <3>1, <3>2, <3>4
  <2>f. \A i \in 1 .. Len(g[n]) : i \in 1 .. Len(g[n + 1])
    <3>1. PICK a : a = Len(g[n])
      OBVIOUS
    <3>2. PICK b : b = Len(g[n + 1])
      OBVIOUS
    <3>3. a \in Nat /\ Len(ss[n + 1]) \in Nat /\ b = a + Len(ss[n + 1])
      BY <2>2, <3>1, <3>2
    <3>4. \A i \in 1 .. a : i \in 1 .. b
      BY <3>3
    <3> QED
      BY <3>1, <3>2, <3>4
  <2>3. CASE k = n + 1
    <3>1. k - 1 = n /\ j \in 1 .. Len(ss[n + 1])
      BY <2>1, <2>3
    <3>2. Len(g[n]) + j \in 1 .. Len(g[n + 1])
      BY <2>e, <3>1
    <3> QED
      BY <2>2, <2>3, <3>1, <3>2
  <2>4. CASE k # n + 1
    <3>1. k \in 1 .. n
      BY <2>4
    <3>a. Kept(n)
      <4> HIDE DEF Kept
      <4> QED
        BY <1>3, <1>6, <2>1
    <3>2. Len(g[k - 1]) + j \in 1 .. Len(g[n]) /\ g[n][Len(g[k - 1]) + j] = ss[k][j]
      BY <3>a, <3>1, Zenon
    <3>3. PICK x : x = Len(g[k - 1]) + j
      OBVIOUS
    <3>4. x \in 1 .. Len(g[n]) /\ x \in 1 .. Len(g[n + 1])
      BY <2>f, <3>2, <3>3
    <3> QED
      BY <2>2, <3>2, <3>3, <3>4
  <2> QED
    BY <2>3, <2>4
<1> HIDE DEF T
<1>7. Len(ss) \in T
  BY <1>3, <1>5, <1>6, Induct
<1>8. \A k \in 1 .. Len(ss) : \A j \in 1 .. Len(ss[k]) : g[Len(ss)][Len(g[k - 1]) + j] = ss[k][j]
  BY <1>3, <1>7 DEF T
<1>9. \A n \in 0 .. Len(ss) : p[n] = Len(g[n]) /\ p[n] \in Nat
  BY <1>2
<1>10. p \in [0 .. Len(ss) -> Nat]
  BY <1>9
<1> HIDE DEF p
<1>11. p[0] = 0 /\ p[Len(ss)] = Len(g[Len(ss)]) /\ g[Len(ss)] \in Seq(C)
  <2>1. 0 \in 0 .. Len(ss) /\ Len(ss) \in 0 .. Len(ss)
    BY <1>3
  <2> QED
    BY <1>2, <1>9, <2>1
<1>12. \A k \in 1 .. Len(ss) : p[k] = p[k - 1] + Len(ss[k]) /\ p[k - 1] = Len(g[k - 1])
  <2> TAKE k \in 1 .. Len(ss)
  <2>1. k \in 0 .. Len(ss) /\ k - 1 \in 0 .. Len(ss)
    BY <1>3
  <2> QED
    BY <1>4, <1>9, <2>1
<1>13. Spells(g[Len(ss)], ss, p, C)
  BY <1>8, <1>10, <1>11, <1>12 DEF Spells
<1> QED
  BY <1>1, <1>13

(* What url_encode makes of a character, and what the listing's link shows *)
(* of it.                                                                  *)
Letters == Chars \cup {"F", "other"}
Coded(c) == IF isalnum_c(c) THEN <<c>> ELSE Escape(c)
Shown(c) == IF c = "/" THEN <<c>> ELSE Coded(c)

LEMMA OneAndTwo ==
  ASSUME NEW C, NEW x \in C, NEW y \in C, NEW z \in C, NEW s, s = <<x>> \o <<y, z>>
  PROVE  s \in Seq(C) /\ Len(s) = 3 /\ s[1] = x /\ s[2] = y /\ s[3] = z
<1> DEFINE a == <<x>>
           b == <<y, z>>
<1>1. a \in Seq(C) /\ b \in Seq(C) /\ Len(a) = 1 /\ Len(b) = 2 /\ a[1] = x /\ b[1] = y /\ b[2] = z
  OBVIOUS
<1>2. s = a \o b
  OBVIOUS
<1> HIDE DEF a, b
<1>3. /\ a \o b \in Seq(C) /\ Len(a \o b) = Len(a) + Len(b)
      /\ \A i \in 1 .. Len(a) + Len(b) : (a \o b)[i] = IF i <= Len(a) THEN a[i] ELSE b[i - Len(a)]
  BY <1>1, ConcatProperties
<1>4. s \in Seq(C) /\ Len(s) = 3 /\ \A i \in 1 .. 3 : s[i] = IF i <= 1 THEN a[i] ELSE b[i - 1]
  BY <1>1, <1>2, <1>3
<1> QED
  BY <1>1, <1>4

(* A kept character is its own block, an escaped one has three.            *)
LEMMA CodedIs ==
  ASSUME NEW c \in Chars
  PROVE  /\ Coded(c) \in Seq(Letters) /\ Len(Coded(c)) > 0
         /\ c \notin DOMAIN Code => isalnum_c(c) /\ Coded(c) = <<c>> /\ Len(Coded(c)) = 1
              /\ Coded(c)[1] = c
         /\ c \in DOMAIN Code => /\ ~isalnum_c(c) /\ Len(Coded(c)) = 3
                                 /\ Coded(c)[1] = "%" /\ Coded(c)[2] = "2"
                                      /\ Coded(c)[2] = Code[c][1]
                                 /\ Coded(c)[3] = Code[c][2] /\ Coded(c)[3] \in {"F", "5", "A"}
                                 /\ Coded(c)[3] = "F" <=> c = "/"
<1>1. CASE c = "/"
  <2>1. Coded(c) = <<"%">> \o <<"2", "F">> /\ ~isalnum_c(c)
    BY <1>1, CodesAre DEF Coded, Escape, isalnum_c, Capital, OtherKept
  <2>2. {"%", "2", "F"} \subseteq Letters
    BY DEF Letters, Chars
  <2>3. Coded(c) \in Seq(Letters) /\ Len(Coded(c)) = 3
        /\ Coded(c)[1] = "%" /\ Coded(c)[2] = "2" /\ Coded(c)[3] = "F"
    BY <2>1, <2>2, OneAndTwo
  <2>4. c \in DOMAIN Code /\ Code[c][1] = "2" /\ Code[c][2] = "F"
    BY <1>1, CodesAre
  <2> QED
    BY <1>1, <2>1, <2>3, <2>4
<1>2. CASE c = "%"
  <2>1. Coded(c) = <<"%">> \o <<"2", "5">> /\ ~isalnum_c(c)
    BY <1>2, CodesAre DEF Coded, Escape, isalnum_c, Capital, OtherKept
  <2>2. {"%", "2", "5"} \subseteq Letters
    BY DEF Letters, Chars
  <2>3. Coded(c) \in Seq(Letters) /\ Len(Coded(c)) = 3
        /\ Coded(c)[1] = "%" /\ Coded(c)[2] = "2" /\ Coded(c)[3] = "5"
    BY <2>1, <2>2, OneAndTwo
  <2>4. c \in DOMAIN Code /\ Code[c][1] = "2" /\ Code[c][2] = "5"
    BY <1>2, CodesAre
  <2> QED
    BY <1>2, <2>1, <2>3, <2>4
<1>3. CASE c = "*"
  <2>1. Coded(c) = <<"%">> \o <<"2", "A">> /\ ~isalnum_c(c)
    BY <1>3, CodesAre DEF Coded, Escape, isalnum_c, Capital, OtherKept
  <2>2. {"%", "2", "A"} \subseteq Letters
    BY DEF Letters, Chars
  <2>3. Coded(c) \in Seq(Letters) /\ Len(Coded(c)) = 3
        /\ Coded(c)[1] = "%" /\ Coded(c)[2] = "2" /\ Coded(c)[3] = "A"
    BY <2>1, <2>2, OneAndTwo
  <2>4. c \in DOMAIN Code /\ Code[c][1] = "2" /\ Code[c][2] = "A"
    BY <1>3, CodesAre
  <2> QED
    BY <1>3, <2>1, <2>3, <2>4
<1>4. CASE c \notin {"/", "%", "*"}
  <2>1. isalnum_c(c)
    BY <1>4 DEF Chars, isalnum_c, Capital, OtherKept
  <2>2. Coded(c) = <<c>>
    BY <2>1 DEF Coded
  <2>3. c \in Letters
    BY DEF Letters
  <2> QED
    BY <1>4, <2>1, <2>2, <2>3, CodesAre
<1> QED
  BY <1>1, <1>2, <1>3, <1>4

LEMMA ShownIs ==
  ASSUME NEW c \in Chars
  PROVE  /\ Shown(c) \in Seq(Letters) /\ Len(Shown(c)) > 0
         /\ c \notin {"%", "*"} => Len(Shown(c)) = 1 /\ Shown(c)[1] = c
         /\ c \in {"%", "*"} => /\ Len(Shown(c)) = 3 /\ Shown(c)[1] = "%"
                                /\ Shown(c)[2] = "2" /\ Shown(c)[2] = Code[c][1]
                                /\ Shown(c)[3] = Code[c][2] /\ Shown(c)[3] \in {"5", "A"}
<1>1. CASE c = "/"
  <2>1. Shown(c) = <<c>> /\ c \in Letters /\ c \notin {"%", "*"}
    BY <1>1 DEF Shown, Letters
  <2>2. Shown(c) \in Seq(Letters) /\ Len(Shown(c)) = 1 /\ Shown(c)[1] = c
    BY <2>1
  <2> QED
    BY <2>1, <2>2
<1>2. CASE c # "/"
  <2>1. Shown(c) = Coded(c)
    BY <1>2 DEF Shown
  <2>2. c \in {"%", "*"} <=> c \in DOMAIN Code
    BY <1>2, CodesAre
  <2> QED
    BY <1>2, <2>1, <2>2, CodedIs
<1> QED
  BY <1>1, <1>2

(* Decoding what is shown of t.                                            *)
LEMMA DecodeRound ==
  ASSUME NEW w \in Seq(Letters), NEW i \in Nat \ {0}, NEW c \in Chars, NEW out,
         i + Len(Shown(c)) - 1 <= Len(w),
         \A j \in 1 .. Len(Shown(c)) : w[i - 1 + j] = Shown(c)[j]
  PROVE  Decode(w, [i |-> i, output |-> out]) = [i |-> i + Len(Shown(c)), output |-> Append(out, c)]
<1> DEFINE at == [i |-> i, output |-> out]
           code == SubSeq(w, i + 1, i + 2)
<1>0. at.i = i /\ at.output = out /\ Len(w) \in Nat
  OBVIOUS
<1>1. CASE c \notin {"%", "*"}
  <2>1. Len(Shown(c)) = 1 /\ Shown(c)[1] = c
    BY <1>1, ShownIs
  <2>2. w[i] = c /\ ~(i > Len(w)) /\ c # "%"
    BY <1>0, <1>1, <2>1
  <2>3. Decode(w, at) = [i |-> i + 1, output |-> Append(out, c)]
    BY <1>0, <2>2 DEF Decode
  <2> QED
    BY <2>1, <2>3
<1>2. CASE c \in {"%", "*"}
  <2>1. /\ Len(Shown(c)) = 3 /\ Shown(c)[1] = "%" /\ Shown(c)[2] = "2" /\ Shown(c)[2] = Code[c][1]
        /\ Shown(c)[3] = Code[c][2] /\ Shown(c)[3] \in {"5", "A"}
    BY <1>2, ShownIs
  <2>2. w[i] = "%" /\ w[i + 1] = Shown(c)[2] /\ w[i + 2] = Shown(c)[3] /\ i + 2 <= Len(w)
          /\ ~(i > Len(w))
    <3>1. 1 \in 1 .. Len(Shown(c)) /\ 2 \in 1 .. Len(Shown(c)) /\ 3 \in 1 .. Len(Shown(c))
      BY <2>1
    <3>2. w[i - 1 + 1] = Shown(c)[1] /\ w[i - 1 + 2] = Shown(c)[2] /\ w[i - 1 + 3] = Shown(c)[3]
      BY <3>1
    <3>3. i - 1 + 1 = i /\ i - 1 + 2 = i + 1 /\ i - 1 + 3 = i + 2
      OBVIOUS
    <3>4. i + 2 <= Len(w) /\ ~(i > Len(w))
      BY <1>0, <2>1
    <3> QED
      BY <2>1, <3>2, <3>3, <3>4
  <2>3. code = Code[c]
    <3>1. \A k \in i + 1 .. i + 2 : w[k] \in Letters
      BY <1>0, <2>2
    <3>2. code \in Seq(Letters) /\ Len(code) = (IF i + 1 <= i + 2 THEN (i + 2) - (i + 1) + 1 ELSE 0)
          /\ \A k \in 1 .. (i + 2) - (i + 1) + 1 : code[k] = w[(i + 1) + k - 1]
      BY <3>1, SubSeqProperties
    <3>3. i + 1 <= i + 2 /\ (i + 2) - (i + 1) + 1 = 2 /\ (i + 1) + 1 - 1 = i + 1
            /\ (i + 1) + 2 - 1 = i + 2
      OBVIOUS
    <3>4. Len(code) = 2 /\ code[1] = Code[c][1] /\ code[2] = Code[c][2]
      BY <2>1, <2>2, <3>2, <3>3
    <3>5. PICK x : x = Code[c]
      OBVIOUS
    <3>6. x \in Seq(Letters) /\ Len(x) = 2
      <4>1. "2" \in Letters /\ "5" \in Letters /\ "A" \in Letters
        BY DEF Letters, Chars
      <4>2. x = <<"2", "5">> \/ x = <<"2", "A">>
        BY <1>2, <3>5, CodesAre
      <4>3. \A y, z \in Letters : <<y, z>> \in Seq(Letters) /\ Len(<<y, z>>) = 2
        OBVIOUS
      <4> QED
        BY <4>1, <4>2, <4>3
    <3> HIDE DEF code
    <3>7. Len(code) = Len(x) /\ \A k \in 1 .. Len(code) : code[k] = x[k]
      BY <3>4, <3>5, <3>6
    <3>8. code = x
      BY <3>2, <3>6, <3>7
    <3> QED
      BY <3>5, <3>8
  <2>4. isHexDigit(w[i + 1]) /\ isHexDigit(w[i + 2])
    BY <2>1, <2>2 DEF isHexDigit
  <2>5. Decode(w, at) = [i |-> i + 3, output |-> Append(out, Decoded(code))]
    BY <1>0, <2>2, <2>4 DEF Decode
  <2>6. Decoded(code) = c
    BY <1>2, <2>3, CodesAre, DecodedIs
  <2> QED
    BY <2>1, <2>5, <2>6
<1> QED
  BY <1>1, <1>2

Showing(t) == [i \in DOMAIN t |-> Shown(t[i])]

LEMMA ShowingIs ==
  ASSUME NEW t \in Seq(Chars)
  PROVE  /\ Showing(t) \in Seq(Seq(Letters)) /\ Len(Showing(t)) = Len(t)
         /\ \A k \in 1 .. Len(t) : Showing(t)[k] = Shown(t[k]) /\ t[k] \in Chars
              /\ Len(Showing(t)[k]) > 0
<1>1. Len(t) \in Nat /\ DOMAIN t = 1 .. Len(t) /\ \A k \in 1 .. Len(t) : t[k] \in Chars
  OBVIOUS
<1>2. \A k \in 1 .. Len(t) : Shown(t[k]) \in Seq(Letters) /\ Len(Shown(t[k])) > 0
  BY <1>1, ShownIs
<1>3. Showing(t) = [k \in 1 .. Len(t) |-> Shown(t[k])]
  BY <1>1 DEF Showing
<1> DEFINE D == Seq(Letters)
<1>4. Showing(t) \in [1 .. Len(t) -> D]
  BY <1>2, <1>3
<1> HIDE DEF D
<1>5. Showing(t) \in Seq(D) /\ Len(Showing(t)) = Len(t)
  BY <1>1, <1>4
<1> QED
  BY <1>1, <1>2, <1>3, <1>5 DEF D

(* What the link shows of a text decodes to it.                            *)
LEMMA DecodeShown ==
  ASSUME NEW t \in Seq(Chars), NEW w, NEW p, Spells(w, Showing(t), p, Letters)
  PROVE  url_decode(w) = t
<1>1. Len(t) \in Nat /\ w \in Seq(Letters) /\ Len(w) \in Nat
  BY DEF Spells
<1>2. PICK a : Decodes(a, w, Letters) /\ url_decode(w) = a[Len(w)].output
  BY <1>1, DecodesAre DEF Letters, Chars
<1>3. a[0] = [i |-> 1, output |-> <<>>] /\ \A n \in 1 .. Len(w) : a[n] = Decode(w, a[n - 1])
  BY <1>2 DEF Decodes
<1>4. /\ \A n \in 0 .. Len(t) : p[n] \in n .. Len(w)
      /\ p[0] = 0 /\ p[Len(t)] = Len(w)
      /\ \A k \in 1 .. Len(t) :
           /\ t[k] \in Chars /\ p[k] = p[k - 1] + Len(Shown(t[k]))
           /\ \A j \in 1 .. Len(Shown(t[k])) : w[p[k - 1] + j] = Shown(t[k])[j]
  <2>1. /\ Showing(t) \in Seq(Seq(Letters)) /\ Len(Showing(t)) = Len(t)
        /\ \A k \in 1 .. Len(t) : Showing(t)[k] = Shown(t[k]) /\ t[k] \in Chars
    BY ShowingIs
  <2>2. \A n \in 0 .. Len(Showing(t)) : p[n] \in n .. Len(w)
    BY <2>1, EndsOrdered
  <2>3. /\ p[0] = 0 /\ p[Len(t)] = Len(w)
        /\ \A k \in 1 .. Len(t) :
           /\ p[k] = p[k - 1] + Len(Showing(t)[k])
           /\ \A j \in 1 .. Len(Showing(t)[k]) : w[p[k - 1] + j] = Showing(t)[k][j]
    BY <2>1 DEF Spells
  <2> QED
    BY <2>1, <2>2, <2>3
<1> DEFINE done(n) == [i |-> p[n] + 1, output |-> SubSeq(t, 1, n)]
           T == { n \in Nat : n <= Len(t) => a[n] = done(n) }
<1>5. 0 \in T
  BY <1>1, <1>3, <1>4
<1>6. ASSUME NEW n \in Nat, n \in T PROVE n + 1 \in T
  <2> SUFFICES ASSUME n + 1 <= Len(t) PROVE a[n + 1] = done(n + 1)
    OBVIOUS
  <2>1. PICK k : k = n + 1
    OBVIOUS
  <2>2. k \in 1 .. Len(t) /\ k - 1 = n /\ n \in 0 .. Len(t) /\ k \in 0 .. Len(t)
    BY <1>1, <2>1
  <2>3. a[n] = done(n)
    BY <1>1, <1>6, <2>1, <2>2
  <2>4. PICK i : i = p[n] + 1
    OBVIOUS
  <2>5. PICK c : c = t[k]
    OBVIOUS
  <2>6. c \in Chars /\ p[k] = p[n] + Len(Shown(c))
          /\ \A j \in 1 .. Len(Shown(c)) : w[p[n] + j] = Shown(c)[j]
    BY <1>4, <2>2, <2>5
  <2>7. p[n] \in Nat /\ p[k] \in Nat /\ p[k] <= Len(w) /\ k <= Len(w) /\ Len(Shown(c)) \in Nat
    <3>1. p[n] \in n .. Len(w) /\ p[k] \in k .. Len(w)
      BY <1>4, <2>2
    <3>2. Len(Shown(c)) \in Nat
      BY <2>6, ShownIs
    <3> QED
      BY <1>1, <2>2, <3>1, <3>2
  <2>8. i \in Nat \ {0} /\ i - 1 = p[n] /\ i + Len(Shown(c)) - 1 <= Len(w)
        /\ i + Len(Shown(c)) = p[k] + 1
    BY <2>4, <2>6, <2>7
  <2>9. \A j \in 1 .. Len(Shown(c)) : w[i - 1 + j] = Shown(c)[j]
    BY <2>6, <2>8
  <2>10. PICK out : out = SubSeq(t, 1, n)
    OBVIOUS
  <2>11. Decode(w, [i |-> i, output |-> out]) = [i |-> i + Len(Shown(c)), output |-> Append(out, c)]
    BY <1>1, <2>6, <2>8, <2>9, DecodeRound
  <2>12. a[k] = Decode(w, a[n])
    BY <1>1, <1>3, <2>2, <2>7
  <2>13. Append(out, c) = SubSeq(t, 1, k)
    BY <2>2, <2>5, <2>10
  <2> QED
    BY <2>1, <2>3, <2>4, <2>8, <2>10, <2>11, <2>12, <2>13
<1> HIDE DEF T
<1>7. Len(t) \in T
  BY <1>1, <1>5, <1>6, Induct
<1>8. a[Len(t)] = [i |-> Len(w) + 1, output |-> t]
  <2>1. a[Len(t)] = done(Len(t))
    BY <1>1, <1>7 DEF T
  <2>2. SubSeq(t, 1, Len(t)) = t
    BY SubSeqFull
  <2> QED
    BY <1>4, <2>1, <2>2
<1> DEFINE last == [i |-> Len(w) + 1, output |-> t]
           R == { n \in Nat : n >= Len(t) /\ n <= Len(w) => a[n] = last }
<1>9. 0 \in R
  BY <1>1, <1>8
<1>10. ASSUME NEW n \in Nat, n \in R PROVE n + 1 \in R
  <2> SUFFICES ASSUME n + 1 >= Len(t), n + 1 <= Len(w) PROVE a[n + 1] = last
    OBVIOUS
  <2>1. CASE n + 1 = Len(t)
    BY <1>8, <2>1
  <2>2. CASE n + 1 # Len(t)
    <3>1. n >= Len(t) /\ n <= Len(w) /\ n + 1 \in 1 .. Len(w) /\ (n + 1) - 1 = n
      BY <1>1, <2>2
    <3>2. a[n] = last
      BY <1>10, <3>1
    <3>3. a[n + 1] = Decode(w, last)
      BY <1>3, <3>1, <3>2
    <3>4. last.i > Len(w)
      BY <1>1
    <3>5. Decode(w, last) = last
      BY <3>4 DEF Decode
    <3> QED
      BY <3>3, <3>5
  <2> QED
    BY <2>1, <2>2
<1> HIDE DEF R
<1>11. Len(w) \in R
  BY <1>1, <1>9, <1>10, Induct
<1>12. Len(w) >= Len(t)
  <2>1. Len(t) \in 0 .. Len(t)
    BY <1>1
  <2>2. p[Len(t)] \in Len(t) .. Len(w)
    BY <1>4, <2>1
  <2> QED
    BY <1>1, <2>2
<1>13. a[Len(w)] = last
  BY <1>1, <1>11, <1>12 DEF R
<1> QED
  BY <1>2, <1>13

(* The link while the slashes are put back, done up to the m-th character. *)
Stage(s, m) == [i \in DOMAIN s |-> IF i <= m THEN Shown(s[i]) ELSE Coded(s[i])]

LEMMA StageIs ==
  ASSUME NEW s \in Seq(Chars), NEW m \in Nat
  PROVE  /\ Stage(s, m) \in Seq(Seq(Letters)) /\ Len(Stage(s, m)) = Len(s)
         /\ \A k \in 1 .. Len(s) : Len(Stage(s, m)[k]) > 0
         /\ \A k \in 1 .. Len(s) : Stage(s, m)[k] = IF k <= m \/ s[k] # "/"
              THEN Shown(s[k]) ELSE Coded(s[k])
<1>1. Len(s) \in Nat /\ DOMAIN s = 1 .. Len(s) /\ \A k \in 1 .. Len(s) : s[k] \in Chars
  OBVIOUS
<1> DEFINE D == Seq(Letters)
           block(k) == IF k <= m THEN Shown(s[k]) ELSE Coded(s[k])
<1>2. \A k \in 1 .. Len(s) : block(k) \in D /\ Len(block(k)) > 0
  BY <1>1, ShownIs, CodedIs
<1>3. Stage(s, m) = [k \in 1 .. Len(s) |-> block(k)]
  BY <1>1 DEF Stage
<1>a. \A k \in 1 .. Len(s) : block(k) = IF k <= m \/ s[k] # "/" THEN Shown(s[k]) ELSE Coded(s[k])
  BY DEF Shown
<1> HIDE DEF D, block
<1>4. Stage(s, m) \in [1 .. Len(s) -> D]
  BY <1>2, <1>3
<1>5. Stage(s, m) \in Seq(D) /\ Len(Stage(s, m)) = Len(s)
  BY <1>1, <1>4
<1>6. \A k \in 1 .. Len(s) : Stage(s, m)[k] = block(k)
  BY <1>3
<1> QED
  BY <1>a, <1>2, <1>5, <1>6 DEF D

LEMMA StageSame ==
  ASSUME NEW s \in Seq(Chars), NEW m \in Nat, NEW n \in Nat,
         \A k \in 1 .. Len(s) : Stage(s, m)[k] = Stage(s, n)[k]
  PROVE  Stage(s, m) = Stage(s, n)
<1> DEFINE D == Seq(Letters)
<1>1. Stage(s, m) \in Seq(D) /\ Len(Stage(s, m)) = Len(s) /\ Stage(s, n) \in Seq(D)
        /\ Len(Stage(s, n)) = Len(s)
  BY StageIs
<1> HIDE DEF D
<1> QED
  BY <1>1

LEMMA TripleAt ==
  ASSUME NEW C, NEW f \in Seq(C), Len(f) = 3, NEW w \in Seq(C), NEW h
  PROVE  At(f, w, h) <=> h \in 1 .. Len(w) - 2 /\ w[h] = f[1] /\ w[h + 1] = f[2] /\ w[h + 2] = f[3]
<1>0. Len(w) \in Nat /\ Len(w) - Len(f) + 1 = Len(w) - 2
  OBVIOUS
<1>1. SUFFICES ASSUME h \in 1 .. Len(w) - 2
               PROVE  SubSeq(w, h, h + 2) = f <=> w[h] = f[1] /\ w[h + 1] = f[2] /\ w[h + 2] = f[3]
  <2>1. h \in 1 .. Len(w) - 2 => h + Len(f) - 1 = h + 2
    BY <1>0
  <2> QED
    BY <1>0, <2>1 DEF At
<1> DEFINE t == SubSeq(w, h, h + 2)
<1>2. \A k \in h .. h + 2 : w[k] \in C
  BY <1>0, <1>1
<1>3. t \in Seq(C) /\ Len(t) = (IF h <= h + 2 THEN (h + 2) - h + 1 ELSE 0)
      /\ \A k \in 1 .. (h + 2) - h + 1 : t[k] = w[h + k - 1]
  <2>1. h \in Int /\ h + 2 \in Int
    BY <1>1
  <2> QED
    BY <1>2, <2>1, SubSeqProperties
<1>4. h <= h + 2 /\ (h + 2) - h + 1 = 3 /\ h + 1 - 1 = h /\ h + 2 - 1 = h + 1 /\ h + 3 - 1 = h + 2
  BY <1>1
<1>5. Len(t) = 3 /\ t[1] = w[h] /\ t[2] = w[h + 1] /\ t[3] = w[h + 2]
  BY <1>3, <1>4
<1> HIDE DEF t
<1>6. t = f <=> t[1] = f[1] /\ t[2] = f[2] /\ t[3] = f[3]
  <2>1. ASSUME t[1] = f[1], t[2] = f[2], t[3] = f[3] PROVE t = f
    <3>1. \A k \in 1 .. 3 : t[k] = f[k]
      BY <2>1
    <3>2. t \in Seq(C) /\ Len(t) = Len(f) /\ \A k \in 1 .. Len(t) : t[k] = f[k]
      BY <1>3, <1>5, <3>1
    <3> QED
      BY <3>2
  <2> QED
    BY <2>1
<1> QED
  BY <1>5, <1>6 DEF t

LEMMA TripleIs ==
  ASSUME NEW C, NEW f \in Seq(C), Len(f) = 3, NEW w \in Seq(C), NEW h, At(f, w, h)
  PROVE  h \in 1 .. Len(w) - 2 /\ w[h] = f[1] /\ w[h + 1] = f[2] /\ w[h + 2] = f[3]
BY TripleAt

LEMMA SlashIs ==
  /\ Escape("/") \in Seq(Letters) /\ Len(Escape("/")) = 3
  /\ Escape("/")[1] = "%" /\ Escape("/")[2] = "2" /\ Escape("/")[3] = "F"
<1>1. "/" \in Chars /\ "/" \in DOMAIN Code
  BY CodesAre DEF Chars
<1>2. PICK c : c = "/"
  OBVIOUS
<1>3. c \in Chars /\ c \in DOMAIN Code
  BY <1>1, <1>2
<1>4. /\ Coded(c) \in Seq(Letters) /\ ~isalnum_c(c) /\ Len(Coded(c)) = 3
      /\ Coded(c)[1] = "%" /\ Coded(c)[2] = "2" /\ Coded(c)[3] = "F"
  BY <1>2, <1>3, CodedIs
<1>5. Coded(c) = Escape(c)
  BY <1>4 DEF Coded
<1> QED
  BY <1>2, <1>4, <1>5

LEMMA SlashAt ==
  ASSUME NEW w \in Seq(Letters), NEW h, At(Escape("/"), w, h)
  PROVE  w[h] = "%" /\ w[h + 2] = "F"
<1> DEFINE f == Escape("/")
<1>1. f \in Seq(Letters) /\ Len(f) = 3 /\ f[1] = "%" /\ f[3] = "F" /\ At(f, w, h)
  BY SlashIs
<1> HIDE DEF f
<1>2. f \in Seq(Letters) /\ Len(f) = 3 /\ At(f, w, h)
  BY <1>1
<1>3. w[h] = f[1] /\ w[h + 2] = f[3]
  BY <1>2, TripleIs
<1> QED
  BY <1>1, <1>3

(* No code of a slash in what is done, nor before the next slash.          *)
LEMMA NoSlashBefore ==
  ASSUME NEW s \in Seq(Chars), NEW m \in Nat, NEW w, NEW p, Spells(w, Stage(s, m), p, Letters),
         NEW k \in 0 .. Len(s), \A i \in m + 1 .. k : s[i] # "/", NEW h \in 1 .. p[k]
  PROVE  ~At(Escape("/"), w, h)
<1>1. Len(s) \in Nat /\ \A i \in 1 .. Len(s) : s[i] \in Chars
  OBVIOUS
<1>2. /\ Stage(s, m) \in Seq(Seq(Letters)) /\ Len(Stage(s, m)) = Len(s)
      /\ \A i \in 1 .. Len(s) : Stage(s, m)[i] = IF i <= m \/ s[i] # "/"
           THEN Shown(s[i]) ELSE Coded(s[i])
  BY StageIs
<1>3. /\ \A n \in 0 .. Len(s) : p[n] \in n .. Len(w)
      /\ \A x, n \in 0 .. Len(s) : x <= n => p[x] <= p[n]
  <2>1. /\ \A n \in 0 .. Len(Stage(s, m)) : p[n] \in n .. Len(w)
        /\ \A x, n \in 0 .. Len(Stage(s, m)) : x <= n => p[x] <= p[n]
    BY <1>2, EndsOrdered
  <2> QED
    BY <1>2, <2>1
<1>4. w \in Seq(Letters) /\ Len(w) \in Nat
      /\ \A i \in 1 .. Len(s) : \A j \in 1 .. Len(Stage(s, m)[i]) : w[p[i - 1] + j] = Stage(s, m)[i][j]
  BY <1>2 DEF Spells
<1>5. h \in 1 .. Len(w)
  BY <1>1, <1>3, <1>4
<1>6. InBlock(h, Stage(s, m), p)
  BY <1>2, <1>5, SomeBlock
<1>7. PICK i \in 1 .. Len(s) : \E j \in 1 .. Len(Stage(s, m)[i]) : h = p[i - 1] + j
  BY <1>2, <1>6 DEF InBlock
<1>8. PICK j \in 1 .. Len(Stage(s, m)[i]) : h = p[i - 1] + j
  BY <1>7
<1>9. i <= k
  <2> SUFFICES ASSUME ~(i <= k) PROVE FALSE
    OBVIOUS
  <2>1. k <= i - 1 /\ i - 1 \in 0 .. Len(s) /\ k \in 0 .. Len(s)
    BY <1>1
  <2>2. p[k] <= p[i - 1] /\ p[k] \in Nat /\ p[i - 1] \in Nat
    <3>1. p[k] \in k .. Len(w) /\ p[i - 1] \in i - 1 .. Len(w)
      BY <1>3, <2>1
    <3> QED
      BY <1>3, <1>4, <2>1, <3>1
  <2>3. j >= 1 /\ j \in Int
    OBVIOUS
  <2> QED
    BY <1>8, <2>2, <2>3
<1>10. Stage(s, m)[i] = Shown(s[i])
  <2>1. i <= m \/ s[i] # "/"
    BY <1>1, <1>9
  <2> QED
    BY <1>2, <2>1
<1>11. PICK c \in Chars : c = s[i]
  BY <1>1
<1>12. PICK b : b = Shown(c)
  OBVIOUS
<1>13. \A n \in 1 .. Len(b) : w[p[i - 1] + n] = b[n]
  BY <1>4, <1>10, <1>11, <1>12
<1>14. j \in 1 .. Len(b) /\ w[h] = b[j]
  BY <1>8, <1>10, <1>11, <1>12, <1>13
<1> SUFFICES ASSUME At(Escape("/"), w, h) PROVE FALSE
  OBVIOUS
<1>15. w[h] = "%" /\ w[h + 2] = "F"
  <2>1. w \in Seq(Letters)
    BY <1>4
  <2> QED
    BY <2>1, SlashAt
<1>16. c \in {"%", "*"}
  <2> SUFFICES ASSUME c \notin {"%", "*"} PROVE FALSE
    OBVIOUS
  <2>1. Len(b) = 1 /\ b[1] = c
    BY <1>12, ShownIs
  <2>2. j = 1
    BY <1>14, <2>1
  <2> QED
    BY <1>14, <1>15, <2>1, <2>2
<1>17. Len(b) = 3 /\ b[1] = "%" /\ b[2] = "2" /\ b[3] \in {"5", "A"}
  BY <1>12, <1>16, ShownIs
<1>18. j = 1
  <2>1. j = 1 \/ j = 2 \/ j = 3
    BY <1>14, <1>17
  <2> QED
    BY <1>14, <1>15, <1>17, <2>1
<1>19. w[p[i - 1] + 3] = b[3] /\ p[i - 1] + 3 = h + 2
  <2>1. p[i - 1] \in Int
    <3>1. i - 1 \in 0 .. Len(s)
      BY <1>1
    <3>2. p[i - 1] \in i - 1 .. Len(w)
      BY <1>3, <3>1
    <3> QED
      BY <1>4, <3>2
  <2>2. 3 \in 1 .. Len(b)
    BY <1>17
  <2> QED
    BY <1>8, <1>13, <1>18, <2>1, <2>2
<1> QED
  BY <1>15, <1>17, <1>19

Staged(w, s, m) == \E p : Spells(w, Stage(s, m), p, Letters)

(* The next slash, at k, is put back.                                      *)
LEMMA SlashRound ==
  ASSUME NEW s \in Seq(Chars), NEW m \in Nat, NEW w, NEW p, Spells(w, Stage(s, m), p, Letters),
         NEW k \in m + 1 .. Len(s), s[k] = "/", \A i \in m + 1 .. k - 1 : s[i] # "/"
  PROVE  Staged(ReplaceOnce(w, Escape("/"), <<"/">>), s, k)
<1>1. Len(s) \in Nat /\ k \in 1 .. Len(s) /\ k \in Nat /\ k - 1 \in 0 .. Len(s) /\ k \in 0 .. Len(s)
      /\ k - 1 \in Nat
  OBVIOUS
<1> DEFINE old == Stage(s, m)
           new == Stage(s, k)
           f == Escape("/")
           by == <<"/">>
<1>2. /\ old \in Seq(Seq(Letters)) /\ Len(old) = Len(s) /\ new \in Seq(Seq(Letters))
           /\ Len(new) = Len(s)
      /\ \A i \in 1 .. Len(s) : old[i] = IF i <= m \/ s[i] # "/" THEN Shown(s[i]) ELSE Coded(s[i])
      /\ \A i \in 1 .. Len(s) : new[i] = IF i <= k \/ s[i] # "/" THEN Shown(s[i]) ELSE Coded(s[i])
      /\ \A i \in 1 .. Len(s) : Len(new[i]) > 0
  BY <1>1, StageIs
<1>3. /\ \A i \in 1 .. Len(s) : i # k => new[i] = old[i]
      /\ new[k] = Shown("/") /\ old[k] = Coded("/")
  <2>1. ASSUME NEW i \in 1 .. Len(s), i < k PROVE new[i] = old[i]
    <3>1. i <= m \/ s[i] # "/"
      BY <1>1, <2>1
    <3> QED
      BY <1>2, <2>1, <3>1
  <2>2. ASSUME NEW i \in 1 .. Len(s), i > k PROVE new[i] = old[i]
    <3>1. ~(i <= m) /\ ~(i <= k)
      BY <1>1, <2>2
    <3> QED
      BY <1>2, <3>1
  <2>3. ~(k <= m) /\ k <= k
    OBVIOUS
  <2>4. new[k] = Shown("/") /\ old[k] = Coded("/")
    BY <1>1, <1>2, <2>3
  <2> QED
    BY <1>1, <2>1, <2>2, <2>4
<1>4. new[k] \in Seq(Letters) /\ Len(new[k]) = 1 /\ new[k][1] = "/" /\ Len(old[k]) = 3
  <2>1. PICK c : c = "/"
    OBVIOUS
  <2>2. c \in Chars /\ c \in DOMAIN Code /\ c \notin {"%", "*"}
    BY <2>1, CodesAre DEF Chars
  <2>3. Len(Coded(c)) = 3 /\ Shown(c) \in Seq(Letters) /\ Len(Shown(c)) = 1 /\ Shown(c)[1] = c
    BY <2>2, CodedIs, ShownIs
  <2> QED
    BY <1>3, <2>1, <2>3
<1> HIDE DEF old, new
<1>5. /\ \A n \in 0 .. Len(s) : p[n] \in n .. Len(w)
      /\ \A x, n \in 0 .. Len(s) : x <= n => p[x] <= p[n]
  <2>1. /\ \A n \in 0 .. Len(old) : p[n] \in n .. Len(w)
        /\ \A x, n \in 0 .. Len(old) : x <= n => p[x] <= p[n]
    BY <1>2, EndsOrdered DEF old
  <2> QED
    BY <1>2, <2>1
<1>6. /\ w \in Seq(Letters) /\ Len(w) \in Nat /\ p[0] = 0 /\ p[Len(s)] = Len(w)
      /\ \A i \in 1 .. Len(s) :
           /\ p[i] = p[i - 1] + Len(old[i])
           /\ \A j \in 1 .. Len(old[i]) : w[p[i - 1] + j] = old[i][j]
  <2>1. /\ w \in Seq(Letters) /\ p[0] = 0 /\ p[Len(old)] = Len(w)
        /\ \A i \in 1 .. Len(old) :
             /\ p[i] = p[i - 1] + Len(old[i])
             /\ \A j \in 1 .. Len(old[i]) : w[p[i - 1] + j] = old[i][j]
    BY Zenon DEF Spells, old
  <2> QED
    BY <1>2, <2>1
<1>7. PICK b : b = p[k - 1]
  OBVIOUS
<1>8. b \in Nat /\ p[k] = b + 3 /\ b + 3 <= Len(w)
  <2>1. p[k - 1] \in k - 1 .. Len(w) /\ p[k] \in k .. Len(w)
    BY <1>1, <1>5
  <2>2. p[k] = p[k - 1] + Len(old[k])
    BY <1>1, <1>6
  <2> QED
    BY <1>1, <1>4, <1>6, <1>7, <2>1, <2>2
<1>9. f \in Seq(Letters) /\ Len(f) = 3 /\ f[1] = "%" /\ f[2] = "2" /\ f[3] = "F" /\ Len(f) > 0
  BY SlashIs
<1>10. First(f, w, b + 1)
  <2>1. \A h \in 1 .. b : ~At(f, w, h)
    <3>1. \A h \in 1 .. p[k - 1] : ~At(Escape("/"), w, h)
      BY <1>1, NoSlashBefore
    <3> QED
      BY <1>7, <3>1
  <2>2. w[b + 1] = old[k][1] /\ w[b + 2] = old[k][2] /\ w[b + 3] = old[k][3]
    <3>1. 1 \in 1 .. Len(old[k]) /\ 2 \in 1 .. Len(old[k]) /\ 3 \in 1 .. Len(old[k])
      BY <1>4
    <3>2. \A j \in 1 .. Len(old[k]) : w[b + j] = old[k][j]
      BY <1>1, <1>6, <1>7
    <3> QED
      BY <3>1, <3>2
  <2>3. old[k] = f
    <3>1. ~isalnum_c("/")
      BY DEF isalnum_c, Capital, OtherKept
    <3>2. Coded("/") = f
      BY <3>1 DEF Coded
    <3> QED
      BY <1>3, <3>2
  <2> HIDE DEF f
  <2>4. b + 1 \in 1 .. Len(w) - 2 /\ (b + 1) + 1 = b + 2 /\ (b + 1) + 2 = b + 3 /\ (b + 1) - 1 = b
    BY <1>6, <1>8
  <2>5. At(f, w, b + 1)
    BY <1>6, <1>9, <2>2, <2>3, <2>4, TripleAt
  <2> QED
    BY <2>1, <2>4, <2>5 DEF First
<1>11. by \in Seq(Letters) /\ Len(by) = 1 /\ by[1] = "/"
  <2>1. "/" \in Letters
    BY DEF Letters, Chars
  <2> QED
    BY <2>1
<1> HIDE DEF by, f
<1> DEFINE u == SubSeq(w, 1, b)
           v == SubSeq(w, b + 4, Len(w))
           r == u \o by \o v
<1>12. ReplaceOnce(w, f, by) = r
  <2>1. PICK i : i = b + 1
    OBVIOUS
  <2>2. i - 1 = b /\ i + Len(f) = b + 4
    BY <1>8, <1>9, <2>1
  <2>3. First(f, w, i)
    BY <1>10, <2>1
  <2>4. w \in Seq(Letters) /\ f \in Seq(Letters) /\ Len(f) > 0 /\ by \in Seq(Letters)
    BY <1>6, <1>9, <1>11
  <2>5. ReplaceOnce(w, f, by) = SubSeq(w, 1, i - 1) \o by \o SubSeq(w, i + Len(f), Len(w))
    BY <2>3, <2>4, OnceIs
  <2> QED
    BY <2>2, <2>5
<1>13. u \in Seq(Letters) /\ Len(u) = b /\ \A i \in 1 .. b : u[i] = w[i]
  <2>1. b \in 0 .. Len(w)
    BY <1>6, <1>8
  <2> QED
    BY <1>6, <2>1, Prefix
<1>14. v \in Seq(Letters) /\ Len(v) = Len(w) - (b + 3) /\ \A i \in 1 .. Len(v) : v[i] = w[b + 3 + i]
  <2>1. b + 3 \in 0 .. Len(w) /\ (b + 3) + 1 = b + 4
    BY <1>6, <1>8
  <2>2. PICK n : n = b + 3
    OBVIOUS
  <2>a. n \in 0 .. Len(w) /\ w \in Seq(Letters)
    BY <1>6, <2>1, <2>2
  <2>3. /\ SubSeq(w, n + 1, Len(w)) \in Seq(Letters) /\ Len(SubSeq(w, n + 1, Len(w))) = Len(w) - n
        /\ \A i \in 1 .. Len(w) - n : SubSeq(w, n + 1, Len(w))[i] = w[n + i]
    BY <2>a, Suffix
  <2> QED
    BY <2>1, <2>2, <2>3
<1> HIDE DEF u, v
<1>15. r \in Seq(Letters) /\ Joins(r, u, by, v)
  BY <1>11, <1>13, <1>14, Three
<1> HIDE DEF r
<1>16. /\ Len(r) = Len(w) - 2 /\ r[b + 1] = "/"
       /\ \A i \in 1 .. b : r[i] = w[i]
       /\ \A i \in b + 4 .. Len(w) : r[i - 2] = w[i]
  <2>1. /\ Len(r) = b + 1 + Len(v)
        /\ \A i \in 1 .. b : r[i] = u[i]
        /\ r[b + 1] = by[1]
        /\ \A i \in 1 .. Len(v) : r[b + 1 + i] = v[i]
    BY <1>11, <1>13, <1>15 DEF Joins
  <2>2. ASSUME NEW i \in b + 4 .. Len(w) PROVE r[i - 2] = w[i]
    <3>1. PICK n : n = i - (b + 3)
      OBVIOUS
    <3>2. n \in 1 .. Len(v) /\ b + 1 + n = i - 2 /\ b + 3 + n = i
      BY <1>6, <1>8, <1>14, <3>1
    <3> QED
      BY <1>14, <2>1, <3>2
  <2> QED
    BY <1>6, <1>8, <1>11, <1>13, <1>14, <2>1, <2>2
<1> DEFINE q == [n \in 0 .. Len(s) |-> IF n < k THEN p[n] ELSE p[n] - 2]
<1>17. /\ \A n \in 0 .. Len(s) : q[n] = IF n < k THEN p[n] ELSE p[n] - 2
       /\ q \in [0 .. Len(s) -> Nat]
  <2>1. ASSUME NEW n \in 0 .. Len(s) PROVE (IF n < k THEN p[n] ELSE p[n] - 2) \in Nat
    <3>1. p[n] \in Nat
      <4>1. p[n] \in n .. Len(w)
        BY <1>5
      <4> QED
        BY <1>6, <4>1
    <3>2. CASE ~(n < k)
      <4>1. p[k] <= p[n]
        BY <1>1, <1>5, <3>2
      <4> QED
        BY <1>8, <3>1, <3>2, <4>1
    <3> QED
      BY <3>1, <3>2
  <2> QED
    BY <2>1
<1> HIDE DEF q
<1>18. q[0] = 0 /\ q[Len(s)] = Len(r)
  <2>1. 0 \in 0 .. Len(s) /\ Len(s) \in 0 .. Len(s) /\ 0 < k /\ ~(Len(s) < k)
    BY <1>1
  <2> QED
    BY <1>6, <1>16, <1>17, <2>1
<1>19. ASSUME NEW i \in 1 .. Len(s)
       PROVE  /\ q[i] = q[i - 1] + Len(new[i])
              /\ \A j \in 1 .. Len(new[i]) : r[q[i - 1] + j] = new[i][j]
  <2>1. /\ i \in 0 .. Len(s) /\ i - 1 \in 0 .. Len(s) /\ i \in Int
    BY <1>1
  <2>2. p[i] = p[i - 1] + Len(old[i]) /\ \A j \in 1 .. Len(old[i]) : w[p[i - 1] + j] = old[i][j]
    BY <1>6
  <2>3. PICK x : x = p[i - 1]
    OBVIOUS
  <2>4. PICK l : l = Len(old[i])
    OBVIOUS
  <2>5. x \in Nat /\ l \in Nat /\ p[i] = x + l /\ x + l <= Len(w)
    <3>1. p[i - 1] \in i - 1 .. Len(w) /\ p[i] \in i .. Len(w)
      BY <1>5, <2>1
    <3>2. old[i] \in Seq(Letters)
      BY <1>2
    <3>3. l \in Nat
      BY <2>4, <3>2
    <3> QED
      BY <1>6, <2>1, <2>2, <2>3, <2>4, <3>1, <3>3
  <2>6. CASE i < k
    <3>1. i - 1 < k /\ new[i] = old[i]
      BY <1>1, <1>3, <2>1, <2>6
    <3>2. q[i - 1] = x /\ q[i] = x + l
      BY <1>17, <2>1, <2>3, <2>5, <2>6, <3>1
    <3>3. x + l <= b
      <4>1. i <= k - 1
        BY <1>1, <2>1, <2>6
      <4> QED
        BY <1>1, <1>5, <1>7, <2>1, <2>5, <4>1
    <3>4. ASSUME NEW j \in 1 .. l PROVE r[x + j] = old[i][j]
      <4>1. x + j \in 1 .. b
        BY <1>8, <2>5, <3>3
      <4> QED
        BY <1>16, <2>2, <2>3, <2>4, <4>1
    <3> QED
      BY <2>4, <3>1, <3>2, <3>4
  <2>7. CASE i = k
    <3>1. q[i - 1] = b /\ q[i] = b + 1
      <4>1. i - 1 < k /\ ~(i < k)
        BY <1>1, <2>7
      <4> QED
        BY <1>7, <1>8, <1>17, <2>1, <2>7, <4>1
    <3>2. q[i] = q[i - 1] + Len(new[i])
      BY <1>4, <2>7, <3>1
    <3>3. ASSUME NEW j \in 1 .. Len(new[i]) PROVE r[q[i - 1] + j] = new[i][j]
      <4>0. Len(new[i]) = 1 /\ j \in 1 .. Len(new[i])
        BY <1>4, <2>7
      <4>1. j = 1
        BY <4>0
      <4> QED
        BY <1>4, <1>16, <2>7, <3>1, <4>1
    <3> QED
      BY <3>2, <3>3
  <2>8. CASE i > k
    <3>1. ~(i < k) /\ ~(i - 1 < k) /\ new[i] = old[i]
      BY <1>1, <1>3, <2>1, <2>8
    <3>2. q[i - 1] = x - 2 /\ q[i] = x + l - 2
      BY <1>17, <2>1, <2>3, <2>5, <3>1
    <3>3. b + 3 <= x
      <4>1. k <= i - 1
        BY <1>1, <2>1, <2>8
      <4> QED
        BY <1>1, <1>5, <1>8, <2>1, <2>3, <4>1
    <3>4. ASSUME NEW j \in 1 .. l PROVE r[(x - 2) + j] = old[i][j]
      <4>1. x + j \in b + 4 .. Len(w) /\ (x + j) - 2 = (x - 2) + j
        BY <1>6, <1>8, <2>5, <3>3
      <4>2. PICK y : y = x + j
        OBVIOUS
      <4>3. r[y - 2] = w[y]
        BY <1>16, <4>1, <4>2
      <4> QED
        BY <2>2, <2>3, <2>4, <4>1, <4>2, <4>3
    <3>5. x + l - 2 = (x - 2) + l
      BY <2>5
    <3> QED
      BY <2>4, <3>1, <3>2, <3>4, <3>5
  <2> QED
    BY <1>1, <2>1, <2>6, <2>7, <2>8
<1>20. Spells(r, new, q, Letters)
  BY <1>2, <1>15, <1>17, <1>18, <1>19 DEF Spells
<1> QED
  BY <1>12, <1>20 DEF Staged, new, by, f

(* A round puts the next slash back, or none is left.                      *)
LEMMA RoundAdvances ==
  ASSUME NEW s \in Seq(Chars), NEW m \in 0 .. Len(s), NEW w, Staged(w, s, m)
  PROVE  \E n \in 0 .. Len(s) : (n > m \/ n = Len(s))
           /\ Staged(ReplaceOnce(w, Escape("/"), <<"/">>), s, n)
<1>1. Len(s) \in Nat /\ m \in Nat
  OBVIOUS
<1>2. PICK p : Spells(w, Stage(s, m), p, Letters)
  BY DEF Staged
<1> DEFINE S == { i \in Nat : i \in m + 1 .. Len(s) /\ s[i] = "/" }
<1>3. CASE S # {}
  <2>1. PICK k \in S : \A y \in S : k <= y
    <3>1. S \subseteq Nat
      OBVIOUS
    <3> HIDE DEF S
    <3> QED
      BY <1>3, <3>1, LeastIn
  <2>2. k \in m + 1 .. Len(s) /\ s[k] = "/" /\ \A i \in m + 1 .. k - 1 : s[i] # "/"
    BY <1>1, <2>1
  <2>3. Staged(ReplaceOnce(w, Escape("/"), <<"/">>), s, k)
    BY <1>1, <1>2, <2>2, SlashRound
  <2>4. k \in 0 .. Len(s) /\ k > m
    BY <1>1, <2>2
  <2> QED
    BY <2>3, <2>4
<1>4. CASE S = {}
  <2>1. \A i \in m + 1 .. Len(s) : s[i] # "/"
    BY <1>1, <1>4
  <2>2. p[Len(s)] = Len(w) /\ w \in Seq(Letters)
    <3>1. p[Len(Stage(s, m))] = Len(w) /\ w \in Seq(Letters)
      BY <1>2 DEF Spells
    <3> QED
      BY <1>1, <3>1, StageIs
  <2>3. \A h \in 1 .. Len(w) : ~At(Escape("/"), w, h)
    <3>1. Len(s) \in 0 .. Len(s)
      BY <1>1
    <3>2. \A h \in 1 .. p[Len(s)] : ~At(Escape("/"), w, h)
      BY <1>1, <1>2, <2>1, <3>1, NoSlashBefore
    <3> QED
      BY <2>2, <3>2
  <2>4. ~Occurs(Escape("/"), w)
    <3> DEFINE f == Escape("/")
    <3>1. f \in Seq(Letters) /\ Len(f) = 3 /\ Len(f) > 0
      BY SlashIs
    <3>2. \A h \in 1 .. Len(w) : ~At(f, w, h)
      BY <2>3
    <3> HIDE DEF f
    <3>3. Occurs(f, w) <=> \E i \in 1 .. Len(w) - Len(f) + 1 : SubSeq(w, i, i + Len(f) - 1) = f
      BY <2>2, <3>1, OccursAt
    <3> SUFFICES ASSUME Occurs(f, w) PROVE FALSE
      BY DEF f
    <3>4. PICK i \in 1 .. Len(w) - Len(f) + 1 : SubSeq(w, i, i + Len(f) - 1) = f
      BY <3>3
    <3>5. At(f, w, i)
      BY <3>4 DEF At
    <3>6. i \in 1 .. Len(w)
      BY <2>2, <3>1
    <3> QED
      BY <3>2, <3>5, <3>6
  <2>5. ReplaceOnce(w, Escape("/"), <<"/">>) = w
    BY <2>4, OnceNone
  <2>6. Stage(s, m) = Stage(s, Len(s))
    <3>1. \A i \in 1 .. Len(s) : (i <= m \/ s[i] # "/") /\ i <= Len(s)
      BY <1>1, <2>1
    <3>2. \A i \in 1 .. Len(s) : Stage(s, m)[i] = Shown(s[i]) /\ Stage(s, Len(s))[i] = Shown(s[i])
      BY <1>1, <3>1, StageIs
    <3> QED
      BY <1>1, <3>2, StageSame
  <2>7. Staged(ReplaceOnce(w, Escape("/"), <<"/">>), s, Len(s))
    BY <1>2, <2>5, <2>6 DEF Staged
  <2> QED
    BY <1>1, <2>7
<1> QED
  BY <1>3, <1>4

(* What url_encode writes is the first stage.                              *)
LEMMA EncodeIs ==
  ASSUME NEW s \in Seq(Chars)
  PROVE  \E p : Spells(url_encode(s), Stage(s, 0), p, Letters)
<1>1. Len(s) \in Nat /\ DOMAIN s = 1 .. Len(s)
  OBVIOUS
<1>2. Stage(s, 0) = [i \in DOMAIN s |-> Coded(s[i])]
  BY <1>1 DEF Stage
<1>3. url_encode(s) = Strings!FlattenSeq(Stage(s, 0))
  BY <1>2 DEF url_encode, Coded
<1> DEFINE ss == Stage(s, 0)
<1>4. ss \in Seq(Seq(Letters)) /\ \A k \in 1 .. Len(ss) : Len(ss[k]) > 0
  BY StageIs
<1> HIDE DEF ss
<1>5. \E p : Spells(Strings!FlattenSeq(ss), ss, p, Letters)
  BY <1>4, FlattenSpells
<1> QED
  BY <1>3, <1>5 DEF ss

(* The listing's link spells the name.                                     *)
LEMMA LinkShows ==
  ASSUME NEW s \in Seq(Chars)
  PROVE  \E p : Spells(ReplaceAll(url_encode(s), Escape("/"), <<"/">>), Showing(s), p, Letters)
<1>1. Len(s) \in Nat
  OBVIOUS
<1>2. PICK w : w = url_encode(s)
  OBVIOUS
<1>3. PICK p : Spells(w, Stage(s, 0), p, Letters)
  BY <1>2, EncodeIs
<1>4. w \in Seq(Letters) /\ Len(w) \in Nat /\ Len(s) <= Len(w)
  <2>1. w \in Seq(Letters)
    BY <1>3 DEF Spells
  <2>2. Stage(s, 0) \in Seq(Seq(Letters)) /\ Len(Stage(s, 0)) = Len(s)
    BY StageIs
  <2>3. Len(s) \in 0 .. Len(Stage(s, 0))
    BY <1>1, <2>2
  <2>4. \A n \in 0 .. Len(Stage(s, 0)) : p[n] \in n .. Len(w)
    BY <1>3, <2>2, EndsOrdered
  <2>5. p[Len(s)] \in Len(s) .. Len(w)
    BY <2>3, <2>4
  <2> QED
    BY <1>1, <2>1, <2>5
<1> DEFINE f == Escape("/")
           by == <<"/">>
<1>5. f \in Seq(Letters) /\ Len(f) > 0 /\ by \in Seq(Letters)
  <2>1. "/" \in Letters
    BY DEF Letters, Chars
  <2> QED
    BY <2>1, SlashIs
<1> HIDE DEF f, by
<1>6. PICK g : Replacements(g, w, f, by, Letters) /\ ReplaceAll(w, f, by) = g[Len(w)]
  BY <1>4, <1>5, ReplaceAllIs
<1>7. g[0] = w /\ \A n \in 1 .. Len(w) : g[n] = ReplaceOnce(g[n - 1], f, by)
  BY <1>6 DEF Replacements
<1> DEFINE Far(n) == \E m \in 0 .. Len(s) : (m >= n \/ m = Len(s)) /\ Staged(g[n], s, m)
           T == { n \in Nat : n <= Len(w) => Far(n) }
<1>8. 0 \in T
  <2>1. Staged(g[0], s, 0)
    BY <1>3, <1>7 DEF Staged
  <2>2. 0 \in 0 .. Len(s) /\ 0 >= 0
    BY <1>1
  <2> QED
    BY <2>1, <2>2
<1>9. ASSUME NEW n \in Nat, n \in T PROVE n + 1 \in T
  <2> SUFFICES ASSUME n + 1 <= Len(w) PROVE Far(n + 1)
    <3> HIDE DEF Far
    <3> QED
      OBVIOUS
  <2>1. Far(n) /\ n + 1 \in 1 .. Len(w) /\ (n + 1) - 1 = n
    <3> HIDE DEF Far
    <3> QED
      BY <1>4, <1>9
  <2>2. PICK m \in 0 .. Len(s) : (m >= n \/ m = Len(s)) /\ Staged(g[n], s, m)
    BY <2>1
  <2>3. PICK x : x = g[n]
    OBVIOUS
  <2>4. Staged(x, s, m)
    BY <2>2, <2>3
  <2>5. PICK l \in 0 .. Len(s) : (l > m \/ l = Len(s))
                                   /\ Staged(ReplaceOnce(x, Escape("/"), <<"/">>), s, l)
    BY <2>4, RoundAdvances
  <2>6. g[n + 1] = ReplaceOnce(x, Escape("/"), <<"/">>)
    BY <1>7, <2>1, <2>3 DEF f, by
  <2>7. l >= n + 1 \/ l = Len(s)
    BY <1>1, <2>2, <2>5
  <2> QED
    BY <2>5, <2>6, <2>7
<1> HIDE DEF T, Far
<1>10. Len(w) \in T
  BY <1>4, <1>8, <1>9, Induct
<1>11. Far(Len(w))
  BY <1>4, <1>10 DEF T
<1>12. Staged(g[Len(w)], s, Len(s))
  BY <1>1, <1>4, <1>11 DEF Far
<1>13. Stage(s, Len(s)) = Showing(s)
  <2>1. \A i \in DOMAIN s : i <= Len(s)
    BY <1>1
  <2> QED
    BY <2>1 DEF Stage, Showing
<1> QED
  BY <1>2, <1>6, <1>12, <1>13 DEF Staged, f, by

LEMMA Fronted ==
  ASSUME NEW C, NEW c \in C, NEW s \in Seq(C), NEW r, r = <<c>> \o s
  PROVE  r \in Seq(C) /\ Len(r) = Len(s) + 1 /\ r[1] = c /\ \A i \in 1 .. Len(s) : r[i + 1] = s[i]
<1> DEFINE a == <<c>>
<1>1. a \in Seq(C) /\ Len(a) = 1 /\ a[1] = c /\ r = a \o s /\ Len(s) \in Nat
  OBVIOUS
<1> HIDE DEF a
<1>2. /\ a \o s \in Seq(C) /\ Len(a \o s) = Len(a) + Len(s)
      /\ \A i \in 1 .. Len(a) + Len(s) : (a \o s)[i] = IF i <= Len(a) THEN a[i] ELSE s[i - Len(a)]
  BY <1>1, ConcatProperties
<1>3. r \in Seq(C) /\ Len(r) = Len(s) + 1 /\ \A i \in 1 .. Len(s) + 1 : r[i] = IF i <= 1
        THEN a[i] ELSE s[i - 1]
  BY <1>1, <1>2
<1>4. \A i \in 1 .. Len(s) : i + 1 \in 1 .. Len(s) + 1 /\ ~(i + 1 <= 1) /\ (i + 1) - 1 = i
  BY <1>1
<1> QED
  BY <1>1, <1>3, <1>4

LEMMA Unfronted ==
  ASSUME NEW C, NEW c \in C, NEW s \in Seq(C), NEW r \in Seq(C),
         Len(r) = Len(s) + 1, r[1] = c, \A i \in 1 .. Len(s) : r[i + 1] = s[i]
  PROVE  r = <<c>> \o s /\ SubSeq(r, 2, Len(r)) = s
<1>0. Len(s) \in Nat /\ Len(r) \in Nat
  OBVIOUS
<1>1. PICK t : t = <<c>> \o s
  OBVIOUS
<1>2. t \in Seq(C) /\ Len(t) = Len(s) + 1 /\ t[1] = c /\ \A i \in 1 .. Len(s) : t[i + 1] = s[i]
  BY <1>1, Fronted
<1>3. \A i \in 1 .. Len(r) : t[i] = r[i]
  <2> TAKE i \in 1 .. Len(r)
  <2>1. CASE i = 1
    BY <1>2, <2>1
  <2>2. CASE i # 1
    <3>1. i - 1 \in 1 .. Len(s) /\ (i - 1) + 1 = i
      BY <1>0, <2>2
    <3> QED
      BY <1>2, <3>1
  <2> QED
    BY <2>1, <2>2
<1>4. r = t
  BY <1>2, <1>3
<1> DEFINE v == SubSeq(r, 1 + 1, Len(r))
<1>5. v \in Seq(C) /\ Len(v) = Len(s) /\ \A i \in 1 .. Len(s) : v[i] = r[1 + i]
  <2>1. 1 \in 0 .. Len(r)
    BY <1>0
  <2>2. v \in Seq(C) /\ Len(v) = Len(r) - 1 /\ \A i \in 1 .. Len(r) - 1 : v[i] = r[1 + i]
    BY <2>1, Suffix
  <2> HIDE DEF v
  <2>3. Len(r) - 1 = Len(s)
    BY <1>0
  <2> QED
    BY <2>2, <2>3
<1>6. v = s
  <2> HIDE DEF v
  <2>1. \A i \in 1 .. Len(s) : 1 + i = i + 1
    BY <1>0
  <2> QED
    BY <1>5, <2>1
<1> QED
  BY <1>1, <1>4, <1>6

LEMMA OneLeads ==
  ASSUME NEW C, NEW c \in C, NEW r \in Seq(C), Len(r) >= 1, r[1] = c, ~Pair(r, c, c)
  PROVE  Leading(r, c) = 1
<1>1. PICK n : n = Leading(r, c)
  OBVIOUS
<1>2. n \in 0 .. Len(r) /\ (\A i \in 1 .. n : r[i] = c) /\ (n = Len(r) \/ r[n + 1] # c)
  BY <1>1, LeadingIs
<1>3. Len(r) \in Nat
  OBVIOUS
<1>4. n # 0
  BY <1>2, <1>3
<1>5. ~(n >= 2)
  <2> SUFFICES ASSUME n >= 2 PROVE FALSE
    OBVIOUS
  <2>1. 1 \in 1 .. n /\ 1 + 1 \in 1 .. n /\ 1 \in 1 .. Len(r) - 1
    BY <1>2, <1>3
  <2>2. r[1] = c /\ r[1 + 1] = c
    BY <1>2, <2>1
  <2> QED
    BY <2>1, <2>2 DEF Pair
<1> QED
  BY <1>1, <1>2, <1>3, <1>4, <1>5

LEMMA ReplaceAllNone ==
  ASSUME NEW C, NEW s \in Seq(C), NEW f \in Seq(C), Len(f) > 0, NEW by \in Seq(C), ~Occurs(f, s)
  PROVE  ReplaceAll(s, f, by) = s
<1>1. PICK g : Replacements(g, s, f, by, C) /\ ReplaceAll(s, f, by) = g[Len(s)]
  BY ReplaceAllIs
<1>2. g[0] = s /\ \A n \in 1 .. Len(s) : g[n] = ReplaceOnce(g[n - 1], f, by)
  BY <1>1 DEF Replacements
<1>3. ReplaceOnce(s, f, by) = s /\ Len(s) \in Nat
  BY OnceNone
<1> DEFINE T == { n \in Nat : n <= Len(s) => g[n] = s }
<1>4. 0 \in T
  BY <1>2
<1>5. ASSUME NEW n \in Nat, n \in T PROVE n + 1 \in T
  <2> SUFFICES ASSUME n + 1 <= Len(s) PROVE g[n + 1] = s
    OBVIOUS
  <2>1. g[n] = s /\ n + 1 \in 1 .. Len(s) /\ (n + 1) - 1 = n
    BY <1>3, <1>5
  <2> QED
    BY <1>2, <1>3, <2>1
<1> HIDE DEF T
<1>6. Len(s) \in T
  BY <1>3, <1>4, <1>5, Induct
<1> QED
  BY <1>1, <1>3, <1>6 DEF T

(* The link has no neighbours the name has not.                            *)
LEMMA ShownPair ==
  ASSUME NEW u \in Seq(Chars), NEW w, NEW p, Spells(w, Showing(u), p, Letters),
         NEW c \in {".", "/"}, NEW d \in {".", "/"}, Pair(w, c, d)
  PROVE  Pair(u, c, d)
<1>1. Len(u) \in Nat
  OBVIOUS
<1> DEFINE ss == Showing(u)
<1>2. /\ ss \in Seq(Seq(Letters)) /\ Len(ss) = Len(u)
      /\ \A k \in 1 .. Len(u) : ss[k] = Shown(u[k]) /\ u[k] \in Chars
  BY ShowingIs
<1>3. Spells(w, ss, p, Letters)
  OBVIOUS
<1> HIDE DEF ss
<1>4. /\ w \in Seq(Letters) /\ Len(w) \in Nat /\ p[Len(u)] = Len(w)
      /\ \A k \in 1 .. Len(u) :
           /\ p[k] = p[k - 1] + Len(ss[k])
           /\ \A j \in 1 .. Len(ss[k]) : w[p[k - 1] + j] = ss[k][j]
  <2>1. /\ w \in Seq(Letters) /\ p[Len(ss)] = Len(w)
        /\ \A k \in 1 .. Len(ss) :
             /\ p[k] = p[k - 1] + Len(ss[k])
             /\ \A j \in 1 .. Len(ss[k]) : w[p[k - 1] + j] = ss[k][j]
    BY <1>3, Zenon DEF Spells
  <2>2. Len(w) \in Nat /\ Len(ss) = Len(u)
    BY <1>2, <2>1
  <2> QED
    BY <2>1, <2>2, Zenon
<1>5. \A n \in 0 .. Len(u) : p[n] \in n .. Len(w)
  <2>1. \A n \in 0 .. Len(ss) : p[n] \in n .. Len(w)
    BY <1>2, <1>3, EndsOrdered
  <2> QED
    BY <1>2, <2>1
<1>6. ASSUME NEW h \in 1 .. Len(w), w[h] \in {".", "/"}
      PROVE  \E k \in 1 .. Len(u) : u[k] = w[h] /\ p[k - 1] = h - 1 /\ p[k] = h
  <2>1. InBlock(h, ss, p)
    BY <1>2, <1>3, SomeBlock
  <2>2. PICK k \in 1 .. Len(u) : \E j \in 1 .. Len(ss[k]) : h = p[k - 1] + j
    BY <1>2, <2>1 DEF InBlock
  <2>3. PICK j \in 1 .. Len(ss[k]) : h = p[k - 1] + j
    BY <2>2
  <2>4. PICK e \in Chars : e = u[k]
    BY <1>2
  <2>5. PICK b : b = Shown(e)
    OBVIOUS
  <2>6. ss[k] = b
    BY <1>2, <2>4, <2>5
  <2>7. j \in 1 .. Len(b) /\ w[h] = b[j] /\ p[k] = p[k - 1] + Len(b)
    BY <1>4, <2>3, <2>6
  <2>8. e \notin {"%", "*"}
    <3> SUFFICES ASSUME e \in {"%", "*"} PROVE FALSE
      OBVIOUS
    <3>1. Len(b) = 3 /\ b[1] = "%" /\ b[2] = "2" /\ b[3] \in {"5", "A"}
      BY <2>5, ShownIs
    <3>2. j = 1 \/ j = 2 \/ j = 3
      BY <2>7, <3>1
    <3> QED
      BY <1>6, <2>7, <3>1, <3>2
  <2>9. Len(b) = 1 /\ b[1] = e
    BY <2>5, <2>8, ShownIs
  <2>10. j = 1
    BY <2>7, <2>9
  <2>11. p[k - 1] \in Int
    <3>1. k - 1 \in 0 .. Len(u)
      BY <1>1
    <3>2. p[k - 1] \in k - 1 .. Len(w)
      BY <1>5, <3>1
    <3> QED
      BY <1>4, <3>2
  <2>12. p[k - 1] = h - 1 /\ p[k] = h
    BY <2>3, <2>7, <2>9, <2>10, <2>11
  <2> QED
    BY <2>4, <2>7, <2>9, <2>10, <2>12
<1>7. PICK h \in 1 .. Len(w) - 1 : w[h] = c /\ w[h + 1] = d
  BY DEF Pair
<1>8. h \in 1 .. Len(w) /\ h + 1 \in 1 .. Len(w) /\ (h + 1) - 1 = h /\ h \in Nat
  BY <1>4
<1>9. PICK k \in 1 .. Len(u) : u[k] = c /\ p[k] = h
  BY <1>6, <1>7, <1>8
<1>10. PICK l \in 1 .. Len(u) : u[l] = d /\ p[l - 1] = h /\ p[l] = h + 1
  <2>1. PICK i : i = h + 1
    OBVIOUS
  <2>2. i \in 1 .. Len(w) /\ w[i] = d /\ i - 1 = h
    BY <1>7, <1>8, <2>1
  <2>3. \E l \in 1 .. Len(u) : u[l] = w[i] /\ p[l - 1] = i - 1 /\ p[l] = i
    BY <1>6, <2>2
  <2> QED
    BY <2>1, <2>2, <2>3
<1>11. l = k + 1
  <2>1. \A m, n \in 0 .. Len(u) : m <= n => p[m] <= p[n]
    <3>1. \A m, n \in 0 .. Len(ss) : m <= n => p[m] <= p[n]
      BY <1>2, <1>3, EndsOrdered
    <3> QED
      BY <1>2, <3>1
  <2>2. ~(l <= k)
    <3>1. l \in 0 .. Len(u) /\ k \in 0 .. Len(u)
      BY <1>1
    <3> QED
      BY <1>8, <1>9, <1>10, <2>1, <3>1
  <2>3. ~(k < l - 1)
    <3> SUFFICES ASSUME k < l - 1 PROVE FALSE
      OBVIOUS
    <3>1. k + 1 \in 1 .. Len(u) /\ k + 1 \in 0 .. Len(u) /\ l - 1 \in 0 .. Len(u)
            /\ k + 1 <= l - 1 /\ (k + 1) - 1 = k
      BY <1>1
    <3>2. p[k + 1] <= h
      BY <1>10, <2>1, <3>1
    <3>3. p[k + 1] = h + Len(ss[k + 1])
      BY <1>4, <1>9, <3>1
    <3>4. Len(ss[k + 1]) > 0 /\ Len(ss[k + 1]) \in Nat
      BY <1>2, <3>1, ShownIs
    <3> QED
      BY <1>8, <3>2, <3>3, <3>4
  <2> QED
    BY <1>1, <2>2, <2>3
<1>12. k \in 1 .. Len(u) - 1
  BY <1>1, <1>11
<1> QED
  BY <1>9, <1>10, <1>11, <1>12 DEF Pair

LEMMA CleanIsKept ==
  ASSUME NEW w \in Seq(Letters), ~Pair(w, ".", "."), ~Pair(w, "/", "/"), ~Pair(w, "/", ".")
  PROVE  Cleaned(w) = w
<1> DEFINE f == <<"/", ".", "/">>
<1>1. "." \in Letters /\ "/" \in Letters
  BY DEF Letters, Chars
<1>2. Dots \in Seq(Letters) /\ Len(Dots) > 0 /\ Slashes \in Seq(Letters) /\ Len(Slashes) > 0
  <2>1. \A y, z \in Letters : <<y, z>> \in Seq(Letters) /\ Len(<<y, z>>) > 0
    OBVIOUS
  <2> QED
    BY <1>1, <2>1 DEF Dots, Slashes
<1>3. f \in Seq(Letters) /\ Len(f) = 3 /\ f[1] = "/" /\ f[2] = "."
  <2>1. \A x, y, z \in Letters : <<x, y, z>> \in Seq(Letters) /\ Len(<<x, y, z>>) = 3
                                 /\ <<x, y, z>>[1] = x /\ <<x, y, z>>[2] = y
    OBVIOUS
  <2> QED
    BY <1>1, <2>1
<1>4. <<".">> \in Seq(Letters) /\ <<"/">> \in Seq(Letters)
  <2>1. \A x \in Letters : <<x>> \in Seq(Letters)
    OBVIOUS
  <2> QED
    BY <1>1, <2>1
<1>5. ~Occurs(Dots, w) /\ ~Occurs(Slashes, w)
  BY <1>1, PairOccurs DEF Dots, Slashes
<1> HIDE DEF f
<1>a. Len(f) > 0
  BY <1>3
<1>6. ~Occurs(f, w)
  <2> SUFFICES ASSUME Occurs(f, w) PROVE FALSE
    OBVIOUS
  <2>1. PICK i \in 1 .. Len(w) - Len(f) + 1 : SubSeq(w, i, i + Len(f) - 1) = f
    BY <1>3, <1>a, OccursAt
  <2>2. At(f, w, i)
    BY <2>1 DEF At
  <2>3. i \in 1 .. Len(w) - 2 /\ w[i] = "/" /\ w[i + 1] = "."
    BY <1>3, <2>2, TripleAt
  <2>4. i \in 1 .. Len(w) - 1
    BY <2>3
  <2> QED
    BY <2>3, <2>4 DEF Pair
<1>7. ReplaceAll(w, Dots, <<".">>) = w
  BY <1>2, <1>4, <1>5, ReplaceAllNone
<1>8. ReplaceAll(w, Slashes, <<"/">>) = w
  BY <1>2, <1>4, <1>5, ReplaceAllNone
<1>9. ReplaceAll(w, f, <<"/">>) = w
  BY <1>3, <1>a, <1>4, <1>6, ReplaceAllNone
<1> QED
  BY <1>7, <1>8, <1>9 DEF Cleaned, f

(* safedir keeps a link that has nothing to clean.                         *)
LEMMA LinkIsSafe ==
  ASSUME NEW w \in Seq(Letters), Len(w) >= 1, w[1] = "/",
         ~Pair(w, ".", "."), ~Pair(w, "/", "/"), ~Pair(w, "/", ".")
  PROVE  safedir(w, <<>>) = w
<1>1. Len(w) \in Nat /\ DOMAIN w = 1 .. Len(w) /\ \A i \in 1 .. Len(w) : w[i] \in Letters
  OBVIOUS
<1>2. \A c \in Letters : Printable(c) = c
  BY DEF Letters, Chars, Printable
<1> DEFINE printed == [i \in DOMAIN w |-> Printable(w[i])]
<1>3. printed = w
  <2>1. \A i \in DOMAIN w : Printable(w[i]) = w[i]
    BY <1>1, <1>2
  <2>2. w = [i \in DOMAIN w |-> w[i]]
    BY <1>1
  <2> QED
    BY <2>1, <2>2
<1> HIDE DEF printed
<1>4. printed \o <<>> = w
  BY <1>3
<1>5. Cleaned(printed \o <<>>) = w
  BY <1>4, CleanIsKept
<1> DEFINE all == SubSeq(w, 1, IF Len(w) < Len(w) THEN Len(w) ELSE Len(w))
<1>6. all = w
  <2>1. all = SubSeq(w, 1, Len(w))
    BY <1>1
  <2> QED
    BY <2>1, SubSeqFull
<1> HIDE DEF all
<1>7. LeadingSlashes(w) = 1
  <2>1. "/" \in Letters
    BY DEF Letters, Chars
  <2> QED
    BY <2>1, OneLeads DEF LeadingSlashes
<1>8. safedir(w, <<>>) = <<"/">> \o SubSeq(w, 1 + 1, Len(w))
  BY <1>5, <1>6, <1>7 DEF safedir, printed, all
<1>9. PICK c : c = "/"
  OBVIOUS
<1>10. c \in Letters
  BY <1>9 DEF Letters, Chars
<1> DEFINE v == SubSeq(w, 1 + 1, Len(w))
<1>11. v \in Seq(Letters) /\ Len(v) = Len(w) - 1 /\ \A i \in 1 .. Len(w) - 1 : v[i] = w[1 + i]
  <2>1. 1 \in 0 .. Len(w)
    BY <1>1
  <2> QED
    BY <2>1, Suffix
<1> HIDE DEF v
<1>12. Len(w) = Len(v) + 1 /\ \A i \in 1 .. Len(v) : w[i + 1] = v[i]
  <2>1. \A i \in 1 .. Len(v) : 1 + i = i + 1
    BY <1>1, <1>11
  <2> QED
    BY <1>1, <1>11, <2>1
<1>13. w = <<c>> \o v
  BY <1>9, <1>10, <1>11, <1>12, Unfronted
<1> QED
  BY <1>8, <1>9, <1>13 DEF v

(* A slash in front of a link is one in front of the name.                 *)
LEMMA FrontShows ==
  ASSUME NEW s \in Seq(Chars), NEW w, NEW p, Spells(w, Showing(s), p, Letters)
  PROVE  \E q : Spells(<<"/">> \o w, Showing(<<"/">> \o s), q, Letters)
<1>1. PICK c : c = "/"
  OBVIOUS
<1>2. c \in Chars /\ c \in Letters /\ c \notin {"%", "*"}
  BY <1>1 DEF Chars, Letters
<1>3. PICK u : u = <<c>> \o s
  OBVIOUS
<1>4. PICK r : r = <<c>> \o w
  OBVIOUS
<1>5. u \in Seq(Chars) /\ Len(u) = Len(s) + 1 /\ u[1] = c /\ \A i \in 1 .. Len(s) : u[i + 1] = s[i]
  BY <1>2, <1>3, Fronted
<1> DEFINE ss == Showing(s)
           uu == Showing(u)
<1>6. /\ ss \in Seq(Seq(Letters)) /\ Len(ss) = Len(s)
      /\ \A k \in 1 .. Len(s) : ss[k] = Shown(s[k])
  BY ShowingIs
<1>7. /\ uu \in Seq(Seq(Letters)) /\ Len(uu) = Len(s) + 1
      /\ \A k \in 1 .. Len(s) + 1 : uu[k] = Shown(u[k]) /\ Len(uu[k]) > 0
  BY <1>5, ShowingIs
<1>8. Spells(w, ss, p, Letters)
  OBVIOUS
<1> HIDE DEF ss, uu
<1>9. /\ w \in Seq(Letters) /\ p \in [0 .. Len(ss) -> Nat] /\ p[0] = 0 /\ p[Len(ss)] = Len(w)
      /\ \A k \in 1 .. Len(ss) :
           /\ p[k] = p[k - 1] + Len(ss[k])
           /\ \A j \in 1 .. Len(ss[k]) : w[p[k - 1] + j] = ss[k][j]
  BY <1>8, Zenon DEF Spells
<1>10. Len(s) \in Nat /\ Len(w) \in Nat /\ \A n \in 0 .. Len(s) : p[n] \in n .. Len(w)
  <2>1. \A n \in 0 .. Len(ss) : p[n] \in n .. Len(w)
    BY <1>6, <1>8, EndsOrdered
  <2>2. Len(w) \in Nat /\ Len(s) \in Nat
    BY <1>9
  <2> QED
    BY <1>6, <2>1, <2>2
<1>11. r \in Seq(Letters) /\ Len(r) = Len(w) + 1 /\ r[1] = c
         /\ \A i \in 1 .. Len(w) : r[i + 1] = w[i]
  BY <1>2, <1>4, <1>9, Fronted
<1> DEFINE q == [n \in 0 .. Len(s) + 1 |-> IF n = 0 THEN 0 ELSE p[n - 1] + 1]
<1>12. /\ q \in [0 .. Len(s) + 1 -> Nat]
       /\ \A n \in 0 .. Len(s) + 1 : q[n] = IF n = 0 THEN 0 ELSE p[n - 1] + 1
  <2>1. ASSUME NEW n \in 0 .. Len(s) + 1, n # 0 PROVE p[n - 1] + 1 \in Nat
    <3>1. n - 1 \in 0 .. Len(s)
      BY <1>10, <2>1
    <3>2. p[n - 1] \in n - 1 .. Len(w)
      BY <1>10, <3>1
    <3> QED
      BY <1>10, <3>1, <3>2
  <2> QED
    BY <2>1
<1> HIDE DEF q
<1>13. q[0] = 0 /\ q[Len(s) + 1] = Len(r)
  <2>1. Len(s) + 1 # 0 /\ (Len(s) + 1) - 1 = Len(s) /\ Len(s) + 1 \in 0 .. Len(s) + 1
          /\ 0 \in 0 .. Len(s) + 1
    BY <1>10
  <2>2. p[Len(s)] = Len(w)
    BY <1>6, <1>9
  <2> QED
    BY <1>11, <1>12, <2>1, <2>2
<1>14. ASSUME NEW k \in 1 .. Len(s) + 1
       PROVE  /\ q[k] = q[k - 1] + Len(uu[k])
              /\ \A j \in 1 .. Len(uu[k]) : r[q[k - 1] + j] = uu[k][j]
  <2>1. CASE k = 1
    <3>1. uu[k] = Shown(c)
      BY <1>5, <1>7, <2>1
    <3>2. Len(uu[k]) = 1 /\ uu[k][1] = c
      BY <1>2, <3>1, ShownIs
    <3>3. q[k - 1] = 0 /\ q[k] = 1
      <4>1. 1 - 1 = 0 /\ 1 # 0 /\ 1 \in 0 .. Len(s) + 1 /\ 0 \in 0 .. Len(s) + 1
        BY <1>10
      <4> QED
        BY <1>9, <1>12, <2>1, <4>1
    <3>4. ASSUME NEW j \in 1 .. Len(uu[k]) PROVE r[q[k - 1] + j] = uu[k][j]
      <4>1. j = 1
        BY <3>2
      <4> QED
        BY <1>11, <3>2, <3>3, <4>1
    <3> QED
      BY <3>2, <3>3, <3>4
  <2>2. CASE k # 1
    <3>1. PICK i : i = k - 1
      OBVIOUS
    <3>2. i \in 1 .. Len(s) /\ k = i + 1 /\ i - 1 \in 0 .. Len(s) /\ i \in 0 .. Len(s)
          /\ k \in 0 .. Len(s) + 1 /\ i \in 0 .. Len(s) + 1 /\ k # 0 /\ i # 0
      BY <1>10, <2>2, <3>1
    <3>3. uu[k] = ss[i]
      BY <1>5, <1>6, <1>7, <3>2
    <3>4. q[k - 1] = p[i - 1] + 1 /\ q[k] = p[i] + 1
      BY <1>12, <3>1, <3>2
    <3>5. PICK x : x = p[i - 1]
      OBVIOUS
    <3>6. PICK b : b = ss[i]
      OBVIOUS
    <3>7. p[i] = x + Len(b) /\ \A j \in 1 .. Len(b) : w[x + j] = b[j]
      BY <1>6, <1>9, <3>2, <3>5, <3>6
    <3>8. x \in Nat /\ x + Len(b) <= Len(w) /\ Len(b) \in Nat
      <4>1. p[i - 1] \in i - 1 .. Len(w) /\ p[i] \in i .. Len(w)
        BY <1>10, <3>2
      <4>2. b \in Seq(Letters)
        BY <1>6, <3>2, <3>6
      <4>3. Len(b) \in Nat
        BY <4>2
      <4> QED
        BY <1>10, <3>2, <3>5, <3>7, <4>1, <4>3
    <3>9. q[k] = q[k - 1] + Len(b) /\ q[k - 1] = x + 1
      BY <3>4, <3>5, <3>7, <3>8
    <3>10. ASSUME NEW j \in 1 .. Len(b) PROVE r[q[k - 1] + j] = b[j]
      <4>1. PICK y : y = x + j
        OBVIOUS
      <4>2. y \in 1 .. Len(w) /\ (x + 1) + j = y + 1
        BY <1>10, <3>8, <4>1
      <4> QED
        BY <1>11, <3>7, <3>9, <4>1, <4>2
    <3> QED
      BY <3>3, <3>6, <3>9, <3>10
  <2> QED
    BY <2>1, <2>2
<1>15. Spells(r, uu, q, Letters)
  BY <1>7, <1>11, <1>12, <1>13, <1>14 DEF Spells
<1> QED
  BY <1>1, <1>3, <1>4, <1>15 DEF uu

(* The web server finds the name by its link.                              *)
LEMMA RequestLeadsBack ==
  ASSUME NEW s \in Seq(Chars), Listed(s), ~Occurs(Dots, s)
  PROVE  Requested(s) = s
<1>1. PICK w : w = ReplaceAll(url_encode(s), Escape("/"), <<"/">>)
  OBVIOUS
<1>2. PICK p : Spells(w, Showing(s), p, Letters)
  BY <1>1, LinkShows
<1>3. PICK link : link = <<"/">> \o w
  OBVIOUS
<1>4. PICK u : u = <<"/">> \o s
  OBVIOUS
<1>5. PICK q : Spells(link, Showing(u), q, Letters)
  BY <1>2, <1>3, <1>4, FrontShows
<1>6. PICK c : c = "/"
  OBVIOUS
<1>7. c \in Chars /\ c \in Letters /\ "." \in Chars
  BY <1>6 DEF Chars, Letters
<1>8. u \in Seq(Chars) /\ Len(u) = Len(s) + 1 /\ u[1] = c /\ \A i \in 1 .. Len(s) : u[i + 1] = s[i]
  BY <1>4, <1>6, <1>7, Fronted
<1>9. link \in Seq(Letters) /\ Len(link) = Len(w) + 1 /\ link[1] = c
  <2>1. w \in Seq(Letters)
    BY <1>2 DEF Spells
  <2> QED
    BY <1>3, <1>6, <1>7, <2>1, Fronted
<1>10. Len(s) \in Nat /\ Len(w) \in Nat
  <2>1. w \in Seq(Letters)
    BY <1>2 DEF Spells
  <2> QED
    BY <2>1
<1>11. ASSUME Len(s) >= 1 PROVE s[1] \notin {".", "/"}
  <2> SUFFICES ASSUME NEW d \in {".", "/"}, s[1] = d PROVE FALSE
    OBVIOUS
  <2>1. d \in Chars
    BY <1>6, <1>7
  <2>2. startswith(s, <<d>>)
    BY <1>11, <2>1, StartsWithIs
  <2> QED
    BY <2>2 DEF Listed
<1>12. ~Pair(s, ".", ".") /\ ~Pair(s, "/", "/") /\ ~Pair(s, "/", ".")
  <2>1. "." \in Chars /\ "/" \in Chars
    BY <1>6, <1>7
  <2>2. ~Occurs(<<".", ".">>, s) /\ ~Occurs(<<"/", "/">>, s) /\ ~Occurs(<<"/", ".">>, s)
    BY DEF Listed, Dots, Slashes
  <2> QED
    BY <2>1, <2>2, PairOccurs
<1>13. ASSUME NEW a \in {".", "/"}, NEW b \in {".", "/"}, Pair(u, a, b) PROVE Pair(s, a, b)
  <2>1. PICK i \in 1 .. Len(u) - 1 : u[i] = a /\ u[i + 1] = b
    BY <1>13 DEF Pair
  <2>2. i \in 1 .. Len(s)
    BY <1>8, <1>10
  <2>3. s[i] = b
    BY <1>8, <2>1, <2>2
  <2>4. CASE i = 1
    <3>1. Len(s) >= 1
      BY <1>10, <2>2
    <3> QED
      BY <1>11, <2>3, <2>4, <3>1
  <2>5. CASE i # 1
    <3>1. PICK k : k = i - 1
      OBVIOUS
    <3>2. k \in 1 .. Len(s) - 1 /\ k \in 1 .. Len(s) /\ k + 1 = i
      BY <1>10, <2>2, <2>5, <3>1
    <3>3. s[k] = a
      BY <1>8, <2>1, <3>2
    <3> QED
      BY <2>3, <3>2, <3>3 DEF Pair
  <2> QED
    BY <2>4, <2>5
<1>14. ~Pair(link, ".", ".") /\ ~Pair(link, "/", "/") /\ ~Pair(link, "/", ".")
  <2>1. \A a, b \in {".", "/"} : Pair(link, a, b) => Pair(s, a, b)
    BY <1>5, <1>8, <1>13, ShownPair
  <2> QED
    BY <1>12, <2>1
<1>15. safedir(link, <<>>) = link
  BY <1>6, <1>9, <1>10, <1>14, LinkIsSafe
<1>16. url_decode(link) = u
  BY <1>5, <1>8, DecodeShown
<1>17. LeadingSlashes(u) = 1
  <2>1. ~Pair(u, "/", "/")
    BY <1>12, <1>13
  <2>2. Leading(u, c) = 1
    BY <1>6, <1>7, <1>8, <1>10, <2>1, OneLeads
  <2> QED
    BY <1>6, <2>2 DEF LeadingSlashes
<1>18. SubSeq(u, 2, Len(u)) = s
  BY <1>7, <1>8, Unfronted
<1>19. Requested(s) = SubSeq(u, 1 + 1, Len(u))
  BY <1>1, <1>3, <1>15, <1>16, <1>17 DEF Requested
<1> QED
  BY <1>18, <1>19

(* A code is two characters longer than what it stands for.                *)
LEMMA EncodeLength ==
  ASSUME NEW s \in Seq(Chars)
  PROVE  /\ Count(s, DOMAIN Code) \in Nat
         /\ Len(url_encode(s)) = Len(s) + 2 * Count(s, DOMAIN Code)
<1>1. PICK w : w = url_encode(s)
  OBVIOUS
<1>2. PICK p : Spells(w, Stage(s, 0), p, Letters)
  BY <1>1, EncodeIs
<1> DEFINE ss == Stage(s, 0)
<1>3. ss \in Seq(Seq(Letters)) /\ Len(ss) = Len(s) /\ \A k \in 1 .. Len(s) : ss[k] = Coded(s[k])
  <2>1. \A k \in 1 .. Len(s) : ss[k] = IF k <= 0 \/ s[k] # "/" THEN Shown(s[k]) ELSE Coded(s[k])
    BY StageIs
  <2>2. \A k \in 1 .. Len(s) : ~(k <= 0) /\ (s[k] # "/" => Shown(s[k]) = Coded(s[k]))
    BY DEF Shown
  <2>3. \A k \in 1 .. Len(s) : ss[k] = Coded(s[k])
    <3> HIDE DEF ss
    <3> QED
      BY <2>1, <2>2
  <2>4. ss \in Seq(Seq(Letters)) /\ Len(ss) = Len(s)
    BY StageIs
  <2> QED
    BY <2>3, <2>4
<1>4. Spells(w, ss, p, Letters)
  BY <1>2
<1> HIDE DEF ss
<1>5. /\ p[0] = 0 /\ p[Len(s)] = Len(w)
      /\ \A k \in 1 .. Len(s) : p[k] = p[k - 1] + Len(Coded(s[k]))
  <2>1. p[0] = 0 /\ p[Len(ss)] = Len(w) /\ \A k \in 1 .. Len(ss) : p[k] = p[k - 1] + Len(ss[k])
    BY <1>4, Zenon DEF Spells
  <2> QED
    BY <1>3, <2>1
<1>6. Len(s) \in Nat /\ DOMAIN s = 1 .. Len(s) /\ \A k \in 1 .. Len(s) : s[k] \in Chars
  OBVIOUS
<1> DEFINE In(n) == { i \in 1 .. n : s[i] \in DOMAIN Code }
           Right(n) == p[n] = n + 2 * Cardinality(In(n))
           T == { n \in Nat : n <= Len(s) => Right(n) }
<1>a. \A n \in Nat : IsFiniteSet(In(n)) /\ Cardinality(In(n)) \in Nat
  <2> TAKE n \in Nat
  <2>1. In(n) \subseteq 1 .. n
    OBVIOUS
  <2>2. IsFiniteSet(1 .. n)
    BY FS_Interval
  <2> HIDE DEF In
  <2> QED
    BY <2>1, <2>2, FS_Subset, FS_CardinalityType
<1>7. 0 \in T
  <2>1. In(0) = {}
    OBVIOUS
  <2>2. Cardinality({}) = 0
    BY FS_EmptySet
  <2>3. Right(0)
    <3> HIDE DEF In
    <3>1. PICK n : n = Cardinality(In(0))
      OBVIOUS
    <3>2. n = 0
      BY <2>1, <2>2, <3>1, Zenon
    <3> QED
      BY <1>5, <3>1, <3>2
  <2> HIDE DEF Right
  <2> QED
    BY <2>3
<1>8. ASSUME NEW n \in Nat, n \in T PROVE n + 1 \in T
  <2> SUFFICES ASSUME n + 1 <= Len(s) PROVE Right(n + 1)
    <3> HIDE DEF Right
    <3> QED
      OBVIOUS
  <2>1. PICK k : k = n + 1
    OBVIOUS
  <2>2. k \in 1 .. Len(s) /\ k - 1 = n
    BY <1>6, <2>1
  <2>a. Right(n)
    <3> HIDE DEF Right
    <3> QED
      BY <1>6, <1>8
  <2>3. Cardinality(In(n)) \in Nat /\ p[n] = n + 2 * Cardinality(In(n))
    <3> HIDE DEF In
    <3> QED
      BY <1>a, <2>a
  <2>4. p[k] = p[n] + Len(Coded(s[k])) /\ s[k] \in Chars
    BY <1>5, <1>6, <2>2
  <2>5. CASE s[k] \in DOMAIN Code
    <3>1. In(k) = In(n) \cup {k} /\ k \notin In(n)
      BY <2>1, <2>2, <2>5
    <3>2. Len(Coded(s[k])) = 3
      BY <2>4, <2>5, CodedIs
    <3> HIDE DEF In
    <3>3. Cardinality(In(k)) = Cardinality(In(n)) + 1
      BY <1>a, <3>1, FS_AddElement
    <3> QED
      BY <2>1, <2>3, <2>4, <3>2, <3>3
  <2>6. CASE s[k] \notin DOMAIN Code
    <3>1. In(k) = In(n)
      BY <2>1, <2>2, <2>6
    <3>2. Len(Coded(s[k])) = 1
      BY <2>4, <2>6, CodedIs
    <3> HIDE DEF In
    <3> QED
      BY <2>1, <2>3, <2>4, <3>1, <3>2
  <2> QED
    BY <2>5, <2>6
<1> HIDE DEF T, Right
<1>9. Len(s) \in T
  BY <1>6, <1>7, <1>8, Induct
<1>10. Count(s, DOMAIN Code) = Cardinality(In(Len(s)))
  BY <1>6 DEF Count
<1>11. Right(Len(s)) /\ Cardinality(In(Len(s))) \in Nat
  <2> HIDE DEF In
  <2> QED
    BY <1>a, <1>6, <1>9 DEF T
<1> HIDE DEF In
<1> QED
  BY <1>1, <1>5, <1>6, <1>10, <1>11 DEF Right

(* What is escaped and what is kept, capitals aside, count twice.          *)
LEMMA RoomIsEnough ==
  ASSUME NEW s \in Seq(Chars), Count(s, DOMAIN Code) <= Count(s, OtherKept)
  PROVE  Len(url_encode(s)) + 1 <= EncodeRoom(s)
<1> DEFINE A == { i \in DOMAIN s : s[i] \in DOMAIN Code }
           B == { i \in DOMAIN s : s[i] \in OtherKept }
           R == { i \in DOMAIN s : s[i] \notin Capital }
<1>1. DOMAIN s = 1 .. Len(s) /\ Len(s) \in Nat /\ \A i \in DOMAIN s : s[i] \in Chars
  OBVIOUS
<1>2. A \cap B = {} /\ A \cup B = R
  <2>1. \A c \in Chars : c \notin Capital <=> c \in DOMAIN Code \/ c \in OtherKept
    BY CodesAre DEF Chars, Capital, OtherKept
  <2>2. \A c \in Chars : ~(c \in DOMAIN Code /\ c \in OtherKept)
    BY CodesAre DEF Chars, OtherKept
  <2> QED
    BY <1>1, <2>1, <2>2
<1>3. IsFiniteSet(A) /\ IsFiniteSet(B)
  <2>1. IsFiniteSet(1 .. Len(s))
    BY <1>1, FS_Interval
  <2>2. A \subseteq 1 .. Len(s) /\ B \subseteq 1 .. Len(s)
    BY <1>1
  <2> HIDE DEF A, B
  <2> QED
    BY <2>1, <2>2, FS_Subset
<1>4. Count(s, DOMAIN Code) = Cardinality(A) /\ Count(s, OtherKept) = Cardinality(B)
      /\ EncodeRoom(s) = 1 + Len(s) + Cardinality(R)
  BY DEF Count, EncodeRoom
<1> HIDE DEF A, B, R
<1>5. Cardinality(R) = Cardinality(A) + Cardinality(B)
  <2>1. Cardinality(A \cup B) = Cardinality(A) + Cardinality(B) - Cardinality(A \cap B)
    BY <1>3, FS_Union
  <2>2. Cardinality({}) = 0
    BY FS_EmptySet
  <2>3. Cardinality(A) \in Nat /\ Cardinality(B) \in Nat
    BY <1>3, FS_CardinalityType
  <2>4. Cardinality(R) = Cardinality(A) + Cardinality(B) - Cardinality({})
    BY <1>2, <2>1, Zenon
  <2> QED
    BY <2>2, <2>3, <2>4
<1>6. Cardinality(A) \in Nat /\ Cardinality(B) \in Nat
  BY <1>3, FS_CardinalityType
<1>7. Len(url_encode(s)) = Len(s) + 2 * Cardinality(A)
  BY <1>4, EncodeLength
<1> QED
  BY <1>1, <1>4, <1>5, <1>6, <1>7

LEMMA LinkBack == TextTyped => LinkLeadsBack
<1> SUFFICES ASSUME TextTyped, use = "name"
             PROVE  /\ Listed(text) /\ ~Occurs(Dots, text) => Requested(text) = text
                    /\ Count(text, DOMAIN Code) <= Count(text, OtherKept)
                         => Len(url_encode(text)) + 1 <= EncodeRoom(text)
  BY DEF LinkLeadsBack
<1>1. text \in Seq(Chars)
  <2>1. Alphabet["name"] \subseteq Chars
    BY TextAssumption DEF TextTyped, Chars
  <2>2. text \in Seq(Alphabet["name"])
    BY DEF TextTyped
  <2> QED
    BY <2>1, <2>2
<1> QED
  BY <1>1, RequestLeadsBack, RoomIsEnough

(* The link the web server's listing makes of a name leads back to it, and *)
(* url_encode writes no more than it allocates, for names of any length    *)
(* (string.c:112-193, httpd.vala:18-21, 102-119).                          *)
THEOREM LinksLeadBack == TextSpec => []LinkLeadsBack
BY TextInvariance, LinkBack, PTL
=============================================================================
