--------------------------- MODULE ResolveProofs ---------------------------
(***************************************************************************)
(* Proofs about the dependency resolver, for every set of names and every  *)
(* world: the recursion ends, it fails only for a reason, the list it      *)
(* returns is exact, and dependencies come before dependents.  Reach and   *)
(* array_get are recursive functions; what they compute is proved by       *)
(* induction on the numbers, which are well-founded.                       *)
(***************************************************************************)
EXTENDS Resolve, FiniteSetTheorems, WellFoundedInduction, TLAPS

(* The natural numbers are well-founded: every set of them has a least.    *)
LEMMA LeastIn == ASSUME NEW S, S \subseteq Nat, S # {} PROVE \E x \in S : \A y \in S : x <= y
<1> DEFINE R == OpToRel(<, Nat)
<1>1. IsWellFoundedOn(R, Nat)
  BY NatLessThanWellFounded
<1>2. \A x, y \in Nat : x < y => <<x, y>> \in R
  BY DEF OpToRel
<1> HIDE DEF R
<1>3. PICK x \in S : \A y \in S : ~(<<y, x>> \in R)
  BY <1>1, WFMin
<1>4. \A y \in S : x \in Nat /\ y \in Nat /\ ~(y < x)
  BY <1>2, <1>3
<1> QED
  BY <1>4

(* So one with 0 and the successor of each of its elements is all of them. *)
LEMMA Induct ==
  ASSUME NEW T, 0 \in T, \A n \in Nat : n \in T => n + 1 \in T
  PROVE  Nat \subseteq T
<1> DEFINE B == { n \in Nat : n \notin T }
<1>1. SUFFICES ASSUME B # {} PROVE FALSE
  OBVIOUS
<1>2. PICK x \in B : \A y \in B : x <= y
  BY <1>1, LeastIn
<1>3. x # 0 /\ x - 1 \in Nat /\ x - 1 \notin B
  BY <1>2
<1>4. x - 1 \in T /\ x = (x - 1) + 1
  BY <1>3
<1> QED
  BY <1>2, <1>3, <1>4

Row(a) ==
  /\ a.size \in Nat /\ a.removed = 0
  /\ \E c \in Nat : c > a.size /\ DOMAIN a.data = 0 .. c - 1
  /\ a.data[0] = NULL

LEMMA NewRow == Row(array_new) /\ array_new.size = 0
<1>1. Chunk \in Nat /\ Chunk > 0
  BY ArrayAssumption
<1> QED
  BY <1>1 DEF Row, array_new

(* What is added stands behind the rest, also when the table has grown.    *)
LEMMA AddRow ==
  ASSUME NEW a, Row(a), NEW v
  PROVE  /\ Row(array_add(a, v))
         /\ array_add(a, v).size = a.size + 1
         /\ array_add(a, v).data[a.size + 1] = v
         /\ \A i \in 0 .. a.size : array_add(a, v).data[i] = a.data[i]
<1>1. a.size \in Nat /\ a.removed = 0 /\ a.data[0] = NULL
  BY DEF Row
<1>2. PICK c \in Nat : c > a.size /\ DOMAIN a.data = 0 .. c - 1
  BY DEF Row
<1>3. Capacity(a) = c /\ Chunk \in Nat /\ Chunk > 0
  BY <1>2, FS_Interval, ArrayAssumption DEF Capacity
<1> DEFINE g == Grown(a)
<1>4. PICK d \in Nat : d > a.size + 1 /\ DOMAIN g = 0 .. d - 1 /\ \A i \in 0 .. a.size : g[i] = a.data[i]
  <2>1. CASE a.size >= c - 1
    <3>1. g = [i \in 0 .. c + Chunk - 1 |-> IF i \in 0 .. c - 1 THEN a.data[i] ELSE NULL]
      BY <1>2, <1>3, <2>1 DEF Grown, FillLimit, Slots
    <3>2. c + Chunk \in Nat /\ c + Chunk > a.size + 1
      BY <1>1, <1>2, <1>3
    <3>3. \A i \in 0 .. a.size : i \in 0 .. c - 1 /\ i \in 0 .. c + Chunk - 1
      BY <1>1, <1>2, <1>3
    <3>4. \A i \in 0 .. a.size : g[i] = a.data[i]
      BY <3>1, <3>3
    <3>5. DOMAIN g = 0 .. (c + Chunk) - 1
      <4>1. DOMAIN g = 0 .. c + Chunk - 1
        BY <3>1
      <4>2. c + Chunk - 1 = (c + Chunk) - 1
        BY <1>3
      <4> QED
        BY <4>1, <4>2
    <3> HIDE DEF g
    <3> QED
      BY <3>2, <3>4, <3>5
  <2>2. CASE ~(a.size >= c - 1)
    <3>1. g = a.data
      BY <1>3, <2>2 DEF Grown, FillLimit
    <3> QED
      BY <1>1, <1>2, <2>2, <3>1
  <2> QED
    BY <2>1, <2>2
<1> HIDE DEF g
<1>5. array_add(a, v) =
        [data |-> [g EXCEPT ![a.size + 1] = v], size |-> a.size + 1, removed |-> 0]
  BY <1>1 DEF array_add, g
<1> DEFINE b == array_add(a, v)
<1>6. b.size = a.size + 1 /\ b.removed = 0 /\ b.data = [g EXCEPT ![a.size + 1] = v]
  BY <1>5
<1> HIDE DEF b
<1>7. DOMAIN b.data = 0 .. d - 1 /\ b.data[a.size + 1] = v /\ \A i \in 0 .. a.size : b.data[i] = a.data[i]
  BY <1>1, <1>4, <1>6
<1>8. Row(b)
  BY <1>1, <1>4, <1>6, <1>7 DEF Row
<1> QED
  BY <1>6, <1>7, <1>8 DEF b

(* array_has looks at all but the newest.                                  *)
LEMMA HasRow ==
  ASSUME NEW a, Row(a), NEW v, v # NULL
  PROVE  array_has(a, v) <=> \E i \in 1 .. a.size - 1 : a.data[i] = v
<1>1. /\ a.size \in Nat /\ Used(a) = a.size
      /\ \E c \in Nat : c > a.size /\ DOMAIN a.data = 0 .. c - 1
      /\ a.data[0] = NULL
  BY DEF Row, Used
<1> QED
  BY <1>1 DEF array_has, Slots


LEMMA Onto == ASSUME NEW S, IsFiniteSet(S) PROVE SetToSeq(S) \in Seq(S) /\ Range(SetToSeq(S)) = S
<1>1. Cardinality(S) \in Nat /\ ExistsBijection(1 .. Cardinality(S), S)
  BY FS_CardinalityType
<1>2. PICK f : f \in Bijection(1 .. Cardinality(S), S)
  BY <1>1 DEF ExistsBijection
<1>3. f \in [1 .. Cardinality(S) -> S] /\ IsInjective(f)
  BY <1>2 DEF Bijection, Injection, Surjection, IsInjective
<1> DEFINE s == SetToSeq(S)
<1>4. s \in [1 .. Cardinality(S) -> S] /\ IsInjective(s)
  BY <1>3, Zenon DEF SetToSeq
<1> HIDE DEF s
<1>5. s \in Seq(S)
  BY <1>1, <1>4
<1>6. s \in Injection(1 .. Cardinality(S), S)
  BY <1>4 DEF Injection, IsInjective
<1>7. IsFiniteSet(1 .. Cardinality(S)) /\ Cardinality(1 .. Cardinality(S)) = Cardinality(S)
  BY <1>1, FS_Interval
<1>8. s \in Surjection(1 .. Cardinality(S), S)
  BY <1>6, <1>7, FS_Injection
<1>9. \A x \in S : \E i \in DOMAIN s : s[i] = x
  BY <1>4, <1>8 DEF Surjection
<1>10. Range(s) = S
  BY <1>4, <1>9 DEF Range
<1> QED
  BY <1>5, <1>10 DEF s

(* array_get copies the elements of such an array, in order.               *)
LEMMA GetRow ==
  ASSUME NEW a, Row(a), \A i \in 1 .. a.size : a.data[i] # NULL
  PROVE  array_get(a) = [j \in 1 .. a.size |-> a.data[j]]
<1>1. a.size \in Nat /\ Used(a) = a.size /\ a.data[0] = NULL
  BY DEF Row, Used
<1>2. PICK c \in Nat : c > a.size /\ DOMAIN a.data = 0 .. c - 1
  BY DEF Row
<1>3. Capacity(a) = c
  BY <1>2, FS_Interval DEF Capacity
<1> DEFINE most(i) == IF i <= 0 THEN 0 ELSE IF i <= a.size THEN i ELSE a.size
           head(n) == [j \in 1 .. n |-> a.data[j]]
           next(f, i) == IF i = -1 THEN <<>>
                         ELSE IF i > Used(a) \/ a.data[i] = NULL THEN f[i - 1]
                         ELSE Append(f[i - 1], a.data[i])
           g == [i \in -1 .. c - 1 |-> head(most(i))]
<1>4. \A n \in Nat : head(n) \in Seq({ a.data[j] : j \in 1 .. n }) /\ Len(head(n)) = n
  OBVIOUS
<1>5. \A n \in Nat : head(n + 1) = Append(head(n), a.data[n + 1])
  <2> SUFFICES ASSUME NEW n \in Nat PROVE head(n + 1) = Append(head(n), a.data[n + 1])
    OBVIOUS
  <2>1. head(n) \in Seq({ a.data[j] : j \in 1 .. n + 1 }) /\ head(n + 1) \in Seq({ a.data[j] : j \in 1 .. n + 1 })
    OBVIOUS
  <2> QED
    BY <2>1
<1>6. head(0) = <<>>
  OBVIOUS
<1>7. \A f : (\A i \in -1 .. c - 1 : f[i] = next(f, i)) => \A i \in -1 .. c - 1 : f[i] = head(most(i))
  <2> SUFFICES ASSUME NEW f, \A i \in -1 .. c - 1 : f[i] = next(f, i)
               PROVE  \A i \in -1 .. c - 1 : f[i] = head(most(i))
    OBVIOUS
  <2> DEFINE T == { n \in Nat : n <= c => f[n - 1] = head(most(n - 1)) }
  <2>1. 0 \in T
    BY <1>6
  <2>2. ASSUME NEW n \in Nat, n \in T PROVE n + 1 \in T
    <3>0. (n + 1) - 1 = n
      OBVIOUS
    <3> SUFFICES ASSUME n + 1 <= c PROVE f[n] = head(most(n))
      <4> HIDE DEF head, most, next
      <4> QED
        BY <3>0
    <3>1. n \in -1 .. c - 1 /\ n # -1 /\ f[n - 1] = head(most(n - 1)) /\ f[n] = next(f, n)
      BY <1>2, <2>2
    <3>2. CASE n = 0
      BY <1>1, <1>6, <3>1, <3>2
    <3>3. CASE n # 0 /\ n <= a.size
      <4>1. most(n - 1) = n - 1 /\ most(n) = n /\ n - 1 \in Nat /\ (n - 1) + 1 = n
        BY <1>1, <3>3
      <4>2. f[n] = Append(f[n - 1], a.data[n])
        BY <1>1, <3>1, <3>3
      <4>3. head((n - 1) + 1) = Append(head(n - 1), a.data[(n - 1) + 1])
        BY <1>5, <4>1
      <4> HIDE DEF most, head
      <4> QED
        BY <3>1, <4>1, <4>2, <4>3
    <3>4. CASE n # 0 /\ ~(n <= a.size)
      <4>1. most(n - 1) = a.size /\ most(n) = a.size
        BY <1>1, <3>4
      <4>2. f[n] = f[n - 1]
        BY <1>1, <3>1, <3>4
      <4> HIDE DEF most, head
      <4> QED
        BY <3>1, <4>1, <4>2
    <3> QED
      BY <3>2, <3>3, <3>4
  <2> HIDE DEF T
  <2>3. Nat \subseteq T
    BY <2>1, <2>2, Induct
  <2>4. ASSUME NEW i \in -1 .. c - 1 PROVE f[i] = head(most(i))
    <3>1. i + 1 \in T /\ i + 1 \in Nat /\ i + 1 <= c /\ (i + 1) - 1 = i
      BY <1>2, <2>3, <2>4
    <3> HIDE DEF head, most
    <3> QED
      BY <3>1 DEF T
  <2> QED
    BY <2>4
<1>8. \A i \in -1 .. c - 1 : g[i] = next(g, i)
  <2> SUFFICES ASSUME NEW i \in -1 .. c - 1 PROVE g[i] = next(g, i)
    OBVIOUS
  <2>1. CASE i = -1
    BY <1>6, <2>1
  <2>2. CASE i = 0
    BY <1>1, <1>2, <1>6, <2>2
  <2>3. CASE i > 0 /\ i <= a.size
    <3>1. most(i - 1) = i - 1 /\ most(i) = i /\ i - 1 \in Nat /\ (i - 1) + 1 = i /\ i - 1 \in -1 .. c - 1
      BY <1>1, <1>2, <2>3
    <3>2. head((i - 1) + 1) = Append(head(i - 1), a.data[(i - 1) + 1])
      BY <1>5, <3>1
    <3>3. next(g, i) = Append(g[i - 1], a.data[i])
      <4> HIDE DEF g
      <4> QED
        BY <1>1, <2>3
    <3>4. g[i] = head(most(i)) /\ g[i - 1] = head(most(i - 1))
      <4> HIDE DEF head, most
      <4> QED
        BY <3>1
    <3> HIDE DEF head, most, next, g
    <3> QED
      BY <3>1, <3>2, <3>3, <3>4
  <2>4. CASE i > a.size
    <3>1. most(i - 1) = a.size /\ most(i) = a.size /\ i - 1 \in -1 .. c - 1
      BY <1>1, <1>2, <2>4
    <3>2. g[i] = head(most(i)) /\ g[i - 1] = head(most(i - 1))
      <4> HIDE DEF head, most
      <4> QED
        BY <3>1
    <3>3. next(g, i) = g[i - 1]
      <4> HIDE DEF g
      <4> QED
        BY <1>1, <2>4
    <3> HIDE DEF head, most, next, g
    <3> QED
      BY <3>1, <3>2, <3>3
  <2> QED
    BY <1>1, <2>1, <2>2, <2>3, <2>4
<1>9. \E f : f = [i \in -1 .. c - 1 |-> next(f, i)]
  <2>1. g = [i \in -1 .. c - 1 |-> g[i]]
    BY Zenon
  <2>2. g = [i \in -1 .. c - 1 |-> next(g, i)]
    <3> HIDE DEF g, next
    <3> QED
      BY <1>8, <2>1
  <2> QED
    BY <2>2
<1> DEFINE ff == CHOOSE f : f = [i \in -1 .. c - 1 |-> next(f, i)]
<1>10. ff = [i \in -1 .. c - 1 |-> next(ff, i)]
  <2> HIDE DEF next
  <2> QED
    BY <1>9, Zenon
<1>11. array_get(a) = ff[c - 1]
  BY <1>3 DEF array_get, Visited
<1> HIDE DEF ff
<1>12. \A i \in -1 .. c - 1 : ff[i] = next(ff, i)
  <2> HIDE DEF next
  <2> QED
    BY <1>10
<1>13. ff[c - 1] = head(most(c - 1))
  <2>1. c - 1 \in -1 .. c - 1
    BY <1>2
  <2> HIDE DEF head, most, next
  <2> QED
    BY <1>7, <1>12, <2>1
<1>14. most(c - 1) = a.size
  BY <1>1, <1>2
<1> QED
  BY <1>11, <1>13, <1>14

----------------------------------------------------------------------------
Wider(S) == S \cup UNION { LeadsTo(n) : n \in S }

Closed(S) == \A n \in S : LeadsTo(n) \subseteq S

(* The sets upto of Reach exist.                                           *)
LEMMA Chain ==
  ASSUME NEW S
  PROVE  \A m \in Nat : \E f : f = [k \in 0 .. m |-> IF k = 0 THEN S ELSE Wider(f[k - 1])]
<1> DEFINE T == { m \in Nat : \E f : f = [k \in 0 .. m |-> IF k = 0 THEN S ELSE Wider(f[k - 1])] }
<1>1. 0 \in T
  <2> DEFINE f == [k \in {0} |-> S]
  <2>1. f = [k \in 0 .. 0 |-> IF k = 0 THEN S ELSE Wider(f[k - 1])]
    OBVIOUS
  <2> QED
    BY <2>1
<1>2. ASSUME NEW m \in Nat, m \in T PROVE m + 1 \in T
  <2>1. PICK f : f = [k \in 0 .. m |-> IF k = 0 THEN S ELSE Wider(f[k - 1])]
    BY <1>2
  <2> DEFINE g == [k \in 0 .. m + 1 |-> IF k <= m THEN f[k] ELSE Wider(f[m])]
  <2>2. \A k \in 0 .. m : g[k] = f[k] /\ f[k] = IF k = 0 THEN S ELSE Wider(f[k - 1])
    BY <2>1
  <2>3. g[m + 1] = Wider(f[m]) /\ g[m] = f[m] /\ DOMAIN g = 0 .. m + 1
    <3>1. m + 1 \in 0 .. m + 1 /\ ~(m + 1 <= m) /\ m \in 0 .. m
      OBVIOUS
    <3> QED
      BY <2>2, <3>1
  <2>4. g = [k \in 0 .. m + 1 |-> g[k]]
    BY Zenon
  <2> HIDE DEF g
  <2>5. \A k \in 0 .. m + 1 : g[k] = IF k = 0 THEN S ELSE Wider(g[k - 1])
    <3> TAKE k \in 0 .. m + 1
    <3>1. CASE k = m + 1
      <4>1. k # 0 /\ k - 1 = m
        BY <3>1
      <4> QED
        BY <2>3, <3>1, <4>1
    <3>2. CASE k # m + 1 /\ k # 0
      <4>1. k \in 0 .. m /\ k - 1 \in 0 .. m
        BY <3>2
      <4> QED
        BY <2>2, <3>2, <4>1
    <3>3. CASE k = 0
      BY <2>2, <3>3
    <3> QED
      BY <3>1, <3>2, <3>3
  <2>6. g = [k \in 0 .. m + 1 |-> IF k = 0 THEN S ELSE Wider(g[k - 1])]
    BY <2>4, <2>5
  <2> QED
    BY <2>6
<1> HIDE DEF T
<1>3. Nat \subseteq T
  BY <1>1, <1>2, Induct
<1> QED
  BY <1>3 DEF T

LEMMA ReachIs ==
  ASSUME NEW S
  PROVE  \E f : /\ \A k \in 0 .. Cardinality(Name) : f[k] = IF k = 0 THEN S ELSE Wider(f[k - 1])
                /\ Reach(S) = f[Cardinality(Name)]
<1> DEFINE N == Cardinality(Name)
           next(f, k) == IF k = 0 THEN S ELSE f[k - 1] \cup UNION { LeadsTo(n) : n \in f[k - 1] }
           ff == CHOOSE f : f = [k \in 0 .. N |-> next(f, k)]
<1>1. Reach(S) = ff[N]
  BY DEF Reach
<1>2. N \in Nat
  BY FS_CardinalityType, ResolveAssumption
<1>3. \E f : f = [k \in 0 .. N |-> next(f, k)]
  <2> HIDE DEF N
  <2>1. PICK f : f = [k \in 0 .. N |-> IF k = 0 THEN S ELSE Wider(f[k - 1])]
    BY <1>2, Chain
  <2>2. f = [k \in 0 .. N |-> next(f, k)]
    BY <2>1 DEF Wider
  <2> QED
    BY <2>2
<1>4. ff = [k \in 0 .. N |-> next(ff, k)]
  <2> HIDE DEF next
  <2> QED
    BY <1>3, Zenon
<1> HIDE DEF ff
<1>5. \A k \in 0 .. N : ff[k] = next(ff, k)
  <2> HIDE DEF next, N
  <2> QED
    BY <1>4
<1>6. \A k \in 0 .. N : ff[k] = IF k = 0 THEN S ELSE Wider(ff[k - 1])
  BY <1>5 DEF Wider
<1> QED
  BY <1>1, <1>6

LEMMA WiderClosed ==
  ASSUME NEW S
  PROVE  S \subseteq Wider(S) /\ (Closed(S) => Wider(S) = S) /\ (Wider(S) = S => Closed(S))
<1>1. S \subseteq Wider(S)
  BY DEF Wider
<1>2. ASSUME Closed(S) PROVE Wider(S) = S
  BY <1>2 DEF Closed, Wider
<1>3. ASSUME Wider(S) = S PROVE Closed(S)
  BY <1>3 DEF Closed, Wider
<1> QED
  BY <1>1, <1>2, <1>3

(* Reach is the closure under LeadsTo: as many widenings as there are      *)
(* names are enough, since each adds a name or is the last.                *)
LEMMA ReachCloses ==
  ASSUME NEW S \in SUBSET Name, \A n \in Name : LeadsTo(n) \subseteq Name
  PROVE  S \subseteq Reach(S) /\ Reach(S) \subseteq Name /\ Closed(Reach(S))
<1> DEFINE N == Cardinality(Name)
<1>1. N \in Nat /\ IsFiniteSet(Name)
  BY FS_CardinalityType, ResolveAssumption
<1>2. PICK f : /\ \A k \in 0 .. N : f[k] = IF k = 0 THEN S ELSE Wider(f[k - 1])
               /\ Reach(S) = f[N]
  BY ReachIs
<1> HIDE DEF N
<1> DEFINE T == { k \in Nat : k <= N =>
                    /\ S \subseteq f[k] /\ f[k] \subseteq Name
                    /\ Closed(f[k]) \/ Cardinality(f[k]) >= k }
<1>3. 0 \in T
  <2>1. f[0] = S
    BY <1>1, <1>2
  <2>2. IsFiniteSet(S)
    BY <1>1, FS_Subset
  <2>3. Cardinality(S) \in Nat
    BY <2>2, FS_CardinalityType
  <2> QED
    BY <2>1, <2>3
<1>4. ASSUME NEW k \in Nat, k \in T PROVE k + 1 \in T
  <2> SUFFICES ASSUME k + 1 <= N
               PROVE  /\ S \subseteq f[k + 1] /\ f[k + 1] \subseteq Name
                      /\ Closed(f[k + 1]) \/ Cardinality(f[k + 1]) >= k + 1
    OBVIOUS
  <2>1. /\ S \subseteq f[k] /\ f[k] \subseteq Name
        /\ Closed(f[k]) \/ Cardinality(f[k]) >= k
    BY <1>1, <1>4
  <2>2. f[k + 1] = Wider(f[k])
    <3>1. k + 1 \in 0 .. N /\ k + 1 # 0 /\ (k + 1) - 1 = k
      BY <1>1
    <3> QED
      BY <1>2, <3>1
  <2>3. f[k] \subseteq f[k + 1] /\ f[k + 1] \subseteq Name
    BY <2>1, <2>2 DEF Wider
  <2>4. CASE f[k + 1] = f[k]
    BY <2>1, <2>2, <2>4, WiderClosed
  <2>5. CASE f[k + 1] # f[k]
    <3>1. ~Closed(f[k])
      BY <2>2, <2>5, WiderClosed
    <3>2. IsFiniteSet(f[k + 1]) /\ IsFiniteSet(f[k])
      BY <1>1, <2>1, <2>3, FS_Subset
    <3>3. Cardinality(f[k]) <= Cardinality(f[k + 1]) /\ (Cardinality(f[k]) = Cardinality(f[k + 1]) => f[k] = f[k + 1])
      BY <2>3, <3>2, FS_Subset
    <3>4. Cardinality(f[k]) \in Nat /\ Cardinality(f[k + 1]) \in Nat
      BY <3>2, FS_CardinalityType
    <3> QED
      BY <2>1, <2>3, <2>5, <3>1, <3>3, <3>4
  <2> QED
    BY <2>4, <2>5
<1> HIDE DEF T
<1>5. Nat \subseteq T
  BY <1>3, <1>4, Induct
<1>6. /\ S \subseteq f[N] /\ f[N] \subseteq Name
      /\ Closed(f[N]) \/ Cardinality(f[N]) >= N
  BY <1>1, <1>5 DEF T
<1>7. ASSUME Cardinality(f[N]) >= N PROVE f[N] = Name
  <2>1. IsFiniteSet(f[N]) /\ Cardinality(f[N]) <= Cardinality(Name) /\ (Cardinality(f[N]) = Cardinality(Name) => f[N] = Name)
    BY <1>1, <1>6, FS_Subset
  <2>2. Cardinality(f[N]) \in Nat
    BY <2>1, FS_CardinalityType
  <2> QED
    BY <1>1, <1>7, <2>1, <2>2 DEF N
<1>8. Closed(Name)
  BY DEF Closed
<1> QED
  BY <1>2, <1>6, <1>7, <1>8

(* And it is the least closed set.                                         *)
LEMMA ReachLeast ==
  ASSUME NEW S, NEW C, S \subseteq C, Closed(C)
  PROVE  Reach(S) \subseteq C
<1> DEFINE N == Cardinality(Name)
<1>1. N \in Nat
  BY FS_CardinalityType, ResolveAssumption
<1>2. PICK f : /\ \A k \in 0 .. N : f[k] = IF k = 0 THEN S ELSE Wider(f[k - 1])
               /\ Reach(S) = f[N]
  BY ReachIs
<1> HIDE DEF N
<1> DEFINE T == { k \in Nat : k <= N => f[k] \subseteq C }
<1>3. 0 \in T
  BY <1>1, <1>2
<1>4. ASSUME NEW k \in Nat, k \in T PROVE k + 1 \in T
  <2> SUFFICES ASSUME k + 1 <= N PROVE f[k + 1] \subseteq C
    OBVIOUS
  <2>1. k + 1 \in 0 .. N /\ k + 1 # 0 /\ (k + 1) - 1 = k /\ f[k] \subseteq C
    BY <1>1, <1>4
  <2>2. f[k + 1] = Wider(f[k])
    BY <1>2, <2>1
  <2> QED
    BY <2>1, <2>2 DEF Wider, Closed
<1> HIDE DEF T
<1>5. Nat \subseteq T
  BY <1>3, <1>4, Induct
<1> QED
  BY <1>1, <1>2, <1>5 DEF T

----------------------------------------------------------------------------
FrameSet == [names : Seq(Name), i : Nat, pkg : Name \cup {NULL}]

Elements(a) == { a.data[i] : i \in 1 .. a.size }

RowOfNames(a) == Row(a) /\ Elements(a) \subseteq Name

(* The frames of the stack, what the two lists hold, and that the depth    *)
(* is at most the number of names that were cached.                        *)
RInv ==
  /\ world \in Worlds
  /\ stack \in Seq(FrameSet)
  /\ \A k \in 1 .. Len(stack) : stack[k].i \in 1 .. Len(stack[k].names) + 1
  /\ RowOfNames(cache_list) /\ RowOfNames(need_install)
  /\ depth \in Int /\ depth <= cache_list.size
  /\ errors \in BOOLEAN
  /\ status \in {"running", "done", "failed"}
  /\ status # "running" => stack = <<>>

LEMMA WorldType ==
  ASSUME world \in Worlds
  PROVE  /\ world.parts \in [Name -> Seq(Name)] /\ world.request \in Seq(Name)
         /\ world.kind \in [Name -> {"package", "file", "set", "or"}]
         /\ world.installed \subseteq Name /\ world.available \subseteq Name
         /\ world.mode \in {"install", "remove"} /\ world.max_depth \in Nat
         /\ \A n \in Name : world.parts[n] \in Seq(Name) /\ Parts(n) \subseteq Name
         /\ IsFiniteSet(world.installed)
<1>1. world \in World
  BY ResolveAssumption
<1>2. /\ world.parts \in [Name -> Seq(Name)] /\ world.request \in Seq(Name)
      /\ world.kind \in [Name -> {"package", "file", "set", "or"}]
      /\ world.installed \subseteq Name /\ world.available \subseteq Name
      /\ world.mode \in {"install", "remove"} /\ world.max_depth \in Nat
  BY <1>1 DEF World
<1>3. \A n \in Name : world.parts[n] \in Seq(Name)
  BY <1>2
<1>4. \A n \in Name : Parts(n) \subseteq Name
  BY <1>3 DEF Parts, Range
<1>5. IsFiniteSet(world.installed)
  BY <1>2, FS_Subset, ResolveAssumption
<1> QED
  BY <1>2, <1>3, <1>4, <1>5

(* The first alternative that is installed, or in a repository, exists     *)
(* where it is asked for.                                                  *)
LEMMA FirstInType ==
  ASSUME NEW names \in Seq(Name), NEW S, Range(names) \cap S # {}
  PROVE  FirstIn(names, S) \in Range(names) \cap S
<1> DEFINE I == { i \in DOMAIN names : names[i] \in S }
<1>1. DOMAIN names = 1 .. Len(names) /\ Len(names) \in Nat
  OBVIOUS
<1>2. I # {} /\ I \subseteq Nat
  BY <1>1 DEF Range
<1>3. PICK i \in I : \A y \in I : i <= y
  BY <1>2, LeastIn
<1>4. i \in DOMAIN names /\ names[i] \in S /\ \A h \in 1 .. i - 1 : names[h] \notin S
  BY <1>1, <1>3
<1> DEFINE c == CHOOSE k \in DOMAIN names : names[k] \in S /\ \A h \in 1 .. k - 1 : names[h] \notin S
<1>5. c \in DOMAIN names /\ names[c] \in S
  BY <1>4
<1> HIDE DEF c
<1>6. names[c] \in Range(names) \cap S
  BY <1>5 DEF Range
<1> QED
  BY <1>6 DEF FirstIn, c

(* An alternative stands for one of its packages.                          *)
LEMMA OrType ==
  ASSUME world \in Worlds, NEW n \in Name, world.kind[n] = "or"
  PROVE  OrChoice(n) \in Parts(n) /\ IsPackage(world, OrChoice(n))
<1>1. world.parts[n] \in Seq(Name) /\ world.parts[n] # <<>> /\ \A m \in Parts(n) : IsPackage(world, m)
  BY WorldType, ResolveAssumption DEF Parts
<1>2. 1 \in DOMAIN world.parts[n]
  BY <1>1
<1>3. world.parts[n][1] \in Parts(n)
  BY <1>2 DEF Parts, Range
<1>4. n \notin world.installed
  BY ResolveAssumption DEF IsPackage
<1>5. CASE Installed(n)
  <2>1. Range(world.parts[n]) \cap world.installed # {}
    BY <1>4, <1>5 DEF Installed, Parts
  <2>2. FirstIn(world.parts[n], world.installed) \in Parts(n)
    BY <1>1, <2>1, FirstInType DEF Parts
  <2> QED
    BY <1>1, <1>5, <2>2 DEF OrChoice
<1>6. CASE ~Installed(n) /\ Parts(n) \cap world.available # {}
  <2>1. FirstIn(world.parts[n], world.available) \in Parts(n)
    BY <1>1, <1>6, FirstInType DEF Parts
  <2> QED
    BY <1>1, <1>6, <2>1 DEF OrChoice
<1>7. CASE ~Installed(n) /\ Parts(n) \cap world.available = {}
  BY <1>1, <1>3, <1>7 DEF OrChoice
<1> QED
  BY <1>5, <1>6, <1>7

LEMMA ChosenType ==
  ASSUME world \in Worlds, NEW n \in Name
  PROVE  /\ Chosen(n) \in Name
         /\ world.kind[n] # "set" => IsPackage(world, Chosen(n))
<1>1. CASE world.kind[n] = "or"
  BY <1>1, OrType, WorldType DEF Chosen
<1>2. CASE world.kind[n] # "or"
  BY <1>2, WorldType DEF Chosen, IsPackage
<1> QED
  BY <1>1, <1>2

LEMMA DependentsType ==
  ASSUME world \in Worlds, NEW n \in Name
  PROVE  /\ Dependents(n) \in Seq(Name)
         /\ Range(Dependents(n)) = { p \in world.installed : n \in Parts(p) }
<1> DEFINE S == { p \in world.installed : n \in Parts(p) }
<1>1. S \subseteq Name /\ IsFiniteSet(S)
  BY WorldType, FS_Subset
<1>2. SetToSeq(S) \in Seq(S) /\ Range(SetToSeq(S)) = S
  BY <1>1, Onto
<1> QED
  BY <1>1, <1>2 DEF Dependents

LEMMA LeadsToType ==
  ASSUME world \in Worlds, NEW n \in Name
  PROVE  LeadsTo(n) \subseteq Name
<1>1. CASE world.kind[n] = "or"
  <2>1. OrChoice(n) \in Name
    BY <1>1, OrType, WorldType
  <2>2. CASE world.mode = "install"
    BY <1>1, <2>1, <2>2 DEF LeadsTo
  <2>3. CASE world.mode # "install"
    BY <1>1, <2>3, WorldType DEF LeadsTo
  <2> QED
    BY <2>2, <2>3
<1>2. CASE world.kind[n] # "or"
  BY <1>2, WorldType DEF LeadsTo
<1> QED
  BY <1>1, <1>2

----------------------------------------------------------------------------
(* The stack after a name was passed, a call was made, a call returned.    *)
LEMMA Moved ==
  ASSUME stack \in Seq(FrameSet), stack # <<>>
  PROVE  /\ Advanced \in Seq(FrameSet) /\ Len(Advanced) = Len(stack)
         /\ \A k \in 1 .. Len(stack) :
              /\ Advanced[k].names = stack[k].names /\ Advanced[k].pkg = stack[k].pkg
              /\ Advanced[k].i = IF k = 1 THEN stack[k].i + 1 ELSE stack[k].i
<1>1. Len(stack) \in Nat /\ 1 \in 1 .. Len(stack) /\ DOMAIN stack = 1 .. Len(stack)
  OBVIOUS
<1>2. \A k \in 1 .. Len(stack) : stack[k] \in FrameSet
  OBVIOUS
<1>3. Advanced = [stack EXCEPT ![1] = [stack[1] EXCEPT !.i = @ + 1]]
  BY DEF Advanced
<1>4. stack[1] \in FrameSet
  BY <1>1, <1>2
<1>5. /\ [stack[1] EXCEPT !.i = @ + 1] \in FrameSet
      /\ [stack[1] EXCEPT !.i = @ + 1].names = stack[1].names
      /\ [stack[1] EXCEPT !.i = @ + 1].pkg = stack[1].pkg
      /\ [stack[1] EXCEPT !.i = @ + 1].i = stack[1].i + 1
  BY <1>4, SMTT(30) DEF FrameSet
<1>6. Advanced \in Seq(FrameSet) /\ Len(Advanced) = Len(stack)
  BY <1>1, <1>3, <1>5
<1>7. \A k \in 1 .. Len(stack) : Advanced[k] = IF k = 1 THEN [stack[1] EXCEPT !.i = @ + 1] ELSE stack[k]
  BY <1>1, <1>3
<1> QED
  BY <1>5, <1>6, <1>7

LEMMA Called ==
  ASSUME stack \in Seq(FrameSet), stack # <<>>,
         NEW names \in Seq(Name), NEW pkg \in Name \cup {NULL}, Call(names, pkg)
  PROVE  /\ stack' \in Seq(FrameSet) /\ Len(stack') = Len(stack) + 1
         /\ stack'[1].names = names /\ stack'[1].pkg = pkg /\ stack'[1].i = 1
         /\ \A k \in 2 .. Len(stack) + 1 :
              /\ stack'[k].names = stack[k - 1].names /\ stack'[k].pkg = stack[k - 1].pkg
              /\ stack'[k].i = IF k = 2 THEN stack[k - 1].i + 1 ELSE stack[k - 1].i
<1> DEFINE f == Frame(names, pkg)
<1>1. f \in FrameSet /\ f.names = names /\ f.pkg = pkg /\ f.i = 1
  BY DEF Frame, FrameSet
<1>2. /\ Advanced \in Seq(FrameSet) /\ Len(Advanced) = Len(stack)
      /\ \A k \in 1 .. Len(stack) :
           /\ Advanced[k].names = stack[k].names /\ Advanced[k].pkg = stack[k].pkg
           /\ Advanced[k].i = IF k = 1 THEN stack[k].i + 1 ELSE stack[k].i
  BY Moved
<1>3. stack' = <<f>> \o Advanced
  BY DEF Call
<1> HIDE DEF f
<1>4. <<f>> \in Seq(FrameSet) /\ Len(<<f>>) = 1 /\ <<f>>[1] = f
  BY <1>1
<1>5. /\ stack' \in Seq(FrameSet) /\ Len(stack') = Len(stack) + 1
      /\ stack'[1] = f
      /\ \A k \in 2 .. Len(stack) + 1 : stack'[k] = Advanced[k - 1]
  BY <1>2, <1>3, <1>4
<1>6. \A k \in 2 .. Len(stack) + 1 : k - 1 \in 1 .. Len(stack) /\ (k - 1 = 1 <=> k = 2)
  OBVIOUS
<1> QED
  BY <1>1, <1>2, <1>5, <1>6

LEMMA Popped ==
  ASSUME stack \in Seq(FrameSet), stack # <<>>, stack' = Tail(stack)
  PROVE  /\ stack' \in Seq(FrameSet) /\ Len(stack') = Len(stack) - 1
         /\ \A k \in 1 .. Len(stack) - 1 : stack'[k] = stack[k + 1]
OBVIOUS

(* The two ways a step may add to a list.                                  *)
LEMMA ElementsAdd ==
  ASSUME NEW a, RowOfNames(a), NEW v \in Name
  PROVE  RowOfNames(array_add(a, v)) /\ Elements(array_add(a, v)) = Elements(a) \cup {v}
<1> DEFINE b == array_add(a, v)
<1>1. /\ Row(b) /\ b.size = a.size + 1 /\ b.data[a.size + 1] = v
      /\ \A i \in 0 .. a.size : b.data[i] = a.data[i]
  BY AddRow DEF RowOfNames
<1>2. a.size \in Nat
  BY DEF RowOfNames, Row
<1> HIDE DEF b
<1>3. \A i \in 1 .. b.size : i = a.size + 1 \/ i \in 1 .. a.size
  BY <1>1, <1>2
<1>4. \A i \in 1 .. a.size : i \in 1 .. b.size /\ i \in 0 .. a.size
  BY <1>1, <1>2
<1>5. a.size + 1 \in 1 .. b.size
  BY <1>1, <1>2
<1>6. Elements(b) = Elements(a) \cup {v}
  BY <1>1, <1>3, <1>4, <1>5 DEF Elements
<1>7. RowOfNames(b)
  BY <1>1, <1>6 DEF RowOfNames
<1> QED
  BY <1>6, <1>7 DEF b

LEMMA HasElements ==
  ASSUME NEW a, RowOfNames(a), NEW v \in Name, array_has(a, v)
  PROVE  v \in Elements(a)
<1>1. v # NULL
  BY ResolveAssumption
<1>2. PICK i \in 1 .. a.size - 1 : a.data[i] = v
  BY <1>1, HasRow DEF RowOfNames
<1>3. i \in 1 .. a.size
  BY <1>2 DEF RowOfNames, Row
<1> QED
  BY <1>2, <1>3 DEF Elements

----------------------------------------------------------------------------
LEMMA At ==
  ASSUME RInv, NEW n \in Name, AtName(n)
  PROVE  /\ status = "running" /\ stack # <<>> /\ 1 \in 1 .. Len(stack)
         /\ stack[1].i \in 1 .. Len(stack[1].names) /\ n = stack[1].names[stack[1].i]
         /\ Len(stack) \in Nat /\ stack[1].names \in Seq(Name)
<1>1. stack \in Seq(FrameSet) /\ stack # <<>> /\ status = "running"
  BY DEF RInv, AtName, Calling
<1>2. 1 \in 1 .. Len(stack) /\ Len(stack) \in Nat /\ Head(stack) = stack[1] /\ stack[1] \in FrameSet
  BY <1>1
<1>3. stack[1].i \in 1 .. Len(stack[1].names) + 1 /\ stack[1].names \in Seq(Name)
  BY <1>2 DEF RInv, FrameSet
<1>4. stack[1].i <= Len(stack[1].names) /\ n = stack[1].names[stack[1].i]
  BY <1>2 DEF AtName, This
<1> QED
  BY <1>1, <1>2, <1>3, <1>4

(* Every visit moves on in the innermost call or makes one, caches the     *)
(* name unless it has it, and may list a package.                          *)
LEMMA VisitDoes ==
  ASSUME RInv, NEW n \in Name, Visit(n)
  PROVE  /\ AtName(n) /\ world' = world /\ status' = status /\ errors' \in BOOLEAN
         /\ \/ stack' = Advanced /\ depth' = depth
            \/ /\ ~Cached(n)
               /\ \E names \in Seq(Name), pkg \in Name \cup {NULL} : Call(names, pkg)
               /\ depth' = depth \/ depth' = depth + 1
         /\ \/ Cached(n) /\ cache_list' = cache_list
            \/ ~Cached(n) /\ cache_list' = array_add(cache_list, n)
         /\ \/ need_install' = need_install
            \/ \E p \in Name : need_install' = array_add(need_install, p)
<1>1. world \in Worlds /\ errors \in BOOLEAN
  BY DEF RInv
<1>2. Chosen(n) \in Name
  BY <1>1, ChosenType
<1>3. world.parts[n] \in Seq(Name) /\ world.parts[Chosen(n)] \in Seq(Name) /\ Dependents(n) \in Seq(Name)
  BY <1>1, <1>2, WorldType, DependentsType
<1>4. CASE SkipCached(n)
  BY <1>1, <1>4 DEF SkipCached
<1>5. CASE OpenSet(n)
  <2>1. \E names \in Seq(Name), pkg \in Name \cup {NULL} : Call(names, pkg)
    BY <1>3, <1>5 DEF OpenSet
  <2>2. errors' \in BOOLEAN
    BY <1>5 DEF OpenSet
  <2> QED
    BY <1>5, <2>1, <2>2 DEF OpenSet, Fresh
<1>6. CASE Pass(n)
  <2>1. errors' \in BOOLEAN
    BY <1>6 DEF Pass
  <2> QED
    BY <1>6, <2>1 DEF Pass, Fresh
<1>7. CASE NotInstallable(n)
  <2>1. errors' \in BOOLEAN
    BY <1>7 DEF NotInstallable
  <2> QED
    BY <1>7, <2>1 DEF NotInstallable, Fresh
<1>8. CASE Require(n)
  <2>1. errors' \in BOOLEAN
    BY <1>8 DEF Require
  <2>2. CASE Flag("ignore-dependency")
    <3>1. \E p \in Name : need_install' = array_add(need_install, p)
      BY <1>2, <1>8, <2>2 DEF Require
    <3> QED
      BY <1>8, <2>1, <2>2, <3>1 DEF Require, Fresh
  <2>3. CASE ~Flag("ignore-dependency")
    <3>1. \E names \in Seq(Name), pkg \in Name \cup {NULL} : Call(names, pkg)
      BY <1>2, <1>3, <1>8, <2>3 DEF Require
    <3> QED
      BY <1>8, <2>1, <2>3, <3>1 DEF Require, Fresh
  <2> QED
    BY <2>2, <2>3
<1>9. CASE PassReverse(n)
  BY <1>1, <1>9 DEF PassReverse, Fresh
<1>10. CASE RequireReverse(n)
  <2>1. \E p \in Name : need_install' = array_add(need_install, p)
    BY <1>10 DEF RequireReverse
  <2>2. CASE Flag("ignore-dependency")
    BY <1>1, <1>10, <2>1, <2>2 DEF RequireReverse, Fresh
  <2>3. CASE ~Flag("ignore-dependency")
    <3>1. \E names \in Seq(Name), pkg \in Name \cup {NULL} : Call(names, pkg)
      BY <1>3, <1>10, <2>3 DEF RequireReverse
    <3> QED
      BY <1>1, <1>10, <2>1, <2>3, <3>1 DEF RequireReverse, Fresh
  <2> QED
    BY <2>2, <2>3
<1> QED
  BY <1>4, <1>5, <1>6, <1>7, <1>8, <1>9, <1>10 DEF Visit

LEMMA ReturnDoes ==
  ASSUME RInv, Return
  PROVE  /\ status = "running" /\ stack # <<>> /\ 1 \in 1 .. Len(stack) /\ Len(stack) \in Nat
         /\ stack[1].i = Len(stack[1].names) + 1 /\ stack[1].names \in Seq(Name)
         /\ stack[1].pkg \in Name \cup {NULL}
         /\ stack' = Tail(stack)
         /\ UNCHANGED <<world, cache_list, errors, status>>
         /\ depth' = depth \/ depth' = depth - 1
         /\ IF world.mode = "install" /\ stack[1].pkg # NULL
              THEN stack[1].pkg \in Name /\ need_install' = array_add(need_install, stack[1].pkg)
              ELSE need_install' = need_install
<1>1. stack \in Seq(FrameSet) /\ stack # <<>> /\ status = "running"
  BY DEF RInv, Return, Calling
<1>2. 1 \in 1 .. Len(stack) /\ Len(stack) \in Nat /\ Head(stack) = stack[1] /\ stack[1] \in FrameSet
  BY <1>1
<1>3. stack[1].i \in 1 .. Len(stack[1].names) + 1 /\ stack[1].names \in Seq(Name) /\ stack[1].pkg \in Name \cup {NULL}
  BY <1>2 DEF RInv, FrameSet
<1>4. stack[1].i = Len(stack[1].names) + 1
  <2>1. Head(stack).i > Len(Head(stack).names)
    BY DEF Return
  <2> QED
    BY <1>2, <1>3, <2>1
<1>5. depth' = depth \/ depth' = depth - 1
  BY DEF Return, DepthAfter
<1>6. /\ stack' = Tail(stack) /\ UNCHANGED <<world, cache_list, errors, status>>
      /\ need_install' = IF world.mode = "install" /\ stack[1].pkg # NULL
                         THEN array_add(need_install, stack[1].pkg) ELSE need_install
  BY <1>2 DEF Return
<1> QED
  BY <1>1, <1>2, <1>3, <1>4, <1>5, <1>6

LEMMA InitRInv == Init => RInv
<1> SUFFICES ASSUME Init PROVE RInv
  OBVIOUS
<1>1. world \in Worlds /\ world.request \in Seq(Name)
  BY WorldType DEF Init
<1>2. /\ Frame(world.request, NULL) \in FrameSet /\ Frame(world.request, NULL).i = 1
      /\ Frame(world.request, NULL).names = world.request
  BY <1>1 DEF Frame, FrameSet
<1> DEFINE f == Frame(world.request, NULL)
<1>3. stack = <<f>>
  BY DEF Init
<1>4. Len(world.request) \in Nat
  BY <1>1
<1> HIDE DEF f
<1>5. stack \in Seq(FrameSet) /\ \A k \in 1 .. Len(stack) : stack[k].i \in 1 .. Len(stack[k].names) + 1
  BY <1>2, <1>3, <1>4 DEF f
<1>6. RowOfNames(array_new)
  BY NewRow DEF RowOfNames, Elements
<1>7. depth = 0 /\ cache_list.size = 0 /\ errors = FALSE /\ status = "running"
  BY NewRow DEF Init
<1>8. RowOfNames(cache_list) /\ RowOfNames(need_install)
  BY <1>6 DEF Init
<1>9. depth \in Int /\ depth <= cache_list.size /\ errors \in BOOLEAN
  <2>1. depth = 0 /\ cache_list.size = 0
    BY <1>7
  <2>2. depth <= cache_list.size
    BY <2>1
  <2>3. errors \in BOOLEAN
    BY <1>7
  <2> QED
    BY <2>1, <2>2, <2>3
<1> QED
  BY <1>1, <1>5, <1>7, <1>8, <1>9 DEF RInv

LEMMA NextRInv == RInv /\ [Next]_vars => RInv'
<1> SUFFICES ASSUME RInv, [Next]_vars PROVE RInv'
  OBVIOUS
<1>1. ASSUME NEW n \in Name, Visit(n) PROVE RInv'
  <2>1. /\ AtName(n) /\ world' = world /\ status' = status /\ errors' \in BOOLEAN
        /\ \/ stack' = Advanced /\ depth' = depth
           \/ /\ ~Cached(n)
              /\ \E names \in Seq(Name), pkg \in Name \cup {NULL} : Call(names, pkg)
              /\ depth' = depth \/ depth' = depth + 1
        /\ \/ Cached(n) /\ cache_list' = cache_list
           \/ ~Cached(n) /\ cache_list' = array_add(cache_list, n)
        /\ \/ need_install' = need_install
           \/ \E p \in Name : need_install' = array_add(need_install, p)
    BY <1>1, VisitDoes
  <2>2. /\ status = "running" /\ stack # <<>> /\ 1 \in 1 .. Len(stack) /\ Len(stack) \in Nat
        /\ stack[1].i \in 1 .. Len(stack[1].names) /\ stack[1].names \in Seq(Name)
    BY <2>1, At
  <2>3. /\ stack \in Seq(FrameSet) /\ RowOfNames(cache_list) /\ RowOfNames(need_install)
        /\ \A k \in 1 .. Len(stack) : stack[k].i \in 1 .. Len(stack[k].names) + 1
        /\ depth \in Int /\ depth <= cache_list.size /\ world \in Worlds
    BY DEF RInv
  <2>4. RowOfNames(cache_list') /\ (~Cached(n) => cache_list'.size = cache_list.size + 1) /\ (Cached(n) => cache_list' = cache_list)
    BY <2>1, <2>3, ElementsAdd, AddRow DEF RowOfNames
  <2>5. RowOfNames(need_install')
    BY <2>1, <2>3, ElementsAdd
  <2>6. cache_list.size \in Nat
    BY <2>3 DEF RowOfNames, Row
  <2>7. depth' \in Int /\ depth' <= cache_list'.size
    BY <2>1, <2>3, <2>4, <2>6
  <2>8. Len(stack[1].names) \in Nat
    BY <2>2
  <2>9. stack' \in Seq(FrameSet) /\ \A k \in 1 .. Len(stack') : stack'[k].i \in 1 .. Len(stack'[k].names) + 1
    <3>1. CASE stack' = Advanced
      <4>1. /\ stack' \in Seq(FrameSet) /\ Len(stack') = Len(stack)
            /\ \A k \in 1 .. Len(stack) :
                 /\ stack'[k].names = stack[k].names
                 /\ stack'[k].i = IF k = 1 THEN stack[k].i + 1 ELSE stack[k].i
        BY <2>2, <2>3, <3>1, Moved
      <4> QED
        BY <2>2, <2>3, <2>8, <4>1, SMTT(30)
    <3>2. CASE \E names \in Seq(Name), pkg \in Name \cup {NULL} : Call(names, pkg)
      <4>1. PICK names \in Seq(Name) : \E pkg \in Name \cup {NULL} : Call(names, pkg)
        BY <3>2
      <4>2. PICK pkg \in Name \cup {NULL} : Call(names, pkg)
        BY <4>1
      <4>3. /\ stack' \in Seq(FrameSet) /\ Len(stack') = Len(stack) + 1
            /\ stack'[1].names = names /\ stack'[1].pkg = pkg /\ stack'[1].i = 1
            /\ \A k \in 2 .. Len(stack) + 1 :
                 /\ stack'[k].names = stack[k - 1].names /\ stack'[k].pkg = stack[k - 1].pkg
                 /\ stack'[k].i = IF k = 2 THEN stack[k - 1].i + 1 ELSE stack[k - 1].i
        BY <2>2, <2>3, <4>2, Called
      <4>4. ASSUME NEW k \in 1 .. Len(stack') PROVE stack'[k].i \in 1 .. Len(stack'[k].names) + 1
        <5>1. CASE k = 1
          <6>1. Len(names) \in Nat
            OBVIOUS
          <6> QED
            BY <4>3, <5>1, <6>1
        <5>2. CASE k = 2
          BY <2>2, <2>8, <4>3, <5>2
        <5>3. CASE k > 2
          <6>1. k - 1 \in 1 .. Len(stack) /\ k \in 2 .. Len(stack) + 1
            BY <2>2, <4>3, <5>3
          <6>2. stack'[k].names = stack[k - 1].names /\ stack'[k].i = stack[k - 1].i
            BY <4>3, <5>3, <6>1
          <6>3. stack[k - 1].i \in 1 .. Len(stack[k - 1].names) + 1
            BY <2>3, <6>1
          <6> QED
            BY <6>2, <6>3
        <5> QED
          BY <5>1, <5>2, <5>3
      <4> QED
        BY <4>3, <4>4
    <3> QED
      BY <2>1, <3>1, <3>2
  <2> QED
    BY <2>1, <2>2, <2>3, <2>4, <2>5, <2>7, <2>9 DEF RInv
<1>2. CASE Return
  <2>1. /\ status = "running" /\ stack # <<>> /\ 1 \in 1 .. Len(stack) /\ Len(stack) \in Nat
        /\ stack' = Tail(stack)
        /\ UNCHANGED <<world, cache_list, errors, status>>
        /\ depth' = depth \/ depth' = depth - 1
        /\ need_install' = need_install \/ \E p \in Name : need_install' = array_add(need_install, p)
    BY <1>2, ReturnDoes
  <2>2. /\ stack \in Seq(FrameSet) /\ RowOfNames(cache_list) /\ RowOfNames(need_install)
        /\ \A k \in 1 .. Len(stack) : stack[k].i \in 1 .. Len(stack[k].names) + 1
        /\ depth \in Int /\ depth <= cache_list.size /\ world \in Worlds /\ errors \in BOOLEAN
    BY DEF RInv
  <2>3. RowOfNames(need_install')
    BY <2>1, <2>2, ElementsAdd
  <2>4. /\ stack' \in Seq(FrameSet) /\ Len(stack') = Len(stack) - 1
        /\ \A k \in 1 .. Len(stack) - 1 : stack'[k] = stack[k + 1]
    BY <2>1, <2>2, Popped
  <2>5. \A k \in 1 .. Len(stack') : stack'[k].i \in 1 .. Len(stack'[k].names) + 1
    <3>1. \A k \in 1 .. Len(stack) - 1 : k + 1 \in 1 .. Len(stack)
      BY <2>1
    <3> QED
      BY <2>2, <2>4, <3>1
  <2>6. depth' \in Int /\ depth' <= cache_list'.size
    <3>1. cache_list.size \in Nat
      BY <2>2 DEF RowOfNames, Row
    <3> QED
      BY <2>1, <2>2, <3>1
  <2> QED
    BY <2>1, <2>2, <2>3, <2>4, <2>5, <2>6 DEF RInv
<1>3. CASE Finish
  BY <1>3 DEF Finish, RInv
<1>4. CASE UNCHANGED vars
  BY <1>4 DEF vars, RInv
<1> QED
  BY <1>1, <1>2, <1>3, <1>4 DEF Next, Returned

LEMMA Types == Spec => []RInv
BY InitRInv, NextRInv, PTL DEF Spec

----------------------------------------------------------------------------
(* The recursion ends: a name is cached again only directly after itself.  *)
LEMMA NextNoNameThrice == RInv /\ NoNameThrice /\ [Next]_vars => NoNameThrice'
<1> SUFFICES ASSUME RInv, NoNameThrice, [Next]_vars PROVE NoNameThrice'
  OBVIOUS
<1>1. ASSUME NEW n \in Name, Visit(n) PROVE NoNameThrice'
  <2>1. CASE cache_list' = cache_list
    BY <2>1 DEF NoNameThrice
  <2>2. CASE ~Cached(n) /\ cache_list' = array_add(cache_list, n)
    <3>1. Row(cache_list) /\ n # NULL
      BY ResolveAssumption DEF RInv, RowOfNames
    <3>2. \A i \in 1 .. cache_list.size - 1 : cache_list.data[i] # n
      BY <2>2, <3>1, HasRow DEF Cached
    <3>3. /\ cache_list'.size = cache_list.size + 1 /\ cache_list'.data[cache_list.size + 1] = n
          /\ \A i \in 0 .. cache_list.size : cache_list'.data[i] = cache_list.data[i]
          /\ cache_list.size \in Nat
      BY <2>2, <3>1, AddRow DEF Row
    <3>4. ASSUME NEW i \in 1 .. cache_list'.size, NEW k \in 1 .. cache_list'.size,
                 i < k, cache_list'.data[i] = cache_list'.data[k]
          PROVE  k = i + 1
      <4>1. i \in 1 .. cache_list.size /\ i \in 0 .. cache_list.size /\ cache_list'.data[i] = cache_list.data[i]
        BY <3>3, <3>4
      <4>2. CASE k = cache_list.size + 1
        <5>1. ~(i \in 1 .. cache_list.size - 1)
          BY <3>2, <3>3, <3>4, <4>1, <4>2
        <5> QED
          BY <3>3, <4>1, <4>2, <5>1
      <4>3. CASE k # cache_list.size + 1
        <5>1. k \in 1 .. cache_list.size /\ k \in 0 .. cache_list.size /\ cache_list'.data[k] = cache_list.data[k]
          BY <3>3, <4>3
        <5> QED
          BY <3>4, <4>1, <5>1 DEF NoNameThrice
      <4> QED
        BY <4>2, <4>3
    <3> QED
      BY <3>4 DEF NoNameThrice
  <2> QED
    BY <1>1, <2>1, <2>2, VisitDoes
<1>2. CASE Return \/ Finish \/ UNCHANGED vars
  BY <1>2 DEF Return, Finish, vars, NoNameThrice
<1> QED
  BY <1>1, <1>2 DEF Next, Returned

THEOREM RecursionEnds == Spec => []NoNameThrice
<1>1. Init => NoNameThrice
  BY NewRow DEF Init, NoNameThrice
<1> QED
  BY <1>1, Types, NextNoNameThrice, PTL DEF Spec

----------------------------------------------------------------------------
(* What a resolution is asked does not change.                             *)
LEMMA SameWorld ==
  ASSUME world' = world
  PROVE  /\ \A n : /\ Chosen(n)' = Chosen(n) /\ (Needed(n)' <=> Needed(n))
                   /\ Parts(n)' = Parts(n) /\ LeadsTo(n)' = LeadsTo(n)
         /\ Requested' = Requested
         /\ \A S : Reach(S)' = Reach(S)
<1>1. \A n : Parts(n)' = Parts(n)
  BY DEF Parts
<1>2. \A n : Installed(n)' <=> Installed(n)
  BY <1>1 DEF Installed
<1>3. \A n : OrChoice(n)' = OrChoice(n)
  BY <1>1, <1>2 DEF OrChoice, FirstIn
<1>4. \A n : Chosen(n)' = Chosen(n)
  BY <1>3 DEF Chosen
<1>5. \A n : Needed(n)' <=> Needed(n)
  BY <1>2 DEF Needed, Current, Flag
<1>6. \A n : LeadsTo(n)' = LeadsTo(n)
  BY <1>1, <1>3, <1>5 DEF LeadsTo, Flag
<1>7. \A S : Reach(S)' = Reach(S)
  BY SMT DEF Reach, LeadsTo, Needed, Current, Flag, Installed, OrChoice, FirstIn, Parts
<1>8. Requested' = Requested
  BY <1>7 DEF Requested
<1> QED
  BY <1>1, <1>4, <1>5, <1>6, <1>7, <1>8

(* What is to be installed is needed, and what is needed and somewhere to  *)
(* be found is to be installed.                                            *)
LEMMA WantedIsNeeded ==
  ASSUME world \in Worlds, world.mode = "install", NEW p \in Name, IsPackage(world, p)
  PROVE  /\ Wanted(p) => Needed(p)
         /\ Needed(p) => Wanted(p) /\ ~Missing(p)
<1>1. world.kind[p] = "package" \/ world.kind[p] = "file"
  BY DEF IsPackage
<1>2. CASE world.kind[p] = "file"
  BY <1>2 DEF Wanted, Needed, Missing
<1>3. CASE world.kind[p] = "package"
  BY <1>3 DEF Wanted, Needed, Missing, Current
<1> QED
  BY <1>1, <1>2, <1>3

(* The request leads to what it names, and to what that leads to.          *)
LEMMA RequestedCloses ==
  ASSUME world \in Worlds
  PROVE  /\ Range(world.request) \subseteq Requested /\ Requested \subseteq Name
         /\ \A n \in Requested : LeadsTo(n) \subseteq Requested
<1>1. world.request \in Seq(Name)
  BY WorldType
<1>2. Range(world.request) \in SUBSET Name
  BY <1>1 DEF Range
<1> QED
  BY <1>2, LeadsToType, ReachCloses DEF Requested, Closed

Good(p) == p \in Requested /\ Needed(p)

(* The reasons FailureHasReason allows.                                    *)
Reason ==
  \E n \in Requested :
    \/ world.kind[n] = "set" /\ Parts(n) = {}
    \/ world.kind[n] = "or" /\ ~(Parts(n) \subseteq world.available)
    \/ n \in world.marked
    \/ world.kind[n] = "package" /\ n \notin world.available \cup world.installed

(* Only what the request leads to is visited, only what needs it listed,   *)
(* and nothing is reported without a reason.                               *)
SInv ==
  /\ \A k \in 1 .. Len(stack) :
       /\ Range(stack[k].names) \subseteq Requested
       /\ stack[k].pkg # NULL => Good(stack[k].pkg)
  /\ \A p \in Elements(need_install) : Good(p)
  /\ errors => Reason

LEMMA ChosenRequested ==
  ASSUME world \in Worlds, NEW n \in Requested, world.kind[n] # "set"
  PROVE  /\ world.mode = "install" => Chosen(n) \in Requested
         /\ Chosen(n) \in LeadsTo(n) \/ Chosen(n) = n \/ world.mode = "remove"
<1>1. LeadsTo(n) \subseteq Requested
  BY RequestedCloses
<1>2. world.mode \in {"install", "remove"}
  BY WorldType
<1>3. CASE world.kind[n] = "or" /\ world.mode = "install"
  <2>1. LeadsTo(n) = {OrChoice(n)}
    BY <1>3 DEF LeadsTo
  <2> QED
    BY <1>1, <1>3, <2>1 DEF Chosen
<1>4. CASE world.kind[n] # "or"
  BY <1>4 DEF Chosen
<1> QED
  BY <1>2, <1>3, <1>4

(* The dependencies of a package that needs the request.                   *)
LEMMA LeadsToParts ==
  ASSUME NEW p, Needed(p), ~Flag("ignore-dependency"), world.kind[p] # "set"
  PROVE  /\ world.mode = "install" /\ IsPackage(world, p) => LeadsTo(p) = Parts(p)
         /\ world.mode = "remove" => LeadsTo(p) = { q \in world.installed : p \in Parts(q) }
<1>1. CASE world.mode = "install" /\ IsPackage(world, p)
  <2>1. world.kind[p] # "or"
    BY <1>1 DEF IsPackage
  <2> QED
    BY <1>1, <2>1 DEF LeadsTo
<1>2. CASE world.mode = "remove"
  <2>1. ~(world.kind[p] = "or" /\ world.mode = "install") /\ world.mode # "install"
    BY <1>2
  <2> QED
    BY <1>2, <2>1 DEF LeadsTo
<1> QED
  BY <1>1, <1>2

LEMMA ComplaintHasReason ==
  ASSUME world \in Worlds, NEW n \in Requested, Complains(n)
  PROVE  Reason
<1>1. n \in Name
  BY RequestedCloses
<1>2. world.kind[n] = "or" /\ world.parts[n][1] \notin world.available
  BY DEF Complains, OrComplains
<1>3. world.parts[n] \in Seq(Name) /\ world.parts[n] # <<>>
  BY <1>1, <1>2, WorldType, ResolveAssumption
<1>4. 1 \in DOMAIN world.parts[n]
  BY <1>3
<1>5. world.parts[n][1] \in Parts(n)
  BY <1>4 DEF Parts, Range
<1> QED
  BY <1>2, <1>5 DEF Reason

(* What a visit calls and lists is what the request leads to.              *)
LEMMA VisitIsSound ==
  ASSUME RInv, SInv, NEW n \in Name, Visit(n)
  PROVE  /\ n \in Requested
         /\ \/ stack' = Advanced
            \/ \E names \in Seq(Name), pkg \in Name \cup {NULL} :
                 /\ Call(names, pkg) /\ Range(names) \subseteq Requested
                 /\ pkg # NULL => Good(pkg)
         /\ \/ need_install' = need_install
            \/ \E p \in Name : Good(p) /\ need_install' = array_add(need_install, p)
         /\ errors' => Reason
<1>1. world \in Worlds
  BY DEF RInv
<1>2. AtName(n)
  BY VisitDoes
<1>3. n \in Requested
  <2>1. /\ 1 \in 1 .. Len(stack) /\ stack[1].i \in 1 .. Len(stack[1].names)
        /\ n = stack[1].names[stack[1].i] /\ stack[1].names \in Seq(Name)
    BY <1>2, At
  <2>2. n \in Range(stack[1].names)
    BY <2>1 DEF Range
  <2> QED
    BY <2>1, <2>2 DEF SInv
<1>4. /\ Chosen(n) \in Name
      /\ world.kind[n] # "set" => IsPackage(world, Chosen(n))
      /\ world.kind[n] # "set" /\ world.mode = "install" => Chosen(n) \in Requested
  BY <1>1, <1>3, ChosenType, ChosenRequested
<1>5. world.parts[n] \in Seq(Name) /\ world.parts[Chosen(n)] \in Seq(Name) /\ Dependents(n) \in Seq(Name)
  BY <1>1, <1>4, WorldType, DependentsType
<1>6. \A m \in Requested : LeadsTo(m) \subseteq Requested
  BY <1>1, RequestedCloses
<1>7. Complains(n) => Reason
  BY <1>1, <1>3, ComplaintHasReason
<1>8. errors => Reason
  BY DEF SInv
<1>9. CASE SkipCached(n)
  BY <1>3, <1>8, <1>9 DEF SkipCached
<1>10. CASE OpenSet(n)
  <2>1. LeadsTo(n) = Parts(n)
    BY <1>10 DEF OpenSet, LeadsTo
  <2>2. Call(world.parts[n], NULL) /\ need_install' = need_install
    BY <1>10 DEF OpenSet
  <2>3. \E names \in Seq(Name), pkg \in Name \cup {NULL} :
          /\ Call(names, pkg) /\ Range(names) \subseteq Requested
          /\ pkg # NULL => Good(pkg)
    BY <1>3, <1>5, <1>6, <2>1, <2>2 DEF Parts
  <2>4. world.parts[n] = <<>> => Parts(n) = {}
    BY DEF Parts, Range
  <2>5. errors' => Reason
    BY <1>3, <1>8, <1>10, <2>4 DEF OpenSet, Reason
  <2> QED
    BY <1>3, <2>2, <2>3, <2>5
<1>11. CASE Pass(n)
  <2>1. errors' => Reason
    BY <1>7, <1>8, <1>11 DEF Pass
  <2> QED
    BY <1>3, <1>11, <2>1 DEF Pass
<1>12. CASE NotInstallable(n)
  <2>1. Missing(Chosen(n)) /\ Chosen(n) \in Requested /\ IsPackage(world, Chosen(n))
    BY <1>4, <1>12 DEF NotInstallable
  <2>2. Reason
    BY <2>1 DEF Missing, IsPackage, Reason
  <2> QED
    BY <1>3, <1>12, <2>2 DEF NotInstallable
<1>13. CASE Require(n)
  <2> DEFINE p == Chosen(n)
  <2>1. Wanted(p) /\ p \in Name /\ p \in Requested /\ IsPackage(world, p) /\ world.mode = "install"
    BY <1>4, <1>13 DEF Require
  <2>2. Good(p)
    BY <1>1, <2>1, WantedIsNeeded DEF Good
  <2>3. errors' => Reason
    <3>1. p \in world.marked => Reason
      BY <2>1 DEF Reason
    <3> QED
      BY <1>7, <1>8, <1>13, <3>1 DEF Require
  <2>4. CASE Flag("ignore-dependency")
    <3>1. need_install' = array_add(need_install, p) /\ stack' = Advanced
      BY <1>13, <2>4 DEF Require
    <3> QED
      BY <1>3, <2>1, <2>2, <2>3, <3>1
  <2>5. CASE ~Flag("ignore-dependency")
    <3>1. Call(world.parts[p], p) /\ need_install' = need_install
      BY <1>13, <2>5 DEF Require
    <3>2. LeadsTo(p) = Parts(p)
      <4>1. world.kind[p] # "set"
        BY <2>1 DEF IsPackage
      <4> QED
        BY <2>1, <2>2, <2>5, <4>1, LeadsToParts DEF Good
    <3>3. Range(world.parts[p]) \subseteq Requested
      BY <1>6, <2>1, <3>2 DEF Parts
    <3> QED
      BY <1>3, <1>5, <2>1, <2>2, <2>3, <3>1, <3>3
  <2> QED
    BY <2>4, <2>5
<1>14. CASE PassReverse(n)
  BY <1>3, <1>8, <1>14 DEF PassReverse
<1>15. CASE RequireReverse(n)
  <2>1. world.mode = "remove" /\ world.kind[n] # "set" /\ Installed(n) /\ need_install' = array_add(need_install, n)
    BY <1>15 DEF RequireReverse
  <2>2. Good(n)
    BY <1>3, <2>1 DEF Good, Needed
  <2>3. errors' => Reason
    BY <1>8, <1>15 DEF RequireReverse
  <2>4. CASE Flag("ignore-dependency")
    <3>1. stack' = Advanced
      BY <1>15, <2>4 DEF RequireReverse
    <3> QED
      BY <1>3, <2>1, <2>2, <2>3, <3>1
  <2>5. CASE ~Flag("ignore-dependency")
    <3>1. Call(Dependents(n), n)
      BY <1>15, <2>5 DEF RequireReverse
    <3>2. LeadsTo(n) = Range(Dependents(n))
      <4>1. LeadsTo(n) = { q \in world.installed : n \in Parts(q) }
        BY <2>1, <2>2, <2>5, LeadsToParts DEF Good
      <4> QED
        BY <1>1, <4>1, DependentsType
    <3>3. Range(Dependents(n)) \subseteq Requested
      BY <1>3, <1>6, <3>2
    <3> QED
      BY <1>3, <1>5, <2>1, <2>2, <2>3, <3>1, <3>3
  <2> QED
    BY <2>4, <2>5
<1> QED
  BY <1>9, <1>10, <1>11, <1>12, <1>13, <1>14, <1>15 DEF Visit

LEMMA SameGood == ASSUME world' = world PROVE (\A p : Good(p)' <=> Good(p)) /\ (Reason' <=> Reason)
<1>1. Requested' = Requested /\ \A p : (Needed(p)' <=> Needed(p)) /\ Parts(p)' = Parts(p)
  BY SameWorld
<1>2. \A p : Good(p)' <=> Good(p)
  BY <1>1 DEF Good
<1>3. Reason' <=> Reason
  BY <1>1 DEF Reason
<1> QED
  BY <1>2, <1>3

LEMMA NextSInv == RInv /\ SInv /\ [Next]_vars => SInv'
<1> SUFFICES ASSUME RInv, SInv, [Next]_vars PROVE SInv'
  OBVIOUS
<1> DEFINE Sound(names, pkg) == Range(names) \subseteq Requested /\ (pkg # NULL => Good(pkg))
<1>1. /\ stack \in Seq(FrameSet) /\ RowOfNames(need_install)
      /\ \A k \in 1 .. Len(stack) : Sound(stack[k].names, stack[k].pkg)
  BY DEF RInv, SInv
<1>2. ASSUME world' = world, \A k \in 1 .. Len(stack') : Sound(stack'[k].names, stack'[k].pkg),
             \A p \in Elements(need_install') : Good(p), errors' => Reason
      PROVE  SInv'
  <2>1. Requested' = Requested /\ (\A p : Good(p)' <=> Good(p)) /\ (Reason' <=> Reason)
    BY <1>2, SameWorld, SameGood
  <2> QED
    BY <1>2, <2>1 DEF SInv
<1>3. ASSUME NEW n \in Name, Visit(n) PROVE SInv'
  <2>1. /\ \/ stack' = Advanced
           \/ \E names \in Seq(Name), pkg \in Name \cup {NULL} : Call(names, pkg) /\ Sound(names, pkg)
        /\ \/ need_install' = need_install
           \/ \E p \in Name : Good(p) /\ need_install' = array_add(need_install, p)
        /\ errors' => Reason
    BY <1>3, VisitIsSound
  <2>2. world' = world /\ stack # <<>> /\ Len(stack) \in Nat
    BY <1>3, VisitDoes, At
  <2>3. \A p \in Elements(need_install') : Good(p)
    BY <1>1, <2>1, ElementsAdd DEF SInv
  <2>4. \A k \in 1 .. Len(stack') : Sound(stack'[k].names, stack'[k].pkg)
    <3> HIDE DEF Sound
    <3>1. CASE stack' = Advanced
      <4>1. Len(stack') = Len(stack) /\ \A k \in 1 .. Len(stack) : stack'[k].names = stack[k].names /\ stack'[k].pkg = stack[k].pkg
        BY <1>1, <2>2, <3>1, Moved
      <4> QED
        BY <1>1, <4>1
    <3>2. CASE \E names \in Seq(Name), pkg \in Name \cup {NULL} : Call(names, pkg) /\ Sound(names, pkg)
      <4>1. PICK names \in Seq(Name) : \E pkg \in Name \cup {NULL} : Call(names, pkg) /\ Sound(names, pkg)
        BY <3>2
      <4>2. PICK pkg \in Name \cup {NULL} : Call(names, pkg) /\ Sound(names, pkg)
        BY <4>1
      <4>3. /\ Len(stack') = Len(stack) + 1 /\ stack'[1].names = names /\ stack'[1].pkg = pkg
            /\ \A k \in 2 .. Len(stack) + 1 : stack'[k].names = stack[k - 1].names /\ stack'[k].pkg = stack[k - 1].pkg
        BY <1>1, <2>2, <4>2, Called
      <4>4. ASSUME NEW k \in 1 .. Len(stack') PROVE Sound(stack'[k].names, stack'[k].pkg)
        <5>1. CASE k = 1
          BY <4>2, <4>3, <5>1
        <5>2. CASE k # 1
          <6>1. k - 1 \in 1 .. Len(stack) /\ k \in 2 .. Len(stack) + 1
            BY <2>2, <4>3, <5>2
          <6> QED
            BY <1>1, <4>3, <6>1
        <5> QED
          BY <5>1, <5>2
      <4> QED
        BY <4>4
    <3> QED
      BY <2>1, <3>1, <3>2
  <2> QED
    BY <1>2, <2>1, <2>2, <2>3, <2>4
<1>4. CASE Return
  <2>1. /\ stack # <<>> /\ 1 \in 1 .. Len(stack) /\ Len(stack) \in Nat /\ stack' = Tail(stack)
        /\ UNCHANGED <<world, errors>>
        /\ IF world.mode = "install" /\ stack[1].pkg # NULL
             THEN stack[1].pkg \in Name /\ need_install' = array_add(need_install, stack[1].pkg)
             ELSE need_install' = need_install
    BY <1>4, ReturnDoes
  <2>2. \A p \in Elements(need_install') : Good(p)
    BY <1>1, <2>1, ElementsAdd DEF SInv
  <2>3. \A k \in 1 .. Len(stack') : Sound(stack'[k].names, stack'[k].pkg)
    <3> HIDE DEF Sound
    <3>1. Len(stack') = Len(stack) - 1 /\ \A k \in 1 .. Len(stack) - 1 : stack'[k] = stack[k + 1]
      BY <1>1, <2>1, Popped
    <3>2. \A k \in 1 .. Len(stack) - 1 : k + 1 \in 1 .. Len(stack)
      BY <2>1
    <3> QED
      BY <1>1, <3>1, <3>2
  <2>4. errors' => Reason
    BY <2>1 DEF SInv
  <2> QED
    BY <1>2, <2>1, <2>2, <2>3, <2>4
<1>5. CASE Finish \/ UNCHANGED vars
  <2>1. UNCHANGED <<world, stack, need_install, errors>>
    BY <1>5 DEF Finish, vars
  <2> QED
    BY <1>1, <1>2, <2>1 DEF SInv
<1> QED
  BY <1>3, <1>4, <1>5 DEF Next, Returned

LEMMA InitSInv == Init => SInv
<1> SUFFICES ASSUME Init PROVE SInv
  OBVIOUS
<1>1. world \in Worlds /\ stack = <<Frame(world.request, NULL)>> /\ need_install = array_new /\ errors = FALSE
  BY DEF Init
<1>2. Range(world.request) \subseteq Requested
  BY <1>1, RequestedCloses
<1>3. Frame(world.request, NULL).names = world.request /\ Frame(world.request, NULL).pkg = NULL
  BY DEF Frame
<1>4. \A k \in 1 .. Len(stack) : stack[k].names = world.request /\ stack[k].pkg = NULL
  BY <1>1, <1>3
<1>5. Elements(need_install) = {}
  BY <1>1, NewRow DEF Elements
<1> QED
  BY <1>1, <1>2, <1>4, <1>5 DEF SInv

LEMMA StatusErrors == Spec => [](status = "failed" => errors)
<1>1. Init => (status = "failed" => errors)
  BY DEF Init
<1>2. RInv /\ (status = "failed" => errors) /\ [Next]_vars => (status = "failed" => errors)'
  <2> SUFFICES ASSUME RInv, status = "failed" => errors, [Next]_vars, status' = "failed" PROVE errors'
    OBVIOUS
  <2>1. ASSUME NEW n \in Name, Visit(n) PROVE errors'
    <3>1. status = "running" /\ status' = status
      BY <2>1, VisitDoes, At
    <3> QED
      BY <3>1
  <2>2. CASE Return
    <3>1. status = "running" /\ status' = status
      BY <2>2, ReturnDoes
    <3> QED
      BY <3>1
  <2>3. CASE Finish
    BY <2>3 DEF Finish
  <2>4. CASE UNCHANGED vars
    BY <2>4 DEF vars
  <2> QED
    BY <2>1, <2>2, <2>3, <2>4 DEF Next, Returned
<1> QED
  BY <1>1, <1>2, Types, PTL DEF Spec

LEMMA Soundness == Spec => []SInv
BY Types, InitSInv, NextSInv, PTL DEF Spec

THEOREM ResolutionFailsForAReason == Spec => []FailureHasReason
<1>1. SInv /\ (status = "failed" => errors) => FailureHasReason
  BY DEF SInv, Reason, FailureHasReason
<1> QED
  BY <1>1, Soundness, StatusErrors, PTL

----------------------------------------------------------------------------
(* The names the calls on the stack have still to visit, and the packages  *)
(* whose calls they are.                                                   *)
Todo ==
  UNION { { stack[k].names[j] : j \in stack[k].i .. Len(stack[k].names) } : k \in 1 .. Len(stack) }

Held == { stack[k].pkg : k \in 1 .. Len(stack) } \ {NULL}

LEMMA InTodo ==
  ASSUME NEW m
  PROVE  m \in Todo <=> \E k \in 1 .. Len(stack) :
                          \E j \in stack[k].i .. Len(stack[k].names) : m = stack[k].names[j]
BY DEF Todo

LEMMA StackMoved ==
  ASSUME RInv, NEW n \in Name, AtName(n), stack' = Advanced
  PROVE  Todo \subseteq Todo' \cup {n} /\ Held' = Held
<1>1. /\ stack # <<>> /\ 1 \in 1 .. Len(stack) /\ Len(stack) \in Nat
      /\ stack[1].i \in 1 .. Len(stack[1].names) /\ n = stack[1].names[stack[1].i] /\ stack[1].names \in Seq(Name)
  BY At
<1>2. stack \in Seq(FrameSet)
  BY DEF RInv
<1>3. /\ Len(stack') = Len(stack)
      /\ \A k \in 1 .. Len(stack) :
           /\ stack'[k].names = stack[k].names /\ stack'[k].pkg = stack[k].pkg
           /\ stack'[k].i = IF k = 1 THEN stack[k].i + 1 ELSE stack[k].i
  BY <1>1, <1>2, Moved
<1>4. Held' = Held
  BY <1>3 DEF Held
<1>5. ASSUME NEW m \in Todo, m # n PROVE m \in Todo'
  <2>1. PICK k \in 1 .. Len(stack) : \E j \in stack[k].i .. Len(stack[k].names) : m = stack[k].names[j]
    BY InTodo
  <2>2. PICK j \in stack[k].i .. Len(stack[k].names) : m = stack[k].names[j]
    BY <2>1
  <2>3. j \in stack'[k].i .. Len(stack'[k].names) /\ m = stack'[k].names[j] /\ k \in 1 .. Len(stack')
    <3>1. CASE k = 1
      <4>1. j # stack[1].i /\ Len(stack[1].names) \in Nat
        BY <1>1, <1>5, <2>2, <3>1
      <4> QED
        BY <1>1, <1>3, <2>2, <3>1, <4>1
    <3>2. CASE k # 1
      BY <1>3, <2>2, <3>2
    <3> QED
      BY <3>1, <3>2
  <2> QED
    BY <2>3, SMTT(30) DEF Todo
<1> QED
  BY <1>4, <1>5

LEMMA StackCalled ==
  ASSUME RInv, NEW n \in Name, AtName(n),
         NEW names \in Seq(Name), NEW pkg \in Name \cup {NULL}, Call(names, pkg)
  PROVE  /\ Todo \subseteq Todo' \cup {n} /\ Range(names) \subseteq Todo'
         /\ Held' = Held \cup ({pkg} \ {NULL})
<1>1. /\ stack # <<>> /\ 1 \in 1 .. Len(stack) /\ Len(stack) \in Nat
      /\ stack[1].i \in 1 .. Len(stack[1].names) /\ n = stack[1].names[stack[1].i] /\ stack[1].names \in Seq(Name)
  BY At
<1>2. stack \in Seq(FrameSet)
  BY DEF RInv
<1>3. /\ Len(stack') = Len(stack) + 1
      /\ stack'[1].names = names /\ stack'[1].pkg = pkg /\ stack'[1].i = 1
      /\ \A k \in 2 .. Len(stack) + 1 :
           /\ stack'[k].names = stack[k - 1].names /\ stack'[k].pkg = stack[k - 1].pkg
           /\ stack'[k].i = IF k = 2 THEN stack[k - 1].i + 1 ELSE stack[k - 1].i
  BY <1>1, <1>2, Called
<1>4. \A k \in 1 .. Len(stack') : k = 1 \/ (k \in 2 .. Len(stack) + 1 /\ k - 1 \in 1 .. Len(stack))
  BY <1>1, <1>3
<1>5. \A k \in 1 .. Len(stack) : k + 1 \in 2 .. Len(stack) + 1 /\ k + 1 \in 1 .. Len(stack') /\ (k + 1) - 1 = k
  BY <1>1, <1>3
<1>6. 1 \in 1 .. Len(stack')
  BY <1>1, <1>3
<1>7. { stack'[k].pkg : k \in 1 .. Len(stack') } = { stack[k].pkg : k \in 1 .. Len(stack) } \cup {pkg}
  <2>1. ASSUME NEW k \in 1 .. Len(stack') PROVE stack'[k].pkg = pkg \/ \E h \in 1 .. Len(stack) : stack'[k].pkg = stack[h].pkg
    BY <1>3, <1>4
  <2>2. ASSUME NEW h \in 1 .. Len(stack) PROVE \E k \in 1 .. Len(stack') : stack'[k].pkg = stack[h].pkg
    <3>1. PICK k \in 1 .. Len(stack') : k = h + 1 /\ k \in 2 .. Len(stack) + 1 /\ k - 1 = h
      BY <1>5
    <3>2. stack'[k].pkg = stack[h].pkg
      BY <1>3, <3>1
    <3> QED
      BY <3>2
  <2>3. \E k \in 1 .. Len(stack') : stack'[k].pkg = pkg
    BY <1>3, <1>6
  <2> DEFINE A == { stack'[k].pkg : k \in 1 .. Len(stack') }
             B == { stack[k].pkg : k \in 1 .. Len(stack) }
  <2>4. A \subseteq B \cup {pkg}
    BY <2>1
  <2>5. B \subseteq A /\ pkg \in A
    BY <2>2, <2>3
  <2> HIDE DEF A, B
  <2>6. A = B \cup {pkg}
    BY <2>4, <2>5
  <2> QED
    BY <2>6 DEF A, B
<1>8. Held' = Held \cup ({pkg} \ {NULL})
  BY <1>7 DEF Held
<1>9. ASSUME NEW m \in Todo, m # n PROVE m \in Todo'
  <2>1. PICK k \in 1 .. Len(stack) : \E j \in stack[k].i .. Len(stack[k].names) : m = stack[k].names[j]
    BY InTodo
  <2>2. PICK j \in stack[k].i .. Len(stack[k].names) : m = stack[k].names[j]
    BY <2>1
  <2>3. PICK h \in 1 .. Len(stack') : h = k + 1 /\ h \in 2 .. Len(stack) + 1 /\ h - 1 = k
    BY <1>5
  <2>4. /\ stack'[h].names = stack[k].names
        /\ stack'[h].i = IF h = 2 THEN stack[k].i + 1 ELSE stack[k].i
    BY <1>3, <2>3, ZenonT(30)
  <2>5. j \in stack'[h].i .. Len(stack'[h].names) /\ m = stack'[h].names[j]
    <3>1. CASE k = 1
      <4>1. j # stack[1].i /\ Len(stack[1].names) \in Nat
        BY <1>1, <1>9, <2>2, <3>1
      <4> QED
        BY <1>1, <2>2, <2>3, <2>4, <3>1, <4>1
    <3>2. CASE k # 1
      BY <2>2, <2>3, <2>4, <3>2
    <3> QED
      BY <3>1, <3>2
  <2>6. m \in { stack'[h].names[g] : g \in stack'[h].i .. Len(stack'[h].names) }
    BY <2>5
  <2> QED
    BY <2>6 DEF Todo
<1>10. Range(names) \subseteq Todo'
  <2> SUFFICES ASSUME NEW m \in Range(names) PROVE m \in Todo'
    OBVIOUS
  <2>1. PICK j \in 1 .. Len(names) : m = names[j]
    BY DEF Range
  <2>2. j \in stack'[1].i .. Len(stack'[1].names) /\ m = stack'[1].names[j]
    BY <1>3, <2>1
  <2> QED
    BY <1>6, <2>2 DEF Todo
<1> QED
  BY <1>8, <1>9, <1>10

LEMMA StackPopped ==
  ASSUME RInv, Return
  PROVE  Todo \subseteq Todo' /\ Held \subseteq Held' \cup {stack[1].pkg} /\ Held' \subseteq Held
<1>1. /\ stack # <<>> /\ 1 \in 1 .. Len(stack) /\ Len(stack) \in Nat /\ stack' = Tail(stack)
      /\ stack[1].i = Len(stack[1].names) + 1 /\ stack[1].names \in Seq(Name)
  BY ReturnDoes
<1>2. stack \in Seq(FrameSet)
  BY DEF RInv
<1>3. Len(stack') = Len(stack) - 1 /\ \A k \in 1 .. Len(stack) - 1 : stack'[k] = stack[k + 1]
  BY <1>1, <1>2, Popped
<1>4. \A k \in 1 .. Len(stack) : k # 1 => k - 1 \in 1 .. Len(stack') /\ stack'[k - 1] = stack[k]
  BY <1>1, <1>3
<1>5. \A k \in 1 .. Len(stack') : k + 1 \in 1 .. Len(stack) /\ stack'[k] = stack[k + 1]
  BY <1>1, <1>3
<1>6. Held \subseteq Held' \cup {stack[1].pkg}
  BY <1>4 DEF Held
<1>7. Held' \subseteq Held
  BY <1>5 DEF Held
<1>8. ASSUME NEW m \in Todo PROVE m \in Todo'
  <2>1. PICK k \in 1 .. Len(stack) : \E j \in stack[k].i .. Len(stack[k].names) : m = stack[k].names[j]
    BY InTodo
  <2>2. k # 1
    <3>1. Len(stack[1].names) \in Nat
      BY <1>1
    <3> QED
      BY <1>1, <2>1, <3>1
  <2>3. k - 1 \in 1 .. Len(stack') /\ stack'[k - 1] = stack[k]
    BY <1>4, <2>2
  <2> QED
    BY <2>1, <2>3 DEF Todo
<1> QED
  BY <1>6, <1>7, <1>8

----------------------------------------------------------------------------
(* No name is cached more than twice, so the cache is at most twice as     *)
(* large as there are names.                                               *)
LEMMA CacheBound ==
  ASSUME RInv, NoNameThrice
  PROVE  cache_list.size <= 2 * Cardinality(Name)
<1> DEFINE D == 1 .. cache_list.size
           again(i) == IF i > 1 /\ cache_list.data[i - 1] = cache_list.data[i] THEN 1 ELSE 0
           f == [i \in D |-> <<cache_list.data[i], again(i)>>]
<1>1. cache_list.size \in Nat /\ \A i \in D : cache_list.data[i] \in Name
  BY DEF RInv, RowOfNames, Row, Elements
<1>2. f \in [D -> Name \X (0 .. 1)]
  BY <1>1
<1>3. ASSUME NEW i \in D, NEW k \in D, f[i] = f[k], i < k PROVE FALSE
  <2>1. cache_list.data[i] = cache_list.data[k] /\ again(i) = again(k)
    <3>1. <<cache_list.data[i], again(i)>> = <<cache_list.data[k], again(k)>>
      BY <1>3
    <3> HIDE DEF again
    <3> QED
      BY <3>1
  <2>2. k = i + 1
    BY <1>1, <1>3, <2>1 DEF NoNameThrice
  <2>3. again(k) = 1
    <3>1. k - 1 = i /\ k > 1
      BY <1>1, <2>2
    <3> QED
      BY <2>1, <3>1
  <2>4. i > 1 /\ cache_list.data[i - 1] = cache_list.data[i]
    BY <2>1, <2>3
  <2>5. i - 1 \in D /\ i - 1 < k /\ cache_list.data[i - 1] = cache_list.data[k]
    BY <1>1, <1>3, <2>1, <2>4
  <2>6. k = (i - 1) + 1
    BY <1>1, <2>5 DEF NoNameThrice
  <2> QED
    BY <1>1, <2>2, <2>6
<1>4. \A i, k \in D : f[i] = f[k] => i = k
  <2> SUFFICES ASSUME NEW i \in D, NEW k \in D, f[i] = f[k] PROVE i = k
    OBVIOUS
  <2> HIDE DEF f
  <2>1. ~(i < k) /\ ~(k < i)
    BY <1>3
  <2> QED
    BY <1>1, <2>1
<1> HIDE DEF f
<1>5. f \in Injection(D, Name \X (0 .. 1))
  BY <1>2, <1>4 DEF Injection, IsInjective
<1>6. IsFiniteSet(0 .. 1) /\ Cardinality(0 .. 1) = 2
  <2>0. 0 \in Int /\ 1 \in Int
    OBVIOUS
  <2>1. IsFiniteSet(0 .. 1) /\ Cardinality(0 .. 1) = IF 0 > 1 THEN 0 ELSE 1 - 0 + 1
    BY <2>0, FS_Interval, Zenon
  <2> QED
    BY <2>1
<1>7. IsFiniteSet(Name \X (0 .. 1)) /\ Cardinality(Name \X (0 .. 1)) = Cardinality(Name) * 2
  BY <1>6, FS_Product, ResolveAssumption
<1>8. Cardinality(D) <= Cardinality(Name) * 2
  BY <1>5, <1>7, FS_Injection
<1>9. Cardinality(D) = cache_list.size
  <2>1. Cardinality(D) = IF 1 > cache_list.size THEN 0 ELSE cache_list.size - 1 + 1
    BY <1>1, FS_Interval
  <2> QED
    BY <1>1, <2>1
<1>10. Cardinality(Name) \in Nat
  BY FS_CardinalityType, ResolveAssumption
<1> QED
  BY <1>8, <1>9, <1>10

LEMMA NeverCut ==
  ASSUME RInv, NoNameThrice, Uncut
  PROVE  ~(world.max_depth < depth)
<1>1. cache_list.size <= 2 * Cardinality(Name)
  BY CacheBound
<1>2. world.max_depth \in Nat /\ depth \in Int /\ depth <= cache_list.size /\ cache_list.size \in Nat
  BY WorldType DEF RInv, RowOfNames, Row
<1>3. Cardinality(Name) \in Nat
  BY FS_CardinalityType, ResolveAssumption
<1> QED
  BY <1>1, <1>2, <1>3 DEF Uncut

Aim(n) == IF world.mode = "install" THEN Chosen(n) ELSE n

Cover == Elements(cache_list) \cup Todo

(* Listed, or about to be when its call returns.                           *)
Listing == Elements(need_install) \cup (IF world.mode = "install" THEN Held ELSE {})

(* Unless a depth limit cuts it short, resolution loses nothing: what a    *)
(* cached name or a listed package leads to is cached or still to come.    *)
CInv ==
  Uncut =>
    /\ Range(world.request) \subseteq Cover
    /\ \A n \in Elements(cache_list) :
         IF world.kind[n] = "set" THEN Parts(n) \subseteq Cover
         ELSE Needed(Aim(n)) => Aim(n) \in Listing
    /\ \A p \in Listing : LeadsTo(p) \subseteq Cover

LEMMA CacheGrows ==
  ASSUME RInv, NEW n \in Name, Visit(n)
  PROVE  /\ Elements(cache_list') = Elements(cache_list) \cup {n}
         /\ Cached(n) => n \in Elements(cache_list)
<1>1. RowOfNames(cache_list)
  BY DEF RInv
<1>2. Cached(n) => n \in Elements(cache_list)
  BY <1>1, HasElements DEF Cached
<1>3. CASE Cached(n)
  <2>1. cache_list' = cache_list
    BY <1>3, VisitDoes
  <2> QED
    BY <1>2, <1>3, <2>1
<1>4. CASE ~Cached(n)
  <2>1. cache_list' = array_add(cache_list, n)
    BY <1>4, VisitDoes
  <2> QED
    BY <1>1, <1>2, <2>1, ElementsAdd
<1> QED
  BY <1>3, <1>4

(* What is to come is only taken off to be cached.                         *)
LEMMA CoverGrows ==
  ASSUME RInv, NEW n \in Name, Visit(n)
  PROVE  /\ Cover \subseteq Cover' /\ Held \subseteq Held' /\ Elements(need_install) \subseteq Elements(need_install')
         /\ stack' = Advanced => Held' = Held
<1>1. AtName(n) /\ RowOfNames(need_install)
  BY VisitDoes DEF RInv
<1>2. \/ stack' = Advanced
      \/ \E names \in Seq(Name), pkg \in Name \cup {NULL} : Call(names, pkg)
  BY VisitDoes
<1>3. Todo \subseteq Todo' \cup {n} /\ Held \subseteq Held' /\ (stack' = Advanced => Held' = Held)
  <2>1. CASE stack' = Advanced
    BY <1>1, <2>1, StackMoved
  <2>2. CASE stack' # Advanced
    <3>1. PICK names \in Seq(Name) : \E pkg \in Name \cup {NULL} : Call(names, pkg)
      BY <1>2, <2>2
    <3>2. PICK pkg \in Name \cup {NULL} : Call(names, pkg)
      BY <3>1
    <3>3. Todo \subseteq Todo' \cup {n} /\ Held' = Held \cup ({pkg} \ {NULL})
      BY <1>1, <3>2, StackCalled
    <3> QED
      BY <2>2, <3>3
  <2> QED
    BY <2>1, <2>2
<1>4. Elements(cache_list') = Elements(cache_list) \cup {n}
  BY CacheGrows
<1>5. Cover \subseteq Cover'
  BY <1>3, <1>4 DEF Cover
<1>6. Elements(need_install) \subseteq Elements(need_install')
  BY <1>1, VisitDoes, ElementsAdd
<1> QED
  BY <1>3, <1>5, <1>6

(* A name that is cached by this step is followed up by it.                *)
LEMMA VisitIsComplete ==
  ASSUME RInv, SInv, NoNameThrice, Uncut, NEW n \in Name, Visit(n), ~Cached(n)
  PROVE  /\ IF world.kind[n] = "set" THEN Parts(n) \subseteq Cover'
            ELSE Needed(Aim(n)) => Aim(n) \in Listing'
         /\ Listing' \subseteq Listing \cup { p \in Name : LeadsTo(p) \subseteq Cover' }
<1>1. world \in Worlds /\ RowOfNames(need_install) /\ AtName(n) /\ world' = world
  BY VisitDoes DEF RInv
<1>2. ~(world.max_depth < depth)
  BY NeverCut
<1>3. /\ Chosen(n) \in Name
      /\ world.kind[n] # "set" => IsPackage(world, Chosen(n))
  BY <1>1, ChosenType
<1>4. world.parts[n] \in Seq(Name) /\ world.parts[Chosen(n)] \in Seq(Name) /\ Dependents(n) \in Seq(Name)
  BY <1>1, <1>3, WorldType, DependentsType
<1>5. /\ Elements(need_install) \subseteq Elements(need_install') /\ Held \subseteq Held'
      /\ stack' = Advanced => Held' = Held
  BY CoverGrows
<1>6. ~SkipCached(n)
  BY DEF SkipCached
<1>7. CASE OpenSet(n)
  <2>1. Call(world.parts[n], NULL) /\ need_install' = need_install /\ world.kind[n] = "set"
    BY <1>7 DEF OpenSet
  <2>2. Range(world.parts[n]) \subseteq Todo' /\ Held' = Held \cup ({NULL} \ {NULL})
    BY <1>1, <1>4, <2>1, StackCalled
  <2>3. Parts(n) \subseteq Cover'
    BY <2>2 DEF Cover, Parts
  <2>4. Listing' = Listing
    BY <1>1, <2>1, <2>2 DEF Listing
  <2> QED
    BY <2>1, <2>3, <2>4
<1>8. CASE Pass(n)
  <2>1. /\ stack' = Advanced /\ need_install' = need_install /\ world.kind[n] # "set" /\ world.mode = "install"
        /\ array_has(need_install, Chosen(n)) \/ (~Wanted(Chosen(n)) /\ ~Missing(Chosen(n)))
    BY <1>2, <1>8 DEF Pass
  <2>2. Listing' = Listing
    BY <1>1, <1>5, <2>1 DEF Listing
  <2>3. Needed(Chosen(n)) => Chosen(n) \in Elements(need_install)
    <3>1. CASE array_has(need_install, Chosen(n))
      BY <1>1, <1>3, <3>1, HasElements
    <3>2. CASE ~Wanted(Chosen(n))
      BY <1>1, <1>3, <2>1, <3>2, WantedIsNeeded
    <3> QED
      BY <2>1, <3>1, <3>2
  <2> QED
    BY <2>1, <2>2, <2>3 DEF Aim, Listing
<1>9. CASE NotInstallable(n)
  <2>1. /\ stack' = Advanced /\ need_install' = need_install /\ world.kind[n] # "set" /\ world.mode = "install"
        /\ Missing(Chosen(n))
    BY <1>9 DEF NotInstallable
  <2>2. Listing' = Listing
    BY <1>1, <1>5, <2>1 DEF Listing
  <2>3. ~Needed(Chosen(n))
    BY <1>1, <1>3, <2>1, WantedIsNeeded
  <2> QED
    BY <2>1, <2>2, <2>3 DEF Aim
<1>10. CASE Require(n)
  <2> DEFINE p == Chosen(n)
  <2>1. Wanted(p) /\ p \in Name /\ IsPackage(world, p) /\ world.mode = "install" /\ world.kind[n] # "set"
    BY <1>3, <1>10 DEF Require
  <2>2. Needed(p) /\ world.kind[p] # "set"
    BY <1>1, <2>1, WantedIsNeeded DEF IsPackage
  <2>3. CASE Flag("ignore-dependency")
    <3>1. need_install' = array_add(need_install, p) /\ stack' = Advanced
      BY <1>10, <2>3 DEF Require
    <3>2. Elements(need_install') = Elements(need_install) \cup {p} /\ Held' = Held
      BY <1>1, <1>5, <2>1, <3>1, ElementsAdd
    <3>3. LeadsTo(p) = {}
      BY <2>1, <2>2, <2>3 DEF LeadsTo, IsPackage
    <3>4. Listing' = Listing \cup {p}
      BY <1>1, <2>1, <3>2 DEF Listing
    <3> QED
      BY <2>1, <3>3, <3>4 DEF Aim
  <2>4. CASE ~Flag("ignore-dependency")
    <3>1. Call(world.parts[p], p) /\ need_install' = need_install
      BY <1>10, <2>4 DEF Require
    <3>2. Range(world.parts[p]) \subseteq Todo' /\ Held' = Held \cup ({p} \ {NULL})
      BY <1>1, <1>4, <2>1, <3>1, StackCalled
    <3>3. LeadsTo(p) = Parts(p)
      BY <2>1, <2>2, <2>4, LeadsToParts
    <3>4. LeadsTo(p) \subseteq Cover'
      BY <3>2, <3>3 DEF Cover, Parts
    <3>5. p # NULL
      BY <2>1, ResolveAssumption
    <3>6. Listing' = Listing \cup {p}
      BY <1>1, <2>1, <3>1, <3>2, <3>5 DEF Listing
    <3> QED
      BY <2>1, <3>4, <3>6 DEF Aim
  <2> QED
    BY <2>3, <2>4
<1>11. CASE PassReverse(n)
  <2>1. /\ stack' = Advanced /\ need_install' = need_install /\ world.kind[n] # "set" /\ world.mode = "remove"
        /\ ~Installed(n)
    BY <1>2, <1>11 DEF PassReverse
  <2>2. Listing' = Listing
    BY <1>1, <1>5, <2>1 DEF Listing
  <2>3. ~Needed(n)
    BY <2>1 DEF Needed
  <2> QED
    BY <2>1, <2>2, <2>3 DEF Aim
<1>12. CASE RequireReverse(n)
  <2>1. world.mode = "remove" /\ world.kind[n] # "set" /\ Installed(n) /\ need_install' = array_add(need_install, n)
    BY <1>12 DEF RequireReverse
  <2>2. Needed(n)
    BY <2>1 DEF Needed
  <2>3. Elements(need_install') = Elements(need_install) \cup {n}
    BY <1>1, <2>1, ElementsAdd
  <2>4. Listing' = Listing \cup {n}
    BY <1>1, <2>1, <2>3 DEF Listing
  <2>5. LeadsTo(n) \subseteq Cover'
    <3>1. CASE Flag("ignore-dependency")
      <4>1. ~(world.kind[n] = "or" /\ world.mode = "install")
        BY <2>1
      <4>2. LeadsTo(n) = {}
        BY <2>1, <3>1, <4>1 DEF LeadsTo
      <4> QED
        BY <4>2
    <3>2. CASE ~Flag("ignore-dependency")
      <4>1. Call(Dependents(n), n)
        BY <1>12, <3>2 DEF RequireReverse
      <4>2. Range(Dependents(n)) \subseteq Todo'
        BY <1>1, <1>4, <4>1, StackCalled
      <4>3. LeadsTo(n) = { q \in world.installed : n \in Parts(q) }
        BY <2>1, <2>2, <3>2, LeadsToParts
      <4>4. LeadsTo(n) = Range(Dependents(n))
        BY <1>1, <4>3, DependentsType
      <4> QED
        BY <4>2, <4>4 DEF Cover
    <3> QED
      BY <3>1, <3>2
  <2> QED
    BY <2>1, <2>4, <2>5 DEF Aim
<1> QED
  BY <1>6, <1>7, <1>8, <1>9, <1>10, <1>11, <1>12 DEF Visit

LEMMA SameAim ==
  ASSUME world' = world
  PROVE  (\A n : Aim(n)' = Aim(n)) /\ (Uncut' <=> Uncut)
<1>1. \A n : Chosen(n)' = Chosen(n)
  BY SameWorld
<1> QED
  BY <1>1 DEF Aim, Uncut

LEMMA NextCInv == RInv /\ SInv /\ NoNameThrice /\ CInv /\ [Next]_vars => CInv'
<1> SUFFICES ASSUME RInv, SInv, NoNameThrice, CInv, [Next]_vars PROVE CInv'
  OBVIOUS
<1>0. world' = world
  <2>1. \A n \in Name : Visit(n) => world' = world
    BY VisitDoes
  <2> QED
    BY <2>1 DEF Next, Return, Finish, Returned, vars
<1>1. /\ \A n : /\ Parts(n)' = Parts(n) /\ LeadsTo(n)' = LeadsTo(n) /\ Aim(n)' = Aim(n)
                /\ (Needed(n)' <=> Needed(n))
      /\ Uncut' <=> Uncut
  BY <1>0, SameWorld, SameAim
<1> DEFINE Follows(n, c, l) == IF world.kind[n] = "set" THEN Parts(n) \subseteq c
                               ELSE Needed(Aim(n)) => Aim(n) \in l
<1>2. ASSUME Uncut
      PROVE  /\ Range(world.request) \subseteq Cover
             /\ \A n \in Elements(cache_list) : Follows(n, Cover, Listing)
             /\ \A p \in Listing : LeadsTo(p) \subseteq Cover
  BY <1>2 DEF CInv
<1>3. ASSUME Uncut => /\ Range(world.request) \subseteq Cover'
                      /\ \A n \in Elements(cache_list') : Follows(n, Cover', Listing')
                      /\ \A p \in Listing' : LeadsTo(p) \subseteq Cover'
      PROVE  CInv'
  <2>1. Uncut => Range(world'.request) \subseteq Cover'
    BY <1>0, <1>3
  <2>2. Uncut => \A p \in Listing' : LeadsTo(p)' \subseteq Cover'
    BY <1>1, <1>3
  <2>3. Uncut => \A n \in Elements(cache_list') :
          IF world'.kind[n] = "set" THEN Parts(n)' \subseteq Cover'
          ELSE Needed(Aim(n)') => Aim(n)' \in Listing'
    BY <1>0, <1>1, <1>3
  <2>4. Uncut => \A n \in Elements(cache_list') :
          IF world'.kind[n] = "set" THEN Parts(n)' \subseteq Cover'
          ELSE Needed(Aim(n))' => Aim(n)' \in Listing'
    <3>1. \A n : Needed(Aim(n))' <=> Needed(Aim(n)')
      <4>1. \A n : Aim(n)' = Aim(n)
        BY <1>1
      <4>2. ASSUME NEW n PROVE Needed(Aim(n))' <=> Needed(Aim(n)')
        BY <1>0, <4>1, SameWorld DEF Needed, Current, Flag, Installed, Parts
      <4> QED
        BY <4>2
    <3> QED
      BY <2>3, <3>1
  <2> QED
    BY <1>1, <2>1, <2>2, <2>4 DEF CInv
<1>4. ASSUME Cover \subseteq Cover', Listing \subseteq Listing',
             Elements(cache_list') \subseteq Elements(cache_list),
             Listing' \subseteq Listing
      PROVE  CInv'
  BY <1>2, <1>3, <1>4
<1>5. ASSUME NEW n \in Name, Visit(n) PROVE CInv'
  <2>1. /\ Cover \subseteq Cover' /\ Held \subseteq Held' /\ Elements(need_install) \subseteq Elements(need_install')
        /\ Elements(cache_list') = Elements(cache_list) \cup {n}
        /\ Cached(n) => n \in Elements(cache_list)
    BY <1>5, CoverGrows, CacheGrows
  <2>2. Listing \subseteq Listing'
    BY <1>0, <2>1 DEF Listing
  <2>3. CASE Cached(n)
    <3>1. SkipCached(n)
      BY <1>5, <2>3 DEF Visit, OpenSet, Pass, NotInstallable, Require, PassReverse, RequireReverse, Fresh
    <3>2. stack' = Advanced /\ need_install' = need_install
      BY <3>1 DEF SkipCached
    <3>3. Held' = Held
      BY <1>5, <3>2, CoverGrows
    <3>4. Listing' = Listing
      BY <1>0, <3>2, <3>3 DEF Listing
    <3> QED
      BY <1>4, <2>1, <2>3, <3>4
  <2>4. CASE ~Cached(n) /\ Uncut
    <3>1. Follows(n, Cover', Listing') /\ Listing' \subseteq Listing \cup { p \in Name : LeadsTo(p) \subseteq Cover' }
      BY <1>5, <2>4, VisitIsComplete
    <3>2. \A m \in Elements(cache_list) : Follows(m, Cover', Listing')
      BY <1>2, <2>1, <2>2, <2>4
    <3>3. \A m \in Elements(cache_list') : Follows(m, Cover', Listing')
      <4> HIDE DEF Follows
      <4> QED
        BY <2>1, <3>1, <3>2
    <3>4. \A p \in Listing' : LeadsTo(p) \subseteq Cover'
      BY <1>2, <2>1, <2>4, <3>1
    <3>5. Range(world.request) \subseteq Cover'
      BY <1>2, <2>1, <2>4
    <3> QED
      BY <1>3, <3>3, <3>4, <3>5
  <2>5. CASE ~Uncut
    BY <1>3, <2>5
  <2> QED
    BY <2>3, <2>4, <2>5
<1>6. CASE Return
  <2>1. /\ cache_list' = cache_list
        /\ IF world.mode = "install" /\ stack[1].pkg # NULL
             THEN stack[1].pkg \in Name /\ need_install' = array_add(need_install, stack[1].pkg)
             ELSE need_install' = need_install
        /\ 1 \in 1 .. Len(stack)
    BY <1>6, ReturnDoes
  <2>2. Todo \subseteq Todo' /\ Held \subseteq Held' \cup {stack[1].pkg} /\ Held' \subseteq Held
    BY <1>6, StackPopped
  <2>3. Cover \subseteq Cover'
    BY <2>1, <2>2 DEF Cover
  <2>4. Listing' = Listing
    <3>1. CASE world.mode = "install" /\ stack[1].pkg # NULL
      <4>1. RowOfNames(need_install)
        BY DEF RInv
      <4>2. Elements(need_install') = Elements(need_install) \cup {stack[1].pkg}
        BY <2>1, <3>1, <4>1, ElementsAdd
      <4>3. stack[1].pkg \in Held
        BY <2>1, <3>1 DEF Held
      <4> QED
        BY <1>0, <2>2, <3>1, <4>2, <4>3 DEF Listing
    <3>2. CASE world.mode = "install" /\ stack[1].pkg = NULL
      <4>1. NULL \notin Held
        BY DEF Held
      <4>2. Held' = Held
        BY <2>2, <3>2, <4>1
      <4> QED
        BY <1>0, <2>1, <3>2, <4>2 DEF Listing
    <3>3. CASE world.mode # "install"
      BY <1>0, <2>1, <3>3 DEF Listing
    <3> QED
      BY <3>1, <3>2, <3>3
  <2> QED
    BY <1>4, <2>1, <2>3, <2>4
<1>7. CASE Finish \/ UNCHANGED vars
  <2>1. UNCHANGED <<world, stack, cache_list, need_install>>
    BY <1>7 DEF Finish, vars
  <2>2. Cover' = Cover /\ Listing' = Listing
    BY <2>1 DEF Cover, Listing, Todo, Held
  <2> QED
    BY <1>4, <2>1, <2>2
<1> QED
  BY <1>5, <1>6, <1>7 DEF Next, Returned

LEMMA InitCInv == Init => CInv
<1> SUFFICES ASSUME Init PROVE CInv
  OBVIOUS
<1>1. world \in Worlds /\ stack = <<Frame(world.request, NULL)>> /\ need_install = array_new /\ cache_list = array_new
  BY DEF Init
<1>2. world.request \in Seq(Name)
  BY <1>1, WorldType
<1>3. Elements(need_install) = {} /\ Elements(cache_list) = {}
  BY <1>1, NewRow DEF Elements
<1>4. /\ 1 \in 1 .. Len(stack) /\ stack[1].names = world.request /\ stack[1].i = 1
      /\ \A k \in 1 .. Len(stack) : stack[k].pkg = NULL
  BY <1>1 DEF Frame
<1>5. Held = {}
  BY <1>4 DEF Held
<1>6. Range(world.request) \subseteq Todo
  <2> SUFFICES ASSUME NEW m \in Range(world.request) PROVE m \in Todo
    OBVIOUS
  <2>1. PICK j \in 1 .. Len(world.request) : m = world.request[j]
    BY <1>2 DEF Range
  <2>2. m \in { stack[1].names[g] : g \in stack[1].i .. Len(stack[1].names) }
    BY <1>4, <2>1
  <2> QED
    BY <1>4, <2>2 DEF Todo
<1> QED
  BY <1>3, <1>5, <1>6 DEF CInv, Cover, Listing

LEMMA Completeness == Spec => []CInv
<1>1. Init => NoNameThrice
  BY NewRow DEF Init, NoNameThrice
<1> QED
  BY <1>1, Types, Soundness, NextNoNameThrice, InitCInv, NextCInv, PTL DEF Spec

LEMMA DoneIsEmpty ==
  ASSUME RInv, status = "done"
  PROVE  Todo = {} /\ Held = {} /\ Range(Listed) = Elements(need_install)
         /\ Listed = [j \in 1 .. need_install.size |-> need_install.data[j]]
<1>1. stack = <<>> /\ RowOfNames(need_install)
  BY DEF RInv
<1>2. Todo = {} /\ Held = {}
  <2>1. 1 .. Len(stack) = {}
    BY <1>1
  <2> QED
    BY <2>1 DEF Todo, Held
<1>3. Row(need_install) /\ need_install.size \in Nat /\ \A i \in 1 .. need_install.size : need_install.data[i] # NULL
  BY <1>1, ResolveAssumption DEF RowOfNames, Row, Elements
<1>4. Listed = [j \in 1 .. need_install.size |-> need_install.data[j]]
  BY <1>3, GetRow DEF Listed
<1>5. Range(Listed) = Elements(need_install)
  BY <1>4 DEF Range, Elements
<1> QED
  BY <1>2, <1>4, <1>5

THEOREM ResolutionIsExact == Spec => []ListIsExact
<1>1. RInv /\ SInv /\ CInv => ListIsExact
  <2> SUFFICES ASSUME RInv, SInv, CInv, status = "done"
               PROVE  /\ Range(Listed) \subseteq { p \in Requested : Needed(p) }
                      /\ Uncut => Range(Listed) = { p \in Requested : Needed(p) }
    BY DEF ListIsExact
  <2>1. Todo = {} /\ Held = {} /\ Range(Listed) = Elements(need_install)
    BY DoneIsEmpty
  <2>2. world \in Worlds /\ Elements(cache_list) \subseteq Name
    BY DEF RInv, RowOfNames
  <2>3. Range(Listed) \subseteq { p \in Requested : Needed(p) }
    BY <2>1 DEF SInv, Good
  <2>4. ASSUME Uncut, NEW g \in Requested, Needed(g) PROVE g \in Range(Listed)
    <3> DEFINE H == Elements(cache_list)
               C == H \cup { Aim(n) : n \in { m \in H : world.kind[m] # "set" } }
    <3>1. /\ Range(world.request) \subseteq H
          /\ \A n \in H : IF world.kind[n] = "set" THEN Parts(n) \subseteq H
                          ELSE Needed(Aim(n)) => Aim(n) \in Elements(need_install)
          /\ \A p \in Elements(need_install) : LeadsTo(p) \subseteq H
      BY <2>1, <2>4 DEF CInv, Cover, Listing
    <3>2. ASSUME NEW p, Needed(p) => p \in Elements(need_install),
                 world.kind[p] # "set", ~(world.kind[p] = "or" /\ world.mode = "install")
          PROVE  LeadsTo(p) \subseteq H
      <4>1. CASE Needed(p)
        BY <3>1, <3>2, <4>1
      <4>2. CASE ~Needed(p)
        <5>1. LeadsTo(p) = {}
          BY <3>2, <4>2 DEF LeadsTo
        <5> QED
          BY <5>1
      <4> QED
        BY <4>1, <4>2
    <3>3. ASSUME NEW n \in H, world.kind[n] # "set"
          PROVE  LeadsTo(Aim(n)) \subseteq H
      <4>1. n \in Name
        BY <2>2
      <4>2. world.kind[Aim(n)] # "set" /\ ~(world.kind[Aim(n)] = "or" /\ world.mode = "install")
        BY <2>2, <3>3, <4>1, ChosenType DEF Aim, IsPackage
      <4> QED
        BY <3>1, <3>2, <3>3, <4>2
    <3>4. ASSUME NEW n \in H PROVE LeadsTo(n) \subseteq C
      <4>1. CASE world.kind[n] = "set"
        <5>1. LeadsTo(n) = Parts(n)
          BY <4>1 DEF LeadsTo
        <5> QED
          BY <3>1, <4>1, <5>1
      <4>2. CASE world.kind[n] = "or" /\ world.mode = "install"
        <5>1. LeadsTo(n) = {Aim(n)}
          BY <4>2 DEF LeadsTo, Aim, Chosen
        <5> QED
          BY <4>2, <5>1
      <4>3. CASE world.kind[n] # "set" /\ ~(world.kind[n] = "or" /\ world.mode = "install")
        <5>1. Aim(n) = n
          BY <4>3 DEF Aim, Chosen
        <5> QED
          BY <3>3, <4>3, <5>1
      <4> QED
        BY <4>1, <4>2, <4>3
    <3> HIDE DEF H
    <3>5. Closed(C)
      BY <3>3, <3>4 DEF Closed
    <3>6. g \in C
      <4>1. Range(world.request) \subseteq C
        BY <3>1
      <4> HIDE DEF C
      <4>2. Requested \subseteq C
        BY <3>5, <4>1, ReachLeast DEF Requested
      <4> QED
        BY <2>4, <4>2
    <3>7. g \in Elements(need_install)
      <4>1. CASE g \in H
        <5>1. world.kind[g] # "set" /\ Aim(g) = g
          BY <2>4 DEF Needed, Aim, Chosen
        <5> QED
          BY <2>4, <3>1, <4>1, <5>1
      <4>2. CASE g \notin H
        <5>1. PICK n \in H : world.kind[n] # "set" /\ g = Aim(n)
          BY <3>6, <4>2
        <5> QED
          BY <2>4, <3>1, <5>1
      <4> QED
        BY <4>1, <4>2
    <3> QED
      BY <2>1, <3>7
  <2> QED
    BY <2>3, <2>4
<1> QED
  BY <1>1, Types, Soundness, Completeness, PTL

----------------------------------------------------------------------------
(* What a dependency stands for.                                           *)
Aims(d) == IF world.kind[d] = "set" THEN Parts(d) ELSE {Chosen(d)}

Sorted(i) ==
  \A d \in Parts(need_install.data[i]) :
    \/ need_install.data[i] \in Reach({d})
    \/ \A p \in Aims(d) :
         (Needed(p) /\ IsPackage(world, p)) => \E k \in 1 .. i - 1 : need_install.data[k] = p

(* A package's call has its dependencies, a call's names lead to all that  *)
(* the calls within it are about, a call has cached what it has visited,   *)
(* a cached set is being visited or has been, and the list is in order.    *)
PathInv ==
  /\ \A l \in 1 .. Len(stack) : stack[l].pkg # NULL =>
       IsPackage(world, stack[l].pkg) /\ Range(stack[l].names) = Parts(stack[l].pkg)
  /\ \A k, l \in 1 .. Len(stack) : k < l =>
       /\ Range(stack[k].names) \subseteq Reach(Range(stack[l].names))
       /\ stack[k].pkg # NULL => stack[k].pkg \in Reach(Range(stack[l].names))

VisitedInv ==
  /\ \A k \in 1 .. Len(stack) : \A j \in 1 .. stack[k].i - 1 : stack[k].names[j] \in Elements(cache_list)
  /\ \A n \in Elements(cache_list) : world.kind[n] = "set" =>
       \/ Parts(n) \subseteq Elements(cache_list)
       \/ \E l \in 1 .. Len(stack) : stack[l].pkg = NULL /\ Range(stack[l].names) = Parts(n)

InOrder == world.mode = "install" /\ ~Flag("ignore-dependency")

OInv ==
  InOrder => PathInv /\ VisitedInv /\ (Uncut => \A i \in 1 .. need_install.size : Sorted(i))

LEMMA ReachTrans ==
  ASSUME world \in Worlds, NEW S \in SUBSET Name, NEW T \in SUBSET Name, S \subseteq Reach(T)
  PROVE  Reach(S) \subseteq Reach(T)
<1>1. Closed(Reach(T))
  BY LeadsToType, ReachCloses
<1> QED
  BY <1>1, ReachLeast

LEMMA ReachHas ==
  ASSUME world \in Worlds, NEW S \in SUBSET Name
  PROVE  S \subseteq Reach(S) /\ Reach(S) \subseteq Name /\ \A n \in Reach(S) : LeadsTo(n) \subseteq Reach(S)
BY LeadsToType, ReachCloses DEF Closed

LEMMA FrameType ==
  ASSUME RInv, NEW k \in 1 .. Len(stack)
  PROVE  /\ stack[k].names \in Seq(Name) /\ Range(stack[k].names) \in SUBSET Name
         /\ stack[k].pkg \in Name \cup {NULL} /\ stack[k].i \in 1 .. Len(stack[k].names) + 1
<1>1. stack \in Seq(FrameSet) /\ stack[k].i \in 1 .. Len(stack[k].names) + 1
  BY DEF RInv
<1>2. stack[k] \in FrameSet
  BY <1>1
<1>3. stack[k].names \in Seq(Name) /\ stack[k].pkg \in Name \cup {NULL}
  BY <1>2 DEF FrameSet
<1>4. Range(stack[k].names) \subseteq Name
  BY <1>3 DEF Range
<1> QED
  BY <1>1, <1>3, <1>4

(* A call that is made leads on from the name that is visited.             *)
LEMMA CallLeads ==
  ASSUME RInv, SInv, InOrder, NEW n \in Name, Visit(n), stack' # Advanced
  PROVE  \E names \in Seq(Name), pkg \in Name \cup {NULL} :
           /\ Call(names, pkg) /\ need_install' = need_install
           /\ world.kind[n] = "set" => pkg = NULL /\ Range(names) = Parts(n)
           /\ pkg # NULL => IsPackage(world, pkg) /\ Range(names) = Parts(pkg)
           /\ \A T \in SUBSET Name : n \in Reach(T) =>
                Range(names) \subseteq Reach(T) /\ (pkg # NULL => pkg \in Reach(T))
<1>1. world \in Worlds /\ world.mode = "install" /\ ~Flag("ignore-dependency")
  BY DEF RInv, InOrder
<1>2. /\ Chosen(n) \in Name
      /\ world.kind[n] # "set" => IsPackage(world, Chosen(n))
  BY <1>1, ChosenType
<1>3. world.parts[n] \in Seq(Name) /\ world.parts[Chosen(n)] \in Seq(Name)
  BY <1>1, <1>2, WorldType
<1>4. \A T \in SUBSET Name : \A m \in Reach(T) : LeadsTo(m) \subseteq Reach(T)
  BY <1>1, ReachHas
<1>5. OpenSet(n) \/ Require(n)
  BY <1>1 DEF Visit, SkipCached, Pass, NotInstallable, PassReverse, RequireReverse
<1>6. CASE OpenSet(n)
  <2>1. Call(world.parts[n], NULL) /\ need_install' = need_install /\ world.kind[n] = "set"
    BY <1>6 DEF OpenSet
  <2>2. LeadsTo(n) = Parts(n) /\ Range(world.parts[n]) = Parts(n)
    BY <2>1 DEF LeadsTo, Parts
  <2>3. \A T \in SUBSET Name : n \in Reach(T) => Range(world.parts[n]) \subseteq Reach(T)
    BY <1>4, <2>2
  <2> QED
    BY <1>3, <2>1, <2>2, <2>3
<1>7. CASE Require(n)
  <2> DEFINE p == Chosen(n)
  <2>1. /\ Call(world.parts[p], p) /\ need_install' = need_install /\ world.kind[n] # "set"
        /\ IsPackage(world, p) /\ p \in Name /\ Wanted(p)
    BY <1>1, <1>2, <1>7 DEF Require
  <2>2. Needed(p) /\ world.kind[p] # "set"
    BY <1>1, <2>1, WantedIsNeeded DEF IsPackage
  <2>3. LeadsTo(p) = Parts(p) /\ Range(world.parts[p]) = Parts(p)
    BY <1>1, <2>1, <2>2, LeadsToParts DEF Parts
  <2>4. p = n \/ p \in LeadsTo(n)
    BY <1>1, <2>1 DEF Chosen, LeadsTo
  <2>5. ASSUME NEW T \in SUBSET Name, n \in Reach(T) PROVE p \in Reach(T) /\ Range(world.parts[p]) \subseteq Reach(T)
    <3>1. p \in Reach(T)
      BY <1>4, <2>4, <2>5
    <3> QED
      BY <1>4, <2>3, <2>5, <3>1
  <2> HIDE DEF p
  <2>6. world.parts[p] \in Seq(Name)
    BY <1>3 DEF p
  <2> QED
    BY <2>1, <2>3, <2>5, <2>6
<1> QED
  BY <1>5, <1>6, <1>7

LEMMA VisitPath ==
  ASSUME RInv, SInv, InOrder, PathInv, NEW n \in Name, Visit(n)
  PROVE  PathInv'
<1>1. /\ stack # <<>> /\ 1 \in 1 .. Len(stack) /\ Len(stack) \in Nat /\ world' = world
      /\ stack[1].i \in 1 .. Len(stack[1].names) /\ n = stack[1].names[stack[1].i] /\ stack[1].names \in Seq(Name)
  BY VisitDoes, At
<1>2. stack \in Seq(FrameSet) /\ world \in Worlds
  BY DEF RInv
<1>3. (\A S : Reach(S)' = Reach(S)) /\ (\A m : Parts(m)' = Parts(m))
  BY <1>1, SameWorld
<1> DEFINE Own(names, pkg) == pkg # NULL => IsPackage(world, pkg) /\ Range(names) = Parts(pkg)
           Leads(outer, names, pkg) == /\ Range(names) \subseteq Reach(Range(outer))
                                       /\ pkg # NULL => pkg \in Reach(Range(outer))
<1>4. /\ \A l \in 1 .. Len(stack) : Own(stack[l].names, stack[l].pkg)
      /\ \A k, l \in 1 .. Len(stack) : k < l => Leads(stack[l].names, stack[k].names, stack[k].pkg)
  BY DEF PathInv
<1>5. ASSUME \A l \in 1 .. Len(stack') : Own(stack'[l].names, stack'[l].pkg),
             \A k, l \in 1 .. Len(stack') : k < l => Leads(stack'[l].names, stack'[k].names, stack'[k].pkg)
      PROVE  PathInv'
  <2>1. \A l \in 1 .. Len(stack') : stack'[l].pkg # NULL =>
          IsPackage(world', stack'[l].pkg) /\ Range(stack'[l].names) = Parts(stack[l].pkg)'
    BY <1>1, <1>3, <1>5
  <2>2. \A k, l \in 1 .. Len(stack') : k < l =>
          /\ Range(stack'[k].names) \subseteq Reach(Range(stack[l].names))'
          /\ stack'[k].pkg # NULL => stack'[k].pkg \in Reach(Range(stack[l].names))'
    BY <1>3, <1>5
  <2> QED
    BY <2>1, <2>2 DEF PathInv
<1>6. CASE stack' = Advanced
  <2>1. Len(stack') = Len(stack) /\ \A k \in 1 .. Len(stack) : stack'[k].names = stack[k].names /\ stack'[k].pkg = stack[k].pkg
    BY <1>1, <1>2, <1>6, Moved
  <2> HIDE DEF Own, Leads
  <2> QED
    BY <1>4, <1>5, <2>1
<1>7. CASE stack' # Advanced
  <2>1. PICK names \in Seq(Name) : \E pkg \in Name \cup {NULL} :
           /\ Call(names, pkg) /\ Own(names, pkg)
           /\ \A T \in SUBSET Name : n \in Reach(T) =>
                Range(names) \subseteq Reach(T) /\ (pkg # NULL => pkg \in Reach(T))
    BY <1>7, CallLeads
  <2>2. PICK pkg \in Name \cup {NULL} :
           /\ Call(names, pkg) /\ Own(names, pkg)
           /\ \A T \in SUBSET Name : n \in Reach(T) =>
                Range(names) \subseteq Reach(T) /\ (pkg # NULL => pkg \in Reach(T))
    BY <2>1
  <2>3. /\ Len(stack') = Len(stack) + 1
        /\ stack'[1].names = names /\ stack'[1].pkg = pkg
        /\ \A k \in 2 .. Len(stack) + 1 : stack'[k].names = stack[k - 1].names /\ stack'[k].pkg = stack[k - 1].pkg
    BY <1>1, <1>2, <2>2, Called
  <2>4. \A k \in 1 .. Len(stack') : k = 1 \/ (k \in 2 .. Len(stack) + 1 /\ k - 1 \in 1 .. Len(stack))
    BY <1>1, <2>3
  <2>5. n \in Range(stack[1].names)
    BY <1>1 DEF Range
  <2>6. ASSUME NEW l \in 1 .. Len(stack) PROVE n \in Reach(Range(stack[l].names))
    <3>1. Range(stack[l].names) \in SUBSET Name
      BY FrameType
    <3>2. CASE l = 1
      <4>1. Range(stack[l].names) \subseteq Reach(Range(stack[l].names))
        BY <1>2, <3>1, ReachHas
      <4> QED
        BY <2>5, <3>2, <4>1
    <3>3. CASE l # 1
      <4>1. 1 < l
        BY <3>3
      <4>2. Range(stack[1].names) \subseteq Reach(Range(stack[l].names))
        BY <1>1, <1>4, <4>1
      <4> QED
        BY <2>5, <4>2
    <3> QED
      BY <3>2, <3>3
  <2>7. ASSUME NEW l \in 1 .. Len(stack) PROVE Leads(stack[l].names, names, pkg)
    <3>1. Range(stack[l].names) \in SUBSET Name
      BY FrameType
    <3> QED
      BY <2>2, <2>6, <3>1
  <2> HIDE DEF Own, Leads
  <2>8. \A l \in 1 .. Len(stack') : Own(stack'[l].names, stack'[l].pkg)
    <3>1. ASSUME NEW l \in 1 .. Len(stack') PROVE Own(stack'[l].names, stack'[l].pkg)
      <4>1. CASE l = 1
        BY <2>2, <2>3, <4>1
      <4>2. CASE l # 1
        BY <1>4, <2>3, <2>4, <4>2
      <4> QED
        BY <4>1, <4>2
    <3> QED
      BY <3>1
  <2>9. ASSUME NEW k \in 1 .. Len(stack'), NEW l \in 1 .. Len(stack'), k < l
        PROVE  Leads(stack'[l].names, stack'[k].names, stack'[k].pkg)
    <3>1. l # 1 /\ l - 1 \in 1 .. Len(stack) /\ stack'[l].names = stack[l - 1].names
      BY <2>3, <2>4, <2>9
    <3>2. CASE k = 1
      <4>1. Leads(stack[l - 1].names, names, pkg)
        BY <2>7, <3>1
      <4> QED
        BY <2>3, <3>1, <3>2, <4>1
    <3>3. CASE k # 1
      <4>1. k - 1 \in 1 .. Len(stack) /\ k - 1 < l - 1 /\ stack'[k].names = stack[k - 1].names /\ stack'[k].pkg = stack[k - 1].pkg
        BY <2>3, <2>4, <2>9, <3>3
      <4>2. Leads(stack[l - 1].names, stack[k - 1].names, stack[k - 1].pkg)
        BY <1>4, <3>1, <4>1
      <4> QED
        BY <3>1, <4>1, <4>2
    <3> QED
      BY <3>2, <3>3
  <2> QED
    BY <1>5, <2>8, <2>9
<1> QED
  BY <1>6, <1>7

LEMMA ReturnPath ==
  ASSUME RInv, PathInv, Return
  PROVE  PathInv'
<1>1. /\ stack # <<>> /\ Len(stack) \in Nat /\ world' = world /\ stack' = Tail(stack) /\ stack \in Seq(FrameSet)
  BY ReturnDoes DEF RInv
<1>2. Len(stack') = Len(stack) - 1 /\ \A k \in 1 .. Len(stack) - 1 : stack'[k] = stack[k + 1]
  BY <1>1, Popped
<1>3. \A k \in 1 .. Len(stack') : k + 1 \in 1 .. Len(stack) /\ stack'[k] = stack[k + 1]
  BY <1>1, <1>2
<1>4. (\A S : Reach(S)' = Reach(S)) /\ (\A m : Parts(m)' = Parts(m))
  BY <1>1, SameWorld
<1>5. ASSUME NEW l \in 1 .. Len(stack'), stack'[l].pkg # NULL
      PROVE  IsPackage(world', stack'[l].pkg) /\ Range(stack'[l].names) = Parts(stack[l].pkg)'
  <2>1. l + 1 \in 1 .. Len(stack) /\ stack'[l] = stack[l + 1]
    BY <1>3
  <2>2. IsPackage(world, stack'[l].pkg) /\ Range(stack'[l].names) = Parts(stack'[l].pkg)
    BY <1>5, <2>1 DEF PathInv
  <2> QED
    BY <1>1, <1>4, <2>2
<1>6. ASSUME NEW k \in 1 .. Len(stack'), NEW l \in 1 .. Len(stack'), k < l
      PROVE  /\ Range(stack'[k].names) \subseteq Reach(Range(stack[l].names))'
             /\ stack'[k].pkg # NULL => stack'[k].pkg \in Reach(Range(stack[l].names))'
  <2>1. k + 1 \in 1 .. Len(stack) /\ l + 1 \in 1 .. Len(stack) /\ k + 1 < l + 1
        /\ stack'[k] = stack[k + 1] /\ stack'[l] = stack[l + 1]
    BY <1>3, <1>6
  <2>2. /\ Range(stack'[k].names) \subseteq Reach(Range(stack'[l].names))
        /\ stack'[k].pkg # NULL => stack'[k].pkg \in Reach(Range(stack'[l].names))
    BY <2>1 DEF PathInv
  <2> QED
    BY <1>4, <2>2
<1> QED
  BY <1>5, <1>6 DEF PathInv

LEMMA VisitVisited ==
  ASSUME RInv, SInv, InOrder, VisitedInv, NEW n \in Name, Visit(n)
  PROVE  VisitedInv'
<1>1. /\ stack # <<>> /\ 1 \in 1 .. Len(stack) /\ Len(stack) \in Nat /\ world' = world
      /\ stack[1].i \in 1 .. Len(stack[1].names) /\ n = stack[1].names[stack[1].i] /\ stack[1].names \in Seq(Name)
      /\ stack \in Seq(FrameSet) /\ world \in Worlds
  BY VisitDoes, At DEF RInv
<1>2. /\ Elements(cache_list') = Elements(cache_list) \cup {n}
      /\ Cached(n) => n \in Elements(cache_list)
  BY CacheGrows
<1>3. \A m : Parts(m)' = Parts(m)
  BY <1>1, SameWorld
<1> DEFINE H == Elements(cache_list)
           Visited1(names, i, h) == \A j \in 1 .. i - 1 : names[j] \in h
           InFrame(m) == \E l \in 1 .. Len(stack) : stack[l].pkg = NULL /\ Range(stack[l].names) = Parts(m)
           InFrameNext(m) == \E l \in 1 .. Len(stack') : stack'[l].pkg = NULL /\ Range(stack'[l].names) = Parts(m)
<1>4. /\ \A k \in 1 .. Len(stack) : Visited1(stack[k].names, stack[k].i, H)
      /\ \A m \in H : world.kind[m] = "set" => Parts(m) \subseteq H \/ InFrame(m)
  BY DEF VisitedInv
<1>5. ASSUME \A k \in 1 .. Len(stack') : Visited1(stack'[k].names, stack'[k].i, H \cup {n}),
             \A m \in H \cup {n} : world.kind[m] = "set" => Parts(m) \subseteq H \cup {n} \/ InFrameNext(m)
      PROVE  VisitedInv'
  <2>1. \A k \in 1 .. Len(stack') : \A j \in 1 .. stack'[k].i - 1 : stack'[k].names[j] \in Elements(cache_list')
    BY <1>2, <1>5
  <2>2. \A m \in Elements(cache_list') : world'.kind[m] = "set" =>
          \/ Parts(m)' \subseteq Elements(cache_list')
          \/ \E l \in 1 .. Len(stack') : stack'[l].pkg = NULL /\ Range(stack'[l].names) = Parts(m)'
    BY <1>1, <1>2, <1>3, <1>5
  <2> QED
    BY <2>1, <2>2 DEF VisitedInv
<1>6. ASSUME NEW k \in 1 .. Len(stack)
      PROVE  /\ Visited1(stack[k].names, stack[k].i, H \cup {n})
             /\ k = 1 => Visited1(stack[1].names, stack[1].i + 1, H \cup {n})
  <2>1. Visited1(stack[k].names, stack[k].i, H \cup {n})
    BY <1>4
  <2>2. ASSUME k = 1 PROVE Visited1(stack[1].names, stack[1].i + 1, H \cup {n})
    <3>1. \A j \in 1 .. (stack[1].i + 1) - 1 : j \in 1 .. stack[1].i - 1 \/ j = stack[1].i
      BY <1>1
    <3> QED
      BY <1>1, <1>4, <3>1
  <2> QED
    BY <2>1, <2>2
<1>7. CASE stack' = Advanced
  <2>1. /\ Len(stack') = Len(stack)
        /\ \A k \in 1 .. Len(stack) :
             /\ stack'[k].names = stack[k].names /\ stack'[k].pkg = stack[k].pkg
             /\ stack'[k].i = IF k = 1 THEN stack[k].i + 1 ELSE stack[k].i
    BY <1>1, <1>7, Moved
  <2>2. \A m : InFrame(m) => InFrameNext(m)
    BY <2>1
  <2>3. ASSUME NEW k \in 1 .. Len(stack') PROVE Visited1(stack'[k].names, stack'[k].i, H \cup {n})
    <3> HIDE DEF Visited1
    <3>1. CASE k = 1
      <4>1. stack'[k].names = stack[1].names /\ stack'[k].i = stack[1].i + 1
        BY <1>1, <2>1, <3>1
      <4> QED
        BY <1>1, <1>6, <4>1
    <3>2. CASE k # 1
      <4>1. stack'[k].names = stack[k].names /\ stack'[k].i = stack[k].i
        BY <2>1, <3>2
      <4> QED
        BY <1>6, <2>1, <4>1
    <3> QED
      BY <3>1, <3>2
  <2>4. world.kind[n] = "set" => n \in H
    <3> SUFFICES ASSUME world.kind[n] = "set", ~Cached(n) PROVE FALSE
      BY <1>2
    <3>1. OpenSet(n)
      BY DEF Visit, SkipCached, Pass, NotInstallable, Require, PassReverse, RequireReverse
    <3>2. Call(world.parts[n], NULL) /\ world.parts[n] \in Seq(Name)
      BY <1>1, <3>1, WorldType DEF OpenSet
    <3>3. Len(stack') = Len(stack) + 1
      BY <1>1, <3>2, Called
    <3> QED
      BY <1>1, <2>1, <3>3
  <2> HIDE DEF Visited1, InFrame, InFrameNext
  <2>5. \A m \in H \cup {n} : world.kind[m] = "set" => Parts(m) \subseteq H \cup {n} \/ InFrameNext(m)
    BY <1>4, <2>2, <2>4
  <2> QED
    BY <1>5, <2>3, <2>5
<1>8. CASE stack' # Advanced
  <2>1. PICK names \in Seq(Name) : \E pkg \in Name \cup {NULL} :
           Call(names, pkg) /\ (world.kind[n] = "set" => pkg = NULL /\ Range(names) = Parts(n))
    BY <1>8, CallLeads
  <2>2. PICK pkg \in Name \cup {NULL} :
           Call(names, pkg) /\ (world.kind[n] = "set" => pkg = NULL /\ Range(names) = Parts(n))
    BY <2>1
  <2>3. /\ Len(stack') = Len(stack) + 1
        /\ stack'[1].names = names /\ stack'[1].pkg = pkg /\ stack'[1].i = 1
        /\ \A k \in 2 .. Len(stack) + 1 :
             /\ stack'[k].names = stack[k - 1].names /\ stack'[k].pkg = stack[k - 1].pkg
             /\ stack'[k].i = IF k = 2 THEN stack[k - 1].i + 1 ELSE stack[k - 1].i
    BY <1>1, <2>2, Called
  <2>4. \A k \in 1 .. Len(stack') : k = 1 \/ (k \in 2 .. Len(stack) + 1 /\ k - 1 \in 1 .. Len(stack))
    BY <1>1, <2>3
  <2>5. ASSUME NEW m, InFrame(m) PROVE InFrameNext(m)
    <3>1. PICK l \in 1 .. Len(stack) : stack[l].pkg = NULL /\ Range(stack[l].names) = Parts(m)
      BY <2>5
    <3>2. PICK h \in 1 .. Len(stack') : h = l + 1 /\ h \in 2 .. Len(stack) + 1 /\ h - 1 = l
      BY <1>1, <2>3
    <3>3. stack'[h].names = stack[l].names /\ stack'[h].pkg = stack[l].pkg
      BY <2>3, <3>2
    <3> QED
      BY <3>1, <3>3
  <2>6. world.kind[n] = "set" => InFrameNext(n)
    <3>1. 1 \in 1 .. Len(stack')
      BY <1>1, <2>3
    <3> QED
      BY <2>2, <2>3, <3>1
  <2>7. ASSUME NEW k \in 1 .. Len(stack') PROVE Visited1(stack'[k].names, stack'[k].i, H \cup {n})
    <3>1. CASE k = 1
      BY <2>3, <3>1
    <3>2. CASE k = 2
      <4>1. stack'[k].names = stack[1].names /\ stack'[k].i = stack[1].i + 1
        BY <1>1, <2>3, <2>4, <3>2
      <4> HIDE DEF Visited1
      <4> QED
        BY <1>1, <1>6, <4>1
    <3>3. CASE k # 1 /\ k # 2
      <4>1. k - 1 \in 1 .. Len(stack) /\ stack'[k].names = stack[k - 1].names /\ stack'[k].i = stack[k - 1].i
        BY <2>3, <2>4, <3>3
      <4>2. Visited1(stack[k - 1].names, stack[k - 1].i, H \cup {n})
        BY <1>6, <4>1
      <4> HIDE DEF Visited1
      <4> QED
        BY <4>1, <4>2
    <3> QED
      BY <3>1, <3>2, <3>3
  <2> HIDE DEF Visited1, InFrame, InFrameNext
  <2>8. \A m \in H \cup {n} : world.kind[m] = "set" => Parts(m) \subseteq H \cup {n} \/ InFrameNext(m)
    BY <1>4, <2>5, <2>6
  <2> QED
    BY <1>5, <2>7, <2>8
<1> QED
  BY <1>7, <1>8

LEMMA ReturnVisited ==
  ASSUME RInv, VisitedInv, Return
  PROVE  VisitedInv'
<1>1. /\ stack # <<>> /\ Len(stack) \in Nat /\ UNCHANGED <<world, cache_list>> /\ stack' = Tail(stack)
      /\ stack \in Seq(FrameSet) /\ stack[1].i = Len(stack[1].names) + 1 /\ stack[1].names \in Seq(Name)
      /\ 1 \in 1 .. Len(stack)
  BY ReturnDoes DEF RInv
<1>2. Len(stack') = Len(stack) - 1 /\ \A k \in 1 .. Len(stack) - 1 : stack'[k] = stack[k + 1]
  BY <1>1, Popped
<1>3. \A k \in 1 .. Len(stack') : k + 1 \in 1 .. Len(stack) /\ stack'[k] = stack[k + 1]
  BY <1>1, <1>2
<1>4. \A k \in 1 .. Len(stack) : k # 1 => k - 1 \in 1 .. Len(stack') /\ stack'[k - 1] = stack[k]
  BY <1>1, <1>2
<1>5. \A m : Parts(m)' = Parts(m)
  BY <1>1, SameWorld
<1> DEFINE H == Elements(cache_list)
<1>6. Range(stack[1].names) \subseteq H
  <2> SUFFICES ASSUME NEW m \in Range(stack[1].names) PROVE m \in H
    OBVIOUS
  <2>1. PICK j \in 1 .. Len(stack[1].names) : m = stack[1].names[j]
    BY <1>1 DEF Range
  <2>2. j \in 1 .. stack[1].i - 1
    BY <1>1, <2>1
  <2> QED
    BY <1>1, <2>1, <2>2 DEF VisitedInv
<1>7. ASSUME NEW m \in H, world.kind[m] = "set"
      PROVE  \/ Parts(m) \subseteq H
             \/ \E l \in 1 .. Len(stack') : stack'[l].pkg = NULL /\ Range(stack'[l].names) = Parts(m)
  <2> SUFFICES ASSUME ~(Parts(m) \subseteq H)
               PROVE  \E l \in 1 .. Len(stack') : stack'[l].pkg = NULL /\ Range(stack'[l].names) = Parts(m)
    OBVIOUS
  <2>1. PICK l \in 1 .. Len(stack) : stack[l].pkg = NULL /\ Range(stack[l].names) = Parts(m)
    BY <1>7 DEF VisitedInv
  <2>2. l # 1
    BY <1>6, <2>1
  <2>3. l - 1 \in 1 .. Len(stack') /\ stack'[l - 1] = stack[l]
    BY <1>4, <2>2
  <2> QED
    BY <2>1, <2>3
<1>8. \A k \in 1 .. Len(stack') : \A j \in 1 .. stack'[k].i - 1 : stack'[k].names[j] \in Elements(cache_list')
  BY <1>1, <1>3 DEF VisitedInv
<1>9. \A m \in Elements(cache_list') : world'.kind[m] = "set" =>
          \/ Parts(m)' \subseteq Elements(cache_list')
          \/ \E l \in 1 .. Len(stack') : stack'[l].pkg = NULL /\ Range(stack'[l].names) = Parts(m)'
  BY <1>1, <1>5, <1>7
<1> QED
  BY <1>8, <1>9 DEF VisitedInv

(* The package whose call is the innermost is what any package being       *)
(* visited leads to.                                                       *)
LEMMA HeadLeads ==
  ASSUME RInv, SInv, InOrder, PathInv, stack # <<>>, stack[1].pkg # NULL, NEW l \in 1 .. Len(stack)
  PROVE  /\ l # 1 => stack[1].pkg \in Reach(Range(stack[l].names))
         /\ stack[l].pkg # NULL => stack[1].pkg \in Reach({stack[l].pkg})
<1>1. world \in Worlds /\ 1 \in 1 .. Len(stack) /\ Len(stack) \in Nat /\ world.mode = "install" /\ ~Flag("ignore-dependency")
  BY DEF RInv, InOrder
<1>2. l # 1 => stack[1].pkg \in Reach(Range(stack[l].names))
  <2>1. l # 1 => 1 < l
    OBVIOUS
  <2> QED
    BY <1>1, <2>1 DEF PathInv
<1>3. ASSUME stack[l].pkg # NULL PROVE stack[1].pkg \in Reach({stack[l].pkg})
  <2> DEFINE p == stack[l].pkg
  <2>1. /\ p \in Name /\ Range(stack[l].names) \in SUBSET Name /\ IsPackage(world, p)
        /\ Range(stack[l].names) = Parts(p) /\ Needed(p)
    BY <1>3, FrameType DEF PathInv, SInv, Good
  <2>2. LeadsTo(p) = Parts(p)
    BY <1>1, <2>1, LeadsToParts DEF IsPackage
  <2>3. {p} \in SUBSET Name
    BY <2>1
  <2>4. p \in Reach({p}) /\ LeadsTo(p) \subseteq Reach({p})
    BY <1>1, <2>3, ReachHas
  <2>5. Reach(Range(stack[l].names)) \subseteq Reach({p})
    BY <1>1, <2>1, <2>2, <2>3, <2>4, ReachTrans
  <2> QED
    BY <1>2, <2>4, <2>5
<1> QED
  BY <1>2, <1>3

(* When a package's call returns, what its dependencies stand for is       *)
(* listed, but for what depends on the package.                            *)
LEMMA ReturnSorted ==
  ASSUME RInv, SInv, CInv, Uncut, InOrder, PathInv, VisitedInv, Return, stack[1].pkg # NULL,
         NEW d \in Parts(stack[1].pkg)
  PROVE  \/ stack[1].pkg \in Reach({d})
         \/ \A p \in Aims(d) : (Needed(p) /\ IsPackage(world, p)) => p \in Elements(need_install)
<1> DEFINE q == stack[1].pkg
<1>1. /\ stack # <<>> /\ Len(stack) \in Nat /\ 1 \in 1 .. Len(stack)
      /\ stack[1].i = Len(stack[1].names) + 1 /\ stack[1].names \in Seq(Name) /\ q \in Name
      /\ world \in Worlds /\ world.mode = "install"
  BY ReturnDoes DEF RInv, InOrder
<1>2. Range(stack[1].names) = Parts(q)
  BY <1>1 DEF PathInv
<1>3. d \in Elements(cache_list) /\ d \in Name
  <2>1. PICK j \in 1 .. Len(stack[1].names) : d = stack[1].names[j]
    BY <1>1, <1>2 DEF Range
  <2>2. j \in 1 .. stack[1].i - 1
    BY <1>1, <2>1
  <2>3. d \in Elements(cache_list)
    BY <1>1, <2>1, <2>2 DEF VisitedInv
  <2> QED
    BY <2>3 DEF RInv, RowOfNames
<1>4. {d} \in SUBSET Name /\ d \in Reach({d}) /\ LeadsTo(d) \subseteq Reach({d})
  <2>1. {d} \in SUBSET Name
    BY <1>3
  <2> QED
    BY <1>1, <2>1, ReachHas
<1>5. ASSUME NEW p \in Reach({d}), p \in Listing, q \notin Reach({d}) PROVE p \in Elements(need_install)
  <2> SUFFICES ASSUME p \in Held PROVE FALSE
    BY <1>5 DEF Listing
  <2>1. PICK l \in 1 .. Len(stack) : stack[l].pkg = p /\ p # NULL
    BY DEF Held
  <2>2. q \in Reach({p})
    BY <1>1, <2>1, HeadLeads
  <2>3. p \in Name
    BY <2>1, FrameType
  <2>4. {p} \in SUBSET Name /\ {p} \subseteq Reach({d})
    BY <1>5, <2>3
  <2>5. Reach({p}) \subseteq Reach({d})
    BY <1>1, <1>4, <2>4, ReachTrans
  <2> QED
    BY <1>5, <2>2, <2>5
<1>6. \A n \in Elements(cache_list) : world.kind[n] # "set" => (Needed(Chosen(n)) => Chosen(n) \in Listing)
  BY <1>1 DEF CInv, Aim
<1> HIDE DEF q
<1>7. CASE world.kind[d] # "set"
  <2>1. Chosen(d) = d \/ Chosen(d) \in LeadsTo(d)
    BY <1>1, <1>7 DEF Chosen, LeadsTo
  <2>2. Chosen(d) \in Reach({d})
    BY <1>4, <2>1
  <2> QED
    BY <1>3, <1>5, <1>6, <1>7, <2>2 DEF Aims, q
<1>8. CASE world.kind[d] = "set"
  <2>1. LeadsTo(d) = Parts(d) /\ Aims(d) = Parts(d)
    BY <1>8 DEF LeadsTo, Aims
  <2>2. CASE Parts(d) \subseteq Elements(cache_list)
    <3>1. ASSUME q \notin Reach({d}), NEW p \in Parts(d), Needed(p), IsPackage(world, p)
          PROVE  p \in Elements(need_install)
      <4>1. p \in Elements(cache_list) /\ world.kind[p] # "set" /\ Chosen(p) = p
        BY <2>2, <3>1 DEF IsPackage, Chosen
      <4>2. p \in Listing
        BY <1>6, <3>1, <4>1
      <4>3. p \in Reach({d})
        BY <1>4, <2>1
      <4> QED
        BY <1>5, <3>1, <4>2, <4>3
    <3> QED
      BY <2>1, <3>1 DEF q
  <2>3. CASE ~(Parts(d) \subseteq Elements(cache_list))
    <3>1. PICK l \in 1 .. Len(stack) : stack[l].pkg = NULL /\ Range(stack[l].names) = Parts(d)
      BY <1>3, <1>8, <2>3 DEF VisitedInv
    <3>2. q \in Reach(Range(stack[l].names))
      BY <1>1, <3>1, HeadLeads DEF q
    <3>3. Range(stack[l].names) \in SUBSET Name /\ Range(stack[l].names) \subseteq Reach({d})
      BY <1>4, <2>1, <3>1, FrameType
    <3>4. Reach(Range(stack[l].names)) \subseteq Reach({d})
      BY <1>1, <1>4, <3>3, ReachTrans
    <3> QED
      BY <3>2, <3>4 DEF q
  <2> QED
    BY <2>2, <2>3
<1> QED
  BY <1>7, <1>8

(* What is in order stays so when the list grows.                          *)
LEMMA StaysSorted ==
  ASSUME RInv, world' = world, NEW i \in 1 .. need_install.size, Sorted(i),
         \A k \in 1 .. need_install.size : need_install'.data[k] = need_install.data[k]
  PROVE  Sorted(i)'
<1>1. /\ \A S : Reach(S)' = Reach(S)
      /\ \A n : Parts(n)' = Parts(n) /\ Chosen(n)' = Chosen(n) /\ (Needed(n)' <=> Needed(n))
  BY SameWorld
<1>2. need_install.size \in Nat
  BY DEF RInv, RowOfNames, Row
<1>3. \A n : Aims(n)' = Aims(n)
  BY <1>1 DEF Aims
<1>4. \A k \in 1 .. i - 1 : need_install'.data[k] = need_install.data[k]
  BY <1>2
<1>5. need_install'.data[i] = need_install.data[i]
  OBVIOUS
<1>6. Parts(need_install.data[i])' = Parts(need_install.data[i])
  BY <1>1, <1>5
<1> QED
  BY <1>1, <1>3, <1>4, <1>5, <1>6 DEF Sorted

LEMMA NextOInv == RInv /\ SInv /\ NoNameThrice /\ CInv /\ OInv /\ [Next]_vars => OInv'
<1> SUFFICES ASSUME RInv, SInv, NoNameThrice, CInv, OInv, [Next]_vars, InOrder'
             PROVE  PathInv' /\ VisitedInv' /\ (Uncut' => (\A i \in 1 .. need_install.size : Sorted(i))')
  BY DEF OInv
<1>0. world' = world /\ (Uncut' <=> Uncut) /\ InOrder
  <2>1. \A n \in Name : Visit(n) => world' = world
    BY VisitDoes
  <2>2. world' = world
    BY <2>1 DEF Next, Return, Finish, Returned, vars
  <2> QED
    BY <2>2, SameAim DEF InOrder, Flag
<1>1. PathInv /\ VisitedInv /\ (Uncut => \A i \in 1 .. need_install.size : Sorted(i))
  BY <1>0 DEF OInv
<1>2. need_install.size \in Nat /\ Row(need_install) /\ RowOfNames(need_install)
  BY DEF RInv, RowOfNames, Row
<1>3. ASSUME need_install' = need_install, Uncut PROVE (\A i \in 1 .. need_install.size : Sorted(i))'
  <2>1. \A i \in 1 .. need_install.size : Sorted(i)'
    BY <1>0, <1>1, <1>3, StaysSorted
  <2> QED
    BY <1>3, <2>1
<1>4. ASSUME NEW n \in Name, Visit(n)
      PROVE  PathInv' /\ VisitedInv' /\ (Uncut' => (\A i \in 1 .. need_install.size : Sorted(i))')
  <2>1. need_install' = need_install
    <3>1. CASE stack' # Advanced
      BY <1>0, <1>4, <3>1, CallLeads
    <3>2. CASE stack' = Advanced
      <4>1. SkipCached(n) \/ OpenSet(n) \/ Pass(n) \/ NotInstallable(n) \/ Require(n)
        BY <1>0, <1>4 DEF Visit, PassReverse, RequireReverse, InOrder
      <4>2. CASE Require(n)
        BY <1>0, <4>2 DEF Require, InOrder
      <4> QED
        BY <4>1, <4>2 DEF SkipCached, OpenSet, Pass, NotInstallable
    <3> QED
      BY <3>1, <3>2
  <2>2. PathInv' /\ VisitedInv'
    BY <1>0, <1>1, <1>4, VisitPath, VisitVisited
  <2> QED
    BY <1>0, <1>3, <2>1, <2>2
<1>5. CASE Return
  <2>1. PathInv' /\ VisitedInv'
    BY <1>1, <1>5, ReturnPath, ReturnVisited
  <2>2. CASE stack[1].pkg = NULL
    <3>1. need_install' = need_install
      BY <1>5, <2>2, ReturnDoes
    <3> QED
      BY <1>0, <1>3, <2>1, <3>1
  <2>3. CASE stack[1].pkg # NULL /\ Uncut
    <3> DEFINE q == stack[1].pkg
               s == need_install.size
    <3>1. q \in Name /\ need_install' = array_add(need_install, q)
      BY <1>0, <1>5, <2>3, ReturnDoes DEF InOrder
    <3>2. /\ need_install'.size = s + 1 /\ need_install'.data[s + 1] = q
          /\ \A i \in 0 .. s : need_install'.data[i] = need_install.data[i]
      BY <1>2, <3>1, AddRow
    <3>3. \A i \in 1 .. s : need_install'.data[i] = need_install.data[i]
      BY <3>2
    <3>4. \A i \in 1 .. s : Sorted(i)'
      BY <1>0, <1>1, <2>3, <3>3, StaysSorted
    <3>5. \A d \in Parts(q) :
            \/ q \in Reach({d})
            \/ \A p \in Aims(d) : (Needed(p) /\ IsPackage(world, p)) => \E k \in 1 .. s : need_install'.data[k] = p
      <4> SUFFICES ASSUME NEW d \in Parts(q), q \notin Reach({d}),
                          NEW p \in Aims(d), Needed(p), IsPackage(world, p)
                   PROVE  \E k \in 1 .. s : need_install'.data[k] = p
        OBVIOUS
      <4>1. p \in Elements(need_install)
        BY <1>0, <1>1, <1>5, <2>3, ReturnSorted
      <4> QED
        BY <3>3, <4>1 DEF Elements
    <3> HIDE DEF q
    <3>6. ASSUME NEW i, i = s + 1 PROVE Sorted(i)'
      <4>1. /\ \A S : Reach(S)' = Reach(S)
            /\ \A n : Parts(n)' = Parts(n) /\ Chosen(n)' = Chosen(n) /\ (Needed(n)' <=> Needed(n))
        BY <1>0, SameWorld
      <4>2. \A n : Aims(n)' = Aims(n)
        BY <1>0, <4>1 DEF Aims
      <4>3. need_install'.data[i] = q /\ i - 1 = s
        BY <1>2, <3>2, <3>6
      <4>4. Parts(need_install.data[i])' = Parts(q)
        BY <4>1, <4>3
      <4> HIDE DEF s
      <4> QED
        BY <1>0, <3>5, <4>1, <4>2, <4>3, <4>4 DEF Sorted
    <3>7. ASSUME NEW i \in 1 .. need_install'.size PROVE Sorted(i)'
      <4>1. i \in 1 .. s \/ i = s + 1
        BY <1>2, <3>2
      <4> QED
        BY <3>4, <3>6, <4>1
    <3> QED
      BY <2>1, <3>7
  <2> QED
    BY <1>0, <2>1, <2>2, <2>3
<1>6. CASE Finish \/ UNCHANGED vars
  <2>1. UNCHANGED <<world, stack, cache_list, need_install>>
    BY <1>6 DEF Finish, vars
  <2>2. PathInv'
    <3>1. (\A S : Reach(S)' = Reach(S)) /\ (\A m : Parts(m)' = Parts(m))
      BY <2>1, SameWorld
    <3> QED
      BY <1>1, <2>1, <3>1 DEF PathInv
  <2>3. VisitedInv'
    BY <1>1, <2>1 DEF VisitedInv, Parts, Elements
  <2> QED
    BY <1>0, <1>3, <2>1, <2>2, <2>3
<1> QED
  BY <1>4, <1>5, <1>6 DEF Next, Returned

LEMMA InitOInv == Init => OInv
<1> SUFFICES ASSUME Init PROVE PathInv /\ VisitedInv /\ \A i \in 1 .. need_install.size : Sorted(i)
  BY DEF OInv
<1>1. stack = <<Frame(world.request, NULL)>> /\ need_install = array_new /\ cache_list = array_new
  BY DEF Init
<1>2. Elements(cache_list) = {} /\ need_install.size = 0
  BY <1>1, NewRow DEF Elements
<1>3. Len(stack) = 1 /\ stack[1].pkg = NULL /\ stack[1].i = 1
  BY <1>1 DEF Frame
<1>4. 1 .. Len(stack) = {1}
  BY <1>3
<1>5. PathInv
  BY <1>3, <1>4 DEF PathInv
<1>6. VisitedInv
  BY <1>2, <1>3, <1>4 DEF VisitedInv
<1> QED
  BY <1>2, <1>5, <1>6

LEMMA Ordering == Spec => []OInv
<1>1. Init => NoNameThrice
  BY NewRow DEF Init, NoNameThrice
<1> QED
  BY <1>1, Types, Soundness, Completeness, NextNoNameThrice, InitOInv, NextOInv, PTL DEF Spec

THEOREM DependenciesComeFirst == Spec => []DependenciesFirst
<1>1. RInv /\ OInv => DependenciesFirst
  <2> SUFFICES ASSUME RInv, OInv, status = "done", Uncut, InOrder,
                      NEW i \in DOMAIN Listed, NEW d \in Parts(Listed[i])
               PROVE  \/ Listed[i] \in Reach({d})
                      \/ \A p \in Aims(d) : (Needed(p) /\ world.kind[p] \in {"package", "file"}) =>
                           \E k \in 1 .. i - 1 : Listed[k] = p
    BY DEF DependenciesFirst, InOrder, Aims
  <2>1. Listed = [j \in 1 .. need_install.size |-> need_install.data[j]] /\ need_install.size \in Nat
    BY DoneIsEmpty DEF RInv, RowOfNames, Row
  <2> HIDE DEF Listed
  <2>2. i \in 1 .. need_install.size /\ Listed[i] = need_install.data[i]
    BY <2>1
  <2>3. Sorted(i)
    BY <2>2 DEF OInv
  <2>4. \A k \in 1 .. i - 1 : k \in 1 .. need_install.size /\ Listed[k] = need_install.data[k]
    BY <2>1, <2>2
  <2> QED
    BY <2>2, <2>3, <2>4 DEF Sorted, IsPackage
<1> QED
  BY <1>1, Types, Ordering, PTL
=============================================================================
