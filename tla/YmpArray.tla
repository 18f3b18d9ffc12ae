------------------------------ MODULE YmpArray ------------------------------
(***************************************************************************)
(* The string array of src/ccode/array.c, which most of ymp keeps its      *)
(* lists in.  Every operation holds the array's mutex from its first read  *)
(* to its last write, so each is one operator on the whole structure:      *)
(*   data     the slots, 0 .. capacity - 1, NULL where empty               *)
(*   size     the counter that add increments and then uses as the index,  *)
(*            so that slot 0 stays empty and the elements are 1 .. size    *)
(*   removed  how many slots were emptied                                  *)
(* size and removed are size_t in the code: a negative value here stands   *)
(* for one close to 2^64.                                                  *)
(***************************************************************************)
EXTENDS Integers, Sequences, FiniteSets

CONSTANTS
  NULL,        \* an empty slot
  Chunk        \* how many slots array_new allocates and realloc adds (1024)

ASSUME ArrayAssumption == Chunk \in Nat \ {0, 1}

Capacity(a) == Cardinality(DOMAIN a.data)

Slots(a) == DOMAIN a.data

(* Slots up to this one, if allocated, are those get, sort and get_string  *)
(* look at; has and reverse stop one before it.                            *)
Used(a) == a.size + a.removed

array_new ==
  [data |-> [i \in 0 .. Chunk - 1 |-> NULL], size |-> 0, removed |-> 0]

(* How full the table may get before it grows; the mutant's is one more.   *)
FillLimitLate(a) == Capacity(a)
FillLimit(a) == Capacity(a) - 1

Grown(a) ==
  IF a.size >= FillLimit(a)
  THEN [i \in 0 .. Capacity(a) + Chunk - 1 |-> IF i \in Slots(a) THEN a.data[i] ELSE NULL]
  ELSE a.data

array_add(a, value) ==
  [data |-> [Grown(a) EXCEPT ![a.size + 1] = value],
   size |-> a.size + 1,
   removed |-> a.removed]

(* array_set empties the slots it has and then adds.                       *)
Emptied(a) ==
  [data |-> [i \in Slots(a) |-> NULL], size |-> 0, removed |-> 0]

array_adds(a, values) ==
  LET after[i \in 0 .. Len(values)] ==
        IF i = 0 THEN a ELSE array_add(after[i - 1], values[i])
  IN  after[Len(values)]

array_set(a, values) == array_adds(Emptied(a), values)

(* Empties every slot that holds item.  The mutant forgets the count.      *)
RemoveUncounted(a, item) ==
  LET hits == { i \in Slots(a) : a.data[i] = item } IN
  [data |-> [i \in Slots(a) |-> IF i \in hits THEN NULL ELSE a.data[i]],
   size |-> a.size - Cardinality(hits),
   removed |-> a.removed]

array_remove(a, item) ==
  LET hits == { i \in Slots(a) : a.data[i] = item } IN
  [data |-> [i \in Slots(a) |-> IF i \in hits THEN NULL ELSE a.data[i]],
   size |-> a.size - Cardinality(hits),
   removed |-> a.removed + Cardinality(hits)]

(* `start < size + removed` leaves the last slot in use out of the search. *)
(* The mutant forgets that emptied slots still take room.                  *)
HasWithinSize(a, name) ==
  \E i \in Slots(a) : i < a.size /\ a.data[i] = name

array_has(a, name) ==
  \E i \in Slots(a) : i < Used(a) /\ a.data[i] = name

(* For each slot from 1 upwards the earlier equal slots are emptied, up to *)
(* `i < start - 1`: the direct neighbour is not looked at.  What an earlier*)
(* pass has emptied was equal to something that is still there, so a slot  *)
(* goes iff an equal one stands two or more places after it.  removed is   *)
(* overwritten, not added to.                                              *)
array_uniq(a) ==
  LET gone == { i \in Slots(a) : a.data[i] # NULL /\
                  \E start \in Slots(a) : i < start - 1 /\ a.data[start] = a.data[i] }
  IN  [data |-> [i \in Slots(a) |-> IF i \in gone THEN NULL ELSE a.data[i]],
       size |-> a.size - Cardinality(gone),
       removed |-> Cardinality(gone)]

(* Slots 0 .. Used - 1 are exchanged end for end although the elements are *)
(* in 1 .. Used.  An empty slot met at the far end is not copied.  The     *)
(* mutant swaps without a temporary.                                       *)
ReverseNoTemp(a) ==
  LET tot == Used(a) IN
  IF a.size <= 1 THEN a
  ELSE [a EXCEPT !.data =
         [i \in Slots(a) |->
            IF i < tot \div 2 THEN a.data[tot - 1 - i] ELSE a.data[i]]]

array_reverse(a) ==
  LET tot == Used(a) IN
  IF a.size <= 1 THEN a
  ELSE [a EXCEPT !.data =
         [i \in Slots(a) |->
            LET mirror == tot - 1 - i IN
            IF i < tot \div 2
            THEN IF a.data[mirror] # NULL THEN a.data[mirror] ELSE a.data[i]
            ELSE IF i < tot /\ mirror < tot \div 2 THEN a.data[mirror]
            ELSE a.data[i]]]

(* The full slots array_get, array_sort and array_get_string visit, in     *)
(* order.                                                                  *)
Visited(a) ==
  LET upto[i \in -1 .. Capacity(a) - 1] ==
        IF i = -1 THEN <<>>
        ELSE IF i > Used(a) \/ a.data[i] = NULL THEN upto[i - 1]
        ELSE Append(upto[i - 1], a.data[i])
  IN  upto[Capacity(a) - 1]

(* array_get: the strings it copies.  The caller is told their number is   *)
(* a.size.                                                                 *)
array_get(a) == Visited(a)

array_length(a) == a.size - a.removed

(* qsort puts each element behind the smaller ones; which of two equal     *)
(* ones comes first does not matter.                                       *)
csort(s) ==
  LET upto(i) == {k \in DOMAIN s : s[k] < s[i] \/ (s[k] = s[i] /\ k <= i)}
  IN  [n \in DOMAIN s |-> s[CHOOSE i \in DOMAIN s : Cardinality(upto(i)) = n]]

(* array_sort packs the elements into 0 .. n - 1, where the others leave   *)
(* slot 0 empty, and sorts them.                                           *)
array_sort(a) ==
  LET sorted == csort(Visited(a)) IN
  [a EXCEPT !.data = [i \in Slots(a) |-> IF i < Len(sorted) THEN sorted[i + 1] ELSE NULL]]
=============================================================================
