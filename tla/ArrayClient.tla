---------------------------- MODULE ArrayClient ----------------------------
(***************************************************************************)
(* The way ymp uses its string array: a list is filled with array_add and  *)
(* array_set, then pruned (array_uniq, array_remove) and read, and last    *)
(* perhaps reordered (array_reverse, array_sort).  No caller under         *)
(* src/src/ adds to a list again after it has pruned it.                   *)
(*                                                                         *)
(* `list` is what the caller means: the sequence of the strings it put in, *)
(* without those it took out.  The properties compare the two.             *)
(***************************************************************************)
EXTENDS YmpArray

Seqs == INSTANCE SequencesExt

CONSTANTS
  Value,       \* the strings, as numbers so that array_sort can order them
  Given,       \* the lists that are given to array_set
  MaxAdds      \* bound on the strings put into one list

ASSUME ClientAssumption ==
  Value \subseteq Int /\ NULL \notin Value /\ Given \subseteq Seq(Value) /\ MaxAdds \in Nat

VARIABLES
  arr,         \* the array
  list,        \* the list the caller means
  phase        \* "fill", "prune" or "ordered"

vars == <<arr, list, phase>>

Init ==
  /\ arr = array_new
  /\ list = <<>>
  /\ phase = "fill"

Add(v) ==
  /\ phase = "fill" /\ Len(list) < MaxAdds
  /\ arr' = array_add(arr, v)
  /\ list' = Append(list, v)
  /\ UNCHANGED phase

Set(values) ==
  /\ phase = "fill"
  /\ arr' = array_set(arr, values)
  /\ list' = values
  /\ UNCHANGED phase

(* The strings of s at the indexes kept, in their order.                   *)
Picked(s, kept) ==
  [n \in 1 .. Cardinality(kept) |->
     s[CHOOSE i \in kept : Cardinality({ k \in kept : k <= i }) = n]]

RemoveString(v) ==
  /\ phase \in {"fill", "prune"}
  /\ arr' = array_remove(arr, v)
  /\ list' = Picked(list, { i \in 1 .. Len(list) : list[i] # v })
  /\ phase' = "prune"

(* What array_uniq leaves of a list: a string goes if an equal one stands  *)
(* behind it and is not its direct neighbour.                              *)
Thinned(s) ==
  Picked(s, { i \in 1 .. Len(s) : ~ \E k \in i + 2 .. Len(s) : s[k] = s[i] })

UniqList ==
  /\ phase = "fill"
  /\ arr' = array_uniq(arr)
  /\ list' = Thinned(list)
  /\ phase' = "prune"

ReverseList ==
  /\ phase \in {"fill", "prune"}
  /\ arr' = array_reverse(arr)
  /\ list' = Seqs!Reverse(list)
  /\ phase' = "ordered"

SortList ==
  /\ phase \in {"fill", "prune"}
  /\ arr' = array_sort(arr)
  /\ list' = csort(list)
  /\ phase' = "ordered"

Next ==
  \/ \E v \in Value : Add(v) \/ RemoveString(v)
  \/ \E values \in Given : Set(values)
  \/ UniqList \/ ReverseList \/ SortList
  \/ phase = "ordered" /\ UNCHANGED vars

Spec == Init /\ [][Next]_vars

----------------------------------------------------------------------------
(* As long as it is not reordered, array_get gives the caller exactly the  *)
(* list it means, in its order, across growth of the table, removals and   *)
(* uniq, and the length it reports is the number of strings it copied.     *)
GetIsList ==
  phase # "ordered" =>
    array_get(arr) = list /\ arr.size = Len(list)

(* array_has never claims a string that is not there, and the only one it  *)
(* can miss is the string added last: dependency.vala and quarantine.vala  *)
(* keep their "seen" lists with it.                                        *)
HasMissesOnlyTheNewest ==
  /\ phase # "ordered" =>
       \A v \in Value : array_has(arr, v) => v \in Seqs!ToSet(list)
  /\ phase = "fill" /\ list # <<>> =>
       \A v \in Value : v \in Seqs!ToSet(Seqs!Front(list)) => array_has(arr, v)
  /\ phase = "prune" =>
       \A i \in 1 .. Len(list) - 1 : array_has(arr, list[i])

(* No operation looks at a slot beyond the allocated table: has, reverse,  *)
(* sort and get_string do not test for its end.                            *)
ScansInBounds == Used(arr) < Capacity(arr)

(* Reordering may put strings in the wrong place or twice; it never drops  *)
(* one or makes one up.                                                    *)
ReorderKeepsEveryString ==
  phase = "ordered" => Seqs!ToSet(array_get(arr)) = Seqs!ToSet(list)
=============================================================================
