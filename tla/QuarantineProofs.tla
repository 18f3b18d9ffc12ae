-------------------------- MODULE QuarantineProofs --------------------------
(***************************************************************************)
(* Theorems about Quarantine for all packages, lists, roots and numbers of *)
(* workers: what quarantine_validate lets through is what the lists name.  *)
(* The argument counts nothing: the lists of conflicts and of broken paths *)
(* only ever grow, so a fault noted by any job is still there when the     *)
(* verdict is reached, and a line passed without a note was intact.        *)
(***************************************************************************)
EXTENDS Quarantine, FiniteSetTheorems, TLAPS

(* Adding to an array that only grows leaves it so, and not empty.         *)
LEMMA AddGrows ==
  ASSUME NEW a, NEW v, GrowOnly(a)
  PROVE  /\ GrowOnly(array_add(a, v))
         /\ NonEmpty(array_add(a, v))
  BY DEF array_add, GrowOnly, NonEmpty, array_length

(* A path noted as broken is found: BrokenAdds leaves the array as it was  *)
(* only for a line that is neither restricted nor bad.                     *)
LEMMA BrokenAddsGrows ==
  ASSUME GrowOnly(broken), NEW path, NEW bad \in BOOLEAN
  PROVE  /\ GrowOnly(BrokenAdds(path, bad))
         /\ NonEmpty(broken) => NonEmpty(BrokenAdds(path, bad))
         /\ path \in Restricted \/ bad => NonEmpty(BrokenAdds(path, bad))
<1>1. /\ GrowOnly(array_add(broken, path))
      /\ NonEmpty(array_add(broken, path))
  BY AddGrows
<1>2. /\ GrowOnly(array_add(array_add(broken, path), path))
      /\ NonEmpty(array_add(array_add(broken, path), path))
  BY <1>1, AddGrows
<1> QED
  BY <1>1, <1>2 DEF BrokenAdds

(* A list is a sequence, so its lines are numbered 1 .. Len.               *)
LEMMA ListLength ==
  ASSUME InputsOK, NEW j \in Job
  PROVE  /\ Len(List(j)) \in Nat
         /\ List(j) # <<>> => Len(List(j)) > 0
<1>1. j[1] \in {"files", "links"} /\ j[2] \in Pkg
  BY DEF Job
<1>2. List(j) \in Seq(Path \X Sum) \/ List(j) \in Seq(Path \X Target)
  BY <1>1 DEF InputsOK, List
<1> QED
  BY <1>2

(* The initial states.                                                     *)
LEMMA InitIInv == Init => IInv
<1> SUFFICES ASSUME Init PROVE IInv
  OBVIOUS
<1>1. InputsOK
  <2>1. PICK s \in Scenarios : files = s.files /\ links = s.links
    BY DEF Init
  <2> QED
    BY <2>1, QuarantineAssumption DEF InputsOK
<1>4. TypeOK
  <2>1. \A j \in Job : ji[j] = 1 /\ jpc[j] = "queued"
    BY Zenon DEF Init
  <2>2. ji \in [Job -> Nat \ {0}]
    BY 1 \in Nat \ {0} DEF Init
  <2> QED
    BY <2>2 DEF Init, TypeOK, Place
<1>2. GrowOnly(conflict) /\ GrowOnly(broken)
  BY DEF Init, GrowOnly, array_new
<1>3. InList /\ Settled /\ TargetMatched /\ JudgedByLists
  BY <1>4 DEF Init, InList, Settled, TargetMatched, JudgedByLists, Active, TypeOK
<1> QED
  BY <1>1, <1>2, <1>3, <1>4 DEF IInv

(* What one step may do to the noted faults: they stay.                    *)
Noted == Faulted => Faulted'

(* A step of a job within its line, or from the queue to its first line.   *)
LEMMA GotoKeeps ==
  ASSUME IInv, NEW j \in Job, UNCHANGED <<inputs, conflict, broken, verdict>>,
         errors' \in BOOLEAN,
         NEW pc \in {"target", "conflict", "cache", "flag", "note", "verify"},
         Goto(j, pc),
         Active(j) \/ (jpc[j] = "queued" /\ List(j) # <<>>),
         j[1] = "links" => pc = "target" \/ ~Altered(Line(j))
  PROVE  IInv'
<1>1. /\ jpc \in [Job -> Place]
      /\ ji \in [Job -> Nat \ {0}]
  BY DEF IInv, TypeOK
<1>2. ji' = ji /\ jpc' = [jpc EXCEPT ![j] = pc]
  BY DEF Goto
<1>3. jpc' \in [Job -> Place]
  BY <1>1, <1>2 DEF Place
<1>4. InputsOK' /\ GrowOnly(conflict)' /\ GrowOnly(broken)'
  BY DEF IInv, inputs, InputsOK, GrowOnly
<1>5. \A k \in Job : List(k)' = List(k) /\ LinesOf(k)' = LinesOf(k)
  BY DEF inputs, List, LinesOf
<1>6. ji[j] \in LinesOf(j) /\ (jpc[j] = "queued" => ji[j] = 1)
  BY <1>1, ListLength DEF IInv, InList, LinesOf
<1>7. InList'
  BY <1>1, <1>2, <1>5, <1>6 DEF IInv, InList, Active
<1>8. Faulted' <=> Faulted
  BY DEF Faulted, NonEmpty, array_length
<1>9. Settled'
  <2> SUFFICES ASSUME NEW k \in Job, NEW i \in LinesOf(k),
                      jpc'[k] = "done" \/ (Active(k)' /\ i < ji[k])
               PROVE  Intact(List(k)[i])' \/ Faulted'
    BY <1>2, <1>5 DEF Settled
  <2>1. Intact(List(k)[i])' <=> Intact(List(k)[i])
    BY <1>5 DEF Intact, inputs
  <2>2. CASE k # j
    BY <2>1, <2>2, <1>1, <1>2, <1>8 DEF IInv, Settled, Active
  <2>3. CASE k = j /\ Active(j)
    BY <2>1, <2>3, <1>1, <1>2, <1>8 DEF IInv, Settled, Active
  <2>4. CASE k = j /\ ~Active(j)
    <3>1. ji[j] = 1 /\ i < ji[j]
      BY <2>4, <1>1, <1>2, <1>6 DEF Active
    <3> QED
      BY <3>1, <2>4, ListLength DEF LinesOf, IInv
  <2> QED
    BY <2>2, <2>3, <2>4
<1>10. \A k \in Job : Line(k)' = Line(k)
  BY <1>2, <1>5 DEF Line
<1>11. TargetMatched'
  BY <1>1, <1>2, <1>10 DEF IInv, TargetMatched, Altered, inputs
<1>12. JudgedByLists'
  BY <1>1, <1>2, <1>6, ListLength DEF IInv, JudgedByLists, Active, LinesOf, Faulted, NonEmpty, inputs, array_length
<1> QED
  BY <1>1, <1>2, <1>3, <1>4, <1>7, <1>9, <1>11, <1>12 DEF IInv, TypeOK

(* The job that ends a line which is intact or whose fault is noted.       *)
LEMMA NextLineKeeps ==
  ASSUME IInv, NEW j \in Job, Active(j), NextLine(j), UNCHANGED inputs,
         GrowOnly(conflict)', GrowOnly(broken)', Noted,
         verdict' = verdict, errors' \in BOOLEAN,
         Intact(Line(j)) \/ Faulted'
  PROVE  IInv'
<1>1. /\ jpc \in [Job -> Place]
      /\ ji \in [Job -> Nat \ {0}]
  BY DEF IInv, TypeOK
<1> DEFINE pc == IF ji[j] < Len(List(j)) THEN FirstStep(j) ELSE "done"
<1>2. ji' = [ji EXCEPT ![j] = ji[j] + 1] /\ jpc' = [jpc EXCEPT ![j] = pc]
  BY DEF NextLine
<1>3. pc \in {"target", "conflict", "done"}
  BY DEF FirstStep
<1>4. jpc' \in [Job -> Place]
  BY <1>1, <1>2, <1>3 DEF Place
<1>5. ji' \in [Job -> Nat \ {0}]
  <2>1. ji[j] + 1 \in Nat \ {0}
    BY <1>1
  <2> QED
    BY <2>1, <1>1, <1>2
<1>6. InputsOK'
  BY DEF IInv, inputs, InputsOK
<1>7. \A k \in Job : List(k)' = List(k) /\ LinesOf(k)' = LinesOf(k)
  BY DEF inputs, List, LinesOf
<1>8. ji[j] \in LinesOf(j) /\ Len(List(j)) \in Nat
  BY ListLength DEF IInv, InList
<1>9. InList'
  <2> SUFFICES ASSUME NEW k \in Job
               PROVE  /\ jpc'[k] = "queued" => ji'[k] = 1
                      /\ Active(k)' => ji'[k] \in LinesOf(k)
    BY <1>7 DEF InList
  <2>1. CASE k # j
    BY <2>1, <1>1, <1>2 DEF IInv, InList, Active
  <2>2. CASE k = j /\ ji[j] < Len(List(j))
    BY <2>2, <1>1, <1>2, <1>3, <1>8 DEF LinesOf
  <2>3. CASE k = j /\ ~(ji[j] < Len(List(j)))
    BY <2>3, <1>1, <1>2 DEF Active
  <2> QED
    BY <2>1, <2>2, <2>3
<1>10. Settled'
  <2> SUFFICES ASSUME NEW k \in Job, NEW i \in LinesOf(k),
                      jpc'[k] = "done" \/ (Active(k)' /\ i < ji'[k])
               PROVE  Intact(List(k)[i])' \/ Faulted'
    BY <1>7 DEF Settled
  <2>1. Intact(List(k)[i])' <=> Intact(List(k)[i])
    BY <1>7 DEF Intact, inputs
  <2>2. CASE k # j
    BY <2>1, <2>2, <1>1, <1>2 DEF IInv, Settled, Active, Noted
  <2>3. CASE k = j /\ i = ji[j]
    BY <2>1, <2>3 DEF Line
  <2>4. CASE k = j /\ i < ji[j]
    BY <2>1, <2>4 DEF IInv, Settled, Noted
  <2>5. i > ji[j] => k # j
    <3> SUFFICES ASSUME i > ji[j], k = j PROVE FALSE
      OBVIOUS
    <3>1. ji[j] < Len(List(j))
      BY <1>8 DEF LinesOf
    <3>2. jpc'[j] # "done" /\ ji'[j] = ji[j] + 1
      BY <3>1, <1>1, <1>2 DEF FirstStep
    <3> QED
      BY <3>2, <1>8 DEF LinesOf
  <2> QED
    BY <2>2, <2>3, <2>4, <2>5, <1>8 DEF LinesOf
<1>11. TargetMatched'
  <2> SUFFICES ASSUME NEW k \in Job, k[1] = "links",
                      jpc'[k] \in {"conflict", "cache", "flag", "note"}
               PROVE  ~Altered(Line(k))'
    BY DEF TargetMatched
  <2>1. k # j
    BY <1>1, <1>2 DEF FirstStep
  <2>2. jpc'[k] = jpc[k] /\ Line(k)' = Line(k)
    BY <2>1, <1>1, <1>2, <1>7 DEF Line
  <2> QED
    BY <2>2 DEF IInv, TargetMatched, Altered, inputs
<1>12. JudgedByLists'
  BY DEF IInv, JudgedByLists, Active, inputs
<1> QED
  BY <1>4, <1>5, <1>6, <1>9, <1>10, <1>11, <1>12 DEF IInv, TypeOK

(* Every step preserves the invariant.                                     *)
LEMMA NextIInv == IInv /\ [Next]_vars => IInv'
<1> SUFFICES ASSUME IInv, [Next]_vars PROVE IInv'
  OBVIOUS
<1> USE DEF IInv
<1>1. ASSUME NEW j \in Job, Start(j) PROVE IInv'
  <2>1. CASE List(j) = <<>>
    <3>1. Len(List(j)) = 0 /\ LinesOf(j) = {}
      BY <2>1 DEF LinesOf
    <3>2. jpc' = [jpc EXCEPT ![j] = "done"] /\ UNCHANGED <<ji, inputs, cache, conflict, broken, errors, verdict>>
      BY <1>1, <2>1 DEF Start, Goto
    <3>3. TypeOK' /\ InputsOK' /\ GrowOnly(conflict)' /\ GrowOnly(broken)'
      BY <3>2 DEF TypeOK, Place, InputsOK, GrowOnly, inputs
    <3>4. \A k \in Job : List(k)' = List(k) /\ LinesOf(k)' = LinesOf(k)
      BY <3>2 DEF inputs, List, LinesOf
    <3>5. InList' /\ TargetMatched'
      BY <3>2, <3>4 DEF InList, TargetMatched, TypeOK, Active, Altered, Line, inputs
    <3>6. Settled'
      BY <3>1, <3>2, <3>4 DEF Settled, TypeOK, Active, Intact, Faulted, NonEmpty, array_length, inputs
    <3>7. JudgedByLists'
      BY <1>1, <3>2 DEF JudgedByLists, Start, inputs, TypeOK
    <3> QED
      BY <3>3, <3>5, <3>6, <3>7
  <2>2. CASE List(j) # <<>>
    <3>1. /\ Goto(j, FirstStep(j)) /\ jpc[j] = "queued"
          /\ UNCHANGED <<inputs, cache, conflict, broken, errors, verdict>>
      BY <1>1, <2>2 DEF Start
    <3>2. FirstStep(j) \in {"target", "conflict", "cache", "flag", "note", "verify"}
      BY DEF FirstStep
    <3>3. j[1] = "links" => FirstStep(j) = "target"
      BY DEF FirstStep
    <3> QED
      BY <2>2, <3>1, <3>2, <3>3, GotoKeeps DEF TypeOK
  <2> QED
    BY <2>1, <2>2
<1>2. ASSUME NEW j \in Job, InConflictList(j) PROVE IInv'
  <2>1. PICK pc \in {"note", "cache"} : Goto(j, pc)
    BY <1>2 DEF InConflictList
  <2>2. Active(j) /\ (j[1] = "links" => ~Altered(Line(j)))
    BY <1>2 DEF InConflictList, Active, TargetMatched
  <2> QED
    BY <1>2, <2>1, <2>2, GotoKeeps DEF InConflictList, TypeOK
<1>3. ASSUME NEW j \in Job, InCacheList(j) PROVE IInv'
  <2>1. PICK pc \in {"flag", "note"} : Goto(j, pc)
    BY <1>3 DEF InCacheList
  <2>2. Active(j) /\ (j[1] = "links" => ~Altered(Line(j)))
    BY <1>3 DEF InCacheList, Active, TargetMatched
  <2> QED
    BY <1>3, <2>1, <2>2, GotoKeeps DEF InCacheList, TypeOK
<1>4. ASSUME NEW j \in Job, Flag(j) PROVE IInv'
  <2>1. /\ GrowOnly(conflict)' /\ NonEmpty(conflict)'
        /\ GrowOnly(broken)' /\ broken' = broken
    BY <1>4, AddGrows DEF Flag, GrowOnly, NonEmpty
  <2>2. Noted /\ Faulted'
    BY <2>1 DEF Noted, Faulted
  <2> QED
    BY <1>4, <2>1, <2>2, NextLineKeeps DEF Flag, Active
<1>5. ASSUME NEW j \in Job, NoteFile(j) PROVE IInv'
  <2>1. Active(j) /\ j[1] # "links" /\ Goto(j, "verify")
    BY <1>5 DEF NoteFile, Active
  <2> QED
    BY <1>5, <2>1, GotoKeeps DEF NoteFile, TypeOK
<1>6. ASSUME NEW j \in Job, VerifyFile(j) PROVE IInv'
  <2> DEFINE path == PathOf(Line(j))
  <2>1. CASE root[path] = Absent
    <3>1. broken' = array_add(broken, path)
      BY <1>6, <2>1 DEF VerifyFile
    <3>2. GrowOnly(broken)' /\ NonEmpty(broken)'
      BY <3>1, AddGrows DEF GrowOnly, NonEmpty
    <3> QED
      BY <1>6, <3>2, NextLineKeeps
         DEF VerifyFile, Active, Noted, Faulted, GrowOnly, TypeOK
  <2>2. CASE root[path] # Absent
    <3>1. broken' = BrokenAdds(path, Altered(Line(j))) /\ Altered(Line(j)) \in BOOLEAN
      BY <1>6, <2>2 DEF VerifyFile, Altered
    <3>2. /\ GrowOnly(broken)'
          /\ NonEmpty(broken) => NonEmpty(broken)'
          /\ path \in Restricted \/ Altered(Line(j)) => NonEmpty(broken)'
      BY <3>1, BrokenAddsGrows DEF GrowOnly, NonEmpty
    <3>3. Intact(Line(j)) \/ Faulted'
      BY <3>2 DEF Intact, Altered, Faulted
    <3>4. Noted
      BY <1>6, <3>2 DEF VerifyFile, Noted, Faulted, NonEmpty
    <3> QED
      BY <1>6, <3>2, <3>3, <3>4, NextLineKeeps DEF VerifyFile, Active, GrowOnly, TypeOK
  <2> QED
    BY <2>1, <2>2
<1>7. ASSUME NEW j \in Job, LinkTarget(j) PROVE IInv'
  <2>1. CASE Altered(Line(j))
    <3>1. broken' = array_add(broken, PathOf(Line(j))) /\ errors' = TRUE /\ NextLine(j)
      BY <1>7, <2>1 DEF LinkTarget
    <3>2. GrowOnly(broken)' /\ NonEmpty(broken)'
      BY <3>1, AddGrows DEF GrowOnly, NonEmpty
    <3> QED
      BY <1>7, <3>1, <3>2, NextLineKeeps
         DEF LinkTarget, Active, Noted, Faulted, GrowOnly
  <2>2. CASE ~Altered(Line(j))
    BY <1>7, <2>2, GotoKeeps DEF LinkTarget, Active, TypeOK
  <2> QED
    BY <2>1, <2>2
<1>8. ASSUME NEW j \in Job, NoteLink(j) PROVE IInv'
  <2> DEFINE path == PathOf(Line(j))
  <2>1. broken' = BrokenAdds(path, FALSE) /\ ~Altered(Line(j))
    BY <1>8 DEF NoteLink, TargetMatched
  <2>2. /\ GrowOnly(broken)'
        /\ NonEmpty(broken) => NonEmpty(broken)'
        /\ path \in Restricted => NonEmpty(broken)'
    BY <2>1, BrokenAddsGrows DEF GrowOnly, NonEmpty
  <2>3. Intact(Line(j)) \/ Faulted'
    BY <2>1, <2>2 DEF Intact, Altered, Faulted
  <2>4. Noted
    BY <1>8, <2>2 DEF NoteLink, Noted, Faulted, NonEmpty
  <2> QED
    BY <1>8, <2>2, <2>3, <2>4, NextLineKeeps DEF NoteLink, Active, GrowOnly, TypeOK
<1>9. CASE Verdict \/ Skipped
  <2>1. UNCHANGED <<inputs, jpc, ji, conflict, broken, errors>> /\ verdict' \in {"ok", "bad"}
    BY <1>9 DEF Verdict, Skipped
  <2>2. TypeOK' /\ InputsOK' /\ GrowOnly(conflict)' /\ GrowOnly(broken)'
    BY <2>1 DEF TypeOK, InputsOK, GrowOnly, inputs
  <2>3. InList' /\ Settled' /\ TargetMatched'
    BY <2>1 DEF InList, Settled, TargetMatched, Active, LinesOf, List, Line, Intact,
                Altered, Faulted, NonEmpty, array_length, inputs
  <2>4. JudgedByLists'
    BY <1>9, <2>1 DEF Verdict, Skipped, Rejected, JudgedByLists, Faulted, NonEmpty,
                      array_length, inputs
  <2> QED
    BY <2>2, <2>3, <2>4
<1>10. CASE Returned \/ UNCHANGED vars
  <2>1. UNCHANGED vars
    BY <1>10 DEF Returned
  <2> QED
    BY <2>1 DEF vars, inputs, TypeOK, InputsOK, GrowOnly, InList, Settled, TargetMatched,
                JudgedByLists, Active, LinesOf, List, Line, Intact, Altered, Faulted,
                NonEmpty, array_length
<1> QED
  BY <1>1, <1>2, <1>3, <1>4, <1>5, <1>6, <1>7, <1>8, <1>9, <1>10 DEF Next, JobStep

(* The invariant holds in every reachable state of every instance.         *)
THEOREM Invariance == Spec => []IInv
<1> QED
  BY InitIInv, NextIInv, PTL DEF Spec

(* Whatever quarantine_validate lets through is what the packages list:    *)
(* for any packages, lists, contents and number of workers.                *)
THEOREM OnlyIntactPasses == Spec => []PassedMeansIntact
<1>1. IInv => PassedMeansIntact
  BY DEF IInv, PassedMeansIntact, JudgedByLists, Settled
<1> QED
  BY <1>1, Invariance, PTL

----------------------------------------------------------------------------
(* What the two lists hold and what the error log holds say the same, from *)
(* the first step to the last.                                             *)
Reported == errors <=> Faulted
Weighed ==
  /\ verdict # "none" /\ ~ignored => \A j \in Job : jpc[j] = "done"
  /\ verdict = "bad" => Faulted
  /\ verdict = "ok" => ~Faulted
  /\ ignored => ~Faulted /\ \A j \in Job : jpc[j] = "queued"
RInv == Reported /\ Weighed

(* An array that grows is not the one it was.                              *)
LEMMA AddChanges == ASSUME NEW a, NEW v, GrowOnly(a) PROVE array_add(a, v) # a
  BY DEF array_add, GrowOnly

(* broken changes exactly when a path is added, and is not empty then.     *)
LEMMA BrokenAddsChange ==
  ASSUME GrowOnly(broken), NEW path, NEW bad \in BOOLEAN
  PROVE  /\ NonEmpty(broken) => NonEmpty(BrokenAdds(path, bad))
         /\ BrokenAdds(path, bad) # broken => NonEmpty(BrokenAdds(path, bad))
<1>1. path \in Restricted \/ bad \/ BrokenAdds(path, bad) = broken
  BY DEF BrokenAdds
<1> QED
  BY <1>1, BrokenAddsGrows

(* A step of a job that notes nothing.                                     *)
LEMMA SilentStep ==
  ASSUME IInv, RInv, UNCHANGED <<inputs, conflict, broken, errors, verdict>>,
         ~ignored, verdict = "none"
  PROVE  RInv'
  BY DEF RInv, Reported, Weighed, Faulted, NonEmpty, array_length, inputs

(* A step of a job that notes something, or finds nothing to note.         *)
LEMMA NotingStep ==
  ASSUME IInv, RInv, UNCHANGED <<inputs, verdict>>, ~ignored, verdict = "none",
         errors' <=> Faulted'
  PROVE  RInv'
  BY DEF RInv, Reported, Weighed, inputs

(* A job works only while there is no verdict and the check is not waived. *)
LEMMA JobWorks ==
  ASSUME IInv, RInv, NEW j \in Job, Active(j) \/ Start(j)
  PROVE  ~ignored /\ verdict = "none"
<1>1. jpc[j] # "done"
  BY DEF Active, Start
<1>2. ~ignored
  BY DEF RInv, Weighed, Active, Start
<1> QED
  BY <1>1, <1>2 DEF RInv, Weighed

LEMMA NextRInv == IInv /\ RInv /\ [Next]_vars => RInv'
<1> SUFFICES ASSUME IInv, RInv, [Next]_vars PROVE RInv'
  OBVIOUS
<1>1. ASSUME NEW j \in Job, JobStep(j) PROVE RInv'
  <2>1. Active(j) \/ Start(j)
    BY <1>1 DEF JobStep, Active, InConflictList, InCacheList, Flag, NoteFile, VerifyFile,
                LinkTarget, NoteLink
  <2>2. ~ignored /\ verdict = "none"
    BY <2>1, JobWorks
  <2>3. GrowOnly(conflict) /\ GrowOnly(broken) /\ (errors <=> Faulted)
    BY DEF IInv, RInv, Reported
  <2>4. CASE Start(j) \/ InConflictList(j) \/ InCacheList(j) \/ NoteFile(j)
    <3>1. UNCHANGED <<inputs, conflict, broken, errors, verdict>>
      BY <2>4 DEF Start, InConflictList, InCacheList, NoteFile
    <3> QED
      BY <3>1, <2>2, SilentStep
  <2>5. CASE Flag(j)
    <3>1. errors' = TRUE /\ NonEmpty(conflict')
      BY <2>3, <2>5, AddGrows DEF Flag
    <3>2. Faulted'
      BY <3>1 DEF Faulted, NonEmpty, array_length
    <3>3. UNCHANGED <<inputs, verdict>>
      BY <2>5 DEF Flag
    <3> QED
      BY <3>1, <3>2, <3>3, <2>2, NotingStep
  <2>6. ASSUME UNCHANGED <<inputs, conflict, verdict>>,
               errors' = (errors \/ broken' # broken),
               NonEmpty(broken) => NonEmpty(broken'),
               broken' # broken => NonEmpty(broken')
        PROVE  RInv'
    <3>1. Faulted' <=> NonEmpty(conflict) \/ NonEmpty(broken')
      BY <2>6 DEF Faulted, NonEmpty, array_length
    <3>2. errors' <=> Faulted'
      BY <2>3, <2>6, <3>1 DEF Faulted
    <3> QED
      BY <2>2, <2>6, <3>2, NotingStep
  <2>7. CASE VerifyFile(j)
    <3>1. CASE root[PathOf(Line(j))] = Absent
      <4>1. NonEmpty(broken')
        BY <2>3, <2>7, <3>1, AddGrows DEF VerifyFile
      <4> QED
        BY <2>6, <2>7, <4>1 DEF VerifyFile
    <3>2. CASE root[PathOf(Line(j))] # Absent
      <4>1. Altered(Line(j)) \in BOOLEAN
        BY DEF Altered
      <4>2. broken' = BrokenAdds(PathOf(Line(j)), Altered(Line(j)))
        BY <2>7, <3>2 DEF VerifyFile
      <4>3. /\ NonEmpty(broken) => NonEmpty(broken')
            /\ broken' # broken => NonEmpty(broken')
        BY <2>3, <4>1, <4>2, BrokenAddsChange
      <4> QED
        BY <2>6, <2>7, <4>3 DEF VerifyFile
    <3> QED
      BY <3>1, <3>2
  <2>8. CASE LinkTarget(j)
    <3>1. CASE Altered(Line(j))
      <4>1. broken' = array_add(broken, PathOf(Line(j))) /\ errors' = TRUE
            /\ UNCHANGED <<inputs, conflict, verdict>>
        BY <2>8, <3>1 DEF LinkTarget
      <4>2. NonEmpty(broken') /\ broken' # broken
        BY <2>3, <4>1, AddGrows, AddChanges
      <4> QED
        BY <2>6, <4>1, <4>2
    <3>2. CASE ~Altered(Line(j))
      BY <2>2, <2>8, <3>2, SilentStep DEF LinkTarget
    <3> QED
      BY <3>1, <3>2
  <2>9. CASE NoteLink(j)
    <3>1. broken' = BrokenAdds(PathOf(Line(j)), FALSE)
      BY <2>9 DEF NoteLink
    <3>2. /\ NonEmpty(broken) => NonEmpty(broken')
          /\ broken' # broken => NonEmpty(broken')
      BY <2>3, <3>1, BrokenAddsChange
    <3> QED
      BY <2>6, <2>9, <3>2 DEF NoteLink
  <2> QED
    BY <1>1, <2>4, <2>5, <2>7, <2>8, <2>9 DEF JobStep
<1>2. CASE Verdict
  BY <1>2 DEF Verdict, RInv, Reported, Weighed, Rejected, Faulted, NonEmpty, array_length, inputs
<1>3. CASE Skipped
  BY <1>3 DEF Skipped, RInv, Reported, Weighed, Faulted, NonEmpty, array_length, inputs
<1>4. CASE Returned \/ UNCHANGED vars
  BY <1>4 DEF Returned, vars, RInv, Reported, Weighed, Faulted, NonEmpty, array_length, inputs
<1> QED
  BY <1>1, <1>2, <1>3, <1>4 DEF Next

(* Whoever is refused is told, and nobody else is: the verdict, which comes*)
(* from the lists, and the exit, which comes from the error log, agree.    *)
THEOREM VerdictIsReported == Spec => []RefusalIsReported
<1>1. Init => RInv
  BY DEF Init, RInv, Reported, Weighed, Faulted, NonEmpty, array_length, array_new
<1>2. IInv /\ RInv => RefusalIsReported
  BY DEF IInv, TypeOK, RInv, Reported, Weighed, RefusalIsReported
<1> QED
  BY <1>1, <1>2, NextRInv, Invariance, PTL DEF Spec

----------------------------------------------------------------------------
(* An array that only grows, as the slots it has: 1 .. size are full, and  *)
(* there is one to spare.                                                  *)
Row(a) ==
  /\ a.size \in Nat /\ a.removed = 0
  /\ \E c \in Nat : c > a.size /\ DOMAIN a.data = 0 .. c - 1
  /\ a.data[0] = NULL

LEMMA NewRow == Row(array_new) /\ array_new.size = 0
<1>1. Chunk \in Nat /\ Chunk > 0
  BY ArrayAssumption
<1> QED
  BY <1>1 DEF Row, array_new

(* What is added stands behind the rest, also when the table has grown.    *)
LEMMA AddRow ==
  ASSUME NEW a, Row(a), NEW v
  PROVE  /\ Row(array_add(a, v))
         /\ array_add(a, v).size = a.size + 1
         /\ array_add(a, v).data[a.size + 1] = v
         /\ \A i \in 0 .. a.size : array_add(a, v).data[i] = a.data[i]
<1>1. a.size \in Nat /\ a.removed = 0 /\ a.data[0] = NULL
  BY DEF Row
<1>2. PICK c \in Nat : c > a.size /\ DOMAIN a.data = 0 .. c - 1
  BY DEF Row
<1>3. Capacity(a) = c /\ Chunk \in Nat /\ Chunk > 0
  BY <1>2, FS_Interval, ArrayAssumption DEF Capacity
<1> DEFINE g == Grown(a)
<1>4. PICK d \in Nat : d > a.size + 1 /\ DOMAIN g = 0 .. d - 1 /\ \A i \in 0 .. a.size : g[i] = a.data[i]
  <2>1. CASE a.size >= c - 1
    <3>1. g = [i \in 0 .. c + Chunk - 1 |-> IF i \in 0 .. c - 1 THEN a.data[i] ELSE NULL]
      BY <1>2, <1>3, <2>1 DEF Grown, FillLimit, Slots
    <3>2. c + Chunk \in Nat /\ c + Chunk > a.size + 1
      BY <1>1, <1>2, <1>3
    <3>3. \A i \in 0 .. a.size : i \in 0 .. c - 1 /\ i \in 0 .. c + Chunk - 1
      BY <1>1, <1>2, <1>3
    <3>4. \A i \in 0 .. a.size : g[i] = a.data[i]
      BY <3>1, <3>3
    <3>5. DOMAIN g = 0 .. (c + Chunk) - 1
      <4>1. DOMAIN g = 0 .. c + Chunk - 1
        BY <3>1
      <4>2. c + Chunk - 1 = (c + Chunk) - 1
        BY <1>3
      <4> QED
        BY <4>1, <4>2
    <3> HIDE DEF g
    <3> QED
      BY <3>2, <3>4, <3>5
  <2>2. CASE ~(a.size >= c - 1)
    <3>1. g = a.data
      BY <1>3, <2>2 DEF Grown, FillLimit
    <3> QED
      BY <1>1, <1>2, <2>2, <3>1
  <2> QED
    BY <2>1, <2>2
<1> HIDE DEF g
<1>5. array_add(a, v) =
        [data |-> [g EXCEPT ![a.size + 1] = v], size |-> a.size + 1, removed |-> 0]
  BY <1>1 DEF array_add, g
<1> DEFINE b == array_add(a, v)
<1>6. b.size = a.size + 1 /\ b.removed = 0 /\ b.data = [g EXCEPT ![a.size + 1] = v]
  BY <1>5
<1> HIDE DEF b
<1>7. DOMAIN b.data = 0 .. d - 1 /\ b.data[a.size + 1] = v /\ \A i \in 0 .. a.size : b.data[i] = a.data[i]
  BY <1>1, <1>4, <1>6
<1>8. Row(b)
  BY <1>1, <1>4, <1>6, <1>7 DEF Row
<1> QED
  BY <1>6, <1>7, <1>8 DEF b

(* array_has looks at all but the newest.                                  *)
LEMMA HasRow ==
  ASSUME NEW a, Row(a), NEW v, v # NULL
  PROVE  array_has(a, v) <=> \E i \in 1 .. a.size - 1 : a.data[i] = v
<1>1. /\ a.size \in Nat /\ Used(a) = a.size
      /\ \E c \in Nat : c > a.size /\ DOMAIN a.data = 0 .. c - 1
      /\ a.data[0] = NULL
  BY DEF Row, Used
<1> QED
  BY <1>1 DEF array_has, Slots

----------------------------------------------------------------------------
(* A line whose path is in the cache: its job has it behind it or, with a  *)
(* file, is about to examine it.                                           *)
Counted(j, i) ==
  \/ jpc[j] = "done"
  \/ Active(j) /\ (i < ji[j] \/ (i = ji[j] /\ jpc[j] = "verify"))

Reason ==
  \/ \E j \in Job : \E i \in LinesOf(j) : ~Intact(List(j)[i])
  \/ \E p \in Path : \E c, d \in Claims(p) : c # d

(* Every path in the cache comes from a line that is behind its job, and   *)
(* no fault is noted without a reason.                                     *)
CacheCounted ==
  \A n \in 1 .. cache.size :
    \E j \in Job : \E i \in LinesOf(j) : Counted(j, i) /\ PathOf(List(j)[i]) = cache.data[n]
FlaggedForReason == \A j \in Job : jpc[j] = "flag" => Reason
NInv ==
  /\ Row(cache) /\ CacheCounted
  /\ FlaggedForReason /\ (Faulted => Reason)

LEMMA InitNInv == Init => NInv
<1> SUFFICES ASSUME Init PROVE NInv
  OBVIOUS
<1>1. cache = array_new /\ conflict = array_new /\ broken = array_new
  BY DEF Init, CacheReset
<1>2. ~Faulted /\ \A j \in Job : jpc[j] = "queued"
  BY <1>1 DEF Init, Faulted, NonEmpty, array_length, array_new
<1> QED
  BY <1>1, <1>2, NewRow DEF NInv, CacheCounted, FlaggedForReason

(* The lines do not change, so neither does what is wrong with them.       *)
LEMMA SameReason == ASSUME UNCHANGED inputs PROVE Reason' <=> Reason
<1>1. \A j \in Job : List(j)' = List(j) /\ LinesOf(j)' = LinesOf(j)
  BY DEF inputs, List, LinesOf
<1>2. \A p \in Path : Claims(p)' = Claims(p)
  BY <1>1 DEF Claims
<1>3. \A j \in Job : \A i \in LinesOf(j) : Intact(List(j)[i])' <=> Intact(List(j)[i])
  BY <1>1 DEF Intact, inputs
<1> QED
  BY <1>1, <1>2, <1>3 DEF Reason

(* A line that is behind its job stays so, and one that its job is done    *)
(* with now is.                                                            *)
LEMMA StaysCounted ==
  ASSUME IInv, NEW j \in Job, Active(j) \/ Start(j), UNCHANGED inputs,
         NextLine(j) \/ (jpc[j] # "verify" /\ \E pc : pc # "queued" /\ Goto(j, pc))
  PROVE  /\ \A h \in Job : \A i \in LinesOf(h) : Counted(h, i) => Counted(h, i)'
         /\ NextLine(j) \/ Goto(j, "verify") => \A i : i = ji[j] => Counted(j, i)'
<1>1. jpc \in [Job -> Place] /\ ji \in [Job -> Nat \ {0}]
  BY DEF IInv, TypeOK
<1>2. /\ \A h \in Job \ {j} : jpc'[h] = jpc[h] /\ ji'[h] = ji[h]
      /\ ji'[j] = ji[j] \/ ji'[j] = ji[j] + 1
      /\ ji'[j] = ji[j] => jpc[j] # "verify" /\ jpc'[j] # "queued"
      /\ ji'[j] = ji[j] + 1 => jpc'[j] \in {"target", "conflict", "done"}
  BY <1>1 DEF NextLine, Goto, FirstStep
<1>3. jpc[j] # "done"
  BY DEF Active, Start
<1>4. \A h \in Job : ji[h] \in Nat
  BY <1>1
<1>5. \A i \in LinesOf(j) : i \in Int
  BY DEF LinesOf
<1>6. ASSUME NEW i \in LinesOf(j), Counted(j, i) PROVE Counted(j, i)'
  BY <1>2, <1>3, <1>4, <1>5, <1>6 DEF Counted, Active
<1>7. NextLine(j) => ji'[j] = ji[j] + 1 /\ jpc'[j] \in {"target", "conflict", "done"}
  BY <1>1 DEF NextLine, FirstStep
<1>8. Goto(j, "verify") => ji'[j] = ji[j] /\ jpc'[j] = "verify"
  BY <1>1 DEF Goto
<1>9. \A h \in Job \ {j} : \A i \in LinesOf(h) : Counted(h, i) => Counted(h, i)'
  BY <1>2 DEF Counted, Active
<1>10. NextLine(j) => \A i : i = ji[j] => Counted(j, i)'
  BY <1>4, <1>7 DEF Counted, Active
<1>11. Goto(j, "verify") => \A i : i = ji[j] => Counted(j, i)'
  BY <1>8 DEF Counted, Active
<1> QED
  BY <1>6, <1>9, <1>10, <1>11

(* The path of a line at hand is a path, and no line that is behind a job. *)
LEMMA LineAtHand ==
  ASSUME IInv, NEW j \in Job, Active(j)
  PROVE  /\ ji[j] \in LinesOf(j) /\ PathOf(Line(j)) \in Path /\ PathOf(Line(j)) # NULL
         /\ jpc[j] # "verify" => ~Counted(j, ji[j])
<1>1. ji[j] \in LinesOf(j) /\ ji[j] \in Nat
  BY DEF IInv, InList, TypeOK
<1>2. j[1] \in {"files", "links"} /\ j[2] \in Pkg
  BY DEF Job
<1>3. List(j) \in Seq(Path \X Sum) \/ List(j) \in Seq(Path \X Target)
  BY <1>2 DEF IInv, InputsOK, List
<1>4. PathOf(Line(j)) \in Path
  BY <1>1, <1>3 DEF LinesOf, Line, PathOf
<1> QED
  BY <1>1, <1>4, QuarantineAssumption DEF Counted, Active

(* A step that leaves the cache alone, or adds the line at hand to it.     *)
LEMMA CacheStaysCounted ==
  ASSUME IInv, NInv, NEW j \in Job, Active(j) \/ Start(j), UNCHANGED inputs,
         NextLine(j) \/ (jpc[j] # "verify" /\ \E pc : pc # "queued" /\ Goto(j, pc)),
         \/ cache' = cache
         \/ /\ Active(j) /\ (NextLine(j) \/ Goto(j, "verify"))
            /\ cache' = array_add(cache, PathOf(Line(j)))
  PROVE  Row(cache') /\ CacheCounted'
<1>1. \A h \in Job : List(h)' = List(h) /\ LinesOf(h)' = LinesOf(h)
  BY DEF inputs, List, LinesOf
<1>2. /\ \A h \in Job : \A i \in LinesOf(h) : Counted(h, i) => Counted(h, i)'
      /\ NextLine(j) \/ Goto(j, "verify") => \A i : i = ji[j] => Counted(j, i)'
  BY StaysCounted
<1>3. ASSUME NEW n \in 1 .. cache.size
      PROVE  \E h \in Job : \E i \in LinesOf(h) :
               Counted(h, i)' /\ PathOf(List(h)[i]) = cache.data[n]
  BY <1>2 DEF NInv, CacheCounted
<1>4. Row(cache)
  BY DEF NInv
<1>5. CASE cache' = cache
  BY <1>1, <1>3, <1>4, <1>5 DEF CacheCounted, PathOf
<1>6. CASE /\ Active(j) /\ (NextLine(j) \/ Goto(j, "verify"))
           /\ cache' = array_add(cache, PathOf(Line(j)))
  <2>1. /\ Row(cache') /\ cache.size \in Nat /\ cache'.size = cache.size + 1
        /\ cache'.data[cache.size + 1] = PathOf(Line(j))
        /\ \A i \in 0 .. cache.size : cache'.data[i] = cache.data[i]
    BY <1>4, <1>6, AddRow DEF Row
  <2>2. ji[j] \in LinesOf(j) /\ \A i : i = ji[j] => Counted(j, i)'
    BY <1>2, <1>6, LineAtHand
  <2>3. ASSUME NEW n \in 1 .. cache'.size
        PROVE  \E h \in Job : \E i \in LinesOf(h) :
                 Counted(h, i)' /\ PathOf(List(h)[i]) = cache'.data[n]
    <3>1. CASE n = cache.size + 1
      BY <2>1, <2>2, <3>1 DEF Line
    <3>2. CASE n # cache.size + 1
      <4>1. n \in 1 .. cache.size /\ cache'.data[n] = cache.data[n]
        BY <2>1, <3>2
      <4> QED
        BY <4>1, <1>3
    <3> QED
      BY <3>1, <3>2
  <2> QED
    BY <1>1, <2>1, <2>3 DEF CacheCounted, PathOf
<1> QED
  BY <1>5, <1>6

(* A path found in the cache was put there by another line.                *)
LEMMA FoundTwice ==
  ASSUME IInv, NInv, NEW j \in Job, jpc[j] = "cache",
         array_has(cache, PathOf(Line(j)))
  PROVE  Reason
<1> DEFINE p == PathOf(Line(j))
<1>1. /\ ji[j] \in LinesOf(j) /\ p \in Path /\ p # NULL
      /\ ~Counted(j, ji[j])
  BY LineAtHand DEF Active
<1>2. PICK n \in 1 .. cache.size - 1 : cache.data[n] = p
  BY <1>1, HasRow DEF NInv
<1>3. n \in 1 .. cache.size
  BY <1>2 DEF NInv, Row
<1>4. PICK h \in Job : \E i \in LinesOf(h) : Counted(h, i) /\ PathOf(List(h)[i]) = cache.data[n]
  BY <1>3 DEF NInv, CacheCounted
<1>5. PICK i \in LinesOf(h) : Counted(h, i) /\ PathOf(List(h)[i]) = p
  BY <1>2, <1>4
<1>6. <<h, i>> # <<j, ji[j]>>
  BY <1>1, <1>5
<1>7. PathOf(List(j)[ji[j]]) = p
  BY DEF Line
<1>8. <<h, i>> \in Claims(p) /\ <<j, ji[j]>> \in Claims(p)
  BY <1>1, <1>5, <1>7 DEF Claims
<1> QED
  BY <1>1, <1>6, <1>8 DEF Reason

(* A step that sends no job to flag and notes nothing without a reason.    *)
LEMMA ReasonKept ==
  ASSUME IInv, NInv, NEW j \in Job, UNCHANGED inputs,
         \A h \in Job \ {j} : jpc'[h] = jpc[h],
         jpc'[j] = "flag" => Reason,
         Faulted' => Faulted \/ Reason
  PROVE  FlaggedForReason' /\ (Faulted' => Reason')
<1>1. Reason' <=> Reason
  BY SameReason
<1> QED
  BY <1>1 DEF NInv, FlaggedForReason

(* Every step of a job keeps the reasons.                                  *)
LEMMA JobKeepsReasons ==
  ASSUME IInv, NInv, NEW j \in Job, JobStep(j)
  PROVE  NInv'
<1>1. jpc \in [Job -> Place] /\ ji \in [Job -> Nat \ {0}] /\ UNCHANGED inputs
  BY DEF IInv, TypeOK, JobStep, Start, InConflictList, InCacheList, Flag, NoteFile, VerifyFile,
         LinkTarget, NoteLink
<1>2. GrowOnly(conflict) /\ GrowOnly(broken)
  BY DEF IInv
<1>3. FirstStep(j) \in {"conflict", "target"}
  BY DEF FirstStep
<1>4. (\E pc : Goto(j, pc)) \/ NextLine(j) => \A h \in Job \ {j} : jpc'[h] = jpc[h]
  BY <1>1 DEF Goto, NextLine
<1>5. NextLine(j) => jpc'[j] # "flag"
  BY <1>1, <1>3 DEF NextLine
<1>6. \A pc : Goto(j, pc) => jpc'[j] = pc
  BY <1>1 DEF Goto
<1>7. Active(j) /\ ~Intact(Line(j)) => Reason
  BY LineAtHand DEF Reason, Line
<1>8. CASE Start(j)
  <2>1. PICK pc \in {"done", "conflict", "target"} : Goto(j, pc)
    BY <1>3, <1>8 DEF Start
  <2>2. UNCHANGED <<cache, conflict, broken>> /\ jpc[j] = "queued"
    BY <1>8 DEF Start
  <2>3. Faulted' => Faulted
    BY <2>2 DEF Faulted, NonEmpty, array_length
  <2>4. FlaggedForReason' /\ (Faulted' => Reason')
    BY <1>1, <1>4, <1>6, <2>1, <2>3, ReasonKept
  <2> QED
    BY <1>1, <1>8, <2>1, <2>2, <2>4, CacheStaysCounted DEF NInv
<1>9. CASE InConflictList(j)
  <2>1. PICK pc \in {"note", "cache"} : Goto(j, pc)
    BY <1>9 DEF InConflictList
  <2>2. UNCHANGED <<cache, conflict, broken>> /\ jpc[j] = "conflict" /\ Active(j)
    BY <1>9 DEF InConflictList, Active
  <2>3. Faulted' => Faulted
    BY <2>2 DEF Faulted, NonEmpty, array_length
  <2>4. FlaggedForReason' /\ (Faulted' => Reason')
    BY <1>1, <1>4, <1>6, <2>1, <2>3, ReasonKept
  <2> QED
    BY <1>1, <2>1, <2>2, <2>4, CacheStaysCounted DEF NInv
<1>10. CASE InCacheList(j)
  <2>1. PICK pc \in {"note", "flag"} : Goto(j, pc)
    BY <1>10 DEF InCacheList
  <2>2. UNCHANGED <<cache, conflict, broken>> /\ jpc[j] = "cache" /\ Active(j)
    BY <1>10 DEF InCacheList, Active
  <2>3. Faulted' => Faulted
    BY <2>2 DEF Faulted, NonEmpty, array_length
  <2>4. jpc'[j] = "flag" => array_has(cache, PathOf(Line(j)))
    BY <1>6, <1>10 DEF InCacheList, Seen
  <2>5. jpc'[j] = "flag" => Reason
    BY <2>2, <2>4, FoundTwice
  <2>6. FlaggedForReason' /\ (Faulted' => Reason')
    BY <1>1, <1>4, <2>1, <2>3, <2>5, ReasonKept
  <2> QED
    BY <1>1, <2>1, <2>2, <2>6, CacheStaysCounted DEF NInv
<1>11. CASE Flag(j)
  <2>1. NextLine(j) /\ cache' = cache /\ jpc[j] = "flag" /\ Active(j)
    BY <1>11 DEF Flag, Active
  <2>2. Reason
    BY <2>1 DEF NInv, FlaggedForReason
  <2>3. FlaggedForReason' /\ (Faulted' => Reason')
    BY <1>1, <1>4, <1>5, <2>1, <2>2, ReasonKept
  <2> QED
    BY <1>1, <2>1, <2>3, CacheStaysCounted DEF NInv
<1>12. CASE NoteFile(j)
  <2>1. /\ Goto(j, "verify") /\ jpc[j] = "note" /\ Active(j)
        /\ cache' = array_add(cache, PathOf(Line(j)))
        /\ UNCHANGED <<conflict, broken>>
    BY <1>12 DEF NoteFile, Active
  <2>2. Faulted' => Faulted
    BY <2>1 DEF Faulted, NonEmpty, array_length
  <2>3. FlaggedForReason' /\ (Faulted' => Reason')
    BY <1>1, <1>4, <1>6, <2>1, <2>2, ReasonKept
  <2> QED
    BY <1>1, <2>1, <2>3, CacheStaysCounted DEF NInv
<1>13. ASSUME BrokenAdds(PathOf(Line(j)), FALSE) # broken PROVE ~Intact(Line(j))
  BY <1>13 DEF BrokenAdds, Intact
<1>14. CASE VerifyFile(j)
  <2>1. NextLine(j) /\ UNCHANGED <<cache, conflict>> /\ jpc[j] = "verify" /\ Active(j)
    BY <1>14 DEF VerifyFile, Active
  <2>2. Intact(Line(j)) => broken' = broken
    <3> SUFFICES ASSUME Intact(Line(j)) PROVE broken' = broken
      OBVIOUS
    <3>1. root[PathOf(Line(j))] = SumOf(Line(j)) /\ ~Altered(Line(j))
      BY DEF Intact, Altered
    <3>2. SumOf(Line(j)) # Absent
      <4>1. List(j) \in Seq(Path \X Sum) \/ List(j) \in Seq(Path \X Target)
        BY DEF IInv, InputsOK, List, Job
      <4>2. Line(j) \in Path \X Sum \/ Line(j) \in Path \X Target
        BY <2>1, <4>1, LineAtHand DEF LinesOf, Line
      <4> QED
        BY <4>2, QuarantineAssumption DEF SumOf
    <3>3. broken' = BrokenAdds(PathOf(Line(j)), Altered(Line(j)))
      BY <1>14, <3>1, <3>2 DEF VerifyFile
    <3> QED
      BY <3>1, <3>3 DEF BrokenAdds, Intact
  <2>3. Faulted' => Faulted \/ Reason
    BY <1>7, <2>1, <2>2 DEF Faulted, NonEmpty, array_length
  <2>4. FlaggedForReason' /\ (Faulted' => Reason')
    BY <1>1, <1>4, <1>5, <2>1, <2>3, ReasonKept
  <2> QED
    BY <1>1, <2>1, <2>4, CacheStaysCounted DEF NInv
<1>15. CASE LinkTarget(j)
  <2>1. /\ NextLine(j) \/ Goto(j, "conflict")
        /\ UNCHANGED <<cache, conflict>> /\ jpc[j] = "target" /\ Active(j)
    BY <1>15 DEF LinkTarget, Active
  <2>2. Intact(Line(j)) => broken' = broken
    BY <1>15 DEF LinkTarget, Intact, Altered
  <2>3. Faulted' => Faulted \/ Reason
    BY <1>7, <2>1, <2>2 DEF Faulted, NonEmpty, array_length
  <2>4. FlaggedForReason' /\ (Faulted' => Reason')
    BY <1>1, <1>4, <1>5, <1>6, <2>1, <2>3, ReasonKept
  <2> QED
    BY <1>1, <2>1, <2>4, CacheStaysCounted DEF NInv
<1>16. CASE NoteLink(j)
  <2>1. /\ NextLine(j) /\ jpc[j] = "note" /\ Active(j) /\ UNCHANGED conflict
        /\ cache' = array_add(cache, PathOf(Line(j)))
        /\ broken' = BrokenAdds(PathOf(Line(j)), FALSE)
    BY <1>16 DEF NoteLink, Active
  <2>2. Faulted' => Faulted \/ Reason
    BY <1>7, <1>13, <2>1 DEF Faulted, NonEmpty, array_length
  <2>3. FlaggedForReason' /\ (Faulted' => Reason')
    BY <1>1, <1>4, <1>5, <2>1, <2>2, ReasonKept
  <2> QED
    BY <1>1, <2>1, <2>3, CacheStaysCounted DEF NInv
<1> QED
  BY <1>8, <1>9, <1>10, <1>11, <1>12, <1>14, <1>15, <1>16 DEF JobStep

LEMMA NextNInv == IInv /\ NInv /\ [Next]_vars => NInv'
<1> SUFFICES ASSUME IInv, NInv, [Next]_vars PROVE NInv'
  OBVIOUS
<1>1. CASE \E j \in Job : JobStep(j)
  BY <1>1, JobKeepsReasons
<1>2. CASE UNCHANGED <<inputs, jpc, ji, cache, conflict, broken>>
  <2>1. Reason' <=> Reason
    BY <1>2, SameReason
  <2>2. \A j \in Job : List(j)' = List(j) /\ LinesOf(j)' = LinesOf(j)
    BY <1>2 DEF inputs, List, LinesOf
  <2>3. CacheCounted'
    BY <1>2, <2>2 DEF NInv, CacheCounted, Counted, Active, PathOf
  <2> QED
    BY <1>2, <2>1, <2>3 DEF NInv, FlaggedForReason, Faulted, NonEmpty, array_length
<1>3. Verdict \/ Skipped \/ Returned \/ UNCHANGED vars
      => UNCHANGED <<inputs, jpc, ji, cache, conflict, broken>>
  BY DEF Verdict, Skipped, Returned, vars
<1> QED
  BY <1>1, <1>2, <1>3 DEF Next

(* Nobody is refused for nothing, however the jobs interleave on the cache *)
(* and the two lists: a path is only found in the cache when another line  *)
(* put it there.                                                           *)
THEOREM NoFalseRefusal == Spec => []NoFalseAlarm
<1>1. Init => RInv
  BY DEF Init, RInv, Reported, Weighed, Faulted, NonEmpty, array_length, array_new
<1>2. RInv /\ NInv => NoFalseAlarm
  BY DEF RInv, Weighed, NInv, Reason, NoFalseAlarm
<1> QED
  BY <1>1, <1>2, InitNInv, NextNInv, NextRInv, Invariance, PTL DEF Spec

----------------------------------------------------------------------------
(* With one worker the jobs take turns, and as long as nothing is flagged  *)
(* the path a job is about to note is nowhere in the cache but, perhaps,   *)
(* in its newest slot, where array_has does not look.                      *)
TakeTurns == \A j, k \in Job : Active(j) /\ Active(k) => j = k
OnlyNeighbours ==
  \A i, k \in 1 .. cache.size : i < k /\ cache.data[i] = cache.data[k] => k = i + 1
NotedIsNew ==
  \A j \in Job : jpc[j] = "note" =>
    \A i \in 1 .. cache.size - 1 : cache.data[i] # PathOf(Line(j))
OInv ==
  /\ Row(cache) /\ Row(conflict)
  /\ parallel = 1 => TakeTurns /\ (~NonEmpty(conflict) => OnlyNeighbours /\ NotedIsNew)

LEMMA InitOInv == Init => OInv
<1> SUFFICES ASSUME Init PROVE OInv
  OBVIOUS
<1>1. cache = array_new /\ conflict = array_new /\ \A j \in Job : jpc[j] = "queued"
  BY DEF Init, CacheReset
<1> QED
  BY <1>1, NewRow DEF OInv, TakeTurns, OnlyNeighbours, NotedIsNew, Active

(* The pool starts a job only while fewer than `parallel` run.             *)
LEMMA StartsAlone ==
  ASSUME NEW j \in Job, Start(j), parallel = 1
  PROVE  \A k \in Job : ~Active(k)
<1>1. IsFiniteSet(Job)
  <2>1. IsFiniteSet({"files"}) /\ IsFiniteSet({"links"})
    BY FS_Singleton
  <2>2. {"files", "links"} = {"files"} \cup {"links"}
    OBVIOUS
  <2>3. IsFiniteSet({"files", "links"})
    BY <2>1, <2>2, FS_Union
  <2> QED
    BY <2>3, QuarantineAssumption, FS_Product DEF Job
<1>2. IsFiniteSet(Running)
  BY <1>1, FS_Subset DEF Running
<1>3. Cardinality(Running) < 1 /\ Cardinality(Running) \in Nat
  BY <1>2, FS_CardinalityType DEF Start
<1>4. Running = {}
  BY <1>2, <1>3, FS_EmptySet
<1> QED
  BY <1>4 DEF Running, Active

(* A job within its line: the others stand still, and the cache is as it   *)
(* was.                                                                    *)
LEMMA TurnKeeps ==
  ASSUME IInv, OInv, NEW j \in Job, Active(j), UNCHANGED <<inputs, cache>>,
         \A k \in Job \ {j} : jpc'[k] = jpc[k],
         Row(conflict'), NonEmpty(conflict) => NonEmpty(conflict'),
         parallel = 1 /\ jpc'[j] = "note" /\ ~NonEmpty(conflict') =>
           ji'[j] = ji[j] /\ \A i \in 1 .. cache.size - 1 : cache.data[i] # PathOf(Line(j))
  PROVE  OInv'
<1>1. List(j)' = List(j)
  BY DEF inputs, List
<1>2. NonEmpty(conflict)' <=> NonEmpty(conflict')
  BY DEF NonEmpty, array_length
<1>3. SUFFICES ASSUME parallel = 1
               PROVE  TakeTurns' /\ (~NonEmpty(conflict') => OnlyNeighbours' /\ NotedIsNew')
  BY <1>2 DEF OInv, inputs, Row
<1>4. \A k \in Job \ {j} : ~Active(k) /\ ~Active(k)' /\ jpc'[k] # "note"
  BY <1>3 DEF OInv, TakeTurns, Active
<1>5. TakeTurns'
  BY <1>4 DEF TakeTurns
<1>6. ASSUME ~NonEmpty(conflict') PROVE OnlyNeighbours' /\ NotedIsNew'
  <2>1. OnlyNeighbours'
    BY <1>3, <1>6 DEF OInv, OnlyNeighbours
  <2>2. ASSUME jpc'[j] = "note", NEW i \in 1 .. cache.size - 1
        PROVE  cache'.data[i] # PathOf(Line(j))'
    <3>1. Line(j)' = Line(j)
      BY <1>1, <1>3, <1>6, <2>2 DEF Line
    <3> QED
      BY <1>3, <1>6, <2>2, <3>1 DEF PathOf
  <2> QED
    BY <1>4, <2>1, <2>2 DEF NotedIsNew
<1> QED
  BY <1>5, <1>6

(* A job that adds the path of its line: a second one only next to a first.*)
LEMMA NotingKeeps ==
  ASSUME IInv, OInv, NEW j \in Job, jpc[j] = "note", UNCHANGED <<inputs, conflict>>,
         \A k \in Job \ {j} : jpc'[k] = jpc[k], jpc'[j] # "note",
         cache' = array_add(cache, PathOf(Line(j)))
  PROVE  OInv'
<1> DEFINE p == PathOf(Line(j))
<1>a. Row(cache)
  BY DEF OInv
<1>1. /\ Row(cache') /\ cache.size \in Nat /\ cache'.size = cache.size + 1
      /\ cache'.data[cache.size + 1] = p
      /\ \A i \in 0 .. cache.size : cache'.data[i] = cache.data[i]
  <2>1. cache.size \in Nat
    BY <1>a DEF Row
  <2> QED
    BY <1>a, <2>1, AddRow
<1>2. NonEmpty(conflict)' <=> NonEmpty(conflict)
  BY DEF NonEmpty, array_length
<1>3. SUFFICES ASSUME parallel = 1
               PROVE  TakeTurns' /\ (~NonEmpty(conflict) => OnlyNeighbours' /\ NotedIsNew')
  BY <1>1, <1>2 DEF OInv, inputs, Row
<1>4. Active(j) /\ \A k \in Job \ {j} : ~Active(k) /\ ~Active(k)' /\ jpc'[k] # "note"
  BY <1>3 DEF OInv, TakeTurns, Active
<1>5. TakeTurns' /\ NotedIsNew'
  BY <1>4 DEF TakeTurns, NotedIsNew
<1>6. ASSUME ~NonEmpty(conflict), NEW i \in 1 .. cache'.size, NEW k \in 1 .. cache'.size,
             i < k, cache'.data[i] = cache'.data[k]
      PROVE  k = i + 1
  <2>1. i \in 1 .. cache.size /\ cache'.data[i] = cache.data[i]
    BY <1>1, <1>6
  <2>2. CASE k \in 1 .. cache.size
    <3>1. cache'.data[k] = cache.data[k]
      BY <1>1, <2>2
    <3> QED
      BY <1>3, <1>6, <2>1, <2>2, <3>1 DEF OInv, OnlyNeighbours
  <2>3. CASE k = cache.size + 1
    <3>1. cache.data[i] = p
      BY <1>1, <1>6, <2>1, <2>3
    <3>2. i \notin 1 .. cache.size - 1
      BY <1>3, <1>6, <3>1 DEF OInv, NotedIsNew
    <3> QED
      BY <1>1, <2>1, <2>3, <3>2
  <2> QED
    BY <1>1, <2>2, <2>3
<1> QED
  BY <1>5, <1>6 DEF OnlyNeighbours

LEMMA JobKeepsTurns ==
  ASSUME IInv, OInv, NEW j \in Job, JobStep(j)
  PROVE  OInv'
<1>1. /\ jpc \in [Job -> Place] /\ ji \in [Job -> Nat \ {0}] /\ UNCHANGED inputs
      /\ Row(cache) /\ Row(conflict)
  BY DEF IInv, TypeOK, OInv, JobStep, Start, InConflictList, InCacheList, Flag, NoteFile,
         VerifyFile, LinkTarget, NoteLink
<1>2. FirstStep(j) \in {"conflict", "target"}
  BY DEF FirstStep
<1>3. (\E pc : Goto(j, pc)) \/ NextLine(j)
      => \A k \in Job \ {j} : jpc'[k] = jpc[k]
  BY <1>1 DEF Goto, NextLine
<1>4. NextLine(j) => jpc'[j] # "note"
  BY <1>1, <1>2 DEF NextLine
<1>5. \A pc : Goto(j, pc) => jpc'[j] = pc /\ ji' = ji
  BY <1>1 DEF Goto
<1>6. CASE Start(j)
  <2>1. PICK pc \in {"done", "conflict", "target"} : Goto(j, pc)
    BY <1>2, <1>6 DEF Start
  <2>2. UNCHANGED <<cache, conflict>>
    BY <1>6 DEF Start
  <2>3. parallel = 1 => \A k \in Job : ~Active(k)
    BY <1>6, StartsAlone
  <2>4. parallel' = 1 => TakeTurns' /\ NotedIsNew'
    BY <1>1, <1>3, <1>5, <2>1, <2>3 DEF TakeTurns, NotedIsNew, Active, inputs
  <2>5. OnlyNeighbours => OnlyNeighbours'
    BY <2>2 DEF OnlyNeighbours
  <2>6. NonEmpty(conflict)' <=> NonEmpty(conflict)
    BY <2>2 DEF NonEmpty, array_length
  <2> QED
    BY <1>1, <2>2, <2>4, <2>5, <2>6 DEF OInv, inputs
<1>7. CASE InConflictList(j)
  <2>1. Goto(j, IF array_has(conflict, PathOf(Line(j))) THEN "note" ELSE "cache")
    BY <1>7 DEF InConflictList
  <2>2. UNCHANGED <<cache, conflict>> /\ Active(j)
    BY <1>7 DEF InConflictList, Active
  <2>3. jpc'[j] = "note" => array_has(conflict, PathOf(Line(j)))
    BY <1>5, <2>1
  <2>4. array_has(conflict, PathOf(Line(j))) => NonEmpty(conflict)
    <3>1. array_has(conflict, PathOf(Line(j))) => \E i \in 1 .. conflict.size - 1 : TRUE
      BY <1>1, <2>2, HasRow, LineAtHand
    <3> QED
      BY <1>1, <3>1 DEF NonEmpty, array_length, Row
  <2> QED
    BY <1>1, <1>3, <2>1, <2>2, <2>3, <2>4, TurnKeeps
<1>8. CASE InCacheList(j)
  <2>1. Goto(j, IF array_has(cache, PathOf(Line(j))) THEN "flag" ELSE "note")
    BY <1>8 DEF InCacheList, Seen
  <2>2. UNCHANGED <<cache, conflict>> /\ Active(j)
    BY <1>8 DEF InCacheList, Active
  <2>3. jpc'[j] = "note" => ~array_has(cache, PathOf(Line(j)))
    BY <1>5, <2>1
  <2>4. jpc'[j] = "note" => \A i \in 1 .. cache.size - 1 : cache.data[i] # PathOf(Line(j))
    BY <1>1, <2>2, <2>3, HasRow, LineAtHand
  <2> QED
    BY <1>1, <1>3, <1>5, <2>1, <2>2, <2>4, TurnKeeps
<1>9. CASE Flag(j)
  <2>1. NextLine(j) /\ cache' = cache /\ Active(j) /\ conflict' = array_add(conflict, PathOf(Line(j)))
    BY <1>9 DEF Flag, Active
  <2>2. Row(conflict') /\ conflict'.size = conflict.size + 1 /\ conflict.size \in Nat
    BY <1>1, <2>1, AddRow, SMTT(30) DEF Row
  <2>3. NonEmpty(conflict')
    BY <2>2 DEF NonEmpty, array_length, Row
  <2> QED
    BY <1>1, <1>3, <1>4, <2>1, <2>2, <2>3, TurnKeeps
<1>10. CASE VerifyFile(j) \/ LinkTarget(j)
  <2>1. Active(j) /\ UNCHANGED <<cache, conflict>>
    BY <1>10 DEF VerifyFile, LinkTarget, Active
  <2>2. NextLine(j) \/ Goto(j, "conflict")
    BY <1>10 DEF VerifyFile, LinkTarget
  <2>3. jpc'[j] # "note"
    BY <1>4, <1>5, <2>2
  <2> QED
    BY <1>1, <1>3, <2>1, <2>2, <2>3, TurnKeeps
<1>11. CASE NoteFile(j) \/ NoteLink(j)
  <2>1. /\ jpc[j] = "note" /\ UNCHANGED conflict
        /\ cache' = array_add(cache, PathOf(Line(j)))
    BY <1>11 DEF NoteFile, NoteLink
  <2>2. Goto(j, "verify") \/ NextLine(j)
    BY <1>11 DEF NoteFile, NoteLink
  <2>3. jpc'[j] # "note"
    BY <1>4, <1>5, <2>2
  <2> QED
    BY <1>1, <1>3, <2>1, <2>2, <2>3, NotingKeeps
<1> QED
  BY <1>6, <1>7, <1>8, <1>9, <1>10, <1>11 DEF JobStep

LEMMA NextOInv == IInv /\ OInv /\ [Next]_vars => OInv'
<1> SUFFICES ASSUME IInv, OInv, [Next]_vars PROVE OInv'
  OBVIOUS
<1>1. CASE \E j \in Job : JobStep(j)
  BY <1>1, JobKeepsTurns
<1>2. CASE UNCHANGED <<inputs, jpc, ji, cache, conflict>>
  BY <1>2 DEF OInv, inputs, TakeTurns, OnlyNeighbours, NotedIsNew, Active, Line, List, PathOf,
              NonEmpty, array_length, Row
<1>3. Verdict \/ Skipped \/ Returned \/ UNCHANGED vars
      => UNCHANGED <<inputs, jpc, ji, cache, conflict>>
  BY DEF Verdict, Skipped, Returned, vars
<1> QED
  BY <1>1, <1>2, <1>3 DEF Next

(* What the conflict check misses with a single worker, it misses only in  *)
(* the newest slot of the cache.                                           *)
THEOREM OneWorkerNeighbours == Spec => []OneWorkerMissesOnlyNeighbours
<1>1. Init => RInv
  BY DEF Init, RInv, Reported, Weighed, Faulted, NonEmpty, array_length, array_new
<1>2. RInv /\ OInv => OneWorkerMissesOnlyNeighbours
  BY DEF RInv, Weighed, Faulted, OInv, OnlyNeighbours, OneWorkerMissesOnlyNeighbours
<1> QED
  BY <1>1, <1>2, InitOInv, NextOInv, NextRInv, Invariance, PTL DEF Spec

=============================================================================
