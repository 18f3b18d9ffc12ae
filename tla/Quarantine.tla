----------------------------- MODULE Quarantine -----------------------------
(***************************************************************************)
(* quarantine_validate of src/data/quarantine.vala: before the extracted   *)
(* packages are moved to the root file system, every line of every file    *)
(* list and link list in the quarantine is checked against the quarantine's*)
(* own root, one job of the pool per list.  The jobs share three string    *)
(* arrays: the paths seen so far (cache), the paths found twice (conflict) *)
(* and the paths that are missing, restricted or altered (broken).  Each   *)
(* array operation locks that array; nothing holds from one operation to   *)
(* the next, so another job may come between a test and the add it guards. *)
(*                                                                         *)
(* JobPool's promise is all that is used of the pool: at most `parallel`   *)
(* jobs at a time, each once, and jobs_run returns after the last.         *)
(***************************************************************************)
EXTENDS YmpArray

CONSTANTS
  Pkg,         \* packages with lists in the quarantine
  Path,
  Sum,         \* sha1 sums of file contents
  Target,      \* targets of symbolic links
  Absent,      \* no file at a path
  Restricted,  \* paths that a line of restricted.list matches
  Scenarios,   \* the quarantines to validate: [files, links, root] records
  Workers      \* values of j->parallel

ASSUME QuarantineAssumption ==
  /\ IsFiniteSet(Pkg) /\ NULL \notin Path
  /\ Sum \cap Target = {}
  /\ Absent \notin Sum \cup Target
  /\ Workers \subseteq Nat \ {0}
  /\ \A s \in Scenarios :
       /\ s.files \in [Pkg -> Seq(Path \X Sum)]
       /\ s.links \in [Pkg -> Seq(Path \X Target)]
       /\ s.root \in [Path -> Sum \cup Target \cup {Absent}]

(* One job for each list of each package.                                  *)
Job == {"files", "links"} \X Pkg

VARIABLES
  files, links,     \* quarantine/files/<pkg> and quarantine/links/<pkg>
  root,             \* quarantine/rootfs: the sum or link target at a path
  ignored,          \* --ignore-quarantine
  parallel,         \* j->parallel
  jpc, ji,          \* each job: where it is, and in which line of its list
  cache, conflict, broken,   \* the quarantine_file_..._list arrays
  errors,           \* error_add was called
  verdict           \* "none", or what quarantine_validate returned

inputs == <<files, links, root, ignored, parallel>>
vars == <<inputs, jpc, ji, cache, conflict, broken, errors, verdict>>

List(j) == IF j[1] = "files" THEN files[j[2]] ELSE links[j[2]]

Line(j) == List(j)[ji[j]]
PathOf(line) == line[1]
SumOf(line) == line[2]

(* The lists are made anew for each validation; the mutant keeps paths an  *)
(* earlier one has cached.                                                 *)
CacheKept == array_adds(array_new, <<CHOOSE p \in Path : TRUE, CHOOSE p \in Path : TRUE>>)
CacheReset == array_new

Init ==
  /\ \E s \in Scenarios : files = s.files /\ links = s.links /\ root = s.root
  /\ ignored \in BOOLEAN
  /\ parallel \in Workers
  /\ jpc = [j \in Job |-> "queued"]
  /\ ji = [j \in Job |-> 1]
  /\ cache = CacheReset /\ conflict = array_new /\ broken = array_new
  /\ errors = FALSE
  /\ verdict = "none"

----------------------------------------------------------------------------
Running == { j \in Job : jpc[j] \notin {"queued", "done"} }

Goto(j, pc) == jpc' = [jpc EXCEPT ![j] = pc] /\ UNCHANGED ji

(* The first step on a line: links are compared with their target before   *)
(* anything else, files after the conflict check.                          *)
FirstStep(j) == IF j[1] = "files" THEN "conflict" ELSE "target"

(* The next line, or the end of the job.                                   *)
NextLine(j) ==
  /\ ji' = [ji EXCEPT ![j] = @ + 1]
  /\ jpc' = [jpc EXCEPT ![j] = IF ji[j] < Len(List(j)) THEN FirstStep(j) ELSE "done"]

Start(j) ==
  /\ ~ignored
  /\ jpc[j] = "queued"
  /\ Cardinality(Running) < parallel
  /\ Goto(j, IF List(j) = <<>> THEN "done" ELSE FirstStep(j))
  /\ UNCHANGED <<inputs, cache, conflict, broken, errors, verdict>>

(* conflict_list.has(path), the left operand of the &&.                    *)
InConflictList(j) ==
  /\ jpc[j] = "conflict"
  /\ Goto(j, IF array_has(conflict, PathOf(Line(j))) THEN "note" ELSE "cache")
  /\ UNCHANGED <<inputs, cache, conflict, broken, errors, verdict>>

(* cache_list.has(path), the right operand.  The mutant never finds it.    *)
NeverSeen(path) == FALSE
Seen(path) == array_has(cache, path)

InCacheList(j) ==
  /\ jpc[j] = "cache"
  /\ Goto(j, IF Seen(PathOf(Line(j))) THEN "flag" ELSE "note")
  /\ UNCHANGED <<inputs, cache, conflict, broken, errors, verdict>>

Flag(j) ==
  /\ jpc[j] = "flag"
  /\ conflict' = array_add(conflict, PathOf(Line(j)))
  /\ errors' = TRUE
  /\ NextLine(j)
  /\ UNCHANGED <<inputs, cache, broken, verdict>>

(* A file's path enters the cache before the file is examined, a link's    *)
(* after.                                                                  *)
NoteFile(j) ==
  /\ j[1] = "files" /\ jpc[j] = "note"
  /\ cache' = array_add(cache, PathOf(Line(j)))
  /\ Goto(j, "verify")
  /\ UNCHANGED <<inputs, conflict, broken, errors, verdict>>

(* broken is only read after all jobs have ended, so the adds of one line  *)
(* are one step.  A restricted path is noted and its sum still compared:   *)
(* the `continue` is the inner loop's.                                     *)
BrokenAdds(path, bad) ==
  LET r == IF path \in Restricted THEN array_add(broken, path) ELSE broken IN
  IF bad THEN array_add(r, path) ELSE r

(* isfile, the restricted list and the sha1 sum.                           *)
Altered(line) == root[PathOf(line)] # SumOf(line)

VerifyFile(j) ==
  /\ j[1] = "files" /\ jpc[j] = "verify"
  /\ broken' = IF root[PathOf(Line(j))] = Absent
               THEN array_add(broken, PathOf(Line(j)))
               ELSE BrokenAdds(PathOf(Line(j)), Altered(Line(j)))
  /\ errors' = (errors \/ broken' # broken)
  /\ NextLine(j)
  /\ UNCHANGED <<inputs, cache, conflict, verdict>>

(* sreadlink(path) # target.                                               *)
LinkTarget(j) ==
  /\ jpc[j] = "target"
  /\ IF Altered(Line(j))
       THEN /\ broken' = array_add(broken, PathOf(Line(j)))
            /\ errors' = TRUE
            /\ NextLine(j)
       ELSE /\ Goto(j, "conflict")
            /\ UNCHANGED <<broken, errors>>
  /\ UNCHANGED <<inputs, cache, conflict, verdict>>

(* issymlink holds here, the target having matched.                        *)
NoteLink(j) ==
  /\ j[1] = "links" /\ jpc[j] = "note"
  /\ broken' = BrokenAdds(PathOf(Line(j)), FALSE)
  /\ errors' = (errors \/ broken' # broken)
  /\ cache' = array_add(cache, PathOf(Line(j)))
  /\ NextLine(j)
  /\ UNCHANGED <<inputs, conflict, verdict>>

JobStep(j) ==
  \/ Start(j) \/ InConflictList(j) \/ InCacheList(j) \/ Flag(j)
  \/ NoteFile(j) \/ VerifyFile(j) \/ LinkTarget(j) \/ NoteLink(j)

----------------------------------------------------------------------------
(* length() > 0 on a size_t: the difference is not zero.                   *)
NonEmpty(a) == array_length(a) # 0

(* After jobs_run.  The replaces list that would take paths out of the     *)
(* conflict list is never filled.  The mutant looks at one list only.      *)
ConflictsOnly == NonEmpty(conflict)
Rejected == NonEmpty(conflict) \/ NonEmpty(broken)

Verdict ==
  /\ ~ignored /\ verdict = "none"
  /\ \A j \in Job : jpc[j] = "done"
  /\ verdict' = IF Rejected THEN "bad" ELSE "ok"
  /\ UNCHANGED <<inputs, jpc, ji, cache, conflict, broken, errors>>

Skipped ==
  /\ ignored /\ verdict = "none"
  /\ verdict' = "ok"
  /\ UNCHANGED <<inputs, jpc, ji, cache, conflict, broken, errors>>

Returned == verdict # "none" /\ UNCHANGED vars

Next == Verdict \/ Skipped \/ Returned \/ \E j \in Job : JobStep(j)

Spec == Init /\ [][Next]_vars

----------------------------------------------------------------------------
(* Where a job can be: about to take the step of that name.                *)
Place == {"queued", "target", "conflict", "cache", "flag", "note", "verify", "done"}

TypeOK ==
  /\ jpc \in [Job -> Place]
  /\ ji \in [Job -> Nat \ {0}]
  /\ errors \in BOOLEAN
  /\ verdict \in {"none", "ok", "bad"}

Intact(line) ==
  root[PathOf(line)] = SumOf(line) /\ PathOf(line) \notin Restricted

LinesOf(j) == 1 .. Len(List(j))

(* The lines, of one list or of several, that claim path p.                *)
Claims(p) ==
  UNION { { <<j, i>> : i \in { n \in LinesOf(j) : PathOf(List(j)[n]) = p } } : j \in Job }

(* Whatever is let through is what its package lists: a quarantine that    *)
(* passes has, at every path of every list, the content or target that the *)
(* list names, and nothing restricted, however the jobs interleave on the  *)
(* shared lists.                                                           *)
PassedMeansIntact ==
  verdict = "ok" /\ ~ignored =>
    \A j \in Job : \A i \in LinesOf(j) : Intact(List(j)[i])

(* A quarantine is refused only for a reason: a line that is missing,      *)
(* altered or restricted, or a path that two lines claim.                  *)
NoFalseAlarm ==
  verdict = "bad" =>
    \/ \E j \in Job : \E i \in LinesOf(j) : ~Intact(List(j)[i])
    \/ \E p \in Path : \E c, d \in Claims(p) : c # d

(* error_add tells the user of every refusal, and of nothing else.         *)
RefusalIsReported == verdict # "none" => (verdict = "bad" <=> errors)

(* With one worker the conflict check misses a path claimed twice only if  *)
(* the two claims come directly after one another: array_has does not see  *)
(* the newest path of the cache.                                           *)
OneWorkerMissesOnlyNeighbours ==
  verdict = "ok" /\ ~ignored /\ parallel = 1 =>
    \A i, k \in 1 .. cache.size :
      i < k /\ cache.data[i] = cache.data[k] => k = i + 1

(* quarantine.vala:96, "check file conflict": no path that two packages    *)
(* claim gets through.                                                     *)
ConflictsAreFound ==
  verdict = "ok" /\ ~ignored =>
    \A j, k \in Job : j[2] # k[2] =>
      \A m \in LinesOf(j), n \in LinesOf(k) : PathOf(List(j)[m]) # PathOf(List(k)[n])

----------------------------------------------------------------------------
(* The inductive strengthening of PassedMeansIntact.                       *)
Active(j) == jpc[j] \notin {"queued", "done"}

Faulted == NonEmpty(conflict) \/ NonEmpty(broken)

(* An array nothing was ever removed from.                                 *)
GrowOnly(a) == a.removed = 0 /\ a.size \in Nat

InputsOK ==
  /\ files \in [Pkg -> Seq(Path \X Sum)]
  /\ links \in [Pkg -> Seq(Path \X Target)]

InList ==
  \A j \in Job :
    /\ jpc[j] = "queued" => ji[j] = 1
    /\ Active(j) => ji[j] \in LinesOf(j)

(* The lines a job has behind it are intact, or something was noted.       *)
Settled ==
  \A j \in Job : \A i \in LinesOf(j) :
    jpc[j] = "done" \/ (Active(j) /\ i < ji[j]) => Intact(List(j)[i]) \/ Faulted

(* A link that reaches the conflict check has the target its list names.   *)
TargetMatched ==
  \A j \in Job :
    j[1] = "links" /\ jpc[j] \in {"conflict", "cache", "flag", "note"} => ~Altered(Line(j))

JudgedByLists ==
  verdict = "ok" /\ ~ignored => ~Faulted /\ \A j \in Job : jpc[j] = "done"

IInv ==
  /\ TypeOK /\ InputsOK
  /\ GrowOnly(conflict) /\ GrowOnly(broken)
  /\ InList /\ Settled /\ TargetMatched /\ JudgedByLists
=============================================================================
