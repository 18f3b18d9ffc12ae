------------------------------ MODULE Archive ------------------------------
(***************************************************************************)
(* Archives: archive_write of src/ccode/archive-create.c packs a list of   *)
(* paths, archive_extract_fn of src/ccode/archive-extract.c unpacks into a *)
(* tree.  Packages are extracted by parallel jobs into one quarantine, so  *)
(* every test of the tree and the act that follows it are separate steps.  *)
(* The jobs share the error log of src/ccode/error.c: a list made when the *)
(* first message is added and replaced whenever error() forgets.           *)
(*                                                                         *)
(* An archive is the sequence of its entries as libarchive reads them up   *)
(* to the first header it cannot, which looks like the end.  A behaviour   *)
(* packs one archive first, which the first job then extracts, or starts   *)
(* with archives that are given.                                           *)
(***************************************************************************)
EXTENDS FileTree

CONSTANTS
  Job,         \* the extracting jobs
  First,       \* the one that gets the archive just packed
  Scenarios,   \* what a behaviour starts from
  MaxVanish    \* bound: files other programs delete while ymp packs

Kinds == {"dir", "file", "link", "other"}
Modes == {"dir", "file", "link", "fifo", "other"}   \* what lstat tells apart
EntryOf(x, kind, data) == [path |-> x, kind |-> kind, data |-> data]

IsArchive(a) ==
  Len(a) \in Nat /\ \A i \in 1 .. Len(a) :
    /\ a[i] = EntryOf(a[i].path, a[i].kind, a[i].data)
    /\ a[i].path \in Path /\ a[i].kind \in Kinds /\ (a[i].kind = "dir" => a[i].data = "")

ASSUME ArchiveAssumption ==
  /\ First \in Job /\ MaxVanish \in Nat
  /\ \A s \in Scenarios :
       /\ IsTree(s.src, {"none", "dir", "file", "link", "fifo", "unreadable"})
       /\ IsTree(s.tree, {"none", "dir", "file", "link"})
       /\ s.list \in Seq(Path)
       /\ DOMAIN s.arch = Job /\ \A j \in Job : IsArchive(s.arch[j])
       /\ s.list # <<>> => s.arch[First] = <<>>

VARIABLES
  src,         \* the files to pack: kind and data; "unreadable" and "fifo" are kinds too
  list,        \* the paths added with archive_add
  k,           \* the next of them
  sink,        \* the output can be written
  st,          \* the kind of file the last lstat has seen, "" before
  link,        \* what the last readlink has read
  out,         \* the entries written so far
  packer,      \* where archive_write is
  vanished,    \* the files deleted meanwhile
  arch,        \* the archive each job reads
  want,        \* the entry to extract, or Root for all
  pos, pc,     \* where each job is
  held,        \* the inode its FILE writes to
  saw,         \* the number of messages error() saw
  back,        \* where it goes on when the error is dealt with
  tree,        \* the directory extracted into
  before,      \* where it held a directory, and where something else
  log,         \* the error log: -1 while there is no list, or its length
  lenient,     \* shellmode or ignore-error
  status,      \* exit status of the process, 0 while it runs
  failed       \* what could not be made, <<job, entry>>

packing == <<src, list, k, sink, st, link, out, packer, vanished>>
inputs == <<arch, want, before>>
jobs == <<pos, pc, held, saw, back>>
vars == <<packing, inputs, jobs, tree, log, lenient, status, failed>>

TypeOK ==
  /\ packer \in {"open", "header", "stat", "readlink", "write", "data", "blocked", "broken",
                "closed"}
  /\ st \in Modes \cup {""}
  /\ k \in 1 .. Len(list) + 1 /\ sink \in BOOLEAN
  /\ vanished \subseteq Path
  /\ \A j \in Job : \A i \in 1 .. Len(arch[j]) :
       arch[j][i].path \in Path /\ arch[j][i].kind \in Kinds
  /\ pos \in [Job -> Nat \ {0}]
  /\ pc \in [Job -> {"wait", "next", "mkdir", "parent", "clear", "unlink", "put", "symlink",
                     "data", "check", "create", "add", "error", "reset", "done"}]
  /\ \A x \in Path : tree[x].kind \in {"none", "dir", "file", "link"}
  /\ log \in Nat \cup {-1}
  /\ status \in {0, 2, 3, 139}

Init ==
  /\ \E s \in Scenarios :
       /\ src = s.src /\ list = s.list /\ arch = s.arch /\ want = s.want /\ tree = s.tree
       /\ packer = IF s.list = <<>> THEN "closed" ELSE "open"
       /\ pc = [j \in Job |-> IF j = First /\ s.list # <<>> THEN "wait"
                              ELSE IF s.arch[j] = <<>> THEN "done" ELSE "next"]
       /\ before = [dir |-> {x \in Path : isdir(s.tree, x)},
                    other |-> {x \in Path : s.tree[x].kind \in {"file", "link"}}]
  /\ k = 1 /\ sink = TRUE /\ st = "" /\ link = "" /\ out = <<>> /\ vanished = {}
  /\ pos = [j \in Job |-> 1]
  /\ held = [j \in Job |-> <<>>] /\ saw = [j \in Job |-> 0] /\ back = [j \in Job |-> "next"]
  /\ log = -1 /\ status = 0 /\ failed = {}
  /\ lenient \in BOOLEAN

----------------------------------------------------------------------------
(* archive_write.  Whether the output can be opened is not asked.          *)
PackOpen ==
  /\ packer = "open"
  /\ sink' \in BOOLEAN
  /\ packer' = "header"
  /\ UNCHANGED <<src, list, k, st, link, out, vanished, inputs, jobs, tree, log, lenient, status,
                 failed>>

(* isexists.  A path that is gone is warned about and tried again, for     *)
(* ever: the step leaves everything as it is.                              *)
GoneOrShut(kind) == kind \in {"none", "unreadable"}
Gone(kind) == kind = "none"
PackExists ==
  /\ packer = "header" /\ k <= Len(list) /\ ~ Gone(src[list[k]].kind)
  /\ packer' = "stat"
  /\ UNCHANGED <<src, list, k, sink, st, link, out, vanished, inputs, jobs, tree, log, lenient,
                 status, failed>>

PackMissing ==
  /\ packer = "header" /\ k <= Len(list) /\ Gone(src[list[k]].kind)
  /\ UNCHANGED vars

(* The result of lstat is not asked for either: st keeps what it held,     *)
(* which is anything before the first.                                     *)
Stat(x) ==
  LET kind == src[x].kind IN
  IF kind # "none" THEN {IF kind = "unreadable" THEN "file" ELSE kind}
                   ELSE IF st = "" THEN Modes ELSE {st}

(* The branch for pipes tests S_ISDIR again, so a pipe is unknown.         *)
Unknown(mode) == mode = "fifo"
EntryKindByStat(mode) == IF mode \in {"fifo", "link"} THEN "file" ELSE mode
EntryKind(mode) == IF mode = "fifo" THEN "file" ELSE mode

(* error_add, twice.                                                       *)
Told == IF log = -1 THEN 2 ELSE log + 2

PackStat ==
  /\ packer = "stat"
  /\ \E mode \in Stat(list[k]) :
       /\ st' = mode
       /\ packer' = IF mode = "link" THEN "readlink" ELSE "write"
       /\ log' = IF Unknown(mode) THEN Told ELSE log
  /\ UNCHANGED <<src, list, k, sink, link, out, vanished, inputs, jobs, tree, lenient, status,
                 failed>>

(* A link that is no longer there ends the loop, and error is not called.  *)
PackLink ==
  /\ packer = "readlink"
  /\ IF src[list[k]].kind = "link"
     THEN link' = src[list[k]].data /\ packer' = "write" /\ UNCHANGED log
     ELSE packer' = "broken" /\ log' = Told /\ UNCHANGED link
  /\ UNCHANGED <<src, list, k, sink, st, out, vanished, inputs, jobs, tree, lenient, status,
                 failed>>

(* error(2) if there are errors, wherever they are from; then the header.  *)
PackHeader ==
  /\ packer = "write"
  /\ IF log > 0 /\ ~ lenient
     THEN status' = 2 /\ UNCHANGED <<out, packer, log>>
     ELSE /\ out' = Append(out, EntryOf(list[k], EntryKind(st), IF st = "link" THEN link ELSE ""))
          /\ packer' = "data"
          /\ log' = IF log > 0 THEN 0 ELSE log
          /\ UNCHANGED status
  /\ UNCHANGED <<src, list, k, sink, st, link, vanished, inputs, jobs, tree, lenient, failed>>

(* open and the copy of the data: a file that cannot be opened any more    *)
(* is packed without its data; reading a pipe blocks.                      *)
PackData ==
  /\ packer = "data"
  /\ LET x == list[k] IN
     IF src[x].kind = "fifo"
     THEN packer' = "blocked" /\ UNCHANGED <<out, k>>
     ELSE /\ out' = IF src[x].kind = "file" THEN [out EXCEPT ![Len(out)].data = src[x].data]
                                            ELSE out
          /\ k' = k + 1
          /\ packer' = "header"
  /\ UNCHANGED <<src, list, sink, st, link, vanished, inputs, jobs, tree, log, lenient, status,
                 failed>>

PackClose ==
  /\ packer = "broken" \/ (packer = "header" /\ k > Len(list))
  /\ packer' = "closed"
  /\ arch' = [arch EXCEPT ![First] = IF sink THEN out ELSE <<>>]
  /\ pc' = [pc EXCEPT ![First] = IF sink THEN "next" ELSE "check"]
  /\ UNCHANGED <<src, list, k, sink, st, link, out, vanished, want, before, pos, held, saw, back,
                 tree, log, lenient, status, failed>>

Vanish(x) ==
  /\ packer \notin {"open", "blocked", "closed"} /\ src[x].kind # "none"
  /\ vanished = {} /\ MaxVanish > 0
  /\ src' = [src EXCEPT ![x] = NoNode]
  /\ vanished' = {x}
  /\ UNCHANGED <<list, k, sink, st, link, out, packer, inputs, jobs, tree, log, lenient, status,
                 failed>>

Pack ==
  \/ PackOpen \/ PackExists \/ PackMissing \/ PackStat \/ PackLink \/ PackHeader \/ PackData
  \/ PackClose

----------------------------------------------------------------------------
(* archive_extract_fn.                                                     *)
Entry(j) == arch[j][pos[j]]
Target(j) == Entry(j).path
Me(j) == <<j, pos[j]>>

Goto(j, label) == pc' = [pc EXCEPT ![j] = label]
Continue(j) == Goto(j, "next") /\ pos' = [pos EXCEPT ![j] = @ + 1]
(* error_add, and where the job goes on afterwards.                        *)
Report(j, then) == Goto(j, "check") /\ back' = [back EXCEPT ![j] = then]

Wanted(j) == want[j] \in {Root, Target(j)}

(* archive_read_next_header and the tests that need nothing of the tree.   *)
(* At the end package.extract calls error(3).                              *)
NextHeader(j) ==
  /\ pc[j] = "next"
  /\ IF pos[j] > Len(arch[j]) THEN Goto(j, "error") /\ back' = [back EXCEPT ![j] = "done"] /\ UNCHANGED pos
     ELSE IF ~ Wanted(j) THEN Continue(j) /\ UNCHANGED back
     ELSE IF Entry(j).kind = "dir"
          THEN /\ IF access(tree, Target(j)) THEN Continue(j) ELSE Goto(j, "mkdir") /\ UNCHANGED pos
               /\ UNCHANGED back
     ELSE Goto(j, "parent") /\ UNCHANGED <<pos, back>>
  /\ UNCHANGED <<packing, inputs, held, saw, tree, log, lenient, status, failed>>

MakeDir(j) ==
  /\ pc[j] = "mkdir"
  /\ tree' = create_dir(tree, Target(j))
  /\ IF CreateFails(tree, Target(j))
     THEN Report(j, "next") /\ failed' = failed \cup {Me(j)} /\ UNCHANGED pos
     ELSE Continue(j) /\ UNCHANGED <<back, failed>>
  /\ UNCHANGED <<packing, inputs, held, saw, log, lenient, status>>

MakeParent(j) ==
  /\ pc[j] = "parent"
  /\ tree' = IF isdir(tree, Dir[Target(j)]) THEN tree ELSE create_dir(tree, Dir[Target(j)])
  /\ Goto(j, "clear")
  /\ UNCHANGED <<packing, inputs, pos, held, saw, back, log, lenient, status, failed>>

KeepOld(j) ==
  /\ pc[j] = "clear"
  /\ Goto(j, "put")
  /\ UNCHANGED <<packing, inputs, pos, held, saw, back, tree, log, lenient, status, failed>>
TestOld(j) ==
  /\ pc[j] = "clear"
  /\ Goto(j, IF issymlink(tree, Target(j)) \/ isfile(tree, Target(j)) THEN "unlink" ELSE "put")
  /\ UNCHANGED <<packing, inputs, pos, held, saw, back, tree, log, lenient, status, failed>>

Unlink(j) ==
  /\ pc[j] = "unlink"
  /\ tree' = IF isdir(tree, Target(j)) THEN tree ELSE [tree EXCEPT ![Target(j)] = NoNode]
  /\ Goto(j, "put")
  /\ UNCHANGED <<packing, inputs, pos, held, saw, back, log, lenient, status, failed>>

(* A link gives way to a directory without a word.                         *)
PutLink(j) ==
  /\ pc[j] = "put" /\ Entry(j).kind = "link"
  /\ IF isdir(tree, Target(j)) THEN Continue(j) ELSE Goto(j, "symlink") /\ UNCHANGED pos
  /\ UNCHANGED <<packing, inputs, held, saw, back, tree, log, lenient, status, failed>>

Symlink(j) ==
  /\ pc[j] = "symlink"
  /\ LET x == Target(j) IN
     IF Inside(tree, x) /\ tree[x].kind = "none"
     THEN tree' = [tree EXCEPT ![x] = LinkNode(Entry(j).data)] /\ Continue(j)
          /\ UNCHANGED <<back, failed>>
     ELSE IF Astray(tree, x) THEN Continue(j) /\ UNCHANGED <<tree, back, failed>>
     ELSE Report(j, "error") /\ failed' = failed \cup {Me(j)} /\ UNCHANGED <<tree, pos>>
  /\ UNCHANGED <<packing, inputs, held, saw, log, lenient, status>>

(* fopen creates the file or truncates the one that is there; it follows a *)
(* link, out of this tree, unless that leads to a directory.               *)
PutFile(j) ==
  /\ pc[j] = "put" /\ Entry(j).kind = "file"
  /\ LET x == Target(j) old == tree[x] IN
     CASE Inside(tree, x) /\ old.kind \in {"none", "file"} ->
            LET ino == IF old.kind = "file" THEN old.ino ELSE Me(j) IN
            /\ tree' = [tree EXCEPT ![x] = FileNode("", ino)]
            /\ held' = [held EXCEPT ![j] = ino]
            /\ Goto(j, "data") /\ UNCHANGED <<back, failed>>
       [] Astray(tree, x) \/ (Inside(tree, x) /\ old.kind = "link" /\ old.data # "directory") ->
            /\ held' = [held EXCEPT ![j] = <<>>]
            /\ Goto(j, "data") /\ UNCHANGED <<tree, back, failed>>
       [] OTHER ->
            Report(j, "error") /\ failed' = failed \cup {Me(j)} /\ UNCHANGED <<tree, held>>
  /\ UNCHANGED <<packing, inputs, pos, saw, log, lenient, status>>

SkipOther(j) ==
  /\ pc[j] = "put" /\ Entry(j).kind = "other"
  /\ Continue(j)
  /\ UNCHANGED <<packing, inputs, held, saw, back, tree, log, lenient, status, failed>>

(* The data goes to the inode that was opened, which may have lost its     *)
(* name or hold what another job wrote since, mixed with this then.        *)
WriteData(j) ==
  /\ pc[j] = "data"
  /\ LET x == Target(j) old == tree[x].data new == Entry(j).data IN
     tree' = IF tree[x].kind = "file" /\ tree[x].ino = held[j]
             THEN [tree EXCEPT ![x].data = IF old \in {"", new} THEN new ELSE "mixed"]
             ELSE tree
  /\ Continue(j)
  /\ UNCHANGED <<packing, inputs, held, saw, back, log, lenient, status, failed>>

----------------------------------------------------------------------------
(* error_add: the list is made if there is none.                           *)
CheckLog(j) ==
  /\ pc[j] = "check"
  /\ Goto(j, IF log = -1 THEN "create" ELSE "add")
  /\ UNCHANGED <<packing, inputs, pos, held, saw, back, tree, log, lenient, status, failed>>

CreateLog(j) ==
  /\ pc[j] = "create"
  /\ log' = 0
  /\ Goto(j, "add")
  /\ UNCHANGED <<packing, inputs, pos, held, saw, back, tree, lenient, status, failed>>

AddMessage(j) ==
  /\ pc[j] = "add"
  /\ log' = log + 1
  /\ Goto(j, back[j])
  /\ back' = [back EXCEPT ![j] = "next"]
  /\ pos' = IF back[j] = "next" /\ pos[j] <= Len(arch[j]) THEN [pos EXCEPT ![j] = @ + 1] ELSE pos
  /\ UNCHANGED <<packing, inputs, held, saw, tree, lenient, status, failed>>

(* error(3): what it saw decides; nothing was seen in a list that another  *)
(* job has replaced since.                                                 *)
ExitsNever(n) == n < 0
Exits(n) == n > 0 /\ ~ lenient
SeeErrors(j) ==
  /\ pc[j] = "error"
  /\ IF log = -1 THEN Goto(j, "done") /\ UNCHANGED <<saw, status>>
     ELSE IF Exits(log) THEN status' = 3 /\ UNCHANGED <<pc, saw>>
     ELSE Goto(j, "reset") /\ saw' = [saw EXCEPT ![j] = log] /\ UNCHANGED status
  /\ UNCHANGED <<packing, inputs, pos, held, back, tree, log, lenient, failed>>

(* The list is replaced.  A file that could not be opened is then written  *)
(* to through a null pointer.                                              *)
ForgetErrors(j) ==
  /\ pc[j] = "reset"
  /\ log' = 0
  /\ IF back[j] = "done" THEN Goto(j, "done") /\ UNCHANGED <<pos, status>>
     ELSE /\ Continue(j)
          /\ status' = IF Entry(j).kind = "file" THEN 139 ELSE status
  /\ UNCHANGED <<packing, inputs, held, saw, back, tree, lenient, failed>>

Extract(j) ==
  \/ NextHeader(j) \/ MakeDir(j) \/ MakeParent(j) \/ TestOld(j) \/ Unlink(j)
  \/ PutLink(j) \/ Symlink(j) \/ PutFile(j) \/ SkipOther(j) \/ WriteData(j)
  \/ CheckLog(j) \/ CreateLog(j) \/ AddMessage(j) \/ SeeErrors(j) \/ ForgetErrors(j)

Over == status # 0 \/ packer = "blocked" \/ \A j \in Job : pc[j] = "done"

Next ==
  \/ status = 0 /\ (Pack \/ (\E x \in Path : Vanish(x)) \/ \E j \in Job : Extract(j))
  \/ Over /\ UNCHANGED vars

Spec == Init /\ [][Next]_vars
(* A program that packs goes on packing.                                   *)
FairSpec == Spec /\ WF_vars(status = 0 /\ Pack)

----------------------------------------------------------------------------
(* archive_readfile: the first entry of that path.                         *)
archive_readfile(entries, x) ==
  entries[CHOOSE i \in 1 .. Len(entries) :
            entries[i].path = x /\ \A h \in 1 .. i - 1 : entries[h].path # x].data

Finished == status = 0 /\ \A j \in Job : pc[j] = "done"
Ask(j) == {i \in 1 .. Len(arch[j]) : want[j] \in {Root, arch[j][i].path}}
Entries == UNION {{arch[j][i] : i \in Ask(j)} : j \in Job}

(* An entry need not stand as it was packed where another one has its path *)
(* or its path's directory in another way, where the target held a         *)
(* directory for it or something else for a directory, or if it is of a    *)
(* kind that is skipped.                                                   *)
Contested(e) ==
  \/ e.kind = "other"
  \/ \E f \in Entries : f.path = e.path /\ f # e
  \/ \E f \in Entries : f.path = Dir[e.path] /\ f.kind # "dir"
  \/ \E f \in Entries : Dir[f.path] = e.path /\ e.kind # "dir"
  \/ e.path \in before.dir /\ e.kind # "dir"
  \/ e.path \in before.other /\ e.kind = "dir"
  \/ Dir[e.path] \in before.other

(* When every job has ended and nothing was reported, each entry asked for *)
(* is there once, with the content archive_readfile would give, whatever   *)
(* stood at its place before and whichever way the jobs' steps mixed       *)
(* (archive_extract_fn, archive-extract.c:101-169).                        *)
ExtractedIsWhole ==
  Finished /\ ~ lenient =>
    \A j \in Job : \A i \in Ask(j) :
      LET e == arch[j][i] IN
      Contested(e) \/ ( /\ tree[e.path].kind = e.kind
                       /\ tree[e.path].data = archive_readfile(arch[j], e.path) )

(* A job that has something to extract, or waits for the archive packed.  *)
Works(j) == arch[j] # <<>> \/ (j = First /\ list # <<>>)

(* What was packed is what was there: the entries of an archive are, in    *)
(* order, those of the paths of the list, with the kind and data that each *)
(* path not deleted meanwhile has.  A file that could not be opened is     *)
(* there without its data, and nobody is told.  Entries are missing only   *)
(* behind a path that was deleted; the caller can know it from the errors  *)
(* left in the log, unless another job replaces that                       *)
(* (archive-create.c:119-204).                                             *)
PackedIsWhole ==
  packer = "closed" /\ status = 0 =>
    /\ Len(out) # Len(list) =>
         /\ Len(out) < Len(list) /\ list[Len(out) + 1] \in vanished
         /\ log > 0 \/ lenient \/ \E j \in Job \ {First} : Works(j)
    /\ \A i \in 1 .. Len(out) :
         LET x == list[i] IN
         /\ out[i].path = x
         /\ x \in vanished \/ out[i] =
              IF src[x].kind = "unreadable" THEN EntryOf(x, "file", "")
                                            ELSE EntryOf(x, src[x].kind, src[x].data)

(* A regular file that could not be made always ends the process, if only  *)
(* by writing through a null pointer; a link or directory that could not   *)
(* be made does so too if one job works alone.  With several jobs its      *)
(* message can be in a list that another job replaces before error(3) looks*)
(* (error.c:24-50, archive-extract.c:142-155).                             *)
FailureEndsProcess ==
  Finished /\ ~ lenient =>
    \A f \in failed : arch[f[1]][f[2]].kind # "file" /\ \E j \in Job \ {f[1]} : Works(j)

(* Packing comes to an end, with the archive closed or the process ended,  *)
(* unless it stays for ever at a path of the list that is not there, which *)
(* it tries again and again, or, with errors forgiven, at a pipe, which it *)
(* waits for; whatever is deleted between its steps                        *)
(* (archive-create.c:119-204).                                             *)
StandsAt(kind) == k <= Len(list) /\ src[list[k]].kind = kind
PackEnds ==
  \/ <>(packer = "closed" \/ status # 0)
  \/ <>[](packer = "header" /\ StandsAt("none"))
  \/ <>[](packer = "blocked" /\ StandsAt("fifo") /\ lenient)
=============================================================================
