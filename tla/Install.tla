------------------------------ MODULE Install ------------------------------
(***************************************************************************)
(* The install and remove operations of ymp on the store they change: the  *)
(* files of the root file system and, for each installed package, its file *)
(* list, its link list and its metadata.  install_main extracts the        *)
(* packages of one transaction into a quarantine of the same shape,        *)
(* validates it and moves it over, one rename at a time; remove_main       *)
(* deletes what the lists name.  A process can be killed between any two   *)
(* steps, a download, an extraction or a move can fail, an archive can hold*)
(* other files than its lists name, and the next process starts from what  *)
(* is on the disk.                                                         *)
(*                                                                         *)
(* A slot is one thing on the disk: <<"root", path>>, which holds a file's *)
(* content or a link's target, or <<"files" | "links" | "metadata", pkg>>, *)
(* which holds the version whose list or metadata it is.  single_instance  *)
(* admits one process, so its steps are interleaved with faults only.      *)
(***************************************************************************)
EXTENDS Naturals, FiniteSets

CONSTANTS
  Pkg, Ver, Path,
  Content,        \* contents of files, targets of links
  Absent,         \* nothing in a slot
  Files, Links,   \* what each version of each package lists: path -> content
  Installs,       \* transactions: non-empty functions from packages to versions
  Removals,       \* sets of packages
  Restricted,     \* paths that restricted.list or the store's own name matches
  Foreign,        \* <<package, version>> of another architecture
  InstallFlags, RemoveFlags,  \* what an operation may be told or meet: sets of flags
  MaxOps,         \* bound on the operations of one behaviour
  MaxFaults       \* bound on the faults of one behaviour

Area == {"files", "links", "metadata"}

Slot == ({"root"} \X Path) \cup (Area \X Pkg)

Root(x) == <<"root", x>>

(* The paths a list of a version names.                                    *)
Paths(list, p, v) == IF v = Absent THEN {} ELSE DOMAIN list[p][v]

(* Where a version's files and links go, and what goes there.              *)
Entries(p, v) ==
  LET dom == Paths(Files, p, v) \cup Paths(Links, p, v) IN
  [s \in { Root(x) : x \in dom } |->
     IF s[2] \in Paths(Files, p, v) THEN Files[p][v][s[2]] ELSE Links[p][v][s[2]]]

IsList(list) ==
  \A p \in Pkg, v \in Ver :
    DOMAIN list[p][v] \subseteq Path /\ \A x \in DOMAIN list[p][v] : list[p][v][x] \in Content

ASSUME InstallAssumption ==
  /\ Absent \notin Content \cup Ver
  /\ IsList(Files) /\ IsList(Links)
  /\ \A q \in Installs :
       DOMAIN q \subseteq Pkg /\ DOMAIN q # {} /\ \A p \in DOMAIN q : q[p] \in Ver
  /\ Removals \subseteq SUBSET Pkg
  /\ InstallFlags \cup RemoveFlags \subseteq
       SUBSET {"ignore-error", "ignore-quarantine", "download-only", "without-files",
               "without-metadata", "user", "usrmerge", "locked", "declined"}
  /\ MaxOps \in Nat /\ MaxFaults \in Nat

VARIABLES
  live,         \* the root file system and the package database
  quar,         \* the quarantine
  pc,           \* the phase of the operation, or "idle"
  txn,          \* installing: the version of each package
  todo,         \* what is left to do in this phase
  cur,          \* the slot whose old content is removed, its new not yet moved in
  got,          \* the packages whose archive is downloaded
  leftovers,    \* the slots to clear at the end of an installation
  errors,       \* error_add was called since the last error()
  flags,        \* what the operation was told and what it met
  outcome,      \* how the last operation ended
  before,       \* history: live when the operation began
  missed,       \* history: the slots whose move failed in this operation
  clean,        \* history: no fault in this operation
  abandoned,    \* history: a removal was told to leave the files
  ops, faults   \* counted for the bounds

operation == <<txn, flags, before, ops, abandoned>>   \* fixed once it has begun
bad == <<faults, clean>>
vars == <<live, quar, pc, todo, cur, got, leftovers, errors, outcome, missed, operation, bad>>

(* --ignore-error or shellmode: error() does not exit.                     *)
forgiving == "ignore-error" \in flags

(* Errors and the validation count.                                        *)
Strict == flags \cap {"ignore-error", "ignore-quarantine"} = {}

Nowhere == [s \in Slot |-> Absent]

(* A store on which exactly the packages with a version in i are.          *)
StoreOf(i) ==
  [s \in Slot |->
     IF s[1] # "root" THEN i[s[2]]
     ELSE LET owners == { p \in Pkg : s \in DOMAIN Entries(p, i[p]) } IN
          IF owners = {} THEN Absent
          ELSE LET owner == CHOOSE r \in owners : TRUE IN Entries(owner, i[owner])[s]]

(* At first no path belongs to two installed packages.                     *)
Disjoint(i) ==
  \A p, q \in Pkg : p # q => DOMAIN Entries(p, i[p]) \cap DOMAIN Entries(q, i[q]) = {}

Init ==
  /\ \E i \in [Pkg -> Ver \cup {Absent}] : Disjoint(i) /\ live = StoreOf(i)
  /\ quar = Nowhere
  /\ pc = "idle" /\ txn = <<>> /\ todo = {} /\ cur = {} /\ got = {} /\ leftovers = {}
  /\ errors = FALSE
  /\ flags = {} /\ abandoned = FALSE
  /\ outcome = "none"
  /\ before = live /\ missed = {} /\ clean = TRUE
  /\ ops = 0 /\ faults = 0

----------------------------------------------------------------------------
Fault == faults < MaxFaults /\ faults' = faults + 1 /\ clean' = FALSE

(* exit(status): the process ends, its lock with it.                       *)
Exit(how) == pc' = "idle" /\ outcome' = how /\ todo' = {} /\ errors' = FALSE

(* error(status) with the errors so far: exit, unless the program is told  *)
(* to go on, in which case the errors are forgotten.  The mutant goes on.  *)
GoOn(errs, phase, work) ==
  pc' = phase /\ todo' = work /\ errors' = FALSE /\ UNCHANGED outcome
ErrorOr(errs, phase, work) ==
  IF errs /\ ~forgiving THEN Exit("failed")
  ELSE pc' = phase /\ todo' = work /\ errors' = FALSE /\ UNCHANGED outcome

Begin(f) ==
  /\ pc = "idle" /\ ops < MaxOps
  /\ ops' = ops + 1
  /\ flags' = f
  /\ before' = live /\ missed' = {} /\ clean' = TRUE /\ cur' = {} /\ got' = {} /\ leftovers' = {}
  /\ UNCHANGED <<live, faults>>

(* The checks an operation starts with: root, a merged /usr unless         *)
(* --no-emerge, the lock (which no error mode passes), and the question of *)
(* --ask, or of removing the package manager.                              *)
Barred(f, checks) ==
  f \cap {"locked", "declined"} # {} \/ (f \cap checks # {} /\ "ignore-error" \notin f)

----------------------------------------------------------------------------
(* install_main for what the resolver found: quarantine_reset, then the    *)
(* downloads.                                                              *)
BeginInstall(q, f) ==
  /\ Begin(f)
  /\ txn' = q /\ UNCHANGED abandoned
  /\ IF Barred(f, {"user", "usrmerge"})
       THEN Exit("failed") /\ UNCHANGED quar
       ELSE /\ quar' = Nowhere /\ errors' = FALSE /\ outcome' = "none"
            /\ pc' = "download" /\ todo' = DOMAIN q

(* download_only, a job for each package.  A download that fails, or whose *)
(* sums do not match, is an error.                                         *)
Download(p) ==
  /\ pc = "download" /\ p \in todo
  /\ todo' = todo \ {p}
  /\ \/ got' = got \cup {p} /\ UNCHANGED <<errors, bad>>
     \/ Fault /\ errors' = TRUE /\ UNCHANGED got
  /\ UNCHANGED <<live, quar, pc, cur, leftovers, outcome, missed, operation>>

(* --download-only returns 0, and main looks whether there were errors.    *)
Downloaded ==
  /\ pc = "download" /\ todo = {}
  /\ IF "download-only" \in flags
       THEN Exit(IF errors /\ ~forgiving THEN "failed" ELSE "ok")
       ELSE pc' = "get" /\ todo' = DOMAIN txn /\ UNCHANGED <<errors, outcome>>
  /\ UNCHANGED <<live, quar, cur, got, leftovers, missed, bad, operation>>

(* package_get_single: what is not there is downloaded once more, and the  *)
(* architecture looked at; error(2).                                       *)
Get(p) ==
  LET wrong == <<p, txn[p]>> \in Foreign
      Then(errs) == IF todo = {p} THEN ErrorOr(errs, "extract", DOMAIN txn)
                    ELSE ErrorOr(errs, "get", todo \ {p})
  IN
  /\ pc = "get" /\ p \in todo
  /\ \/ got' = got \cup {p} /\ Then(errors \/ wrong) /\ UNCHANGED bad
     \/ p \notin got /\ Fault /\ Then(TRUE) /\ UNCHANGED got
  /\ UNCHANGED <<live, quar, cur, leftovers, missed, operation>>

(* What package.extract leaves in the quarantine: the lists and metadata,  *)
(* and the data unless its archive-hash did not match.                     *)
Laid(p, data) ==
  [s \in Slot |->
     IF s \in Area \X {p} THEN txn[p]
     ELSE IF data /\ s \in DOMAIN Entries(p, txn[p]) THEN Entries(p, txn[p])[s]
     ELSE quar[s]]

(* package_extract_single, a job for each package.  It ends with error(3): *)
(* in a job that exits the whole process.                                  *)
Extract(p) ==
  /\ pc = "extract" /\ p \in todo
  /\ \/ /\ p \in got
        /\ quar' = Laid(p, TRUE)
        /\ ErrorOr(errors, "extract", todo \ {p})
        /\ UNCHANGED bad
     \/ /\ p \in got /\ Fault
        /\ quar' = Laid(p, FALSE)
        /\ ErrorOr(TRUE, "extract", todo \ {p})
     \/ /\ p \notin got
        /\ ErrorOr(TRUE, "extract", todo \ {p})
        /\ UNCHANGED <<quar, bad>>
  /\ UNCHANGED <<live, cur, got, leftovers, missed, operation>>

(* The data archive does not hold what the lists say, or the disk does not *)
(* return what was written: a file is missing, other than listed, or is    *)
(* one that no list names.  package.extract unpacks all there is.          *)
Spoil(s) ==
  /\ pc = "extract" /\ got # {} /\ Fault
  /\ s[1] = "root"
  /\ \E c \in Content \cup {Absent} : c # quar[s] /\ quar' = [quar EXCEPT ![s] = c]
  /\ UNCHANGED <<live, pc, todo, cur, got, leftovers, errors, outcome, missed, operation>>

(* calculate_leftover_single: what the installed package lists and the     *)
(* package of the same name in the quarantine does not.                    *)
ListOf(store, p) ==
  { Root(x) : x \in Paths(Files, p, store[<<"files", p>>]) \cup Paths(Links, p, store[<<"links", p>>]) }

Replaced(p) == live[<<"metadata", p>>] # Absent /\ quar[<<"metadata", p>>] # Absent

(* The mutant takes the difference the other way round.                    *)
NewOnly(p) == IF Replaced(p) THEN ListOf(quar, p) \ ListOf(live, p) ELSE {}
Leftover(p) == IF Replaced(p) THEN ListOf(live, p) \ ListOf(quar, p) ELSE {}

(* Reading an installed package's list that is not there is an error.      *)
ListMissing(p) ==
  \E a \in {"files", "links"} : live[<<"metadata", p>>] # Absent /\ live[<<a, p>>] = Absent

(* quarantine_validate, as Quarantine has it: what passes is intact; a path*)
(* that two packages bring may or may not be noticed.  The mutant compares  *)
(* with what is installed.                                                 *)
MatchesInstalled(p) == \A s \in ListOf(quar, p) : quar[s] = live[s]
Intact(p) ==
  \A s \in ListOf(quar, p) : quar[s] = Entries(p, quar[<<"files", p>>])[s]

Conflict ==
  \E p, q \in DOMAIN txn : p # q /\ ListOf(quar, p) \cap ListOf(quar, q) # {}

(* The directory entries that quarantine_install goes through; the mutant  *)
(* goes through those of the installed system.                             *)
InstalledEntries(area) == { s \in Slot : s[1] = area /\ live[s] # Absent }
Quarantined(area) == { s \in Slot : s[1] = area /\ quar[s] # Absent }

(* What the lists name is as listed and none of it restricted.  The mutant *)
(* does not validate.                                                      *)
PassAll == TRUE
Permitted(p) == \A s \in ListOf(quar, p) : s[2] \notin Restricted
Validated == \A p \in DOMAIN txn : Intact(p) /\ Permitted(p)

(* Leftovers, validation, error(1), and the start of quarantine_install.   *)
Judge ==
  /\ pc = "extract" /\ todo = {}
  /\ leftovers' = UNION { Leftover(p) : p \in DOMAIN txn }
  /\ \E found \in {FALSE, Conflict} :
       ErrorOr(\/ errors
               \/ "ignore-quarantine" \notin flags /\ (~Validated \/ found)
               \/ \E p \in DOMAIN txn : Replaced(p) /\ ListMissing(p),
               "root", Quarantined("root"))
  /\ UNCHANGED <<live, quar, cur, got, missed, bad, operation>>

----------------------------------------------------------------------------
(* quarantine_install: move_file for everything in quarantine/rootfs, then *)
(* for the lists, the links and the metadata.  Each first removes what is  *)
(* there and then renames.                                                 *)
Moving == pc \in {"root", "files", "links", "metadata"}

Displace(s) ==
  /\ Moving /\ s \in todo /\ cur = {} /\ live[s] # Absent
  /\ live' = [live EXCEPT ![s] = Absent]
  /\ cur' = {s}
  /\ UNCHANGED <<quar, pc, todo, got, leftovers, errors, outcome, missed, bad, operation>>

Place(s) ==
  /\ Moving /\ s \in todo
  /\ cur = {s} \/ (cur = {} /\ live[s] = Absent)
  /\ todo' = todo \ {s} /\ cur' = {}
  /\ \/ /\ live' = [live EXCEPT ![s] = quar[s]]
        /\ quar' = [quar EXCEPT ![s] = Absent]
        /\ UNCHANGED <<errors, missed, bad>>
     \/ /\ Fault
        /\ errors' = TRUE /\ missed' = missed \cup {s}
        /\ UNCHANGED <<live, quar>>
  /\ UNCHANGED <<pc, got, leftovers, outcome, operation>>

(* The order of the phases.  The mutant moves the metadata before the rest.*)
MetadataFirst(phase) ==
  CASE phase = "root" -> "metadata" [] phase = "metadata" -> "files" [] phase = "files" -> "links"
    [] phase = "links" -> "wipe"
Following(phase) ==
  CASE phase = "root" -> "files" [] phase = "files" -> "links" [] phase = "links" -> "metadata"
    [] phase = "metadata" -> "wipe"

NextPhase ==
  /\ Moving /\ todo = {}
  /\ pc' = Following(pc)
  /\ todo' = Quarantined(Following(pc))
  /\ UNCHANGED <<live, quar, cur, got, leftovers, errors, outcome, missed, bad, operation>>

(* quarantine_reset, error(1), and the start of clearing the leftovers.    *)
Wipe ==
  /\ pc = "wipe"
  /\ quar' = Nowhere
  /\ ErrorOr(errors, "clear", leftovers)
  /\ UNCHANGED <<live, cur, got, leftovers, missed, bad, operation>>

Clear(s) ==
  /\ pc = "clear" /\ s \in todo
  /\ live' = [live EXCEPT ![s] = Absent]
  /\ todo' = todo \ {s}
  /\ UNCHANGED <<quar, pc, cur, got, leftovers, errors, outcome, missed, bad, operation>>

Cleared ==
  /\ pc = "clear" /\ todo = {}
  /\ Exit("ok")
  /\ UNCHANGED <<live, quar, cur, got, leftovers, missed, bad, operation>>

----------------------------------------------------------------------------
(* remove_single, a job for each installed package: its links, its files,  *)
(* its metadata, its file list, its link list, in this order.  The work is *)
(* <<package, rank, slot>>.  The mutant forgets the metadata first.        *)
MetadataRankFirst == 0
MetadataRank == 3

Work(p, f) ==
  (IF "without-files" \in f THEN {}
   ELSE { <<p, 1, Root(x)>> : x \in Paths(Links, p, live[<<"links", p>>]) }
        \cup { <<p, 2, Root(x)>> : x \in Paths(Files, p, live[<<"files", p>>]) })
  \cup
  (IF "without-metadata" \in f THEN {}
   ELSE { <<p, MetadataRank, <<"metadata", p>> >>, <<p, 4, <<"files", p>> >>, <<p, 5, <<"links", p>> >> })

BeginRemove(S, f) ==
  LET present == { p \in S : live[<<"metadata", p>>] # Absent } IN
  /\ Begin(f)
  /\ txn' = <<>> /\ abandoned' = (abandoned \/ "without-files" \in f)
  /\ IF Barred(f, {"user"})
       THEN Exit("failed")
       ELSE /\ pc' = "remove" /\ outcome' = "none"
            /\ todo' = UNION { Work(p, f) : p \in present }
            /\ errors' = ("without-files" \notin f /\ \E p \in present : ListMissing(p))
  /\ UNCHANGED quar

RemoveFile(w) ==
  /\ pc = "remove" /\ w \in todo
  /\ \A u \in todo : u[1] = w[1] => u[2] >= w[2]
  /\ live' = [live EXCEPT ![w[3]] = Absent]
  /\ todo' = todo \ {w}
  /\ UNCHANGED <<quar, pc, cur, got, leftovers, errors, outcome, missed, bad, operation>>

(* main: error(1) if anything was reported, else exit(0).                  *)
Removed ==
  /\ pc = "remove" /\ todo = {}
  /\ Exit(IF errors /\ ~forgiving THEN "failed" ELSE "ok")
  /\ UNCHANGED <<live, quar, cur, got, leftovers, missed, bad, operation>>

----------------------------------------------------------------------------
(* The process is killed, or the machine stops: the disk stays as it is.   *)
Crash ==
  /\ pc # "idle" /\ Fault
  /\ Exit("crashed")
  /\ UNCHANGED <<live, quar, cur, got, leftovers, missed, operation>>

Done == pc = "idle" /\ ops = MaxOps /\ UNCHANGED vars

Next ==
  \/ \E q \in Installs, f \in InstallFlags : BeginInstall(q, f)
  \/ \E p \in Pkg : Download(p) \/ Get(p) \/ Extract(p)
  \/ Downloaded \/ Judge \/ NextPhase \/ Wipe \/ Cleared
  \/ \E s \in Slot : Spoil(s) \/ Displace(s) \/ Place(s) \/ Clear(s)
  \/ \E S \in Removals, f \in RemoveFlags : BeginRemove(S, f)
  \/ \E w \in todo : RemoveFile(w)
  \/ Removed \/ Crash \/ Done

Spec == Init /\ [][Next]_vars

----------------------------------------------------------------------------
TypeOK ==
  /\ \A s \in Slot : {live[s], quar[s], before[s]} \subseteq
       {Absent} \cup IF s[1] = "root" THEN Content ELSE Ver
  /\ pc \in {"idle", "download", "get", "extract", "root", "files", "links", "metadata",
             "wipe", "clear", "remove"}
  /\ DOMAIN txn \subseteq Pkg
  /\ Moving => (\A s \in todo : s[1] = pc /\ quar[s] # Absent) /\ cur \subseteq todo
  /\ pc = "clear" => todo \subseteq leftovers
  /\ errors \in BOOLEAN /\ outcome \in {"none", "ok", "failed", "crashed"}

(* The present or, if idle, the last operation is an installation.         *)
Installing == DOMAIN txn # {}

Listed(s) == { Entries(p, txn[p])[s] : p \in { r \in DOMAIN txn : s \in DOMAIN Entries(r, txn[r]) } }

(* No path that the transaction lists gets anything unvetted, whatever is  *)
(* downloaded, extracted or spoilt: it holds what it held, nothing, or what*)
(* one of the packages lists for it, and if it is restricted not even that.*)
(* (What an archive holds beyond its lists is moved unseen, to paths that  *)
(* no package of the transaction lists.)                                   *)
ListedIsVetted ==
  Installing /\ Strict =>
    \A s \in Slot : s[1] = "root" /\ Listed(s) # {} =>
      \/ live[s] \in {before[s], Absent}
      \/ live[s] \in Listed(s) /\ s[2] \notin Restricted

(* An installation, wherever it is interrupted, has made nothing disappear *)
(* but what it was just replacing, what it failed to replace, and what the *)
(* new versions no longer list.                                            *)
NothingLost ==
  Installing =>
    \A s \in Slot : before[s] # Absent /\ live[s] = Absent => s \in cur \cup missed \cup leftovers

(* The paths that another package of the transaction has given up.         *)
GivenUp(p) ==
  UNION { ListOf(before, r) \ DOMAIN Entries(r, txn[r]) : r \in DOMAIN txn \ {p} }

(* The lists and files of a package are there, but for the slots of except *)
(* and for the files that were cleared as another package's leftovers.     *)
InPlace(p, except) ==
  /\ \A a \in {"files", "links"} : live[<<a, p>>] = txn[p] \/ <<a, p>> \in except
  /\ \A s \in DOMAIN Entries(p, txn[p]) :
       live[s] \in Listed(s) \/ s \in except \/ (live[s] = Absent /\ s \in GivenUp(p))

(* The metadata goes last: when a package is recorded as installed, the    *)
(* move of every file of it, of its file list and of its link list has     *)
(* been made or has failed.                                                *)
MetadataLast ==
  Installing /\ Strict =>
    \A p \in DOMAIN txn :
      live[<<"metadata", p>>] \notin {before[<<"metadata", p>>], Absent} => InPlace(p, missed)

(* The old goes last: no file that only an old version lists is cleared    *)
(* before every package of the transaction is recorded as installed, with  *)
(* no move failed.                                                         *)
OldGoesLast ==
  Installing /\ Strict =>
    \A s \in leftovers \ (cur \cup missed) : before[s] # Absent /\ live[s] = Absent =>
      \A p \in DOMAIN txn :
        live[<<"metadata", p>>] = txn[p] /\ InPlace(p, {})

(* Exit status 0 means installed: all of the transaction is recorded, every*)
(* list and every file is there, except a file that another package of the *)
(* transaction has given up, which is cleared as that one's, and nothing is*)
(* left over.                                                              *)
ExitZeroMeansInstalled ==
  Installing /\ outcome = "ok" /\ Strict /\ "download-only" \notin flags =>
    /\ \A p \in DOMAIN txn : live[<<"metadata", p>>] = txn[p] /\ InPlace(p, {})
    /\ \A s \in leftovers : live[s] = Absent

(* Without faults the database and the root file system agree after every  *)
(* operation: each file belongs to an installed package, unless a removal  *)
(* was told to leave the files, and a package has metadata and both lists  *)
(* of one version, or none of them.                                        *)
NoOrphans ==
  faults = 0 /\ pc = "idle" =>
    /\ abandoned \/ \A s \in Slot : s[1] = "root" /\ live[s] # Absent =>
                                     \E p \in Pkg : s \in ListOf(live, p)
    /\ \A p \in Pkg, a \in Area : live[<<a, p>>] = live[<<"metadata", p>>]

(* remove forgets a package only after the last of its files is gone, so   *)
(* that an interrupted removal can be repeated, unless it was told to leave*)
(* the files.                                                              *)
ForgottenAfterFiles ==
  ~Installing /\ "without-files" \notin flags =>
    \A p \in Pkg : before[<<"metadata", p>>] # Absent /\ live[<<"metadata", p>>] = Absent =>
      \A s \in ListOf(before, p) : live[s] = Absent

(* Whatever happened before, an operation without a fault of its own fails *)
(* only because the lock is taken or the user declines; because it lacks   *)
(* root or finds /usr merged; because a package is for another             *)
(* architecture; because the validation finds a path of two packages or a  *)
(* restricted one; or because an interrupted operation has left an         *)
(* installed package without a list.  If it is to ignore errors, only the  *)
(* first two are left.                                                     *)
FailureHasReason ==
  outcome = "failed" /\ clean =>
    \/ flags \cap {"locked", "declined"} # {}
    \/ /\ ~forgiving
       /\ \/ "user" \in flags \/ (Installing /\ "usrmerge" \in flags)
          \/ \E p \in DOMAIN txn : <<p, txn[p]>> \in Foreign
          \/ /\ "ignore-quarantine" \notin flags
             /\ \E p \in DOMAIN txn : \E s \in DOMAIN Entries(p, txn[p]) :
                  \/ s[2] \in Restricted
                  \/ \E r \in DOMAIN txn \ {p} : s \in DOMAIN Entries(r, txn[r])
          \/ \E p \in Pkg, a \in {"files", "links"} :
               before[<<"metadata", p>>] # Absent /\ before[<<a, p>>] = Absent

(* package.vala:82, list_files "return ymp package files list": a package  *)
(* that is_installed_package reports has its lists.                        *)
InstalledHasLists == pc = "idle" => \A p \in Pkg : ~ListMissing(p)

(* quarantine.vala:170, "install quarantine files to rootfs": when install *)
(* has succeeded, every file of every package of the transaction is there. *)
InstalledIsComplete ==
  Installing /\ outcome = "ok" /\ flags = {} /\ faults = 0 =>
    \A p \in DOMAIN txn : \A s \in DOMAIN Entries(p, txn[p]) : live[s] \in Listed(s)

----------------------------------------------------------------------------
(* The inductive strengthening of ListedIsVetted.                          *)
Preparing == pc \in {"download", "get", "extract"}

(* Until it is judged, the quarantine has lists of the transaction's       *)
(* packages only, and those of every package that was extracted.           *)
ListsOfTransaction ==
  Preparing =>
    \A p \in Pkg, a \in Area :
      /\ quar[<<a, p>>] # Absent => p \in DOMAIN txn /\ quar[<<a, p>>] = txn[p]
      /\ quar[<<a, p>>] = quar[<<"files", p>>]

Complete ==
  pc = "extract" /\ ~forgiving =>
    \A p \in DOMAIN txn \ todo, a \in Area : quar[<<a, p>>] = txn[p]

(* Once it is judged, it holds what is listed where something is listed,   *)
(* and nothing restricted there.                                           *)
Vetted ==
  Moving /\ Strict =>
    \A s \in Slot : s[1] = "root" /\ Listed(s) # {} =>
      quar[s] = Absent \/ (quar[s] \in Listed(s) /\ s[2] \notin Restricted)

WorkOfTransaction == Preparing => txn \in Installs /\ todo \subseteq DOMAIN txn

Stores == live = [s \in Slot |-> live[s]] /\ quar = [s \in Slot |-> quar[s]]

IInv ==
  /\ Stores /\ WorkOfTransaction /\ ListsOfTransaction /\ Complete
  /\ Vetted /\ ListedIsVetted
=============================================================================
