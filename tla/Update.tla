------------------------------- MODULE Update -------------------------------
(***************************************************************************)
(* `ymp repository --update`: update_main and update_repo of               *)
(* src/data/repository.vala over the directory storage/index, with         *)
(* fetch of ccode/fetcher_curl.c, the file helpers of ccode/file.c and the *)
(* lock of ccode/process.c.                                                *)
(*                                                                         *)
(* Several processes run.  update takes the lock and keeps it until the    *)
(* process ends; `ymp clean` empties the same directory without it.  A     *)
(* process may be killed at any step.                                      *)
(*                                                                         *)
(* What an index holds is abstracted to what the code and its readers tell *)
(* apart.  A transfer that fails leaves its stream open: what stdio still  *)
(* buffers is written when the process exits, wherever the file then is.   *)
(***************************************************************************)
EXTENDS Integers, Sequences

CONSTANTS
  Proc,        \* processes of ymp
  Source,      \* lines of sources.list
  Name,        \* file names in storage/index
  FileOf,      \* the file name update_repo makes of a line
  Lines,       \* the order in which get_repo_address returns the lines
  None,        \* no file; nobody
  MaxUpdates,  \* bound: updates begun
  MaxFaults    \* bound: kills and cleans

ASSUME UpdateAssumption ==
  /\ FileOf \in [Source -> Name]
  /\ Lines \in Seq(Source)
  /\ None \notin Proc
  /\ MaxUpdates \in Nat /\ MaxFaults \in Nat

VARIABLES
  dir,         \* storage/index exists
  file,        \* what is in it
  holder,      \* the process that has /run/ymp.pid locked
  epoch,       \* updates begun so far
  ended,       \* how the latest update ended
  cleaned,     \* a clean removed something since it began
  faults,      \* kills and cleans so far
  pc, at,      \* where each process is, and at which line
  todo,        \* the files its remove_all found and has not looked at yet
  mem,         \* index_data
  err,         \* its error log holds something
  open,        \* the files a failed transfer left a stream open on
  lenient,     \* shellmode or ignore-error: error() forgets instead of exiting
  nogpg        \* ignore-gpg

disk == <<dir, file>>
locals == <<pc, at, todo, mem, err, open>>
flags == <<lenient, nogpg>>
vars == <<disk, holder, epoch, ended, cleaned, faults, locals, flags>>

(* "page" is what a server sends with an error status, which is no failure *)
(* to curl; "head" the first part of an index, as far as it was written    *)
(* out; "overwritten" an index into which a late write went.               *)
Content == {"empty", "page", "head", "whole", "head+address", "whole+address",
            "overwritten"}

(* gpg: whether gpg has accepted the signed file that was fetched beside   *)
(* the index, or the user waived that.  That file is signed inline and has *)
(* its own text: nothing compares it with the index.                       *)
File == [data: Content, epoch: Nat, gpg: {"no", "accepted", "waived"}]

ASSUME NoneAssumption == None \notin File

PC == {"idle", "remove", "fetch", "read", "write", "verify", "leaving", "clean",
       "directories", "gone"}

TypeOK ==
  /\ dir \in BOOLEAN
  /\ file \in [Name -> File \cup {None}]
  /\ holder \in Proc \cup {None}
  /\ epoch \in Nat /\ faults \in Nat
  /\ ended \in {"never", "running", "done", "failed", "forgiven", "killed"}
  /\ cleaned \in BOOLEAN
  /\ pc \in [Proc -> PC]
  /\ at \in [Proc -> Nat \ {0}]
  /\ todo \in [Proc -> SUBSET Name]
  /\ mem \in [Proc -> Content]
  /\ err \in [Proc -> BOOLEAN]
  /\ open \in [Proc -> SUBSET Name]
  /\ lenient \in [Proc -> BOOLEAN] /\ nogpg \in [Proc -> BOOLEAN]

Present == { n \in Name : file[n] # None }

(* The directory may hold a complete, accepted index of an earlier time.   *)
Init ==
  /\ dir = TRUE
  /\ file \in [Name -> {None, [data |-> "whole+address", epoch |-> 0, gpg |-> "accepted"]}]
  /\ holder = None
  /\ epoch = 0 /\ ended = "never" /\ cleaned = FALSE /\ faults = 0
  /\ pc = [p \in Proc |-> "idle"]
  /\ at = [p \in Proc |-> 1]
  /\ todo = [p \in Proc |-> {}]
  /\ mem = [p \in Proc |-> "empty"]
  /\ err = [p \in Proc |-> FALSE]
  /\ open = [p \in Proc |-> {}]
  /\ lenient \in [Proc -> BOOLEAN] /\ nogpg \in [Proc -> BOOLEAN]

Here(p) == FileOf[Lines[at[p]]]

(* A file that is unlinked takes with it what is still buffered for it.    *)
Remove(n) ==
  /\ file' = [file EXCEPT ![n] = None]
  /\ open' = [p \in Proc |-> open[p] \ {n}]

NextLine(p) ==
  /\ pc' = [pc EXCEPT ![p] = "fetch"]
  /\ at' = [at EXCEPT ![p] = @ + 1]

(* The lock as single_instance takes it; the mutant forgets the refusal.   *)
AlwaysAdmitted(p) == p \in Proc
Admitted(p) == holder \in {None, p}

single_instance(p) ==
  /\ pc[p] = "idle" /\ epoch < MaxUpdates
  /\ IF Admitted(p)
     THEN /\ holder' = p
          /\ epoch' = epoch + 1 /\ ended' = "running" /\ cleaned' = FALSE
          /\ todo' = [todo EXCEPT ![p] = Present]
          /\ pc' = [pc EXCEPT ![p] = "remove"]
     ELSE /\ pc' = [pc EXCEPT ![p] = "leaving"]
          /\ UNCHANGED <<holder, epoch, ended, cleaned, todo>>
  /\ UNCHANGED <<disk, faults, at, mem, err, open, flags>>

(* remove_all looks at one file after the other, of those it has found.    *)
RemoveFile(p, n) ==
  /\ pc[p] \in {"remove", "clean"} /\ n \in todo[p]
  /\ Remove(n)
  /\ todo' = [todo EXCEPT ![p] = @ \ {n}]
  /\ cleaned' = (cleaned \/ pc[p] = "clean")
  /\ UNCHANGED <<dir, holder, epoch, ended, faults, pc, at, mem, err, flags>>

(* create_dir puts the directory back whether or not rmdir could remove it. *)
create_dir(p) ==
  /\ pc[p] = "remove" /\ todo[p] = {}
  /\ dir' = TRUE
  /\ at' = [at EXCEPT ![p] = 1]
  /\ pc' = [pc EXCEPT ![p] = "fetch"]
  /\ UNCHANGED <<file, holder, epoch, ended, cleaned, faults, todo, mem, err, open, flags>>

(* What the transfer of an index leaves in its file, and whether it failed. *)
(* "part": it broke when the buffer had been written out at least once;    *)
(* "late": it broke when all of it had been.                               *)
Reply == {"complete", "page", "nothing", "part", "late"}
Arrived(reply) ==
  CASE reply = "page"    -> "page"
    [] reply = "nothing" -> "empty"
    [] reply = "part"    -> "head"
    [] OTHER             -> "whole"
UnsuccessfulIfEmpty(reply) == reply = "nothing"
Unsuccessful(reply) == reply \in {"nothing", "part", "late"}

(* fetch: fopen truncates or creates the file, and fails without the       *)
(* directory.  Its stream is closed when the transfer succeeded only.      *)
fetch(p, reply) ==
  /\ pc[p] = "fetch" /\ at[p] <= Len(Lines)
  /\ IF dir
     THEN /\ file' = [file EXCEPT ![Here(p)] =
                        [data |-> Arrived(reply), epoch |-> epoch, gpg |-> "no"]]
          /\ err' = [err EXCEPT ![p] = @ \/ Unsuccessful(reply)]
          /\ open' = [open EXCEPT ![p] = IF reply \in {"nothing", "part"}
                                         THEN @ \cup {Here(p)} ELSE @]
     ELSE /\ err' = [err EXCEPT ![p] = TRUE]
          /\ UNCHANGED <<file, open>>
  /\ pc' = [pc EXCEPT ![p] = "read"]
  /\ UNCHANGED <<dir, holder, epoch, ended, cleaned, faults, at, todo, mem, flags>>

(* startswith(index_data, "index:").                                       *)
Headed(c) == c \notin {"empty", "page"}

(* readfile_raw and the test of the first bytes.                           *)
readfile_raw(p) ==
  /\ pc[p] = "read"
  /\ IF Here(p) \in Present /\ Headed(file[Here(p)].data)
     THEN /\ mem' = [mem EXCEPT ![p] = file[Here(p)].data]
          /\ pc' = [pc EXCEPT ![p] = "write"]
          /\ UNCHANGED <<file, open, at, err>>
     ELSE /\ err' = [err EXCEPT ![p] = TRUE]
          /\ Remove(Here(p))
          /\ NextLine(p)
          /\ UNCHANGED mem
  /\ UNCHANGED <<dir, holder, epoch, ended, cleaned, faults, todo, flags>>

Addressed(c) == IF c = "head" THEN "head+address" ELSE "whole+address"

(* writefile truncates the file it finds, under the stream that may be     *)
(* open on it, or creates it again.                                        *)
writefile(p) ==
  /\ pc[p] = "write"
  /\ IF dir
     THEN /\ file' = [file EXCEPT ![Here(p)] =
                        [data |-> Addressed(mem[p]), epoch |-> epoch,
                         gpg |-> IF nogpg[p] THEN "waived" ELSE "no"]]
          /\ UNCHANGED err
     ELSE /\ err' = [err EXCEPT ![p] = TRUE]
          /\ UNCHANGED file
  /\ IF nogpg[p] THEN NextLine(p)
                 ELSE pc' = [pc EXCEPT ![p] = "verify"] /\ UNCHANGED at
  /\ UNCHANGED <<dir, holder, epoch, ended, cleaned, faults, todo, mem, open, flags>>

(* path.gpg is fetched and gpg asked about it; `good` is what it says, and *)
(* the index at path need only be there.  One that fails stays.            *)
verify_file(p, good) ==
  /\ pc[p] = "verify"
  /\ IF Here(p) \in Present /\ good
     THEN /\ file' = [file EXCEPT ![Here(p)].gpg = "accepted"]
          /\ UNCHANGED err
     ELSE /\ err' = [err EXCEPT ![p] = TRUE]
          /\ UNCHANGED file
  /\ NextLine(p)
  /\ UNCHANGED <<dir, holder, epoch, ended, cleaned, faults, todo, mem, open, flags>>

(* error(2) at the end of update_repo.                                     *)
error(p) ==
  /\ pc[p] = "fetch" /\ at[p] > Len(Lines)
  /\ ended' = IF ~ err[p] THEN "done" ELSE IF lenient[p] THEN "forgiven" ELSE "failed"
  /\ pc' = [pc EXCEPT ![p] = IF err[p] /\ ~ lenient[p] THEN "leaving" ELSE "idle"]
  /\ err' = [err EXCEPT ![p] = FALSE]
  /\ UNCHANGED <<disk, holder, epoch, cleaned, faults, at, todo, mem, open, flags>>

(* What a late write makes of an index: behind "head" it is the part that  *)
(* was missing, over anything longer it destroys what stands there.        *)
Flushed(c) == IF c = "head" THEN "whole" ELSE "overwritten"

(* exit: stdio writes out the streams, the kernel frees the lock.          *)
Exit(p) ==
  /\ pc[p] \in {"idle", "leaving"}
  /\ file' = [n \in Name |-> IF n \in open[p] \cap Present
                             THEN [file[n] EXCEPT !.data = Flushed(@)] ELSE file[n]]
  /\ open' = [open EXCEPT ![p] = {}]
  /\ holder' = IF holder = p THEN None ELSE holder
  /\ pc' = [pc EXCEPT ![p] = "gone"]
  /\ UNCHANGED <<dir, epoch, ended, cleaned, faults, at, todo, mem, err, flags>>

Kill(p) ==
  /\ pc[p] # "gone" /\ faults < MaxFaults
  /\ faults' = faults + 1
  /\ open' = [open EXCEPT ![p] = {}]
  /\ holder' = IF holder = p THEN None ELSE holder
  /\ ended' = IF pc[p] \in {"remove", "fetch", "read", "write", "verify"}
              THEN "killed" ELSE ended
  /\ pc' = [pc EXCEPT ![p] = "gone"]
  /\ UNCHANGED <<disk, epoch, cleaned, at, todo, mem, err, flags>>

(* clean_main: no lock.  rmdir fails if a file appeared meanwhile.         *)
clean_main(p) ==
  /\ pc[p] = "idle" /\ faults < MaxFaults
  /\ faults' = faults + 1
  /\ todo' = [todo EXCEPT ![p] = Present]
  /\ pc' = [pc EXCEPT ![p] = "clean"]
  /\ UNCHANGED <<disk, holder, epoch, ended, cleaned, at, mem, err, open, flags>>

remove_dir(p) ==
  /\ pc[p] = "clean" /\ todo[p] = {}
  /\ dir' = (dir /\ Present # {})
  /\ pc' = [pc EXCEPT ![p] = "directories"]
  /\ UNCHANGED <<file, holder, epoch, ended, cleaned, faults, at, todo, mem, err, open, flags>>

directories_init(p) ==
  /\ pc[p] = "directories"
  /\ dir' = TRUE
  /\ pc' = [pc EXCEPT ![p] = "idle"]
  /\ UNCHANGED <<file, holder, epoch, ended, cleaned, faults, at, todo, mem, err, open, flags>>

AllGone == (\A p \in Proc : pc[p] = "gone") /\ UNCHANGED vars

Step(p) ==
  \/ single_instance(p)
  \/ \E n \in Name : RemoveFile(p, n)
  \/ create_dir(p)
  \/ \E reply \in Reply : fetch(p, reply)
  \/ readfile_raw(p)
  \/ writefile(p)
  \/ \E good \in BOOLEAN : verify_file(p, good)
  \/ error(p)
  \/ Exit(p)
  \/ Kill(p)
  \/ clean_main(p)
  \/ remove_dir(p)
  \/ directories_init(p)

Next == (\E p \in Proc : Step(p)) \/ AllGone

Spec == Init /\ [][Next]_vars

----------------------------------------------------------------------------
(* The indexes that lie in the directory at any moment come from one       *)
(* update: the old ones go before the first new one is fetched, and no     *)
(* other update begins while a process that has updated still lives, with  *)
(* streams it may yet write out.  get_package_from_repository compares     *)
(* releases across them.                                                   *)
NeverMixed == \A m, n \in Present : file[m].epoch = file[n].epoch

(* If the latest update ended with 0, unforgiven, every index that lies    *)
(* there is complete, knows its address and has had the signed file beside *)
(* it accepted by gpg or was let off that, and none is missing but for a   *)
(* clean.  So an index that is incomplete or was not accepted, which the   *)
(* next command would load all the same, is always the rest of an update   *)
(* that failed, was killed or whose errors the user had told ymp to forget.*)
(* Whether it says what gpg accepted, the code does not ask.               *)
Sound(n) ==
  /\ file[n].data = "whole+address"
  /\ file[n].epoch = epoch
  /\ file[n].gpg # "no"
ZeroMeansCurrent ==
  ended = "done" =>
    /\ \A n \in Present : Sound(n)
    /\ cleaned \/ \A i \in 1 .. Len(Lines) : FileOf[Lines[i]] \in Present
=============================================================================
