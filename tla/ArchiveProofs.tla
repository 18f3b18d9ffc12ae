--------------------------- MODULE ArchiveProofs ---------------------------
(***************************************************************************)
(* Theorems about Archive for all trees, archives, lists and numbers of    *)
(* jobs.  Something that could not be made does not go unnoticed: a file   *)
(* that could not be opened keeps its job at that entry until the process  *)
(* ends (Caught), whatever the other jobs do to the error log, and of a    *)
(* job that works alone every message stays in the log until error() sees  *)
(* it (Alone).  What is packed is what was there (PInv).  What is          *)
(* extracted is what was packed (XInv): an entry some job has come to      *)
(* stands at its place, or a job is about to put it there (Settled).       *)
(***************************************************************************)
EXTENDS Archive, WellFoundedInduction, TLAPS

Functions == DOMAIN pc = Job /\ DOMAIN pos = Job /\ DOMAIN back = Job /\ DOMAIN arch = Job
LogKind == log \in Int /\ log >= -1

(* The first job waits for the archive that is being packed.               *)
Waiting == packer # "closed" => list # <<>> /\ pc[First] = "wait"

Noting(j) == pc[j] \in {"check", "create", "add"}
Extracting(j) == pc[j] \in {"mkdir", "parent", "clear", "unlink", "put", "symlink", "data"}

(* Where a job can be, by what it does there.                              *)
Sane(j) ==
  /\ Noting(j) => back[j] \in {"next", "error"}
  /\ pc[j] = "wait" => back[j] = "next"
  /\ Extracting(j) => arch[j] # <<>>
  /\ pc[j] = "mkdir" => Entry(j).kind = "dir"
  /\ pc[j] = "symlink" => Entry(j).kind = "link"
  /\ pc[j] = "add" => log # -1
  /\ ~Works(j) => pc[j] = "done"
  /\ pos[j] \in Nat /\ pos[j] > 0

Tried(j) ==
  \A f \in failed : f[1] = j => f = <<j, f[2]>> /\ arch[j] # <<>> /\ pc[j] # "wait"

(* A file that could not be opened: its job is on the way to the end of    *)
(* the process.                                                            *)
Caught(j) ==
  status = 0 /\ ~lenient =>
    \A f \in failed : f[1] = j /\ arch[j][f[2]].kind = "file" =>
      /\ pos[j] = f[2]
      /\ \/ Noting(j) /\ back[j] = "error"
         \/ pc[j] \in {"error", "reset"} /\ back[j] = "next" /\ log # -1

(* A message of a job alone is about to be added or in the log.            *)
Alone(j) ==
  status = 0 /\ ~lenient /\ (\E f \in failed : f[1] = j) /\ (\A h \in Job \ {j} : ~Works(h)) =>
    Noting(j) \/ (log > 0 /\ pc[j] \notin {"done", "reset"})

AInv ==
  /\ Functions /\ LogKind /\ Waiting
  /\ \A f \in failed : f[1] \in Job
  /\ \A j \in Job : Sane(j) /\ Tried(j) /\ Caught(j) /\ Alone(j)

----------------------------------------------------------------------------
(* The initial states.                                                     *)
LEMMA InitAInv == Init => AInv
<1> SUFFICES ASSUME Init PROVE AInv
  OBVIOUS
<1>1. PICK s \in Scenarios :
        /\ list = s.list /\ arch = s.arch
        /\ packer = IF s.list = <<>> THEN "closed" ELSE "open"
        /\ pc = [j \in Job |-> IF j = First /\ s.list # <<>> THEN "wait"
                               ELSE IF s.arch[j] = <<>> THEN "done" ELSE "next"]
  BY DEF Init
<1>2. /\ pos = [j \in Job |-> 1] /\ back = [j \in Job |-> "next"]
      /\ log = -1 /\ status = 0 /\ failed = {}
  BY DEF Init
<1>3. Functions /\ LogKind /\ Waiting
  BY <1>1, <1>2, ArchiveAssumption DEF Functions, LogKind, Waiting
<1>4. \A j \in Job : Sane(j)
  BY <1>1, <1>2 DEF Sane, Noting, Extracting, Works
<1>5. \A j \in Job : Tried(j) /\ Caught(j) /\ Alone(j)
  BY <1>2 DEF Tried, Caught, Alone
<1> QED
  BY <1>2, <1>3, <1>4, <1>5 DEF AInv

(* A step of one job leaves what is known of the others.                   *)
LEMMA OthersKept ==
  ASSUME AInv, NEW j \in Job, UNCHANGED <<arch, list, packer, lenient>>, status = 0,
         Functions', LogKind', pc[j] # "wait", pc[j] # "done",
         \A h \in Job \ {j} : pc'[h] = pc[h] /\ pos'[h] = pos[h] /\ back'[h] = back[h],
         log' = -1 => log = -1,
         failed' = failed \/ failed' = failed \cup {<<j, pos[j]>>},
         Sane(j)', Tried(j)', Caught(j)', Alone(j)'
  PROVE  AInv'
<1>1. Waiting'
  BY ArchiveAssumption DEF AInv, Waiting
<1>2. \A f \in failed' : f[1] \in Job
  BY DEF AInv
<1>3. ASSUME NEW h \in Job, h # j PROVE Sane(h)' /\ Tried(h)' /\ Caught(h)' /\ Alone(h)'
  <2>1. \A f : f[1] = h => (f \in failed' <=> f \in failed)
    BY <1>3
  <2>2. Sane(h)'
    BY <1>3 DEF AInv, Sane, Noting, Extracting, Works, Entry
  <2>3. Tried(h)'
    BY <1>3, <2>1 DEF AInv, Tried
  <2>4. Caught(h)'
    BY <1>3, <2>1 DEF AInv, Caught, Noting
  <2>5. Works(j)
    BY DEF AInv, Sane
  <2>6. Alone(h)'
    BY <1>3, <2>5 DEF Alone, Works
  <2> QED
    BY <2>2, <2>3, <2>4, <2>6
<1> QED
  BY <1>1, <1>2, <1>3 DEF AInv

(* Steps on the tree, at which nothing fails.                              *)
LEMMA TreeStep ==
  ASSUME AInv, status = 0, NEW j \in Job,
         NextHeader(j) \/ MakeParent(j) \/ TestOld(j) \/ Unlink(j) \/ PutLink(j) \/ SkipOther(j)
         \/ WriteData(j)
  PROVE  AInv'
<1>1. /\ UNCHANGED <<packing, inputs, log, lenient, status, failed>>
      /\ pc[j] \in {"next", "parent", "clear", "unlink", "put", "data"}
  BY DEF NextHeader, MakeParent, TestOld, Unlink, PutLink, SkipOther, WriteData
<1>2. /\ Functions'
      /\ \A h \in Job \ {j} : pc'[h] = pc[h] /\ pos'[h] = pos[h] /\ back'[h] = back[h]
  <2>1. /\ \E l : pc' = [pc EXCEPT ![j] = l]
        /\ pos' = pos \/ \E n : pos' = [pos EXCEPT ![j] = n]
        /\ back' = back \/ back' = [back EXCEPT ![j] = "done"]
    BY DEF NextHeader, MakeParent, TestOld, Unlink, PutLink, SkipOther, WriteData, Goto, Continue
  <2>2. arch' = arch
    BY <1>1 DEF inputs
  <2>3. DOMAIN pc = Job /\ DOMAIN pos = Job /\ DOMAIN back = Job /\ DOMAIN arch = Job
    BY DEF AInv, Functions
  <2>4. DOMAIN pc' = Job /\ \A h \in Job \ {j} : pc'[h] = pc[h]
    BY <2>1, <2>3
  <2>5. DOMAIN pos' = Job /\ \A h \in Job \ {j} : pos'[h] = pos[h]
    BY <2>1, <2>3
  <2>6. DOMAIN back' = Job /\ \A h \in Job \ {j} : back'[h] = back[h]
    BY <2>1, <2>3
  <2> QED
    BY <2>2, <2>3, <2>4, <2>5, <2>6 DEF Functions
<1>3. \/ pc'[j] = "next"
      \/ /\ pc'[j] \in {"mkdir", "parent", "clear", "unlink", "put", "symlink", "data"}
         /\ arch[j] # <<>> /\ pos' = pos
         /\ pc'[j] = "mkdir" => Entry(j).kind = "dir"
         /\ pc'[j] = "symlink" => Entry(j).kind = "link"
      \/ pc[j] = "next" /\ pc'[j] = "error"
  <2>1. pos[j] \in Nat /\ pos[j] > 0 /\ DOMAIN pc = Job /\ (Extracting(j) => arch[j] # <<>>)
    BY DEF AInv, Sane, Functions
  <2>2. ~(pos[j] > Len(arch[j])) => arch[j] # <<>>
    BY <2>1
  <2>3. CASE NextHeader(j)
    BY <2>1, <2>2, <2>3 DEF NextHeader, Goto, Continue
  <2>4. CASE ~NextHeader(j)
    <3>1. Extracting(j) /\ arch[j] # <<>>
      BY <2>1, <2>4 DEF MakeParent, TestOld, Unlink, PutLink, SkipOther, WriteData, Extracting
    <3> QED
      BY <2>1, <2>4, <3>1
         DEF MakeParent, TestOld, Unlink, PutLink, SkipOther, WriteData, Goto, Continue
  <2> QED
    BY <2>3, <2>4
<1>4. pos'[j] \in Nat /\ pos'[j] > 0
  <2>1. pos[j] \in Nat /\ pos[j] > 0 /\ DOMAIN pos = Job
    BY DEF AInv, Sane, Functions
  <2>2. pos' = pos \/ pos' = [pos EXCEPT ![j] = pos[j] + 1]
    BY DEF NextHeader, MakeParent, TestOld, Unlink, PutLink, SkipOther, WriteData, Continue
  <2> QED
    BY <2>1, <2>2
<1>5. arch' = arch /\ list' = list /\ packer' = packer
  BY <1>1 DEF packing, inputs
<1>6. Works(j)
  BY <1>1 DEF AInv, Sane
<1>7. Sane(j)'
  BY <1>1, <1>3, <1>4, <1>5, <1>6 DEF Sane, Noting, Extracting, Works, Entry
<1>8. Tried(j)'
  BY <1>1, <1>3, <1>5 DEF AInv, Tried
<1>9. Caught(j)'
  BY <1>1, <1>3, <1>5 DEF AInv, Caught, Noting
<1>10. Alone(j)'
  BY <1>1, <1>3, <1>5 DEF AInv, Alone, Noting, Works
<1>11. LogKind'
  BY <1>1 DEF AInv, LogKind
<1> QED
  BY <1>1, <1>2, <1>5, <1>7, <1>8, <1>9, <1>10, <1>11, OthersKept

(* What cannot be made is noted.                                           *)
LEMMA FailingStep ==
  ASSUME AInv, status = 0, NEW j \in Job, MakeDir(j) \/ Symlink(j) \/ PutFile(j)
  PROVE  AInv'
<1>1. /\ UNCHANGED <<packing, inputs, log, lenient, status>>
      /\ pc[j] \in {"mkdir", "symlink", "put"}
      /\ pc[j] = "put" => Entry(j).kind = "file"
  BY DEF MakeDir, Symlink, PutFile
<1>2. /\ Functions'
      /\ \A h \in Job \ {j} : pc'[h] = pc[h] /\ pos'[h] = pos[h] /\ back'[h] = back[h]
  BY DEF MakeDir, Symlink, PutFile, Goto, Continue, Report, AInv, Functions, inputs
<1>3. \/ pc'[j] \in {"next", "data"} /\ failed' = failed
      \/ /\ pc'[j] = "check" /\ pos' = pos /\ failed' = failed \cup {<<j, pos[j]>>}
         /\ back'[j] \in {"next", "error"}
         /\ pc[j] = "put" => back'[j] = "error"
  BY DEF MakeDir, Symlink, PutFile, Goto, Continue, Report, AInv, Functions, Me
<1>4. arch' = arch /\ list' = list /\ packer' = packer
  BY <1>1 DEF packing, inputs
<1>5. Works(j) /\ arch[j] # <<>> /\ (pc[j] # "put" => Entry(j).kind # "file")
  BY <1>1 DEF AInv, Sane, Extracting
<1>6. pos'[j] \in Nat /\ pos'[j] > 0
  <2>1. pos[j] \in Nat /\ pos[j] > 0 /\ DOMAIN pos = Job
    BY DEF AInv, Sane, Functions
  <2>2. pos' = pos \/ pos' = [pos EXCEPT ![j] = pos[j] + 1]
    BY DEF MakeDir, Symlink, PutFile, Report, Continue
  <2> QED
    BY <2>1, <2>2
<1>7. Sane(j)'
  BY <1>1, <1>3, <1>4, <1>5, <1>6 DEF Sane, Noting, Extracting, Works
<1>8. Tried(j)'
  BY <1>1, <1>3, <1>4, <1>5 DEF AInv, Tried
<1>9. Caught(j)'
  BY <1>1, <1>3, <1>4, <1>5 DEF AInv, Caught, Noting, Entry
<1>10. Alone(j)'
  BY <1>1, <1>3, <1>4 DEF AInv, Alone, Noting, Works
<1>11. LogKind'
  BY <1>1 DEF AInv, LogKind
<1> QED
  BY <1>1, <1>2, <1>3, <1>4, <1>7, <1>8, <1>9, <1>10, <1>11, OthersKept

(* error_add: once it has looked there is a list, and then a message.      *)
LEMMA NotingStep ==
  ASSUME AInv, status = 0, NEW j \in Job, CheckLog(j) \/ CreateLog(j) \/ AddMessage(j)
  PROVE  AInv'
<1>1. UNCHANGED <<packing, inputs, lenient, status, failed>> /\ Noting(j)
  BY DEF CheckLog, CreateLog, AddMessage, Noting
<1>2. /\ Functions'
      /\ \A h \in Job \ {j} : pc'[h] = pc[h] /\ pos'[h] = pos[h] /\ back'[h] = back[h]
  BY DEF CheckLog, CreateLog, AddMessage, Goto, AInv, Functions, inputs
<1>3. log \in Int /\ log >= -1 /\ back[j] \in {"next", "error"} /\ (pc[j] = "add" => log # -1)
  BY <1>1 DEF AInv, LogKind, Sane
<1>4. \/ /\ pc'[j] \in {"create", "add"} /\ pos' = pos /\ back' = back
         /\ log' = log \/ log' = 0
         /\ pc'[j] = "add" => log' # -1
      \/ /\ log' = log + 1 /\ log' > 0
         /\ pc'[j] = back[j] /\ back'[j] = "next"
         /\ back[j] = "error" => pos' = pos
  BY <1>3 DEF CheckLog, CreateLog, AddMessage, Goto, AInv, Functions
<1>5. arch' = arch /\ list' = list /\ packer' = packer
  BY <1>1 DEF packing, inputs
<1>6. Works(j)
  BY <1>1 DEF AInv, Sane, Noting
<1>7. pos'[j] \in Nat /\ pos'[j] > 0
  <2>1. pos[j] \in Nat /\ pos[j] > 0 /\ DOMAIN pos = Job
    BY DEF AInv, Sane, Functions
  <2>2. pos' = pos \/ pos' = [pos EXCEPT ![j] = pos[j] + 1]
    BY DEF CheckLog, CreateLog, AddMessage
  <2> QED
    BY <2>1, <2>2
<1>8. Sane(j)'
  BY <1>3, <1>4, <1>5, <1>6, <1>7 DEF Sane, Noting, Extracting, Works
<1>9. Tried(j)'
  BY <1>1, <1>3, <1>4, <1>5 DEF AInv, Tried
<1>10. Caught(j)'
  BY <1>1, <1>3, <1>4, <1>5 DEF AInv, Caught, Noting
<1>11. Alone(j)'
  BY <1>1, <1>3, <1>4, <1>5 DEF Alone, Noting
<1>12. LogKind' /\ (log' = -1 => log = -1)
  BY <1>3, <1>4 DEF LogKind
<1>13. pc[j] # "wait" /\ pc[j] # "done"
  BY <1>1 DEF Noting
<1> QED
  BY <1>1, <1>2, <1>5, <1>8, <1>9, <1>10, <1>11, <1>12, <1>13, OthersKept

(* error(): a message of a job alone ends the process; a job whose message *)
(* is gone goes on with the null pointer of its file.                      *)
LEMMA ErrorStep ==
  ASSUME AInv, status = 0, NEW j \in Job, SeeErrors(j) \/ ForgetErrors(j)
  PROVE  AInv'
<1>1. UNCHANGED <<packing, inputs, lenient, failed>> /\ pc[j] \in {"error", "reset"}
  BY DEF SeeErrors, ForgetErrors
<1>2. /\ Functions'
      /\ \A h \in Job \ {j} : pc'[h] = pc[h] /\ pos'[h] = pos[h] /\ back'[h] = back[h]
  BY DEF SeeErrors, ForgetErrors, Goto, Continue, AInv, Functions, inputs
<1>3. arch' = arch /\ list' = list /\ packer' = packer /\ lenient' = lenient /\ failed' = failed
  BY <1>1 DEF packing, inputs
<1>4. log \in Int /\ log >= -1 /\ Works(j)
  BY <1>1 DEF AInv, LogKind, Sane
<1>5. \/ /\ pc[j] = "error" /\ log' = log
         /\ \/ log = -1 /\ pc'[j] = "done"
            \/ log > 0 /\ ~lenient /\ status' # 0 /\ pc' = pc /\ pos' = pos /\ back' = back
            \/ /\ pc'[j] = "reset" /\ pos' = pos /\ back' = back /\ log # -1
               /\ lenient \/ ~(log > 0)
      \/ /\ pc[j] = "reset" /\ log' = 0
         /\ \/ back[j] = "done" /\ pc'[j] = "done"
            \/ pc'[j] = "next" /\ (Entry(j).kind = "file" => status' # 0)
  BY DEF SeeErrors, ForgetErrors, Goto, Continue, AInv, Functions, Exits
<1>6. LogKind' /\ (log' = -1 => log = -1)
  BY <1>4, <1>5 DEF LogKind
<1>7. pos'[j] \in Nat /\ pos'[j] > 0
  <2>1. pos[j] \in Nat /\ pos[j] > 0 /\ DOMAIN pos = Job
    BY DEF AInv, Sane, Functions
  <2>2. pos' = pos \/ pos' = [pos EXCEPT ![j] = pos[j] + 1]
    BY DEF SeeErrors, ForgetErrors, Continue
  <2> QED
    BY <2>1, <2>2
<1>8. Sane(j)'
  BY <1>3, <1>4, <1>5, <1>7 DEF AInv, Sane, Noting, Extracting, Works
<1>9. Tried(j)'
  BY <1>3, <1>5 DEF AInv, Tried
<1>10. Caught(j)'
  BY <1>3, <1>5 DEF AInv, Caught, Noting, Entry
<1>11. Alone(j)'
  BY <1>1, <1>3, <1>4, <1>5 DEF AInv, Alone, Noting, Works
<1>12. pc[j] # "wait" /\ pc[j] # "done"
  BY <1>1
<1> QED
  BY <1>2, <1>3, <1>6, <1>8, <1>9, <1>10, <1>11, <1>12, OthersKept

----------------------------------------------------------------------------
(* While it is packed nothing is extracted by the job that waits for it.   *)
LEMMA PackStep ==
  ASSUME AInv, status = 0, Pack \/ (\E x \in Path : Vanish(x)) PROVE AInv'
<1>1. CASE packer # "closed"
  <2>1. /\ UNCHANGED <<list, lenient, failed, pos, back>>
        /\ log' = log \/ (log' = 0 /\ lenient) \/ log' = Told
        /\ \/ UNCHANGED <<arch, pc>>
           \/ /\ packer' = "closed" /\ pc' = [pc EXCEPT ![First] = IF sink THEN "next" ELSE "check"]
              /\ \E x : arch' = [arch EXCEPT ![First] = x]
    BY DEF Pack, PackOpen, PackExists, PackMissing, PackStat, PackLink, PackHeader, PackData,
           PackClose, Vanish, jobs, inputs, vars, packing
  <2>2. list # <<>> /\ pc[First] = "wait" /\ First \in Job
    BY <1>1, ArchiveAssumption DEF AInv, Waiting
  <2>3. Works(First) /\ back[First] = "next" /\ \A f \in failed : f[1] # First
    BY <2>2 DEF AInv, Sane, Works, Tried
  <2>4. \A j \in Job \ {First} : pc'[j] = pc[j] /\ arch'[j] = arch[j]
    BY <2>1 DEF AInv, Functions
  <2>5. Functions' /\ LogKind' /\ Waiting' /\ (log' = -1 => log = -1)
    <3>1. log \in Int /\ log >= -1
      BY DEF AInv, LogKind
    <3>2. Told \in Int /\ Told > 0
      BY <3>1 DEF Told
    <3>3. LogKind' /\ (log' = -1 => log = -1)
      BY <2>1, <3>1, <3>2 DEF LogKind
    <3>4. DOMAIN pc' = Job /\ DOMAIN arch' = Job /\ Functions'
      BY <2>1, <2>2 DEF AInv, Functions
    <3>5. Waiting'
      <4>1. CASE UNCHANGED <<arch, pc>>
        BY <2>1, <2>2, <4>1 DEF Waiting
      <4>2. CASE packer' = "closed"
        BY <4>2 DEF Waiting
      <4> QED
        BY <2>1, <4>1, <4>2
    <3> QED
      BY <3>3, <3>4, <3>5
  <2>6. ASSUME NEW j \in Job, j # First PROVE Sane(j)' /\ Tried(j)' /\ Caught(j)' /\ Alone(j)'
    <3>1. Works(j)' <=> Works(j)
      BY <2>1, <2>4, <2>6 DEF Works
    <3>2. Sane(j)'
      BY <2>1, <2>4, <2>5, <2>6, <3>1 DEF AInv, Sane, Noting, Extracting, Entry
    <3>3. Tried(j)'
      BY <2>1, <2>4, <2>6 DEF AInv, Tried
    <3>4. Caught(j)'
      BY <2>1, <2>4, <2>5, <2>6 DEF AInv, Caught, Noting
    <3>5. Alone(j)'
      BY <2>1, <2>2, <2>6 DEF Alone, Works
    <3> QED
      BY <3>2, <3>3, <3>4, <3>5
  <2>7. Sane(First)' /\ Tried(First)' /\ Caught(First)' /\ Alone(First)'
    <3>1. pc'[First] \in {"wait", "next", "check"} /\ back'[First] = "next" /\ Works(First)'
      BY <2>1, <2>2, <2>3 DEF AInv, Functions, Works
    <3>2. Sane(First)'
      BY <2>1, <2>2, <3>1 DEF AInv, Sane, Noting, Extracting
    <3> QED
      BY <2>1, <2>3, <3>2 DEF Tried, Caught, Alone
  <2> QED
    BY <2>1, <2>5, <2>6, <2>7 DEF AInv
<1>2. packer # "closed"
  BY DEF Pack, PackOpen, PackExists, PackMissing, PackStat, PackLink, PackHeader, PackData,
         PackClose, Vanish
<1> QED
  BY <1>1, <1>2

LEMMA StutterAInv == AInv /\ UNCHANGED vars => AInv'
BY DEF AInv, Functions, LogKind, Waiting, Noting, Extracting, Sane, Tried, Caught, Alone, Works,
       Entry, vars, packing, inputs, jobs

LEMMA NextAInv == AInv /\ [Next]_vars => AInv'
<1> SUFFICES ASSUME AInv, [Next]_vars PROVE AInv'
  OBVIOUS
<1>1. CASE status = 0 /\ (Pack \/ \E x \in Path : Vanish(x))
  BY <1>1, PackStep
<1>2. ASSUME status = 0, NEW j \in Job, Extract(j) PROVE AInv'
  BY <1>2, TreeStep, FailingStep, NotingStep, ErrorStep DEF Extract
<1> QED
  BY <1>1, <1>2, StutterAInv DEF Next

(* Where the jobs are and what the log holds explains every failure, in    *)
(* every reachable state of every instance.                                *)
THEOREM Invariance == Spec => []AInv
<1> QED
  BY InitAInv, NextAInv, PTL DEF Spec

(* archive_extract_fn never goes on over a file it could not open, and     *)
(* over nothing it could not make while one job works alone: for all       *)
(* archives, trees and numbers of jobs that share the log of error.c.      *)
THEOREM FailureIsNoticed == Spec => []FailureEndsProcess
<1>1. AInv => FailureEndsProcess
  <2> SUFFICES ASSUME AInv, Finished, ~lenient, NEW f \in failed
               PROVE  /\ arch[f[1]][f[2]].kind # "file"
                      /\ \E j \in Job \ {f[1]} : Works(j)
    BY DEF FailureEndsProcess
  <2>1. f[1] \in Job /\ status = 0 /\ pc[f[1]] = "done"
    BY DEF AInv, Finished
  <2>2. Caught(f[1]) /\ Alone(f[1])
    BY <2>1 DEF AInv
  <2>3. arch[f[1]][f[2]].kind # "file"
    BY <2>1, <2>2 DEF Caught, Noting
  <2>4. \E j \in Job \ {f[1]} : Works(j)
    BY <2>1, <2>2 DEF Alone, Noting
  <2> QED
    BY <2>3, <2>4
<1> QED
  BY <1>1, Invariance, PTL

----------------------------------------------------------------------------
(* What a scenario has to pack.                                            *)
SourceKinds == {"none", "dir", "file", "link", "fifo", "unreadable"}
Data == (UNION { { s.src[x].data : x \in Path } : s \in Scenarios }) \cup {""}
Packable == [path : Path, kind : Kinds, data : Data]

(* What lstat sees of a path that is there, and what open and read give.   *)
Mode(x) == IF src[x].kind = "unreadable" THEN "file" ELSE src[x].kind
Content(x) == IF src[x].kind = "unreadable" THEN "" ELSE src[x].data

(* The i-th entry is what its path was.                                    *)
AsItWas(i) ==
  LET x == list[i] IN
  out[i].path = x /\ (x \in vanished \/ (out[i].kind = Mode(x) /\ out[i].data = Content(x)))

(* The header is written and the data is not.                              *)
Begun(i) ==
  LET x == list[i] IN
  /\ out[i].path = x
  /\ \/ x \in vanished \/ src[x].kind = "fifo"
     \/ /\ src[x].kind \in {"dir", "file", "link", "unreadable"} /\ out[i].kind = Mode(x)
        /\ src[x].kind = "link" => out[i].data = src[x].data
        /\ src[x].kind \in {"dir", "unreadable"} => out[i].data = ""

(* What lstat and readlink found still holds.                              *)
Seen(x) ==
  /\ packer = "stat" => x \in vanished \/ src[x].kind # "none"
  /\ packer \in {"readlink", "write"} => st \in Modes /\ (x \in vanished \/ st = Mode(x))
  /\ packer = "readlink" => st = "link"
  /\ packer = "write" /\ st = "link" => x \in vanished \/ link = src[x].data
  /\ packer = "broken" => x \in vanished

PackTypes ==
  /\ IsTree(src, SourceKinds) /\ \A x \in Path : src[x].data \in Data
  /\ list \in Seq(Path) /\ out \in Seq(Packable)
  /\ \A i \in 1 .. Len(out) : out[i].kind = "dir" => out[i].data = ""
  /\ \A x \in vanished : src[x].kind = "none"
  /\ k \in 1 .. Len(list) + 1
  /\ st \in Modes \cup {""} /\ link \in Data
  /\ packer \in {"open", "header", "stat", "readlink", "write", "data", "blocked", "broken",
                 "closed"}

PInv ==
  /\ PackTypes
  /\ packer \in {"open", "header", "stat", "readlink", "write", "broken"} =>
       Len(out) = k - 1 /\ \A i \in 1 .. k - 1 : AsItWas(i)
  /\ packer \in {"stat", "readlink", "write", "broken"} => k <= Len(list) /\ Seen(list[k])
  /\ packer \in {"data", "blocked"} =>
       /\ Len(out) = k /\ k <= Len(list) /\ Begun(k)
       /\ \A i \in 1 .. k - 1 : AsItWas(i)
  /\ packer = "closed" =>
       /\ Len(out) <= Len(list) /\ \A i \in 1 .. Len(out) : AsItWas(i)
       /\ Len(out) # Len(list) => list[Len(out) + 1] \in vanished

LEMMA PackBounds ==
  ASSUME PInv
  PROVE  /\ list \in Seq(Path) /\ Len(list) \in Nat
         /\ k \in Nat /\ 1 <= k /\ k <= Len(list) + 1
         /\ out \in Seq(Packable) /\ Len(out) \in Nat
         /\ \A i \in 1 .. Len(out) : out[i] \in Packable
         /\ \A i \in 1 .. Len(list) : list[i] \in Path
<1>1. list \in Seq(Path) /\ out \in Seq(Packable) /\ k \in 1 .. Len(list) + 1
  BY DEF PInv, PackTypes
<1>2. Len(list) \in Nat /\ Len(out) \in Nat
  BY <1>1
<1> QED
  BY <1>1, <1>2

LEMMA InitPInv == Init => PInv
<1> SUFFICES ASSUME Init PROVE PInv
  OBVIOUS
<1>1. PICK s \in Scenarios :
        src = s.src /\ list = s.list /\ packer = IF s.list = <<>> THEN "closed" ELSE "open"
  BY DEF Init
<1>2. k = 1 /\ out = <<>> /\ vanished = {}
  BY DEF Init
<1>3. st = "" /\ link = "" /\ "" \in Data
  BY DEF Init, Data
<1>4. IsTree(src, SourceKinds) /\ list \in Seq(Path)
  BY <1>1, ArchiveAssumption DEF SourceKinds
<1>5. \A x \in Path : src[x].data \in Data
  <2>1. { s.src[y].data : y \in Path } \in { { t.src[y].data : y \in Path } : t \in Scenarios }
    OBVIOUS
  <2>2. { s.src[y].data : y \in Path } \subseteq Data
    BY <2>1 DEF Data
  <2>3. \A x \in Path : src[x].data \in { s.src[y].data : y \in Path }
    BY <1>1
  <2> QED
    BY <2>2, <2>3
<1>6. Len(list) \in Nat /\ k \in 1 .. Len(list) + 1 /\ Len(out) = 0 /\ out \in Seq(Packable)
  BY <1>2, <1>4
<1>7. packer = "closed" => Len(list) = 0
  BY <1>1, <1>4
<1>8. packer \in {"open", "closed"}
  BY <1>1
<1> QED
  <2>1. PackTypes
    <3>1. \A i \in 1 .. Len(out) : out[i].kind = "dir" => out[i].data = ""
      <4>1. 1 .. Len(out) = {}
        BY <1>6
      <4> QED
        BY <4>1
    <3>2. \A x \in vanished : src[x].kind = "none"
      BY <1>2
    <3>3. st \in Modes \cup {""} /\ link \in Data
      BY <1>3
    <3>4. packer \in {"open", "header", "stat", "readlink", "write", "data", "blocked", "broken",
                     "closed"}
      BY <1>8
    <3> QED
      BY <1>4, <1>5, <1>6, <3>1, <3>2, <3>3, <3>4 DEF PackTypes
  <2>2. Len(out) = 0 /\ Len(list) \in Nat /\ \A i \in 1 .. 0 : AsItWas(i)
    BY <1>6
  <2> QED
    BY <1>2, <1>6, <1>7, <1>8, <2>1, <2>2 DEF PInv

(* What was packed stays as it was.                                        *)
LEMMA AsItWasKept ==
  ASSUME PInv, src' = src, list' = list, vanished' = vanished,
         NEW i \in 1 .. Len(list), out'[i] = out[i], AsItWas(i)
  PROVE  AsItWas(i)'
<1>1. \A x : Mode(x)' = Mode(x) /\ Content(x)' = Content(x)
  BY DEF Mode, Content
<1>2. list'[i] = list[i]
  OBVIOUS
<1> QED
  BY <1>1, <1>2 DEF AsItWas

(* The steps between two entries write nothing.                            *)
LEMMA LookPInv == ASSUME PInv, PackExists \/ PackStat \/ PackLink PROVE PInv'
<1>1. /\ packer \in {"header", "stat", "readlink"}
      /\ UNCHANGED <<src, list, k, out, vanished>> /\ k <= Len(list)
  BY DEF PackExists, PackStat, PackLink, PInv
<1>2. k \in 1 .. Len(list) /\ list[k] \in Path
  BY <1>1, PackBounds
<1>3. Len(out') = k' - 1 /\ \A i \in 1 .. k' - 1 : AsItWas(i)'
  BY <1>1, <1>2, PackBounds, AsItWasKept DEF PInv
<1>4. src[list[k]].kind \in SourceKinds /\ src[list[k]].data \in Data /\ st \in Modes \cup {""}
  BY <1>2 DEF PInv, PackTypes, IsTree
<1>5. CASE PackExists
  <2>1. packer' = "stat" /\ st' = st /\ link' = link /\ src[list[k]].kind # "none"
    BY <1>5 DEF PackExists, Gone
  <2>2. Seen(list[k])'
    BY <1>1, <2>1 DEF Seen
  <2>3. PackTypes'
    BY <1>1, <2>1 DEF PInv, PackTypes
  <2> QED
    BY <1>1, <1>3, <2>1, <2>2, <2>3 DEF PInv
<1>6. CASE PackStat
  <2>1. PICK mode \in Stat(list[k]) :
          st' = mode /\ packer' = IF mode = "link" THEN "readlink" ELSE "write"
    BY <1>6 DEF PackStat
  <2>2. packer = "stat" /\ link' = link /\ Seen(list[k])
    BY <1>6 DEF PackStat, PInv
  <2>3. mode \in Modes /\ (list[k] \in vanished \/ mode = Mode(list[k]))
    BY <1>4, <2>2 DEF Stat, Seen, Mode, Modes, SourceKinds
  <2>4. Seen(list[k])'
    BY <1>1, <2>1, <2>3 DEF Seen, Mode
  <2>5. PackTypes'
    BY <1>1, <2>1, <2>2, <2>3 DEF PInv, PackTypes
  <2> QED
    BY <1>1, <1>3, <2>1, <2>4, <2>5 DEF PInv
<1>7. CASE PackLink
  <2>1. /\ packer = "readlink" /\ st' = st /\ Seen(list[k])
        /\ \/ src[list[k]].kind = "link" /\ link' = src[list[k]].data /\ packer' = "write"
           \/ src[list[k]].kind # "link" /\ link' = link /\ packer' = "broken"
    BY <1>7 DEF PackLink, PInv
  <2>2. src[list[k]].kind # "link" => list[k] \in vanished
    BY <2>1 DEF Seen, Mode
  <2>3. Seen(list[k])'
    BY <1>1, <2>1, <2>2 DEF Seen, Mode
  <2>4. PackTypes'
    BY <1>1, <1>4, <2>1 DEF PInv, PackTypes
  <2> QED
    BY <1>1, <1>3, <2>1, <2>3, <2>4 DEF PInv
<1> QED
  BY <1>5, <1>6, <1>7

LEMMA PackHeaderPInv == ASSUME PInv, PackHeader PROVE PInv'
<1>1. /\ packer = "write" /\ k <= Len(list) /\ k \in 1 .. Len(list) + 1 /\ list \in Seq(Path)
      /\ UNCHANGED <<src, list, k, vanished, st, link>>
      /\ Seen(list[k]) /\ st \in Modes
      /\ list[k] \in vanished \/ st = Mode(list[k])
  BY DEF PackHeader, PInv, PackTypes, Seen
<1>2. Len(list) \in Nat /\ k \in Nat /\ k \in 1 .. Len(list) /\ list[k] \in Path
  BY <1>1, PackBounds
<1>3. CASE out' = out /\ packer' = packer
  BY <1>1, <1>3 DEF PInv, PackTypes, AsItWas, Mode, Content, Seen
<1>4. ASSUME packer' = "data",
             NEW e, e = EntryOf(list[k], EntryKind(st), IF st = "link" THEN link ELSE ""),
             out' = Append(out, e)
      PROVE  PInv'
  <2>1. src[list[k]].kind \in SourceKinds /\ link \in Data /\ "" \in Data
    <3>1. IsTree(src, SourceKinds) /\ link \in Data
      BY DEF PInv, PackTypes
    <3>2. "" \in Data
      BY DEF Data
    <3> QED
      BY <1>2, <3>1, <3>2 DEF IsTree
  <2>2. EntryKind(st) \in Kinds
    BY <1>1 DEF EntryKind, Modes, Kinds
  <2>3. e \in Packable
    BY <1>2, <1>4, <2>1, <2>2 DEF EntryOf, Packable
  <2>4. out \in Seq(Packable) /\ Len(out) = k - 1
    BY <1>1 DEF PInv, PackTypes
  <2>5. /\ out' \in Seq(Packable) /\ Len(out') = k /\ out'[k] = e
        /\ \A i \in 1 .. k - 1 : out'[i] = out[i]
    <3>1. Len(out) = k - 1 /\ out \in Seq(Packable) /\ e \in Packable /\ k \in Nat
      BY <1>2, <2>3, <2>4
    <3>2. Append(out, e) \in Seq(Packable) /\ Len(Append(out, e)) = Len(out) + 1
          /\ Append(out, e)[Len(out) + 1] = e
          /\ \A i \in 1 .. Len(out) : Append(out, e)[i] = out[i]
      BY <3>1
    <3>3. Len(out) + 1 = k
      BY <3>1
    <3> QED
      BY <1>4, <2>4, <3>2, <3>3
  <2>6. Begun(k)'
    <3>1. /\ e.path = list[k] /\ e.kind = EntryKind(st)
          /\ e.data = IF st = "link" THEN link ELSE ""
      BY <1>4 DEF EntryOf
    <3>2. list[k] \in vanished => src[list[k]].kind = "none"
      BY DEF PInv, PackTypes
    <3>3. st = "link" => list[k] \in vanished \/ link = src[list[k]].data
      BY <1>1 DEF Seen
    <3>4. list[k] \in vanished \/ src[list[k]].kind # "none"
      BY <1>1 DEF Mode, Modes
    <3>5. list[k]' = list[k] /\ src[list[k]]' = src[list[k]] /\ out[k]' = e
      BY <1>1, <2>5
    <3>6. src[list[k]].kind \in {"dir", "file", "link", "unreadable"} /\ list[k] \notin vanished
          => e.kind = Mode(list[k])
      BY <1>1, <3>1 DEF Mode, EntryKind
    <3> QED
      BY <1>1, <2>1, <3>1, <3>2, <3>3, <3>4, <3>5, <3>6 DEF Begun, Mode, SourceKinds
  <2>7. \A i \in 1 .. k - 1 : AsItWas(i)'
    BY <1>1, <1>2, <2>5, AsItWasKept DEF PInv
  <2>8. e.kind = "dir" => e.data = ""
    BY <1>1, <1>4 DEF EntryOf, EntryKind
  <2>9. PackTypes'
    <3>1. \A i \in 1 .. Len(out') : i = k \/ i \in 1 .. k - 1
      BY <1>2, <2>5
    <3>2. \A i \in 1 .. Len(out') : out'[i].kind = "dir" => out'[i].data = ""
      BY <2>4, <2>5, <2>8, <3>1 DEF PInv, PackTypes
    <3> QED
      BY <1>1, <1>4, <2>5, <3>2 DEF PInv, PackTypes
  <2> QED
    BY <1>1, <1>4, <2>5, <2>6, <2>7, <2>9 DEF PInv
<1> QED
  BY <1>3, <1>4 DEF PackHeader

LEMMA PackDataPInv == ASSUME PInv, PackData PROVE PInv'
<1> DEFINE x == list[k]
<1>1. /\ packer = "data" /\ UNCHANGED <<src, list, vanished, st, link>>
      /\ \/ src[x].kind = "fifo" /\ packer' = "blocked" /\ out' = out /\ k' = k
         \/ /\ src[x].kind # "fifo" /\ k' = k + 1 /\ packer' = "header"
            /\ out' = IF src[x].kind = "file" THEN [out EXCEPT ![Len(out)].data = src[x].data]
                      ELSE out
  BY DEF PackData
<1>2. /\ Len(out) = k /\ k <= Len(list) /\ k \in 1 .. Len(list) + 1 /\ Begun(k) /\ list \in Seq(Path)
      /\ out \in Seq(Packable)
      /\ \A i \in 1 .. k - 1 : AsItWas(i)
  BY <1>1 DEF PInv, PackTypes
<1>3. Len(list) \in Nat /\ k \in Nat /\ k \in 1 .. Len(list) /\ x \in Path
  BY <1>2, PackBounds
<1>4. CASE packer' = "blocked"
  <2>1. out' = out /\ k' = k
    BY <1>1, <1>4
  <2> QED
    BY <1>1, <1>2, <1>4, <2>1 DEF PInv, PackTypes, AsItWas, Begun, Mode, Content
<1>5. ASSUME packer' = "header", k' = k + 1, src[x].kind # "fifo",
             out' \in Seq(Packable), Len(out') = k,
             \A i \in 1 .. k - 1 : out'[i] = out[i],
             out'[k].path = out[k].path, out'[k].kind = out[k].kind,
             out'[k].data = IF src[x].kind = "file" THEN src[x].data ELSE out[k].data
      PROVE  PInv'
  <2>1. \A i \in 1 .. k - 1 : AsItWas(i)'
    BY <1>1, <1>2, <1>3, <1>5, AsItWasKept
  <2>2. \A i \in 1 .. k : i = k => AsItWas(i)'
    <3>1. list'[k] = x /\ src'[x] = src[x] /\ out'[k].path = x
      BY <1>1, <1>2, <1>5 DEF Begun
    <3>2. x \in vanished \/ (out'[k].kind = Mode(x) /\ out'[k].data = Content(x))
      <4>1. src[x].kind = "dir" => src[x].data = ""
        BY <1>3 DEF PInv, PackTypes, IsTree, IsNode
      <4> QED
        BY <1>2, <1>5, <4>1 DEF Begun, Mode, Content
    <3>3. \A i : i = k => list'[i] = list[k] /\ out'[i] = out'[k]
      BY <1>1
    <3> QED
      BY <1>1, <3>1, <3>2, <3>3 DEF AsItWas, Mode, Content
  <2>3. out'[k].kind = "dir" => out'[k].data = ""
    <3>1. x \in vanished => src[x].kind = "none"
      BY DEF PInv, PackTypes
    <3>2. src[x].kind = "file" => out[k].kind = "file"
      BY <1>2, <3>1 DEF Begun, Mode
    <3>3. out[k].kind = "dir" => out[k].data = ""
      <4>1. k \in 1 .. Len(out)
        BY <1>2, <1>3
      <4> QED
        BY <4>1 DEF PInv, PackTypes
    <3> QED
      BY <1>5, <3>2, <3>3
  <2>4. \A i \in 1 .. k : i = k \/ i \in 1 .. k - 1
    BY <1>3
  <2>5. \A i \in 1 .. Len(out') : out'[i].kind = "dir" => out'[i].data = ""
    BY <1>2, <1>5, <2>3, <2>4 DEF PInv, PackTypes
  <2>6. k + 1 \in 1 .. Len(list) + 1 /\ k = (k + 1) - 1
    BY <1>3
  <2>7. PackTypes'
    BY <1>1, <1>5, <2>5, <2>6 DEF PInv, PackTypes
  <2>8. Len(out') = k' - 1 /\ \A i \in 1 .. k' - 1 : AsItWas(i)'
    <3>1. k' - 1 = k
      BY <1>3, <1>5
    <3> QED
      BY <1>5, <2>1, <2>2, <2>4, <3>1
  <2> QED
    BY <1>5, <2>7, <2>8 DEF PInv
<1>6. CASE src[x].kind = "file"
  <2>1. out' = [out EXCEPT ![k].data = src[x].data] /\ packer' = "header" /\ k' = k + 1
    BY <1>1, <1>2, <1>6
  <2>2. out[k] \in Packable /\ src[x].data \in Data /\ k \in DOMAIN out /\ DOMAIN out = 1 .. k
    <3>1. k \in 1 .. Len(out) /\ DOMAIN out = 1 .. k
      BY <1>2, <1>3
    <3>2. src[x].data \in Data
      BY <1>3 DEF PInv, PackTypes
    <3> QED
      BY <3>1, <3>2, PackBounds
  <2>3. /\ [out[k] EXCEPT !.data = src[x].data] \in Packable
        /\ [out[k] EXCEPT !.data = src[x].data].data = src[x].data
        /\ [out[k] EXCEPT !.data = src[x].data].path = out[k].path
        /\ [out[k] EXCEPT !.data = src[x].data].kind = out[k].kind
    BY <2>2 DEF Packable
  <2>4. out' = [out EXCEPT ![k] = [out[k] EXCEPT !.data = src[x].data]]
    BY <2>1
  <2>5. /\ out' \in Seq(Packable) /\ Len(out') = k
        /\ out'[k] = [out[k] EXCEPT !.data = src[x].data]
        /\ \A i \in 1 .. k - 1 : out'[i] = out[i]
    BY <1>2, <1>3, <2>2, <2>3, <2>4
  <2> QED
    BY <1>5, <1>6, <2>1, <2>3, <2>5
<1>7. CASE src[x].kind \notin {"file", "fifo"}
  BY <1>1, <1>2, <1>5, <1>7
<1> QED
  BY <1>1, <1>4, <1>6, <1>7

(* Of a file that is gone anything may be packed.                          *)
LEMMA VanishPInv == ASSUME PInv, NEW x \in Path, Vanish(x) PROVE PInv'
<1>1. /\ packer' = packer /\ packer \notin {"open", "blocked", "closed"}
      /\ UNCHANGED <<list, k, out, st, link>>
      /\ vanished = {} /\ vanished' = {x} /\ src' = [src EXCEPT ![x] = NoNode]
  BY DEF Vanish
<1>2. IsTree(src, SourceKinds) /\ \A y \in Path : src[y].data \in Data
  BY DEF PInv, PackTypes
<1>3. \A y \in Path : src'[y] = IF y = x THEN NoNode ELSE src[y]
  BY <1>1, <1>2 DEF IsTree
<1>4. src' = [y \in Path |-> src'[y]]
  BY <1>1, <1>2 DEF IsTree
<1>5. NoNode.kind = "none" /\ NoNode.data = "" /\ IsNode(NoNode)
  BY DEF NoNode, IsNode
<1>6. IsTree(src', SourceKinds)
  BY <1>2, <1>3, <1>4, <1>5 DEF IsTree, SourceKinds
<1>7. \A y \in Path : src'[y].data \in Data
  <2>1. "" \in Data
    BY DEF Data
  <2> QED
    BY <1>2, <1>3, <1>5, <2>1
<1>8. list \in Seq(Path) /\ Len(list) \in Nat /\ k \in Nat /\ k <= Len(list) + 1
  BY PackBounds
<1>9. \A i \in 1 .. Len(list) : list[i] \in Path /\ (list[i] # x => src'[list[i]] = src[list[i]])
  BY <1>3, <1>8
<1>10. \A i \in 1 .. Len(list) : AsItWas(i) => AsItWas(i)'
  BY <1>1, <1>9 DEF AsItWas, Mode, Content
<1>11. \A i \in 1 .. Len(list) : Begun(i) => Begun(i)'
  BY <1>1, <1>9 DEF Begun, Mode
<1>12. \A i \in 1 .. k - 1 : i \in 1 .. Len(list)
  BY <1>8
<1>13. PackTypes'
  BY <1>1, <1>3, <1>5, <1>6, <1>7 DEF PInv, PackTypes
<1>14. k <= Len(list) => k \in 1 .. Len(list)
  BY <1>8, PackBounds
<1>15. \A i \in 1 .. Len(list) : Seen(list[i]) => Seen(list[i])'
  BY <1>1, <1>9 DEF Seen, Mode
<1> QED
  BY <1>1, <1>10, <1>11, <1>12, <1>13, <1>14, <1>15 DEF PInv

LEMMA NextPInv == PInv /\ [Next]_vars => PInv'
<1> SUFFICES ASSUME PInv, [Next]_vars PROVE PInv'
  OBVIOUS
<1>1. ASSUME UNCHANGED <<src, list, k, out, vanished, st, link>>, packer' = packer PROVE PInv'
  BY <1>1 DEF PInv, PackTypes, AsItWas, Begun, Seen, Mode, Content
<1>2. ASSUME NEW j \in Job, Extract(j) PROVE PInv'
  <2>1. UNCHANGED packing
    BY <1>2 DEF Extract, NextHeader, MakeDir, MakeParent, TestOld, Unlink, PutLink, Symlink, PutFile,
                SkipOther, WriteData, CheckLog, CreateLog, AddMessage, SeeErrors, ForgetErrors
  <2> QED
    BY <1>1, <2>1 DEF packing
<1>3. CASE PackOpen
  <2>1. /\ UNCHANGED <<src, list, k, out, vanished, st, link>>
        /\ packer = "open" /\ packer' = "header"
    BY <1>3 DEF PackOpen
  <2> QED
    BY <2>1 DEF PInv, PackTypes, AsItWas, Mode, Content
<1>4. CASE PackClose
  <2>1. /\ UNCHANGED <<src, list, k, out, vanished, st, link>> /\ packer' = "closed"
        /\ packer = "broken" \/ (packer = "header" /\ k > Len(list))
    BY <1>4 DEF PackClose
  <2>2. Len(list) \in Nat /\ Len(out) \in Nat /\ k \in Nat /\ Len(out) = k - 1 /\ k <= Len(list) + 1
    BY <2>1, PackBounds DEF PInv
  <2>3. Len(out) # Len(list) => list[k] \in vanished
    BY <2>1, <2>2 DEF PInv, Seen
  <2>4. Len(out) + 1 = k /\ Len(out) <= Len(list) /\ \A i \in 1 .. Len(out) : AsItWas(i)
    BY <2>1, <2>2 DEF PInv
  <2>5. PackTypes'
    BY <2>1 DEF PInv, PackTypes
  <2> QED
    BY <2>1, <2>3, <2>4, <2>5 DEF PInv, AsItWas, Mode, Content
<1>5. CASE PackMissing \/ UNCHANGED vars
  BY <1>1, <1>5 DEF PackMissing, vars, packing
<1> QED
  BY <1>2, <1>3, <1>4, <1>5, LookPInv, PackHeaderPInv, PackDataPInv, VanishPInv DEF Next, Pack

(* An archive that was closed short leaves a message in the log, which     *)
(* only another job can take away from the job that made it.               *)
Short ==
  /\ packer \in {"broken", "closed"} /\ Len(out) # Len(list)
  /\ status = 0 /\ ~lenient /\ \A h \in Job \ {First} : ~Works(h)
LInv == Short => log > 0 /\ pc[First] \notin {"done", "reset", "create"}

LEMMA InitLInv == Init => LInv
<1> SUFFICES ASSUME Init, Short PROVE FALSE
  BY DEF LInv
<1>1. PICK s \in Scenarios : list = s.list /\ packer = IF s.list = <<>> THEN "closed" ELSE "open"
  BY DEF Init
<1>2. out = <<>> /\ list = <<>>
  BY <1>1 DEF Init, Short
<1> QED
  BY <1>2 DEF Short

LEMMA NextLInv == AInv /\ PInv /\ LInv /\ [Next]_vars => LInv'
<1> SUFFICES ASSUME AInv, PInv, LInv, [Next]_vars, Short'
             PROVE  log' > 0 /\ pc'[First] \notin {"done", "reset", "create"}
  BY DEF LInv
<1>1. First \in Job /\ log \in Int /\ log >= -1 /\ DOMAIN pc = Job
  BY ArchiveAssumption DEF AInv, LogKind, Functions
<1>2. ASSUME packer = "readlink", PackLink
      PROVE  log' > 0 /\ pc'[First] \notin {"done", "reset", "create"}
  <2>1. log' = Told /\ pc' = pc /\ pc[First] = "wait"
    BY <1>2 DEF PackLink, Short, AInv, Waiting, jobs
  <2> QED
    BY <1>1, <2>1 DEF Told
<1>3. ASSUME Short, UNCHANGED <<log, pc>>
      PROVE  log' > 0 /\ pc'[First] \notin {"done", "reset", "create"}
  BY <1>3 DEF LInv
<1>4. ASSUME PackClose
      PROVE  log' > 0 /\ pc'[First] \notin {"done", "reset", "create"}
  <2>1. /\ UNCHANGED <<list, out, status, lenient, log>>
        /\ packer = "broken" \/ (packer = "header" /\ k > Len(list))
        /\ pc' = [pc EXCEPT ![First] = IF sink THEN "next" ELSE "check"]
        /\ \A h \in Job \ {First} : arch'[h] = arch[h]
    BY <1>1, <1>4 DEF PackClose, AInv, Functions
  <2>2. Len(out) # Len(list)
    BY <2>1 DEF Short
  <2>3. packer # "header"
    BY <2>1, <2>2, PackBounds DEF PInv
  <2>4. Short
    BY <2>1, <2>3 DEF Short, Works
  <2> QED
    BY <1>1, <2>1, <2>4 DEF LInv
<1>5. ASSUME PackOpen \/ PackExists \/ PackMissing \/ PackStat \/ PackHeader \/ PackData
             \/ (\E x \in Path : Vanish(x)) \/ UNCHANGED vars
      PROVE  log' > 0 /\ pc'[First] \notin {"done", "reset", "create"}
  <2>1. /\ UNCHANGED <<list, pc, log, lenient, status, out>> /\ packer' = packer
        /\ UNCHANGED arch
    BY <1>5 DEF Short, PackOpen, PackExists, PackMissing, PackStat, PackHeader, PackData, Vanish,
                vars, packing, inputs, jobs
  <2> QED
    BY <1>3, <2>1 DEF Short, Works
<1>6. ASSUME status = 0, NEW j \in Job, Extract(j)
      PROVE  log' > 0 /\ pc'[First] \notin {"done", "reset", "create"}
  <2>1. UNCHANGED <<packing, inputs, lenient>> /\ pc[j] # "done"
    BY <1>6 DEF Extract, NextHeader, MakeDir, MakeParent, TestOld, Unlink, PutLink, Symlink, PutFile,
                SkipOther, WriteData, CheckLog, CreateLog, AddMessage, SeeErrors, ForgetErrors
  <2>2. Short
    BY <1>6, <2>1 DEF Short, Works, packing, inputs
  <2>3. j = First /\ log > 0 /\ pc[First] \notin {"done", "reset", "create"}
    BY <2>1, <2>2 DEF LInv, Short, AInv, Sane
  <2>4. back[First] \in {"next", "error"} \/ pc[First] # "add"
    BY <1>1 DEF AInv, Sane, Noting
  <2>5. CASE SeeErrors(j)
    BY <2>2, <2>3, <2>5 DEF SeeErrors, Exits, Short
  <2>6. CASE AddMessage(j)
    BY <1>1, <2>3, <2>4, <2>6 DEF AddMessage, Goto
  <2>7. CASE CheckLog(j)
    BY <1>1, <2>3, <2>7 DEF CheckLog, Goto
  <2>8. CASE NextHeader(j) \/ MakeDir(j) \/ MakeParent(j) \/ TestOld(j) \/ Unlink(j)
    BY <1>1, <2>3, <2>8 DEF NextHeader, MakeDir, MakeParent, TestOld, Unlink, Goto, Continue, Report
  <2>9. CASE PutLink(j) \/ Symlink(j) \/ PutFile(j) \/ SkipOther(j) \/ WriteData(j)
    BY <1>1, <2>3, <2>9 DEF PutLink, Symlink, PutFile, SkipOther, WriteData, Goto, Continue, Report
  <2> QED
    BY <1>6, <2>3, <2>5, <2>6, <2>7, <2>8, <2>9 DEF Extract, CreateLog, ForgetErrors
<1> QED
  BY <1>2, <1>4, <1>5, <1>6 DEF Next, Pack, PackLink

(* archive_write packs one entry for each path of the list, in its order,  *)
(* with the kind and data of those other programs did not delete           *)
(* meanwhile; it stops short only at one of those, with a message in the   *)
(* log unless errors are forgiven or another job works; an unreadable file *)
(* is packed empty: for all trees and lists.                               *)
THEOREM PackedIsWhatWas == Spec => []PackedIsWhole
<1>1. AInv /\ PInv /\ LInv => PackedIsWhole
  <2> SUFFICES ASSUME AInv, PInv, LInv, packer = "closed", status = 0
               PROVE  /\ Len(out) # Len(list) =>
                           /\ Len(out) < Len(list) /\ list[Len(out) + 1] \in vanished
                           /\ log > 0 \/ lenient \/ \E j \in Job \ {First} : Works(j)
                      /\ \A i \in 1 .. Len(out) :
                           /\ out[i].path = list[i]
                           /\ list[i] \in vanished \/ out[i] =
                                IF src[list[i]].kind = "unreadable"
                                THEN EntryOf(list[i], "file", "")
                                ELSE EntryOf(list[i], src[list[i]].kind, src[list[i]].data)
    BY DEF PackedIsWhole
  <2>1. Len(list) \in Nat /\ Len(out) \in Nat /\ Len(out) <= Len(list)
    BY PackBounds DEF PInv
  <2>2. Len(out) # Len(list) =>
          /\ Len(out) < Len(list) /\ list[Len(out) + 1] \in vanished
          /\ log > 0 \/ lenient \/ \E j \in Job \ {First} : Works(j)
    BY <2>1 DEF PInv, LInv, Short
  <2>3. ASSUME NEW i \in 1 .. Len(out)
        PROVE  /\ out[i].path = list[i]
               /\ list[i] \in vanished \/ out[i] =
                    IF src[list[i]].kind = "unreadable" THEN EntryOf(list[i], "file", "")
                    ELSE EntryOf(list[i], src[list[i]].kind, src[list[i]].data)
    <3>1. out[i] = EntryOf(out[i].path, out[i].kind, out[i].data)
      BY PackBounds DEF Packable, EntryOf
    <3>2. AsItWas(i)
      BY DEF PInv
    <3> QED
      BY <3>1, <3>2 DEF AsItWas, Mode, Content
  <2> QED
    BY <2>2, <2>3
<1> QED
  BY <1>1, InitAInv, NextAInv, InitPInv, NextPInv, InitLInv, NextLInv, PTL DEF Spec

----------------------------------------------------------------------------
(* Where a job is with the entry it is at.                                 *)
At(j, x) == pos[j] \in Ask(j) /\ Target(j) = x
Handled(j) == pc[j] \in {"put", "symlink", "data", "check", "create", "add", "error", "reset"}
Started(x) ==
  \E j \in Job : \E i \in Ask(j) :
    arch[j][i].path = x /\ (i < pos[j] \/ (i = pos[j] /\ Handled(j)))

(* An entry that some job has come to stands at its place, or some job is  *)
(* about to put it there.                                                  *)
Settled(e) ==
  LET n == tree[e.path] IN
  CASE e.kind = "dir" -> n.kind = "dir"
    [] e.kind = "link" ->
         \/ n.kind = "link" /\ n.data = e.data
         \/ n.kind = "none" /\ \E j \in Job : At(j, e.path) /\ pc[j] \in {"put", "symlink"}
    [] e.kind = "file" ->
         \/ n.kind = "file" /\ n.data = e.data
         \/ n.kind = "none" /\ \E j \in Job : At(j, e.path) /\ pc[j] = "put"
         \/ /\ n.kind = "file" /\ n.data = ""
            /\ \E j \in Job : At(j, e.path) /\ pc[j] = "data" /\ held[j] = n.ino

(* A path is a directory only where one was or is asked for, and something *)
(* else only likewise.                                                     *)
OnlyDirs(x) == x \notin before.other /\ \A f \in Entries : f.path = x => f.kind = "dir"
NeverDir(x) ==
  x \notin before.dir /\ \A f \in Entries : (f.path = x => f.kind # "dir") /\ Dir[f.path] # x

TreeKinds == {"none", "dir", "file", "link"}
TreeTypes ==
  /\ IsTree(tree, TreeKinds)
  /\ \A j \in Job : IsArchive(arch[j])
  /\ list # <<>> /\ packer # "closed" => arch[First] = <<>>
  /\ DOMAIN held = Job
Grounds ==
  \A x \in Path :
    /\ OnlyDirs(x) => tree[x].kind \in {"none", "dir"}
    /\ NeverDir(x) => tree[x].kind # "dir"
AtEntry(j) ==
  /\ pc[j] = "wait" => pos[j] = 1
  /\ Extracting(j) => pos[j] \in Ask(j) /\ (pc[j] = "mkdir" <=> Entry(j).kind = "dir")
  /\ pc[j] = "data" => Entry(j).kind = "file"
  /\ pc[j] \in {"clear", "unlink", "put", "symlink", "data"} /\ OnlyDirs(Dir[Target(j)]) =>
       Inside(tree, Target(j))
  /\ pc[j] = "error" => back[j] = "done" \/ log # -1
  /\ pc[j] = "done" \/ (pc[j] \in {"error", "reset"} /\ back[j] = "done") => pos[j] > Len(arch[j])
EachSettled == \A e \in Entries : ~Contested(e) /\ Started(e.path) => Settled(e)

XInv == TreeTypes /\ Grounds /\ (\A j \in Job : AtEntry(j)) /\ EachSettled

(* What no step of extracting changes.                                     *)
LEMMA AsksKept ==
  ASSUME UNCHANGED <<arch, want, before>>
  PROVE  /\ \A j \in Job : Ask(j)' = Ask(j)
         /\ Entries' = Entries
         /\ \A e : Contested(e)' <=> Contested(e)
         /\ \A x : (OnlyDirs(x)' <=> OnlyDirs(x)) /\ (NeverDir(x)' <=> NeverDir(x))
<1>1. \A j \in Job : Ask(j)' = Ask(j)
  BY DEF Ask
<1>2. Entries' = Entries
  BY <1>1 DEF Entries
<1> QED
  BY <1>1, <1>2 DEF Contested, OnlyDirs, NeverDir

LEMMA EntriesAre ==
  ASSUME TreeTypes
  PROVE  /\ \A e : e \in Entries <=> \E j \in Job : \E i \in Ask(j) : e = arch[j][i]
         /\ \A e \in Entries : e.path \in Path /\ e.kind \in Kinds /\ (e.kind = "dir" => e.data = "")
         /\ \A e \in Entries : Dir[e.path] \in Path \cup {Root}
<1>1. \A e : e \in Entries <=> \E j \in Job : \E i \in Ask(j) : e = arch[j][i]
  BY DEF Entries
<1>2. \A j \in Job : \A i \in Ask(j) : i \in 1 .. Len(arch[j])
  BY DEF Ask
<1>3. \A e \in Entries : e.path \in Path /\ e.kind \in Kinds /\ (e.kind = "dir" => e.data = "")
  <2>1. ASSUME NEW j \in Job, NEW i \in 1 .. Len(arch[j])
        PROVE  /\ arch[j][i].path \in Path /\ arch[j][i].kind \in Kinds
               /\ arch[j][i].kind = "dir" => arch[j][i].data = ""
    BY DEF TreeTypes, IsArchive
  <2>2. ASSUME NEW e \in Entries
        PROVE  e.path \in Path /\ e.kind \in Kinds /\ (e.kind = "dir" => e.data = "")
    <3>1. PICK j \in Job : \E i \in Ask(j) : e = arch[j][i]
      BY <1>1
    <3>2. PICK i \in Ask(j) : e = arch[j][i]
      BY <3>1
    <3> QED
      BY <1>2, <2>1, <3>2
  <2> QED
    BY <2>2
<1> QED
  BY <1>1, <1>3, TreeAssumption

(* The entry a job is at.                                                  *)
LEMMA EntryIs ==
  ASSUME TreeTypes, NEW j \in Job, pos[j] \in Ask(j)
  PROVE  /\ Entry(j) \in Entries /\ Target(j) = Entry(j).path /\ Target(j) \in Path
         /\ Entry(j).kind \in Kinds /\ Dir[Target(j)] \in Path \cup {Root}
         /\ At(j, Target(j))
<1>1. Entry(j) \in Entries
  BY EntriesAre DEF Entry
<1> QED
  BY <1>1, EntriesAre DEF Target, At

(* An entry that is not contested has its path for itself.                 *)
LEMMA Uncontested ==
  ASSUME TreeTypes, NEW e \in Entries, ~Contested(e)
  PROVE  /\ e.path \in Path /\ e.kind \in {"dir", "file", "link"} /\ (e.kind = "dir" => e.data = "")
         /\ \A f \in Entries : f.path = e.path => f = e
         /\ OnlyDirs(Dir[e.path])
         /\ e.kind = "dir" => OnlyDirs(e.path)
         /\ e.kind # "dir" => NeverDir(e.path)
<1>1. e.path \in Path /\ e.kind \in {"dir", "file", "link"} /\ (e.kind = "dir" => e.data = "")
  BY EntriesAre DEF Contested, Kinds
<1>2. \A f \in Entries : f.path = e.path => f = e
  BY DEF Contested
<1>3. OnlyDirs(Dir[e.path]) /\ (e.kind = "dir" => OnlyDirs(e.path))
  BY <1>2 DEF Contested, OnlyDirs
<1>4. e.kind # "dir" => NeverDir(e.path)
  BY <1>2 DEF Contested, NeverDir
<1> QED
  BY <1>1, <1>2, <1>3, <1>4

(* create_dir makes the path and the directory it lies in and nothing else.*)
LEMMA CreateDir ==
  ASSUME IsTree(tree, TreeKinds), NEW x \in Path, NEW t, t = create_dir(tree, x)
  PROVE  /\ IsTree(t, TreeKinds)
         /\ \A y \in Path : t[y] = tree[y] \/ (t[y] = DirNode /\ y \in {x, Dir[x]})
         /\ \A y \in Path : tree[y].kind = "dir" => t[y].kind = "dir"
         /\ /\ Dir[x] = Root \/ tree[Dir[x]].kind \in {"none", "dir"}
            /\ tree[x].kind \in {"none", "dir"}
            => t[x].kind = "dir"
<1> DEFINE OneMore(u, v, y) ==
      /\ IsTree(v, TreeKinds)
      /\ \A z \in Path : v[z] = u[z] \/ (v[z] = DirNode /\ z = y /\ u[z].kind = "none")
<1>1. DirNode.kind = "dir" /\ IsNode(DirNode)
  BY DEF DirNode, IsNode
<1>2. ASSUME NEW u, IsTree(u, TreeKinds), NEW y \in Path \cup {Root}
      PROVE  /\ OneMore(u, mkdir(u, y), y)
             /\ y \in Path /\ Inside(u, y) /\ u[y].kind \in {"none", "dir"} =>
                  mkdir(u, y)[y].kind = "dir"
  <2>1. CASE y # Root /\ u[y].kind = "none" /\ Inside(u, y)
    <3>1. mkdir(u, y) = [u EXCEPT ![y] = DirNode] /\ y \in Path
      BY <2>1, <1>2 DEF mkdir
    <3>2. DOMAIN u = Path
      BY <1>2 DEF IsTree
    <3>3. \A z \in Path : mkdir(u, y)[z] = IF z = y THEN DirNode ELSE u[z]
      BY <3>1, <3>2
    <3>4. mkdir(u, y) = [z \in Path |-> mkdir(u, y)[z]]
      BY <3>1, <3>2
    <3>5. IsTree(mkdir(u, y), TreeKinds)
      BY <1>1, <1>2, <3>3, <3>4 DEF IsTree, TreeKinds
    <3> QED
      BY <1>1, <2>1, <3>3, <3>5, <3>1
  <2>2. CASE ~(y # Root /\ u[y].kind = "none" /\ Inside(u, y))
    <3>1. mkdir(u, y) = u
      BY <2>2 DEF mkdir
    <3>2. y \in Path => y # Root
      BY TreeAssumption
    <3> QED
      BY <1>2, <2>2, <3>1, <3>2
  <2> QED
    BY <2>1, <2>2
<1>3. /\ x # Root /\ Dir[x] \in Path \cup {Root} /\ (Dir[x] = Root \/ Dir[Dir[x]] = Root)
      /\ Root \notin Path
  BY TreeAssumption
<1> DEFINE m == mkdir(tree, Dir[x])
<1>4. t = mkdir(m, x)
  BY <1>3 DEF create_dir
<1>5. OneMore(tree, m, Dir[x])
  BY <1>2, <1>3
<1>6. OneMore(m, t, x)
  BY <1>2, <1>4, <1>5
<1>7. \A y \in Path : t[y] = tree[y] \/ (t[y] = DirNode /\ y \in {x, Dir[x]})
  BY <1>5, <1>6
<1>8. \A y \in Path : tree[y].kind = "dir" => t[y].kind = "dir"
  BY <1>1, <1>7
<1>9. ASSUME Dir[x] = Root \/ tree[Dir[x]].kind \in {"none", "dir"},
             tree[x].kind \in {"none", "dir"}
      PROVE  t[x].kind = "dir"
  <2>1. Inside(m, x)
    <3>1. CASE Dir[x] = Root
      BY <3>1 DEF Inside, isdir
    <3>2. CASE Dir[x] # Root
      <4>1. Inside(tree, Dir[x]) /\ Dir[x] \in Path
        BY <1>3, <3>2 DEF Inside, isdir
      <4>2. m[Dir[x]].kind = "dir"
        BY <1>2, <1>9, <3>2, <4>1
      <4> QED
        BY <4>2 DEF Inside, isdir
    <3> QED
      BY <3>1, <3>2
  <2>2. m[x].kind \in {"none", "dir"} /\ IsTree(m, TreeKinds)
    BY <1>1, <1>5, <1>9
  <2> QED
    BY <1>2, <1>4, <2>1, <2>2
<1> QED
  BY <1>6, <1>7, <1>8, <1>9

(* What is settled stays so while its place is left alone and its job is.  *)
LEMMA SettledStays ==
  ASSUME NEW e, e.kind \in {"dir", "file", "link"}, Settled(e),
         e.kind = "dir" => tree'[e.path].kind = "dir",
         e.kind # "dir" => tree'[e.path] = tree[e.path],
         \A g \in Job : At(g, e.path) /\ pc[g] \in {"put", "symlink", "data"} =>
           At(g, e.path)' /\ held'[g] = held[g] /\
           (pc'[g] = pc[g] \/ (e.kind = "link" /\ pc'[g] = "symlink"))
  PROVE  Settled(e)'
<1>1. CASE e.kind = "dir"
  BY <1>1 DEF Settled
<1>2. CASE e.kind = "link"
  <2>1. CASE tree[e.path].kind = "link" /\ tree[e.path].data = e.data
    BY <1>2, <2>1 DEF Settled
  <2>2. ASSUME NEW g \in Job, At(g, e.path), pc[g] \in {"put", "symlink"},
               tree[e.path].kind = "none"
        PROVE  Settled(e)'
    <3>1. At(g, e.path)' /\ pc'[g] \in {"put", "symlink"}
      BY <2>2
    <3> QED
      BY <1>2, <2>2, <3>1 DEF Settled
  <2> QED
    BY <1>2, <2>1, <2>2 DEF Settled
<1>3. CASE e.kind = "file"
  <2>1. CASE tree[e.path].kind = "file" /\ tree[e.path].data = e.data
    BY <1>3, <2>1 DEF Settled
  <2>2. ASSUME NEW g \in Job, At(g, e.path), pc[g] = "put", tree[e.path].kind = "none"
        PROVE  Settled(e)'
    <3>1. At(g, e.path)' /\ pc'[g] = "put"
      BY <1>3, <2>2
    <3> QED
      BY <1>3, <2>2, <3>1 DEF Settled
  <2>3. ASSUME NEW g \in Job, At(g, e.path), pc[g] = "data", held[g] = tree[e.path].ino,
               tree[e.path].kind = "file", tree[e.path].data = ""
        PROVE  Settled(e)'
    <3>1. At(g, e.path)' /\ pc'[g] = "data" /\ held'[g] = tree'[e.path].ino
      BY <1>3, <2>3
    <3> QED
      BY <1>3, <2>3, <3>1 DEF Settled
  <2> QED
    BY <1>3, <2>1, <2>2, <2>3 DEF Settled
<1> QED
  BY <1>1, <1>2, <1>3

LEMMA SettledKept ==
  ASSUME NEW e, e.kind \in {"dir", "file", "link"}, Settled(e),
         UNCHANGED <<arch, want>>,
         e.kind = "dir" => tree'[e.path].kind = "dir",
         e.kind # "dir" => tree'[e.path] = tree[e.path],
         \A g \in Job : At(g, e.path) /\ pc[g] \in {"put", "symlink", "data"} =>
           pos'[g] = pos[g] /\ held'[g] = held[g] /\
           (pc'[g] = pc[g] \/ (e.kind = "link" /\ pc'[g] = "symlink"))
  PROVE  Settled(e)'
<1>1. \A g \in Job : pos'[g] = pos[g] => (At(g, e.path)' <=> At(g, e.path))
  BY DEF At, Target, Entry, Ask
<1> QED
  BY <1>1, SettledStays

(* A step of one job that leaves the directories keeps the invariant if it *)
(* does so for the entry the job is at.                                    *)
LEMMA StepKept ==
  ASSUME AInv, XInv, NEW j \in Job, UNCHANGED <<arch, want, before, list, packer>>,
         log' = -1 => log = -1,
         \A h \in Job \ {j} : pc'[h] = pc[h] /\ pos'[h] = pos[h] /\ back'[h] = back[h]
                              /\ held'[h] = held[h],
         DOMAIN held' = Job, IsTree(tree', TreeKinds),
         \A x \in Path : tree[x].kind = "dir" => tree'[x].kind = "dir",
         \A x \in Path : tree'[x] = tree[x] \/ tree'[x].kind = "dir" \/ At(j, x),
         Grounds', AtEntry(j)',
         pos'[j] = pos[j] \/ (pos'[j] = pos[j] + 1 /\ pc'[j] = "next"),
         ASSUME NEW e \in Entries, ~Contested(e), At(j, e.path), e = Entry(j),
                Started(e.path) \/ pos'[j] # pos[j] \/ Handled(j)',
                Started(e.path) => Settled(e)
         PROVE  Settled(e)'
  PROVE  XInv'
<1>1. /\ \A h \in Job : Ask(h)' = Ask(h)
      /\ Entries' = Entries
      /\ \A e : Contested(e)' <=> Contested(e)
      /\ \A x : (OnlyDirs(x)' <=> OnlyDirs(x)) /\ (NeverDir(x)' <=> NeverDir(x))
  BY AsksKept
<1>2. TreeTypes /\ \A h \in Job : AtEntry(h)
  BY DEF XInv
<1>3. TreeTypes'
  BY <1>2 DEF TreeTypes
<1>4. ASSUME NEW h \in Job, h # j PROVE AtEntry(h)'
  <2>1. UNCHANGED <<pc[h], pos[h], back[h], arch[h]>> /\ Ask(h)' = Ask(h)
    BY <1>1, <1>4
  <2>2. ASSUME Extracting(h) PROVE Inside(tree, Target(h)) => Inside(tree', Target(h))
    <3>1. Dir[Target(h)] \in Path \cup {Root}
      BY <1>2, <2>2, EntryIs DEF AtEntry
    <3> QED
      BY <3>1, TreeAssumption DEF Inside, isdir
  <2>3. Target(h)' = Target(h) /\ Entry(h)' = Entry(h)
    BY <2>1 DEF Target, Entry
  <2>4. (OnlyDirs(Dir[Target(h)])) <=> (OnlyDirs(Dir[Target(h)]))'
    BY <1>1, <2>3
  <2>5. AtEntry(h)
    BY <1>2
  <2> QED
    BY <2>1, <2>2, <2>3, <2>4, <2>5 DEF AtEntry, Extracting
<1>5. ASSUME NEW e \in Entries, ~Contested(e), Started(e.path)' PROVE Settled(e)'
  <2>1. pos[j] \in Nat /\ \A h \in Job : \A i \in Ask(h) : i \in Nat
    BY DEF AInv, Sane, Ask
  <2> PICK h \in Job : \E i \in Ask(h) :
          arch[h][i].path = e.path /\ (i < pos'[h] \/ (i = pos'[h] /\ Handled(h)'))
    BY <1>1, <1>5 DEF Started
  <2>2. PICK i \in Ask(h) :
          arch[h][i].path = e.path /\ (i < pos'[h] \/ (i = pos'[h] /\ Handled(h)'))
    OBVIOUS
  <2>3. CASE ~At(j, e.path)
    <3>1. Started(e.path)
      <4>1. CASE h # j
        BY <2>2, <4>1 DEF Started, Handled
      <4>2. CASE h = j
        <5>1. i # pos[j]
          BY <2>2, <2>3, <4>2 DEF At, Target, Entry
        <5>2. i < pos[j] \/ pos'[j] = pos[j] + 1
          BY <2>1, <2>2, <4>2, <5>1
        <5>3. pos'[j] = pos[j] + 1 => ~Handled(j)'
          BY <2>1 DEF Handled
        <5>4. i < pos[j]
          BY <2>1, <2>2, <4>2, <5>1, <5>2, <5>3
        <5> QED
          BY <2>2, <4>2, <5>4 DEF Started
      <4> QED
        BY <4>1, <4>2
    <3>2. Settled(e)
      BY <1>5, <3>1 DEF XInv, EachSettled
    <3>3. e.path \in Path /\ e.kind \in {"dir", "file", "link"} /\ (e.kind # "dir" => NeverDir(e.path))
      BY <1>2, <1>5, Uncontested
    <3>4. e.kind # "dir" => tree'[e.path] = tree[e.path]
      BY <1>1, <2>3, <3>3 DEF Grounds
    <3>5. \A g \in Job : At(g, e.path) =>
            pos'[g] = pos[g] /\ held'[g] = held[g] /\ pc'[g] = pc[g]
      BY <2>3
    <3>6. e.kind = "dir" => tree'[e.path].kind = "dir"
      BY <3>2, <3>3 DEF Settled
    <3> QED
      BY <3>2, <3>3, <3>4, <3>5, <3>6, SettledKept
  <2>4. CASE At(j, e.path)
    <3>1. e = Entry(j)
      <4>1. pos[j] \in Ask(j) /\ Target(j) = e.path
        BY <2>4 DEF At
      <4>2. Entry(j) \in Entries /\ Entry(j).path = e.path
        BY <1>2, <4>1, EntryIs
      <4> QED
        BY <1>2, <1>5, <4>2, Uncontested
    <3>2. Started(e.path) \/ pos'[j] # pos[j] \/ Handled(j)'
      <4>1. CASE h # j
        BY <2>2, <4>1 DEF Started, Handled
      <4>2. CASE h = j
        <5>1. CASE pos'[j] = pos[j] /\ ~Handled(j)'
          BY <2>2, <4>2, <5>1 DEF Started
        <5> QED
          BY <5>1
      <4> QED
        BY <4>1, <4>2
    <3>3. Started(e.path) => Settled(e)
      BY <1>5 DEF XInv, EachSettled
    <3> QED
      BY <1>5, <2>4, <3>1, <3>2, <3>3
  <2> QED
    BY <2>3, <2>4
<1>6. EachSettled'
  BY <1>1, <1>5 DEF EachSettled
<1> QED
  BY <1>3, <1>4, <1>6 DEF XInv

(* Directories come up only where one may, and something else likewise.    *)
LEMMA GroundsKept ==
  ASSUME XInv, UNCHANGED <<arch, want, before>>,
         \A x \in Path :
           \/ tree'[x].kind \in {"none", tree[x].kind}
           \/ tree'[x].kind = "dir" /\ ~NeverDir(x)
           \/ tree'[x].kind \in {"file", "link"} /\ ~OnlyDirs(x)
  PROVE  Grounds'
<1>1. \A x : (OnlyDirs(x)' <=> OnlyDirs(x)) /\ (NeverDir(x)' <=> NeverDir(x))
  BY AsksKept
<1> QED
  BY <1>1 DEF XInv, Grounds

(* Where a job can be made to be.                                          *)
LEMMA Frame ==
  ASSUME AInv, XInv, NEW j \in Job
  PROVE  /\ DOMAIN pc = Job /\ DOMAIN pos = Job /\ DOMAIN back = Job /\ DOMAIN held = Job
         /\ pos[j] \in Nat /\ pos[j] > 0 /\ log \in Int /\ log >= -1
         /\ TreeTypes /\ Grounds /\ AtEntry(j) /\ Sane(j) /\ IsTree(tree, TreeKinds)
         /\ Len(arch[j]) \in Nat /\ \A i \in Ask(j) : i \in 1 .. Len(arch[j])
<1>1. TreeTypes /\ Grounds /\ AtEntry(j) /\ Sane(j)
  BY DEF XInv, AInv
<1>2. Len(arch[j]) \in Nat /\ IsTree(tree, TreeKinds) /\ DOMAIN held = Job
  BY <1>1 DEF TreeTypes, IsArchive
<1> QED
  BY <1>1, <1>2 DEF AInv, Functions, LogKind, Sane, Ask

(* Noting a message and looking at the log leave the tree.                 *)
LEMMA NotingXInv ==
  ASSUME AInv, XInv, NEW j \in Job,
         CheckLog(j) \/ CreateLog(j) \/ AddMessage(j) \/ SeeErrors(j) \/ ForgetErrors(j)
  PROVE  XInv'
<1>1. /\ UNCHANGED <<arch, want, before, list, packer, tree, held>>
      /\ pc[j] \in {"check", "create", "add", "error", "reset"}
  BY DEF CheckLog, CreateLog, AddMessage, SeeErrors, ForgetErrors, packing, inputs
<1>2. /\ DOMAIN pc = Job /\ DOMAIN pos = Job /\ DOMAIN back = Job /\ DOMAIN held = Job
      /\ pos[j] \in Nat /\ log \in Int /\ log >= -1 /\ AtEntry(j) /\ Sane(j)
      /\ IsTree(tree, TreeKinds) /\ Grounds
  BY Frame
<1>3. \A h \in Job \ {j} : pc'[h] = pc[h] /\ pos'[h] = pos[h] /\ back'[h] = back[h]
  BY <1>2 DEF CheckLog, CreateLog, AddMessage, SeeErrors, ForgetErrors, Goto, Continue
<1>4. /\ log' = -1 => log = -1
      /\ pos'[j] = pos[j] \/ (pos'[j] = pos[j] + 1 /\ pc'[j] = "next")
      /\ AtEntry(j)'
  <2>1. CASE CheckLog(j)
    <3>1. pc'[j] \in {"create", "add"} /\ pos' = pos /\ log' = log
      BY <1>2, <2>1 DEF CheckLog, Goto
    <3> QED
      BY <3>1 DEF AtEntry, Extracting
  <2>2. CASE CreateLog(j)
    <3>1. pc'[j] = "add" /\ pos' = pos /\ log' = 0
      BY <1>2, <2>2 DEF CreateLog, Goto
    <3> QED
      BY <3>1 DEF AtEntry, Extracting
  <2>3. CASE AddMessage(j)
    <3>1. /\ back[j] \in {"next", "error"} /\ log # -1 /\ log' = log + 1
          /\ pc'[j] = back[j] /\ back'[j] = "next"
          /\ pos' = pos \/ (back[j] = "next" /\ pos' = [pos EXCEPT ![j] = @ + 1])
      BY <1>2, <2>3 DEF AddMessage, Goto, Sane, Noting
    <3>2. pos'[j] = pos[j] \/ (back[j] = "next" /\ pos'[j] = pos[j] + 1)
      BY <1>2, <3>1
    <3>3. log' # -1
      BY <1>2, <3>1
    <3> QED
      BY <3>1, <3>2, <3>3 DEF AtEntry, Extracting
  <2>4. CASE SeeErrors(j)
    <3>1. /\ pos' = pos /\ back' = back /\ log' = log /\ pc[j] = "error"
          /\ \/ log = -1 /\ pc'[j] = "done"
             \/ log # -1 /\ pc'[j] \in {"error", "reset"}
      BY <1>2, <2>4 DEF SeeErrors, Goto
    <3> QED
      BY <1>1, <1>2, <3>1 DEF AtEntry, Extracting
  <2>5. CASE ForgetErrors(j)
    <3>1. /\ log' = 0 /\ back' = back /\ pc[j] = "reset"
          /\ \/ back[j] = "done" /\ pc'[j] = "done" /\ pos' = pos
             \/ pc'[j] = "next" /\ pos'[j] = pos[j] + 1
      BY <1>2, <2>5 DEF ForgetErrors, Goto, Continue
    <3> QED
      BY <1>1, <1>2, <3>1 DEF AtEntry, Extracting
  <2> QED
    BY <2>1, <2>2, <2>3, <2>4, <2>5
<1>5. Grounds'
  BY <1>1, GroundsKept
<1>6. ASSUME NEW e \in Entries, ~Contested(e), At(j, e.path), e = Entry(j),
             Started(e.path) => Settled(e)
      PROVE  Settled(e)'
  <2>1. Started(e.path)
    <3>1. pos[j] \in Ask(j) /\ arch[j][pos[j]].path = e.path /\ Handled(j)
      BY <1>1, <1>6 DEF At, Handled, Entry
    <3> QED
      BY <3>1 DEF Started
  <2>2. \A g \in Job : At(g, e.path) /\ pc[g] \in {"put", "symlink", "data"} => g # j
    BY <1>1
  <2>3. e.kind \in {"dir", "file", "link"}
    BY <1>6, Uncontested DEF XInv
  <2>4. e.kind = "dir" => tree'[e.path].kind = "dir"
    BY <1>1, <1>6, <2>1 DEF Settled
  <2> QED
    BY <1>1, <1>3, <1>6, <2>1, <2>2, <2>3, <2>4, SettledKept
<1> QED
  BY <1>1, <1>2, <1>3, <1>4, <1>5, <1>6, StepKept

LEMMA NextHeaderXInv == ASSUME AInv, XInv, NEW j \in Job, NextHeader(j) PROVE XInv'
<1>1. /\ UNCHANGED <<arch, want, before, list, packer, tree, held, log>>
      /\ pc[j] = "next"
  BY DEF NextHeader, packing, inputs
<1>2. /\ DOMAIN pc = Job /\ DOMAIN pos = Job /\ DOMAIN back = Job /\ DOMAIN held = Job
      /\ pos[j] \in Nat /\ pos[j] > 0 /\ AtEntry(j) /\ IsTree(tree, TreeKinds) /\ Grounds
      /\ TreeTypes /\ Len(arch[j]) \in Nat
  BY Frame
<1>3. \A h \in Job \ {j} : pc'[h] = pc[h] /\ pos'[h] = pos[h] /\ back'[h] = back[h]
  BY <1>2 DEF NextHeader, Goto, Continue
<1>4. pos[j] <= Len(arch[j]) /\ Wanted(j) <=> pos[j] \in Ask(j)
  BY <1>2 DEF Ask, Wanted, Target, Entry
<1>5. \/ pos[j] > Len(arch[j]) /\ pc'[j] = "error" /\ back'[j] = "done" /\ pos' = pos
      \/ /\ pos'[j] = pos[j] + 1 /\ pc'[j] = "next"
         /\ pos[j] \in Ask(j) => Entry(j).kind = "dir" /\ access(tree, Target(j))
      \/ /\ pos' = pos /\ pos[j] \in Ask(j)
         /\ \/ pc'[j] = "mkdir" /\ Entry(j).kind = "dir"
            \/ pc'[j] = "parent" /\ Entry(j).kind # "dir"
  <2>1. pos[j] > Len(arch[j]) \/ pos[j] <= Len(arch[j])
    BY <1>2
  <2>2. CASE pos[j] > Len(arch[j])
    BY <1>2, <2>2 DEF NextHeader, Goto
  <2>3. CASE ~(pos[j] > Len(arch[j])) /\ ~Wanted(j)
    BY <1>2, <1>4, <2>3 DEF NextHeader, Continue, Goto
  <2>4. CASE ~(pos[j] > Len(arch[j])) /\ Wanted(j)
    <3>1. pos[j] \in Ask(j)
      BY <1>4, <2>1, <2>4
    <3> QED
      BY <1>2, <2>4, <3>1 DEF NextHeader, Continue, Goto
  <2> QED
    BY <2>2, <2>3, <2>4
<1>6. AtEntry(j)'
  <2>1. Ask(j)' = Ask(j)
    BY <1>1, AsksKept
  <2>2. pos' = pos => Entry(j)' = Entry(j)
    BY <1>1 DEF Entry
  <2> QED
    BY <1>1, <1>5, <2>1, <2>2 DEF AtEntry, Extracting
<1>7. Grounds'
  BY <1>1, GroundsKept
<1>8. ASSUME NEW e \in Entries, ~Contested(e), At(j, e.path), e = Entry(j),
             Started(e.path) \/ pos'[j] # pos[j] \/ Handled(j)',
             Started(e.path) => Settled(e)
      PROVE  Settled(e)'
  <2>1. pos[j] \in Ask(j) /\ Target(j) = e.path /\ ~(pos[j] > Len(arch[j]))
    BY <1>2, <1>8 DEF At, Ask
  <2>2. e.path \in Path /\ e.kind \in {"dir", "file", "link"} /\ (e.kind = "dir" => OnlyDirs(e.path))
    BY <1>2, <1>8, Uncontested
  <2>3. CASE Started(e.path)
    <3>1. e.kind = "dir" => tree'[e.path].kind = "dir"
      BY <1>1, <1>8, <2>3 DEF Settled
    <3> QED
      BY <1>1, <1>3, <1>8, <2>2, <2>3, <3>1, SettledKept
  <2>4. CASE pos'[j] # pos[j] \/ Handled(j)'
    <3>1. e.kind = "dir" /\ access(tree, e.path)
      BY <1>5, <1>8, <2>1, <2>4 DEF Handled
    <3>2. tree[e.path].kind = "dir"
      BY <1>2, <2>2, <3>1 DEF Grounds, access, issymlink
    <3> QED
      BY <1>1, <3>1, <3>2 DEF Settled
  <2> QED
    BY <1>8, <2>3, <2>4
<1> QED
  BY <1>1, <1>2, <1>3, <1>5, <1>6, <1>7, <1>8, StepKept

(* What a job that extracts an entry knows of it.                          *)
LEMMA ExtractingFrame ==
  ASSUME AInv, XInv, NEW j \in Job, Extracting(j)
  PROVE  /\ DOMAIN pc = Job /\ DOMAIN pos = Job /\ DOMAIN back = Job /\ DOMAIN held = Job
         /\ pos[j] \in Nat /\ pos[j] > 0 /\ IsTree(tree, TreeKinds) /\ Grounds /\ TreeTypes
         /\ pos[j] \in Ask(j) /\ Target(j) \in Path /\ Entry(j) \in Entries
         /\ Entry(j).path = Target(j) /\ Entry(j).kind \in Kinds /\ At(j, Target(j))
         /\ Dir[Target(j)] \in Path \cup {Root}
         /\ pc[j] = "mkdir" <=> Entry(j).kind = "dir"
         /\ pc[j] = "data" => Entry(j).kind = "file"
         /\ pc[j] = "symlink" => Entry(j).kind = "link"
         /\ pc[j] \in {"clear", "unlink", "put", "symlink", "data"} /\ OnlyDirs(Dir[Target(j)]) =>
              Inside(tree, Target(j))
         /\ Entry(j).kind # "dir" => ~OnlyDirs(Target(j)) /\ ~NeverDir(Dir[Target(j)])
         /\ Entry(j).kind = "dir" => ~NeverDir(Target(j)) /\ ~NeverDir(Dir[Target(j)])
<1>1. /\ DOMAIN pc = Job /\ DOMAIN pos = Job /\ DOMAIN back = Job /\ DOMAIN held = Job
      /\ pos[j] \in Nat /\ pos[j] > 0 /\ IsTree(tree, TreeKinds) /\ Grounds /\ TreeTypes
      /\ AtEntry(j) /\ Sane(j)
  BY Frame
<1>2. pos[j] \in Ask(j)
  BY <1>1 DEF AtEntry
<1>3. /\ Entry(j) \in Entries /\ Target(j) = Entry(j).path /\ Target(j) \in Path
      /\ Entry(j).kind \in Kinds /\ Dir[Target(j)] \in Path \cup {Root} /\ At(j, Target(j))
  BY <1>1, <1>2, EntryIs
<1>4. /\ Entry(j).kind # "dir" => ~OnlyDirs(Target(j))
      /\ ~NeverDir(Dir[Target(j)])
      /\ Entry(j).kind = "dir" => ~NeverDir(Target(j))
  BY <1>3 DEF OnlyDirs, NeverDir
<1> QED
  BY <1>1, <1>2, <1>3, <1>4 DEF AtEntry, Sane

(* Where a job goes from one entry: on with it, to the next, or to report. *)
LEMMA OnWithIt ==
  ASSUME AInv, XInv, NEW j \in Job, Extracting(j), UNCHANGED <<arch, want, before>>,
         DOMAIN pc' = Job, DOMAIN pos' = Job,
         \/ pc'[j] = "next"
         \/ pc'[j] = "check"
         \/ /\ pc'[j] \in {"clear", "unlink", "put", "symlink", "data"} /\ pos'[j] = pos[j]
            /\ Entry(j).kind # "dir" /\ (pc'[j] = "data" => Entry(j).kind = "file")
            /\ OnlyDirs(Dir[Target(j)]) => Inside(tree', Target(j))
  PROVE  AtEntry(j)'
<1>1. Ask(j)' = Ask(j) /\ \A x : (OnlyDirs(x)' <=> OnlyDirs(x))
  BY AsksKept
<1>2. pos'[j] = pos[j] => Entry(j)' = Entry(j) /\ Target(j)' = Target(j)
  BY DEF Entry, Target
<1>3. pos[j] \in Ask(j)
  BY ExtractingFrame
<1> QED
  BY <1>1, <1>2, <1>3 DEF AtEntry, Extracting

LEMMA MakeDirXInv == ASSUME AInv, XInv, NEW j \in Job, MakeDir(j) PROVE XInv'
<1> DEFINE x == Target(j)
<1>1. /\ UNCHANGED <<arch, want, before, list, packer, held, log>>
      /\ pc[j] = "mkdir" /\ tree' = create_dir(tree, x)
  BY DEF MakeDir, packing, inputs
<1>2. Extracting(j)
  BY <1>1 DEF Extracting
<1>3. /\ DOMAIN pc = Job /\ DOMAIN pos = Job /\ DOMAIN back = Job /\ DOMAIN held = Job
      /\ pos[j] \in Nat /\ IsTree(tree, TreeKinds) /\ Grounds /\ TreeTypes
      /\ x \in Path /\ Entry(j).kind = "dir" /\ Dir[x] \in Path \cup {Root}
      /\ ~NeverDir(x) /\ ~NeverDir(Dir[x])
  BY <1>1, <1>2, ExtractingFrame
<1>4. /\ \A h \in Job \ {j} : pc'[h] = pc[h] /\ pos'[h] = pos[h] /\ back'[h] = back[h]
      /\ DOMAIN pc' = Job /\ DOMAIN pos' = Job
      /\ \/ pc'[j] = "next" /\ pos'[j] = pos[j] + 1
         \/ pc'[j] = "check" /\ pos'[j] = pos[j]
  BY <1>3 DEF MakeDir, Goto, Continue, Report
<1>5. /\ IsTree(tree', TreeKinds)
      /\ \A y \in Path : tree'[y] = tree[y] \/ (tree'[y] = DirNode /\ y \in {x, Dir[x]})
      /\ \A y \in Path : tree[y].kind = "dir" => tree'[y].kind = "dir"
      /\ /\ Dir[x] = Root \/ tree[Dir[x]].kind \in {"none", "dir"}
         /\ tree[x].kind \in {"none", "dir"}
         => tree'[x].kind = "dir"
  BY <1>1, <1>3, CreateDir
<1>6. DirNode.kind = "dir"
  BY DEF DirNode
<1>7. Grounds'
  BY <1>1, <1>3, <1>5, <1>6, GroundsKept
<1>8. AtEntry(j)'
  BY <1>1, <1>2, <1>4, OnWithIt
<1>9. ASSUME NEW e \in Entries, ~Contested(e), At(j, e.path), e = Entry(j) PROVE Settled(e)'
  <2>1. OnlyDirs(Dir[x]) /\ OnlyDirs(x) /\ e.path = x /\ e.kind = "dir"
    BY <1>3, <1>9, Uncontested DEF At
  <2>2. tree'[x].kind = "dir"
    BY <1>3, <1>5, <2>1 DEF Grounds
  <2> QED
    BY <2>1, <2>2 DEF Settled
<1>10. \A y \in Path : tree'[y] = tree[y] \/ tree'[y].kind = "dir" \/ At(j, y)
  BY <1>5, <1>6
<1> QED
  BY <1>1, <1>3, <1>4, <1>5, <1>7, <1>8, <1>9, <1>10, StepKept

LEMMA MakeParentXInv == ASSUME AInv, XInv, NEW j \in Job, MakeParent(j) PROVE XInv'
<1> DEFINE x == Target(j)
           d == Dir[Target(j)]
<1>1. /\ UNCHANGED <<arch, want, before, list, packer, held, log, pos, back>>
      /\ pc[j] = "parent" /\ pc' = [pc EXCEPT ![j] = "clear"]
      /\ tree' = IF isdir(tree, d) THEN tree ELSE create_dir(tree, d)
  BY DEF MakeParent, packing, inputs, Goto
<1>2. Extracting(j)
  BY <1>1 DEF Extracting
<1>3. /\ DOMAIN pc = Job /\ DOMAIN pos = Job /\ DOMAIN back = Job /\ DOMAIN held = Job
      /\ pos[j] \in Nat /\ IsTree(tree, TreeKinds) /\ Grounds /\ TreeTypes
      /\ x \in Path /\ Entry(j).kind # "dir" /\ d \in Path \cup {Root}
      /\ ~NeverDir(d) /\ (d \in Path => Dir[d] = Root) /\ Root \notin Path
  BY <1>1, <1>2, ExtractingFrame, TreeAssumption
<1>4. DirNode.kind = "dir"
  BY DEF DirNode
<1>5. /\ IsTree(tree', TreeKinds)
      /\ \A y \in Path : tree'[y] = tree[y] \/ (tree'[y].kind = "dir" /\ y = d)
      /\ \A y \in Path : tree[y].kind = "dir" => tree'[y].kind = "dir"
      /\ OnlyDirs(d) => isdir(tree', d)
  <2>1. CASE isdir(tree, d)
    BY <1>1, <1>3, <2>1
  <2>2. CASE ~isdir(tree, d)
    <3>1. d \in Path /\ Dir[d] = Root
      BY <1>3, <2>2 DEF isdir
    <3>2. tree' = create_dir(tree, d)
      BY <1>1, <2>2
    <3>3. /\ IsTree(tree', TreeKinds)
          /\ \A y \in Path : tree'[y] = tree[y] \/ (tree'[y] = DirNode /\ y \in {d, Root})
          /\ \A y \in Path : tree[y].kind = "dir" => tree'[y].kind = "dir"
          /\ tree[d].kind \in {"none", "dir"} => tree'[d].kind = "dir"
      BY <1>3, <3>1, <3>2, CreateDir
    <3> QED
      BY <1>3, <1>4, <3>1, <3>3 DEF Grounds, isdir
  <2> QED
    BY <2>1, <2>2
<1>6. Grounds'
  BY <1>1, <1>3, <1>5, GroundsKept
<1>7. AtEntry(j)'
  BY <1>1, <1>2, <1>3, <1>5, OnWithIt DEF Inside
<1>8. ASSUME NEW e \in Entries, ~Contested(e), At(j, e.path), e = Entry(j),
             Started(e.path) \/ pos'[j] # pos[j] \/ Handled(j)',
             Started(e.path) => Settled(e)
      PROVE  Settled(e)'
  <2>1. e.path \in Path /\ e.kind \in {"file", "link"} /\ NeverDir(e.path)
    BY <1>3, <1>8, Uncontested
  <2>2. pc'[j] = "clear" /\ pos'[j] = pos[j]
    BY <1>1, <1>3
  <2>3. Started(e.path)
    BY <1>8, <2>2 DEF Handled
  <2>4. tree'[e.path] = tree[e.path]
    BY <1>3, <1>5, <2>1
  <2> QED
    BY <1>1, <1>8, <2>1, <2>3, <2>4, SettledKept
<1> QED
  BY <1>1, <1>2, <1>3, <1>5, <1>6, <1>7, <1>8, StepKept

LEMMA PutNode ==
  ASSUME IsTree(tree, TreeKinds), NEW x \in Path, NEW n, IsNode(n), n.kind \in TreeKinds,
         tree' = [tree EXCEPT ![x] = n]
  PROVE  /\ IsTree(tree', TreeKinds)
         /\ \A y \in Path : tree'[y] = IF y = x THEN n ELSE tree[y]
<1>1. DOMAIN tree = Path
  BY DEF IsTree
<1>2. \A y \in Path : tree'[y] = IF y = x THEN n ELSE tree[y]
  BY <1>1
<1>3. tree' = [y \in Path |-> tree'[y]]
  BY <1>1
<1> QED
  BY <1>2, <1>3 DEF IsTree

LEMMA Nodes ==
  /\ IsNode(NoNode) /\ NoNode.kind = "none"
  /\ \A to : IsNode(LinkNode(to)) /\ LinkNode(to).kind = "link" /\ LinkNode(to).data = to
  /\ \A data, ino : /\ IsNode(FileNode(data, ino)) /\ FileNode(data, ino).kind = "file"
                    /\ FileNode(data, ino).data = data /\ FileNode(data, ino).ino = ino
BY DEF IsNode, NoNode, LinkNode, FileNode

(* What is not there is settled while a job is about to put it.            *)
LEMMA AboutToPut ==
  ASSUME NEW e, e.kind \in {"file", "link"}, NEW j \in Job, At(j, e.path)',
         tree'[e.path].kind = "none", pc'[j] = "put"
  PROVE  Settled(e)'
<1>1. \E g \in Job : At(g, e.path)' /\ pc'[g] = "put"
  OBVIOUS
<1>2. CASE e.kind = "file"
  BY <1>1, <1>2 DEF Settled
<1>3. CASE e.kind = "link"
  <2>1. \E g \in Job : At(g, e.path)' /\ pc'[g] \in {"put", "symlink"}
    BY <1>1
  <2> QED
    BY <1>3, <2>1 DEF Settled
<1> QED
  BY <1>2, <1>3

(* Tests of the tree on the way to putting an entry.                       *)
LEMMA TestsXInv ==
  ASSUME AInv, XInv, NEW j \in Job, TestOld(j) \/ PutLink(j) \/ SkipOther(j)
  PROVE  XInv'
<1> DEFINE x == Target(j)
<1>1. /\ UNCHANGED <<arch, want, before, list, packer, tree, held, log, back>>
      /\ pc[j] \in {"clear", "put"}
  BY DEF TestOld, PutLink, SkipOther, packing, inputs
<1>2. Extracting(j)
  BY <1>1 DEF Extracting
<1>3. /\ DOMAIN pc = Job /\ DOMAIN pos = Job /\ DOMAIN back = Job /\ DOMAIN held = Job
      /\ pos[j] \in Nat /\ IsTree(tree, TreeKinds) /\ Grounds /\ TreeTypes
      /\ x \in Path /\ Entry(j).kind # "dir"
      /\ OnlyDirs(Dir[x]) => Inside(tree, x)
  BY <1>1, <1>2, ExtractingFrame
<1>4. /\ DOMAIN pc' = Job /\ DOMAIN pos' = Job
      /\ \A h \in Job \ {j} : pc'[h] = pc[h] /\ pos'[h] = pos[h]
      /\ \/ /\ pc[j] = "clear" /\ pc'[j] = "put" /\ pos'[j] = pos[j]
            /\ ~issymlink(tree, x) /\ ~isfile(tree, x)
         \/ pc[j] = "clear" /\ pc'[j] = "unlink" /\ pos'[j] = pos[j]
         \/ pc[j] = "put" /\ pc'[j] = "symlink" /\ pos'[j] = pos[j] /\ Entry(j).kind = "link"
         \/ /\ pc[j] = "put" /\ pc'[j] = "next" /\ pos'[j] = pos[j] + 1
            /\ Entry(j).kind = "other" \/ isdir(tree, x)
  BY <1>3 DEF TestOld, PutLink, SkipOther, Goto, Continue
<1>5. Grounds'
  BY <1>1, GroundsKept
<1>6. AtEntry(j)'
  BY <1>1, <1>2, <1>3, <1>4, OnWithIt
<1>7. ASSUME NEW e \in Entries, ~Contested(e), At(j, e.path), e = Entry(j),
             Started(e.path) \/ pos'[j] # pos[j] \/ Handled(j)',
             Started(e.path) => Settled(e)
      PROVE  Settled(e)'
  <2>1. e.path = x /\ e.kind \in {"file", "link"} /\ NeverDir(x)
    BY <1>3, <1>7, Uncontested DEF At
  <2>2. tree[x].kind \in TreeKinds /\ tree[x].kind # "dir" /\ x # Root
    BY <1>3, <2>1, TreeAssumption DEF Grounds, IsTree
  <2>3. CASE pc[j] = "clear" /\ pc'[j] = "put"
    <3>1. tree'[x].kind = "none"
      BY <1>1, <1>4, <2>2, <2>3 DEF TreeKinds, issymlink, isfile, isdir
    <3>2. At(j, e.path)'
      BY <1>1, <1>4, <1>7, <2>3, AsksKept DEF At, Target, Entry
    <3> QED
      BY <2>1, <2>3, <3>1, <3>2, AboutToPut
  <2>4. CASE pc[j] = "clear" /\ pc'[j] = "unlink"
    <3>1. Started(e.path)
      BY <1>4, <1>7, <2>4 DEF Handled
    <3> QED
      BY <1>1, <1>4, <1>7, <2>1, <2>4, <3>1, SettledKept
  <2>5. CASE pc[j] = "put"
    <3>1. pc'[j] = "symlink" /\ e.kind = "link" /\ pos'[j] = pos[j]
      BY <1>4, <1>7, <2>1, <2>2, <2>5 DEF isdir
    <3>2. Started(e.path)
      BY <1>7, <2>5 DEF Started, At, Handled, Target, Entry
    <3> QED
      BY <1>1, <1>4, <1>7, <2>1, <3>1, <3>2, SettledKept
  <2> QED
    BY <1>4, <2>3, <2>4, <2>5
<1> QED
  BY <1>1, <1>3, <1>4, <1>5, <1>6, <1>7, StepKept

LEMMA UnlinkXInv == ASSUME AInv, XInv, NEW j \in Job, Unlink(j) PROVE XInv'
<1> DEFINE x == Target(j)
<1>1. /\ UNCHANGED <<arch, want, before, list, packer, held, log, pos, back>>
      /\ pc[j] = "unlink" /\ pc' = [pc EXCEPT ![j] = "put"]
      /\ tree' = IF isdir(tree, x) THEN tree ELSE [tree EXCEPT ![x] = NoNode]
  BY DEF Unlink, packing, inputs, Goto
<1>2. Extracting(j)
  BY <1>1 DEF Extracting
<1>3. /\ DOMAIN pc = Job /\ DOMAIN pos = Job /\ DOMAIN back = Job /\ DOMAIN held = Job
      /\ pos[j] \in Nat /\ IsTree(tree, TreeKinds) /\ Grounds /\ TreeTypes
      /\ x \in Path /\ Entry(j).kind # "dir" /\ At(j, x) /\ Dir[x] \in Path \cup {Root}
      /\ OnlyDirs(Dir[x]) => Inside(tree, x)
      /\ x # Root
  BY <1>1, <1>2, ExtractingFrame, TreeAssumption
<1>4. /\ IsTree(tree', TreeKinds)
      /\ \A y \in Path : tree'[y] = tree[y] \/ (y = x /\ tree'[y].kind = "none")
      /\ \A y \in Path : tree[y].kind = "dir" => tree'[y].kind = "dir"
      /\ tree[x].kind # "dir" => tree'[x].kind = "none"
  <2>1. CASE isdir(tree, x)
    BY <1>1, <1>3, <2>1 DEF isdir
  <2>2. CASE ~isdir(tree, x)
    <3>1. NoNode.kind \in TreeKinds /\ IsNode(NoNode) /\ NoNode.kind = "none"
      BY Nodes DEF TreeKinds
    <3>2. IsTree(tree', TreeKinds) /\ \A y \in Path : tree'[y] = IF y = x THEN NoNode ELSE tree[y]
      BY <1>1, <1>3, <2>2, <3>1, PutNode
    <3> QED
      BY <1>3, <2>2, <3>1, <3>2 DEF isdir
  <2> QED
    BY <2>1, <2>2
<1>5. Grounds'
  BY <1>1, <1>4, GroundsKept
<1>6. AtEntry(j)'
  <2>1. Inside(tree, x) => Inside(tree', x)
    BY <1>3, <1>4 DEF Inside, isdir
  <2> QED
    BY <1>1, <1>2, <1>3, <2>1, OnWithIt
<1>7. ASSUME NEW e \in Entries, ~Contested(e), At(j, e.path), e = Entry(j) PROVE Settled(e)'
  <2>1. e.path = x /\ e.kind \in {"file", "link"} /\ NeverDir(x)
    BY <1>3, <1>7, Uncontested DEF At
  <2>2. tree'[x].kind = "none"
    BY <1>3, <1>4, <2>1 DEF Grounds
  <2>3. At(j, e.path)' /\ pc'[j] = "put"
    BY <1>1, <1>3, <1>7, AsksKept DEF At, Target, Entry
  <2> QED
    BY <2>1, <2>2, <2>3, AboutToPut
<1>8. \A h \in Job \ {j} : pc'[h] = pc[h]
  BY <1>1, <1>3
<1>9. \A y \in Path : tree'[y] = tree[y] \/ tree'[y].kind = "dir" \/ At(j, y)
  BY <1>3, <1>4
<1> QED
  BY <1>1, <1>3, <1>4, <1>5, <1>6, <1>7, <1>8, <1>9, StepKept

(* At an uncontested place nothing but the link itself can be in the way.  *)
LEMMA SymlinkXInv == ASSUME AInv, XInv, NEW j \in Job, Symlink(j) PROVE XInv'
<1> DEFINE x == Target(j)
           Free == Inside(tree, x) /\ tree[x].kind = "none"
<1>1. /\ UNCHANGED <<arch, want, before, list, packer, held, log>>
      /\ pc[j] = "symlink"
  BY DEF Symlink, packing, inputs
<1>2. Extracting(j)
  BY <1>1 DEF Extracting
<1>3. /\ DOMAIN pc = Job /\ DOMAIN pos = Job /\ DOMAIN back = Job /\ DOMAIN held = Job
      /\ pos[j] \in Nat /\ IsTree(tree, TreeKinds) /\ Grounds /\ TreeTypes
      /\ x \in Path /\ Entry(j).kind = "link" /\ At(j, x) /\ Dir[x] \in Path \cup {Root}
      /\ OnlyDirs(Dir[x]) => Inside(tree, x)
      /\ ~OnlyDirs(x)
  BY <1>1, <1>2, ExtractingFrame
<1>4. /\ \A h \in Job \ {j} : pc'[h] = pc[h] /\ pos'[h] = pos[h] /\ back'[h] = back[h]
      /\ DOMAIN pc' = Job /\ DOMAIN pos' = Job
      /\ Free => /\ tree' = [tree EXCEPT ![x] = LinkNode(Entry(j).data)]
                 /\ pc'[j] = "next" /\ pos'[j] = pos[j] + 1
      /\ ~Free => /\ tree' = tree
                  /\ \/ pc'[j] = "next" /\ pos'[j] = pos[j] + 1
                     \/ pc'[j] = "check" /\ pos' = pos
  <2>1. \/ /\ Free /\ tree' = [tree EXCEPT ![x] = LinkNode(Entry(j).data)]
           /\ Continue(j) /\ back' = back
        \/ /\ tree' = tree /\ ~Free
           /\ \/ Continue(j) /\ back' = back
              \/ Report(j, "error") /\ pos' = pos
    BY DEF Symlink
  <2> QED
    BY <1>3, <2>1 DEF Continue, Report, Goto
<1>5. /\ IsTree(tree', TreeKinds)
      /\ \A y \in Path : tree'[y] = tree[y] \/ (y = x /\ Free /\ tree'[y].kind = "link")
      /\ Free => tree'[x].kind = "link" /\ tree'[x].data = Entry(j).data
  <2>1. CASE ~Free
    BY <1>3, <1>4, <2>1
  <2>2. CASE Free
    <3>1. PICK n : n = LinkNode(Entry(j).data)
      OBVIOUS
    <3>2. IsNode(n) /\ n.kind = "link" /\ n.data = Entry(j).data
      BY <3>1, Nodes
    <3>3. n.kind \in TreeKinds /\ tree' = [tree EXCEPT ![x] = n]
      BY <1>4, <2>2, <3>1, <3>2 DEF TreeKinds
    <3>4. IsTree(tree, TreeKinds) /\ x \in Path
      BY <1>3
    <3>5. IsTree(tree', TreeKinds) /\ \A y \in Path : tree'[y] = IF y = x THEN n ELSE tree[y]
      BY <3>2, <3>3, <3>4, PutNode
    <3> QED
      BY <2>2, <3>2, <3>4, <3>5
  <2> QED
    BY <2>1, <2>2
<1>6. Grounds'
  BY <1>1, <1>3, <1>5, GroundsKept
<1>7. AtEntry(j)'
  BY <1>1, <1>2, <1>4, OnWithIt
<1>8. ASSUME NEW e \in Entries, ~Contested(e), At(j, e.path), e = Entry(j),
             Started(e.path) => Settled(e)
      PROVE  Settled(e)'
  <2>1. e.path = x /\ e.kind = "link" /\ OnlyDirs(Dir[x])
    BY <1>3, <1>8, Uncontested DEF At
  <2>2. Started(e.path)
    BY <1>1, <1>8 DEF Started, At, Handled, Target, Entry
  <2>3. tree[x].kind # "none" => tree[x].kind = "link" /\ tree[x].data = e.data
    BY <1>8, <2>1, <2>2 DEF Settled
  <2>4. tree'[x].kind = "link" /\ tree'[x].data = e.data
    BY <1>3, <1>5, <1>8, <2>1, <2>3
  <2> QED
    BY <2>1, <2>4 DEF Settled
<1>9. \A y \in Path : tree'[y] = tree[y] \/ tree'[y].kind = "dir" \/ At(j, y)
  BY <1>3, <1>5
<1>10. \A y \in Path : tree[y].kind = "dir" => tree'[y].kind = "dir"
  BY <1>5
<1> QED
  BY <1>1, <1>3, <1>4, <1>5, <1>6, <1>7, <1>8, <1>9, <1>10, StepKept

(* Opening a file empties it, and the job that opened it is to fill it.    *)
LEMMA PutFileXInv == ASSUME AInv, XInv, NEW j \in Job, PutFile(j) PROVE XInv'
<1> DEFINE x == Target(j)
           Opens == Inside(tree, x) /\ tree[x].kind \in {"none", "file"}
<1>1. /\ UNCHANGED <<arch, want, before, list, packer, log, pos>>
      /\ pc[j] = "put" /\ Entry(j).kind = "file"
  BY DEF PutFile, packing, inputs
<1>2. Extracting(j)
  BY <1>1 DEF Extracting
<1>3. /\ DOMAIN pc = Job /\ DOMAIN pos = Job /\ DOMAIN back = Job /\ DOMAIN held = Job
      /\ pos[j] \in Nat /\ IsTree(tree, TreeKinds) /\ Grounds /\ TreeTypes
      /\ x \in Path /\ At(j, x) /\ Dir[x] \in Path \cup {Root}
      /\ OnlyDirs(Dir[x]) => Inside(tree, x)
      /\ ~OnlyDirs(x)
  BY <1>1, <1>2, ExtractingFrame
<1>4. /\ \A h \in Job \ {j} : pc'[h] = pc[h] /\ back'[h] = back[h] /\ held'[h] = held[h]
      /\ DOMAIN pc' = Job /\ DOMAIN held' = Job
      /\ Opens => /\ tree' = [tree EXCEPT ![x] = FileNode("", held'[j])]
                  /\ pc'[j] = "data"
      /\ ~Opens => tree' = tree /\ pc'[j] \in {"data", "check"}
  <2>1. CASE Opens
    <3>1. PICK ino : /\ tree' = [tree EXCEPT ![x] = FileNode("", ino)]
                     /\ held' = [held EXCEPT ![j] = ino]
                     /\ pc' = [pc EXCEPT ![j] = "data"] /\ back' = back
      BY <2>1 DEF PutFile, Goto, Astray, Inside, isdir, issymlink
    <3> QED
      BY <1>3, <2>1, <3>1
  <2>2. CASE ~Opens
    <3>1. /\ tree' = tree
          /\ \/ /\ held' = [held EXCEPT ![j] = <<>>] /\ pc' = [pc EXCEPT ![j] = "data"] /\ back' = back
             \/ held' = held /\ pc' = [pc EXCEPT ![j] = "check"] /\ back' = [back EXCEPT ![j] = "error"]
      BY <2>2 DEF PutFile, Goto, Report
    <3> QED
      BY <1>3, <2>2, <3>1
  <2> QED
    BY <2>1, <2>2
<1>5. /\ IsTree(tree', TreeKinds)
      /\ \A y \in Path : tree'[y] = tree[y] \/ (y = x /\ Opens /\ tree'[y].kind = "file")
      /\ Opens => tree'[x].kind = "file" /\ tree'[x].data = "" /\ tree'[x].ino = held'[j]
  <2>1. CASE ~Opens
    BY <1>3, <1>4, <2>1
  <2>2. CASE Opens
    <3>1. PICK n : n = FileNode("", held'[j])
      OBVIOUS
    <3>2. IsNode(n) /\ n.kind = "file" /\ n.data = "" /\ n.ino = held'[j]
      BY <3>1, Nodes, ZenonT(30)
    <3>3. n.kind \in TreeKinds /\ tree' = [tree EXCEPT ![x] = n]
      BY <1>4, <2>2, <3>1, <3>2 DEF TreeKinds
    <3>4. IsTree(tree, TreeKinds) /\ x \in Path
      BY <1>3
    <3>5. IsTree(tree', TreeKinds) /\ \A y \in Path : tree'[y] = IF y = x THEN n ELSE tree[y]
      BY <3>2, <3>3, <3>4, PutNode
    <3> QED
      BY <2>2, <3>2, <3>4, <3>5
  <2> QED
    BY <2>1, <2>2
<1>6. Grounds'
  BY <1>1, <1>3, <1>5, GroundsKept
<1>7. AtEntry(j)'
  <2>1. Inside(tree, x) => Inside(tree', x)
    BY <1>3, <1>5 DEF Inside, isdir
  <2> QED
    BY <1>1, <1>2, <1>3, <1>4, <2>1, OnWithIt
<1>8. ASSUME NEW e \in Entries, ~Contested(e), At(j, e.path), e = Entry(j),
             Started(e.path) => Settled(e)
      PROVE  Settled(e)'
  <2>1. e.path = x /\ e.kind = "file" /\ OnlyDirs(Dir[x])
    BY <1>1, <1>3, <1>8, Uncontested DEF At
  <2>2. Started(e.path)
    BY <1>1, <1>8 DEF Started, At, Handled, Target, Entry
  <2>3. tree[x].kind \in {"none", "file"}
    BY <1>8, <2>1, <2>2 DEF Settled
  <2>4. /\ pc'[j] = "data" /\ tree'[e.path].kind = "file" /\ tree'[e.path].data = ""
        /\ held'[j] = tree'[e.path].ino
    BY <1>3, <1>4, <1>5, <2>1, <2>3
  <2>5. At(j, e.path)'
    BY <1>1, <1>8, AsksKept DEF At, Target, Entry
  <2>6. \E g \in Job : At(g, e.path)' /\ pc'[g] = "data" /\ held'[g] = tree'[e.path].ino
    BY <2>4, <2>5
  <2> QED
    BY <2>1, <2>4, <2>6 DEF Settled
<1>9. \A y \in Path : tree'[y] = tree[y] \/ tree'[y].kind = "dir" \/ At(j, y)
  BY <1>3, <1>5
<1>10. \A y \in Path : tree[y].kind = "dir" => tree'[y].kind = "dir"
  BY <1>5
<1> QED
  BY <1>1, <1>3, <1>4, <1>5, <1>6, <1>7, <1>8, <1>9, <1>10, StepKept

(* What a job wrote is whole, or another one still has it to write.        *)
LEMMA WriteDataXInv == ASSUME AInv, XInv, NEW j \in Job, WriteData(j) PROVE XInv'
<1> DEFINE x == Target(j)
           Mine == tree[x].kind = "file" /\ tree[x].ino = held[j]
<1>1. /\ UNCHANGED <<arch, want, before, list, packer, held, log, back>>
      /\ pc[j] = "data" /\ Continue(j)
      /\ tree' = IF Mine THEN [tree EXCEPT ![x].data =
                                 IF tree[x].data \in {"", Entry(j).data} THEN Entry(j).data ELSE "mixed"]
                 ELSE tree
  BY DEF WriteData, packing, inputs
<1>2. Extracting(j)
  BY <1>1 DEF Extracting
<1>3. /\ DOMAIN pc = Job /\ DOMAIN pos = Job /\ DOMAIN back = Job /\ DOMAIN held = Job
      /\ pos[j] \in Nat /\ IsTree(tree, TreeKinds) /\ Grounds /\ TreeTypes
      /\ x \in Path /\ At(j, x) /\ Entry(j).kind = "file"
  BY <1>1, <1>2, ExtractingFrame
<1>4. /\ \A h \in Job \ {j} : pc'[h] = pc[h] /\ pos'[h] = pos[h]
      /\ DOMAIN pc' = Job /\ DOMAIN pos' = Job
      /\ pc'[j] = "next" /\ pos'[j] = pos[j] + 1
  BY <1>1, <1>3 DEF Continue, Goto
<1>5. /\ IsTree(tree', TreeKinds)
      /\ \A y \in Path : y # x => tree'[y] = tree[y]
      /\ ~Mine => tree'[x] = tree[x]
      /\ Mine => /\ tree'[x].kind = "file"
                 /\ tree[x].data \in {"", Entry(j).data} => tree'[x].data = Entry(j).data
  <2>1. CASE ~Mine
    BY <1>1, <1>3, <2>1
  <2>2. CASE Mine
    <3>1. PICK v : v = IF tree[x].data \in {"", Entry(j).data} THEN Entry(j).data ELSE "mixed"
      OBVIOUS
    <3>2. PICK n : n = FileNode(v, tree[x].ino)
      OBVIOUS
    <3>3. tree' = [tree EXCEPT ![x] = n]
      <4>1. tree[x] = [kind |-> tree[x].kind, data |-> tree[x].data, ino |-> tree[x].ino]
        BY <1>3 DEF IsTree, IsNode
      <4>2. [tree[x] EXCEPT !.data = v] = n
        BY <2>2, <3>2, <4>1 DEF FileNode
      <4>3. tree' = [tree EXCEPT ![x] = [tree[x] EXCEPT !.data = v]]
        BY <1>1, <2>2, <3>1
      <4> QED
        BY <4>2, <4>3
    <3>4. IsNode(n) /\ n.kind = "file" /\ n.data = v
      BY <3>2, Nodes
    <3>5. n.kind \in TreeKinds /\ IsTree(tree, TreeKinds) /\ x \in Path
      BY <1>3, <3>4 DEF TreeKinds
    <3>6. IsTree(tree', TreeKinds) /\ \A y \in Path : tree'[y] = IF y = x THEN n ELSE tree[y]
      BY <3>3, <3>4, <3>5, PutNode
    <3> QED
      BY <2>2, <3>1, <3>4, <3>5, <3>6
  <2> QED
    BY <2>1, <2>2
<1>6. \A y \in Path : tree'[y].kind = tree[y].kind
  BY <1>3, <1>5
<1>7. Grounds'
  BY <1>1, <1>6, GroundsKept
<1>8. AtEntry(j)'
  BY <1>1, <1>2, <1>4, OnWithIt
<1>9. ASSUME NEW e \in Entries, ~Contested(e), At(j, e.path), e = Entry(j),
             Started(e.path) => Settled(e)
      PROVE  Settled(e)'
  <2>1. e.path = x /\ e.kind = "file"
    BY <1>3, <1>9, Uncontested DEF At
  <2>2. Started(e.path)
    BY <1>1, <1>9 DEF Started, At, Handled, Target, Entry
  <2>3. CASE Mine
    <3>1. tree[x].data \in {"", e.data}
      BY <1>9, <2>1, <2>2, <2>3 DEF Settled
    <3>2. tree'[x].kind = "file" /\ tree'[x].data = e.data
      BY <1>5, <1>9, <2>3, <3>1
    <3> QED
      BY <2>1, <3>2 DEF Settled
  <2>4. CASE ~Mine
    <3>1. tree'[e.path] = tree[e.path]
      BY <1>5, <2>1, <2>4
    <3>2. CASE tree[e.path].kind = "file" /\ tree[e.path].data = e.data
      BY <2>1, <3>1, <3>2 DEF Settled
    <3>3. CASE tree[e.path].kind = "none"
      <4>1. PICK g \in Job : At(g, e.path) /\ pc[g] = "put"
        BY <1>9, <2>1, <2>2, <3>3 DEF Settled
      <4>2. g # j
        BY <1>1, <4>1
      <4>3. At(g, e.path)' /\ pc'[g] = "put"
        BY <1>1, <1>4, <4>1, <4>2, AsksKept DEF At, Target, Entry
      <4> QED
        BY <2>1, <3>1, <3>3, <4>3, AboutToPut
    <3>4. ASSUME NEW g \in Job, At(g, e.path), pc[g] = "data", held[g] = tree[e.path].ino,
                 tree[e.path].kind = "file", tree[e.path].data = ""
          PROVE  Settled(e)'
      <4>1. g # j
        BY <2>1, <2>4, <3>4
      <4>2. At(g, e.path)' /\ pc'[g] = "data" /\ held'[g] = tree'[e.path].ino
        BY <1>1, <1>4, <3>1, <3>4, <4>1, AsksKept DEF At, Target, Entry
      <4> QED
        BY <2>1, <3>1, <3>4, <4>2 DEF Settled
    <3> QED
      BY <1>9, <2>1, <2>2, <3>2, <3>3, <3>4 DEF Settled
  <2> QED
    BY <2>3, <2>4
<1>10. \A y \in Path : tree'[y] = tree[y] \/ tree'[y].kind = "dir" \/ At(j, y)
  BY <1>3, <1>5
<1>11. \A y \in Path : tree[y].kind = "dir" => tree'[y].kind = "dir"
  BY <1>6
<1> QED
  BY <1>1, <1>3, <1>4, <1>5, <1>7, <1>8, <1>9, <1>10, <1>11, StepKept

LEMMA InitXInv == Init => XInv
<1> SUFFICES ASSUME Init PROVE XInv
  OBVIOUS
<1>1. PICK s \in Scenarios :
        /\ list = s.list /\ arch = s.arch /\ tree = s.tree
        /\ packer = IF s.list = <<>> THEN "closed" ELSE "open"
        /\ pc = [j \in Job |-> IF j = First /\ s.list # <<>> THEN "wait"
                               ELSE IF s.arch[j] = <<>> THEN "done" ELSE "next"]
        /\ before = [dir |-> {x \in Path : isdir(s.tree, x)},
                     other |-> {x \in Path : s.tree[x].kind \in {"file", "link"}}]
  BY DEF Init
<1>2. /\ pos = [j \in Job |-> 1] /\ held = [j \in Job |-> <<>>] /\ log = -1
  BY DEF Init
<1>3. TreeTypes
  BY <1>1, <1>2, ArchiveAssumption DEF TreeTypes, TreeKinds
<1>4. Grounds
  <2>1. \A x \in Path : tree[x].kind \in TreeKinds
    BY <1>3 DEF TreeTypes, IsTree
  <2>2. \A x \in Path : /\ x \notin before.other => tree[x].kind \notin {"file", "link"}
                        /\ x \notin before.dir => tree[x].kind # "dir"
    BY <1>1 DEF isdir
  <2> QED
    BY <2>1, <2>2 DEF Grounds, OnlyDirs, NeverDir, TreeKinds
<1>5. ASSUME NEW j \in Job PROVE AtEntry(j)
  <2>1. pc[j] \in {"wait", "done", "next"} /\ pos[j] = 1 /\ (pc[j] = "done" => arch[j] = <<>>)
    BY <1>1, <1>2
  <2>2. arch[j] = <<>> => pos[j] > Len(arch[j])
    BY <2>1
  <2> QED
    BY <2>1, <2>2 DEF AtEntry, Extracting
<1>6. EachSettled
  <2>1. ASSUME NEW x, Started(x) PROVE FALSE
    <3>1. \A j \in Job : pos[j] = 1 /\ ~Handled(j) /\ \A i \in Ask(j) : i \in Nat /\ i >= 1
      BY <1>1, <1>2 DEF Handled, Ask
    <3> QED
      BY <2>1, <3>1 DEF Started
  <2> QED
    BY <2>1 DEF EachSettled
<1> QED
  BY <1>3, <1>4, <1>5, <1>6 DEF XInv

LEMMA StutterXInv ==
  ASSUME XInv, UNCHANGED <<list, inputs, jobs, tree>>, log' = -1 => log = -1,
         packer' = packer \/ (packer' # "closed" /\ packer # "closed")
  PROVE  XInv'
<1>1. UNCHANGED <<arch, want, before, pos, pc, held, back>>
  BY DEF inputs, jobs
<1>2. TreeTypes' /\ \A j \in Job : Ask(j)' = Ask(j)
  BY <1>1, AsksKept DEF XInv, TreeTypes
<1>3. Entries' = Entries /\ \A e : Contested(e)' <=> Contested(e)
  BY <1>1, AsksKept
<1>4. \A x : (OnlyDirs(x)' <=> OnlyDirs(x)) /\ (NeverDir(x)' <=> NeverDir(x))
  BY <1>1, AsksKept
<1>5. Grounds'
  BY <1>4 DEF XInv, Grounds
<1>6. ASSUME NEW j \in Job PROVE AtEntry(j)'
  <2>1. Target(j)' = Target(j) /\ Entry(j)' = Entry(j) /\ AtEntry(j)
    BY <1>1 DEF Target, Entry, XInv
  <2> QED
    BY <1>1, <1>2, <1>4, <2>1 DEF AtEntry, Extracting, OnlyDirs
<1>7. ASSUME NEW e \in Entries, ~Contested(e), Started(e.path)' PROVE Settled(e)'
  <2>1. Started(e.path)
    BY <1>1, <1>2, <1>7 DEF Started, Handled
  <2>2. Settled(e) /\ e.kind \in {"dir", "file", "link"}
    BY <1>7, <2>1, Uncontested DEF XInv, EachSettled
  <2>3. e.kind = "dir" => tree'[e.path].kind = "dir"
    BY <2>2 DEF Settled
  <2> QED
    BY <1>1, <2>2, <2>3, SettledKept
<1>8. EachSettled'
  BY <1>3, <1>7 DEF EachSettled
<1> QED
  BY <1>2, <1>5, <1>6, <1>8 DEF XInv

(* The archive just packed adds entries that no job has come to.           *)
LEMMA PackCloseXInv == ASSUME AInv, PInv, XInv, PackClose PROVE XInv'
<1>1. /\ UNCHANGED <<list, want, before, pos, held, back, tree, log>>
      /\ packer # "closed" /\ packer' = "closed"
      /\ arch' = [arch EXCEPT ![First] = IF sink THEN out ELSE <<>>]
      /\ pc' = [pc EXCEPT ![First] = IF sink THEN "next" ELSE "check"]
  BY DEF PackClose
<1>2. /\ First \in Job /\ pc[First] = "wait" /\ list # <<>> /\ pos[First] = 1 /\ arch[First] = <<>>
      /\ DOMAIN pc = Job /\ DOMAIN arch = Job /\ TreeTypes /\ Grounds
  BY <1>1, ArchiveAssumption DEF AInv, Waiting, Functions, XInv, AtEntry, TreeTypes
<1>3. /\ \A h \in Job \ {First} : pc'[h] = pc[h] /\ arch'[h] = arch[h]
      /\ pc'[First] \in {"next", "check"}
      /\ arch'[First] \in {out, <<>>}
  BY <1>1, <1>2
<1>4. TreeTypes'
  <2>1. IsArchive(out)
    <3>1. out \in Seq(Packable) /\ Len(out) \in Nat /\ \A i \in 1 .. Len(out) : out[i] \in Packable
      BY PackBounds
    <3>2. \A i \in 1 .. Len(out) : out[i].kind = "dir" => out[i].data = ""
      BY DEF PInv, PackTypes
    <3> QED
      BY <3>1, <3>2 DEF IsArchive, Packable, EntryOf
  <2>2. IsArchive(<<>>)
    BY <1>2 DEF TreeTypes
  <2>3. \A h \in Job : IsArchive(arch'[h])
    <3>1. IsArchive(arch'[First])
      BY <1>3, <2>1, <2>2
    <3>2. \A h \in Job \ {First} : IsArchive(arch'[h])
      BY <1>2, <1>3 DEF TreeTypes
    <3> QED
      BY <3>1, <3>2
  <2> QED
    BY <1>1, <1>2, <2>3 DEF TreeTypes, IsArchive
<1>5. /\ \A h \in Job \ {First} : Ask(h)' = Ask(h)
      /\ Ask(First) = {}
      /\ Entries \subseteq Entries'
  <2>1. \A h \in Job \ {First} : Ask(h)' = Ask(h)
    BY <1>1, <1>3 DEF Ask
  <2>2. Ask(First) = {}
    BY <1>2 DEF Ask
  <2>3. ASSUME NEW e \in Entries PROVE e \in Entries'
    <3>1. PICK h \in Job : \E i \in Ask(h) : e = arch[h][i]
      BY <2>3 DEF Entries
    <3>2. h # First
      BY <2>2, <3>1
    <3>3. \E i \in Ask(h)' : e = arch'[h][i]
      BY <1>3, <2>1, <3>1, <3>2
    <3> QED
      BY <3>3 DEF Entries
  <2> QED
    BY <2>1, <2>2, <2>3
<1>6. /\ \A e : Contested(e) => Contested(e)'
      /\ \A x : (OnlyDirs(x)' => OnlyDirs(x)) /\ (NeverDir(x)' => NeverDir(x))
  BY <1>1, <1>5 DEF Contested, OnlyDirs, NeverDir
<1>7. Grounds'
  BY <1>1, <1>2, <1>6 DEF Grounds
<1>8. ASSUME NEW h \in Job PROVE AtEntry(h)'
  <2>1. CASE h = First
    BY <1>3, <2>1 DEF AtEntry, Extracting
  <2>2. CASE h # First
    <3>1. Target(h)' = Target(h) /\ Entry(h)' = Entry(h) /\ AtEntry(h)
      BY <1>1, <1>3, <2>2 DEF Target, Entry, XInv
    <3>2. OnlyDirs(Dir[Target(h)])' => OnlyDirs(Dir[Target(h)])
      BY <1>6, <3>1
    <3> QED
      BY <1>1, <1>3, <1>5, <2>2, <3>1, <3>2 DEF AtEntry, Extracting
  <2> QED
    BY <2>1, <2>2
<1>9. ASSUME NEW e \in Entries', ~Contested(e)', Started(e.path)' PROVE Settled(e)'
  <2>1. PICK h \in Job : \E i \in Ask(h)' :
          arch'[h][i].path = e.path /\ (i < pos'[h] \/ (i = pos'[h] /\ Handled(h)'))
    BY <1>9 DEF Started
  <2>2. h # First
    <3>1. \A i \in Ask(First)' : i \in 1 .. Len(arch'[First]) /\ Len(arch'[First]) \in Nat
      BY <1>2, <1>4 DEF Ask, TreeTypes, IsArchive
    <3>2. CASE pc'[First] = "check"
      <4>1. arch'[First] = <<>>
        BY <1>1, <1>2, <3>2
      <4>2. Ask(First)' = {}
        BY <4>1 DEF Ask
      <4> QED
        BY <2>1, <4>2
    <3>3. CASE pc'[First] = "next"
      <4>1. \A i \in Ask(First)' : ~(i < pos'[First] \/ (i = pos'[First] /\ Handled(First)'))
        BY <1>1, <1>2, <3>1, <3>3 DEF Handled
      <4> QED
        BY <2>1, <4>1
    <3> QED
      BY <1>3, <3>2, <3>3
  <2>3. PICK i \in Ask(h) : /\ arch[h][i].path = e.path
                            /\ i < pos[h] \/ (i = pos[h] /\ Handled(h))
    BY <1>1, <1>3, <1>5, <2>1, <2>2 DEF Handled
  <2>4. arch[h][i] \in Entries
    BY <1>2, <2>3, EntriesAre
  <2>5. e = arch[h][i]
    BY <1>4, <1>5, <1>9, <2>3, <2>4 DEF Contested
  <2>6. e \in Entries /\ ~Contested(e) /\ Started(e.path)
    BY <1>6, <1>9, <2>3, <2>4, <2>5 DEF Started
  <2>7. Settled(e) /\ e.kind \in {"dir", "file", "link"}
    BY <1>2, <2>6, Uncontested DEF XInv, EachSettled
  <2>8. ASSUME NEW g \in Job, At(g, e.path), pc[g] \in {"put", "symlink", "data"}
        PROVE  At(g, e.path)' /\ pc'[g] = pc[g]
    <3>1. g # First
      BY <1>2, <2>8
    <3> QED
      BY <1>1, <1>3, <1>5, <2>8, <3>1 DEF At, Target, Entry
  <2>9. e.kind = "dir" => tree'[e.path].kind = "dir"
    BY <1>1, <2>7 DEF Settled
  <2> QED
    BY <1>1, <2>7, <2>8, <2>9, SettledStays
<1>10. EachSettled'
  BY <1>9 DEF EachSettled
<1> QED
  BY <1>4, <1>7, <1>8, <1>10 DEF XInv

LEMMA NextXInv == AInv /\ PInv /\ XInv /\ [Next]_vars => XInv'
<1> SUFFICES ASSUME AInv, PInv, XInv, [Next]_vars PROVE XInv'
  OBVIOUS
<1>1. ASSUME UNCHANGED <<list, inputs, jobs, tree>>, log' = -1 => log = -1,
             packer' = packer \/ (packer' # "closed" /\ packer # "closed")
      PROVE  XInv'
  BY <1>1, StutterXInv
<1>2. CASE Pack
  <2>1. CASE PackClose
    BY <2>1, PackCloseXInv
  <2>2. CASE PackOpen \/ PackExists \/ PackMissing \/ PackStat \/ PackLink \/ PackHeader
             \/ PackData
    <3>1. UNCHANGED <<list, inputs, jobs, tree>> /\ (log' = -1 => log = -1)
      <4>1. CASE PackOpen \/ PackExists \/ PackData
        BY <4>1 DEF PackOpen, PackExists, PackData
      <4>2. CASE PackStat \/ PackLink \/ PackHeader
        <5>1. UNCHANGED <<list, inputs, jobs, tree>> /\ (log' = log \/ log' = 0 \/ log' = Told)
          BY <4>2 DEF PackStat, PackLink, PackHeader
        <5>2. log \in Int /\ log >= -1
          BY DEF AInv, LogKind
        <5> QED
          BY <5>1, <5>2 DEF Told
      <4>3. CASE PackMissing
        BY <4>3 DEF PackMissing, vars, packing
      <4> QED
        BY <2>2, <4>1, <4>2, <4>3
    <3>2. packer' = packer \/ (packer' # "closed" /\ packer # "closed")
      BY <2>2 DEF PackOpen, PackExists, PackMissing, PackStat, PackLink, PackHeader, PackData, vars,
                  packing
    <3> QED
      BY <1>1, <3>1, <3>2
  <2> QED
    BY <1>2, <2>1, <2>2 DEF Pack
<1>3. ASSUME NEW x \in Path, Vanish(x) PROVE XInv'
  <2>1. UNCHANGED <<list, inputs, jobs, tree>> /\ log' = log /\ packer' = packer
    BY <1>3 DEF Vanish
  <2>2. (log' = -1 => log = -1) /\ (packer' = packer \/ (packer' # "closed" /\ packer # "closed"))
    BY <2>1
  <2>3. UNCHANGED <<list, inputs, jobs, tree>>
    BY <2>1
  <2> QED
    BY <2>2, <2>3, StutterXInv
<1>4. ASSUME NEW j \in Job, Extract(j) PROVE XInv'
  BY <1>4, NotingXInv, NextHeaderXInv, MakeDirXInv, MakeParentXInv, TestsXInv, UnlinkXInv, SymlinkXInv,
     PutFileXInv, WriteDataXInv DEF Extract
<1>5. CASE UNCHANGED vars
  <2>1. UNCHANGED <<list, inputs, jobs, tree>> /\ log' = log /\ packer' = packer
    BY <1>5 DEF vars, packing
  <2>2. (log' = -1 => log = -1) /\ (packer' = packer \/ (packer' # "closed" /\ packer # "closed"))
    BY <2>1
  <2>3. UNCHANGED <<list, inputs, jobs, tree>>
    BY <2>1
  <2> QED
    BY <2>2, <2>3, StutterXInv
<1> QED
  BY <1>2, <1>3, <1>4, <1>5 DEF Next

(* A nonempty set of naturals has a least element.                         *)
LEMMA LeastOf ==
  ASSUME NEW T \in SUBSET Nat, T # {} PROVE \E n \in T : \A m \in T : n <= m
<1> DEFINE R == OpToRel(<, Nat)
<1>1. IsWellFoundedOn(R, Nat)
  BY NatLessThanWellFounded
<1>2. \A m, n \in Nat : m < n => <<m, n>> \in R
  BY DEF OpToRel
<1> HIDE DEF R
<1>3. \E n \in T : \A m \in T : ~ (<<m, n>> \in R)
  BY <1>1, WFMin
<1>4. PICK n \in T : \A m \in T : ~ (<<m, n>> \in R)
  BY <1>3
<1>5. \A m \in T : m \in Nat /\ n \in Nat /\ ~ (m < n)
  BY <1>2, <1>4
<1> QED
  BY <1>5

(* archive_readfile gives an uncontested entry's data.                     *)
LEMMA ReadUncontested ==
  ASSUME TreeTypes, NEW j \in Job, NEW i \in Ask(j), ~Contested(arch[j][i])
  PROVE  archive_readfile(arch[j], arch[j][i].path) = arch[j][i].data
<1> DEFINE e == arch[j][i]
           Here == {n \in 1 .. Len(arch[j]) : arch[j][n].path = e.path}
           First1(n) == arch[j][n].path = e.path /\ \A h \in 1 .. n - 1 : arch[j][h].path # e.path
<1>1. Len(arch[j]) \in Nat /\ i \in 1 .. Len(arch[j])
  BY DEF TreeTypes, IsArchive, Ask
<1>2. PICK n \in Here : \A m \in Here : n <= m
  <2>1. Here \in SUBSET Nat /\ i \in Here
    BY <1>1
  <2> HIDE DEF Here
  <2> QED
    BY <2>1, LeastOf
<1>3. n \in 1 .. Len(arch[j]) /\ First1(n)
  BY <1>1, <1>2
<1>4. PICK c : c = CHOOSE m \in 1 .. Len(arch[j]) : First1(m)
  OBVIOUS
<1>5. c \in 1 .. Len(arch[j]) /\ arch[j][c].path = e.path
  BY <1>3, <1>4
<1>6. c \in Ask(j)
  BY <1>5 DEF Ask
<1>7. arch[j][c] \in Entries /\ e \in Entries
  BY <1>6, EntriesAre
<1>8. arch[j][c] = e
  BY <1>5, <1>7, Uncontested
<1> QED
  BY <1>4, <1>8 DEF archive_readfile

(* Every uncontested entry an archive asks for ends up in the tree with    *)
(* its kind and content when nothing was reported: for all trees, archives *)
(* and numbers of jobs extracting side by side, however their tests of the *)
(* tree and their writes to it interleave (archive-extract.c).             *)
THEOREM ExtractedAsPacked == Spec => []ExtractedIsWhole
<1>1. AInv /\ XInv => ExtractedIsWhole
  <2> SUFFICES ASSUME AInv, XInv, Finished, NEW j \in Job, NEW i \in Ask(j),
                      ~Contested(arch[j][i])
               PROVE  LET e == arch[j][i] IN
                      /\ tree[e.path].kind = e.kind
                      /\ tree[e.path].data = archive_readfile(arch[j], e.path)
    BY DEF ExtractedIsWhole
  <2> DEFINE e == arch[j][i]
  <2>1. TreeTypes /\ pc[j] = "done" /\ AtEntry(j) /\ \A g \in Job : pc[g] = "done"
    BY DEF XInv, Finished
  <2>2. e \in Entries
    BY <2>1, EntriesAre
  <2>3. Started(e.path)
    <3>1. pos[j] > Len(arch[j])
      BY <2>1 DEF AtEntry
    <3>2. i \in 1 .. Len(arch[j]) /\ Len(arch[j]) \in Nat /\ pos[j] \in Nat
      BY <2>1, Frame DEF Ask
    <3>3. i < pos[j]
      BY <3>1, <3>2
    <3> QED
      BY <3>3 DEF Started
  <2>4. Settled(e) /\ e.path \in Path /\ e.kind \in {"dir", "file", "link"}
        /\ (e.kind = "dir" => e.data = "")
    BY <2>1, <2>2, <2>3, Uncontested DEF XInv, EachSettled
  <2>5. tree[e.path].kind = e.kind /\ tree[e.path].data = e.data
    <3>1. CASE e.kind = "dir"
      BY <2>1, <2>4, <3>1 DEF Settled, TreeTypes, IsTree, IsNode
    <3>2. CASE e.kind = "link"
      BY <2>1, <2>4, <3>2 DEF Settled
    <3>3. CASE e.kind = "file"
      BY <2>1, <2>4, <3>3 DEF Settled
    <3> QED
      BY <2>4, <3>1, <3>2, <3>3
  <2>6. archive_readfile(arch[j], e.path) = e.data
    BY <2>1, ReadUncontested
  <2> QED
    BY <2>5, <2>6
<1> QED
  BY <1>1, InitAInv, NextAInv, InitPInv, NextPInv, InitXInv, NextXInv, PTL DEF Spec
=============================================================================
