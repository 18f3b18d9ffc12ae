---------------------------- MODULE UpdateProofs ----------------------------
(***************************************************************************)
(* Theorems of Update for any number of processes, sources and names, any  *)
(* order of lines and any bounds.                                          *)
(*                                                                         *)
(* NeverMixed and ZeroMeansCurrent are not inductive: they hold because a  *)
(* process that works on the directory has the lock and keeps it for as    *)
(* long as it may still write out a stream; and because, as long as no     *)
(* error is noted, all that lies there but the index at hand is sound.     *)
(***************************************************************************)
EXTENDS Update, TLAPS

Fetching == {"fetch", "read", "write", "verify"}
Working == Fetching \cup {"remove"}

Locked == \A p \in Proc : pc[p] \in Working => holder = p /\ ended = "running"
Streams == \A p \in Proc : \A n \in open[p] : holder = p /\ n \in Present
Emptying == \A p \in Proc : pc[p] = "remove" => Present \subseteq todo[p]
InRange == \A p \in Proc : pc[p] \in Fetching \ {"fetch"} => at[p] \in 1 .. Len(Lines)
Fresh == \A p \in Proc : pc[p] \in Fetching => \A n \in Present : file[n].epoch = epoch

(* What is known of a process that fetches and has noted no error.         *)
Unreported(p) == pc[p] \in Fetching /\ ~ err[p]
NothingOpen == \A p \in Proc : Unreported(p) => open[p] = {}
OthersSound ==
  \A p \in Proc : Unreported(p) =>
    \A n \in Present : Sound(n) \/ (pc[p] # "fetch" /\ n = Here(p))
AtHand ==
  \A p \in Proc : Unreported(p) =>
    /\ pc[p] = "read" /\ Here(p) \in Present => file[Here(p)].data \in {"whole", "page"}
    /\ pc[p] = "write" => mem[p] = "whole"
    /\ pc[p] = "verify" /\ Here(p) \in Present => file[Here(p)].data = "whole+address"
NoneMissing ==
  \A p \in Proc : Unreported(p) /\ ~ cleaned =>
    \A i \in 1 .. Len(Lines) : i < at[p] => FileOf[Lines[i]] \in Present

(* After an update that ended with 0 no stream is open.                    *)
Quiet == ended = "done" => \A p \in Proc : open[p] = {}

IInv ==
  /\ TypeOK /\ Locked /\ Streams /\ Emptying /\ InRange /\ Fresh
  /\ NothingOpen /\ OthersSound /\ AtHand /\ NoneMissing /\ Quiet
  /\ NeverMixed /\ ZeroMeansCurrent

----------------------------------------------------------------------------
(* The initial states.                                                     *)
LEMMA InitIInv == Init => IInv
<1> SUFFICES ASSUME Init PROVE IInv
  OBVIOUS
<1>1. \A n \in Present : file[n] = [data |-> "whole+address", epoch |-> 0, gpg |-> "accepted"]
  BY DEF Init, Present
<1>2. TypeOK
  <2>1. [data |-> "whole+address", epoch |-> 0, gpg |-> "accepted"] \in File
    BY DEF File, Content
  <2>2. file \in [Name -> File \cup {None}]
    BY <2>1 DEF Init
  <2>3. /\ pc \in [Proc -> PC] /\ mem \in [Proc -> Content] /\ ended = "never"
        /\ at \in [Proc -> Nat \ {0}] /\ todo \in [Proc -> SUBSET Name]
        /\ err \in [Proc -> BOOLEAN] /\ open \in [Proc -> SUBSET Name]
    BY DEF Init, Content, PC
  <2>4. /\ lenient \in [Proc -> BOOLEAN] /\ nogpg \in [Proc -> BOOLEAN]
        /\ dir \in BOOLEAN /\ cleaned \in BOOLEAN
    BY DEF Init
  <2> QED
    BY <2>2, <2>3, <2>4 DEF Init, TypeOK
<1>3. NeverMixed
  BY <1>1 DEF NeverMixed
<1> QED
  BY <1>2, <1>3
     DEF Init, IInv, Locked, Streams, Emptying, InRange, Fresh, NothingOpen, OthersSound, AtHand,
         NoneMissing, Quiet, ZeroMeansCurrent, Unreported, Fetching, Working

(* While a process works, no other one works or has a stream open.         *)
LEMMA Alone ==
  ASSUME IInv, NEW p \in Proc, pc[p] \in Working, NEW q \in Proc, q # p
  PROVE  pc[q] \notin Working /\ open[q] = {} /\ pc[q] \notin Fetching /\ pc[q] # "remove"
  BY DEF IInv, Locked, Streams, Working

(* The line at hand names a file.                                          *)
LEMMA HereIsName ==
  ASSUME NEW p \in Proc, at[p] \in 1 .. Len(Lines)
  PROVE  Here(p) \in Name
  BY UpdateAssumption DEF Here

----------------------------------------------------------------------------
(* A step that leaves the files and the streams alone and takes a process  *)
(* from outside the update to another place outside it.                    *)
LEMMA UnseenStep ==
  ASSUME IInv, TypeOK', NEW p \in Proc, pc'[p] \notin Working,
         \A q \in Proc \ {p} : pc'[q] = pc[q],
         UNCHANGED <<file, open, at, mem, err, holder, epoch, ended, cleaned>>,
         \A q \in Proc : pc[q] = "remove" => todo'[q] = todo[q]
  PROVE  IInv'
<1>1. Present' = Present
  BY DEF Present
<1>2. \A q \in Proc : /\ pc'[q] \in Working => q # p /\ pc'[q] = pc[q]
                      /\ pc'[q] \in Fetching => pc'[q] \in Working
  BY DEF Working, Fetching
<1>3. Locked'
  BY <1>2 DEF IInv, Locked
<1>4. Streams' /\ Quiet'
  BY <1>1 DEF IInv, Streams, Quiet
<1>5. Emptying'
  BY <1>1, <1>2 DEF IInv, Emptying, Working
<1>6. InRange'
  BY <1>2 DEF IInv, InRange
<1>7. Fresh'
  BY <1>1, <1>2 DEF IInv, Fresh
<1>8. \A q \in Proc : Unreported(q)' => Unreported(q) /\ pc'[q] = pc[q]
  BY <1>2 DEF Unreported
<1>9. \A q \in Proc : Here(q)' = Here(q)
  BY DEF Here
<1>10. NothingOpen' /\ NoneMissing'
  BY <1>1, <1>8 DEF IInv, NothingOpen, NoneMissing
<1>11. \A n : Sound(n)' <=> Sound(n)
  BY DEF Sound
<1>12. OthersSound'
  BY <1>1, <1>8, <1>9, <1>11 DEF IInv, OthersSound
<1>13. AtHand'
  BY <1>1, <1>8, <1>9 DEF IInv, AtHand
<1>14. NeverMixed' /\ ZeroMeansCurrent'
  BY <1>1, <1>11 DEF IInv, NeverMixed, ZeroMeansCurrent
<1> QED
  BY <1>3, <1>4, <1>5, <1>6, <1>7, <1>10, <1>12, <1>13, <1>14 DEF IInv

(* The lock is taken, or refused.                                          *)
LEMMA InstanceIInv == ASSUME IInv, NEW p \in Proc, single_instance(p) PROVE IInv'
<1>1. /\ TypeOK /\ pc[p] = "idle"
      /\ file' = file /\ open' = open /\ at' = at /\ mem' = mem /\ err' = err
      /\ dir' = dir /\ faults' = faults /\ lenient' = lenient /\ nogpg' = nogpg
      /\ Present' = Present
  BY DEF single_instance, IInv, disk, flags, Present
<1>2. CASE Admitted(p)
  <2>1. /\ holder' = p /\ epoch' = epoch + 1 /\ ended' = "running" /\ cleaned' = FALSE
        /\ todo' = [todo EXCEPT ![p] = Present] /\ pc' = [pc EXCEPT ![p] = "remove"]
    BY <1>2 DEF single_instance
  <2>2. /\ todo' \in [Proc -> SUBSET Name] /\ pc' \in [Proc -> PC]
        /\ holder' \in Proc \cup {None} /\ epoch' \in Nat
    BY <1>1, <2>1 DEF TypeOK, PC, Present
  <2>3. TypeOK'
    BY <1>1, <2>1, <2>2 DEF TypeOK
  <2>4. /\ pc'[p] = "remove" /\ todo'[p] = Present
        /\ \A q \in Proc \ {p} : pc'[q] = pc[q]
    BY <1>1, <2>1 DEF TypeOK
  <2>5. \A q \in Proc \ {p} : pc[q] \notin Working /\ open[q] = {}
    <3> SUFFICES ASSUME NEW q \in Proc \ {p} PROVE pc[q] \notin Working /\ open[q] = {}
      OBVIOUS
    <3>1. holder # q
      BY <1>2, UpdateAssumption DEF Admitted
    <3> QED
      BY <3>1 DEF IInv, Locked, Streams
  <2>6. \A q \in Proc : pc'[q] \notin Fetching
    BY <2>4, <2>5 DEF Working, Fetching
  <2>7. Locked' /\ InRange'
    BY <2>1, <2>4, <2>5 DEF Locked, InRange, Working, Fetching
  <2>8. Streams' /\ Emptying'
    BY <1>1, <2>1, <2>4, <2>5 DEF IInv, Streams, Emptying, Working
  <2>9. Fresh' /\ NothingOpen' /\ OthersSound' /\ AtHand' /\ NoneMissing'
    BY <2>6 DEF Fresh, NothingOpen, OthersSound, AtHand, NoneMissing, Unreported
  <2>10. Quiet' /\ NeverMixed' /\ ZeroMeansCurrent'
    BY <1>1, <2>1 DEF IInv, Quiet, NeverMixed, ZeroMeansCurrent
  <2> QED
    BY <2>3, <2>7, <2>8, <2>9, <2>10 DEF IInv
<1>3. CASE ~ Admitted(p)
  <2>1. /\ pc' = [pc EXCEPT ![p] = "leaving"]
        /\ UNCHANGED <<holder, epoch, ended, cleaned, todo>>
    BY <1>3 DEF single_instance
  <2>2. TypeOK'
    BY <1>1, <2>1 DEF TypeOK, PC
  <2>3. /\ pc'[p] = "leaving" /\ \A q \in Proc \ {p} : pc'[q] = pc[q]
    BY <1>1, <2>1 DEF TypeOK
  <2>4. pc'[p] \notin Working
    BY <2>3 DEF Working, Fetching
  <2>5. UNCHANGED <<file, open, at, mem, err, holder, epoch, ended, cleaned>>
    BY <1>1, <2>1
  <2>6. \A q \in Proc : pc[q] = "remove" => todo'[q] = todo[q]
    BY <2>1
  <2> QED
    BY <2>2, <2>3, <2>4, <2>5, <2>6, UnseenStep
<1> QED
  BY <1>2, <1>3

----------------------------------------------------------------------------
(* A step of the process that works on the directory, after which it still *)
(* does: what the other processes may claim is empty, so the invariant is  *)
(* what it says of this one.                                               *)
LEMMA OwnStep ==
  ASSUME IInv, TypeOK', NEW p \in Proc, pc[p] \in Working, pc'[p] \in Working,
         UNCHANGED <<holder, ended>>,
         \A q \in Proc \ {p} : pc'[q] = pc[q] /\ open'[q] \subseteq open[q],
         open'[p] \subseteq Present',
         pc'[p] = "remove" => Present' \subseteq todo'[p] /\ NeverMixed',
         pc'[p] \in Fetching \ {"fetch"} => at'[p] \in 1 .. Len(Lines),
         pc'[p] \in Fetching => \A n \in Present' : file'[n].epoch = epoch',
         Unreported(p)' =>
           /\ open'[p] = {}
           /\ \A n \in Present' : Sound(n)' \/ (pc'[p] # "fetch" /\ n = Here(p)')
           /\ pc'[p] = "read" /\ Here(p)' \in Present' => file'[Here(p)'].data \in {"whole", "page"}
           /\ pc'[p] = "write" => mem'[p] = "whole"
           /\ pc'[p] = "verify" /\ Here(p)' \in Present' => file'[Here(p)'].data = "whole+address"
           /\ ~ cleaned' => \A i \in 1 .. Len(Lines) : i < at'[p] => FileOf[Lines[i]] \in Present'
  PROVE  IInv'
<1>1. holder = p /\ ended = "running" /\ ended' = "running"
  BY DEF IInv, Locked
<1>2. \A q \in Proc \ {p} :
        pc'[q] \notin Working /\ open'[q] = {} /\ pc'[q] \notin Fetching /\ pc'[q] # "remove"
  BY Alone
<1>3. Locked' /\ Streams'
  BY <1>1, <1>2 DEF Locked, Streams
<1>4. Emptying' /\ InRange' /\ Fresh'
  BY <1>2 DEF Emptying, InRange, Fresh
<1>5. \A q \in Proc : Unreported(q)' => q = p
  BY <1>2 DEF Unreported
<1>6. NothingOpen' /\ NoneMissing'
  BY <1>5 DEF NothingOpen, NoneMissing
<1>7. OthersSound'
  BY <1>5 DEF OthersSound
<1>8. AtHand'
  BY <1>5 DEF AtHand
<1>9. NeverMixed'
  BY <1>4 DEF NeverMixed, Fresh, Working
<1> QED
  BY <1>1, <1>3, <1>4, <1>6, <1>7, <1>8, <1>9 DEF IInv, Quiet, ZeroMeansCurrent

LEMMA LinesCount == Len(Lines) \in Nat
  BY UpdateAssumption

(* What a file that is removed leaves.                                     *)
LEMMA Removed ==
  ASSUME TypeOK, NEW n \in Name, Remove(n)
  PROVE  /\ file' \in [Name -> File \cup {None}] /\ open' \in [Proc -> SUBSET Name]
         /\ Present' = Present \ {n}
         /\ \A m \in Present' : m \in Present /\ file'[m] = file[m]
         /\ \A q \in Proc : open'[q] = open[q] \ {n}
<1>1. file' \in [Name -> File \cup {None}] /\ open' \in [Proc -> SUBSET Name]
  BY DEF Remove, TypeOK
<1>2. file'[n] = None /\ \A m \in Name \ {n} : file'[m] = file[m]
  BY DEF Remove, TypeOK
<1>3. Present' = Present \ {n} /\ \A m \in Present' : m \in Present /\ file'[m] = file[m]
  BY <1>2 DEF Present
<1> QED
  BY <1>1, <1>3 DEF Remove

(* What a file that is written leaves.                                     *)
LEMMA Written ==
  ASSUME TypeOK, NEW n \in Name, NEW f \in File, file' = [file EXCEPT ![n] = f]
  PROVE  /\ file' \in [Name -> File \cup {None}]
         /\ file'[n] = f
         /\ Present' = Present \cup {n}
         /\ \A m \in Present' : m # n => m \in Present /\ file'[m] = file[m]
<1>1. file' \in [Name -> File \cup {None}] /\ file'[n] = f
  BY DEF TypeOK
<1>2. \A m \in Name \ {n} : file'[m] = file[m]
  BY DEF TypeOK
<1>3. f # None
  BY NoneAssumption
<1> QED
  BY <1>1, <1>2, <1>3 DEF Present

(* remove_all, on behalf of an update or of a clean.                       *)
LEMMA RemoveIInv ==
  ASSUME IInv, NEW p \in Proc, NEW n \in Name, RemoveFile(p, n) PROVE IInv'
<1>1. /\ TypeOK /\ pc[p] \in {"remove", "clean"} /\ Remove(n)
      /\ todo' = [todo EXCEPT ![p] = @ \ {n}]
      /\ cleaned' = (cleaned \/ pc[p] = "clean")
  BY DEF RemoveFile, IInv
<1>2. UNCHANGED <<dir, holder, epoch, ended, faults, pc, at, mem, err, lenient, nogpg>>
  BY DEF RemoveFile, flags
<1>3. /\ file' \in [Name -> File \cup {None}] /\ open' \in [Proc -> SUBSET Name]
      /\ Present' = Present \ {n}
      /\ \A m \in Present' : m \in Present /\ file'[m] = file[m]
      /\ \A q \in Proc : open'[q] = open[q] \ {n}
  BY <1>1, Removed
<1>4. /\ todo' \in [Proc -> SUBSET Name] /\ cleaned' \in BOOLEAN
      /\ todo'[p] = todo[p] \ {n} /\ \A q \in Proc \ {p} : todo'[q] = todo[q]
  BY <1>1 DEF TypeOK
<1>5. TypeOK'
  BY <1>1, <1>2, <1>3, <1>4 DEF TypeOK
<1>6. NeverMixed'
  BY <1>2, <1>3 DEF IInv, NeverMixed
<1>7. \A q \in Proc : open'[q] \subseteq open[q] /\ open'[q] \subseteq Present'
  BY <1>3 DEF IInv, Streams
<1>8. CASE pc[p] = "remove"
  <2>1. pc[p] \in Working /\ pc'[p] \in Working /\ pc'[p] = "remove" /\ pc'[p] \notin Fetching
    BY <1>2, <1>8 DEF Working, Fetching
  <2>2. Present' \subseteq todo'[p]
    BY <1>3, <1>4, <1>8 DEF IInv, Emptying
  <2>3. ~ Unreported(p)'
    BY <2>1 DEF Unreported
  <2> QED
    BY <1>2, <1>5, <1>6, <1>7, <2>1, <2>2, <2>3, OwnStep
<1>9. CASE pc[p] = "clean"
  <2>1. cleaned' = TRUE
    BY <1>1, <1>9
  <2>2. Locked' /\ InRange' /\ Quiet' /\ NoneMissing'
    BY <1>2, <1>7, <2>1 DEF IInv, Locked, InRange, Quiet, NoneMissing
  <2>3. Streams'
    BY <1>2, <1>7 DEF IInv, Streams
  <2>4. Emptying'
    BY <1>2, <1>3, <1>4, <1>9 DEF IInv, Emptying
  <2>5. Fresh'
    BY <1>2, <1>3 DEF IInv, Fresh
  <2>6. \A q \in Proc : Unreported(q)' = Unreported(q) /\ Here(q)' = Here(q)
    BY <1>2 DEF Unreported, Here
  <2>7. NothingOpen'
    BY <1>7, <2>6 DEF IInv, NothingOpen
  <2>8. \A m \in Present' : Sound(m) => Sound(m)'
    BY <1>2, <1>3 DEF Sound
  <2>9. OthersSound'
    BY <1>2, <1>3, <2>6, <2>8 DEF IInv, OthersSound
  <2>10. AtHand'
    BY <1>2, <1>3, <2>6 DEF IInv, AtHand
  <2>11. ZeroMeansCurrent'
    BY <1>2, <1>3, <2>1, <2>8 DEF IInv, ZeroMeansCurrent
  <2> QED
    BY <1>5, <1>6, <2>2, <2>3, <2>4, <2>5, <2>7, <2>9, <2>10, <2>11 DEF IInv
<1> QED
  BY <1>1, <1>8, <1>9

(* The emptied directory has no file, so nothing can be open either.       *)
LEMMA CreateDirIInv == ASSUME IInv, NEW p \in Proc, create_dir(p) PROVE IInv'
<1>1. /\ TypeOK /\ pc[p] = "remove" /\ todo[p] = {} /\ dir' = TRUE
      /\ at' = [at EXCEPT ![p] = 1] /\ pc' = [pc EXCEPT ![p] = "fetch"]
  BY DEF create_dir, IInv
<1>2. UNCHANGED <<file, holder, epoch, ended, cleaned, faults, todo, mem, err, open, lenient, nogpg>>
  BY DEF create_dir, flags
<1>3. pc' \in [Proc -> PC] /\ at' \in [Proc -> Nat \ {0}] /\ dir' \in BOOLEAN
  BY <1>1 DEF TypeOK, PC
<1>4. TypeOK'
  BY <1>1, <1>2, <1>3 DEF TypeOK
<1>5. /\ pc'[p] = "fetch" /\ at'[p] = 1 /\ \A q \in Proc \ {p} : pc'[q] = pc[q]
      /\ pc[p] \in Working /\ pc'[p] \in Working
  BY <1>1 DEF TypeOK, Working, Fetching
<1>6. Present' = {} /\ Present = {}
  BY <1>1, <1>2 DEF IInv, Emptying, Present
<1>7. open[p] = {} /\ open'[p] = {}
  BY <1>2, <1>6 DEF IInv, Streams
<1>8. \A i \in 1 .. Len(Lines) : ~ (i < at'[p])
  BY <1>5, LinesCount
<1> QED
  BY <1>2, <1>4, <1>5, <1>6, <1>7, <1>8, OwnStep

(* A file a transfer makes.                                                *)
LEMMA FetchedFile ==
  ASSUME TypeOK, NEW reply \in Reply
  PROVE  [data |-> Arrived(reply), epoch |-> epoch, gpg |-> "no"] \in File
BY DEF TypeOK, Reply, Arrived, File, Content

(* The transfer.                                                           *)
LEMMA FetchIInv ==
  ASSUME IInv, NEW p \in Proc, NEW reply \in Reply, fetch(p, reply) PROVE IInv'
<1>1. /\ TypeOK /\ pc[p] = "fetch" /\ at[p] <= Len(Lines) /\ pc' = [pc EXCEPT ![p] = "read"]
  BY DEF fetch, IInv
<1>2. UNCHANGED <<dir, holder, epoch, ended, cleaned, faults, at, todo, mem, lenient, nogpg>>
  BY DEF fetch, flags
<1>3. /\ pc' \in [Proc -> PC] /\ pc'[p] = "read" /\ \A q \in Proc \ {p} : pc'[q] = pc[q]
      /\ pc[p] \in Working /\ pc'[p] \in Working /\ pc[p] \in Fetching
  BY <1>1 DEF TypeOK, PC, Working, Fetching
<1>4. at[p] \in 1 .. Len(Lines) /\ at'[p] = at[p]
  BY <1>1, <1>2, LinesCount DEF TypeOK
<1>5. Here(p) \in Name /\ Here(p)' = Here(p)
  BY <1>2, <1>4, HereIsName DEF Here
<1>6. CASE dir
  <2> DEFINE f == [data |-> Arrived(reply), epoch |-> epoch, gpg |-> "no"]
  <2>1. /\ file' = [file EXCEPT ![Here(p)] = f]
        /\ err' = [err EXCEPT ![p] = @ \/ Unsuccessful(reply)]
        /\ open' = [open EXCEPT ![p] = IF reply \in {"nothing", "part"}
                                       THEN @ \cup {Here(p)} ELSE @]
    BY <1>6 DEF fetch
  <2>2. f \in File /\ f.epoch = epoch /\ f.data = Arrived(reply)
    BY <1>1, FetchedFile
  <2> HIDE DEF f
  <2>3. /\ file' \in [Name -> File \cup {None}] /\ file'[Here(p)] = f
        /\ Present' = Present \cup {Here(p)}
        /\ \A m \in Present' : m # Here(p) => m \in Present /\ file'[m] = file[m]
    BY <1>1, <1>5, <2>1, <2>2, Written
  <2>4. /\ err' \in [Proc -> BOOLEAN] /\ open' \in [Proc -> SUBSET Name]
        /\ open'[p] = IF reply \in {"nothing", "part"} THEN open[p] \cup {Here(p)} ELSE open[p]
        /\ \A q \in Proc \ {p} : open'[q] = open[q]
    BY <1>1, <1>5, <2>1 DEF TypeOK, Unsuccessful
  <2>5. ~ err'[p] => ~ err[p] /\ ~ Unsuccessful(reply)
    BY <1>1, <2>1 DEF TypeOK
  <2>6. TypeOK'
    BY <1>1, <1>2, <1>3, <2>3, <2>4 DEF TypeOK
  <2>7. open'[p] \subseteq Present'
    BY <2>3, <2>4 DEF IInv, Streams
  <2>8. \A m \in Present' : file'[m].epoch = epoch'
    BY <1>2, <1>3, <2>2, <2>3 DEF IInv, Fresh
  <2>9. ASSUME Unreported(p)'
        PROVE  /\ open'[p] = {}
               /\ \A m \in Present' : Sound(m)' \/ m = Here(p)'
               /\ file'[Here(p)'].data \in {"whole", "page"}
               /\ ~ cleaned' => \A i \in 1 .. Len(Lines) : i < at'[p] => FileOf[Lines[i]] \in Present'
    <3>1. Unreported(p) /\ reply \in {"complete", "page"}
      BY <1>3, <2>5, <2>9 DEF Unreported, Unsuccessful, Reply
    <3>2. open'[p] = {}
      BY <2>4, <3>1 DEF IInv, NothingOpen
    <3>3. \A m \in Present : Sound(m)
      BY <1>1, <3>1 DEF IInv, OthersSound
    <3>4. \A m \in Present' : Sound(m)' \/ m = Here(p)'
      BY <1>2, <1>5, <2>3, <3>3 DEF Sound
    <3>5. file'[Here(p)'].data \in {"whole", "page"}
      BY <1>5, <2>2, <2>3, <3>1 DEF Arrived
    <3> QED
      BY <1>2, <2>3, <3>1, <3>2, <3>4, <3>5 DEF IInv, NoneMissing
  <2> QED
    BY <1>2, <1>3, <1>4, <2>4, <2>6, <2>7, <2>8, <2>9, OwnStep
<1>7. CASE ~ dir
  <2>1. err' = [err EXCEPT ![p] = TRUE] /\ UNCHANGED <<file, open>>
    BY <1>7 DEF fetch
  <2>2. TypeOK'
    BY <1>1, <1>2, <1>3, <2>1 DEF TypeOK
  <2>3. ~ Unreported(p)'
    BY <1>1, <2>1 DEF TypeOK, Unreported
  <2>4. Present' = Present /\ open'[p] \subseteq Present'
    BY <2>1 DEF IInv, Streams, Present
  <2>5. \A m \in Present' : file'[m].epoch = epoch'
    BY <1>2, <1>3, <2>1, <2>4 DEF IInv, Fresh
  <2> QED
    BY <1>2, <1>3, <1>4, <2>1, <2>2, <2>3, <2>4, <2>5, OwnStep
<1> QED
  BY <1>6, <1>7

(* The file is read, or removed.                                           *)
LEMMA ReadIInv == ASSUME IInv, NEW p \in Proc, readfile_raw(p) PROVE IInv'
<1>1. TypeOK /\ pc[p] = "read"
  BY DEF readfile_raw, IInv
<1>2. UNCHANGED <<dir, holder, epoch, ended, cleaned, faults, todo, lenient, nogpg>>
  BY DEF readfile_raw, flags
<1>3. pc[p] \in Working /\ pc[p] \in Fetching /\ at[p] \in 1 .. Len(Lines)
  BY <1>1 DEF IInv, InRange, Working, Fetching
<1>4. Here(p) \in Name
  BY <1>3, HereIsName
<1>5. CASE Here(p) \in Present /\ Headed(file[Here(p)].data)
  <2>1. /\ mem' = [mem EXCEPT ![p] = file[Here(p)].data]
        /\ pc' = [pc EXCEPT ![p] = "write"]
        /\ UNCHANGED <<file, open, at, err>>
    BY <1>5 DEF readfile_raw
  <2>2. file[Here(p)] \in File
    BY <1>1, <1>4, <1>5 DEF TypeOK, Present
  <2>3. file[Here(p)].data \in Content
    BY <2>2 DEF File
  <2>4. pc' \in [Proc -> PC] /\ mem' \in [Proc -> Content] /\ mem'[p] = file[Here(p)].data
    BY <1>1, <2>1, <2>3 DEF TypeOK, PC
  <2>5. TypeOK'
    BY <1>1, <1>2, <2>1, <2>4 DEF TypeOK
  <2>6. pc'[p] = "write" /\ pc'[p] \in Working /\ \A q \in Proc \ {p} : pc'[q] = pc[q]
    BY <1>1, <2>1 DEF TypeOK, Working, Fetching
  <2>7. Present' = Present /\ Here(p)' = Here(p) /\ \A m : Sound(m)' <=> Sound(m)
    BY <1>2, <2>1 DEF Present, Here, Sound
  <2>8. open'[p] \subseteq Present' /\ \A m \in Present' : file'[m].epoch = epoch'
    BY <1>2, <1>3, <2>1, <2>7 DEF IInv, Streams, Fresh
  <2>9. ASSUME Unreported(p)'
        PROVE  /\ open'[p] = {}
               /\ \A m \in Present' : Sound(m)' \/ m = Here(p)'
               /\ mem'[p] = "whole"
               /\ ~ cleaned' => \A i \in 1 .. Len(Lines) : i < at'[p] => FileOf[Lines[i]] \in Present'
    <3>1. Unreported(p)
      BY <1>3, <2>1, <2>9 DEF Unreported
    <3>2. mem'[p] = "whole"
      BY <1>1, <1>5, <2>4, <3>1 DEF IInv, AtHand, Headed
    <3> QED
      BY <1>2, <2>1, <2>7, <3>1, <3>2 DEF IInv, NothingOpen, OthersSound, NoneMissing
  <2> QED
    BY <1>2, <1>3, <2>1, <2>5, <2>6, <2>8, <2>9, OwnStep
<1>6. CASE ~ (Here(p) \in Present /\ Headed(file[Here(p)].data))
  <2>1. /\ err' = [err EXCEPT ![p] = TRUE] /\ Remove(Here(p)) /\ mem' = mem
        /\ pc' = [pc EXCEPT ![p] = "fetch"] /\ at' = [at EXCEPT ![p] = @ + 1]
    BY <1>6 DEF readfile_raw, NextLine
  <2>2. /\ file' \in [Name -> File \cup {None}] /\ open' \in [Proc -> SUBSET Name]
        /\ Present' = Present \ {Here(p)}
        /\ \A m \in Present' : m \in Present /\ file'[m] = file[m]
        /\ \A q \in Proc : open'[q] = open[q] \ {Here(p)}
    BY <1>1, <1>4, <2>1, Removed
  <2>3. /\ pc' \in [Proc -> PC] /\ at' \in [Proc -> Nat \ {0}] /\ err' \in [Proc -> BOOLEAN]
        /\ pc'[p] = "fetch" /\ err'[p] /\ \A q \in Proc \ {p} : pc'[q] = pc[q]
    BY <1>1, <2>1 DEF TypeOK, PC
  <2>4. TypeOK'
    BY <1>1, <1>2, <2>1, <2>2, <2>3 DEF TypeOK
  <2>5. pc'[p] \in Working /\ ~ Unreported(p)'
    BY <2>3 DEF Working, Fetching, Unreported
  <2>6. open'[p] \subseteq Present' /\ \A q \in Proc : open'[q] \subseteq open[q]
    BY <2>2 DEF IInv, Streams
  <2>7. \A m \in Present' : file'[m].epoch = epoch'
    BY <1>2, <1>3, <2>2 DEF IInv, Fresh
  <2> QED
    BY <1>2, <1>3, <2>3, <2>4, <2>5, <2>6, <2>7, OwnStep
<1> QED
  BY <1>5, <1>6

(* What writefile leaves of an index.                                      *)
LEMMA WrittenFile ==
  ASSUME TypeOK, NEW p \in Proc
  PROVE  [data |-> Addressed(mem[p]), epoch |-> epoch,
          gpg |-> IF nogpg[p] THEN "waived" ELSE "no"] \in File
BY DEF TypeOK, Addressed, File, Content

(* Where a process is when it has done with a line.                        *)
LEMMA NextLineFacts ==
  ASSUME TypeOK, NEW p \in Proc, NextLine(p)
  PROVE  /\ pc' \in [Proc -> PC] /\ pc'[p] = "fetch" /\ \A q \in Proc \ {p} : pc'[q] = pc[q]
         /\ at' \in [Proc -> Nat \ {0}] /\ at'[p] = at[p] + 1
         /\ pc'[p] \in Working /\ pc'[p] \in Fetching
BY DEF NextLine, TypeOK, PC, Working, Fetching

(* The index is written with its address.                                  *)
LEMMA WriteIInv == ASSUME IInv, NEW p \in Proc, writefile(p) PROVE IInv'
<1>1. TypeOK /\ pc[p] = "write"
  BY DEF writefile, IInv
<1>2. UNCHANGED <<dir, holder, epoch, ended, cleaned, faults, todo, mem, open, lenient, nogpg>>
  BY DEF writefile, flags
<1>3. pc[p] \in Working /\ pc[p] \in Fetching /\ at[p] \in 1 .. Len(Lines)
  BY <1>1 DEF IInv, InRange, Working, Fetching
<1>4. Here(p) \in Name
  BY <1>3, HereIsName
<1>5. /\ pc' \in [Proc -> PC] /\ at' \in [Proc -> Nat \ {0}]
      /\ \A q \in Proc \ {p} : pc'[q] = pc[q]
      /\ pc'[p] \in Working /\ pc'[p] \in Fetching
      /\ \/ pc'[p] = "fetch" /\ nogpg[p] /\ at'[p] = at[p] + 1
         \/ pc'[p] = "verify" /\ ~ nogpg[p] /\ at' = at
  <2>1. CASE nogpg[p]
    BY <1>1, <2>1, NextLineFacts DEF writefile
  <2>2. CASE ~ nogpg[p]
    BY <1>1, <2>2 DEF writefile, TypeOK, PC, Working, Fetching
  <2> QED
    BY <2>1, <2>2
<1>6. pc'[p] \in Fetching \ {"fetch"} => at'[p] \in 1 .. Len(Lines)
  BY <1>3, <1>5
<1>7. CASE dir
  <2> DEFINE f == [data |-> Addressed(mem[p]), epoch |-> epoch,
                   gpg |-> IF nogpg[p] THEN "waived" ELSE "no"]
  <2>1. file' = [file EXCEPT ![Here(p)] = f] /\ err' = err
    BY <1>7 DEF writefile
  <2>2. f \in File /\ f.epoch = epoch /\ f.data = Addressed(mem[p])
        /\ (nogpg[p] => f.gpg = "waived")
    BY <1>1, WrittenFile
  <2> HIDE DEF f
  <2>3. /\ file' \in [Name -> File \cup {None}] /\ file'[Here(p)] = f
        /\ Present' = Present \cup {Here(p)}
        /\ \A m \in Present' : m # Here(p) => m \in Present /\ file'[m] = file[m]
    BY <1>1, <1>4, <2>1, <2>2, Written
  <2>4. TypeOK'
    BY <1>1, <1>2, <1>5, <2>1, <2>3 DEF TypeOK
  <2>5. open'[p] \subseteq Present'
    BY <1>2, <2>3 DEF IInv, Streams
  <2>6. \A m \in Present' : file'[m].epoch = epoch'
    BY <1>2, <1>3, <2>2, <2>3 DEF IInv, Fresh
  <2>7. ASSUME Unreported(p)'
        PROVE  /\ open'[p] = {}
               /\ \A m \in Present' : Sound(m)' \/ (pc'[p] # "fetch" /\ m = Here(p)')
               /\ pc'[p] = "verify" => file'[Here(p)'].data = "whole+address"
               /\ ~ cleaned' => \A i \in 1 .. Len(Lines) : i < at'[p] => FileOf[Lines[i]] \in Present'
    <3>1. Unreported(p) /\ mem[p] = "whole"
      BY <1>1, <1>3, <2>1, <2>7 DEF IInv, AtHand, Unreported
    <3>2. open'[p] = {}
      BY <1>2, <3>1 DEF IInv, NothingOpen
    <3>3. \A m \in Present : Sound(m) \/ m = Here(p)
      BY <3>1 DEF IInv, OthersSound
    <3>4. file'[Here(p)].data = "whole+address"
      BY <2>2, <2>3, <3>1 DEF Addressed
    <3>5. \A m \in Present' : m # Here(p) => Sound(m)'
      BY <1>2, <2>3, <3>3 DEF Sound
    <3>6. nogpg[p] => \A m \in Present' : m = Here(p) => Sound(m)'
      BY <1>2, <1>4, <2>2, <2>3, <3>4 DEF Sound
    <3>7. pc'[p] = "verify" => Here(p)' = Here(p)
      BY <1>5 DEF Here
    <3>8. pc'[p] = "fetch" => nogpg[p]
      BY <1>5
    <3>9. pc'[p] # "fetch" => pc'[p] = "verify"
      BY <1>5
    <3>10. \A m \in Present' : Sound(m)' \/ (pc'[p] # "fetch" /\ m = Here(p)')
      BY <3>5, <3>6, <3>7, <3>8, <3>9
    <3>11. ~ cleaned' => \A i \in 1 .. Len(Lines) : i < at'[p] => FileOf[Lines[i]] \in Present'
      <4> SUFFICES ASSUME ~ cleaned', NEW i \in 1 .. Len(Lines), i < at'[p]
                   PROVE  FileOf[Lines[i]] \in Present'
        OBVIOUS
      <4>1. i < at[p] \/ i = at[p]
        BY <1>3, <1>5
      <4>2. i < at[p] => FileOf[Lines[i]] \in Present
        BY <1>2, <3>1 DEF IInv, NoneMissing
      <4>3. i = at[p] => FileOf[Lines[i]] = Here(p)
        BY DEF Here
      <4> QED
        BY <2>3, <4>1, <4>2, <4>3
    <3> QED
      BY <3>2, <3>4, <3>7, <3>10, <3>11
  <2> QED
    BY <1>2, <1>3, <1>5, <1>6, <2>4, <2>5, <2>6, <2>7, OwnStep
<1>8. CASE ~ dir
  <2>1. err' = [err EXCEPT ![p] = TRUE] /\ UNCHANGED file
    BY <1>8 DEF writefile
  <2>2. TypeOK'
    BY <1>1, <1>2, <1>5, <2>1 DEF TypeOK
  <2>3. ~ Unreported(p)'
    BY <1>1, <2>1 DEF TypeOK, Unreported
  <2>4. Present' = Present /\ open'[p] \subseteq Present'
    BY <1>2, <2>1 DEF IInv, Streams, Present
  <2>5. \A m \in Present' : file'[m].epoch = epoch'
    BY <1>2, <1>3, <2>1, <2>4 DEF IInv, Fresh
  <2>6. pc'[p] # "remove"
    BY <1>5
  <2> QED
    BY <1>2, <1>3, <1>5, <1>6, <2>2, <2>3, <2>4, <2>5, <2>6, OwnStep
<1> QED
  BY <1>7, <1>8

(* The signature is found good, or not.                                    *)
LEMMA VerifyIInv ==
  ASSUME IInv, NEW p \in Proc, NEW good \in BOOLEAN, verify_file(p, good) PROVE IInv'
<1>1. TypeOK /\ pc[p] = "verify" /\ NextLine(p)
  BY DEF verify_file, IInv
<1>2. UNCHANGED <<dir, holder, epoch, ended, cleaned, faults, todo, mem, open, lenient, nogpg>>
  BY DEF verify_file, flags
<1>3. pc[p] \in Working /\ pc[p] \in Fetching /\ at[p] \in 1 .. Len(Lines)
  BY <1>1 DEF IInv, InRange, Working, Fetching
<1>4. /\ pc' \in [Proc -> PC] /\ pc'[p] = "fetch" /\ \A q \in Proc \ {p} : pc'[q] = pc[q]
      /\ at' \in [Proc -> Nat \ {0}] /\ at'[p] = at[p] + 1
      /\ pc'[p] \in Working /\ pc'[p] \in Fetching
  BY <1>1, NextLineFacts
<1>5. CASE Here(p) \in Present /\ good
  <2>1. file' = [file EXCEPT ![Here(p)].gpg = "accepted"] /\ err' = err
    BY <1>5 DEF verify_file
  <2>2. Here(p) \in Name /\ file[Here(p)] \in File /\ file[Here(p)].epoch = epoch
    BY <1>1, <1>3, <1>5 DEF TypeOK, Present, IInv, Fresh
  <2> DEFINE f == [file[Here(p)] EXCEPT !.gpg = "accepted"]
  <2>3. f \in File /\ f.epoch = epoch /\ f.gpg = "accepted" /\ f.data = file[Here(p)].data
    BY <2>2 DEF File
  <2>4. file' = [file EXCEPT ![Here(p)] = f]
    BY <2>1
  <2> HIDE DEF f
  <2>5. /\ file' \in [Name -> File \cup {None}] /\ file'[Here(p)] = f
        /\ Present' = Present \cup {Here(p)}
        /\ \A m \in Present' : m # Here(p) => m \in Present /\ file'[m] = file[m]
    BY <1>1, <2>2, <2>3, <2>4, Written
  <2>6. TypeOK'
    BY <1>1, <1>2, <1>4, <2>1, <2>5 DEF TypeOK
  <2>7. open'[p] \subseteq Present'
    BY <1>2, <2>5 DEF IInv, Streams
  <2>8. \A m \in Present' : file'[m].epoch = epoch'
    BY <1>2, <1>3, <2>3, <2>5 DEF IInv, Fresh
  <2>9. ASSUME Unreported(p)'
        PROVE  /\ open'[p] = {}
               /\ \A m \in Present' : Sound(m)'
               /\ ~ cleaned' => \A i \in 1 .. Len(Lines) : i < at'[p] => FileOf[Lines[i]] \in Present'
    <3>1. Unreported(p) /\ file[Here(p)].data = "whole+address"
      BY <1>1, <1>3, <1>5, <2>1, <2>9 DEF IInv, AtHand, Unreported
    <3>2. open'[p] = {}
      BY <1>2, <3>1 DEF IInv, NothingOpen
    <3>3. \A m \in Present : Sound(m) \/ m = Here(p)
      BY <3>1 DEF IInv, OthersSound
    <3>4. \A m \in Present' : m = Here(p) => Sound(m)'
      BY <1>2, <2>3, <2>5, <3>1 DEF Sound
    <3>5. \A m \in Present' : m # Here(p) => Sound(m)'
      BY <1>2, <2>5, <3>3 DEF Sound
    <3>6. \A m \in Present' : Sound(m)'
      BY <3>4, <3>5
    <3>7. ~ cleaned' => \A i \in 1 .. Len(Lines) : i < at'[p] => FileOf[Lines[i]] \in Present'
      <4> SUFFICES ASSUME ~ cleaned', NEW i \in 1 .. Len(Lines), i < at'[p]
                   PROVE  FileOf[Lines[i]] \in Present'
        OBVIOUS
      <4>1. i < at[p] \/ i = at[p]
        BY <1>3, <1>4
      <4>2. i < at[p] => FileOf[Lines[i]] \in Present
        BY <1>2, <3>1 DEF IInv, NoneMissing
      <4>3. i = at[p] => FileOf[Lines[i]] = Here(p)
        BY DEF Here
      <4> QED
        BY <2>5, <4>1, <4>2, <4>3
    <3> QED
      BY <3>2, <3>6, <3>7
  <2> QED
    BY <1>2, <1>3, <1>4, <2>6, <2>7, <2>8, <2>9, OwnStep
<1>6. CASE ~ (Here(p) \in Present /\ good)
  <2>1. err' = [err EXCEPT ![p] = TRUE] /\ UNCHANGED file
    BY <1>6 DEF verify_file
  <2>2. TypeOK'
    BY <1>1, <1>2, <1>4, <2>1 DEF TypeOK
  <2>3. ~ Unreported(p)'
    BY <1>1, <2>1 DEF TypeOK, Unreported
  <2>4. Present' = Present /\ open'[p] \subseteq Present'
    BY <1>2, <2>1 DEF IInv, Streams, Present
  <2>5. \A m \in Present' : file'[m].epoch = epoch'
    BY <1>2, <1>3, <2>1, <2>4 DEF IInv, Fresh
  <2> QED
    BY <1>2, <1>3, <1>4, <2>2, <2>3, <2>4, <2>5, OwnStep
<1> QED
  BY <1>5, <1>6

(* The update ends.                                                        *)
LEMMA ErrorIInv == ASSUME IInv, NEW p \in Proc, error(p) PROVE IInv'
<1>1. /\ TypeOK /\ pc[p] = "fetch" /\ at[p] > Len(Lines)
      /\ ended' = IF ~ err[p] THEN "done" ELSE IF lenient[p] THEN "forgiven" ELSE "failed"
      /\ pc' = [pc EXCEPT ![p] = IF err[p] /\ ~ lenient[p] THEN "leaving" ELSE "idle"]
      /\ err' = [err EXCEPT ![p] = FALSE]
  BY DEF error, IInv
<1>2. UNCHANGED <<dir, file, holder, epoch, cleaned, faults, at, todo, mem, open, lenient, nogpg>>
  BY DEF error, disk, flags
<1>3. /\ pc' \in [Proc -> PC] /\ pc'[p] \in {"idle", "leaving"}
      /\ \A q \in Proc \ {p} : pc'[q] = pc[q]
      /\ pc[p] \in Working
  BY <1>1 DEF TypeOK, PC, Working, Fetching
<1>4. err' \in [Proc -> BOOLEAN]
      /\ ended' \in {"never", "running", "done", "failed", "forgiven", "killed"}
  BY <1>1 DEF TypeOK
<1>5. TypeOK'
  BY <1>1, <1>2, <1>3, <1>4 DEF TypeOK
<1>6. Present' = Present /\ \A m : Sound(m)' <=> Sound(m)
  BY <1>2 DEF Present, Sound
<1>7. \A q \in Proc \ {p} : pc[q] \notin Working /\ open[q] = {}
  BY <1>3, Alone
<1>8. \A q \in Proc : pc'[q] \notin Working /\ pc'[q] \notin Fetching /\ pc'[q] # "remove"
  BY <1>3, <1>7 DEF Working, Fetching
<1>9. Locked' /\ Emptying' /\ InRange' /\ Fresh'
  BY <1>8 DEF Locked, Emptying, InRange, Fresh
<1>10. NothingOpen' /\ OthersSound' /\ AtHand' /\ NoneMissing'
  BY <1>8 DEF NothingOpen, OthersSound, AtHand, NoneMissing, Unreported
<1>11. Streams' /\ NeverMixed'
  BY <1>2, <1>6 DEF IInv, Streams, NeverMixed
<1>12. ended' = "done" => Unreported(p)
  BY <1>1 DEF Unreported, Fetching
<1>13. Quiet'
  BY <1>2, <1>7, <1>12 DEF IInv, NothingOpen, Quiet
<1>14. ASSUME ended' = "done" PROVE \A m \in Present : Sound(m)
  BY <1>1, <1>12, <1>14 DEF IInv, OthersSound
<1>15. ASSUME ended' = "done", ~ cleaned
       PROVE  \A i \in 1 .. Len(Lines) : FileOf[Lines[i]] \in Present
  <2>1. \A i \in 1 .. Len(Lines) : i < at[p]
    BY <1>1, LinesCount DEF TypeOK
  <2> QED
    BY <1>12, <1>15, <2>1 DEF IInv, NoneMissing
<1>16. ZeroMeansCurrent'
  BY <1>2, <1>6, <1>14, <1>15 DEF ZeroMeansCurrent
<1> QED
  BY <1>5, <1>9, <1>10, <1>11, <1>13, <1>16 DEF IInv

----------------------------------------------------------------------------
(* A process that goes.  If another one works, this one had no stream      *)
(* open, and so what lies there is as it was; if none does, only the       *)
(* update a file is of matters, and that a late write leaves alone.        *)
LEMMA GoneStep ==
  ASSUME IInv, TypeOK', NEW p \in Proc, pc'[p] = "gone",
         \A q \in Proc \ {p} : pc'[q] = pc[q] /\ open'[q] = open[q], open'[p] = {},
         UNCHANGED <<at, todo, mem, err, epoch, cleaned>>,
         holder' = IF holder = p THEN None ELSE holder,
         ended' = ended \/ (ended' = "killed" /\ pc[p] \in Working),
         Present' = Present,
         \A m \in Present : file'[m].epoch = file[m].epoch,
         open[p] = {} => file' = file
  PROVE  IInv'
<1>1. \A q \in Proc : pc'[q] \in Working => q # p /\ pc[q] \in Working /\ pc'[q] = pc[q]
  BY DEF Working, Fetching
<1>2. \A q \in Proc : pc'[q] \in Working => holder = q /\ open[p] = {} /\ pc[p] \notin Working
  <2> SUFFICES ASSUME NEW q \in Proc, pc'[q] \in Working
               PROVE  holder = q /\ open[p] = {} /\ pc[p] \notin Working
    OBVIOUS
  <2>1. q # p /\ pc[q] \in Working
    BY <1>1
  <2> QED
    BY <2>1 DEF IInv, Locked, Streams
<1>3. Locked'
  BY <1>1, <1>2 DEF IInv, Locked
<1>4. Streams'
  BY DEF IInv, Streams
<1>5. Emptying'
  BY <1>1 DEF IInv, Emptying, Working
<1>6. \A q \in Proc : pc'[q] \in Fetching => pc'[q] \in Working
  BY DEF Working
<1>7. InRange'
  BY <1>1, <1>6 DEF IInv, InRange
<1>8. Fresh'
  BY <1>1, <1>6 DEF IInv, Fresh
<1>9. \A q \in Proc : Unreported(q)' =>
        /\ q # p /\ Unreported(q) /\ pc'[q] = pc[q] /\ file' = file /\ Here(q)' = Here(q)
  BY <1>1, <1>2, <1>6 DEF Unreported, Here
<1>10. NothingOpen' /\ NoneMissing'
  BY <1>9 DEF IInv, NothingOpen, NoneMissing
<1>11. \A m : file' = file => (Sound(m)' <=> Sound(m))
  BY DEF Sound
<1>12. OthersSound'
  BY <1>9, <1>11 DEF IInv, OthersSound
<1>13. AtHand'
  BY <1>9 DEF IInv, AtHand
<1>14. ended' = "done" => ended = "done" /\ \A q \in Proc : open[q] = {}
  BY DEF IInv, Quiet
<1>15. Quiet'
  BY <1>14 DEF Quiet
<1>16. NeverMixed'
  BY DEF IInv, NeverMixed
<1>17. ZeroMeansCurrent'
  BY <1>11, <1>14 DEF IInv, ZeroMeansCurrent
<1> QED
  BY <1>3, <1>4, <1>5, <1>7, <1>8, <1>10, <1>12, <1>13, <1>15, <1>16, <1>17 DEF IInv

(* exit writes out what it has buffered; whoever has a stream open is the  *)
(* one with the lock, so nobody else is working.                           *)
LEMMA ExitIInv == ASSUME IInv, NEW p \in Proc, Exit(p) PROVE IInv'
<1>1. /\ TypeOK /\ pc[p] \in {"idle", "leaving"}
      /\ file' = [n \in Name |-> IF n \in open[p] \cap Present
                                 THEN [file[n] EXCEPT !.data = Flushed(@)] ELSE file[n]]
      /\ open' = [open EXCEPT ![p] = {}]
      /\ holder' = IF holder = p THEN None ELSE holder
      /\ pc' = [pc EXCEPT ![p] = "gone"]
  BY DEF Exit, IInv
<1>2. UNCHANGED <<dir, epoch, ended, cleaned, faults, at, todo, mem, err, lenient, nogpg>>
  BY DEF Exit, flags
<1>3. \A n \in Present : file[n] \in File
  BY <1>1 DEF TypeOK, Present
<1>4. \A n \in Present :
        [file[n] EXCEPT !.data = Flushed(@)] \in File
        /\ [file[n] EXCEPT !.data = Flushed(@)].epoch = file[n].epoch
  BY <1>3 DEF File, Content, Flushed
<1>5. \A n \in Name : /\ n \notin Present => file'[n] = None
                      /\ n \in Present => file'[n] \in File /\ file'[n].epoch = file[n].epoch
  BY <1>1, <1>3, <1>4 DEF Present
<1>6. file' \in [Name -> File \cup {None}]
  BY <1>1, <1>5
<1>7. Present' = Present
  BY <1>5, NoneAssumption DEF Present
<1>8. open[p] = {} => file' = file
  <2> SUFFICES ASSUME open[p] = {} PROVE file' = file
    OBVIOUS
  <2>1. file' = [n \in Name |-> file[n]]
    BY <1>1
  <2> QED
    BY <1>1, <2>1 DEF TypeOK
<1>9. /\ pc' \in [Proc -> PC] /\ open' \in [Proc -> SUBSET Name] /\ holder' \in Proc \cup {None}
      /\ pc'[p] = "gone" /\ open'[p] = {}
      /\ \A q \in Proc \ {p} : pc'[q] = pc[q] /\ open'[q] = open[q]
  BY <1>1 DEF TypeOK, PC
<1>10. TypeOK'
  BY <1>1, <1>2, <1>6, <1>9 DEF TypeOK
<1>11. \A m \in Present : file'[m].epoch = file[m].epoch
  BY <1>5 DEF Present
<1> QED
  BY <1>1, <1>2, <1>7, <1>8, <1>9, <1>10, <1>11, GoneStep

(* A kill writes out nothing.                                              *)
LEMMA KillIInv == ASSUME IInv, NEW p \in Proc, Kill(p) PROVE IInv'
<1>1. /\ TypeOK /\ faults' = faults + 1
      /\ open' = [open EXCEPT ![p] = {}]
      /\ holder' = IF holder = p THEN None ELSE holder
      /\ ended' = IF pc[p] \in {"remove", "fetch", "read", "write", "verify"}
                  THEN "killed" ELSE ended
      /\ pc' = [pc EXCEPT ![p] = "gone"]
  BY DEF Kill, IInv
<1>2. UNCHANGED <<dir, file, epoch, cleaned, at, todo, mem, err, lenient, nogpg>>
  BY DEF Kill, disk, flags
<1>3. /\ pc' \in [Proc -> PC] /\ open' \in [Proc -> SUBSET Name] /\ holder' \in Proc \cup {None}
      /\ pc'[p] = "gone" /\ open'[p] = {} /\ faults' \in Nat
      /\ \A q \in Proc \ {p} : pc'[q] = pc[q] /\ open'[q] = open[q]
  BY <1>1 DEF TypeOK, PC
<1>4. ended' = ended \/ (ended' = "killed" /\ pc[p] \in Working)
  BY <1>1 DEF Working, Fetching
<1>5. TypeOK'
  BY <1>1, <1>2, <1>3, <1>4 DEF TypeOK
<1>6. Present' = Present
  BY <1>2 DEF Present
<1> QED
  BY <1>1, <1>2, <1>3, <1>4, <1>5, <1>6, GoneStep

(* clean begins.                                                           *)
LEMMA CleanIInv == ASSUME IInv, NEW p \in Proc, clean_main(p) PROVE IInv'
<1>1. /\ TypeOK /\ pc[p] = "idle" /\ faults' = faults + 1
      /\ todo' = [todo EXCEPT ![p] = Present] /\ pc' = [pc EXCEPT ![p] = "clean"]
  BY DEF clean_main, IInv
<1>2. UNCHANGED <<dir, file, holder, epoch, ended, cleaned, at, mem, err, open, lenient, nogpg>>
  BY DEF clean_main, disk, flags
<1>3. pc' \in [Proc -> PC] /\ todo' \in [Proc -> SUBSET Name] /\ faults' \in Nat
  BY <1>1 DEF TypeOK, PC, Present
<1>4. TypeOK'
  BY <1>1, <1>2, <1>3 DEF TypeOK
<1>5. pc'[p] \notin Working /\ \A q \in Proc \ {p} : pc'[q] = pc[q]
  BY <1>1 DEF TypeOK, Working, Fetching
<1>6. UNCHANGED <<file, open, at, mem, err, holder, epoch, ended, cleaned>>
  BY <1>2
<1>7. \A q \in Proc : pc[q] = "remove" => todo'[q] = todo[q]
  BY <1>1 DEF TypeOK
<1> QED
  BY <1>4, <1>5, <1>6, <1>7, UnseenStep

(* clean removes the directory, and makes it again.                        *)
LEMMA DirectoryIInv ==
  ASSUME IInv, NEW p \in Proc, remove_dir(p) \/ directories_init(p) PROVE IInv'
<1>1. /\ TypeOK /\ dir' \in BOOLEAN
      /\ pc' = [pc EXCEPT ![p] = "directories"] \/ pc' = [pc EXCEPT ![p] = "idle"]
  BY DEF remove_dir, directories_init, IInv, TypeOK
<1>2. UNCHANGED <<file, holder, epoch, ended, cleaned, faults, at, todo, mem, err, open,
                  lenient, nogpg>>
  BY DEF remove_dir, directories_init, flags
<1>3. pc' \in [Proc -> PC]
  BY <1>1 DEF TypeOK, PC
<1>4. TypeOK'
  BY <1>1, <1>2, <1>3 DEF TypeOK
<1>5. pc'[p] \notin Working /\ \A q \in Proc \ {p} : pc'[q] = pc[q]
  BY <1>1 DEF TypeOK, Working, Fetching
<1>6. UNCHANGED <<file, open, at, mem, err, holder, epoch, ended, cleaned>>
  BY <1>2
<1>7. \A q \in Proc : pc[q] = "remove" => todo'[q] = todo[q]
  BY <1>2
<1> QED
  BY <1>4, <1>5, <1>6, <1>7, UnseenStep

(* Nothing changes.                                                        *)
LEMMA StutterIInv == ASSUME IInv, UNCHANGED vars PROVE IInv'
BY DEF vars, disk, locals, flags, IInv, TypeOK, Locked, Streams, Emptying, InRange, Fresh,
       NothingOpen, OthersSound, AtHand, NoneMissing, Quiet, NeverMixed, ZeroMeansCurrent,
       Unreported, Sound, Here, Present

----------------------------------------------------------------------------
(* The invariant holds in every reachable state, with any number of        *)
(* processes that update, clean, are refused, exit or are killed.          *)
THEOREM Invariance == Spec => []IInv
<1>1. IInv /\ [Next]_vars => IInv'
  <2> SUFFICES ASSUME IInv, [Next]_vars PROVE IInv'
    OBVIOUS
  <2>1. ASSUME NEW p \in Proc, Step(p) PROVE IInv'
    <3>1. CASE single_instance(p)
      BY <3>1, InstanceIInv
    <3>2. CASE \E n \in Name : RemoveFile(p, n)
      BY <3>2, RemoveIInv
    <3>3. CASE create_dir(p)
      BY <3>3, CreateDirIInv
    <3>4. CASE \E reply \in Reply : fetch(p, reply)
      BY <3>4, FetchIInv
    <3>5. CASE readfile_raw(p)
      BY <3>5, ReadIInv
    <3>6. CASE writefile(p)
      BY <3>6, WriteIInv
    <3>7. CASE \E good \in BOOLEAN : verify_file(p, good)
      BY <3>7, VerifyIInv
    <3>8. CASE error(p)
      BY <3>8, ErrorIInv
    <3>9. CASE Exit(p)
      BY <3>9, ExitIInv
    <3>10. CASE Kill(p)
      BY <3>10, KillIInv
    <3>11. CASE clean_main(p)
      BY <3>11, CleanIInv
    <3>12. CASE remove_dir(p) \/ directories_init(p)
      BY <3>12, DirectoryIInv
    <3> QED
      BY <2>1, <3>1, <3>2, <3>3, <3>4, <3>5, <3>6, <3>7, <3>8, <3>9, <3>10, <3>11, <3>12 DEF Step
  <2>2. CASE AllGone \/ UNCHANGED vars
    BY <2>2, StutterIInv DEF AllGone
  <2> QED
    BY <2>1, <2>2 DEF Next
<1> QED
  BY InitIInv, <1>1, PTL DEF Spec

(* The indexes that lie in the directory come from one update.             *)
THEOREM OneUpdate == Spec => []NeverMixed
<1>1. IInv => NeverMixed
  BY DEF IInv
<1> QED
  BY <1>1, Invariance, PTL

(* After an update that ended with 0 every index that lies there is        *)
(* complete, has had the signed file beside it accepted by gpg or was let  *)
(* off that, and none is missing but for a clean.                          *)
THEOREM StatusZero == Spec => []ZeroMeansCurrent
<1>1. IInv => ZeroMeansCurrent
  BY DEF IInv
<1> QED
  BY <1>1, Invariance, PTL
=============================================================================
