--------------------------- MODULE InstallProofs ---------------------------
(***************************************************************************)
(* Theorems about Install for all packages, versions, lists, transactions, *)
(* flags, faults and numbers of operations, in four parts.                 *)
(*                                                                         *)
(* Vetting (IInv): an archive can put anything into the quarantine, at any *)
(* path; but every package that was extracted has its lists there          *)
(* (Complete), so a validation that goes by the lists has compared every   *)
(* path that the transaction lists (Vetted), and what is moved to such a   *)
(* path from then on is only what the quarantine holds there.              *)
(*                                                                         *)
(* Order (OInv): what may be missing at any moment, what must be in place  *)
(* before a package is recorded, before the old is cleared and before the  *)
(* status is 0, and that a removal forgets last.  While an installation is *)
(* under way the promises follow from where each slot is (Core); once it   *)
(* has ended they hold because nothing changes.                            *)
(*                                                                         *)
(* Failure (FInv): an operation that met no fault has extracted everything *)
(* as listed, so that what validation refuses is a path of two packages or *)
(* a restricted one.                                                       *)
(*                                                                         *)
(* Ownership (WInv): without a fault each file is owned, by a package of   *)
(* the transaction or by an installed one outside it, or is left over.     *)
(***************************************************************************)
EXTENDS Install, TLAPS

(* A list, a link list or a metadata slot is not a path's.                 *)
LEMMA AreaSlots ==
  ASSUME NEW a \in Area, NEW p \in Pkg
  PROVE  /\ <<a, p>> \in Slot
         /\ \A s \in Slot : s[1] = "root" => s # <<a, p>>
  BY DEF Area, Slot

(* "files" is one of the areas.                                            *)
LEMMA FilesArea == "files" \in Area /\ "links" \in Area
  BY DEF Area

(* Where a version's entries go is where its two lists say.                *)
LEMMA EntriesDomain ==
  ASSUME NEW p \in Pkg, quar[<<"files", p>>] = txn[p], quar[<<"links", p>>] = txn[p]
  PROVE  DOMAIN Entries(p, txn[p]) = ListOf(quar, p)
  BY DEF Entries, ListOf

(* What is listed depends on the transaction only.                         *)
LEMMA ListedKept == txn' = txn => \A s \in Slot : Listed(s)' = Listed(s)
  BY DEF Listed, Entries

(* The flags say whether errors and the validation count.                  *)
LEMMA FlagsKept ==
  ASSUME UNCHANGED operation
  PROVE  /\ txn' = txn /\ before' = before /\ flags' = flags /\ abandoned' = abandoned
         /\ (forgiving' <=> forgiving) /\ (Strict' <=> Strict)
BY DEF operation, forgiving, Strict

LEMMA StrictMeans == Strict => ~forgiving /\ "ignore-quarantine" \notin flags
BY DEF Strict, forgiving

(* A step within an operation that leaves each path that is listed as it   *)
(* is, empty, or with something vetted.                                    *)
LEMMA LiveStep ==
  ASSUME ListedIsVetted, UNCHANGED operation,
         \A s \in Slot : s[1] = "root" =>
           \/ live'[s] = live[s] \/ live'[s] = Absent
           \/ Strict /\ Listed(s) # {} => live'[s] \in Listed(s) /\ s[2] \notin Restricted
  PROVE  ListedIsVetted'
<1>1. txn' = txn /\ before' = before /\ (Strict' <=> Strict)
  BY FlagsKept
<1>2. \A s \in Slot : Listed(s)' = Listed(s)
  BY <1>1, ListedKept
<1>3. (Installing' <=> Installing)
  BY <1>1 DEF Installing
<1> SUFFICES ASSUME Installing, Strict, NEW s \in Slot, s[1] = "root", Listed(s) # {}
             PROVE  \/ live'[s] \in {before[s], Absent}
                    \/ live'[s] \in Listed(s) /\ s[2] \notin Restricted
  BY <1>1, <1>2, <1>3 DEF ListedIsVetted
<1> QED
  BY DEF ListedIsVetted

(* A step that leaves the quarantine and the transaction alone, and does   *)
(* not begin to prepare or to move.                                        *)
LEMMA QuarKept ==
  ASSUME IInv, UNCHANGED <<quar, operation>>,
         Preparing' => Preparing /\ todo' \subseteq todo \cup DOMAIN txn,
         pc' = "extract" => \/ todo' = DOMAIN txn
                            \/ pc = "extract" /\ (todo' = todo \/ forgiving),
         Moving' => Moving
  PROVE  /\ WorkOfTransaction' /\ ListsOfTransaction' /\ Complete' /\ Vetted'
         /\ quar' = [s \in Slot |-> quar'[s]]
<1>1. txn' = txn /\ (forgiving' <=> forgiving) /\ (Strict' <=> Strict) /\ quar' = quar
  BY FlagsKept
<1>2. \A s \in Slot : Listed(s)' = Listed(s)
  BY <1>1, ListedKept
<1>3. WorkOfTransaction'
  BY <1>1 DEF IInv, WorkOfTransaction
<1>4. ListsOfTransaction'
  BY <1>1 DEF IInv, ListsOfTransaction
<1>5. Complete'
  BY <1>1 DEF IInv, Complete
<1>6. Vetted'
  BY <1>1, <1>2 DEF IInv, Vetted
<1>7. quar' = [s \in Slot |-> quar'[s]]
  BY <1>1, Zenon DEF IInv, Stores
<1> QED
  BY <1>3, <1>4, <1>5, <1>6, <1>7

(* The initial states.                                                     *)
LEMMA InitIInv == Init => IInv
<1> SUFFICES ASSUME Init PROVE IInv
  OBVIOUS
<1>1. live = [s \in Slot |-> live[s]]
  <2>1. PICK i : live = StoreOf(i)
    BY DEF Init
  <2> QED
    BY <2>1 DEF StoreOf
<1>2. quar = [s \in Slot |-> quar[s]]
  BY DEF Init, Nowhere
<1>3. ListedIsVetted
  BY DEF Init, ListedIsVetted
<1> QED
  BY <1>1, <1>2, <1>3
     DEF Init, IInv, Stores, WorkOfTransaction, ListsOfTransaction, Complete, Vetted,
         Preparing, Moving

(* The beginning of an operation: nothing is changed yet.                  *)
LEMMA BeginIInv ==
  ASSUME IInv, NEW f, Begin(f),
         (\E q \in Installs : BeginInstall(q, f)) \/ (\E S \in Removals : BeginRemove(S, f))
  PROVE  IInv'
<1>1. live' = live /\ before' = live
  BY DEF Begin
<1>2. ListedIsVetted'
  BY <1>1 DEF ListedIsVetted
<1>3. ASSUME NEW q \in Installs, pc' = "download", txn' = q, todo' = DOMAIN q, quar' = Nowhere
      PROVE  IInv'
  <2>1. Stores' /\ WorkOfTransaction'
    BY <1>1, <1>3 DEF IInv, Stores, WorkOfTransaction, Nowhere
  <2>2. ListsOfTransaction'
    BY <1>3, AreaSlots, FilesArea DEF ListsOfTransaction, Nowhere
  <2>3. Complete' /\ Vetted'
    BY <1>3 DEF Complete, Vetted, Moving
  <2> QED
    BY <1>2, <2>1, <2>2, <2>3 DEF IInv
<1>4. ASSUME pc' \in {"remove", "idle"}, quar' = quar PROVE IInv'
  <2>1. Stores'
    BY <1>1, <1>4, Zenon DEF IInv, Stores
  <2>2. WorkOfTransaction' /\ ListsOfTransaction' /\ Complete' /\ Vetted'
    BY <1>4 DEF WorkOfTransaction, ListsOfTransaction, Complete, Vetted, Preparing, Moving
  <2> QED
    BY <1>2, <2>1, <2>2 DEF IInv
<1>5. ASSUME NEW q \in Installs, BeginInstall(q, f) PROVE IInv'
  BY <1>3, <1>4, <1>5 DEF BeginInstall, Exit
<1>6. ASSUME NEW S \in Removals, BeginRemove(S, f) PROVE IInv'
  BY <1>4, <1>6 DEF BeginRemove, Exit
<1> QED
  BY <1>5, <1>6

(* Extraction brings the lists of its package.                             *)
LEMMA LaidLists ==
  ASSUME NEW p \in Pkg, NEW data \in BOOLEAN, NEW r \in Pkg, NEW a \in Area
  PROVE  Laid(p, data)[<<a, r>>] = IF r = p THEN txn[p] ELSE quar[<<a, r>>]
<1>1. <<a, r>> \in Slot /\ (<<a, r>> \in Area \X {p} <=> r = p)
  BY AreaSlots
<1>2. <<a, r>> \notin DOMAIN Entries(p, txn[p])
  BY DEF Entries, Root, Area
<1> QED
  BY <1>1, <1>2 DEF Laid

(* What is extracted has its lists in the quarantine, or the process ends. *)
LEMMA ExtractIInv == ASSUME IInv, NEW p \in Pkg, Extract(p) PROVE IInv'
<1>1. /\ pc = "extract" /\ p \in todo /\ p \in DOMAIN txn /\ txn \in Installs
      /\ live' = live /\ UNCHANGED operation
  BY DEF Extract, IInv, WorkOfTransaction, Preparing
<1>2. txn' = txn /\ (forgiving' <=> forgiving)
  BY <1>1, FlagsKept
<1>3. txn[p] \in Ver /\ txn[p] # Absent
  BY <1>1, InstallAssumption
<1>4. /\ (pc' = "extract" /\ todo' = todo \ {p}) \/ pc' = "idle"
      /\ quar' = quar => pc' = "idle" \/ forgiving \/ quar' = Laid(p, TRUE)
  BY DEF Extract, ErrorOr, Exit
<1>5. ListedIsVetted'
  BY <1>1, LiveStep DEF IInv
<1>6. WorkOfTransaction' /\ Vetted'
  BY <1>1, <1>2, <1>4 DEF IInv, WorkOfTransaction, Vetted, Preparing, Moving
<1>7. live' = [s \in Slot |-> live'[s]]
  BY <1>1, Zenon DEF IInv, Stores
<1>8. CASE quar' = quar /\ quar' # Laid(p, TRUE)
  <2>1. quar' = [s \in Slot |-> quar'[s]]
    BY <1>8, Zenon DEF IInv, Stores
  <2>2. ListsOfTransaction' /\ Complete'
    BY <1>1, <1>2, <1>4, <1>8 DEF IInv, ListsOfTransaction, Complete, Preparing
  <2> QED
    BY <1>5, <1>6, <1>7, <2>1, <2>2 DEF IInv, Stores
<1>9. ASSUME NEW data \in BOOLEAN, quar' = Laid(p, data) PROVE IInv'
  <2>1. quar' = [s \in Slot |-> quar'[s]]
    BY <1>9 DEF Laid
  <2>2. \A r \in Pkg, a \in Area :
          quar'[<<a, r>>] = IF r = p THEN txn[p] ELSE quar[<<a, r>>]
    BY <1>9, LaidLists
  <2>3. ListsOfTransaction'
    BY <1>1, <1>2, <1>3, <2>2, FilesArea, ZenonT(30) DEF IInv, ListsOfTransaction, Preparing
  <2>4. Complete'
    <3> SUFFICES ASSUME pc' = "extract", ~forgiving, NEW r \in DOMAIN txn \ todo', NEW a \in Area
                 PROVE  quar'[<<a, r>>] = txn[r]
      BY <1>2 DEF Complete
    <3>1. r \in Pkg
      BY <1>1, InstallAssumption
    <3>2. r # p => quar[<<a, r>>] = txn[r]
      BY <1>1, <1>4 DEF IInv, Complete
    <3> QED
      BY <2>2, <3>1, <3>2
  <2> QED
    BY <1>5, <1>6, <1>7, <2>1, <2>3, <2>4 DEF IInv, Stores
<1> QED
  BY <1>8, <1>9 DEF Extract

(* What an archive holds beyond or against its lists is no list.           *)
LEMMA SpoilIInv == ASSUME IInv, NEW s \in Slot, Spoil(s) PROVE IInv'
<1>1. /\ pc = "extract" /\ pc' = pc /\ todo' = todo /\ s[1] = "root"
      /\ live' = live /\ UNCHANGED operation
  BY DEF Spoil
<1>2. PICK c : quar' = [quar EXCEPT ![s] = c]
  BY DEF Spoil
<1>3. txn' = txn /\ (forgiving' <=> forgiving)
  BY <1>1, FlagsKept
<1>4. quar' = [t \in Slot |-> IF t = s THEN c ELSE quar[t]]
  BY <1>2 DEF IInv, Stores
<1>5. Stores'
  BY <1>1, <1>4 DEF IInv, Stores
<1>6. \A a \in Area, p \in Pkg : quar'[<<a, p>>] = quar[<<a, p>>]
  BY <1>1, <1>4, AreaSlots
<1>7. ListsOfTransaction'
  BY <1>1, <1>3, <1>6, FilesArea, ZenonT(30) DEF IInv, ListsOfTransaction, Preparing
<1>8. Complete'
  <2>1. DOMAIN txn \subseteq Pkg
    BY <1>1, InstallAssumption DEF IInv, WorkOfTransaction, Preparing
  <2> QED
    BY <1>1, <1>3, <1>6, <2>1 DEF IInv, Complete
<1>9. ListedIsVetted'
  BY <1>1, LiveStep DEF IInv
<1>10. WorkOfTransaction' /\ Vetted'
  BY <1>1, <1>3 DEF IInv, WorkOfTransaction, Vetted, Preparing, Moving
<1> QED
  BY <1>5, <1>7, <1>8, <1>9, <1>10 DEF IInv

(* Validation compares every path that a package of the transaction lists. *)
LEMMA JudgeIInv == ASSUME IInv, Judge PROVE IInv'
<1>1. /\ pc = "extract" /\ todo = {} /\ quar' = quar /\ live' = live /\ UNCHANGED operation
      /\ pc' \in {"root", "idle"}
  BY DEF Judge, ErrorOr, Exit
<1>2. txn' = txn /\ (Strict' <=> Strict)
  BY <1>1, FlagsKept
<1>3. pc' = "root" /\ Strict => Validated /\ ~forgiving
  BY StrictMeans DEF Judge, ErrorOr, Exit
<1>4. Stores'
  BY <1>1, Zenon DEF IInv, Stores
<1>5. ListedIsVetted'
  BY <1>1, LiveStep DEF IInv
<1>6. WorkOfTransaction' /\ ListsOfTransaction' /\ Complete'
  BY <1>1 DEF WorkOfTransaction, ListsOfTransaction, Complete, Preparing
<1>7. Vetted'
  <2> SUFFICES ASSUME pc' = "root", Strict, NEW s \in Slot, s[1] = "root", quar[s] # Absent,
                      Listed(s) # {}
               PROVE  quar[s] \in Listed(s) /\ s[2] \notin Restricted
    BY <1>1, <1>2, ListedKept DEF Vetted, Moving
  <2>1. PICK p \in DOMAIN txn : s \in DOMAIN Entries(p, txn[p])
    BY DEF Listed
  <2>2. p \in Pkg
    BY <1>1, InstallAssumption DEF IInv, WorkOfTransaction, Preparing
  <2>3. quar[<<"files", p>>] = txn[p] /\ quar[<<"links", p>>] = txn[p]
    BY <1>1, <1>3, FilesArea DEF IInv, Complete
  <2>4. s \in ListOf(quar, p)
    BY <2>1, <2>2, <2>3, EntriesDomain
  <2>5. quar[s] = Entries(p, txn[p])[s] /\ s[2] \notin Restricted
    BY <1>3, <2>1, <2>3, <2>4 DEF Validated, Intact, Permitted
  <2> QED
    BY <2>1, <2>5 DEF Listed
<1> QED
  BY <1>4, <1>5, <1>6, <1>7 DEF IInv

(* The moves: an old content goes, a vetted one comes.                     *)
LEMMA DisplaceIInv == ASSUME IInv, NEW s \in Slot, Displace(s) \/ Clear(s) PROVE IInv'
<1>1. /\ live' = [live EXCEPT ![s] = Absent]
      /\ UNCHANGED <<quar, pc, operation>>
      /\ todo' = todo \/ pc = "clear"
  BY DEF Displace, Clear
<1>2. live' = [t \in Slot |-> IF t = s THEN Absent ELSE live[t]]
  BY <1>1 DEF IInv, Stores
<1>3. ListedIsVetted'
  BY <1>1, <1>2, LiveStep DEF IInv
<1>4. (Preparing' => Preparing /\ todo' \subseteq todo \cup DOMAIN txn) /\ (Moving' => Moving)
      /\ (pc' = "extract" => pc = "extract" /\ todo' = todo)
  BY <1>1 DEF Preparing, Moving
<1>5. /\ WorkOfTransaction' /\ ListsOfTransaction' /\ Complete' /\ Vetted'
      /\ quar' = [t \in Slot |-> quar'[t]]
  BY <1>1, <1>4, QuarKept
<1> QED
  BY <1>2, <1>3, <1>5 DEF IInv, Stores

(* What is moved in is vetted.                                             *)
LEMMA PlaceIInv == ASSUME IInv, NEW s \in Slot, Place(s) PROVE IInv'
<1>1. /\ Moving /\ pc' = pc /\ UNCHANGED operation
      /\ \/ /\ live' = [live EXCEPT ![s] = quar[s]]
            /\ quar' = [quar EXCEPT ![s] = Absent]
         \/ UNCHANGED <<live, quar>>
  BY DEF Place
<1>2. txn' = txn /\ (Strict' <=> Strict)
  BY <1>1, FlagsKept
<1>3. /\ live' = [t \in Slot |-> live'[t]]
      /\ quar' = [t \in Slot |-> quar'[t]]
      /\ \A t \in Slot : live'[t] = live[t] \/ (t = s /\ live'[t] = quar[s])
      /\ \A t \in Slot : quar'[t] = quar[t] \/ quar'[t] = Absent
  <2>1. CASE UNCHANGED <<live, quar>>
    BY <2>1, Zenon DEF IInv, Stores
  <2>2. CASE live' = [live EXCEPT ![s] = quar[s]] /\ quar' = [quar EXCEPT ![s] = Absent]
    <3>1. live' = [t \in Slot |-> IF t = s THEN quar[s] ELSE live[t]]
      BY <2>2 DEF IInv, Stores
    <3>2. quar' = [t \in Slot |-> IF t = s THEN Absent ELSE quar[t]]
      BY <2>2 DEF IInv, Stores
    <3> QED
      BY <3>1, <3>2
  <2> QED
    BY <1>1, <2>1, <2>2
<1>4. ListedIsVetted'
  BY <1>1, <1>3, LiveStep DEF IInv, Vetted
<1>5. WorkOfTransaction' /\ ListsOfTransaction' /\ Complete'
  BY <1>1 DEF WorkOfTransaction, ListsOfTransaction, Complete, Preparing, Moving
<1>6. Vetted'
  BY <1>1, <1>2, <1>3, ListedKept DEF IInv, Vetted, Moving
<1> QED
  BY <1>3, <1>4, <1>5, <1>6 DEF IInv, Stores

(* Every step preserves the invariant.                                     *)
LEMMA NextIInv == IInv /\ [Next]_vars => IInv'
<1> SUFFICES ASSUME IInv, [Next]_vars PROVE IInv'
  OBVIOUS
<1>1. ASSUME NEW q \in Installs, NEW f, BeginInstall(q, f) PROVE IInv'
  BY <1>1, BeginIInv DEF BeginInstall
<1>2. ASSUME NEW S \in Removals, NEW f, BeginRemove(S, f) PROVE IInv'
  BY <1>2, BeginIInv DEF BeginRemove
<1>3. ASSUME UNCHANGED <<live, quar, operation>>,
             Preparing' => Preparing /\ todo' \subseteq todo \cup DOMAIN txn,
             pc' = "extract" => \/ todo' = DOMAIN txn
                                \/ pc = "extract" /\ (todo' = todo \/ forgiving),
             Moving' => Moving
      PROVE  IInv'
  <2>1. ListedIsVetted'
    BY <1>3, LiveStep DEF IInv
  <2>2. live' = [s \in Slot |-> live'[s]]
    BY <1>3, Zenon DEF IInv, Stores
  <2> QED
    BY <1>3, <2>1, <2>2, QuarKept DEF IInv, Stores
<1>4. ASSUME NEW p \in Pkg, Download(p) \/ Get(p) PROVE IInv'
  <2>1. CASE Download(p)
    BY <1>3, <2>1 DEF Download, Preparing, Moving
  <2>2. CASE Get(p)
    <3>1. /\ UNCHANGED <<live, quar, operation>> /\ pc = "get"
          /\ \/ pc' = "extract" /\ todo' = DOMAIN txn
             \/ pc' = "get" /\ todo' = todo \ {p}
             \/ pc' = "idle"
      BY <2>2 DEF Get, ErrorOr, Exit
    <3> QED
      BY <1>3, <3>1 DEF Preparing, Moving
  <2> QED
    BY <1>4, <2>1, <2>2
<1>5. CASE Downloaded
  BY <1>3, <1>5 DEF Downloaded, Exit, Preparing, Moving
<1>6. ASSUME NEW p \in Pkg, Extract(p) PROVE IInv'
  BY <1>6, ExtractIInv
<1>7. ASSUME NEW s \in Slot, Spoil(s) PROVE IInv'
  BY <1>7, SpoilIInv
<1>8. CASE Judge
  BY <1>8, JudgeIInv
<1>9. ASSUME NEW s \in Slot, Displace(s) \/ Clear(s) PROVE IInv'
  BY <1>9, DisplaceIInv
<1>10. ASSUME NEW s \in Slot, Place(s) PROVE IInv'
  BY <1>10, PlaceIInv
<1>11. CASE NextPhase
  BY <1>3, <1>11 DEF NextPhase, Following, Preparing, Moving
<1>12. CASE Wipe
  <2>1. /\ quar' = Nowhere /\ live' = live /\ UNCHANGED operation
        /\ pc' \in {"clear", "idle"}
    BY <1>12 DEF Wipe, ErrorOr, Exit
  <2>2. ListedIsVetted'
    BY <2>1, LiveStep DEF IInv
  <2>3. Stores'
    BY <2>1, Zenon DEF IInv, Stores, Nowhere
  <2> QED
    BY <2>1, <2>2, <2>3
       DEF IInv, WorkOfTransaction, ListsOfTransaction, Complete, Vetted, Preparing, Moving
<1>13. CASE Cleared \/ Removed \/ Crash
  BY <1>3, <1>13 DEF Cleared, Removed, Crash, Exit, Preparing, Moving
<1>14. ASSUME NEW w \in todo, RemoveFile(w) PROVE IInv'
  <2>1. /\ live' = [live EXCEPT ![w[3]] = Absent] /\ pc = "remove"
        /\ UNCHANGED <<quar, pc, operation>>
    BY <1>14 DEF RemoveFile
  <2>2. live' = [s \in Slot |-> IF s = w[3] THEN Absent ELSE live[s]]
    BY <2>1 DEF IInv, Stores
  <2>3. ListedIsVetted'
    BY <2>1, <2>2, LiveStep DEF IInv
  <2>4. quar' = [s \in Slot |-> quar'[s]]
    BY <2>1, Zenon DEF IInv, Stores
  <2> QED
    BY <2>1, <2>2, <2>3, <2>4
       DEF IInv, Stores, WorkOfTransaction, ListsOfTransaction, Complete, Vetted, Preparing,
         Moving
<1>15. CASE Done \/ UNCHANGED vars
  BY <1>3, <1>15 DEF Done, vars, Preparing, Moving
<1> QED
  BY <1>1, <1>2, <1>4, <1>5, <1>6, <1>7, <1>8, <1>9, <1>10, <1>11, <1>12, <1>13, <1>14, <1>15
     DEF Next

(* The invariant holds in every reachable state of every instance.         *)
THEOREM Invariance == Spec => []IInv
<1> QED
  BY InitIInv, NextIInv, PTL DEF Spec

(* A path that the transaction lists gets nothing but what one of its      *)
(* packages lists for it, and nothing at all if it is restricted, whatever *)
(* an archive holds and whatever fails, is spoilt or is killed meanwhile,  *)
(* unless errors or the validation were to be ignored: for every set of    *)
(* packages, lists and transactions (quarantine_validate).                 *)
THEOREM ListedPathsAreVetted == Spec => []ListedIsVetted
<1>1. IInv => ListedIsVetted
  BY DEF IInv
<1> QED
  BY <1>1, Invariance, PTL

----------------------------------------------------------------------------

(* An installation is under way.                                           *)
Doing == pc \notin {"idle", "remove"}

InTransaction == (Doing => txn \in Installs) /\ (pc = "remove" => DOMAIN txn = {})
InPhase ==
  pc \in {"idle", "download", "get", "extract", "root", "files", "links", "metadata", "wipe",
          "clear", "remove"}
StillOpen == pc # "idle" => outcome = "none"

(* Before anything is moved the system is what it was.                     *)
Untouched == Preparing => live = before /\ cur = {} /\ missed = {}
Scope ==
  /\ Moving => \A s \in todo : s \in Slot /\ s[1] = pc /\ quar[s] # Absent
  /\ pc = "clear" => todo \subseteq leftovers
LeftoversAreFiles == \A s \in leftovers : s \in Slot /\ s[1] = "root"

(* Where something is missing that was there, and why.                     *)
Lost ==
  Doing => \A s \in Slot : before[s] # Absent /\ live[s] = Absent =>
             s \in cur \cup missed \/ (pc = "clear" /\ s \in leftovers)
MissedIsTold ==
  /\ Moving \/ pc = "wipe" => missed = {} \/ errors
  /\ pc = "clear" /\ ~forgiving => missed = {}
ClearedIsGone == pc = "clear" => \A s \in leftovers \ todo : live[s] = Absent

(* The metadata of the system is as it was until its phase, and that of    *)
(* packages outside the transaction is always.                             *)
ListsAreOurs ==
  Doing => \A p \in Pkg, a \in Area : quar[<<a, p>>] # Absent => p \in DOMAIN txn
MetadataKept ==
  Doing => \A p \in Pkg : pc \in {"root", "files", "links"} \/ p \notin DOMAIN txn =>
             live[<<"metadata", p>>] = before[<<"metadata", p>>]

(* What is left over another package of the transaction has given up.      *)
LeftIsGivenUp ==
  Doing /\ ~Preparing /\ ~forgiving =>
    \A s \in leftovers : \E r \in DOMAIN txn : s \in ListOf(before, r) \ DOMAIN Entries(r, txn[r])

(* Each slot of a package of the transaction waits in the quarantine or is *)
(* where it belongs, or its move has failed.                               *)
Ahead(phase) ==
  CASE phase = "root" -> Area [] phase = "files" -> {"links", "metadata"}
    [] phase = "links" -> {"metadata"} [] phase = "metadata" -> {}
Waits(s) == Moving /\ (s \in todo \/ s[1] \in Ahead(pc))
Wanted(p) == DOMAIN Entries(p, txn[p]) \cup Area \X {p}
Fits(store, p, s) == IF s[1] = "root" THEN store[s] \in Listed(s) ELSE store[s] = txn[p]
EachSlot ==
  Doing /\ ~Preparing /\ Strict =>
    \A p \in DOMAIN txn : \A s \in Wanted(p) :
      IF Waits(s) THEN Fits(quar, p, s)
      ELSE Fits(live, p, s) \/ s \in missed
           \/ (pc = "clear" /\ s \in leftovers /\ live[s] = Absent)

(* A removal that has yet to forget a package has yet to remove what is    *)
(* left of its files.                                                      *)
RemovalWork ==
  pc = "remove" =>
    \A u \in todo :
      /\ u = <<u[1], u[2], u[3]>> /\ u[1] \in Pkg /\ u[2] \in 1 .. 5
      /\ IF u[2] = 3 THEN u[3] = <<"metadata", u[1]>> ELSE u[3][1] # "metadata"
RemovalOrder ==
  pc = "remove" /\ "without-files" \notin flags =>
    \A p \in Pkg : <<p, 3, <<"metadata", p>> >> \in todo =>
      \A s \in ListOf(before, p) :
        live[s] = Absent \/ <<p, 1, s>> \in todo \/ <<p, 2, s>> \in todo

Core ==
  /\ InTransaction /\ InPhase /\ StillOpen /\ Untouched /\ Scope /\ LeftoversAreFiles
  /\ Lost /\ MissedIsTold /\ ClearedIsGone /\ ListsAreOurs /\ MetadataKept /\ LeftIsGivenUp
     /\ EachSlot
  /\ RemovalWork /\ RemovalOrder

Promises ==
  /\ NothingLost /\ MetadataLast /\ OldGoesLast /\ ExitZeroMeansInstalled /\ ForgottenAfterFiles

OInv == Core /\ Promises

----------------------------------------------------------------------------
(* What the assumptions say of the packages and slots of a transaction.    *)
LEMMA OfTransaction ==
  ASSUME Core, Doing, NEW p \in DOMAIN txn
  PROVE  /\ p \in Pkg /\ txn[p] \in Ver /\ txn[p] # Absent
         /\ \A s \in Wanted(p) : s \in Slot
         /\ \A s \in Wanted(p) : s[1] = "root" <=> s \in DOMAIN Entries(p, txn[p])
         /\ \A a \in Area : <<a, p>> \in Wanted(p) /\ <<a, p>>[1] = a /\ a # "root"
<1>1. p \in Pkg /\ txn[p] \in Ver /\ txn[p] # Absent
  BY InstallAssumption DEF Core, InTransaction
<1>2. \A s \in DOMAIN Entries(p, txn[p]) : s \in Slot /\ s[1] = "root"
  <2>1. DOMAIN Files[p][txn[p]] \subseteq Path /\ DOMAIN Links[p][txn[p]] \subseteq Path
    BY <1>1, InstallAssumption DEF IsList
  <2> QED
    BY <1>1, <2>1 DEF Entries, Paths, Root, Slot
<1>3. \A a \in Area : <<a, p>> \in Slot /\ a # "root"
  BY <1>1 DEF Slot, Area
<1> QED
  BY <1>1, <1>2, <1>3 DEF Wanted

(* Nothing lists the absence of a file.                                    *)
LEMMA ListedPresent ==
  ASSUME Core, Doing, NEW s PROVE Absent \notin Listed(s)
<1> SUFFICES ASSUME NEW p \in DOMAIN txn, s \in DOMAIN Entries(p, txn[p])
             PROVE  Entries(p, txn[p])[s] # Absent
  BY DEF Listed
<1>1. p \in Pkg /\ txn[p] \in Ver /\ txn[p] # Absent
  BY OfTransaction
<1>2. PICK x \in Paths(Files, p, txn[p]) \cup Paths(Links, p, txn[p]) : s = Root(x)
  BY DEF Entries
<1>3. Entries(p, txn[p])[s] = IF x \in Paths(Files, p, txn[p]) THEN Files[p][txn[p]][x]
                                                             ELSE Links[p][txn[p]][x]
  BY <1>2 DEF Entries, Root
<1>4. Entries(p, txn[p])[s] \in Content
  BY <1>1, <1>2, <1>3, InstallAssumption DEF IsList, Paths
<1> QED
  BY <1>4, InstallAssumption

(* What waits in the quarantine is there.                                  *)
LEMMA FitsPresent ==
  ASSUME Core, Doing, NEW p \in DOMAIN txn, NEW s \in Wanted(p), NEW store, Fits(store, p, s)
  PROVE  store[s] # Absent
BY OfTransaction, ListedPresent DEF Fits

(* What a package wants depends on the transaction only.                   *)
LEMMA WantedKept ==
  ASSUME txn' = txn
  PROVE  /\ \A p \in DOMAIN txn : Wanted(p)' = Wanted(p)
         /\ \A s \in Slot : Listed(s)' = Listed(s)
BY ListedKept DEF Wanted, Entries

----------------------------------------------------------------------------
(* What is cleared of a package another one has given up.                  *)
LEMMA ClearedIsGivenUp ==
  ASSUME Core, Doing, ~Preparing, ~forgiving, NEW p \in DOMAIN txn,
         NEW s \in DOMAIN Entries(p, txn[p]), s \in leftovers
  PROVE  s \in GivenUp(p)
<1>1. PICK r \in DOMAIN txn : s \in ListOf(before, r) \ DOMAIN Entries(r, txn[r])
  BY DEF Core, LeftIsGivenUp
<1>2. r # p
  BY <1>1
<1> QED
  BY <1>1, <1>2 DEF GivenUp

(* Once the metadata has its turn the rest is in place.                    *)
LEMMA Arrived ==
  ASSUME Core, Strict, pc \in {"metadata", "wipe", "clear"}, NEW p \in DOMAIN txn
  PROVE  /\ InPlace(p, missed)
         /\ pc = "clear" => InPlace(p, {}) /\ \A a \in Area : live[<<a, p>>] = txn[p]
<1>1. Doing /\ ~Preparing /\ ~forgiving
  BY StrictMeans DEF Doing, Preparing
<1>2. \A s \in Wanted(p) : s[1] # pc => ~Waits(s)
  BY DEF Core, Scope, Waits, Ahead, Moving
<1>3. \A s \in Wanted(p) :
        s[1] # pc => \/ Fits(live, p, s) \/ s \in missed
                     \/ (pc = "clear" /\ s \in leftovers /\ live[s] = Absent)
  BY <1>1, <1>2 DEF Core, EachSlot
<1>4. \A a \in Area : a # pc => live[<<a, p>>] = txn[p] \/ <<a, p>> \in missed
  <2> SUFFICES ASSUME NEW a \in Area, a # pc
               PROVE  live[<<a, p>>] = txn[p] \/ <<a, p>> \in missed
    OBVIOUS
  <2>1. <<a, p>> \in Wanted(p) /\ <<a, p>>[1] = a /\ a # "root"
    BY <1>1, OfTransaction
  <2>2. <<a, p>> \notin leftovers
    BY <2>1 DEF Core, LeftoversAreFiles
  <2>3. Fits(live, p, <<a, p>>) \/ <<a, p>> \in missed
    BY <1>3, <2>1, <2>2
  <2> QED
    BY <2>1, <2>3 DEF Fits
<1>5. \A s \in DOMAIN Entries(p, txn[p]) :
        live[s] \in Listed(s) \/ s \in missed \/ (live[s] = Absent /\ s \in GivenUp(p))
  <2> SUFFICES ASSUME NEW s \in DOMAIN Entries(p, txn[p])
               PROVE  \/ live[s] \in Listed(s) \/ s \in missed
                      \/ live[s] = Absent /\ s \in GivenUp(p)
    OBVIOUS
  <2>1. s \in Wanted(p)
    BY DEF Wanted
  <2>2. s[1] = "root"
    BY <1>1, <2>1, OfTransaction
  <2>3. s \in leftovers => s \in GivenUp(p)
    BY <1>1, ClearedIsGivenUp
  <2> QED
    BY <1>3, <2>1, <2>2, <2>3 DEF Fits
<1>6. InPlace(p, missed)
  BY <1>4, <1>5 DEF InPlace, Area
<1>7. pc = "clear" => missed = {}
  BY <1>1 DEF Core, MissedIsTold
<1> QED
  BY <1>4, <1>6, <1>7 DEF Area

(* During an installation the promises follow from where each slot is.     *)
LEMMA DoingKeepsPromises == Core /\ Doing => Promises
<1> SUFFICES ASSUME Core, Doing PROVE Promises
  OBVIOUS
<1>1. NothingLost
  BY DEF Core, Lost, NothingLost
<1>2. ExitZeroMeansInstalled
  BY DEF Core, StillOpen, Doing, ExitZeroMeansInstalled
<1>3. ForgottenAfterFiles
  BY DEF Core, MetadataKept, ForgottenAfterFiles, Installing
<1>4. MetadataLast
  <2> SUFFICES ASSUME Strict, NEW p \in DOMAIN txn,
                      live[<<"metadata", p>>] # before[<<"metadata", p>>]
               PROVE  InPlace(p, missed)
    BY DEF MetadataLast
  <2>1. p \in Pkg
    BY OfTransaction
  <2>2. ~Preparing /\ pc \notin {"root", "files", "links"}
    BY <2>1 DEF Core, Untouched, MetadataKept
  <2>3. pc \in {"metadata", "wipe", "clear"}
    BY <2>2 DEF Core, InPhase, Doing, Preparing
  <2> QED
    BY <2>3, Arrived
<1>5. OldGoesLast
  <2> SUFFICES ASSUME Strict, NEW s \in leftovers \ (cur \cup missed),
                      before[s] # Absent, live[s] = Absent, NEW p \in DOMAIN txn
               PROVE  live[<<"metadata", p>>] = txn[p] /\ InPlace(p, {})
    BY DEF OldGoesLast
  <2>1. pc = "clear"
    BY DEF Core, Lost, LeftoversAreFiles
  <2> QED
    BY <2>1, Arrived DEF Area
<1> QED
  BY <1>1, <1>2, <1>3, <1>4, <1>5 DEF Promises

(* What is in place depends on the store and the transaction only.         *)
LEMMA InPlaceKept ==
  ASSUME UNCHANGED <<live, txn, before>>
  PROVE  \A p, e : InPlace(p, e)' = InPlace(p, e)
<1>1. \A s : Listed(s)' = Listed(s)
  BY DEF Listed, Entries
<1>2. \A r : ListOf(before, r)' = ListOf(before, r)
  BY DEF ListOf
<1>3. \A r, v : Entries(r, v)' = Entries(r, v)
  BY DEF Entries
<1>4. \A r : Entries(r, txn[r])' = Entries(r, txn[r])
  BY DEF Entries
<1>5. \A p : GivenUp(p)' = GivenUp(p)
  BY <1>2, <1>4 DEF GivenUp
<1> QED
  BY <1>1, <1>4, <1>5 DEF InPlace

(* Between operations they hold because nothing changes.                   *)
LEMMA PromisesKept ==
  ASSUME Promises, UNCHANGED <<live, txn, before, flags, cur, missed, leftovers>>,
         outcome' = "ok" => ExitZeroMeansInstalled'
  PROVE  Promises'
<1>1. \A s : Listed(s)' = Listed(s)
  BY DEF Listed, Entries
<1>2. \A p, e : InPlace(p, e)' = InPlace(p, e)
  BY InPlaceKept
<1>3. missed' = missed /\ (Strict' <=> Strict)
  BY DEF Strict
<1>4. MetadataLast'
  BY <1>2, <1>3 DEF Promises, MetadataLast, Installing
<1>5. NothingLost' /\ OldGoesLast' /\ ForgottenAfterFiles'
  BY <1>2, <1>3 DEF Promises, NothingLost, OldGoesLast, ForgottenAfterFiles, Installing, ListOf
<1>6. ExitZeroMeansInstalled'
  BY DEF ExitZeroMeansInstalled
<1> QED
  BY <1>4, <1>5, <1>6 DEF Promises

(* An idle process has nothing to keep but the promises.                   *)
LEMMA IdleCore == ASSUME pc' = "idle", LeftoversAreFiles' PROVE Core'
BY DEF Core, Doing, InTransaction, InPhase, StillOpen, Untouched, Scope, Lost, MissedIsTold,
       ClearedIsGone, ListsAreOurs, MetadataKept, LeftIsGivenUp, EachSlot, RemovalWork, RemovalOrder,
       Preparing, Moving

(* An operation that ends otherwise than with 0.                           *)
LEMMA EndedOInv ==
  ASSUME OInv, pc' = "idle", outcome' # "ok",
         UNCHANGED <<live, txn, before, flags, cur, missed, leftovers>>
  PROVE  OInv'
<1>1. LeftoversAreFiles'
  BY DEF OInv, Core, LeftoversAreFiles
<1> QED
  BY <1>1, IdleCore, PromisesKept DEF OInv

----------------------------------------------------------------------------
(* The initial states.                                                     *)
LEMMA InitOInv == Init => OInv
<1> SUFFICES ASSUME Init PROVE OInv
  OBVIOUS
<1>1. pc = "idle" /\ live = before /\ leftovers = {} /\ txn = <<>> /\ outcome = "none"
  BY DEF Init
<1>2. Core
  BY <1>1 DEF Core, Doing, InTransaction, InPhase, StillOpen, Untouched, Scope, LeftoversAreFiles,
              Lost, MissedIsTold, ClearedIsGone, ListsAreOurs, MetadataKept, LeftIsGivenUp,
              EachSlot, RemovalWork, RemovalOrder, Preparing, Moving
<1>3. Promises
  BY <1>1 DEF Promises, NothingLost, MetadataLast, OldGoesLast, ExitZeroMeansInstalled,
              ForgottenAfterFiles
<1> QED
  BY <1>2, <1>3 DEF OInv

(* An operation that may not begin changes nothing.                        *)
LEMMA BarredOInv ==
  ASSUME NEW f, Begin(f), pc' = "idle", outcome' = "failed" PROVE OInv'
<1>1. before' = live /\ live' = live /\ leftovers' = {}
  BY DEF Begin
<1>2. Core'
  BY <1>1, IdleCore DEF LeftoversAreFiles
<1>3. Promises'
  BY <1>1 DEF Promises, NothingLost, MetadataLast, OldGoesLast, ExitZeroMeansInstalled,
              ForgottenAfterFiles
<1> QED
  BY <1>2, <1>3 DEF OInv

(* An installation begins with an empty quarantine.                        *)
LEMMA BeginInstallCore ==
  ASSUME NEW q \in Installs, NEW f, BeginInstall(q, f), pc' # "idle" PROVE Core' /\ Doing'
<1>1. /\ before' = live /\ live' = live /\ missed' = {} /\ cur' = {} /\ leftovers' = {}
      /\ outcome' = "none" /\ quar' = Nowhere /\ pc' = "download" /\ txn' = q
  BY DEF BeginInstall, Begin, Exit
<1>2. ListsAreOurs'
  BY <1>1, AreaSlots DEF ListsAreOurs, Nowhere
<1>3. MetadataKept' /\ Untouched' /\ Lost'
  BY <1>1 DEF MetadataKept, Untouched, Lost
<1>4. InTransaction' /\ InPhase' /\ StillOpen' /\ Scope' /\ LeftoversAreFiles' /\ MissedIsTold'
  BY <1>1 DEF InTransaction, InPhase, StillOpen, Scope, LeftoversAreFiles, MissedIsTold, Doing,
              Moving
<1>5. ClearedIsGone' /\ LeftIsGivenUp' /\ EachSlot' /\ RemovalWork' /\ RemovalOrder'
  BY <1>1 DEF ClearedIsGone, LeftIsGivenUp, EachSlot, RemovalWork, RemovalOrder, Preparing
<1> QED
  BY <1>1, <1>2, <1>3, <1>4, <1>5 DEF Core, Doing

LEMMA BeginInstallOInv ==
  ASSUME NEW q \in Installs, NEW f, BeginInstall(q, f) PROVE OInv'
<1>1. CASE pc' = "idle"
  <2>1. Begin(f) /\ outcome' = "failed"
    BY <1>1 DEF BeginInstall, Exit
  <2> QED
    BY <1>1, <2>1, BarredOInv
<1>2. CASE pc' # "idle"
  <2>1. Core' /\ Doing'
    BY <1>2, BeginInstallCore
  <2> QED
    BY <2>1, DoingKeepsPromises, PTL DEF OInv
<1> QED
  BY <1>1, <1>2

(* A removal begins with all that the lists name.                          *)
LEMMA BeginRemoveOInv ==
  ASSUME NEW S \in Removals, NEW f, BeginRemove(S, f), pc' # "idle" PROVE OInv'
<1> DEFINE present == { p \in S : live[<<"metadata", p>>] # Absent }
<1>1. /\ before' = live /\ live' = live /\ missed' = {} /\ cur' = {} /\ leftovers' = {}
      /\ outcome' = "none" /\ pc' = "remove" /\ txn' = <<>>
      /\ todo' = UNION { Work(p, f) : p \in present } /\ flags' = f
  BY DEF BeginRemove, Begin, Exit
<1>2. \A p \in present : p \in Pkg
  BY InstallAssumption
<1>3. \A u \in todo' : \E p \in present : u \in Work(p, f)
  BY <1>1
<1>4. \A p \in present : \A u \in Work(p, f) :
        /\ u = <<u[1], u[2], u[3]>> /\ u[1] = p /\ u[2] \in 1 .. 5
        /\ IF u[2] = 3 THEN u[3] = <<"metadata", p>> ELSE u[3][1] # "metadata"
  BY DEF Work, MetadataRank, Root
<1>5. RemovalWork'
  <2> SUFFICES ASSUME NEW u \in todo'
               PROVE  /\ u = <<u[1], u[2], u[3]>> /\ u[1] \in Pkg /\ u[2] \in 1 .. 5
                      /\ IF u[2] = 3 THEN u[3] = <<"metadata", u[1]>> ELSE u[3][1] # "metadata"
    BY DEF RemovalWork
  <2>1. PICK p \in present : u \in Work(p, f)
    BY <1>3
  <2> QED
    BY <1>2, <1>4, <2>1
<1>6. RemovalOrder'
  <2> SUFFICES ASSUME "without-files" \notin f,
                      NEW p \in Pkg, <<p, 3, <<"metadata", p>> >> \in todo',
                      NEW s \in ListOf(live, p)
               PROVE  <<p, 1, s>> \in todo' \/ <<p, 2, s>> \in todo'
    BY <1>1 DEF RemovalOrder, ListOf
  <2>1. p \in present
    BY <1>3, <1>4, ZenonT(30)
  <2>2. <<p, 1, s>> \in Work(p, f) \/ <<p, 2, s>> \in Work(p, f)
    BY DEF Work, ListOf
  <2> QED
    BY <1>1, <2>1, <2>2
<1>7. Core'
  BY <1>1, <1>5, <1>6
     DEF Core, Doing, InTransaction, InPhase, StillOpen, Untouched, Scope, LeftoversAreFiles,
         Lost, MissedIsTold, ClearedIsGone, ListsAreOurs, MetadataKept, LeftIsGivenUp, EachSlot,
         Preparing, Moving
<1>8. Promises'
  BY <1>1 DEF Promises, NothingLost, MetadataLast, OldGoesLast, ExitZeroMeansInstalled,
              ForgottenAfterFiles, Installing
<1> QED
  BY <1>7, <1>8 DEF OInv

----------------------------------------------------------------------------
(* A step within an installation leaves the transaction as it is.          *)
LEMMA SameTransaction ==
  ASSUME Core, Doing, UNCHANGED operation, Doing', pc' \in {"download", "get", "extract", "root",
                                                   "files", "links", "metadata", "wipe", "clear"}
  PROVE  /\ txn' = txn /\ before' = before /\ flags' = flags
         /\ (forgiving' <=> forgiving) /\ (Strict' <=> Strict)
         /\ InTransaction' /\ InPhase' /\ RemovalWork' /\ RemovalOrder'
BY FlagsKept DEF Core, Doing, InTransaction, InPhase, RemovalWork, RemovalOrder

LEMMA LeftKept ==
  ASSUME Core, Doing, ~Preparing, UNCHANGED <<leftovers, operation>> PROVE LeftIsGivenUp'
<1>1. leftovers' = leftovers /\ txn' = txn /\ before' = before /\ (forgiving' <=> forgiving)
  BY FlagsKept
<1>2. \A r : ListOf(before, r)' = ListOf(before, r) /\ Entries(r, txn[r])' = Entries(r, txn[r])
  BY <1>1 DEF ListOf, Entries
<1> QED
  BY <1>1, <1>2 DEF Core, LeftIsGivenUp

(* The steps before the quarantine is judged change the quarantine only.   *)
LEMMA PreparingCore ==
  ASSUME Core, Preparing, Preparing', UNCHANGED <<live, cur, missed, leftovers, operation>>,
         outcome' = outcome, ListsAreOurs'
  PROVE  Core' /\ Doing'
<1>1. Doing /\ Doing' /\ ~Moving' /\ pc' # "wipe" /\ pc' # "clear" /\ pc # "idle"
  BY DEF Doing, Preparing, Moving
<1>2. /\ txn' = txn /\ before' = before /\ flags' = flags /\ (forgiving' <=> forgiving)
         /\ (Strict' <=> Strict)
      /\ InTransaction' /\ InPhase' /\ RemovalWork' /\ RemovalOrder'
  BY <1>1, SameTransaction DEF Preparing
<1>3. StillOpen' /\ Untouched' /\ LeftoversAreFiles'
  BY <1>1, <1>2 DEF Core, StillOpen, Untouched, LeftoversAreFiles
<1>4. Scope' /\ MissedIsTold' /\ ClearedIsGone' /\ LeftIsGivenUp' /\ EachSlot'
  BY <1>1 DEF Scope, MissedIsTold, ClearedIsGone, LeftIsGivenUp, EachSlot
<1>5. live' = before'
  BY <1>2 DEF Core, Untouched
<1>6. Lost' /\ MetadataKept'
  BY <1>5 DEF Lost, MetadataKept
<1> QED
  BY <1>1, <1>2, <1>3, <1>4, <1>6 DEF Core

(* The downloads leave the quarantine empty.                               *)
LEMMA DownloadOInv ==
  ASSUME OInv, (\E p \in Pkg : Download(p) \/ Get(p)) \/ Downloaded PROVE OInv'
<1>1. /\ pc \in {"download", "get"}
      /\ UNCHANGED <<live, quar, cur, missed, leftovers, operation>>
      /\ \/ pc' = "idle" /\ (outcome' = "ok" => "download-only" \in flags)
         \/ pc' \in {"download", "get", "extract"} /\ outcome' = outcome
  BY DEF Download, Get, Downloaded, ErrorOr, Exit
<1>2. Core /\ Doing /\ Preparing /\ txn' = txn /\ before' = before /\ flags' = flags
  BY <1>1, FlagsKept DEF OInv, Doing, Preparing
<1>3. CASE pc' = "idle"
  <2>1. outcome' = "ok" => ExitZeroMeansInstalled'
    BY <1>1, <1>2, <1>3 DEF ExitZeroMeansInstalled
  <2>2. LeftoversAreFiles'
    BY <1>1 DEF OInv, Core, LeftoversAreFiles
  <2> QED
    BY <1>1, <1>2, <1>3, <2>1, <2>2, IdleCore, PromisesKept DEF OInv
<1>4. CASE pc' # "idle"
  <2>1. ListsAreOurs'
    BY <1>1, <1>2, <1>4 DEF Core, ListsAreOurs
  <2>2. Core' /\ Doing'
    BY <1>1, <1>2, <1>4, <2>1, PreparingCore DEF Preparing
  <2> QED
    BY <2>2, DoingKeepsPromises, PTL DEF OInv
<1> QED
  BY <1>3, <1>4

(* What is extracted is complete, or the process ends.                     *)
LEMMA ExtractOInv == ASSUME OInv, IInv, NEW p \in Pkg, Extract(p) PROVE OInv'
<1>1. /\ pc = "extract" /\ p \in todo /\ UNCHANGED <<live, cur, missed, leftovers, operation>>
      /\ \/ pc' = "idle" /\ outcome' = "failed"
         \/ pc' = "extract" /\ outcome' = outcome /\ todo' = todo \ {p}
      /\ quar' = quar \/ quar' = Laid(p, TRUE) \/ quar' = Laid(p, FALSE)
  BY DEF Extract, ErrorOr, Exit
<1>2. Core /\ Doing /\ Preparing /\ txn' = txn /\ before' = before /\ flags' = flags
      /\ (forgiving' <=> forgiving) /\ (Strict' <=> Strict)
  BY <1>1 DEF OInv, Doing, Preparing, operation, forgiving, Strict
<1>3. CASE pc' = "idle"
  BY <1>1, <1>2, <1>3, EndedOInv
<1>4. CASE pc' = "extract"
  <2> DEFINE laid(r, a) == IF r = p THEN txn[p] ELSE quar[<<a, r>>]
  <2>1. \A r \in Pkg, a \in Area :
          Laid(p, TRUE)[<<a, r>>] = laid(r, a) /\ Laid(p, FALSE)[<<a, r>>] = laid(r, a)
    BY LaidLists
  <2>2. \A r \in Pkg, a \in Area :
          quar'[<<a, r>>] = quar[<<a, r>>] \/ (r = p /\ quar'[<<a, r>>] = txn[p])
    BY <1>1, <2>1
  <2>3. p \in DOMAIN txn
    BY <1>1 DEF IInv, WorkOfTransaction, Preparing
  <2>4. ListsAreOurs'
    BY <1>2, <2>2, <2>3 DEF Core, ListsAreOurs
  <2>6. Core' /\ Doing'
    BY <1>1, <1>2, <1>4, <2>4, PreparingCore DEF Preparing
  <2> QED
    BY <2>6, DoingKeepsPromises, PTL DEF OInv
<1> QED
  BY <1>1, <1>3, <1>4

(* What is spoilt is a file, not a list.                                   *)
LEMMA SpoilOInv == ASSUME OInv, IInv, NEW s \in Slot, Spoil(s) PROVE OInv'
<1>1. /\ pc = "extract" /\ pc' = pc /\ todo' = todo /\ s[1] = "root" /\ outcome' = outcome
      /\ UNCHANGED <<live, cur, missed, leftovers, operation>>
  BY DEF Spoil
<1>2. Core /\ Preparing /\ Preparing' /\ txn' = txn /\ flags' = flags
      /\ (forgiving' <=> forgiving) /\ (Strict' <=> Strict)
  BY <1>1 DEF OInv, Preparing, operation, forgiving, Strict
<1>3. PICK c : quar' = [quar EXCEPT ![s] = c]
  BY DEF Spoil
<1>4. quar' = [t \in Slot |-> IF t = s THEN c ELSE quar[t]]
  BY <1>3 DEF IInv, Stores
<1>5. \A a \in Area, p \in Pkg : quar'[<<a, p>>] = quar[<<a, p>>]
  BY <1>1, <1>4, AreaSlots
<1>6. ListsAreOurs'
  BY <1>2, <1>5 DEF Core, ListsAreOurs, Doing, Preparing
<1>8. Core' /\ Doing'
  BY <1>1, <1>2, <1>6, PreparingCore
<1> QED
  BY <1>8, DoingKeepsPromises, PTL DEF OInv

(* The lists and metadata on the disk are of versions, so that what they   *)
(* name are paths.                                                         *)
Versions ==
  \A a \in Area, p \in Pkg :
    /\ live[<<a, p>>] \in Ver \cup {Absent}
    /\ quar[<<a, p>>] \in Ver \cup {Absent}
    /\ before[<<a, p>>] \in Ver \cup {Absent}

LEMMA ListedPaths ==
  ASSUME NEW store, NEW p \in Pkg,
         store[<<"files", p>>] \in Ver \cup {Absent}, store[<<"links", p>>] \in Ver \cup {Absent}
  PROVE  \A s \in ListOf(store, p) : s \in Slot /\ s[1] = "root"
<1>1. /\ Paths(Files, p, store[<<"files", p>>]) \subseteq Path
      /\ Paths(Links, p, store[<<"links", p>>]) \subseteq Path
  BY InstallAssumption DEF Paths, IsList
<1> QED
  BY <1>1 DEF ListOf, Root, Slot

(* Every file to be moved waits when the quarantine has been judged.       *)
LEMMA JudgeOInv == ASSUME OInv, IInv, Versions, Judge PROVE OInv'
<1>1. /\ pc = "extract" /\ todo = {} /\ UNCHANGED <<live, quar, cur, missed, operation>>
      /\ leftovers' = UNION { Leftover(p) : p \in DOMAIN txn }
      /\ \/ pc' = "idle" /\ outcome' = "failed"
         \/ /\ pc' = "root" /\ outcome' = outcome /\ todo' = Quarantined("root")
            /\ Strict => Validated
  BY StrictMeans DEF Judge, ErrorOr, Exit
<1>2. Core /\ Doing /\ Preparing /\ txn' = txn /\ before' = before /\ flags' = flags
      /\ (forgiving' <=> forgiving) /\ (Strict' <=> Strict)
  BY <1>1 DEF OInv, Doing, Preparing, operation, forgiving, Strict
<1>3. live' = before' /\ missed' = {}
  BY <1>1, <1>2 DEF Core, Untouched
<1>4. LeftoversAreFiles'
  <2> SUFFICES ASSUME NEW p \in DOMAIN txn, NEW s \in Leftover(p)
               PROVE  s \in Slot /\ s[1] = "root"
    BY <1>1 DEF LeftoversAreFiles
  <2>1. p \in Pkg
    BY <1>2, OfTransaction
  <2>2. s \in ListOf(live, p)
    BY DEF Leftover
  <2>3. live[<<"files", p>>] \in Ver \cup {Absent} /\ live[<<"links", p>>] \in Ver \cup {Absent}
    BY <2>1, FilesArea DEF Versions
  <2> QED
    BY <2>1, <2>2, <2>3, ListedPaths
<1>5. CASE pc' = "idle"
  <2>1. NothingLost' /\ MetadataLast' /\ OldGoesLast' /\ ForgottenAfterFiles'
    BY <1>3 DEF NothingLost, MetadataLast, OldGoesLast, ForgottenAfterFiles
  <2>2. ExitZeroMeansInstalled'
    BY <1>1, <1>5 DEF ExitZeroMeansInstalled
  <2> QED
    BY <1>4, <1>5, <2>1, <2>2, IdleCore DEF OInv, Promises
<1>6. CASE pc' = "root"
  <2>1. Doing' /\ ~Preparing' /\ Moving' /\ todo' = Quarantined("root")
    BY <1>1, <1>6 DEF Doing, Preparing, Moving
  <2>2. InTransaction' /\ InPhase' /\ RemovalWork' /\ RemovalOrder'
    BY <1>1, <1>2, <1>6, <2>1, SameTransaction
  <2>3. StillOpen' /\ Untouched' /\ ClearedIsGone'
    BY <1>1, <1>2, <1>6, <2>1 DEF Core, StillOpen, Untouched, ClearedIsGone
  <2>4. Scope'
    BY <1>1, <1>6, <2>1 DEF Scope, Quarantined
  <2>5. Lost' /\ MetadataKept' /\ MissedIsTold'
    BY <1>3, <1>6 DEF Lost, MetadataKept, MissedIsTold
  <2>6. ListsAreOurs'
    BY <1>1, <1>2 DEF Core, ListsAreOurs
  <2>7. EachSlot'
    <3> SUFFICES ASSUME Strict, NEW p \in DOMAIN txn, NEW s \in Wanted(p)
                 PROVE  Waits(s)' /\ Fits(quar, p, s)'
      BY <1>2, WantedKept DEF EachSlot
    <3>1. /\ p \in Pkg /\ txn[p] # Absent /\ s \in Slot
          /\ s[1] = "root" <=> s \in DOMAIN Entries(p, txn[p])
      BY <1>2, OfTransaction
    <3>2. \A a \in Area : quar[<<a, p>>] = txn[p]
      BY <1>1, StrictMeans DEF IInv, Complete
    <3>3. Fits(quar, p, s)' <=> Fits(quar, p, s)
      BY <1>1, <1>2, <3>1, WantedKept DEF Fits
    <3>4. CASE s[1] = "root"
      <4>1. s \in ListOf(quar, p)
        BY <3>1, <3>2, <3>4, FilesArea, EntriesDomain
      <4>2. quar[s] = Entries(p, txn[p])[s]
        BY <1>1, <1>6, <3>2, <4>1, FilesArea DEF Validated, Intact
      <4>3. quar[s] \in Listed(s)
        BY <3>1, <3>4, <4>2 DEF Listed
      <4>4. quar[s] # Absent
        BY <1>2, <4>3, ListedPresent
      <4>5. s \in todo'
        BY <2>1, <3>1, <3>4, <4>4 DEF Quarantined
      <4> QED
        BY <2>1, <3>3, <3>4, <4>3, <4>5 DEF Waits, Fits
    <3>5. CASE s[1] # "root"
      <4>1. PICK a \in Area : s = <<a, p>>
        BY <3>1, <3>5 DEF Wanted
      <4>2. s[1] \in Ahead(pc)'
        BY <1>6, <4>1 DEF Ahead
      <4> QED
        BY <2>1, <3>2, <3>3, <3>5, <4>1, <4>2 DEF Waits, Fits
    <3> QED
      BY <3>4, <3>5
  <2>8. LeftIsGivenUp'
    <3> SUFFICES ASSUME ~forgiving, NEW p \in DOMAIN txn, NEW s \in Leftover(p)
                 PROVE  s \in ListOf(before', p) \ DOMAIN Entries(p, txn[p])
      BY <1>1, <1>2 DEF LeftIsGivenUp, ListOf, Entries
    <3>1. p \in Pkg /\ quar[<<"files", p>>] = txn[p] /\ quar[<<"links", p>>] = txn[p]
      BY <1>1, <1>2, OfTransaction, FilesArea DEF IInv, Complete
    <3>2. DOMAIN Entries(p, txn[p]) = ListOf(quar, p)
      BY <3>1, EntriesDomain
    <3>3. s \in ListOf(live, p) \ ListOf(quar, p)
      BY DEF Leftover
    <3> QED
      BY <1>1, <1>3, <3>2, <3>3
  <2>9. Core'
    BY <1>4, <2>2, <2>3, <2>4, <2>5, <2>6, <2>7, <2>8 DEF Core
  <2> QED
    BY <2>1, <2>9, DoingKeepsPromises, PTL DEF OInv
<1> QED
  BY <1>1, <1>5, <1>6

----------------------------------------------------------------------------
(* Of the store and a slot only what was put there.                        *)
LEMMA EmptiedLive ==
  ASSUME IInv, NEW s, live' = [live EXCEPT ![s] = Absent]
  PROVE  \A t \in Slot : live'[t] = IF t = s THEN Absent ELSE live[t]
BY DEF IInv, Stores

(* What is moved is not the metadata before its phase, nor that of another *)
(* package.                                                                *)
LEMMA MovedNotKept ==
  ASSUME Core, Moving, NEW s \in todo, NEW p \in Pkg,
         pc \in {"root", "files", "links"} \/ p \notin DOMAIN txn
  PROVE  s # <<"metadata", p>>
<1>1. s[1] = pc /\ quar[s] # Absent
  BY DEF Core, Scope
<1>2. p \notin DOMAIN txn => quar[<<"metadata", p>>] = Absent
  BY DEF Core, ListsAreOurs, Doing, Moving, Area
<1> QED
  BY <1>1, <1>2

(* The old is removed first: it is then what is being replaced.            *)
LEMMA DisplaceOInv == ASSUME OInv, IInv, NEW s \in Slot, Displace(s) PROVE OInv'
<1>1. /\ Moving /\ s \in todo /\ cur = {} /\ cur' = {s}
      /\ pc' = pc /\ todo' = todo /\ quar' = quar /\ leftovers' = leftovers /\ errors' = errors
      /\ outcome' = outcome /\ missed' = missed /\ UNCHANGED operation
  BY DEF Displace
<1>2. \A t \in Slot : live'[t] = IF t = s THEN Absent ELSE live[t]
  BY EmptiedLive DEF Displace
<1>3. Core /\ Doing /\ Doing' /\ ~Preparing /\ ~Preparing' /\ Moving' /\ pc # "clear"
  BY <1>1 DEF OInv, Doing, Moving, Preparing
<1>4. /\ txn' = txn /\ before' = before /\ flags' = flags /\ (forgiving' <=> forgiving)
         /\ (Strict' <=> Strict)
      /\ InTransaction' /\ InPhase' /\ RemovalWork' /\ RemovalOrder'
  BY <1>1, <1>3, SameTransaction DEF Moving
<1>5. /\ StillOpen' /\ Untouched' /\ Scope' /\ LeftoversAreFiles' /\ MissedIsTold'
      /\ ClearedIsGone'  /\ ListsAreOurs'
  BY <1>1, <1>3, <1>4
     DEF Core, StillOpen, Untouched, Scope, LeftoversAreFiles, MissedIsTold, ClearedIsGone,
         LeftIsGivenUp, ListsAreOurs, Moving
<1>6. Lost'
  BY <1>1, <1>2, <1>3, <1>4 DEF Core, Lost
<1>7. MetadataKept'
  <2> SUFFICES ASSUME NEW p \in Pkg, pc \in {"root", "files", "links"} \/ p \notin DOMAIN txn
               PROVE  live'[<<"metadata", p>>] = before[<<"metadata", p>>]
    BY <1>1, <1>4 DEF MetadataKept
  <2>1. s # <<"metadata", p>>
    BY <1>1, <1>3, MovedNotKept
  <2>2. <<"metadata", p>> \in Slot
    BY AreaSlots DEF Area
  <2> QED
    BY <1>2, <1>3, <2>1, <2>2 DEF Core, MetadataKept
<1>8. EachSlot'
  <2> SUFFICES ASSUME Strict, NEW p \in DOMAIN txn, NEW t \in Wanted(p)
               PROVE  IF Waits(t)' THEN Fits(quar, p, t)'
                      ELSE Fits(live, p, t)' \/ t \in missed
    BY <1>1, <1>4, WantedKept DEF EachSlot
  <2>1. t \in Slot
    BY <1>3, OfTransaction
  <2>2. Listed(t)' = Listed(t)
    BY <1>4, <2>1, WantedKept
  <2>3. (Waits(t)' <=> Waits(t)) /\ (Fits(quar, p, t)' <=> Fits(quar, p, t))
    BY <1>1, <1>4, <2>2 DEF Waits, Fits, Ahead, Moving
  <2>4. IF Waits(t) THEN Fits(quar, p, t) ELSE Fits(live, p, t) \/ t \in missed
    BY <1>3 DEF Core, EachSlot
  <2>5. ~Waits(t) => (Fits(live, p, t)' <=> Fits(live, p, t))
    BY <1>1, <1>2, <1>4, <2>1, <2>2 DEF Waits, Fits
  <2> QED
    BY <2>3, <2>4, <2>5
<1>0. LeftIsGivenUp'
  BY <1>1, <1>3, LeftKept
<1>9. Core'
  BY <1>0, <1>4, <1>5, <1>6, <1>7, <1>8 DEF Core
<1> QED
  BY <1>3, <1>9, DoingKeepsPromises, PTL DEF OInv

(* The new is in its place, or its move has failed and the error is noted. *)
LEMMA PlaceOInv == ASSUME OInv, IInv, NEW s \in Slot, Place(s) PROVE OInv'
<1>1. /\ Moving /\ s \in todo /\ cur \subseteq {s} /\ cur' = {}
      /\ pc' = pc /\ todo' = todo \ {s} /\ leftovers' = leftovers
      /\ outcome' = outcome /\ UNCHANGED operation
  BY DEF Place
<1>2. \/ /\ \A t \in Slot : live'[t] = IF t = s THEN quar[s] ELSE live[t]
         /\ \A t \in Slot : quar'[t] = IF t = s THEN Absent ELSE quar[t]
         /\ errors' = errors /\ missed' = missed
      \/ live' = live /\ quar' = quar /\ errors' = TRUE /\ missed' = missed \cup {s}
  BY DEF Place, IInv, Stores
<1>3. Core /\ Doing /\ Doing' /\ ~Preparing /\ ~Preparing' /\ Moving' /\ pc # "clear"
  BY <1>1 DEF OInv, Doing, Moving, Preparing
<1>4. /\ txn' = txn /\ before' = before /\ flags' = flags /\ (forgiving' <=> forgiving)
         /\ (Strict' <=> Strict)
      /\ InTransaction' /\ InPhase' /\ RemovalWork' /\ RemovalOrder'
  BY <1>1, <1>3, SameTransaction DEF Moving
<1>5. s[1] = pc /\ quar[s] # Absent
  BY <1>1, <1>3 DEF Core, Scope
<1>6. StillOpen' /\ Untouched' /\ LeftoversAreFiles' /\ ClearedIsGone' 
  BY <1>1, <1>3, <1>4
     DEF Core, StillOpen, Untouched, LeftoversAreFiles, ClearedIsGone, LeftIsGivenUp, Moving
<1>7. Scope' /\ MissedIsTold'
  BY <1>1, <1>2, <1>3 DEF Core, Scope, MissedIsTold
<1>8. ListsAreOurs'
  BY <1>2, <1>3, <1>4, AreaSlots DEF Core, ListsAreOurs
<1>9. Lost'
  BY <1>1, <1>2, <1>3, <1>4, <1>5 DEF Core, Lost
<1>10. MetadataKept'
  <2> SUFFICES ASSUME NEW p \in Pkg, pc \in {"root", "files", "links"} \/ p \notin DOMAIN txn
               PROVE  live'[<<"metadata", p>>] = before[<<"metadata", p>>]
    BY <1>1, <1>4 DEF MetadataKept
  <2>1. s # <<"metadata", p>>
    BY <1>1, <1>3, MovedNotKept
  <2>2. <<"metadata", p>> \in Slot
    BY AreaSlots DEF Area
  <2> QED
    BY <1>2, <1>3, <2>1, <2>2 DEF Core, MetadataKept
<1>11. EachSlot'
  <2> SUFFICES ASSUME Strict, NEW p \in DOMAIN txn, NEW t \in Wanted(p)
               PROVE  IF Waits(t)' THEN Fits(quar, p, t)'
                      ELSE Fits(live, p, t)' \/ t \in missed'
    BY <1>1, <1>4, WantedKept DEF EachSlot
  <2>1. t \in Slot /\ Listed(t)' = Listed(t)
    BY <1>3, <1>4, OfTransaction, WantedKept
  <2>2. IF Waits(t) THEN Fits(quar, p, t) ELSE Fits(live, p, t) \/ t \in missed
    BY <1>3 DEF Core, EachSlot
  <2>3. CASE t # s
    <3>1. Waits(t)' <=> Waits(t)
      BY <1>1, <2>3 DEF Waits, Ahead, Moving
    <3>2. (Fits(quar, p, t)' <=> Fits(quar, p, t)) /\ (Fits(live, p, t)' <=> Fits(live, p, t))
      BY <1>2, <1>4, <2>1, <2>3 DEF Fits
    <3> QED
      BY <1>2, <2>2, <3>1, <3>2
  <2>4. CASE t = s
    <3>1. Waits(s) /\ ~Waits(s)'
      BY <1>1, <1>5 DEF Waits, Ahead, Moving, Area
    <3>2. live'[s] = quar[s] => Fits(live, p, s)'
      BY <1>4, <2>1, <2>2, <2>4, <3>1 DEF Fits
    <3> QED
      BY <1>2, <2>4, <3>1, <3>2
  <2> QED
    BY <2>3, <2>4
<1>0. LeftIsGivenUp'
  BY <1>1, <1>3, LeftKept
<1>12. Core'
  BY <1>0, <1>4, <1>6, <1>7, <1>8, <1>9, <1>10, <1>11 DEF Core
<1> QED
  BY <1>3, <1>12, DoingKeepsPromises, PTL DEF OInv

(* What lies ahead of a phase is the next phase and what lies ahead of it. *)
LEMMA PhaseOrder ==
  ASSUME Moving
  PROVE  \/ Following(pc) = "wipe" /\ Ahead(pc) = {}
         \/ /\ Following(pc) \in {"files", "links", "metadata"}
            /\ Ahead(pc) = {Following(pc)} \cup Ahead(Following(pc))
BY DEF Moving, Following, Ahead, Area

(* All that waits for the next phase is found by it.                       *)
LEMMA NextPhaseOInv == ASSUME OInv, NextPhase PROVE OInv'
<1>1. /\ Moving /\ todo = {} /\ pc' = Following(pc) /\ todo' = Quarantined(pc')
      /\ live' = live /\ quar' = quar /\ cur' = cur /\ leftovers' = leftovers /\ errors' = errors
      /\ outcome' = outcome /\ missed' = missed /\ UNCHANGED operation
  BY DEF NextPhase
<1>2. \/ pc' = "wipe" /\ Ahead(pc) = {}
      \/ pc' \in {"files", "links", "metadata"} /\ Ahead(pc) = {pc'} \cup Ahead(pc')
  BY <1>1, PhaseOrder
<1>3. Core /\ Doing /\ Doing' /\ ~Preparing /\ ~Preparing' /\ pc # "clear" /\ pc' # "clear"
  BY <1>1, <1>2 DEF OInv, Doing, Moving, Preparing
<1>4. /\ txn' = txn /\ before' = before /\ flags' = flags /\ (forgiving' <=> forgiving)
         /\ (Strict' <=> Strict)
      /\ InTransaction' /\ InPhase' /\ RemovalWork' /\ RemovalOrder'
  BY <1>1, <1>2, <1>3, SameTransaction
<1>5. /\ StillOpen' /\ Untouched' /\ LeftoversAreFiles' /\ ClearedIsGone' 
      /\ ListsAreOurs'
  BY <1>1, <1>2, <1>3, <1>4
     DEF Core, StillOpen, Untouched, LeftoversAreFiles, ClearedIsGone, LeftIsGivenUp,
         ListsAreOurs, Moving
<1>6. Scope' /\ MissedIsTold'
  BY <1>1, <1>2, <1>3 DEF Core, Scope, MissedIsTold, Quarantined
<1>7. Lost'
  BY <1>1, <1>3, <1>4 DEF Core, Lost
<1>8. pc' \in {"root", "files", "links"} => pc \in {"root", "files", "links"}
  BY <1>1 DEF Moving, Following
<1>9. MetadataKept'
  BY <1>1, <1>3, <1>4, <1>8 DEF Core, MetadataKept
<1>10. EachSlot'
  <2> SUFFICES ASSUME Strict, NEW p \in DOMAIN txn, NEW t \in Wanted(p)
               PROVE  IF Waits(t)' THEN Fits(quar, p, t)'
                      ELSE Fits(live, p, t)' \/ t \in missed
    BY <1>1, <1>4, WantedKept DEF EachSlot
  <2>1. t \in Slot /\ Listed(t)' = Listed(t)
    BY <1>3, <1>4, OfTransaction, WantedKept
  <2>2. IF Waits(t) THEN Fits(quar, p, t) ELSE Fits(live, p, t) \/ t \in missed
    BY <1>3 DEF Core, EachSlot
  <2>3. (Fits(quar, p, t)' <=> Fits(quar, p, t)) /\ (Fits(live, p, t)' <=> Fits(live, p, t))
    BY <1>1, <1>4, <2>1 DEF Fits
  <2>4. Waits(t) <=> t[1] \in Ahead(pc)
    BY <1>1 DEF Waits
  <2>5. Fits(quar, p, t) => quar[t] # Absent
    BY <1>3, FitsPresent
  <2>6. t \in todo' <=> t[1] = pc' /\ quar[t] # Absent
    BY <1>1, <2>1 DEF Quarantined
  <2>7. Moving' <=> pc' # "wipe"
    BY <1>2 DEF Moving
  <2>8. Waits(t)' <=> pc' # "wipe" /\ (t \in todo' \/ t[1] \in Ahead(pc'))
    BY <2>7 DEF Waits, Ahead
  <2>9. Waits(t)' <=> Waits(t)
    BY <1>2, <2>2, <2>4, <2>5, <2>6, <2>8
  <2> QED
    BY <2>2, <2>3, <2>9
<1>0. LeftIsGivenUp'
  BY <1>1, <1>3, LeftKept
<1>11. Core'
  BY <1>0, <1>4, <1>5, <1>6, <1>7, <1>9, <1>10 DEF Core
<1> QED
  BY <1>3, <1>11, DoingKeepsPromises, PTL DEF OInv

(* Nothing is cleared while an error is known.                             *)
LEMMA WipeOInv == ASSUME OInv, Wipe PROVE OInv'
<1>1. /\ pc = "wipe" /\ live' = live /\ quar' = Nowhere
      /\ UNCHANGED <<cur, leftovers, missed, operation>>
      /\ \/ pc' = "idle" /\ outcome' = "failed"
         \/ /\ pc' = "clear" /\ todo' = leftovers /\ outcome' = outcome
            /\ ~forgiving => ~errors
  BY DEF Wipe, ErrorOr, Exit
<1>2. Core /\ Doing /\ txn' = txn /\ before' = before /\ flags' = flags
      /\ (forgiving' <=> forgiving) /\ (Strict' <=> Strict)
  BY <1>1 DEF OInv, Doing, operation, forgiving, Strict
<1>3. CASE pc' = "idle"
  BY <1>1, <1>2, <1>3, EndedOInv
<1>4. CASE pc' = "clear"
  <2>1. Doing' /\ ~Preparing /\ ~Preparing' /\ ~Moving /\ ~Moving'
    BY <1>1, <1>4 DEF Doing, Preparing, Moving
  <2>2. InTransaction' /\ InPhase' /\ RemovalWork' /\ RemovalOrder'
    BY <1>1, <1>2, <1>4, <2>1, SameTransaction
  <2>3. StillOpen' /\ Untouched' /\ LeftoversAreFiles' /\ ClearedIsGone'  /\ Scope'
    BY <1>1, <1>2, <1>4, <2>1
       DEF Core, StillOpen, Untouched, LeftoversAreFiles, ClearedIsGone, LeftIsGivenUp, Scope
  <2>4. MissedIsTold'
    BY <1>1, <1>2, <1>4, <2>1 DEF Core, MissedIsTold
  <2>5. Lost' /\ MetadataKept'
    BY <1>1, <1>2, <1>4, <2>1 DEF Core, Lost, MetadataKept
  <2>6. ListsAreOurs'
    BY <1>1, AreaSlots DEF ListsAreOurs, Nowhere
  <2>7. EachSlot'
    <3> SUFFICES ASSUME Strict, NEW p \in DOMAIN txn, NEW t \in Wanted(p)
                 PROVE  ~Waits(t)' /\ (Fits(live, p, t)' \/ t \in missed)
      BY <1>1, <1>2, WantedKept DEF EachSlot
    <3>1. t \in Slot /\ Listed(t)' = Listed(t)
      BY <1>2, OfTransaction, WantedKept
    <3>2. ~Waits(t) /\ ~Waits(t)'
      BY <2>1 DEF Waits
    <3>3. Fits(live, p, t) \/ t \in missed
      BY <1>1, <1>2, <2>1, <3>2 DEF Core, EachSlot
    <3>4. Fits(live, p, t)' <=> Fits(live, p, t)
      BY <1>1, <1>2, <3>1 DEF Fits
    <3> QED
      BY <3>2, <3>3, <3>4
  <2>0. LeftIsGivenUp'
    BY <1>1, <1>2, <2>1, LeftKept
  <2>8. Core'
    BY <2>0, <2>2, <2>3, <2>4, <2>5, <2>6, <2>7 DEF Core
  <2> QED
    BY <2>1, <2>8, DoingKeepsPromises, PTL DEF OInv
<1> QED
  BY <1>1, <1>3, <1>4

(* What is cleared is left over, and no metadata.                          *)
LEMMA ClearOInv == ASSUME OInv, IInv, NEW s \in Slot, Clear(s) PROVE OInv'
<1>1. /\ pc = "clear" /\ pc' = "clear" /\ s \in todo /\ todo' = todo \ {s}
      /\ quar' = quar /\ cur' = cur /\ leftovers' = leftovers /\ outcome' = outcome
      /\ missed' = missed /\ UNCHANGED operation
  BY DEF Clear
<1>2. \A t \in Slot : live'[t] = IF t = s THEN Absent ELSE live[t]
  BY EmptiedLive DEF Clear
<1>3. Core /\ Doing /\ Doing' /\ ~Preparing /\ ~Preparing' /\ ~Moving /\ ~Moving'
  BY <1>1 DEF OInv, Doing, Preparing, Moving
<1>4. /\ txn' = txn /\ before' = before /\ flags' = flags /\ (forgiving' <=> forgiving)
         /\ (Strict' <=> Strict)
      /\ InTransaction' /\ InPhase' /\ RemovalWork' /\ RemovalOrder'
  BY <1>1, <1>3, SameTransaction
<1>5. s \in leftovers /\ s[1] = "root" /\ \A t \in leftovers : t \in Slot
  BY <1>1, <1>3 DEF Core, Scope, LeftoversAreFiles
<1>6. /\ StillOpen' /\ Untouched' /\ LeftoversAreFiles'  /\ Scope' /\ MissedIsTold'
      /\ ListsAreOurs'
  BY <1>1, <1>3, <1>4
     DEF Core, StillOpen, Untouched, LeftoversAreFiles, LeftIsGivenUp, Scope, MissedIsTold,
       ListsAreOurs
<1>7. Lost'
  BY <1>1, <1>2, <1>3, <1>4, <1>5 DEF Core, Lost
<1>8. ClearedIsGone'
  BY <1>1, <1>2, <1>3, <1>5 DEF Core, ClearedIsGone
<1>9. MetadataKept'
  <2>1. \A p \in Pkg : live'[<<"metadata", p>>] = live[<<"metadata", p>>]
    BY <1>2, <1>5, AreaSlots DEF Area
  <2> QED
    BY <1>1, <1>3, <1>4, <2>1 DEF Core, MetadataKept
<1>10. EachSlot'
  <2> SUFFICES ASSUME Strict, NEW p \in DOMAIN txn, NEW t \in Wanted(p)
               PROVE  /\ ~Waits(t)'
                      /\ \/ Fits(live, p, t)' \/ t \in missed
                         \/ t \in leftovers /\ live'[t] = Absent
    BY <1>1, <1>4, WantedKept DEF EachSlot
  <2>1. t \in Slot /\ Listed(t)' = Listed(t)
    BY <1>3, <1>4, OfTransaction, WantedKept
  <2>2. ~Waits(t) /\ ~Waits(t)'
    BY <1>3 DEF Waits
  <2>3. Fits(live, p, t) \/ t \in missed \/ (t \in leftovers /\ live[t] = Absent)
    BY <1>3, <2>2 DEF Core, EachSlot
  <2>4. t # s => (Fits(live, p, t)' <=> Fits(live, p, t))
    BY <1>2, <1>4, <2>1 DEF Fits
  <2>5. (t = s \/ live[t] = Absent) => live'[t] = Absent
    BY <1>2, <2>1
  <2>6. CASE t = s
    BY <1>5, <2>2, <2>5, <2>6
  <2>7. CASE t # s
    BY <2>2, <2>3, <2>4, <2>5, <2>7
  <2> QED
    BY <2>6, <2>7
<1>0. LeftIsGivenUp'
  BY <1>1, <1>3, LeftKept
<1>11. Core'
  BY <1>0, <1>4, <1>6, <1>7, <1>8, <1>9, <1>10 DEF Core
<1> QED
  BY <1>3, <1>11, DoingKeepsPromises, PTL DEF OInv

(* The status is 0 with everything in place and the leftovers gone.        *)
LEMMA ClearedOInv == ASSUME OInv, Cleared PROVE OInv'
<1>1. /\ pc = "clear" /\ todo = {} /\ pc' = "idle"
      /\ live' = live /\ cur' = cur /\ leftovers' = leftovers /\ missed' = missed
      /\ txn' = txn /\ before' = before /\ flags' = flags /\ (forgiving' <=> forgiving)
         /\ (Strict' <=> Strict)
  BY DEF Cleared, Exit, operation, forgiving, Strict
<1>2. Core /\ Promises
  BY DEF OInv
<1>3. \A s \in leftovers : live[s] = Absent
  BY <1>1, <1>2 DEF Core, ClearedIsGone
<1>4. Strict => \A p \in DOMAIN txn : live[<<"metadata", p>>] = txn[p] /\ InPlace(p, {})
  BY <1>1, <1>2, Arrived DEF Area
<1>5. \A p, e : InPlace(p, e)' = InPlace(p, e)
  BY <1>1, InPlaceKept
<1>6. ExitZeroMeansInstalled'
  BY <1>1, <1>3, <1>4, <1>5 DEF ExitZeroMeansInstalled
<1>7. LeftoversAreFiles'
  BY <1>1, <1>2 DEF Core, LeftoversAreFiles
<1> QED
  BY <1>1, <1>2, <1>6, <1>7, IdleCore, PromisesKept DEF OInv

(* A removal's step is the first of what is left for its package.          *)
LEMMA RemoveFileOInv == ASSUME OInv, IInv, Versions, NEW w \in todo, RemoveFile(w) PROVE OInv'
<1>1. /\ pc = "remove" /\ pc' = "remove" /\ todo' = todo \ {w} /\ outcome' = outcome
      /\ \A u \in todo : u[1] = w[1] => u[2] >= w[2]
      /\ txn' = txn /\ before' = before /\ leftovers' = leftovers /\ flags' = flags
  BY DEF RemoveFile, operation
<1>2. \A t \in Slot : live'[t] = IF t = w[3] THEN Absent ELSE live[t]
  BY EmptiedLive DEF RemoveFile
<1>3. Core /\ ~Doing' /\ ~Preparing' /\ ~Moving' /\ DOMAIN txn = {}
  BY <1>1 DEF OInv, Core, InTransaction, Doing, Preparing, Moving
<1>4. \A p \in Pkg : \A s \in ListOf(before, p) : s \in Slot
  BY ListedPaths, FilesArea DEF Versions
<1>5. RemovalWork'
  BY <1>1, <1>3 DEF Core, RemovalWork
<1>6. RemovalOrder'
  <2> SUFFICES ASSUME "without-files" \notin flags,
                      NEW p \in Pkg, <<p, 3, <<"metadata", p>> >> \in todo',
                      NEW s \in ListOf(before, p), live'[s] # Absent
               PROVE  <<p, 1, s>> \in todo' \/ <<p, 2, s>> \in todo'
    BY <1>1 DEF RemovalOrder, ListOf
  <2>1. live[s] # Absent /\ s # w[3]
    BY <1>2, <1>4
  <2>2. <<p, 1, s>> \in todo \/ <<p, 2, s>> \in todo
    BY <1>1, <1>3, <2>1 DEF Core, RemovalOrder
  <2> QED
    BY <1>1, <2>1, <2>2
<1>7. ForgottenAfterFiles'
  <2> SUFFICES ASSUME "without-files" \notin flags, NEW p \in Pkg,
                      before[<<"metadata", p>>] # Absent,
                      live'[<<"metadata", p>>] = Absent, NEW s \in ListOf(before, p)
               PROVE  live'[s] = Absent
    BY <1>1 DEF ForgottenAfterFiles, ListOf
  <2>1. <<"metadata", p>> \in Slot /\ s \in Slot
    BY <1>4, AreaSlots DEF Area
  <2>2. CASE live[<<"metadata", p>>] = Absent
    BY <1>2, <1>3, <2>1, <2>2 DEF OInv, Promises, ForgottenAfterFiles, Installing
  <2>3. CASE live[<<"metadata", p>>] # Absent
    <3>1. w[3] = <<"metadata", p>>
      BY <1>2, <2>1, <2>3
    <3>2. w = <<w[1], w[2], w[3]>> /\ w[2] = 3 /\ w[3] = <<"metadata", w[1]>>
      BY <1>1, <1>3, <3>1 DEF Core, RemovalWork
    <3>3. w = <<p, 3, <<"metadata", p>> >> /\ w[1] = p
      BY <3>1, <3>2
    <3>4. <<p, 1, s>> \notin todo /\ <<p, 2, s>> \notin todo
      <4>1. \A u \in todo : u[1] = p => u[2] >= 3
        BY <1>1, <3>2, <3>3
      <4>2. <<p, 1, s>>[1] = p /\ <<p, 1, s>>[2] = 1 /\ <<p, 2, s>>[1] = p /\ <<p, 2, s>>[2] = 2
        OBVIOUS
      <4> QED
        BY <4>1, <4>2
    <3>5. live[s] = Absent
      BY <1>1, <1>3, <3>3, <3>4 DEF Core, RemovalOrder
    <3> QED
      BY <1>2, <2>1, <3>5
  <2> QED
    BY <2>2, <2>3
<1>8. NothingLost' /\ MetadataLast' /\ OldGoesLast' /\ ExitZeroMeansInstalled'
  BY <1>1, <1>3 DEF NothingLost, MetadataLast, OldGoesLast, ExitZeroMeansInstalled, Installing
<1>9. Core'
  BY <1>1, <1>3, <1>5, <1>6
     DEF Core, Doing, InTransaction, InPhase, StillOpen, Untouched, Scope, LeftoversAreFiles,
         Lost, MissedIsTold, ClearedIsGone, ListsAreOurs, MetadataKept, LeftIsGivenUp, EachSlot,
         Preparing, Moving
<1> QED
  BY <1>7, <1>8, <1>9 DEF OInv, Promises

(* The end of a removal.                                                   *)
LEMMA RemovedOInv == ASSUME OInv, Removed PROVE OInv'
<1>1. /\ pc = "remove" /\ pc' = "idle"
      /\ UNCHANGED <<live, txn, before, flags, cur, missed, leftovers>>
  BY DEF Removed, Exit, operation
<1>2. DOMAIN txn = {} /\ LeftoversAreFiles'
  BY <1>1 DEF OInv, Core, InTransaction, LeftoversAreFiles
<1>3. ExitZeroMeansInstalled'
  BY <1>1, <1>2 DEF ExitZeroMeansInstalled, Installing
<1> QED
  BY <1>1, <1>2, <1>3, IdleCore, PromisesKept DEF OInv

(* A killed process leaves the disk as it is.                              *)
LEMMA CrashOInv == ASSUME OInv, Crash PROVE OInv'
BY EndedOInv DEF Crash, Exit, operation

LEMMA StutterOInv == OInv /\ UNCHANGED vars => OInv'
<1> SUFFICES ASSUME OInv, UNCHANGED vars PROVE OInv'
  OBVIOUS
<1>1. \A s : Listed(s)' = Listed(s)
  BY DEF Listed, Entries, vars, operation
<1>0. UNCHANGED operation
  BY DEF vars
<1>2. \A p : Wanted(p)' = Wanted(p)
  BY <1>1 DEF Wanted, Entries, vars, operation
<1>3. \A p, t : /\ Fits(quar, p, t)' <=> Fits(quar, p, t)
                /\ Fits(live, p, t)' <=> Fits(live, p, t)
                /\ Waits(t)' <=> Waits(t)
  BY <1>1 DEF Fits, Waits, Ahead, Moving, vars, operation
<1>4. EachSlot'
  BY <1>0, <1>2, <1>3, FlagsKept DEF OInv, Core, EachSlot, Doing, Preparing, vars, operation
<1>5. /\ InTransaction' /\ InPhase' /\ StillOpen' /\ Untouched' /\ Scope' /\ LeftoversAreFiles'
      /\ Lost' /\ MissedIsTold' /\ ClearedIsGone' /\ ListsAreOurs' /\ MetadataKept'
       /\ LeftIsGivenUp' /\ RemovalWork' /\ RemovalOrder'
  BY <1>0, FlagsKept
     DEF OInv, Core, InTransaction, InPhase, StillOpen, Untouched, Scope, LeftoversAreFiles, Lost,
         MissedIsTold, ClearedIsGone, ListsAreOurs, MetadataKept, LeftIsGivenUp, RemovalWork,
         RemovalOrder, Doing, Moving, Preparing, ListOf, Entries, vars, operation
<1>6. outcome' = "ok" => ExitZeroMeansInstalled'
  <2>1. \A p, e : InPlace(p, e)' = InPlace(p, e)
    BY InPlaceKept DEF vars, operation
  <2> QED
    BY <1>0, <2>1, FlagsKept DEF OInv, Promises, ExitZeroMeansInstalled, Installing, vars,
       operation
<1>7. Promises'
  BY <1>6, PromisesKept DEF OInv, vars, operation
<1> QED
  BY <1>4, <1>5, <1>7 DEF OInv, Core

----------------------------------------------------------------------------
(* Lists and metadata come from a version, are moved or disappear.         *)
LEMMA VersionsStep ==
  ASSUME Versions, before' = before \/ before' = live,
         \A a \in Area, p \in Pkg :
           /\ live'[<<a, p>>] \in {live[<<a, p>>], quar[<<a, p>>], Absent}
           /\ quar'[<<a, p>>] = quar[<<a, p>>] \/ quar'[<<a, p>>] \in Ver \cup {Absent}
  PROVE  Versions'
BY DEF Versions

LEMMA VersionsSame == Versions /\ UNCHANGED <<live, quar, before>> => Versions'
BY DEF Versions

LEMMA InitVersions == Init => Versions
<1> SUFFICES ASSUME Init PROVE Versions
  OBVIOUS
<1>1. PICK i \in [Pkg -> Ver \cup {Absent}] : live = StoreOf(i)
  BY DEF Init
<1>2. \A a \in Area, p \in Pkg : <<a, p>> \in Slot /\ <<a, p>>[1] # "root" /\ <<a, p>>[2] = p
  BY DEF Slot, Area
<1>3. \A a \in Area, p \in Pkg : live[<<a, p>>] = i[p] /\ quar[<<a, p>>] = Absent
  BY <1>1, <1>2 DEF Init, StoreOf, Nowhere
<1> QED
  BY <1>3 DEF Init, Versions

LEMMA NextVersions == ASSUME Versions, OInv, IInv, [Next]_vars PROVE Versions'
<1>1. ASSUME NEW q \in Installs, NEW f, BeginInstall(q, f) PROVE Versions'
  <2>1. live' = live /\ before' = live /\ quar' \in {Nowhere, quar}
    BY <1>1 DEF BeginInstall, Begin
  <2> QED
    BY <2>1, AreaSlots, VersionsStep DEF Nowhere
<1>2. ASSUME NEW S \in Removals, NEW f, BeginRemove(S, f) PROVE Versions'
  BY <1>2, VersionsStep DEF BeginRemove, Begin
<1>3. ASSUME NEW p \in Pkg, Download(p) \/ Get(p) PROVE Versions'
  BY <1>3, VersionsSame DEF Download, Get, operation
<1>4. ASSUME NEW p \in Pkg, Extract(p) PROVE Versions'
  <2>1. /\ live' = live /\ before' = before /\ pc = "extract" /\ p \in todo
        /\ quar' = quar \/ quar' = Laid(p, TRUE) \/ quar' = Laid(p, FALSE)
    BY <1>4 DEF Extract, operation
  <2>2. txn[p] \in Ver
    BY <2>1, InstallAssumption DEF IInv, WorkOfTransaction, Preparing
  <2>3. \A a \in Area, r \in Pkg :
          /\ Laid(p, TRUE)[<<a, r>>] \in {txn[p], quar[<<a, r>>]}
          /\ Laid(p, FALSE)[<<a, r>>] \in {txn[p], quar[<<a, r>>]}
    BY LaidLists, ZenonT(30)
  <2> QED
    BY <2>1, <2>2, <2>3, VersionsStep
<1>5. ASSUME NEW s \in Slot, Spoil(s) PROVE Versions'
  <2>1. live' = live /\ before' = before /\ s[1] = "root"
    BY <1>5 DEF Spoil, operation
  <2>2. \A a \in Area, p \in Pkg : quar'[<<a, p>>] = quar[<<a, p>>]
    <3>1. PICK c : quar' = [quar EXCEPT ![s] = c]
      BY <1>5 DEF Spoil
    <3> QED
      BY <2>1, <3>1, AreaSlots DEF IInv, Stores
  <2> QED
    BY <2>1, <2>2, VersionsStep
<1>6. ASSUME NEW s \in Slot, Displace(s) \/ Clear(s) PROVE Versions'
  <2>1. /\ quar' = quar /\ before' = before
        /\ \A t \in Slot : live'[t] = IF t = s THEN Absent ELSE live[t]
    BY <1>6, EmptiedLive DEF Displace, Clear, operation
  <2> QED
    BY <2>1, AreaSlots, VersionsStep
<1>7. ASSUME NEW s \in Slot, Place(s) PROVE Versions'
  <2>1. /\ before' = before
        /\ \A t \in Slot : live'[t] \in {live[t], quar[t]} /\ quar'[t] \in {quar[t], Absent}
    BY <1>7 DEF Place, operation, IInv, Stores
  <2> QED
    BY <2>1, AreaSlots, VersionsStep
<1>8. CASE Wipe
  <2>1. live' = live /\ before' = before /\ quar' = Nowhere
    BY <1>8 DEF Wipe, operation
  <2> QED
    BY <2>1, AreaSlots, VersionsStep DEF Nowhere
<1>9. ASSUME NEW w \in todo, RemoveFile(w) PROVE Versions'
  <2>1. /\ quar' = quar /\ before' = before
        /\ \A t \in Slot : live'[t] = IF t = w[3] THEN Absent ELSE live[t]
    BY <1>9, EmptiedLive DEF RemoveFile, operation
  <2> QED
    BY <2>1, AreaSlots, VersionsStep
<1>10. CASE \/ Downloaded \/ Judge \/ NextPhase \/ Cleared \/ Removed
            \/ Crash \/ Done \/ UNCHANGED vars
  BY <1>10, VersionsSame
     DEF Downloaded, Judge, NextPhase, Cleared, Removed, Crash, Done, vars, operation
<1> QED
  BY <1>1, <1>2, <1>3, <1>4, <1>5, <1>6, <1>7, <1>8, <1>9, <1>10 DEF Next

(* Every step keeps the invariant.                                         *)
LEMMA NextOInv == ASSUME OInv, IInv, Versions, [Next]_vars PROVE OInv'
<1>1. ASSUME NEW q \in Installs, NEW f, BeginInstall(q, f) PROVE OInv'
  BY <1>1, BeginInstallOInv
<1>2. ASSUME NEW S \in Removals, NEW f, BeginRemove(S, f) PROVE OInv'
  <2>1. pc' = "idle" => Begin(f) /\ outcome' = "failed"
    BY <1>2 DEF BeginRemove, Exit
  <2> QED
    BY <1>2, <2>1, BarredOInv, BeginRemoveOInv
<1>3. ASSUME NEW p \in Pkg, Download(p) \/ Get(p) \/ Extract(p) PROVE OInv'
  BY <1>3, DownloadOInv, ExtractOInv
<1>4. ASSUME NEW s \in Slot, Spoil(s) \/ Displace(s) \/ Place(s) \/ Clear(s) PROVE OInv'
  BY <1>4, SpoilOInv, DisplaceOInv, PlaceOInv, ClearOInv
<1>5. CASE Downloaded \/ Judge \/ NextPhase \/ Wipe \/ Cleared
  BY <1>5, DownloadOInv, JudgeOInv, NextPhaseOInv, WipeOInv, ClearedOInv
<1>6. ASSUME NEW w \in todo, RemoveFile(w) PROVE OInv'
  BY <1>6, RemoveFileOInv
<1>7. CASE Removed \/ Crash
  BY <1>7, RemovedOInv, CrashOInv
<1>8. CASE Done \/ UNCHANGED vars
  BY <1>8, StutterOInv DEF Done
<1> QED
  BY <1>1, <1>2, <1>3, <1>4, <1>5, <1>6, <1>7, <1>8 DEF Next

(* Where each slot is explains the promises in every reachable state of    *)
(* every instance.                                                         *)
THEOREM OrderInvariance == Spec => [](Versions /\ OInv)
<1>1. Init => Versions /\ OInv
  BY InitVersions, InitOInv
<1>2. IInv /\ (Versions /\ OInv) /\ [Next]_vars => (Versions /\ OInv)'
  BY NextVersions, NextOInv
<1> QED
  BY <1>1, <1>2, Invariance, PTL DEF Spec

(* A killed, failed or finished installation has made nothing disappear    *)
(* but what it was replacing at that moment, what it reported it could not *)
(* replace, and what the new versions no longer list: for all packages,    *)
(* transactions and faults (move_file and quarantine_install).             *)
THEOREM NothingDisappears == Spec => []NothingLost
<1>1. OInv => NothingLost
  BY DEF OInv, Promises
<1> QED
  BY <1>1, OrderInvariance, PTL

(* quarantine_install moves the metadata last: when a package is recorded   *)
(* anew, the move of its lists and of every file it lists has been made, or *)
(* was tried and failed, unless errors or the validation are ignored; a file*)
(* that another package of the transaction gave up may be cleared since.    *)
THEOREM RecordedLast == Spec => []MetadataLast
<1>1. OInv => MetadataLast
  BY DEF OInv, Promises
<1> QED
  BY <1>1, OrderInvariance, PTL

(* install_main clears the leftovers last: no file that only an old version *)
(* lists is cleared before every package of the transaction is recorded, its*)
(* lists and files in place and no move failed.                             *)
THEOREM OldClearedLast == Spec => []OldGoesLast
<1>1. OInv => OldGoesLast
  BY DEF OInv, Promises
<1> QED
  BY <1>1, OrderInvariance, PTL

(* An installation that is to count errors and the validation ends with     *)
(* status 0 only when every package of its transaction is recorded, its     *)
(* lists and every file it lists in place (but for a file that another      *)
(* package of the transaction gave up, which may be gone), and nothing is   *)
(* left over.                                                               *)
THEOREM ZeroMeansInstalled == Spec => []ExitZeroMeansInstalled
<1>1. OInv => ExitZeroMeansInstalled
  BY DEF OInv, Promises
<1> QED
  BY <1>1, OrderInvariance, PTL

(* remove_single deletes the metadata only after every file and link that   *)
(* the lists named is gone, so that a killed removal can be repeated, unless*)
(* it is told to leave the files.                                           *)
THEOREM ForgottenLast == Spec => []ForgottenAfterFiles
<1>1. OInv => ForgottenAfterFiles
  BY DEF OInv, Promises
<1> QED
  BY <1>1, OrderInvariance, PTL

----------------------------------------------------------------------------
(* What makes an operation fail without a fault.                           *)
WrongArch == \E p \in DOMAIN txn : <<p, txn[p]>> \in Foreign
Refused ==
  \E p \in DOMAIN txn : \E s \in DOMAIN Entries(p, txn[p]) :
    s[2] \in Restricted \/ \E r \in DOMAIN txn \ {p} : s \in DOMAIN Entries(r, txn[r])
Unlisted ==
  \E p \in Pkg, a \in {"files", "links"} :
    before[<<"metadata", p>>] # Absent /\ before[<<a, p>>] = Absent
Reason ==
  \/ flags \cap {"locked", "declined"} # {}
  \/ /\ ~forgiving
     /\ \/ "user" \in flags \/ (Installing /\ "usrmerge" \in flags)
        \/ WrongArch
        \/ "ignore-quarantine" \notin flags /\ Refused
        \/ Unlisted

(* What is extracted is as listed for some package of the transaction.     *)
Extracted(p) ==
  /\ \A a \in Area : quar[<<a, p>>] = txn[p]
  /\ \A s \in DOMAIN Entries(p, txn[p]) : quar[s] \in Listed(s)

NoErrorYet == clean /\ Doing => ~errors
AllFetched ==
  /\ clean /\ pc = "download" => DOMAIN txn \ todo \subseteq got
  /\ clean /\ pc \in {"get", "extract"} => DOMAIN txn \subseteq got
AllExtracted == clean /\ pc = "extract" => \A p \in DOMAIN txn \ todo : Extracted(p)
RemovalReason == pc = "remove" /\ errors => Unlisted

FInv ==
  NoErrorYet /\ AllFetched /\ AllExtracted /\ RemovalReason /\ FailureHasReason


(* While it is under way nothing has failed yet.                           *)
LEMMA OpenFInv ==
  ASSUME StillOpen, pc # "idle", NoErrorYet, AllFetched, AllExtracted, RemovalReason PROVE FInv
BY DEF FInv, FailureHasReason, StillOpen

LEMMA IdleFInv == ASSUME pc' = "idle", FailureHasReason' PROVE FInv'
BY DEF FInv, NoErrorYet, AllFetched, AllExtracted, RemovalReason, Doing

(* Nothing is promised of an installation that met a fault.                *)
LEMMA FaultyFInv == ASSUME ~clean', pc' # "remove" PROVE FInv'
BY DEF FInv, NoErrorYet, AllFetched, AllExtracted, RemovalReason, FailureHasReason

(* The reasons depend on the transaction and on how the operation began.   *)
LEMMA ReasonsKept ==
  ASSUME UNCHANGED operation PROVE (Unlisted' <=> Unlisted) /\ (Reason' <=> Reason)
<1>1. UNCHANGED <<txn, flags, before>> /\ (forgiving' <=> forgiving)
  BY FlagsKept DEF operation
<1>2. (Unlisted' <=> Unlisted) /\ (WrongArch' <=> WrongArch) /\ (Installing' <=> Installing)
  BY <1>1 DEF Unlisted, WrongArch, Installing
<1>3. Refused' <=> Refused
  BY <1>1 DEF Refused, Entries
<1> QED
  BY <1>1, <1>2, <1>3 DEF Reason

LEMMA ReasonIsReason ==
  /\ FailureHasReason <=> (outcome = "failed" /\ clean => Reason)
  /\ FailureHasReason' <=> (outcome' = "failed" /\ clean' => Reason')
BY DEF FailureHasReason, Reason, WrongArch, Refused, Unlisted

LEMMA EndedFInv ==
  ASSUME pc' = "idle", UNCHANGED operation, outcome' = "failed" /\ clean' => Reason
  PROVE  FInv'
<1>1. FailureHasReason'
  BY ReasonsKept, ReasonIsReason
<1> QED
  BY <1>1, IdleFInv

(* Nothing of this is promised of a step after which all is as listed.     *)
LEMMA MovingFInv ==
  ASSUME Core', Doing', ~Preparing', clean' => ~errors' PROVE FInv'
<1>1. (StillOpen /\ pc # "idle" /\ NoErrorYet /\ AllFetched /\ AllExtracted /\ RemovalReason)'
  BY DEF Core, Doing, Preparing, NoErrorYet, AllFetched, AllExtracted, RemovalReason
<1> QED
  BY <1>1, OpenFInv, PTL

(* An operation that does not begin at all has met what bars it.           *)
LEMMA BarredFInv ==
  ASSUME NEW f, NEW checks, Begin(f), Barred(f, checks), pc' = "idle",
         checks \subseteq {"user", "usrmerge"}, "usrmerge" \in checks => Installing'
  PROVE  FInv'
<1>1. flags' = f
  BY DEF Begin
<1>2. Reason'
  BY <1>1 DEF Barred, Reason, forgiving
<1>3. FailureHasReason'
  BY <1>2, ReasonIsReason
<1> QED
  BY <1>3, IdleFInv

LEMMA BeginInstallFInv ==
  ASSUME NEW q \in Installs, NEW f, BeginInstall(q, f), Core' PROVE FInv'
<1>1. CASE Barred(f, {"user", "usrmerge"})
  <2>1. Begin(f) /\ pc' = "idle" /\ txn' = q /\ DOMAIN q # {}
    BY <1>1, InstallAssumption DEF BeginInstall, Exit
  <2> QED
    BY <1>1, <2>1, BarredFInv DEF Installing
<1>2. CASE ~Barred(f, {"user", "usrmerge"})
  <2>1. pc' = "download" /\ errors' = FALSE /\ todo' = DOMAIN q /\ txn' = q
    BY <1>2 DEF BeginInstall
  <2>2. (StillOpen /\ pc # "idle" /\ NoErrorYet /\ AllFetched /\ AllExtracted /\ RemovalReason)'
    BY <2>1 DEF Core, Doing, NoErrorYet, AllFetched, AllExtracted, RemovalReason
  <2> QED
    BY <2>2, OpenFInv, PTL
<1> QED
  BY <1>1, <1>2

LEMMA BeginRemoveFInv ==
  ASSUME NEW S \in Removals, NEW f, BeginRemove(S, f), Core' PROVE FInv'
<1>1. CASE Barred(f, {"user"})
  <2>1. Begin(f) /\ pc' = "idle"
    BY <1>1 DEF BeginRemove, Exit
  <2> QED
    BY <1>1, <2>1, BarredFInv
<1>2. CASE ~Barred(f, {"user"})
  <2>1. /\ pc' = "remove" /\ before' = live
        /\ errors' => \E p \in S : live[<<"metadata", p>>] # Absent /\ ListMissing(p)
    BY <1>2 DEF BeginRemove, Begin
  <2>2. S \subseteq Pkg
    BY InstallAssumption
  <2>3. RemovalReason'
    BY <2>1, <2>2 DEF RemovalReason, Unlisted, ListMissing
  <2>4. (StillOpen /\ pc # "idle" /\ NoErrorYet /\ AllFetched /\ AllExtracted)'
    BY <2>1 DEF Core, Doing, NoErrorYet, AllFetched, AllExtracted
  <2> QED
    BY <2>3, <2>4, OpenFInv, PTL
<1> QED
  BY <1>1, <1>2

(* A download that does not fail is there.                                 *)
LEMMA DownloadFInv == ASSUME FInv, NEW p \in Pkg, Download(p), Core' PROVE FInv'
<1>1. /\ pc = "download" /\ pc' = "download" /\ todo' = todo \ {p} /\ UNCHANGED operation
      /\ \/ got' = got \cup {p} /\ errors' = errors /\ clean' = clean
         \/ clean' = FALSE
  BY DEF Download, Fault, bad
<1>2. CASE clean' = FALSE
  BY <1>1, <1>2, FaultyFInv
<1>3. CASE got' = got \cup {p} /\ errors' = errors /\ clean' = clean
  <2>1. Doing /\ txn' = txn
    BY <1>1 DEF Doing, operation
  <2>2. (StillOpen /\ pc # "idle" /\ NoErrorYet /\ AllFetched /\ AllExtracted /\ RemovalReason)'
    BY <1>1, <1>3, <2>1
       DEF FInv, Core, Doing, NoErrorYet, AllFetched, AllExtracted, RemovalReason
  <2> QED
    BY <2>2, OpenFInv, PTL
<1> QED
  BY <1>1, <1>2, <1>3

(* --download-only ends here, without an error if there was no fault.      *)
LEMMA DownloadedFInv == ASSUME FInv, Downloaded, Core' PROVE FInv'
<1>1. /\ pc = "download" /\ todo = {} /\ got' = got /\ clean' = clean /\ UNCHANGED operation
      /\ \/ pc' = "idle" /\ (outcome' = "failed" => errors)
         \/ pc' = "get" /\ errors' = errors
  BY DEF Downloaded, Exit, bad
<1>2. Doing /\ txn' = txn /\ pc' # "remove"
  BY <1>1 DEF Doing, operation
<1>3. CASE ~clean
  BY <1>1, <1>2, <1>3, FaultyFInv
<1>4. CASE clean
  <2>1. ~errors
    BY <1>2, <1>4 DEF FInv, NoErrorYet
  <2>2. CASE pc' = "idle"
    BY <1>1, <2>1, <2>2, EndedFInv
  <2>3. CASE pc' = "get" /\ errors' = errors
    <3>1. (StillOpen /\ pc # "idle" /\ NoErrorYet /\ AllFetched /\ AllExtracted /\ RemovalReason)'
      BY <1>1, <1>2, <2>1, <2>3
         DEF FInv, Core, Doing, NoErrorYet, AllFetched, AllExtracted, RemovalReason
    <3> QED
      BY <3>1, OpenFInv, PTL
  <2> QED
    BY <1>1, <2>2, <2>3
<1> QED
  BY <1>3, <1>4

(* Without a fault only the architecture can stop it.                      *)
LEMMA GetFInv == ASSUME FInv, Core, IInv, NEW p \in Pkg, Get(p), Core' PROVE FInv'
<1> DEFINE wrong == <<p, txn[p]>> \in Foreign
<1>1. /\ pc = "get" /\ p \in todo /\ UNCHANGED operation
      /\ pc' \in {"get", "extract", "idle"}
      /\ \/ clean' = FALSE
         \/ /\ got' = got \cup {p} /\ clean' = clean
            /\ \/ pc' = "idle" /\ (errors \/ wrong) /\ ~forgiving
               \/ pc' = "get" /\ errors' = FALSE
               \/ pc' = "extract" /\ todo' = DOMAIN txn /\ errors' = FALSE
  BY DEF Get, ErrorOr, Exit, Fault, bad
<1>2. Doing /\ txn' = txn
  BY <1>1 DEF Doing, operation
<1>3. CASE ~clean'
  BY <1>1, <1>3, FaultyFInv
<1>4. CASE clean'
  <2>1. clean /\ ~errors /\ got' = got \cup {p} /\ DOMAIN txn \subseteq got
    BY <1>1, <1>2, <1>4 DEF FInv, NoErrorYet, AllFetched
  <2>2. CASE pc' = "idle"
    <3>1. wrong /\ ~forgiving
      BY <1>1, <1>4, <2>1, <2>2
    <3>2. p \in DOMAIN txn
      BY <1>1 DEF IInv, WorkOfTransaction, Preparing
    <3>3. Reason
      BY <3>1, <3>2 DEF Reason, WrongArch
    <3> QED
      BY <1>1, <2>2, <3>3, EndedFInv
  <2>3. CASE pc' # "idle"
    <3>1. errors' = FALSE /\ (pc' = "extract" => todo' = DOMAIN txn) /\ pc' \in {"get", "extract"}
      BY <1>1, <1>4, <2>3
    <3>2. (StillOpen /\ pc # "idle" /\ NoErrorYet /\ AllFetched /\ AllExtracted /\ RemovalReason)'
      BY <1>2, <2>1, <3>1
         DEF Core, Doing, NoErrorYet, AllFetched, AllExtracted, RemovalReason
    <3> QED
      BY <3>2, OpenFInv, PTL
  <2> QED
    BY <2>2, <2>3
<1> QED
  BY <1>3, <1>4

(* An extraction without a fault leaves its package as listed, and others  *)
(* as they were or as this one lists them.                                 *)
LEMMA ExtractFInv == ASSUME FInv, Core, NEW p \in Pkg, Extract(p), Core', IInv PROVE FInv'
<1>1. /\ pc = "extract" /\ p \in todo /\ UNCHANGED operation /\ got' = got
      /\ pc' \in {"extract", "idle"}
      /\ p \in got => clean' = FALSE \/ (/\ quar' = Laid(p, TRUE) /\ clean' = clean
                                         /\ ErrorOr(errors, "extract", todo \ {p}))
      /\ p \notin got => clean' = clean
  BY DEF Extract, Fault, bad, ErrorOr, Exit
<1>2. Doing /\ txn' = txn /\ p \in DOMAIN txn
  BY <1>1 DEF Doing, operation, IInv, WorkOfTransaction, Preparing
<1>3. CASE ~clean'
  BY <1>1, <1>3, FaultyFInv
<1>4. CASE clean'
  <2>1. p \in got
    BY <1>1, <1>2, <1>4 DEF FInv, AllFetched
  <2>2. quar' = Laid(p, TRUE) /\ clean /\ ~errors
    BY <1>1, <1>2, <1>4, <2>1 DEF FInv, NoErrorYet
  <2>3. pc' = "extract" /\ todo' = todo \ {p} /\ errors' = FALSE
    BY <1>1, <1>4, <2>1, <2>2 DEF ErrorOr
  <2>4. \A r \in DOMAIN txn \ todo' : Extracted(r)'
    <3> SUFFICES ASSUME NEW r \in DOMAIN txn, r \notin todo \/ r = p PROVE Extracted(r)'
      BY <2>3
    <3>1. r \in Pkg /\ r # p => Extracted(r)
      BY <1>1, <2>2 DEF FInv, AllExtracted
    <3>2. r \in Pkg
      BY <1>2, OfTransaction
    <3>3. ASSUME NEW a \in Area PROVE quar'[<<a, r>>] = txn[r]
      <4>1. quar'[<<a, r>>] = IF r = p THEN txn[p] ELSE quar[<<a, r>>]
        BY <2>2, <3>2, LaidLists
      <4>2. r # p => quar[<<a, r>>] = txn[r]
        BY <3>1, <3>2 DEF Extracted
      <4> QED
        BY <4>1, <4>2
    <3>4. ASSUME NEW s \in DOMAIN Entries(r, txn[r]) PROVE quar'[s] \in Listed(s)
      <4>1. s \in Slot /\ s[1] = "root"
        BY <1>2, OfTransaction DEF Wanted
      <4>2. s \notin Area \X {p}
        BY <4>1 DEF Area
      <4>3. CASE s \in DOMAIN Entries(p, txn[p])
        <5>1. quar'[s] = Entries(p, txn[p])[s]
          BY <2>2, <4>1, <4>2, <4>3 DEF Laid
        <5> QED
          BY <1>2, <4>3, <5>1 DEF Listed
      <4>4. CASE s \notin DOMAIN Entries(p, txn[p])
        <5>1. quar'[s] = quar[s] /\ r # p
          BY <2>2, <4>1, <4>2, <4>4 DEF Laid
        <5> QED
          BY <3>1, <3>2, <5>1 DEF Extracted
      <4> QED
        BY <4>3, <4>4
    <3>5. \A s : Listed(s)' = Listed(s)
      BY <1>2 DEF Listed, Entries
    <3> QED
      BY <1>2, <3>3, <3>4, <3>5 DEF Extracted, Entries
  <2>5. (StillOpen /\ pc # "idle" /\ NoErrorYet /\ AllFetched /\ AllExtracted /\ RemovalReason)'
    BY <1>1, <1>2, <2>2, <2>3, <2>4
       DEF FInv, Core, Doing, NoErrorYet, AllFetched, AllExtracted, RemovalReason
  <2> QED
    BY <2>5, OpenFInv, PTL
<1> QED
  BY <1>3, <1>4

(* What validation can refuse when all was extracted as listed.            *)
LEMMA JudgeFInv == ASSUME FInv, Core, Judge, Core' PROVE FInv'
<1>1. /\ pc = "extract" /\ todo = {} /\ UNCHANGED operation /\ clean' = clean
      /\ \/ pc' = "root" /\ errors' = FALSE
         \/ /\ pc' = "idle" /\ ~forgiving
            /\ \/ errors
               \/ "ignore-quarantine" \notin flags /\ (~Validated \/ Conflict)
               \/ \E p \in DOMAIN txn : ListMissing(p)
  <2>1. PICK found \in {FALSE, Conflict} :
          ErrorOr(\/ errors
                  \/ "ignore-quarantine" \notin flags /\ (~Validated \/ found)
                  \/ \E p \in DOMAIN txn : Replaced(p) /\ ListMissing(p),
                  "root", Quarantined("root"))
    BY DEF Judge
  <2>2. found => Conflict
    OBVIOUS
  <2> QED
    BY <2>1, <2>2 DEF Judge, bad, ErrorOr, Exit
<1>2. Doing /\ Preparing
  BY <1>1 DEF Doing, Preparing
<1>3. CASE ~clean
  BY <1>1, <1>3, FaultyFInv
<1>4. CASE clean /\ pc' = "root"
  BY <1>1, <1>4, MovingFInv DEF Doing, Preparing
<1>5. CASE clean /\ pc' = "idle"
  <2>1. \A p \in DOMAIN txn : Extracted(p) /\ ListOf(quar, p) = DOMAIN Entries(p, txn[p])
    BY <1>1, <1>2, <1>5, OfTransaction, EntriesDomain, FilesArea, ZenonT(30)
       DEF FInv, AllExtracted, Extracted
  <2>2. ASSUME ~Validated PROVE Refused
    <3>0. PICK p \in DOMAIN txn : ~Intact(p) \/ ~Permitted(p)
      BY <2>2 DEF Validated
    <3>1. CASE ~Permitted(p)
      BY <2>1, <3>1 DEF Permitted, Refused
    <3>2. CASE ~Intact(p)
      <4>1. PICK s \in ListOf(quar, p) : quar[s] # Entries(p, quar[<<"files", p>>])[s]
        BY <3>2 DEF Intact
      <4>2. quar[<<"files", p>>] = txn[p] /\ quar[s] \in Listed(s)
        BY <2>1, FilesArea DEF Extracted
      <4>3. PICK r \in DOMAIN txn : s \in DOMAIN Entries(r, txn[r])
            /\ quar[s] = Entries(r, txn[r])[s]
        BY <4>2 DEF Listed
      <4>4. p # r
        BY <4>1, <4>2, <4>3
      <4> QED
        BY <2>1, <4>3, <4>4 DEF Refused
    <3> QED
      BY <3>0, <3>1, <3>2
  <2>3. ASSUME Conflict PROVE Refused
    <3>1. PICK p, q \in DOMAIN txn : p # q /\ ListOf(quar, p) \cap ListOf(quar, q) # {}
      BY <2>3 DEF Conflict
    <3>2. PICK s : s \in DOMAIN Entries(p, txn[p]) /\ s \in DOMAIN Entries(q, txn[q])
      BY <2>1, <3>1
    <3> QED
      BY <3>1, <3>2 DEF Refused
  <2>4. ASSUME NEW p \in DOMAIN txn, ListMissing(p) PROVE Unlisted
    <3>1. live = before /\ p \in Pkg
      BY <1>2, OfTransaction DEF Core, Untouched
    <3> QED
      BY <2>4, <3>1 DEF ListMissing, Unlisted
  <2>5. ~errors
    BY <1>2, <1>5 DEF FInv, NoErrorYet
  <2>6. Reason
    BY <1>1, <1>5, <2>2, <2>3, <2>4, <2>5 DEF Reason
  <2> QED
    BY <1>1, <1>5, <2>6, EndedFInv
<1> QED
  BY <1>1, <1>3, <1>4, <1>5

LEMMA NextFInv == ASSUME FInv, OInv, IInv, OInv', [Next]_vars PROVE FInv'
<1>0. Core /\ Core'
  BY DEF OInv
<1>1. ASSUME NEW q \in Installs, NEW f, BeginInstall(q, f) PROVE FInv'
  BY <1>0, <1>1, BeginInstallFInv
<1>2. ASSUME NEW S \in Removals, NEW f, BeginRemove(S, f) PROVE FInv'
  BY <1>0, <1>2, BeginRemoveFInv
<1>3. ASSUME NEW p \in Pkg, Download(p) \/ Get(p) \/ Extract(p) PROVE FInv'
  BY <1>0, <1>3, DownloadFInv, GetFInv, ExtractFInv
<1>4. CASE Downloaded \/ Judge
  BY <1>0, <1>4, DownloadedFInv, JudgeFInv
<1>5. ASSUME Doing, ~Preparing, Doing', ~Preparing',
             clean' = FALSE \/ (clean' = clean /\ errors' = errors)
      PROVE  FInv'
  BY <1>0, <1>5, MovingFInv DEF FInv, NoErrorYet
<1>6. ASSUME NEW s \in Slot, Spoil(s) PROVE FInv'
  <2>1. ~clean' /\ pc' # "remove"
    BY <1>6 DEF Spoil, Fault
  <2> QED
    BY <2>1, FaultyFInv
<1>7. ASSUME NEW s \in Slot, Displace(s) \/ Place(s) \/ Clear(s) PROVE FInv'
  BY <1>5, <1>7 DEF Displace, Place, Clear, Fault, bad, Moving, Doing, Preparing
<1>8. CASE NextPhase
  BY <1>5, <1>8 DEF NextPhase, bad, Moving, Doing, Preparing, Following
<1>9. CASE Wipe
  <2>1. /\ pc = "wipe" /\ clean' = clean /\ ErrorOr(errors, "clear", leftovers)
    BY <1>9 DEF Wipe, bad
  <2>2. pc' # "remove" /\ (~errors => pc' = "clear" /\ errors' = FALSE)
    BY <2>1 DEF ErrorOr, Exit
  <2>3. clean => ~errors
    BY <2>1 DEF FInv, NoErrorYet, Doing
  <2>4. CASE ~clean
    BY <2>1, <2>2, <2>4, FaultyFInv
  <2>5. CASE clean
    BY <1>0, <2>2, <2>3, <2>5, MovingFInv DEF Doing, Preparing
  <2> QED
    BY <2>4, <2>5
<1>10. CASE Cleared
  BY <1>10, EndedFInv DEF Cleared, Exit
<1>11. ASSUME NEW w \in todo, RemoveFile(w) PROVE FInv'
  <2>1. pc = "remove" /\ pc' = pc /\ errors' = errors /\ UNCHANGED operation
    BY <1>11 DEF RemoveFile
  <2>2. RemovalReason'
    BY <2>1, ReasonsKept DEF FInv, RemovalReason
  <2>3. (StillOpen /\ pc # "idle" /\ NoErrorYet /\ AllFetched /\ AllExtracted)'
    BY <1>0, <2>1 DEF Core, Doing, NoErrorYet, AllFetched, AllExtracted
  <2> QED
    BY <2>2, <2>3, OpenFInv, PTL
<1>12. CASE Removed
  <2>1. /\ pc = "remove" /\ pc' = "idle" /\ UNCHANGED operation
        /\ outcome' = "failed" => errors /\ ~forgiving
    BY <1>12 DEF Removed, Exit
  <2>2. outcome' = "failed" => Reason
    BY <2>1 DEF FInv, RemovalReason, Reason
  <2> QED
    BY <2>1, <2>2, EndedFInv
<1>13. CASE Crash
  <2>1. ~clean' /\ pc' # "remove"
    BY <1>13 DEF Crash, Fault, Exit
  <2> QED
    BY <2>1, FaultyFInv
<1>14. CASE UNCHANGED vars
  <2>1. /\ pc' = pc /\ todo' = todo /\ errors' = errors /\ outcome' = outcome /\ got' = got
        /\ quar' = quar /\ txn' = txn /\ before' = before /\ clean' = clean
    BY <1>14 DEF vars, operation, bad
  <2>2. \A s : Listed(s)' = Listed(s)
    BY <2>1 DEF Listed, Entries
  <2>3. AllExtracted'
    BY <2>1, <2>2 DEF FInv, AllExtracted, Extracted, Entries
  <2>4. NoErrorYet' /\ AllFetched' /\ RemovalReason'
    BY <2>1 DEF FInv, NoErrorYet, AllFetched, RemovalReason, Unlisted, Doing
  <2>5. FailureHasReason'
    <3>1. UNCHANGED operation
      BY <1>14 DEF vars
    <3>2. (outcome' = "failed" /\ clean' => Reason')
      BY <2>1, <3>1, ReasonsKept, ReasonIsReason DEF FInv
    <3> QED
      BY <3>2, ReasonIsReason
  <2> QED
    BY <2>3, <2>4, <2>5 DEF FInv
<1> QED
  BY <1>1, <1>2, <1>3, <1>4, <1>6, <1>7, <1>8, <1>9, <1>10, <1>11, <1>12, <1>13, <1>14
     DEF Next, Done

LEMMA InitFInv == Init => FInv
BY DEF Init, FInv, NoErrorYet, AllFetched, AllExtracted, RemovalReason, FailureHasReason, Doing

(* An operation that meets no fault fails for one of the listed reasons    *)
(* only: the lock or the user's answer, missing root or a merged /usr, an  *)
(* architecture, a path of two packages or a restricted one, an installed  *)
(* package's missing list; and if it is to ignore errors, only for the     *)
(* first: for all packages, transactions, flags and histories.             *)
THEOREM FailsForAReason == Spec => []FailureHasReason
<1>1. IInv /\ Versions /\ OInv /\ FInv /\ [Next]_vars => FInv'
  BY NextOInv, NextFInv
<1>2. FInv => FailureHasReason
  BY DEF FInv
<1> QED
  BY <1>1, <1>2, InitFInv, Invariance, OrderInvariance, PTL DEF Spec

----------------------------------------------------------------------------
(* A store in which each file belongs to an installed package, unless some *)
(* were abandoned, and each package has its metadata and both lists of one *)
(* version, or none of them.                                               *)
Whole(store) ==
  /\ abandoned \/ \A s \in Slot : s[1] = "root" /\ store[s] # Absent =>
                                   \E p \in Pkg : s \in ListOf(store, p)
  /\ \A p \in Pkg, a \in Area : store[<<a, p>>] = store[<<"metadata", p>>]

Owned(s) ==
  \/ \E p \in DOMAIN txn : s \in DOMAIN Entries(p, txn[p])
  \/ \E p \in Pkg \ DOMAIN txn : s \in ListOf(before, p)

NothingFailed == clean /\ missed = {}
WholeStart == IF pc = "idle" THEN Whole(live) ELSE Whole(before)
OthersKept ==
  Doing => \A p \in Pkg \ DOMAIN txn, a \in Area : live[<<a, p>>] = before[<<a, p>>]
ListsArrive ==
  Doing /\ ~Preparing =>
    \A p \in DOMAIN txn, a \in Area :
      IF Waits(<<a, p>>) THEN quar[<<a, p>>] = txn[p] ELSE live[<<a, p>>] = txn[p]
QuarListed ==
  Preparing => \A s \in Slot : s[1] = "root" /\ quar[s] # Absent =>
                 \E p \in DOMAIN txn : s \in DOMAIN Entries(p, txn[p])
QuarOwned ==
  Doing /\ ~Preparing =>
    \A s \in Slot : s[1] = "root" /\ quar[s] # Absent => Owned(s)
LiveOwned ==
  Doing /\ ~Preparing =>
    abandoned \/ \A s \in Slot : s[1] = "root" /\ live[s] # Absent => Owned(s) \/ s \in leftovers

Kept(p) ==
  \A a \in Area : live[<<a, p>>] = before[<<a, p>>] /\ \A w \in todo : w[3] # <<a, p>>
Going(p) ==
  \A s \in (IF "without-files" \in flags THEN {} ELSE ListOf(before, p)) \cup Area \X {p} :
    live[s] = Absent \/ \E w \in todo : w[3] = s
RemovalWhole ==
  pc = "remove" =>
    /\ "without-files" \in flags => abandoned
    /\ \A s \in Slot : s[1] = "root" /\ live[s] # Absent => before[s] # Absent
    /\ \A p \in Pkg : Kept(p) \/ Going(p)

Orderly ==
  /\ NothingFailed /\ WholeStart /\ OthersKept /\ ListsArrive /\ QuarListed /\ QuarOwned
  /\ LiveOwned /\ RemovalWhole

WInv == faults \in Nat /\ (faults = 0 => Orderly)

LEMMA StartKept ==
  ASSUME before' = before, txn' = txn, abandoned' = abandoned
  PROVE  (Whole(before)' <=> Whole(before)) /\ \A s : Owned(s)' <=> Owned(s)
BY DEF Whole, ListOf, Owned, Entries

LEMMA LiveKept ==
  ASSUME live' = live, abandoned' = abandoned PROVE Whole(live)' <=> Whole(live)
BY DEF Whole, ListOf

(* What a version names is what its entries are.                           *)
LEMMA ListOfVersion ==
  ASSUME NEW store, NEW p \in Pkg, NEW v, store[<<"files", p>>] = v, store[<<"links", p>>] = v
  PROVE  ListOf(store, p) = DOMAIN Entries(p, v)
BY DEF ListOf, Entries

(* An absent package names nothing.                                        *)
LEMMA OwnersAreThere ==
  ASSUME NEW store, Whole(store), NEW p \in Pkg, NEW s \in ListOf(store, p)
  PROVE  store[<<"metadata", p>>] # Absent
<1>1. store[<<"files", p>>] = store[<<"metadata", p>>]
      /\ store[<<"links", p>>] = store[<<"metadata", p>>]
  BY FilesArea DEF Whole
<1> QED
  BY <1>1 DEF ListOf, Paths

(* The initial states.                                                     *)
LEMMA InitWInv == Init => WInv
<1> SUFFICES ASSUME Init PROVE WInv
  OBVIOUS
<1>1. PICK i \in [Pkg -> Ver \cup {Absent}] : live = StoreOf(i)
  BY DEF Init
<1>2. \A a \in Area, p \in Pkg : live[<<a, p>>] = i[p]
  <2> SUFFICES ASSUME NEW a \in Area, NEW p \in Pkg PROVE live[<<a, p>>] = i[p]
    OBVIOUS
  <2>1. <<a, p>> \in Slot /\ <<a, p>>[1] # "root" /\ <<a, p>>[2] = p
    BY AreaSlots DEF Area
  <2> QED
    BY <1>1, <2>1 DEF StoreOf
<1>3. ASSUME NEW s \in Slot, s[1] = "root", live[s] # Absent
      PROVE  \E p \in Pkg : s \in ListOf(live, p)
  <2>1. PICK p \in Pkg : s \in DOMAIN Entries(p, i[p])
    BY <1>1, <1>3 DEF StoreOf
  <2>2. live[<<"files", p>>] = i[p] /\ live[<<"links", p>>] = i[p]
    BY <1>2, FilesArea
  <2> QED
    BY <2>1, <2>2, ListOfVersion
<1>4. Whole(live)
  BY <1>2, <1>3 DEF Whole, Area
<1>5. pc = "idle" /\ missed = {} /\ clean /\ faults = 0
  BY DEF Init
<1> QED
  BY <1>4, <1>5
     DEF WInv, Orderly, NothingFailed, WholeStart, OthersKept, ListsArrive, QuarListed,
       QuarOwned, LiveOwned,
         RemovalWhole, Doing, Preparing

(* Between operations only the store matters.                              *)
LEMMA IdleOrderly ==
  ASSUME NothingFailed', pc' = "idle", Whole(live)'
  PROVE  Orderly'
BY DEF Orderly, NothingFailed, WholeStart, OthersKept, ListsArrive, QuarListed, QuarOwned,
       LiveOwned, RemovalWhole, Doing, Preparing

(* An operation begins on a whole store, or is barred and changes nothing. *)
LEMMA BeginOrderly ==
  ASSUME Orderly, NEW f, Begin(f), abandoned => abandoned'
  PROVE  Whole(before)' /\ NothingFailed' /\ (pc' = "idle" => Orderly')
<1>1. pc = "idle" /\ before' = live /\ live' = live /\ missed' = {} /\ clean' = TRUE
  BY DEF Begin
<1>2. Whole(live)
  BY <1>1 DEF Orderly, WholeStart
<1>3. Whole(before)' /\ Whole(live)' /\ NothingFailed'
  BY <1>1, <1>2 DEF Whole, ListOf, NothingFailed
<1> QED
  BY <1>3, IdleOrderly

LEMMA BeginInstallOrderly ==
  ASSUME Orderly, NEW q \in Installs, NEW f, BeginInstall(q, f) PROVE Orderly'
<1>1. /\ Begin(f) /\ live' = live /\ before' = live /\ abandoned' = abandoned
      /\ pc' = "idle" \/ (pc' = "download" /\ quar' = Nowhere)
  BY DEF BeginInstall, Begin, Exit
<1>2. Whole(before)' /\ NothingFailed' /\ (pc' = "idle" => Orderly')
  BY <1>1, BeginOrderly
<1>3. OthersKept'
  BY <1>1 DEF OthersKept
<1>4. ASSUME pc' = "download", quar' = Nowhere PROVE Orderly'
  BY <1>1, <1>2, <1>3, <1>4
     DEF Orderly, WholeStart, ListsArrive, QuarListed, QuarOwned, LiveOwned, RemovalWhole,
         Preparing, Nowhere
<1> QED
  BY <1>1, <1>2, <1>4

(* Each package is then removed or left alone.                             *)
LEMMA BeginRemoveOrderly ==
  ASSUME Orderly, NEW S \in Removals, NEW f, BeginRemove(S, f) PROVE Orderly'
<1> DEFINE present == { p \in S : live[<<"metadata", p>>] # Absent }
<1>1. /\ Begin(f) /\ live' = live /\ before' = live /\ flags' = f
      /\ abandoned' = (abandoned \/ "without-files" \in f)
      /\ pc' = "idle" \/ (pc' = "remove" /\ todo' = UNION { Work(p, f) : p \in present })
  BY DEF BeginRemove, Begin, Exit
<1>2. Whole(before)' /\ NothingFailed' /\ (pc' = "idle" => Orderly')
  BY <1>1, BeginOrderly
<1>3. \A p \in present : p \in Pkg
  BY InstallAssumption
<1> SUFFICES ASSUME pc' = "remove", todo' = UNION { Work(p, f) : p \in present } PROVE Orderly'
  BY <1>1, <1>2
<1>4. ASSUME NEW p \in present, "without-metadata" \notin f PROVE Going(p)'
  <2>1. ASSUME NEW s \in ListOf(live, p), "without-files" \notin f
        PROVE  \E w \in Work(p, f) : w[3] = s
    <3>1. <<p, 1, s>> \in Work(p, f) \/ <<p, 2, s>> \in Work(p, f)
      BY <2>1 DEF ListOf, Work
    <3>2. <<p, 1, s>>[3] = s /\ <<p, 2, s>>[3] = s
      OBVIOUS
    <3> QED
      BY <3>1, <3>2
  <2>2. ASSUME NEW a \in Area PROVE \E w \in Work(p, f) : w[3] = <<a, p>>
    <3>1. PICK n : <<p, n, <<a, p>> >> \in Work(p, f)
      BY <1>4 DEF Area, Work
    <3>2. <<p, n, <<a, p>> >>[3] = <<a, p>>
      OBVIOUS
    <3> QED
      BY <3>1, <3>2
  <2>3. Work(p, f) \subseteq todo'
    OBVIOUS
  <2>4. ListOf(before, p)' = ListOf(live, p)
    BY <1>1 DEF ListOf
  <2> QED
    BY <1>1, <2>1, <2>2, <2>3, <2>4 DEF Going
<1>5. ASSUME NEW p \in Pkg, p \notin present \/ "without-metadata" \in f PROVE Kept(p)'
  <2>1. ASSUME NEW a \in Area, NEW w \in todo' PROVE w[3] # <<a, p>>
    <3>1. PICK r \in present : w \in Work(r, f)
      BY <2>1
    <3>2. w[3][1] = "root" \/ (w[3][2] = r /\ "without-metadata" \notin f)
      BY <3>1 DEF Work, Root
    <3> QED
      BY <1>5, <2>1, <3>2 DEF Area
  <2> QED
    BY <1>1, <2>1 DEF Kept
<1>6. RemovalWhole'
  BY <1>1, <1>4, <1>5 DEF RemovalWhole
<1> QED
  BY <1>1, <1>2, <1>6
     DEF Orderly, WholeStart, OthersKept, ListsArrive, QuarListed, QuarOwned, LiveOwned, Doing,
         Preparing

(* Until the quarantine is judged the system is what it was.               *)
LEMMA PreparingOrderly ==
  ASSUME Orderly, Core, Preparing, Preparing' \/ pc' = "idle", clean' = clean,
         UNCHANGED <<live, missed, operation>>, pc' = "idle" \/ QuarListed'
  PROVE  Orderly'
<1>1. /\ Doing /\ live = before /\ pc # "idle" /\ pc # "remove" /\ txn' = txn
         /\ before' = before /\ abandoned' = abandoned
      /\ live' = live
  BY DEF Core, Untouched, Doing, Preparing, operation
<1>2. Whole(before)
  BY <1>1 DEF Orderly, WholeStart
<1>3. CASE pc' = "idle"
  <2>1. Whole(live)'
    BY <1>1, <1>2, LiveKept
  <2> QED
    BY <1>1, <1>3, <2>1, IdleOrderly DEF Orderly, NothingFailed
<1>4. CASE Preparing' /\ QuarListed'
  <2>1. Whole(before)'
    BY <1>1, <1>2, StartKept
  <2>2. OthersKept' /\ NothingFailed'
    BY <1>1 DEF Orderly, OthersKept, NothingFailed
  <2> QED
    BY <1>4, <2>1, <2>2
       DEF Orderly, WholeStart, ListsArrive, QuarListed, QuarOwned, LiveOwned, RemovalWhole,
         Preparing
<1>5. pc' = "idle" => ~Preparing'
  BY DEF Preparing
<1> QED
  BY <1>3, <1>4, <1>5

(* A step of the moves and of the clearing.                                *)
LEMMA MovingOrderly ==
  ASSUME Orderly, Doing, Doing', ~Preparing', UNCHANGED operation, missed' = missed,
         clean' = clean, OthersKept', ListsArrive', QuarOwned', LiveOwned'
  PROVE  Orderly'
<1>1. pc # "idle" /\ pc' # "idle" /\ pc' # "remove" /\ txn' = txn /\ before' = before
      /\ abandoned' = abandoned
  BY DEF Doing, operation
<1>2. Whole(before)'
  BY <1>1, StartKept DEF Orderly, WholeStart
<1> QED
  BY <1>1, <1>2 DEF Orderly, NothingFailed, WholeStart, RemovalWhole, QuarListed

(* What a replaced package named and its new version does not is left over,*)
(* so that every file is owned or left over.                               *)
LEMMA JudgeOrderly == ASSUME Orderly, FInv, Core, IInv, Judge PROVE Orderly'
<1>1. /\ pc = "extract" /\ todo = {} /\ UNCHANGED <<live, quar, missed, operation>>
      /\ clean' = clean /\ leftovers' = UNION { Leftover(p) : p \in DOMAIN txn }
      /\ \/ pc' = "idle"
         \/ pc' = "root" /\ todo' = Quarantined("root")
  BY DEF Judge, bad, ErrorOr, Exit
<1>2. /\ Doing /\ Preparing /\ live = before
      /\ txn' = txn /\ before' = before /\ abandoned' = abandoned /\ live' = live /\ quar' = quar
  BY <1>1 DEF Core, Untouched, Doing, Preparing, operation
<1>3. CASE pc' = "idle"
  BY <1>1, <1>2, <1>3, PreparingOrderly
<1>4. CASE pc' = "root"
  <2>1. Doing' /\ ~Preparing' /\ Moving'
    BY <1>4 DEF Doing, Preparing, Moving
  <2>2. Whole(before) /\ clean /\ QuarListed
    BY <1>1 DEF Orderly, WholeStart, NothingFailed
  <2>3. \A p \in DOMAIN txn : p \in Pkg /\ txn[p] # Absent
        /\ \A a \in Area : quar[<<a, p>>] = txn[p]
    BY <1>1, <1>2, <2>2, OfTransaction DEF FInv, AllExtracted, Extracted
  <2>4. OthersKept'
    BY <1>2 DEF OthersKept
  <2>5. ListsArrive'
    <3> SUFFICES ASSUME NEW p \in DOMAIN txn, NEW a \in Area PROVE Waits(<<a, p>>)'
      BY <1>2, <2>3 DEF ListsArrive
    <3>1. a \in Ahead(pc)' /\ <<a, p>>[1] = a
      BY <1>4 DEF Ahead
    <3> QED
      BY <2>1, <3>1 DEF Waits
  <2>6. QuarOwned'
    BY <1>2, <2>2, StartKept DEF QuarListed, QuarOwned, Owned
  <2>7. LiveOwned'
    <3> SUFFICES ASSUME ~abandoned, NEW s \in Slot, s[1] = "root", live[s] # Absent, ~Owned(s)
                 PROVE  s \in leftovers'
      BY <1>2, StartKept DEF LiveOwned
    <3>1. PICK p \in Pkg : s \in ListOf(live, p)
      BY <1>2, <2>2 DEF Whole
    <3>2. p \in DOMAIN txn /\ s \notin DOMAIN Entries(p, txn[p])
      BY <1>2, <3>1 DEF Owned
    <3>3. live[<<"metadata", p>>] # Absent
      BY <1>2, <2>2, <3>1, OwnersAreThere
    <3>4. /\ quar[<<"metadata", p>>] = txn[p] /\ quar[<<"files", p>>] = txn[p]
          /\ quar[<<"links", p>>] = txn[p] /\ txn[p] # Absent
      BY <2>3, <3>2 DEF Area
    <3>5. ListOf(quar, p) = DOMAIN Entries(p, txn[p])
      BY <3>4, ListOfVersion
    <3>6. s \in Leftover(p)
      BY <3>1, <3>2, <3>3, <3>4, <3>5 DEF Leftover, Replaced
    <3> QED
      BY <1>1, <3>2, <3>6
  <2> QED
    BY <1>1, <1>2, <2>1, <2>4, <2>5, <2>6, <2>7, MovingOrderly
<1> QED
  BY <1>1, <1>3, <1>4

(* What is being moved is of the transaction.                              *)
LEMMA MovedIsOurs ==
  ASSUME Core, Moving, NEW s \in todo, NEW p \in Pkg \ DOMAIN txn, NEW a \in Area
  PROVE  s # <<a, p>>
BY DEF Core, Scope, ListsAreOurs, Doing, Moving

LEMMA DisplaceOrderly ==
  ASSUME Orderly, Core, IInv, NEW s \in Slot, Displace(s) PROVE Orderly'
<1>1. /\ Moving /\ s \in todo /\ pc' = pc /\ todo' = todo /\ quar' = quar /\ missed' = missed
      /\ leftovers' = leftovers /\ clean' = clean /\ UNCHANGED operation
  BY DEF Displace, bad
<1>2. \A t \in Slot : live'[t] = IF t = s THEN Absent ELSE live[t]
  BY EmptiedLive DEF Displace
<1>3. /\ Doing /\ Doing' /\ ~Preparing /\ ~Preparing' /\ txn' = txn /\ before' = before
         /\ abandoned' = abandoned
  BY <1>1 DEF Doing, Moving, Preparing, operation
<1>4. OthersKept'
  BY <1>1, <1>2, <1>3, MovedIsOurs, AreaSlots DEF Orderly, OthersKept
<1>5. ListsArrive'
  <2> SUFFICES ASSUME NEW p \in DOMAIN txn, NEW a \in Area
               PROVE  IF Waits(<<a, p>>)' THEN quar[<<a, p>>] = txn[p]
                      ELSE live'[<<a, p>>] = txn[p]
    BY <1>1, <1>3 DEF ListsArrive
  <2>1. <<a, p>> \in Slot
    BY <1>3, OfTransaction, AreaSlots
  <2>2. Waits(<<a, p>>)' <=> Waits(<<a, p>>)
    BY <1>1 DEF Waits, Moving, Ahead
  <2>3. IF Waits(<<a, p>>) THEN quar[<<a, p>>] = txn[p] ELSE live[<<a, p>>] = txn[p]
    BY <1>3 DEF Orderly, ListsArrive
  <2>4. s = <<a, p>> => Waits(<<a, p>>)
    BY <1>1 DEF Waits
  <2> QED
    BY <1>2, <2>1, <2>2, <2>3, <2>4
<1>6. QuarOwned' /\ LiveOwned'
  BY <1>1, <1>2, <1>3, StartKept DEF Orderly, QuarOwned, LiveOwned
<1> QED
  BY <1>1, <1>3, <1>4, <1>5, <1>6, MovingOrderly

LEMMA PlaceOrderly ==
  ASSUME Orderly, Core, IInv, NEW s \in Slot, Place(s), faults' = 0, faults \in Nat PROVE Orderly'
<1>0. ~Fault
  BY DEF Fault
<1>1. /\ Moving /\ s \in todo /\ pc' = pc /\ todo' = todo \ {s} /\ missed' = missed
      /\ leftovers' = leftovers /\ clean' = clean /\ UNCHANGED operation
  BY <1>0 DEF Place, bad
<1>2. /\ \A t \in Slot : live'[t] = IF t = s THEN quar[s] ELSE live[t]
      /\ \A t \in Slot : quar'[t] = IF t = s THEN Absent ELSE quar[t]
  BY <1>0 DEF Place, IInv, Stores
<1>3. /\ Doing /\ Doing' /\ ~Preparing /\ ~Preparing' /\ txn' = txn /\ before' = before
         /\ abandoned' = abandoned
  BY <1>1 DEF Doing, Moving, Preparing, operation
<1>4. OthersKept'
  BY <1>1, <1>2, <1>3, MovedIsOurs, AreaSlots DEF Orderly, OthersKept
<1>5. ListsArrive'
  <2> SUFFICES ASSUME NEW p \in DOMAIN txn, NEW a \in Area
               PROVE  IF Waits(<<a, p>>)' THEN quar'[<<a, p>>] = txn[p]
                      ELSE live'[<<a, p>>] = txn[p]
    BY <1>1, <1>3 DEF ListsArrive
  <2>1. <<a, p>> \in Slot /\ <<a, p>>[1] = a
    BY <1>3, OfTransaction, AreaSlots
  <2>2. IF Waits(<<a, p>>) THEN quar[<<a, p>>] = txn[p] ELSE live[<<a, p>>] = txn[p]
    BY <1>3 DEF Orderly, ListsArrive
  <2>3. CASE s # <<a, p>>
    <3>1. Waits(<<a, p>>)' <=> Waits(<<a, p>>)
      BY <1>1, <2>3 DEF Waits, Moving, Ahead
    <3> QED
      BY <1>2, <2>1, <2>2, <2>3, <3>1
  <2>4. CASE s = <<a, p>>
    <3>1. a = pc
      BY <1>1, <2>1, <2>4 DEF Core, Scope
    <3>2. Waits(<<a, p>>) /\ ~Waits(<<a, p>>)'
      BY <1>1, <2>1, <2>4, <3>1 DEF Waits, Moving, Ahead, Area
    <3> QED
      BY <1>2, <2>1, <2>2, <2>4, <3>2
  <2> QED
    BY <2>3, <2>4
<1>6. QuarOwned' /\ LiveOwned'
  BY <1>1, <1>2, <1>3, StartKept DEF Orderly, QuarOwned, LiveOwned
<1> QED
  BY <1>1, <1>3, <1>4, <1>5, <1>6, MovingOrderly

LEMMA NextPhaseOrderly == ASSUME Orderly, Core, NextPhase PROVE Orderly'
<1>1. /\ Moving /\ todo = {} /\ pc' = Following(pc) /\ todo' = Quarantined(pc') /\ live' = live
      /\ quar' = quar /\ missed' = missed /\ leftovers' = leftovers /\ clean' = clean
      /\ UNCHANGED operation
  BY DEF NextPhase, bad
<1>2. \/ pc' = "wipe" /\ Ahead(pc) = {}
      \/ pc' \in {"files", "links", "metadata"} /\ Ahead(pc) = {pc'} \cup Ahead(pc')
  BY <1>1, PhaseOrder
<1>3. /\ Doing /\ Doing' /\ ~Preparing /\ ~Preparing' /\ txn' = txn /\ before' = before
         /\ abandoned' = abandoned
  BY <1>1, <1>2 DEF Doing, Moving, Preparing, operation
<1>4. OthersKept' /\ QuarOwned' /\ LiveOwned'
  BY <1>1, <1>3, StartKept DEF Orderly, OthersKept, QuarOwned, LiveOwned
<1>5. ListsArrive'
  <2> SUFFICES ASSUME NEW p \in DOMAIN txn, NEW a \in Area
               PROVE  IF Waits(<<a, p>>)' THEN quar[<<a, p>>] = txn[p]
                      ELSE live[<<a, p>>] = txn[p]
    BY <1>1, <1>3 DEF ListsArrive
  <2>1. <<a, p>> \in Slot /\ <<a, p>>[1] = a /\ txn[p] # Absent
    BY <1>3, OfTransaction, AreaSlots
  <2>2. IF Waits(<<a, p>>) THEN quar[<<a, p>>] = txn[p] ELSE live[<<a, p>>] = txn[p]
    BY <1>3 DEF Orderly, ListsArrive
  <2>3. Waits(<<a, p>>) <=> a \in Ahead(pc)
    BY <1>1, <2>1 DEF Waits
  <2>4. <<a, p>> \in todo' <=> a = pc' /\ quar[<<a, p>>] # Absent
    BY <1>1, <2>1 DEF Quarantined
  <2>5. Waits(<<a, p>>)' <=> pc' # "wipe" /\ (<<a, p>> \in todo' \/ a \in Ahead(pc'))
    BY <1>2, <2>1 DEF Waits, Ahead, Moving
  <2> QED
    BY <1>2, <2>1, <2>2, <2>3, <2>4, <2>5
<1> QED
  BY <1>1, <1>3, <1>4, <1>5, MovingOrderly

LEMMA WipeOrderly == ASSUME Orderly, FInv, Core, Wipe PROVE Orderly'
<1>1. /\ pc = "wipe" /\ live' = live /\ quar' = Nowhere /\ missed' = missed
      /\ leftovers' = leftovers /\ clean' = clean /\ UNCHANGED operation
      /\ ErrorOr(errors, "clear", leftovers)
  BY DEF Wipe, bad
<1>2. ~errors
  BY <1>1 DEF Orderly, NothingFailed, FInv, NoErrorYet, Doing
<1>3. pc' = "clear"
  BY <1>1, <1>2 DEF ErrorOr
<1>4. /\ Doing /\ Doing' /\ ~Preparing /\ ~Preparing' /\ ~Moving /\ ~Moving'
      /\ txn' = txn /\ before' = before /\ abandoned' = abandoned
  BY <1>1, <1>3 DEF Doing, Moving, Preparing, operation
<1>5. OthersKept' /\ LiveOwned' /\ QuarOwned'
  BY <1>1, <1>4, StartKept DEF Orderly, OthersKept, LiveOwned, QuarOwned, Nowhere
<1>6. ListsArrive'
  BY <1>1, <1>4 DEF Orderly, ListsArrive, Waits
<1> QED
  BY <1>1, <1>4, <1>5, <1>6, MovingOrderly

LEMMA ClearOrderly == ASSUME Orderly, Core, IInv, NEW s \in Slot, Clear(s) PROVE Orderly'
<1>1. /\ pc = "clear" /\ pc' = pc /\ s \in todo /\ quar' = quar /\ missed' = missed
      /\ leftovers' = leftovers /\ clean' = clean /\ UNCHANGED operation
  BY DEF Clear, bad
<1>2. \A t \in Slot : live'[t] = IF t = s THEN Absent ELSE live[t]
  BY EmptiedLive DEF Clear
<1>3. /\ Doing /\ Doing' /\ ~Preparing /\ ~Preparing' /\ ~Moving /\ ~Moving'
      /\ txn' = txn /\ before' = before /\ abandoned' = abandoned
  BY <1>1 DEF Doing, Moving, Preparing, operation
<1>4. \A a \in Area, p \in Pkg : live'[<<a, p>>] = live[<<a, p>>]
  BY <1>1, <1>2, AreaSlots DEF Core, Scope, LeftoversAreFiles
<1>5. OthersKept'
  BY <1>3, <1>4 DEF Orderly, OthersKept
<1>6. ListsArrive'
  <2> SUFFICES ASSUME NEW p \in DOMAIN txn, NEW a \in Area PROVE live'[<<a, p>>] = txn[p]
    BY <1>3 DEF ListsArrive, Waits
  <2>1. live[<<a, p>>] = txn[p] /\ p \in Pkg
    BY <1>3, OfTransaction DEF Orderly, ListsArrive, Waits
  <2> QED
    BY <1>4, <2>1
<1>7. QuarOwned' /\ LiveOwned'
  BY <1>1, <1>2, <1>3, StartKept DEF Orderly, QuarOwned, LiveOwned
<1> QED
  BY <1>1, <1>3, <1>5, <1>6, <1>7, MovingOrderly

(* The leftovers gone, what there is is owned, by a package that is there. *)
LEMMA ClearedOrderly == ASSUME Orderly, Core, Cleared PROVE Orderly'
<1>1. /\ pc = "clear" /\ todo = {} /\ pc' = "idle" /\ live' = live /\ missed' = missed
      /\ clean' = clean /\ abandoned' = abandoned
  BY DEF Cleared, Exit, bad, operation
<1>2. Doing /\ ~Preparing /\ ~Moving /\ Whole(before)
  BY <1>1 DEF Orderly, WholeStart, Doing, Preparing, Moving
<1>3. \A p \in DOMAIN txn, a \in Area : p \in Pkg /\ live[<<a, p>>] = txn[p]
  BY <1>2, OfTransaction DEF Orderly, ListsArrive, Waits
<1>4. \A p \in Pkg \ DOMAIN txn, a \in Area : live[<<a, p>>] = before[<<a, p>>]
  BY <1>2 DEF Orderly, OthersKept
<1>5. ASSUME ~abandoned, NEW s \in Slot, s[1] = "root", live[s] # Absent
      PROVE  \E p \in Pkg : s \in ListOf(live, p)
  <2>1. s \notin leftovers
    BY <1>1, <1>5 DEF Core, ClearedIsGone
  <2>2. Owned(s)
    BY <1>2, <1>5, <2>1 DEF Orderly, LiveOwned
  <2>3. CASE \E p \in DOMAIN txn : s \in DOMAIN Entries(p, txn[p])
    <3>1. PICK p \in DOMAIN txn : s \in DOMAIN Entries(p, txn[p])
      BY <2>3
    <3>2. p \in Pkg /\ live[<<"files", p>>] = txn[p] /\ live[<<"links", p>>] = txn[p]
      BY <1>3, FilesArea
    <3> QED
      BY <3>1, <3>2, ListOfVersion
  <2>4. CASE \E p \in Pkg \ DOMAIN txn : s \in ListOf(before, p)
    <3>1. PICK p \in Pkg \ DOMAIN txn : s \in ListOf(before, p)
      BY <2>4
    <3>2. live[<<"files", p>>] = before[<<"files", p>>]
          /\ live[<<"links", p>>] = before[<<"links", p>>]
      BY <1>4, FilesArea
    <3> QED
      BY <3>1, <3>2 DEF ListOf
  <2> QED
    BY <2>2, <2>3, <2>4 DEF Owned
<1>6. ASSUME NEW p \in Pkg, NEW a \in Area PROVE live[<<a, p>>] = live[<<"metadata", p>>]
  <2>1. before[<<a, p>>] = before[<<"metadata", p>>] /\ "metadata" \in Area
    BY <1>2 DEF Whole, Area
  <2> QED
    BY <1>3, <1>4, <2>1
<1>7. Whole(live)'
  BY <1>1, <1>5, <1>6, LiveKept DEF Whole
<1> QED
  BY <1>1, <1>7, IdleOrderly DEF Orderly, NothingFailed

(* A removal empties what its work names.                                  *)
LEMMA RemoveFileOrderly ==
  ASSUME Orderly, Core, IInv, Versions, NEW w \in todo, RemoveFile(w) PROVE Orderly'
<1>1. /\ pc = "remove" /\ pc' = pc /\ todo' = todo \ {w} /\ missed' = missed /\ clean' = clean
      /\ flags' = flags
      /\ txn' = txn /\ before' = before /\ abandoned' = abandoned
  BY DEF RemoveFile, bad, operation
<1>2. \A t \in Slot : live'[t] = IF t = w[3] THEN Absent ELSE live[t]
  BY EmptiedLive DEF RemoveFile
<1>3. RemovalWhole'
  <2>1. ASSUME NEW s \in Slot, s[1] = "root", live'[s] # Absent PROVE before'[s] # Absent
    BY <1>1, <1>2, <2>1 DEF Orderly, RemovalWhole
  <2>2. ASSUME NEW p \in Pkg, Kept(p) PROVE Kept(p)'
    BY <1>1, <1>2, <2>2, AreaSlots DEF Kept
  <2>3. ASSUME NEW p \in Pkg, Going(p) PROVE Going(p)'
    <3>1. \A s \in ListOf(before, p) \cup Area \X {p} : s \in Slot
      <4>1. \A s \in ListOf(before, p) : s \in Slot
        BY ListedPaths, FilesArea DEF Versions
      <4> QED
        BY <4>1 DEF Slot
    <3>2. ListOf(before, p)' = ListOf(before, p)
      BY <1>1 DEF ListOf
    <3>3. \A s \in (IF "without-files" \in flags THEN {} ELSE ListOf(before, p))
                    \cup Area \X {p} :
            live'[s] = Absent \/ \E u \in todo' : u[3] = s
      BY <1>1, <1>2, <2>3, <3>1 DEF Going
    <3> QED
      BY <1>1, <3>2, <3>3 DEF Going
  <2> QED
    BY <1>1, <2>1, <2>2, <2>3 DEF Orderly, RemovalWhole
<1>4. Whole(before)'
  BY <1>1, StartKept DEF Orderly, WholeStart
<1> QED
  BY <1>1, <1>3, <1>4
     DEF Orderly, NothingFailed, WholeStart, OthersKept, ListsArrive, QuarListed, QuarOwned,
         LiveOwned, Doing, Preparing

(* When its work is done a package is gone or as it was.                   *)
LEMMA RemovedOrderly == ASSUME Orderly, Removed PROVE Orderly'
<1>1. /\ pc = "remove" /\ todo = {} /\ pc' = "idle" /\ live' = live /\ missed' = missed
      /\ clean' = clean /\ abandoned' = abandoned
  BY DEF Removed, Exit, bad, operation
<1>2. Whole(before) /\ RemovalWhole
  BY <1>1 DEF Orderly, WholeStart
<1>3. \A p \in Pkg :
        \/ \A a \in Area : live[<<a, p>>] = before[<<a, p>>]
        \/ /\ \A a \in Area : live[<<a, p>>] = Absent
           /\ abandoned \/ \A s \in ListOf(before, p) : live[s] = Absent
  BY <1>1, <1>2 DEF RemovalWhole, Kept, Going
<1>4. ASSUME ~abandoned, NEW s \in Slot, s[1] = "root", live[s] # Absent
      PROVE  \E p \in Pkg : s \in ListOf(live, p)
  <2>1. before[s] # Absent
    BY <1>1, <1>2, <1>4 DEF RemovalWhole
  <2>2. PICK p \in Pkg : s \in ListOf(before, p)
    BY <1>2, <1>4, <2>1 DEF Whole
  <2>3. live[<<"files", p>>] = before[<<"files", p>>]
        /\ live[<<"links", p>>] = before[<<"links", p>>]
    BY <1>3, <1>4, <2>2, FilesArea
  <2> QED
    BY <2>2, <2>3 DEF ListOf
<1>5. ASSUME NEW p \in Pkg, NEW a \in Area PROVE live[<<a, p>>] = live[<<"metadata", p>>]
  <2>1. before[<<a, p>>] = before[<<"metadata", p>>] /\ "metadata" \in Area
    BY <1>2 DEF Whole, Area
  <2> QED
    BY <1>3, <2>1
<1>6. Whole(live)'
  BY <1>1, <1>4, <1>5, LiveKept DEF Whole
<1> QED
  BY <1>1, <1>6, IdleOrderly DEF Orderly, NothingFailed

LEMMA SameOrderly == ASSUME Orderly, UNCHANGED vars PROVE Orderly'
<1>1. /\ pc' = pc /\ todo' = todo /\ live' = live /\ quar' = quar /\ leftovers' = leftovers
      /\ flags' = flags
      /\ missed' = missed /\ clean' = clean /\ txn' = txn /\ before' = before
         /\ abandoned' = abandoned
  BY DEF vars, operation, bad
<1>2. (Whole(before)' <=> Whole(before)) /\ (Whole(live)' <=> Whole(live))
      /\ \A s : Owned(s)' <=> Owned(s)
  BY <1>1, StartKept, LiveKept
<1>3. NothingFailed' /\ WholeStart' /\ OthersKept' /\ QuarOwned' /\ LiveOwned'
  BY <1>1, <1>2 DEF Orderly, NothingFailed, WholeStart, OthersKept, QuarOwned, LiveOwned, Doing,
                    Preparing
<1>6. QuarListed'
  BY <1>1 DEF Orderly, QuarListed, Preparing, Entries
<1>4. ListsArrive'
  <2>1. \A s : Waits(s)' <=> Waits(s)
    BY <1>1 DEF Waits, Moving, Ahead
  <2> QED
    BY <1>1, <2>1 DEF Orderly, ListsArrive, Doing, Preparing
<1>5. RemovalWhole'
  BY <1>1 DEF Orderly, RemovalWhole, Kept, Going, ListOf
<1> QED
  BY <1>3, <1>4, <1>5, <1>6 DEF Orderly

(* A step either meets a fault or keeps the order.                         *)
LEMMA NextOrderly ==
  ASSUME Orderly, FInv, OInv, IInv, Versions, [Next]_vars, faults \in Nat, faults' = 0
  PROVE  Orderly'
<1>0. Core /\ ~Fault
  BY DEF OInv, Fault
<1>1. ASSUME NEW q \in Installs, NEW f, BeginInstall(q, f) PROVE Orderly'
  BY <1>1, BeginInstallOrderly
<1>2. ASSUME NEW S \in Removals, NEW f, BeginRemove(S, f) PROVE Orderly'
  BY <1>2, BeginRemoveOrderly
<1>3. ASSUME NEW p \in Pkg, Download(p) \/ Get(p) PROVE Orderly'
  <2>1. /\ Preparing /\ UNCHANGED <<live, quar, missed, operation>> /\ clean' = clean
        /\ pc' \in {"download", "get", "extract", "idle"}
    BY <1>0, <1>3 DEF Download, Get, Preparing, bad, ErrorOr, Exit
  <2>2. QuarListed'
    BY <2>1 DEF Orderly, QuarListed, Entries, operation
  <2> QED
    BY <1>0, <2>1, <2>2, PreparingOrderly DEF Preparing
<1>4. ASSUME NEW p \in Pkg, Extract(p) PROVE Orderly'
  <2>1. /\ pc = "extract" /\ p \in todo /\ UNCHANGED <<live, missed, operation>> /\ clean' = clean
        /\ pc' \in {"extract", "idle"}
        /\ quar' = quar \/ quar' = Laid(p, TRUE)
    BY <1>0, <1>4 DEF Extract, bad, ErrorOr, Exit
  <2>2. p \in DOMAIN txn /\ Preparing /\ txn' = txn
    BY <2>1 DEF IInv, WorkOfTransaction, Preparing, operation
  <2>3. \A s \in Slot : s[1] = "root" =>
          quar'[s] = quar[s] \/ s \in DOMAIN Entries(p, txn[p])
    BY <2>1 DEF Laid, Area
  <2>4. QuarListed'
    BY <2>2, <2>3 DEF Orderly, QuarListed, Entries
  <2> QED
    BY <1>0, <2>1, <2>2, <2>4, PreparingOrderly DEF Preparing
<1>5. CASE Downloaded
  <2>1. /\ Preparing /\ UNCHANGED <<live, quar, missed, operation>> /\ clean' = clean
        /\ pc' \in {"get", "idle"}
    BY <1>5 DEF Downloaded, Preparing, bad, Exit
  <2>2. QuarListed'
    BY <2>1 DEF Orderly, QuarListed, Entries, operation
  <2> QED
    BY <1>0, <2>1, <2>2, PreparingOrderly DEF Preparing
<1>6. CASE Judge \/ NextPhase \/ Wipe \/ Cleared \/ Removed
  BY <1>0, <1>6, JudgeOrderly, NextPhaseOrderly, WipeOrderly, ClearedOrderly, RemovedOrderly
<1>7. ASSUME NEW s \in Slot, Spoil(s) \/ Displace(s) \/ Place(s) \/ Clear(s) PROVE Orderly'
  BY <1>0, <1>7, DisplaceOrderly, PlaceOrderly, ClearOrderly DEF Spoil
<1>8. ASSUME NEW w \in todo, RemoveFile(w) PROVE Orderly'
  BY <1>0, <1>8, RemoveFileOrderly
<1>9. ~Crash
  BY <1>0 DEF Crash
<1>10. CASE UNCHANGED vars
  BY <1>10, SameOrderly
<1> QED
  BY <1>1, <1>2, <1>3, <1>4, <1>5, <1>6, <1>7, <1>8, <1>9, <1>10 DEF Next, Done

(* Faults are only counted.                                                *)
LEMMA FaultsCounted ==
  ASSUME faults \in Nat, [Next]_vars PROVE faults' \in Nat /\ (faults' = 0 => faults = 0)
<1>1. faults' = faults \/ Fault
  <2>1. CASE \/ Downloaded \/ Judge \/ NextPhase \/ Wipe \/ Cleared \/ Removed \/ Crash \/ Done
             \/ UNCHANGED vars
    BY <2>1 DEF Downloaded, Judge, NextPhase, Wipe, Cleared, Removed, Crash, Done, bad, vars
  <2>2. ASSUME NEW q \in Installs, NEW f, BeginInstall(q, f) PROVE faults' = faults
    BY <2>2 DEF BeginInstall, Begin
  <2>3. ASSUME NEW S \in Removals, NEW f, BeginRemove(S, f) PROVE faults' = faults
    BY <2>3 DEF BeginRemove, Begin
  <2>4. ASSUME NEW p \in Pkg, Download(p) \/ Get(p) \/ Extract(p) PROVE faults' = faults \/ Fault
    BY <2>4 DEF Download, Get, Extract, bad
  <2>5. ASSUME NEW s \in Slot, Spoil(s) \/ Displace(s) \/ Place(s) \/ Clear(s)
        PROVE  faults' = faults \/ Fault
    BY <2>5 DEF Spoil, Displace, Place, Clear, bad
  <2>6. ASSUME NEW w \in todo, RemoveFile(w) PROVE faults' = faults
    BY <2>6 DEF RemoveFile, bad
  <2> QED
    BY <2>1, <2>2, <2>3, <2>4, <2>5, <2>6 DEF Next
<1> QED
  BY <1>1 DEF Fault

LEMMA NextWInv == ASSUME WInv, FInv, OInv, IInv, Versions, [Next]_vars PROVE WInv'
BY FaultsCounted, NextOrderly DEF WInv

(* Without faults an installation or a removal, whether it succeeds, fails *)
(* or is told to ignore errors, leaves no package with a part of its       *)
(* records, and no file without a package unless a removal was told to     *)
(* leave the files: for all packages, lists, flags and sequences of        *)
(* operations.                                                             *)
THEOREM NothingIsOrphaned == Spec => []NoOrphans
<1>1. WInv => NoOrphans
  BY DEF WInv, Orderly, WholeStart, Whole, NoOrphans
<1>2. IInv /\ Versions /\ OInv /\ FInv /\ WInv /\ [Next]_vars => (FInv /\ WInv)'
  BY NextOInv, NextFInv, NextWInv
<1> QED
  BY <1>1, <1>2, InitFInv, InitWInv, Invariance, OrderInvariance, PTL DEF Spec
=============================================================================
