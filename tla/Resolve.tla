------------------------------ MODULE Resolve ------------------------------
(***************************************************************************)
(* resolve_dependencies and resolve_reverse_dependencies of                *)
(* src/data/dependency.vala: from the names on the command line to the     *)
(* list of packages to install, dependencies before dependents, or to      *)
(* remove, packages before what depends on them.  The recursion is the     *)
(* variable stack: its head is the innermost call, each frame the names of *)
(* one call of resolve_process, the next of them, and the package whose    *)
(* dependencies (or dependents) they are.  One step is one name.           *)
(***************************************************************************)
EXTENDS YmpArray, SequencesExt

CONSTANTS
  Name,     \* packages, groups and patterns (sets), "x|y" alternatives
  Worlds    \* what is asked, of which repositories and installed packages

(* parts[n] is what a name stands for: the packages of a set, the          *)
(* alternatives of an "x|y", the dependencies of a package.  A package has *)
(* one source in one resolution, so one list of dependencies.              *)
World ==
  [mode : {"install", "remove"}, request : Seq(Name),
   kind : [Name -> {"package", "file", "set", "or"}], parts : [Name -> Seq(Name)],
   available : SUBSET Name,     \* in a repository
   installed : SUBSET Name,
   newer : SUBSET Name,         \* the repository's release is above the installed one
   marked : SUBSET Name,        \* has the "unsafe" area
   flags : SUBSET {"reinstall", "ignore-dependency", "ignore-missing",
                   "ignore-satisfied", "unsafe"},
   max_depth : Nat]

(* Repositories and the store hold packages; splitting "x|y" at the bars   *)
(* yields at least one name, and each is taken as a package's.             *)
IsPackage(w, n) == w.kind[n] \in {"package", "file"}

ASSUME ResolveAssumption ==
  /\ IsFiniteSet(Name) /\ NULL \notin Name
  /\ Worlds \subseteq World
  /\ \A w \in Worlds :
       /\ \A n \in w.available \cup w.installed : IsPackage(w, n)
       /\ \A n \in Name : w.kind[n] = "or" =>
            w.parts[n] # <<>> /\ \A m \in Range(w.parts[n]) : IsPackage(w, m)

VARIABLES
  world,
  stack,          \* the calls of resolve_process, innermost first
  cache_list, need_install,
  depth,
  errors,         \* error_add was called
  status          \* "running", "done", or "failed" by error(3)

vars == <<world, stack, cache_list, need_install, depth, errors, status>>

Frame(names, pkg) == [names |-> names, i |-> 1, pkg |-> pkg]

Flag(f) == f \in world.flags

Init ==
  /\ world \in Worlds
  /\ stack = <<Frame(world.request, NULL)>>
  /\ cache_list = array_new /\ need_install = array_new
  /\ depth = 0
  /\ errors = FALSE
  /\ status = "running"

----------------------------------------------------------------------------
(* Names.                                                                  *)
Parts(n) == Range(world.parts[n])

(* is_installed_package: of an "x|y", any of them.                         *)
Installed(n) ==
  \/ n \in world.installed
  \/ world.kind[n] = "or" /\ Parts(n) \cap world.installed # {}

(* The first of the names in S.                                            *)
FirstIn(names, S) ==
  names[CHOOSE i \in DOMAIN names : names[i] \in S /\ \A h \in 1 .. i - 1 : names[h] \notin S]

(* get_ordep_package: an installed alternative, else one in a repository,  *)
(* else the first.                                                         *)
OrChoice(n) ==
  LET alternatives == world.parts[n] IN
  IF Installed(n) THEN FirstIn(alternatives, world.installed)
  ELSE IF Parts(n) \cap world.available # {} THEN FirstIn(alternatives, world.available)
  ELSE alternatives[1]

(* get_from_repository reports each alternative that it is asked for and   *)
(* does not find as an error of its own, although the loop goes on to the  *)
(* next.                                                                   *)
OrComplains(n) ==
  ~Installed(n) /\ ~Flag("ignore-satisfied") /\ world.parts[n][1] \notin world.available

Chosen(n) == IF world.kind[n] = "or" THEN OrChoice(n) ELSE n

Complains(n) == world.kind[n] = "or" /\ OrComplains(n)

(* A package object is found and is to be installed.  The mutant forgets   *)
(* that an installed package may be older than the repository's.           *)
WantedUnlessInstalled(p) ==
  \/ world.kind[p] = "file"
  \/ p \in world.available /\ (Flag("reinstall") \/ p \notin world.installed)
  \/ p \in world.installed /\ Flag("reinstall")

Wanted(p) ==
  \/ world.kind[p] = "file"
  \/ p \in world.available /\ (Flag("reinstall") \/ p \notin world.installed \/ p \in world.newer)
  \/ p \in world.installed /\ Flag("reinstall")

(* The mutant asks the repositories only.                                  *)
MissingFromRepository(p) == world.kind[p] # "file" /\ p \notin world.available
Missing(p) ==
  world.kind[p] # "file" /\ p \notin world.available \cup world.installed

(* The installed packages that list n, in some order.  The code compares   *)
(* the entries as they stand, so an "x|y" that names n is not found.       *)
Dependents(n) ==
  SetToSeq({ p \in world.installed : n \in Parts(p) })

----------------------------------------------------------------------------
(* The loop body.  The name is a duplicate if the cache has it, which      *)
(* array_has denies of the newest entry; every other name is cached before *)
(* anything is known about it.                                             *)
Calling == status = "running" /\ stack # <<>>

This == Head(stack).names[Head(stack).i]

AtName(n) == Calling /\ Head(stack).i <= Len(Head(stack).names) /\ n = This

Advanced == [stack EXCEPT ![1].i = @ + 1]

(* The mutant queues the call behind its caller.                           *)
CallLater(names, pkg) == stack' = Advanced \o <<Frame(names, pkg)>>
Call(names, pkg) == stack' = <<Frame(names, pkg)>> \o Advanced

(* The mutant's cache is consulted only for packages.                      *)
CachedPackages(n) == world.kind[n] = "package" /\ array_has(cache_list, n)
Cached(n) == array_has(cache_list, n)

Fresh(n) == AtName(n) /\ ~Cached(n) /\ cache_list' = array_add(cache_list, n)

SkipCached(n) ==
  /\ AtName(n) /\ Cached(n)
  /\ stack' = Advanced
  /\ UNCHANGED <<world, cache_list, need_install, depth, errors, status>>

(* '@' and '!': a recursive call at the same depth.                        *)
OpenSet(n) ==
  /\ Fresh(n) /\ world.kind[n] = "set"
  /\ Call(world.parts[n], NULL)
  /\ errors' = (errors \/ world.parts[n] = <<>>)
  /\ UNCHANGED <<world, need_install, depth, status>>

(* Installing: too deep, listed already, or nothing to do.                 *)
Pass(n) ==
  /\ Fresh(n) /\ world.kind[n] # "set" /\ world.mode = "install"
  /\ \/ world.max_depth < depth
     \/ array_has(need_install, Chosen(n))
     \/ ~Wanted(Chosen(n)) /\ ~Missing(Chosen(n))
  /\ errors' = (errors \/ Complains(n))
  /\ stack' = Advanced
  /\ UNCHANGED <<world, need_install, depth, status>>

NotInstallable(n) ==
  /\ Fresh(n) /\ world.kind[n] # "set" /\ world.mode = "install"
  /\ world.max_depth >= depth /\ ~array_has(need_install, Chosen(n))
  /\ Missing(Chosen(n))
  /\ errors' = (errors \/ Complains(n) \/ ~Flag("ignore-missing"))
  /\ stack' = Advanced
  /\ UNCHANGED <<world, need_install, depth, status>>

Require(n) ==
  LET p == Chosen(n) IN
  /\ Fresh(n) /\ world.kind[n] # "set" /\ world.mode = "install"
  /\ world.max_depth >= depth /\ ~array_has(need_install, p)
  /\ Wanted(p)
  /\ errors' = (errors \/ Complains(n) \/ (p \in world.marked /\ ~Flag("unsafe")))
  /\ IF Flag("ignore-dependency")
       THEN /\ need_install' = array_add(need_install, p)
            /\ stack' = Advanced
            /\ UNCHANGED depth
       ELSE /\ Call(world.parts[p], p)
            /\ depth' = depth + 1
            /\ UNCHANGED need_install
  /\ UNCHANGED <<world, status>>

(* Removing: listed before what depends on it.                             *)
PassReverse(n) ==
  /\ Fresh(n) /\ world.kind[n] # "set" /\ world.mode = "remove"
  /\ world.max_depth < depth \/ ~Installed(n)
  /\ stack' = Advanced
  /\ UNCHANGED <<world, need_install, depth, errors, status>>

RequireReverse(n) ==
  /\ Fresh(n) /\ world.kind[n] # "set" /\ world.mode = "remove"
  /\ world.max_depth >= depth /\ Installed(n)
  /\ need_install' = array_add(need_install, n)
  /\ IF Flag("ignore-dependency")
       THEN stack' = Advanced /\ UNCHANGED depth
       ELSE Call(Dependents(n), n) /\ depth' = depth + 1
  /\ UNCHANGED <<world, errors, status>>

(* The end of a call: depth -= 1, unless the call was a set's.             *)
DepthAfter(frame) == IF frame.pkg = NULL THEN depth ELSE depth - 1

(* The package goes behind its dependencies.                               *)
Return ==
  LET frame == Head(stack) IN
  /\ Calling /\ frame.i > Len(frame.names)
  /\ stack' = Tail(stack)
  /\ depth' = DepthAfter(frame)
  /\ need_install' = IF world.mode = "install" /\ frame.pkg # NULL
                     THEN array_add(need_install, frame.pkg)
                     ELSE need_install
  /\ UNCHANGED <<world, cache_list, errors, status>>

(* error(3).                                                               *)
Finish ==
  /\ status = "running" /\ stack = <<>>
  /\ status' = IF errors THEN "failed" ELSE "done"
  /\ UNCHANGED <<world, stack, cache_list, need_install, depth, errors>>

Returned == status # "running" /\ UNCHANGED vars

Visit(n) ==
  \/ SkipCached(n) \/ OpenSet(n) \/ Pass(n) \/ NotInstallable(n)
  \/ Require(n) \/ PassReverse(n) \/ RequireReverse(n)

Next == Return \/ Finish \/ Returned \/ \E n \in Name : Visit(n)

Spec == Init /\ [][Next]_vars

----------------------------------------------------------------------------
TypeOK ==
  /\ depth \in Nat
  /\ errors \in BOOLEAN
  /\ status \in {"running", "done", "failed"}
  /\ \A k \in DOMAIN stack :
       /\ stack[k].names \in Seq(Name)
       /\ stack[k].i \in 1 .. Len(stack[k].names) + 1
       /\ stack[k].pkg \in Name \cup {NULL}

(* What the answer should be, from the definitions of a dependency and of  *)
(* an upgrade alone: the packages that the requested names lead to.        *)
Current(p) == p \in world.installed /\ ~(p \in world.available /\ p \in world.newer)

Needed(p) ==
  IF world.mode = "remove" THEN world.kind[p] # "set" /\ Installed(p)
  ELSE \/ world.kind[p] = "file"
       \/ /\ world.kind[p] = "package"
          /\ p \in world.available \cup world.installed
          /\ Flag("reinstall") \/ ~Current(p)

LeadsTo(n) ==
  CASE world.kind[n] = "set" -> Parts(n)
    [] world.kind[n] = "or" /\ world.mode = "install" -> {OrChoice(n)}
    [] OTHER ->
         IF ~Needed(n) \/ Flag("ignore-dependency") THEN {}
         ELSE IF world.mode = "install" THEN Parts(n)
         ELSE { p \in world.installed : n \in Parts(p) }

Reach(S) ==
  LET upto[k \in 0 .. Cardinality(Name)] ==
        IF k = 0 THEN S ELSE upto[k - 1] \cup UNION { LeadsTo(n) : n \in upto[k - 1] }
  IN  upto[Cardinality(Name)]

Requested == Reach(Range(world.request))

Listed == array_get(need_install)

(* No name is nested deeper than twice over all names.                     *)
Uncut == world.max_depth >= 2 * Cardinality(Name)

(* Exactly the packages that the request leads to and that need it are     *)
(* listed, whatever cycles, sets and alternatives lie on the way; under a  *)
(* depth limit, no others.                                                 *)
ListIsExact ==
  status = "done" =>
    LET goal == { p \in Requested : Needed(p) } IN
    /\ Range(Listed) \subseteq goal
    /\ Uncut => Range(Listed) = goal

(* A package comes after each package its dependencies stand for, unless   *)
(* that one, through a cycle, depends on it.                               *)
DependenciesFirst ==
  status = "done" /\ Uncut /\ world.mode = "install" /\ ~Flag("ignore-dependency") =>
    \A i \in DOMAIN Listed : \A d \in Parts(Listed[i]) :
      \/ Listed[i] \in Reach({d})
      \/ \A p \in IF world.kind[d] = "set" THEN Parts(d) ELSE {Chosen(d)} :
           (Needed(p) /\ world.kind[p] \in {"package", "file"}) =>
             \E k \in 1 .. i - 1 : Listed[k] = p

(* The recursion ends: although array_has does not see the newest entry,   *)
(* no name is entered more than twice, and the second time only directly   *)
(* after the first.                                                        *)
NoNameThrice ==
  \A i, k \in 1 .. cache_list.size :
    i < k /\ cache_list.data[i] = cache_list.data[k] => k = i + 1

(* Resolution fails only for a reason: something that is nowhere to be     *)
(* found, a set of nothing, an unsafe package, or an alternative that the  *)
(* repositories were asked for and do not have.                            *)
FailureHasReason ==
  status = "failed" =>
    \E n \in Requested :
      \/ world.kind[n] = "set" /\ Parts(n) = {}
      \/ world.kind[n] = "or" /\ ~(Parts(n) \subseteq world.available)
      \/ n \in world.marked
      \/ world.kind[n] = "package" /\ n \notin world.available \cup world.installed
=============================================================================
