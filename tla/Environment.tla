---------------------------- MODULE Environment ----------------------------
(***************************************************************************)
(* The environment that programs started by ymp see.  An operation saves   *)
(* it, clears it to PATH and restores it at its end (save_env, clear_env   *)
(* and restore_env of src/ccode/value.c), but there is one slot to save it *)
(* in, and operations call each other: an installation runs the hooks of   *)
(* sysconf and builds the packages that come as source, a build installs   *)
(* what it needs.  A script runs one operation after the other.            *)
(***************************************************************************)
EXTENDS Naturals, Sequences

CONSTANTS
  MaxOps,      \* bound on the operations of a script
  MaxDepth     \* bound on the operations under way when a package is built

VARIABLES
  environ,     \* "full", the user's, or "bare"
  environ_save,
  frames,      \* what is left to do of the operations that are under way
  hooks,       \* root, and not --no-sysconf
  ops,         \* the operations started by the script
  upset        \* one has called another inside its own span, or left it early

envVars == <<environ, environ_save, frames, hooks, ops, upset>>

(* The steps of each operation that matter here.  In install_main          *)
(* "sources" is where the packages are taken up; package_get_single is     *)
(* what it does for one that comes as source.  "quit" is where an          *)
(* operation may return early: a declined question or --download-only, a   *)
(* command of a code-runner job that fails.                                *)
install_main == <<"save", "clear", "sysconf", "quit", "sources", "sysconf", "restore">>
package_get_single == <<"build", "sysconf">>
build_single == <<"save", "clear", "check", "restore">>
check_build_dependencies == <<"save", "clear", "need", "restore">>
sysconf_main == <<"save", "clear", "restore">>
remove_main == <<"sysconf", "quit", "sysconf">>
index_main == <<"save", "clear", "restore">>
run_job == <<"save", "clear", "quit", "restore">>

Body == [op \in {"install", "single", "build", "check", "sysconf", "remove", "index", "job"} |->
  CASE op = "install" -> install_main
    [] op = "single"  -> package_get_single
    [] op = "build"   -> build_single
    [] op = "check"   -> check_build_dependencies
    [] op = "sysconf" -> sysconf_main
    [] op = "remove"  -> remove_main
    [] op = "index"   -> index_main
    [] op = "job"     -> run_job]

EnvInit ==
  /\ environ = "full" /\ environ_save = "none"
  /\ frames = <<>> /\ hooks \in BOOLEAN /\ ops = 0 /\ upset = FALSE

Start(op) ==
  /\ frames = <<>> /\ ops < MaxOps /\ op \notin {"check", "single"}
  /\ op = "sysconf" => hooks
  /\ frames' = <<Body[op]>>
  /\ ops' = ops + 1
  /\ UNCHANGED <<environ, environ_save, hooks, upset>>

Does(step) == frames # <<>> /\ frames[1] # <<>> /\ frames[1][1] = step
Rest == <<Tail(frames[1])>> \o Tail(frames)

(* The slot is overwritten whether or not it is in use.                    *)
SaveIfEmpty(slot) == IF slot = "none" THEN environ ELSE slot
Saved(slot) == environ
save_env ==
  /\ Does("save")
  /\ environ_save' = Saved(environ_save)
  /\ frames' = Rest
  /\ UNCHANGED <<environ, hooks, ops, upset>>

clear_env ==
  /\ Does("clear")
  /\ environ' = "bare"
  /\ frames' = Rest
  /\ UNCHANGED <<environ_save, hooks, ops, upset>>

restore_env ==
  /\ Does("restore")
  /\ environ' = environ_save
  /\ frames' = Rest
  /\ UNCHANGED <<environ_save, hooks, ops, upset>>

(* One operation calls another: inside its own span, if it is yet to       *)
(* restore.                                                                *)
InSpan == \E i \in DOMAIN frames[1] : frames[1][i] = "restore"
Call(op) ==
  /\ \/ Does(op) /\ op \in {"sysconf", "build", "check"}
     \/ Does("need") /\ op = "install"
  /\ op = "sysconf" => hooks
  /\ frames' = <<Body[op]>> \o Rest
  /\ upset' = (upset \/ InSpan)
  /\ UNCHANGED <<environ, environ_save, hooks, ops>>

(* package_get_single for a package that comes as source; the next one may *)
(* be another.                                                             *)
Source ==
  /\ Does("sources") /\ Len(frames) < MaxDepth
  /\ frames' = <<Body["single"]>> \o frames
  /\ upset' = (upset \/ InSpan)
  /\ UNCHANGED <<environ, environ_save, hooks, ops>>

(* sysconf_main returns at once without root or with --no-sysconf; a       *)
(* package without its archive is not built; a build may ignore its        *)
(* dependencies, and installs only those it lacks; and no further package  *)
(* comes as source.                                                        *)
Pass ==
  /\ \/ Does("sysconf") /\ ~ hooks
     \/ \E step \in {"build", "check", "need", "quit", "sources"} : Does(step)
  /\ frames' = Rest
  /\ UNCHANGED <<environ, environ_save, hooks, ops, upset>>

Quit ==
  /\ Does("quit")
  /\ frames' = Tail(frames)
  /\ upset' = (upset \/ InSpan)
  /\ UNCHANGED <<environ, environ_save, hooks, ops>>

Return ==
  /\ frames # <<>> /\ frames[1] = <<>>
  /\ frames' = Tail(frames)
  /\ UNCHANGED <<environ, environ_save, hooks, ops, upset>>

EnvNext ==
  \/ \E op \in DOMAIN Body : Start(op) \/ Call(op)
  \/ save_env \/ clear_env \/ restore_env \/ Source \/ Pass \/ Quit \/ Return

----------------------------------------------------------------------------
(* Between the clear of an operation and its restore, and so for every     *)
(* hook, build and command it starts, the environment is bare, however the *)
(* operations nest in the one slot.  Between two operations of a script it *)
(* is the user's, unless one of them has called another that saves inside  *)
(* its own span, or has left that early: with --no-sysconf it is the       *)
(* user's after an installation, but not after one that has built a        *)
(* package (value.c:88-115; install.vala:1-116, sysconf.vala:1-23,         *)
(* build.vala:51-243 and code_runner.vala:74-106).                         *)
Within(rest) ==
  /\ \E i \in DOMAIN rest : rest[i] = "restore"
  /\ ~ \E i \in DOMAIN rest : rest[i] = "clear"
EnvironmentKept ==
  /\ \A i \in DOMAIN frames : Within(frames[i]) => environ = "bare"
  /\ frames = <<>> /\ ~ upset => environ = "full"
=============================================================================
