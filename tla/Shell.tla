------------------------------- MODULE Shell -------------------------------
(***************************************************************************)
(* The command interpreter of ymp: ymp_run of src/interpreter.vala over    *)
(* the process list of src/process.vala, the shell operation that runs a   *)
(* script or a prompt inside a run, and what an operation does to the rest *)
(* of the program: the variables, the errors and the SIGINT handler.  All  *)
(* of these are global, the list and the handler each with one place to    *)
(* save the old value in; only the run's own counters are local to ymp_run.*)
(*                                                                         *)
(* A line is <<word, argument>>; an "if" has the line of its condition as  *)
(* the argument.  A step is one line, except that an operation begins and  *)
(* ends in steps of its own, so that the user may interrupt it.            *)
(***************************************************************************)
EXTENDS Integers, Sequences, FiniteSets

CONSTANTS
  Sources,      \* scripts: functions from file names to sequences of lines
  Starts,       \* what the command line can ask for: lines
  Typed,        \* lines a user types at a prompt
  MaxTyped,     \* bound on the lines typed
  FlagSets,     \* the variables that can be "true" at first
  Codes,        \* statuses operations and commands end with
  Signals       \* signals that may kill a command

IsLine(line) == line = <<line[1], line[2]>>
IsScript(s) == s \in Seq({ s[n] : n \in DOMAIN s }) /\ \A n \in DOMAIN s : IsLine(s[n])

ASSUME ShellAssumption ==
  /\ MaxTyped \in Nat
  /\ Codes \subseteq 0 .. 255 /\ 0 \in Codes
  /\ Signals \subseteq 1 .. 127
  /\ \A s \in Sources : \A f \in DOMAIN s : IsScript(s[f])
  /\ \A line \in Starts \cup Typed : IsLine(line)

VARIABLES
  source,                 \* the files
  proc, proc_backup,      \* the process list, and its one backup
  calls,                  \* runs and prompts, the innermost first
  flags,                  \* the variables with the value "true"
  errors,                 \* error_add was called since the last error()
  sigint, sigint_signal,  \* the handler, and the one that block_sigint saved
  exit,                   \* the exit status, or -1
  killed,                 \* by SIGINT
  typed,                  \* counted for the bound
  failed,                 \* history: an operation has failed that must be told
  lost                    \* history: a script that ran a script has ended

vars == <<source, proc, proc_backup, calls, flags, errors, sigint, sigint_signal, exit, killed,
          typed, failed, lost>>

(* ymp_run's i, iflevel, last_i and labels; where it is: at a line, or in   *)
(* the operation of an "if" or of a line.  The rest is history: the list it*)
(* began with, the conditions that enclose the line, the same at the last  *)
(* goto, whether an endif has come that closed a condition that held, and  *)
(* whether the operation was to be protected.                              *)
Run(script) ==
  [kind |-> "run", i |-> 1, iflevel |-> 0, last_i |-> 0, labels |-> <<>>, where |-> "line",
   script |-> script, open |-> <<>>, astray |-> FALSE, back |-> <<>>, back_astray |-> FALSE,
   guarded |-> FALSE, nested |-> FALSE]

Prompt == [kind |-> "prompt"]

Init ==
  /\ source \in Sources
  /\ \E line \in Starts : proc = <<line>>
  /\ proc_backup = <<>>
  /\ calls = <<Run(proc)>>
  /\ flags \in FlagSets
  /\ errors = FALSE
  /\ sigint = "default" /\ sigint_signal = "default"
  /\ exit = -1 /\ killed = FALSE /\ typed = 0 /\ failed = FALSE /\ lost = FALSE

----------------------------------------------------------------------------
(* error(status), with errors to tell, ends the program unless one of these*)
(* is set; then it only forgets the errors.                                *)
Forgiving == flags \cap {"ignore-error", "shellmode"} # {}

(* What the system makes of exit(status).                                  *)
ExitCode(status) == status % 256

Running == exit = -1 /\ ~killed

Top == Head(calls)
At(where) == Running /\ Top.kind = "run" /\ Top.where = where
AtLine == At("line") /\ Top.i <= Len(proc)
Word == proc[Top.i][1]
Arg == proc[Top.i][2]

Resume(f) == calls' = <<[f EXCEPT !.i = @ + 1]>> \o Tail(calls)

inner == <<flags, typed>>
signals == <<sigint, sigint_signal>>
lists == <<source, proc, proc_backup, lost>>

Abort(status) ==
  /\ ~Forgiving
  /\ exit' = ExitCode(status)
  /\ UNCHANGED <<lists, calls, inner, signals, errors, killed, failed>>

(* lock_operation: block_sigint, and unblock_sigint at once if wanted.     *)
Lock ==
  /\ sigint_signal' = sigint
  /\ sigint' = IF "unblock" \in flags THEN sigint ELSE "ignore"

(* unblock_sigint.  The mutant's handler is always the default.            *)
DefaultHandler == "default"
SavedHandler == sigint_signal

----------------------------------------------------------------------------
(* The lines that ymp_run itself understands.                              *)
LabelLine ==
  /\ AtLine /\ Word = "label"
  /\ Resume([Top EXCEPT !.labels =
               [l \in DOMAIN @ \cup {Arg} |-> IF l \in DOMAIN @ THEN @[l] ELSE Top.i]])
  /\ UNCHANGED <<lists, inner, signals, errors, exit, killed, failed>>

(* An "if" inside skipped lines is counted and not evaluated; the mutant   *)
(* does not count it.                                                      *)
SameLevel(level) == level
Deeper(level) == level + 1

NestedIf ==
  /\ AtLine /\ Word = "if" /\ Top.iflevel # 0
  /\ Resume([Top EXCEPT !.iflevel = Deeper(@), !.open = Append(@, FALSE)])
  /\ UNCHANGED <<lists, inner, signals, errors, exit, killed, failed>>

Condition ==
  /\ AtLine /\ Word = "if" /\ Top.iflevel = 0
  /\ Lock
  /\ calls' = <<[Top EXCEPT !.where = "if", !.guarded = "unblock" \notin flags]>> \o Tail(calls)
  /\ UNCHANGED <<lists, inner, errors, exit, killed, failed>>

(* The level goes down, also for an "if" that was taken and not counted.   *)
Endif ==
  /\ AtLine /\ Word = "endif"
  /\ LET open == Top.open IN
     Resume([Top EXCEPT
       !.iflevel = @ - 1,
       !.open = IF open = <<>> THEN open ELSE SubSeq(open, 1, Len(open) - 1),
       !.astray = @ \/ open = <<>> \/ open[Len(open)]])
  /\ UNCHANGED <<lists, inner, signals, errors, exit, killed, failed>>

Ordinary == AtLine /\ Word \notin {"label", "if", "endif"}

Skip ==
  /\ Ordinary /\ Top.iflevel > 0
  /\ Resume(Top)
  /\ UNCHANGED <<lists, inner, signals, errors, exit, killed, failed>>

(* "Unexpected endif" is found at the line behind it: error(2).            *)
UnexpectedEndif ==
  /\ Ordinary /\ Top.iflevel < 0
  /\ Abort(2)

Obeyed == Ordinary /\ (Top.iflevel = 0 \/ (Top.iflevel < 0 /\ Forgiving))
Cleared == errors' = (errors /\ Top.iflevel = 0)

(* Only labels that the run has passed are known.                          *)
Goto ==
  /\ Obeyed /\ Word = "goto" /\ Arg \in DOMAIN Top.labels
  /\ Resume([Top EXCEPT !.i = Top.labels[Arg], !.last_i = Top.i, !.iflevel = 0,
               !.open = <<>>, !.astray = FALSE, !.back = Top.open, !.back_astray = Top.astray])
  /\ Cleared
  /\ UNCHANGED <<lists, inner, signals, exit, killed, failed>>

UndefinedLabel ==
  /\ Obeyed /\ Word = "goto" /\ Arg \notin DOMAIN Top.labels
  /\ \/ Abort(2)
     \/ /\ Forgiving
        /\ Resume([Top EXCEPT !.last_i = Top.i, !.back = Top.open, !.back_astray = Top.astray])
        /\ errors' = FALSE
        /\ UNCHANGED <<lists, inner, signals, exit, killed, failed>>

(* Back to the line behind the last goto, if there is one that no ret has  *)
(* answered.  The mutant does not ask.                                     *)
AnyReturn == TRUE
HasReturn == Top.last_i > 0

Ret ==
  /\ Obeyed /\ Word = "ret"
  /\ IF HasReturn
       THEN Resume([Top EXCEPT !.i = Top.last_i, !.last_i = 0, !.open = Top.back,
                      !.astray = @ \/ Top.back_astray])
       ELSE Resume(Top)
  /\ Cleared
  /\ UNCHANGED <<lists, inner, signals, exit, killed, failed>>

Begin ==
  /\ Obeyed /\ Word \notin {"goto", "ret"}
  /\ Lock
  /\ calls' = <<[Top EXCEPT !.where = "op", !.guarded = "unblock" \notin flags]>> \o Tail(calls)
  /\ Cleared
  /\ UNCHANGED <<lists, inner, exit, killed, failed>>

----------------------------------------------------------------------------
(* operation_main returns status to the run on top of stack, and leaves    *)
(* errors to tell or not; unlock_operation; then what the "if" or the line *)
(* makes of it.                                                            *)
Finish(stack, status, errs) ==
  LET f == Head(stack)
      fails == f.where = "op" /\ status # 0 IN
  /\ sigint' = SavedHandler /\ UNCHANGED sigint_signal
  /\ IF fails /\ ~Forgiving
       THEN exit' = ExitCode(status) /\ calls' = stack /\ UNCHANGED errors
       ELSE /\ errors' = (~fails /\ errs)
            /\ calls' = <<[f EXCEPT
                 !.i = @ + 1,
                 !.where = "line",
                 !.iflevel = IF f.where = "if" /\ status # 0 THEN @ + 1 ELSE @,
                 !.open = IF f.where = "if" THEN Append(@, status = 0) ELSE @]>> \o Tail(stack)
            /\ UNCHANGED exit
  /\ failed' = (~Forgiving' /\ (failed \/ errs \/ fails))

Doing == Running /\ Top.kind = "run" /\ Top.where \in {"if", "op"}
Line == IF Top.where = "if" THEN Arg ELSE <<Word, Arg>>
Op(name) == Doing /\ Line[1] = name /\ "sandbox" \notin flags

(* An operation that changes nothing modelled here.  It may add errors; it *)
(* may also call error(status) with them.                                  *)
Other ==
  /\ Op("other")
  /\ \/ /\ UNCHANGED <<lists, inner, killed>>
        /\ \E status \in Codes, errs \in {errors, TRUE, errors /\ ~Forgiving} :
             Finish(calls, status, errs)
     \/ \E status \in Codes \ {0} : Abort(status)

(* A command ends with a code, or a signal kills it.                       *)
Outcome == ({"code"} \X Codes) \cup ({"signal"} \X Signals)
WaitStatus(r) == IF r[1] = "code" THEN 256 * r[2] ELSE r[2]

(* run_args has taken the wait status apart; exec divides again.           *)
run_args(r) == IF r[1] = "code" THEN r[2] ELSE 1

Exec ==
  /\ Op("exec")
  /\ UNCHANGED <<lists, inner, killed>>
  /\ \E r \in Outcome :
       LET status == run_args(r) \div 256 IN
       Finish(calls, status, errors \/ status # 0 \/ r[1] = "signal")

(* sandbox: the process in between exits with the raw wait status of the   *)
(* inner one, and its own is returned raw.                                 *)
sandbox(r) == 256 * ExitCode(WaitStatus(r))

(* With a merged /usr there is an error first: error(31).                  *)
RunSandbox ==
  /\ Op("sandbox")
  /\ \/ Abort(31)
     \/ /\ UNCHANGED <<lists, inner, killed>>
        /\ \E r \in Outcome, errs \in {errors, errors /\ ~Forgiving} :
             Finish(calls, sandbox(r) \div 256, errs)

(* With the variable set every operation runs there and changes nothing    *)
(* here.  Its status is 0 if it ended with a code, whichever; if a signal  *)
(* killed it, a multiple of 256: a failure, but 0 to exit.                 *)
Sandboxed ==
  /\ Doing /\ "sandbox" \in flags
  /\ UNCHANGED <<lists, inner, killed>>
  /\ \E r \in Outcome : Finish(calls, sandbox(r), errors)

(* set a variable to "true" ("set") or to anything else ("unset").         *)
SetValue ==
  /\ Op("set") \/ Op("unset")
  /\ flags' = IF Line[1] = "set" THEN flags \cup {Line[2]} ELSE flags \ {Line[2]}
  /\ UNCHANGED <<lists, typed, killed>>
  /\ Finish(calls, 0, errors)

ExitMain ==
  /\ Op("exit")
  /\ exit' = ExitCode(Line[2])
  /\ failed' = FALSE
  /\ UNCHANGED <<lists, calls, inner, signals, errors, killed>>

----------------------------------------------------------------------------
(* shell_main with a file: a run inside the operation.                     *)
Shell ==
  /\ Op("shell") /\ Line[2] \in DOMAIN source
  /\ proc_backup' = proc
  /\ proc' = source[Line[2]]
  /\ calls' = <<Run(source[Line[2]])>> \o (<<[Top EXCEPT !.nested = TRUE]>> \o Tail(calls))
  /\ UNCHANGED <<source, lost, inner, signals, errors, exit, killed, failed>>

(* shell_main without one: a prompt, from which only exit leads.           *)
OpenPrompt ==
  /\ Op("shell") /\ Line[2] \notin DOMAIN source
  /\ proc_backup' = proc
  /\ proc' = <<>>
  /\ flags' = flags \cup {"shellmode"}
  /\ calls' = <<Prompt>> \o calls
  /\ failed' = FALSE
  /\ UNCHANGED <<source, lost, typed, signals, errors, exit, killed>>

AtPrompt == Running /\ Top.kind = "prompt"

Type(line) ==
  /\ AtPrompt /\ typed < MaxTyped
  /\ typed' = typed + 1
  /\ proc' = <<line>>
  /\ calls' = <<Run(<<line>>)>> \o calls
  /\ UNCHANGED <<source, proc_backup, lost, flags, signals, errors, exit, killed, failed>>

EndOfInput ==
  /\ AtPrompt
  /\ exit' = 0
  /\ failed' = FALSE
  /\ UNCHANGED <<lists, calls, inner, signals, errors, killed>>

(* The list is at its end.  ymp_run always returns 0.                      *)
RunEnded == At("line") /\ Top.i > Len(proc)

(* restore_process; the mutant leaves the list empty.                      *)
RestoredEmpty == <<>>
Restored == proc_backup

ScriptEnds ==
  /\ RunEnded /\ Len(calls) > 1 /\ calls[2].kind = "run"
  /\ proc' = Restored
  /\ lost' = (lost \/ Top.nested)
  /\ UNCHANGED <<source, proc_backup, inner, killed>>
  /\ Finish(Tail(calls), 0, errors)

TypedEnds ==
  /\ RunEnded /\ Len(calls) > 1 /\ calls[2].kind = "prompt"
  /\ proc' = <<>>
  /\ calls' = Tail(calls)
  /\ UNCHANGED <<source, proc_backup, lost, inner, signals, errors, exit, killed, failed>>

(* main: error(1) if there are errors, then exit(0).  The mutant does not  *)
(* look.                                                                   *)
NeverMind == FALSE
HasError == errors

MainEnds ==
  /\ RunEnded /\ Len(calls) = 1
  /\ exit' = IF HasError /\ ~Forgiving THEN 1 ELSE 0
  /\ UNCHANGED <<lists, calls, inner, signals, errors, killed, failed>>

(* Control-C.                                                              *)
Interrupt ==
  /\ Running /\ sigint = "default"
  /\ killed' = TRUE
  /\ UNCHANGED <<lists, calls, inner, signals, errors, exit, failed>>

Ended == ~Running /\ UNCHANGED vars

Step ==
  \/ LabelLine \/ NestedIf \/ Condition \/ Endif \/ Skip \/ UnexpectedEndif
  \/ Goto \/ UndefinedLabel \/ Ret \/ Begin
  \/ Other \/ Exec \/ RunSandbox \/ Sandboxed \/ SetValue \/ ExitMain
  \/ Shell \/ OpenPrompt \/ ScriptEnds \/ TypedEnds \/ MainEnds

Next == Step \/ Interrupt \/ Ended \/ EndOfInput \/ \E line \in Typed : Type(line)

Spec == Init /\ [][Next]_vars

(* The program goes on when it can; the user need not type or interrupt.   *)
FairSpec == Spec /\ WF_vars(Step)

----------------------------------------------------------------------------
Runs == { k \in DOMAIN calls : calls[k].kind = "run" }

(* The innermost run is at a line or in an operation, every other one in   *)
(* the operation that has called the next.                                 *)
TypeOK ==
  /\ \A k \in Runs :
       /\ calls[k].i \in Nat \ {0} /\ calls[k].iflevel \in Int /\ calls[k].last_i \in Nat
       /\ k > 1 => calls[k].where \in {"if", "op"}
  /\ exit \in -1 .. 255
  /\ {sigint, sigint_signal} \subseteq {"default", "ignore"}
  /\ errors \in BOOLEAN /\ killed \in BOOLEAN

(* As long as no "if" that was taken has come to its endif since the last  *)
(* goto, a run obeys its lines exactly where all enclosing conditions hold.*)
FollowsConditions ==
  \A k \in Runs :
    ~calls[k].astray =>
      (calls[k].iflevel = 0 <=> \A c \in DOMAIN calls[k].open : calls[k].open[c])

(* A run works on the list it began with, its labels are label lines there *)
(* and it returns behind a goto, unless a script that ran another script   *)
(* has ended: for that, the one backup of the list is not enough.          *)
JumpsStayInScript ==
  Running /\ ~lost /\ Top.kind = "run" =>
    /\ proc = Top.script
    /\ \A l \in DOMAIN Top.labels : proc[Top.labels[l]] = <<"label", l>>
    /\ Top.last_i > 0 => proc[Top.last_i][1] = "goto"

(* Control-C never ends the program inside an operation that began with    *)
(* "unblock" unset, however runs and the variable change inside it and     *)
(* although the handler is saved in one place.                             *)
OperationsNotInterrupted ==
  killed => \A k \in Runs : calls[k].where \in {"if", "op"} => ~calls[k].guarded

(* Of the conditions open in a run that is not astray, the last iflevel    *)
(* ones are false and the others true.                                     *)
Levels(f) ==
  /\ f.iflevel \in Int
  /\ f.open \in Seq(BOOLEAN) /\ f.back \in Seq(BOOLEAN)
  /\ f.astray \in BOOLEAN /\ f.back_astray \in BOOLEAN
  /\ f.where \in {"line", "if", "op"}
  /\ f.where = "if" => f.iflevel = 0
  /\ ~f.astray =>
       /\ f.iflevel \in 0 .. Len(f.open)
       /\ \A c \in DOMAIN f.open : f.open[c] <=> c <= Len(f.open) - f.iflevel
  /\ ~f.back_astray => \A c \in DOMAIN f.back : f.back[c]

Fields ==
  {"kind", "i", "iflevel", "last_i", "labels", "where", "script", "open", "astray", "back",
   "back_astray", "guarded", "nested"}

(* A stack of runs, each but the innermost in an operation, and prompts.   *)
Stack ==
  /\ calls \in Seq({ calls[k] : k \in DOMAIN calls }) /\ calls # <<>>
  /\ \A k \in DOMAIN calls : calls[k].kind \in {"run", "prompt"}
  /\ \A k \in Runs :
       /\ DOMAIN calls[k] = Fields
       /\ Levels(calls[k])
       /\ k > 1 => calls[k].where \in {"if", "op"}

(* Inside an operation that is to be protected SIGINT is ignored; and so   *)
(* is it after the next unblock_sigint, of an operation within that one.   *)
InOperation(f) == f.kind = "run" /\ f.where \in {"if", "op"}
Protected(f) == InOperation(f) /\ f.guarded

Handlers ==
  exit = -1 =>
  /\ \A k \in DOMAIN calls : Protected(calls[k]) => sigint = "ignore"
  /\ \A j, k \in DOMAIN calls :
       j < k /\ InOperation(calls[j]) /\ Protected(calls[k]) => sigint_signal = "ignore"

(* What FollowsConditions and OperationsNotInterrupted rest on: the levels *)
(* of all runs, and handlers that protect every operation in progress.     *)
IInv == Stack /\ Handlers /\ OperationsNotInterrupted

(* Status 0 means that no operation returned a failure and none reported   *)
(* an error, however deep the script, unless the program was told to go    *)
(* on, or a script has chosen the status; with one exception: an operation *)
(* that the variable sends to the sandbox and that a signal kills there    *)
(* ends the program with a multiple of 256, which is 0, whatever failed    *)
(* before.  (What fails with a code inside exec or a sandbox returns 0 and *)
(* is no failure to the program: process.c:48-126, sandbox.c:100-197.)     *)
KilledInSandbox == Top.where = "op" /\ "sandbox" \in flags
ExitStatusIsHonest == exit = 0 /\ failed => KilledInSandbox

(* A script without goto ends, whatever the operations return and however  *)
(* its "if", endif and ret lines are arranged.                             *)
Loopless(s) == \A f \in DOMAIN s : \A n \in DOMAIN s[f] : s[f][n][1] # "goto"

ScriptsEnd == (Loopless(source) /\ Top.kind = "run") ~> (~Running \/ Top.kind = "prompt")

(* doc/ympshell.rst: "If segment used for conditions. If segment must      *)
(* starts with if and must ends with endif": in a script that keeps to     *)
(* this an operation runs only where all enclosing conditions hold.        *)
Blocks(script) ==
  LET Count(word, n) == Cardinality({ k \in 1 .. n : script[k][1] = word }) IN
  /\ \A n \in DOMAIN script : Count("endif", n) <= Count("if", n)
  /\ Count("endif", Len(script)) = Count("if", Len(script))

OnlyUnderConditions ==
  \A k \in Runs :
    calls[k].where = "op" /\ Blocks(calls[k].script) =>
      \A c \in DOMAIN calls[k].open : calls[k].open[c]
=============================================================================
