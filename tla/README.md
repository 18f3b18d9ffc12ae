# Formal models of ymp

`ymp` is a package manager written in Vala and C. It resolves the packages a
user names, downloads and unpacks them into a *quarantine*, validates what is
there, moves it over the root file system and records it; it removes packages
again; it builds packages from source; and it runs all of this from a small
command interpreter. This directory holds TLA+ models of the parts in which
mistakes are hard to test, TLC configurations that check them, and proofs of
the properties that matter most.

All paths below are relative to the repository's `src/` directory.

## The system

| part | state it keeps | operations | what is hard | what makes it correct |
|---|---|---|---|---|
| job pool, `ccode/job.c` | job table, `total`, `finished`, the threads | `jobs_new`, `jobs_add`, `jobs_run` | threads share the table and a counter without a lock | each job once; `jobs_run` is a barrier and returns |
| string array, `ccode/array.c` | slots, `size`, `removed`, a mutex | add, adds, set, remove, has, uniq, reverse, sort, get, length | off-by-one arithmetic over three numbers that must agree | the caller gets the list it meant; no scan past the table |
| error log, `ccode/error.c` | a shared list of messages | `error_add`, `error`, `has_error` | `error` may or may not end the process | nothing goes on after a failed check |
| dependency resolver, `data/dependency.vala` | name cache, result list, depth | resolve forwards and in reverse | cycles, groups, alternatives, depth limit | exactly what is needed, dependencies first |
| quarantine, `data/quarantine.vala` | file system under `quarantine/`, three shared lists | validate, install, reset, import | parallel jobs over shared lists; moves that can be interrupted | what passes is intact; a crash loses nothing |
| install and remove, `operations/package-manager/{install,remove}.vala` | the root file system and the package database | the two transactions | crash, failed download, failed move, an archive that holds more than it lists | see "Install" below |
| package, `data/package.vala` | metadata, archive | download, extract, lists, build | a failed check in the middle | a bad archive is not unpacked |
| repository index, `data/repository.vala` | cached indices, files under `index/` | update, lookup, index creation | old indexes go before new ones are there, an index is written before gpg is asked, gpg reads another file, another process cleans | indexes of one update only; an update that returns 0 leaves what is complete and what gpg was content with |
| interpreter, `interpreter.vala`, `process.vala`, `operations.vala`, `operations/shell/*` | process list, program counter, `if` level, labels, return address | run a script | jumps across `if` levels, nested runs | structured control as `doc/ympshell.rst` says |
| variables, `ccode/value.c`, `settings.vala` | variable table, saved environment | set, get, save, clear and restore the environment | one slot for nested saves, a build inside an installation | what an operation starts sees the bare environment, what follows it the user's unless it nested or left early |
| builder, `util/build.vala`, `util/builder_target/*`, `data/ympbuild.vala` | build directory | fetch, check, build, package | a failed step in a sequence | no package from a failed build |
| archives, `ccode/archive-*.c` | an open archive, the tree extracted into | create, list, read, extract | parallel jobs in one tree, tests apart from acts, I/O errors in a loop | what is reported as done is there whole; packing ends |
| code runner, `data/code_runner.vala` | jobs and steps, saved environment | run | failure in the middle | the environment is restored, unless a command fails |
| processes, `ccode/process.c`, `ccode/signal.c`, `ccode/sandbox.c` | lock, child, signal handler | lock, run, sandbox | one saved handler for nested runs; status conversions | one transaction at a time |
| downloads, `ccode/fetcher_*.c` | a partial file | fetch | interrupted transfer | sums checked before use |
| text helpers, `ccode/string.c`, `ccode/file.c` | none | conversions | offsets and buffer sizes; replacements that make new matches | a cleaned path stays below its root; what is encoded is found again |
| logger, terminal, other utilities | none | output | | |

How they interact: `cli/main.c` puts one process on the interpreter's list;
the interpreter calls the operation; `install_main` takes the lock
(`single_instance`), resolves, fills a job pool with downloads and runs it,
fills another with extractions, another with the leftover computation;
`quarantine_validate` runs a fourth, whose jobs share three string arrays; the
caller reads what the jobs wrote after `jobs_run` has returned. Errors are
added anywhere, also inside jobs, and looked at where `error(status)` is
called. `repository --update` takes the same lock and works in
`storage/index`, which `clean` empties without asking for the lock. What is on
the disk is all that survives a process.

PROJECT.json lists every component with what is modelled of it, every
definition with the lines it stands for, and every hazard with its line and the
properties about it.

## Modules

| module | models |
|---|---|
| `JobPool` | what the pool promises its callers: jobs accepted, run once each in any order, all back before the run returns |
| `Jobs` | `job.c`: the caller's loops and the workers, one action per step another thread can observe; refines `JobPool` |
| `JobsProofs` | its proofs |
| `YmpArray` | `array.c`: each operation (one critical section) as an operator on `[data, size, removed]` |
| `ArrayClient` | a caller that fills, prunes, reads and reorders an array, beside the list it means |
| `Quarantine` | `quarantine_validate` with its parallel jobs; uses `YmpArray` for the shared lists and `JobPool`'s promise for the scheduling |
| `QuarantineProofs` | its proofs |
| `Resolve` | `dependency.vala`, the recursion as an explicit stack; uses `YmpArray` for `cache_list` and `need_install` |
| `ResolveProofs` | its proofs |
| `Install` | `install_main` and `remove_main` on the disk, with faults; uses the verdict of `Quarantine` |
| `InstallProofs` | its proofs: what reaches the root file system, in which order the disk changes, why an operation fails, and that nothing is orphaned |
| `Shell` | the interpreter: `ymp_run` over the process list, nested scripts and the prompt, and what operations do to the variables, the errors, the SIGINT handler and the exit status |
| `ShellProofs` | its proofs |
| `Update` | `repository --update` on the directory `storage/index`, with the transfers, the lock, `clean` and kills, in several processes |
| `UpdateProofs` | its proofs |
| `FileTree` | the helpers of `file.c` on a tree of directories, files and links |
| `Archive` | packing of a list of paths and extraction by parallel jobs into one tree (a `FileTree`), with the error log they share |
| `ArchiveProofs` | its proofs: failures are noticed, what was packed and what was extracted is whole |
| `Text` | `url_encode`, `url_decode`, `trim` and `safedir`, on a text that grows |
| `Environment` | `save_env`, `clear_env` and `restore_env` under operations that call each other |
| `HelperProofs` | the proofs about `ArrayClient`, `Environment` and `Text` |
| `MC*` | the instances for TLC; `MCHelpers` puts `ArrayClient`, `Text` and `Environment` beside each other |

### Jobs

`wpc[w]`, `wi[w]` are the place of worker `w` in `worker_thread` and its `i`;
`mpc`, `mi` those of the caller in `jobs_run`. The callback is two steps
(entered, come back), and `j->finished++` is two (load, store), so that two
workers can lose an increment. `calls` and `returns` are history variables.
`Parallel` is the rule of `jobs_new` that a setting below 1 means one worker
per processor.

### YmpArray and ArrayClient

`array_add` increments `size` and stores at that index, so strings are in
`1 .. size` and slot 0 is empty; `has` and `reverse` scan `0 .. size - 1`. The
operators keep this. The consequences are stated as what the operations *do*
guarantee: `has` misses only the string added last, `reverse` drops nothing.
`ArrayClient` goes through the phases in which the code uses an array: no
caller adds again after pruning. `csort` is `qsort`, which is not stable, but
strings that compare equal are equal. `size_t` is modelled by integers; a negative
value stands for one near 2^64, and the comparison `length () > 0` on it is
"not zero".

### Quarantine

One job per file list and per link list. The two `has` tests of the conflict
check, the `add` to the cache and the examination of the file are separate
actions, since the arrays are locked one operation at a time. A list is a
sequence of `<<path, sum>>` or `<<path, target>>`; `root` gives what is at each
path. `broken` is read by nobody before the jobs have ended, so the adds of one
line are one action.

### Resolve

A frame of `stack` is a call of `resolve_process` (or of its reverse): its
names, the index of the next, and the package whose dependencies they are. One
action is one name: skipped because cached, a group or pattern, passed, not
installable, or required, which pushes a frame. `Return` puts the package
behind its dependencies. `world` fixes everything the resolution reads: what is
a group, an alternative or a file, what is available, installed or newer, and
the flags.

### Install

A *slot* is one thing on the disk: a path of the root file system, or the file
list, link list or metadata of a package. `live` is the system, `quar` the
quarantine. An operation begins with its checks (`Barred`: root, a merged
`/usr`, the lock, the user's answer) and its options (`flags`: ignore errors or
the validation, only download, leave files or metadata). `pc` is the phase:
download (`Download` in jobs, `Downloaded` when they are back), get
(`package_get_single`: what is missing is downloaded once more, the
architecture looked at, `error(2)`), extract (jobs that each end in
`error(3)`; `Judge`: leftovers, validation, `error(1)`), the four move loops of
`quarantine_install` (root, files, links, metadata), wipe, clear (leftovers),
or remove. Within a phase the order is arbitrary, as that of directory entries
and jobs is. `Displace` and `Place` are the two steps of `move_file`, which
removes the target before it renames. `ErrorOr` is `error(status)`: it ends the
process unless `forgiving` (`--ignore-error`, or `shellmode`). Faults are a
crash, a failed download, extraction or move, and `Spoil`: the data archive
does not hold what the lists say, so that a file is missing, other than listed,
or one that no list names. `package.extract` unpacks all of the archive and
`quarantine_install` moves all that `find` gives (`Quarantined`), while the
validation (`Intact`, `Permitted`) goes by the lists: so a file that no list
names is installed unseen, and the model lets it be. `Crash` leaves the disk
and the next operation starts from it.

### Shell

`calls` is the C stack: a frame per `ymp_run` (with its `i`, `iflevel`,
`last_i` and `labels`) and per prompt; `proc`, `proc_backup`, `flags` (the
variables that are `"true"`), `errors`, `sigint` and `sigint_signal` are the
globals they share. A line is `<<word, argument>>`. A step is one line, but an
operation begins (`Begin`, `Condition`: `lock_operation`) and ends (`Finish`) in
steps of their own, with `Interrupt` possible between any two. `Other` stands
for every operation whose effect on this state is only its status and its
errors. Statuses are modelled with their conversions (wait status, `/ 256`, the
low byte that `exit` keeps), since those are where failures get lost. The
fields `open`, `astray`, `back`, `guarded` and `script` of a frame, and
`failed` and `lost`, are history.

### Update

`file[n]` is what lies in the directory under name `n`: its content as far as
`startswith(..., "index:")` and its readers tell it apart, the update it was
fetched in, and (`gpg`) whether gpg accepted the signed file beside it or the
user waived that. `pc[p]` follows
`update_main` and `update_repo` in process `p`: `single_instance`, `remove_all`
file by file, `create_dir`, and for each line `fetch`, `readfile_raw`,
`writefile` (the index with its address) and `verify_file`; then `error(2)`.
`fetch` that fails does not close its stream (`open[p]`): what stdio still
buffers is written at `Exit`, into whatever the file then is, and is lost in a
`Kill` or when the file was unlinked. `clean_main` removes the files and the
directory and has it made again, at any moment and without the lock; a `fetch`
or `writefile` that finds no directory fails. The lock is freed when its
process ends. Two lines may name one file, as `update_repo` derives the name
from the address. `verify_file` runs `gpg --verify` on `path.gpg`, which
`sign_file` makes with `--sign`: a file with its own text. The index at `path`,
to which its address has just been appended, need only be there, and nothing
compares the two. So what gpg says is one nondeterministic answer, and
"accepted" says nothing of the content.

### FileTree and Archive

A tree gives each path nothing, a directory, a file (with the inode, so that a
name created again is told from the old one) or a link, which is a leaf:
`isdir`, `isfile`, `issymlink`, `access` and `create_dir` are what `file.c`
makes of that. `Archive` has a packer (`PackOpen` to `PackClose`; a file may
`Vanish` between any two of its steps) and extracting jobs. Each test of the
tree is a step apart from the act it guards, since jobs share the quarantine. A
file is written to the inode that was opened. `error_add` and `error` are the
steps of `error.c` on the list they share: made if missing, looked at,
replaced. The packer looks at a path in four steps: `PackExists`, `PackStat`
(`lstat`, whose result is not asked for: `st` keeps what it held, anything
before the first), `PackLink` (`readlink`; if it fails the loop is left and the
archive closed short, with two messages in the log and no call of `error`) and
`PackData`; before each header `error(2)` ends the process if there are
messages, from wherever. It does not look at the result of opening its output,
of `open` or of its writes; its branch for pipes repeats the test for
directories, so a pipe is an unknown kind and ends in `error(2)`, or, with
errors forgiven, in a read that waits for a writer. An unreadable file is packed
without its data (its header has the size, which libarchive fills with zeros).
`isexists` (`PackExists`) is `GLib.File.query_exists`, taken not to follow a
link that leads nowhere. What lies behind a link in the tree (`Astray`) is taken
to be writable. A header that cannot be read ends the loop of
extraction as the end of the archive does, so an archive is modelled as what
libarchive reads up to there.

### Text and Environment

A few characters stand for each kind the conversions distinguish. `EncodeRoom`
is what `url_encode` allocates: `!` binds to the first alternative of its macro
only. A loop over a text is a recursive function of the number of rounds
(`Decode`, `Copy` and `ReplaceOnce` are one round), which has as many as the text
has characters: no loop needs more. `safedir` works on a copy without terminator, so `Behind` is what may
stand behind it. `Dedented` says what `trim` is for without its loop. In `Environment` an operation is the sequence of its steps
that matter here, and `frames` the operations under way, innermost first;
`"quit"` is where one may return early. `install_main` comes to `"sources"`,
where `package_get_single` may take up packages that come as source, one after
the other: for each `build_single` and, behind it, `sysconf_main({})`, in the
middle of the installation (`Source`). A build may check its dependencies and
install what it lacks (`"need"`).

## What the runs check

| run | question | bounds and why they are enough |
|---|---|---|
| `jobs` | each job once, barrier, termination, refinement of `JobPool` | table of 4, up to 5 offers, 1 to 3 workers: fewer, as many and more jobs than workers, uneven strides, a table that overflows |
| `helpers` | slots against the meant list; conversions against their use; the environment an operation sees | arrays: 3 values, 5 adds, chunk of 3 (1024 in the code): two growths, neighbours and distant duplicates, removal before and after; lists of two and one of four given to `array_set`, which makes the table grow while it is set. Texts: every name of 4 characters of 8, path of 6 of 4, area of 6 of 3: two adjacent escapes, three replacements that make each other's matches, three lines. Four operations of a script, each with all it calls; sources are taken up where fewer than four operations are under way (`MaxDepth`), which has a build in an installation, and one in the installation a build needs |
| `quarantine` | verdict, reports, conflicts | two packages with up to two files of three and a link, each missing, altered or restricted; 1 and 2 workers: two jobs on the same path in every interleaving |
| `quarantine_conflict` | "check file conflict" (fails) | the same |
| `resolve` | result against the graph | 3 packages, a group, an alternative; cycles of length 1, 2 and 3, shared and doubled dependencies; every state of one package; depth limits 1 and none |
| `install` | the store under faults | 2 packages, 3 versions (one of another architecture), 3 paths (one restricted), 2 operations, 2 faults: upgrade, downgrade, removal, conflict, a file that changes owner, a file that no list names; six sets of options and start checks for an installation, four for a removal; a fault in an operation and another in the one that repairs it |
| `install_crash` | an installed package has its lists (fails) | one operation, one crash |
| `install_moved` | a successful installation is complete (fails) | one operation, no fault needed |
| `shell` | conditions, jumps, nesting, protection, exit status, termination | every script of up to 4 lines of control flow, 5 of conditions, 3 that run scripts (which may run a third), 2 of operations on global state; one typed line; statuses 0 and 1, one signal. Four lines hold every pair of nested or overlapping blocks and a jump across one; three levels of scripts are the least that overwrite the one backup |
| `update` | the index directory under updates, cleans, kills | 2 processes, 2 updates, 2 faults, three lines of which two name one file: an update after one that failed and still lives or has ended, a clean at any step of it, a line that overwrites what an earlier one left a stream open on |
| `archive` | packing, extraction by two jobs | 3 paths, one below another; 8 sources, 7 archives by 7, 5 trees, one path that vanishes at any step of the packer: every pair of kinds at one path, a link where a directory is wanted, an entry that comes twice, all interleavings of two jobs |
| `shell_if` | "If segment used for conditions" (fails) | the same; two blocks of two and three lines suffice |

Properties, by module; each is stated beside its definition.

* `Jobs`: `AtMostOnce`, `RunIsBarrier`, `RunReturns` (liveness) and
  `ImplementsPool` (refinement).
* `ArrayClient`: `GetIsList`, `HasMissesOnlyTheNewest`, `ScansInBounds`,
  `ReorderKeepsEveryString`.
* `Quarantine`: `PassedMeansIntact`, `NoFalseAlarm`, `RefusalIsReported`,
  `OneWorkerMissesOnlyNeighbours`.
* `Resolve`: `ListIsExact`, `DependenciesFirst`, `NoNameThrice` (the cache
  bounds the recursion although it misses its newest entry),
  `FailureHasReason`.
* `Install`: `ListedIsVetted`, `NothingLost`, `MetadataLast`, `OldGoesLast`,
  `ExitZeroMeansInstalled`, `NoOrphans`, `ForgottenAfterFiles`,
  `FailureHasReason`.
* `Update`: `NeverMixed`, `ZeroMeansCurrent`.
* `Archive`: `ExtractedIsWhole`, `PackedIsWhole`, `FailureEndsProcess`,
  `PackEnds` (liveness).
* `Text`: `SafedirStaysBelow`, `LinkLeadsBack` (with the room `url_encode`
  allocates), `TrimDedents`.
* `Environment`: `EnvironmentKept`.
* `Shell`: `FollowsConditions` (up to the endif of a condition that held),
  `JumpsStayInScript` (up to the end of a script that ran a script),
  `OperationsNotInterrupted`, `ExitStatusIsHonest`, `ScriptsEnd` (liveness),
  and `IInv`.

What the failing runs show is in PROJECT.json under "findings": a path that two
packages bring may pass validation; a crash while the file list of an
installed package is replaced leaves the package without one, and the next
installation of it ends in an error; a file that moves from one package to
another within a transaction is deleted after it was installed; behind the endif of a
condition that held, the next condition is not evaluated and its block runs.
The model also keeps what no property can call a success: `exec` always
returns 0, as `run_args` has already divided the status; an operation in the
sandbox returns 0 whatever it does, unless a signal kills it, and then 256 times
the signal, of which `exit` keeps the low byte, 0: `ExitStatusIsHonest` excepts
exactly that (`KilledInSandbox`); after a script
that ran a script, the outer run goes on over the inner list; after any nested
run SIGINT stays ignored. A package may be listed twice by the resolver, as
`cache_list.has` does not see the newest entry (`dependency.vala:18,41`);
`NoNameThrice` is the exact limit, and `ExtractedIsWhole` says what two jobs
that then extract the same archive leave. `FailureEndsProcess` has an
exception: `error()` of one job may replace the list between the moment another
finds it and the moment it adds to it, and the message of a link that could not
be made is lost (a job whose archive could not be opened also writes to the
list). `ZeroMeansCurrent` leaves an index that failed its check where it is, as
the code does, and says that the status tells.

Some properties say less than one would wish, because the code does:
`ListedIsVetted` speaks of the paths the transaction lists, as what an archive
holds beyond its lists is installed unseen. `MetadataLast` lets a package be
recorded over a file whose move has failed, since `quarantine_install` asks for
errors only behind its last loop; `OldGoesLast` and `ExitZeroMeansInstalled` do
not. Those three let a file be missing that another package of the same
transaction has given up: that is the finding `InstalledIsComplete`. These and
the properties of failures leave out `--ignore-error` and `--ignore-quarantine`
as they must. `FailureHasReason` of `Install` lists every refusal the code has
for what is modelled. `PackedIsWhole` lets an archive end before a path that was
deleted meanwhile, with a message in the log but status 0. `PackEnds` names the
two places at which packing can stay for ever. A job that a full table drops
(`job.c:37`) is dropped in `JobPool` too, and no property calls that wrong;
`ReorderKeepsEveryString` does not speak of the order, in which the string added
last stays last (`array.c:234`) and `remove_all` can leave a directory that is
not yet empty when its turn comes; `FailureHasReason` of `Resolve` accepts an
alternative that is not there as a reason, though a later one would do
(`dependency.vala:131`).

The inductive invariants of `ArrayClient`, `Jobs`, `Quarantine`, `Resolve`,
`Install`, `Update`, `Archive` and `Environment` are proved and not part of a
run; that of `Shell` is both, since it holds the nesting properties that no
other run property states.

## Fairness

`jobs`, `shell` and `archive` check liveness. In `archive` only packing is
fair: nothing in `archive_write` waits but for a pipe, and a program that packs
goes on packing; `PackEnds` says that it then ends but at a path that is not
there, which the loop tries for ever (`archive-create.c:120`), and at a pipe. In
`shell` the program is weakly fair: it
goes on with the next line or its operation when it can; the user need neither
type nor interrupt. In `jobs`, each thread is weakly fair: the operating system
schedules a thread that can run, and a callback that is entered comes back (the
callbacks are finite loops and file operations). Adding jobs is not fair: a
caller need not add any. `RunReturns` starts from `jobs_run` having been called.

## What is proved

The proofs hold for every value of the constants under the named assumptions of
the modules. Most only say of what kind the constants are. The others:
`ArrayAssumption`, that the array grows by at least two slots; `ClientAssumption`,
that strings are ordered like numbers, that the empty slot is none of them, and
that what is given to `array_set` are lists of them;
`QuarantineAssumption`, that there are finitely many packages, that the empty
slot is no path, and that what a line holds, what a file sums to and what is
absent are told apart; `ShellAssumption`, what a line and a script are, and the
ranges of exit codes and signals; `TreeAssumption`, that a path lies in the root
or in a directory that lies in the root (two levels are enough to tell a file
from the directory it needs), and `ArchiveAssumption`, that archives and trees
are made of known kinds and that each job has an archive;
`ResolveAssumption`, that repositories and the store hold packages, not groups,
and that splitting `x|y` at the bars yields at least one name, each of which the
code takes as a package's (`dependency.vala:123-137`); `TextAssumption`, that
names are made of the characters whose codes the model has, one or more for each
kind that the conversions distinguish (paths and areas may be made of any).

What a recursive function computes (`Reach`, `array_get`, `array_adds`, the rounds
of `url_decode`, `trim` and `ReplaceAll`, and `FlattenSeq`) is proved
by induction over its argument: the natural numbers are well-founded (`LeastIn`,
`Induct` in `ResolveProofs` and `HelperProofs`), so a function that is chosen by
its recursion equation has the value the equation gives at each number, once it
is shown that there is one.

* `JobsProofs`: `Invariance` (`Spec => []IInv`), `NoJobTwice`, `Barrier`,
  `Refinement`. `AtMostOnce` is not inductive: nothing in it says where a worker
  may be. `IInv` says that worker `w` stays on indexes congruent to `w`
  (`OnStride`), and that `calls` and `returns` of job `j` are functions of where
  its one owner `j % parallel` is (`OwnerRuns`). The arithmetic lemmas show that
  a stride of `parallel` skips no index of the same remainder. The refinement
  follows step by step from the same invariant.
* `QuarantineProofs`: `Invariance`, `OnlyIntactPasses`, `VerdictIsReported`. The invariant says that
  every line a job has behind it is intact or one of the lists is not empty
  (`Settled`), that a link past its first test has its target, and that nothing
  is ever taken from the lists. The interleaving does not matter, which is what
  the proof shows. That a refusal is reported and nothing else is (`RInv`) needs
  that the arrays count right: `length () > 0` is false only of an array to which
  nothing was added. `NoFalseRefusal` needs the other direction: every path in
  the cache comes from a line that is behind its job (`CacheCounted`), and
  `OneWorkerNeighbours` that one worker has only the last path of the package
  before it out of `array_has`'s sight.
* `InstallProofs`: `Invariance`, `ListedPathsAreVetted`. The invariant follows
  the quarantine: before it is judged it has lists of the transaction's packages
  only (`ListsOfTransaction`) and, when the extraction is over, of all of them
  (`Complete`), so validation, which goes by the lists it finds, looks at every
  path the transaction lists; after that what lies at such a path is as listed
  and not restricted (`Vetted`), whatever else there is and whatever the faults.
  `NothingDisappears`, `RecordedLast`, `OldClearedLast`, `ZeroMeansInstalled` and
  `ForgottenLast` follow from `OrderInvariance`. None of these is
  inductive: they speak of the disk, and what keeps them is where the operation
  is. `Core` says, while an installation is under way, where each slot that a
  package of the transaction wants is: it waits in the quarantine (`Waits`), or
  its phase is over and it is in place, or its move failed, or it is cleared as
  a leftover (`EachSlot`); that nothing else is missing (`Lost`); that a missed
  slot has left an error, so that nothing is cleared after it (`MissedIsTold`);
  and, for a removal, that whatever a package still lists is still to be done as
  long as its metadata is (`RemovalOrder`). The promises follow from that
  (`DoingKeepsPromises`), and between operations they hold because nothing
  changes (`PromisesKept`). `Versions` says that what the lists hold is a version,
  so that what they name are paths. `FailsForAReason` and `NothingIsOrphaned`
  are about histories without faults: then the lists of the installed packages
  and the files of the disk agree between operations (`WInv`), and every message
  an operation leaves has its reason (`FInv`).
* `ShellProofs`: `Invariance`, `ConditionsFollowed`, `NeverInterrupted`,
  `HonestStatus`, `JumpsKept`, for every script, command line, user and status. `FollowsConditions` is not
  inductive: the invariant says that of the open conditions the last `iflevel`
  are false and the others true (`Levels`). For the handler it says that SIGINT
  is ignored while any protected operation is on the stack, and that so is the
  saved handler if another operation lies above a protected one (`Handlers`),
  which is why one place to save it is enough for safety. `HonestStatus` follows a
  failure from the operation through each run it passes, and `JumpsKept` each
  run's place in its own list, up to where the code loses the outer list.
* `UpdateProofs`: `Invariance`, `OneUpdate`, `StatusZero`, for any number of
  processes, lines and names. The invariant says that a process that works on
  the directory holds the lock (`Locked`), and that only the holder has streams
  open (`Streams`), on files that are there: so an exit writes into the
  directory only while nobody else works. While no error is noted, everything
  but the index at hand is sound (`OthersSound`) and what is at hand is as far
  as the line has come (`AtHand`), nothing is missing but for a clean
  (`NoneMissing`), and no stream is open (`NothingOpen`), so nothing changes
  after an update that ended with 0 (`Quiet`).
* `ArchiveProofs`: `FailureIsNoticed`, from `Invariance`, for all archives, trees
  and numbers of jobs. A file that could not be opened keeps its job at that
  entry, on the way to the end of the process, whatever the others do to the log
  (`Caught`). Of a job that works alone every message is about to be added or in
  the log (`Alone`): once made, the log is never unmade, and only `error()` of
  the job itself could empty it. `PackedIsWhatWas` needs that what was written is
  the prefix of the list up to the packer's place, entry by entry, that what
  `lstat` and `readlink` found still holds unless the path is gone (`PInv`,
  `Seen`), and that an archive left short keeps its message in the log until the
  job that made it exits with it (`LInv`).
  `ExtractedAsPacked` says of every entry that is behind its job that the tree
  has it as it was packed, unless another entry at, above or below its path is
  to blame (`XInv`); that entry may be of any job and at any step.
* `ResolveProofs`: `RecursionEnds`, `ResolutionFailsForAReason`,
  `ResolutionIsExact`, `DependenciesComeFirst`, for all names, repositories and
  flags. `Reach` is the least set closed under `LeadsTo` (`ReachCloses`,
  `ReachLeast`): each widening adds a name or is the last. Nothing that is not
  requested is ever on the stack (`SInv`), which gives one half of exactness and
  the reasons of a failure. For the other half, what a cached name or a listed
  package leads to is cached or still to be visited (`CInv`); when the stack is
  empty that set is closed. The depth limit does not cut it short because the
  depth is at most the size of the cache and no name is cached more than twice
  (`CacheBound`, from `NoNameThrice`). For the order, the names of each call lead
  to all that the calls within it are about (`PathInv`), so a dependency that is
  not listed when its dependent returns is on the stack and leads to it
  (`ReturnSorted`); a group that was met before is either done or on the stack
  (`VisitedInv`).
* `HelperProofs`, arrays: `ListIsReturned`, `OnlyNewestMissed`,
  `ScansStayInTable` and `NoStringIsLost`, for strings, lists and tables of any
  number and size, from `ArrayInvariance`. The invariant `AInv` gives the slot of
  each string the caller means: slots in use, in the order of the list, and every
  other slot empty (`Lies`); while the list is filled these are the slots
  `1 .. size` (`Full`), which is all that bounds what `array_has` misses. Removal
  and uniq empty slots and keep the order (`Thinned` says which strings uniq
  takes), and `size + removed` stays what it was because as many slots are
  emptied as strings go, which is shown by a bijection. After reordering only the
  set of strings is kept (`Holds`). `csort` is given by the place of each string
  among the others, so the proof counts (`Ranks`).
* `HelperProofs`, environment: `OneSlotIsEnough`, for scripts of any length. The property
  says nothing of the slot, so the invariant does: what an inner operation has
  saved while an outer one has cleared is the bare environment (`SlotBare`), so
  restoring it is right; and of operations that neither nest in each other's span
  nor leave it early one at a time uses the slot, which then holds the user's
  (`SlotFull`). An installation that builds a package nests, whatever the hooks,
  so the user's environment is not claimed behind it. That an
  operation saves, clears and restores in this order is `Ordered`.

* `HelperProofs`, texts: `PathsStayBelow`, `LinksLeadBack` and `IndentIsCutOff`, for
  texts of any length. The invariant only says that the text is one (`TextTyped`);
  the work is in what the loops compute. A replacement makes
  the text shorter and no two characters neighbours that were not (`Shrunk`), so once the two dots and the two slashes are gone
  they stay gone through the replacements that follow (`Rid`), and as each round
  makes the text shorter the rounds suffice. A link is a text of blocks, one for
  each character of the name, that stand one behind another (`Spells`):
  `ReplaceAll` turns the blocks of slashes back one after the other, `safedir`
  finds nothing to replace in what is left, and `url_decode` takes one block a
  round. For the room it counts blocks of three against characters that were
  counted twice. `trim` and `Dedented` agree because after each newline the copy
  continues where the column exceeds the indent, which is the case the hypothesis
  on the lines is needed for.

Only model-checked: liveness (`RunReturns`, `ScriptsEnd`, `PackEnds`), which the
prover has no means for. Every invariant and action property of the passing runs
is a theorem, and so is the refinement of `JobPool`. `LinksLeadBack` has the same
hypotheses as the property: a name with two dots together is not found again.

## Not modelled

* Yaml, package lists and version strings: their conversions take texts apart
  whose size is out of TLC's reach; what the models need of their results
  (which packages there are, which is newer) is a constant.
* libarchive, curl, gpg and the kernel: external. Their results are
  nondeterministic choices (`Reply`, `good`, a list of entries). What libarchive
  does with a damaged entry is not in this repository, so the hazard at
  `archive-extract.c:105` has no property.
* The kernel interfaces of the sandbox, the web server's sockets, the conversion
  to Debian packages, output: sequences of calls whose state is outside ymp.
* `array_pop` and `array_insert`: no caller.
* A thread that could not be created (`job.c:57`): `pthread_join` on an
  uninitialised handle has no outcome one could enumerate.
* The builder's fetch and package steps run the shell functions of a package,
  in order, and return at the first failure; what can go wrong between them is
  the environment, which `Environment` has. The repositories loaded once per
  process (`repository.vala:139`) matter only to a script that updates and
  installs, and `Update` does not read indexes.
* In `Install`: what the build of a source package inside an installation, or
  `--sync-single`, does to the store (`install.vala:99-112`: its own validation,
  leftovers and moves before the transaction's; `Environment` has its effect on
  the environment), package files given by name, an `arch` the metadata lacks,
  the resolution before the transaction (`Resolve`), the sysconf hooks and empty
  directories; `remove_file` is taken not to fail. In `Resolve` a release
  is positive and a package has one source. In `Shell`: reading lines and
  substituting variables in them, `disable-stdin`, and ymp inside its own
  sandbox; the conditions `and` and `or` that `doc/ympshell.rst` describes have
  no code. In `Archive`: hard links, modes and owners, and the choice of format.

## Plan

What would come next, in this order: the creation of an index beside an update
that reads it, once the yaml conversions have a model of their own; `JobPool`'s
promise as what the jobs of `Archive` are scheduled by, as it is in `Quarantine`.
