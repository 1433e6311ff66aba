# zypper in TLA+

This directory specifies the control flow of zypper, the command line interface to
libzypp: what happens when signals, failures, refusals and half finished work meet in one
process, or in the commands of one `zypper shell` session. libzypp itself (solver,
downloads, rpm) is the environment: whether a refresh works, what the solver proposes and
how a commit ends is nondeterministic.

Run a model with `tlc -config MCx.cfg MCx`, check a proof with `tlapm XProofs.tla`.
`PROJECT.json` lists the runs, and for each definition the lines of code it stands for.

## The system

| Part | State | Operations | Talks to |
|---|---|---|---|
| Exit control (`main.cc`, `Zypper.h`, `Guardians.h`) | `_exit_requested`, the `SigExitGuard` counter, `_exitInfoCode`, `entered_commit`, `sigExitOnce` | signal handlers, `requestExit`, `immediateExitCheck`, `immediateExit`, `setExitInfoCode` | every other part polls it through `Zypper::instance()` and `out()` |
| Media callbacks (`callbacks/media.*`) | the open reports, `repeat_counter_` | `requestMedia`, `progress`, `problem`, authentication | called by libzypp; prompt the user; withdraw an exit request |
| Prompts (`utils/prompt.cc`) | none | `get_prompt_reply`, `read_bool_answer`, `read_action_ari_with_timeout` | stdin, /dev/tty, exit control |
| Command framework (`Zypper.cc`, `Command.cc`, `commands/basecommand.*`) | current command, exit code | `doCommand`, `run`, `reset`, `parseArguments`, `defaultSystemSetup` | repository set-up, then the command |
| Shell (`Zypper.cc`, `commands/shell.cc`) | history, what commands leave behind | `commandShell`, `shellCleanup` | runs commands one after the other in one process |
| Repository set-up (`repos.cc`) | `RuntimeData::repos`, the static `done` flags, the pool | `init_target`, `init_repos`, `load_resolvables`, ... | services, libzypp's RepoManager, exit info code |
| Solver request (`SolverRequester.cc`, `PackageArgs.cc`) | resolver jobs and pool marks, feedback | `install`, `remove`, `update`, `updatePatches`, ... | marks what solve and commit executes |
| Solve and commit (`solve-commit.cc`, `Summary.cc`, `misc.cc`) | resolver flags, pool marks, `srcpkgs_to_install`, `force_resolution` | `solve_and_commit`, `show_problems`, `confirm_licenses`, `install_src_pkgs` | resolver, prompts, `God->commit`, exit codes |
| rpm, keyring, repo, job, lock callbacks (`callbacks/*.h`) | per report state | problem and trust decisions | called by libzypp |
| Repository, service, lock and locale commands | files under /etc/zypp | add, modify, remove, rename, refresh, clean | RepoManager |
| Config and global options (`Config.cc`, `Zypper.cc`) | `Config` | reading zypper.conf, environment, command line | all parts |
| zypp lock (`assertZYppPtrGod`) | the lock file, PackageKit | wait, ask, give up with code 7 | PackageKit |
| Lists, search, info, output | none that lasts | print | pool |

What is hard here:

* zypper has one thread, but signal handlers interleave with it, and the reaction to a
  signal depends on which report is open and on what the user has answered since;
* it fails by exception through libzypp, by a remembered exit code, and by an info code
  which only matters at the very end; each has its own way to get lost;
* a commit may be incomplete, and the process may be killed in the middle of it;
* the shell runs commands in a process written for one command: static `done` flags,
  pool marks, resolver settings and codes survive;
* unattended runs answer prompts by themselves and must neither agree to what needs a
  user nor loop.

The hazards with their lines are in `PROJECT.json`.

What makes each part correct:

* Exit control: a guarded download is not cut by one signal, two signals always stop
  zypper, it cleans up once, and the exit status says what was interrupted.
* Solve and commit: what is executed was shown and agreed to; the exit code and the reboot
  marker say what was done; a command carries out only its own marks (removeptf in a shell
  aside, see below).
* Repository set-up: a command does not run after an abort, it knows the installed system
  unless an option leaves that out, and dist-upgrade has every repository it was to use.
* Callbacks: no key zypper is asked about, no index and no package is trusted without a user
  or an option for it; what fails inside a commit reaches the exit code.
* Repository and service commands: exit code 0 means that every named item was served, and
  only named items are touched.
* Start-up: the configuration is what the options mean, in whatever order they are written;
  a command runs with the lock, the user and the file system it needs.
* Patch lists and locks: patch-check, the lists, patch and update agree on what is needed;
  only the locks go that were named, or have the number given in the file as it is by then.
* Downloads: what is fetched or thrown away fits what is installed.

## Modules

| Module | What it is |
|---|---|
| `ExitPromise` | Abstract: what CTRL-C promises. A request rises, is withdrawn while zypper runs, or is obeyed; the exit status tells whether a risky operation was cut. |
| `ExitControl` | The code of that: handlers, flag, guards, media prompts, commit flag, codes. |
| `ExitControlProofs` | Its theorems. |
| `Consent` | Abstract: an offer is made, reconsidered, accepted or refused, and only the accepted offer is executed; the verdict fits. |
| `SolveAndCommit` | The loop of `solve_and_commit`, its problems and prompts, the commit, what follows it, and the marks left in a shell. |
| `SolveAndCommitProofs` | Its theorems. |
| `RepoInit` | `defaultSystemSetup` with `do_init_repos` and the loading of repositories. |
| `RepoInitProofs` | Its theorems. |
| `SolverRequest` | From the arguments of install, remove, update and patch to marks, solver jobs and feedback. |
| `SolverRequestProofs` | Its theorems. |
| `KeyTrust` | The answers to libzypp's questions about keys, signatures and checksums, as pure definitions. |
| `CommitReports` | The receivers of a refresh and a commit: index, downloads, file conflicts, rpm, scripts. Uses `KeyTrust`. |
| `CommitReportsProofs` | Its theorems. |
| `RepoManagement` | refresh, clean, and the commands that add, remove, modify and rename repositories and services. |
| `RepoManagementProofs` | Its theorems. |
| `Startup` | Global options, look-up of the command, zypp lock and PackageKit, conditions, shell, subcommands. |
| `StartupProofs` | Its theorems. |
| `PatchLists` | patch-check, list-patches, list-updates, patch, update, needs-rebooting and the lock commands on one system, over many commands. |
| `Downloads` | download and source-download, composed with `PatchLists`: updates happen between them. |
| `PatchListsProofs` | Theorems about both in that composition. |
| `MC*` | Instances for TLC. |

A definition whose name ends in `Slip` is a plausible mistake in the one it stands before;
`PROJECT.json` pairs each checked property with the slip that violates it. No
specification uses one.

### ExitControl

`pc` is the position of the main thread: `work` inside a command (the command itself is
abstract: it may open and close reports, meet media problems, commit, fail), `problem` at
a media prompt, `eatLine` in the loop that discards the rest of a typed answer, `clear1`
and `clear2` in `requestExit(false)`, `prompt` at the shell prompt, `cleanup` in
`immediateExit`, `exited`. `exitReq` and `shutdown` are zypper's and libzypp's flag;
`guards` is the set of receivers that hold a `SigExitGuard`. Signals are possible at every
`pc`, also during the cleanup and between the two assignments of a withdrawal. The SIGPIPE
handler may itself exit, because it calls `Zypper::instance()`.

Run `exit_control` checks, with a MediaChange and a Download receiver and one URL:

* `GuardedExitNeedsTwoSignals`, `CutCommitReported`,
  `ZeroMeansNothingToReport`;
* `ExitBookkeeping`: one cleanup, no shutdown of libzypp without a request, and the limit of
  unattended retries;
* `KeepsPromise`: the refinement of `ExitPromise`, the request being `exitReq`, the
  protection `guards # {}`, the risk `entered_commit`;
* `SignalsStop` (liveness): a second signal stops zypper, and the first one at a prompt.

Bounds: three signals (one that is withdrawn, then a polite and an insistent one); one
shell command (what it leaves behind reaches the prompt); REPEAT_LIMIT 3 as in the code;
the Preload and Auth receivers act like Download without `problem()`. Fairness is weak
fairness of the steps the main thread takes by itself: the exit check is passed again and
again (`out()`, progress callbacks, prompts that poll each second), and straight line code
goes on. No answer of the user and no signal is assumed. Liveness assumes that stdin ends
in a newline (`StdinComplete`); run `stdin_eof` shows what happens otherwise.

### SolveAndCommit

`pc` follows one pass of the loop in `solve_and_commit`: solve, `problems`, summary,
prompt, licenses, commit, source packages, reboot codes, and `idle` between two commands.
A solution is a record of what the loop asks of it: whether something is got or removed,
which patch it installs, whether a license is to be agreed to; a `plan` adds the marks it was computed from.
`CommandLines` are the option combinations, `marks` what commands have marked in the pool.
`verbose` is -vv, whose summary shows all and so has the patch rules on for any command.
The process may be killed in the commit (`KilledInCommit`, 8) and after it, while source
packages are installed (`KilledAfterCommit`, 105); neither runs the watchdog's destructor,
which in the second case has run before. Two variables only remember: `markerBefore`, and
`uncleaned`, the marks that commands `shellCleanup` does not name may have left.

Run `solve_and_commit` checks, for two commands of a session:

* `HonoursConsent`: the refinement of `Consent`; the offer is the summary shown last;
* `AgreedInformed`: skipped patches are in the summary agreed to, and no license is agreed
  to by nobody;
* `MarkerRight`, for the mark of a reboot: a patch that needs one leaves it once its command is
  through without an error or an unknown argument; one that was there before stays in every state, killed ones included; a
  new one has a cause, which under the patch rules is never a package, unless the process was
  killed in the commit;
* `ZeroMeansDone`;
* `OnlyOwnMarks`: a transaction has the marks of its command and, at most, `uncleaned`;
* `NonInteractiveEnds` (liveness): an unattended run ends, under weak fairness of zypper's
  own steps; libzypp is taken to return from each call, and skipping a problem leaves
  fewer of them.

Bounds: two commands, so that everything a command leaves behind meets a successor; two
patch problems and one conflict, so that some but not all problems can be skipped; two
source packages, so that the first may fail and the last succeed.

### RepoInit

`pc` follows `run()`: conditions, target, services, select, refresh (one step per
repository, `at`), check, load (again one step per repository), loadTarget, execute,
finish. `initDone` and `loadDone` are the static `done` flags, `repos` is
`RuntimeData::repos`. Each repository may be refreshed, skipped, disabled for good, or break
the set-up off by an exception or the user's abort. In a shell the next command finds the
list as a set-up that was broken off has left it, and appends to it: a temporary repository
may then be listed twice, a skipped one be off in one place and on in another.

`noRepos` and `noSystem` are --disable-repositories and --disable-system-resolvables. The first
keeps `init_repos` from looking at any repository, the second keeps `load_resolvables` from
loading the target; but remove loads it by itself (`commands/basecommand.cc:200`), and a
shell reloads it in front of each command (`Zypper.cc:425`), with or without the option.

Run `repo_init` checks:

* `RunsPrepared`: no command executes after an abort; the installed system is known
  when it does, except exactly for a single command other than remove with
  --disable-system-resolvables;
* `DupComplete`: dist-upgrade has every repository it should, and none once one was skipped
  (with --disable-repositories there is none to have);
* `OnlyUsableLoaded`: what is loaded is enabled, temporary, named by `--plus-content` or matched
  by its keyword, was not skipped when last tried, and is not excluded; after a
  rejected `--repo` an excluded repository of the untouched list is loaded all the same by
  the next command of the shell, and the property says so.

Bounds: three known repositories and a temporary one; one of the former named by `--plus-content`,
whose keyword may match the others or not, and one on a medium that `--no-cd` excludes; command
lines with and without `--repo`, a known and an unknown argument; four commands: what it takes
to skip a repository, break off the next try, trip over what is left, and go on from there.

### SolverRequest

One command in one pool. `pc` follows `execute()`: `parse` (one argument per step, sorted
into `dos` and `donts`), `args` (each of them is tried by name, then as a capability),
`match` (the packages an argument matches are gone through one by one), `stack` and
`others` (the two passes of `updatePatches`), `issues` (`mark_updates_by_issue`),
`feedback`, and then `solve`, where `SolveAndCommit` goes on, or `failed`. `sr` collects
what the requester leaves behind: the items it marked, the jobs it gave to the solver, the
feedback. Sets of arguments and matches have no order in the model, since the order is that
of strings and of the pool. libzypp is what a package is: an installed item, available
items, and the candidate for an update. remove loads no repositories; its pool may hold
packages all the same, in a shell. `RequestAssumption` says what a pool is: a package has
finitely many available items, a patch at least one version, and the candidate for an update
keeps the vendor of the installed item, as libzypp's does.

Run `solver_request` checks:

* `InstalledRespected`: no combination of options, editions, vendors,
  priorities and locks marks an older item, another vendor or a locked item unless that
  was asked for;
* `ArgumentsAnswered`: unknown arguments stop an unattended command, and
  whatever is asked of install and remove is acted upon or reported;
* `StackFirst`: patches for the package manager are installed alone.

Bounds: package `a` in each constellation the code tells apart (13), `b` in four, so that a
pattern meets two different ones; two patches in nine states each; one command line for
each option and kind of argument. Runs with arguments keep two simple patches, runs of
`patch` two absent packages: no statement of the code looks at both.

### CommitReports

libzypp is the caller, and `pc` is where it is: `index` and `digest` (a refresh), `fetch`
to `sigProblem` (one package after the other), `conflicts`, `rpm` and `step*` (one operation
after the other, or one transaction for all), `done`, `stopped`. Each action is a callback with all
that its receiver does: counters, progress bar, exit code and info code, the question to
the user. `KeyTrust` gives the set of answers of a question: one if an option or
--non-interactive decides, all if a user does. Ctrl-C may come at any time. Packages are
downloaded in advance (zypper's default), so that file conflicts are looked for before rpm.

Run `commit_reports` checks:

* `TrustNeedsConsent`: a key zypper is asked about gets into the rpm database only with
  --gpg-auto-import-keys or the user's letter for it; no package with a failed signature
  check and no bad index is used unless an option says so or the user answered so. The
  additional keys of signed metadata are another matter: libzypp imports them, and zypper
  prints that it does (`AutoImportKey`, `callbacks/keyring.h:455`) without asking anybody. Of
  them the property says that the key which signs for them (`signer`) was known or had just been
  accepted. Whether a key accepted for the moment is enough is libzypp's decision, and open here;
* `RequestKeepsRpmOut`: an exit requested before rpm starts keeps it from starting, also
  during the dialog about file conflicts;
* `FailuresReported`, `BarShowsStep`.

Bounds: two packages and one to remove, so that one can fail before and after another; one
retry; seven configurations: each option that changes an answer, alone or with the one it
may be confused with. The counters are unsigned; `Width` is far above the number of packages.

### RepoManagement

A command is started, fills a queue from its arguments, and works through it one item per
step; any step may fail. `pc` is the loop it is in. An argument is a word (alias, name and
position at once, as in the code) or a URL, which means every repository that has it.
`initial` is the list the user saw: the service refresh of the same command may change it,
while the numbers keep meaning it. `RepoManagementAssumption` says what a command line is:
`--repo` belongs to refresh and clean, addservice has an alias and a URL.

Run `repo_management` checks `ZeroMeansServed` (0 from refresh, clean, addrepo and addservice: every item
asked for was served, no failure forgotten) and `OnlyNamedChange`. Bounds: three repositories
(of a service, a CD, one disabled with a password in the URL), one service that offers a known and
a new repository; aliases that look like positions; two commands.

### Startup

`pc` goes from `parse` over `write` (options are written in passes, by dependencies and
priority; `std::sort` leaves equals in any order, so the model does too), `command`,
`options`, `lock`, `ask`/`quit`/`wait`/`relock` (the dialog with PackageKit), `check`,
`execute`, to `handover` and `child` for another program, or `prompt` in a shell.
PackageKit and other lock holders act at any time. `Environment` is what zypper finds where
it is started: root or not, the lock and its holder, a transactional system, the configuration file.

Run `startup` checks `OptionsMean` (the configuration when the command is looked up, against
the definition `Meaning`, which knows no order), `ExecutesGuarded`, `ChildHandOver` and the
liveness `UnattendedEnds`. Fairness is weak fairness of zypper's own steps only: neither user,
PackageKit, other programs nor the child are assumed to do anything. Bounds: all pairs
of options, triples of those whose order matters, repeated -v; every environment (root or
not, transactional, lock held) in front of commands and of three shell sessions.

### PatchLists and Downloads

A command is one step over the state of the system: states of the patches, installed
editions, file of locks, reboot marker. Commands run as processes or in a shell, which keeps
the locks the target was loaded with, `exclude_optional_patches` and the comment of addlock.
Repositories publish patches, machines reboot, users enter and leave shells in between. What
the solver picks for an update is given by the scene; which other patches a commit satisfies
is nondeterministic, and so is whether libzypp's Locks take a lock out at once or when saved
(`atOnce`); `taken` is what each argument of removelock stands for, after those before it.
Lists without some of their entries are taken by place (`Rank`, `Nth`, `At`), so that
they can be proved about.

`shown` is the list of `zypper locks` the user has in mind; edits of the file do not change it.

`Downloads` adds the package cache and the directory of sources. The order in which libzypp
finds matches, and which of two files of one source the manifest keeps, are nondeterministic.

Run `patch_lists` checks:

* `ListsAgree`: of two commands after each other, what patch-check counts is what
  list-patches shows (table and xml, down to the status) and what patch installs; list-updates
  lists what update will do, and a filter by version change hides no upstream change;
* `TwoRoundsSuffice`: after two rounds of patch nothing needed is left, though patches
  for the update stack hold back the others;
* `LocksAsNamed`: each lock that goes is named (with kind and repositories) or numbered by an
  argument of its own, or useless to cleanlocks. A number counts in the file as it is then, or,
  if libzypp takes locks out at once, in what earlier arguments left of it (`IsNumber`); a number beyond the
  list is a name. So numbers of an old list, and ascending ones (`removelock 1 2`), may take
  a lock the user did not mean. They take exactly the locks shown with them when the list shown
  still begins the file (nothing, or addlock only, since) and they descend (`NumbersHold`). What is locked is
  not installed;
* `FilesFit`: sources of installed packages are never removed, `--status` shows what
  the next command does, download leaves the best version of each named package in the cache.

Bounds: six scenes with three patches (security, optional, update stack, interactive, locked,
applicable later) and two packages of one source, each with the command lines that matter there,
to bound the number of states; at most three locks (`MaxLocks`), so that taking the first moves
the others, with numbers up, down and alone in one scene; two rounds counted (`MaxRounds`).
One version per patch; retracted patches are left out.

### Runs that refute a statement

Each checks one sentence of the manual or of a message that the code does not keep; the
findings in `PROJECT.json` quote it. `stdin_eof` (a loop that no signal ends), `abort_status`
(an abort that ends with 0), `pattern_orphan` (one package ends the handling of a whole
pattern), `services_crash` (refresh-services with a plain repository in front of another
argument uses a null pointer).

Met while modelling, and in the models as the code has it, without a run of its own:

* an unattended retry withdraws a CTRL-C (`callbacks/media.cc`);
* purge-kernels returns 0 whatever happened; `solver.forceResolutionCommands` beats
  `--no-force-resolution`; a dry run may return 102; the number shown for a package that is tried
  again (`callbacks/repo.h:160`);
* modifyservice returns 0 after errors; refresh stops at the service refresh that failed;
* `-y` stays on in a shell (the code says so itself), so does the comment of addlock;
  `--with-optional` reaches a later `update -t patch` or `list-updates -t patch` of the shell;
* the xml patch list ignores `--category`, `--date` and `--severity`;
* removeptf marks the pool like install, but `shellCleanup` does not know it: declined in a
  shell, it is carried out by the next command that commits. Requests to the resolver, and the
  repositories `dup --from` asks it to upgrade to (`solve-commit.cc:519`), are never taken back (the FIXME at
  `misc.cc:65`);
* with -vv any command takes away the reboot mark its packages raised, as `SHOW_ALL` includes the
  patch rules; a kill after the commit loses a patch's mark, a kill in it leaves a package's; a dry run with
  a patch that needs a reboot sets the mark;
* --disable-system-resolvables, "as if there were no packages installed", is not heeded by remove
  nor in a shell; after a rejected --repo the shell goes on with the list nobody filtered;
* an unknown repository in addlock leaves a lock for all; several numbers in one
  removelock depend on when libzypp takes a lock out; cleanlocks asks nobody, unlike its
  documentation, and uses the file of locks without `--root`;
* source-download returns 0 after failures of set-up, removal and download, and removes one of two
  files of the same source per run;
* `download 'a*'` files all matches under the name of the first one, so that only one package is
  fetched (`doc/zypper.8.txt:1728`: "only the best version of each matching package"); `FilesFit`
  therefore speaks of arguments that match one name. A user's abort goes on to the next package
  and returns 0.

## Proofs

All proofs hold for any values of the constants that meet the named assumptions.

`ExitControlProofs` assumes `ExitControlAssumption`: the repeat limit is positive, the empty
URL is no URL. `Inv` is inductive. `GuardedExitNeedsTwoSignals` alone is not, since nothing in
it relates the flag to the signals that raised it; `Evidence` does. `CutCommitReported` needs
that whoever is in the commit has the flag set (`ExitCodes`). `ExitBookkeeping` needs that the
static flag and the number of cleanups go together (`LeavingOnce`) and the relation of the
unattended retries to the counter (`RetriesCounted`), whose reset happens with the *next*
problem. Type correctness is proved first and in two halves, because Boolean variables and
arithmetic need different provers. `ImplementsPromise` proves the refinement step by step:
each action is an action of `ExitPromise` or a stutter.

`SolveAndCommitProofs` assumes `SolveAndCommitAssumption`, which says what options a command
can have. Its invariants are stated one per idea, each inductive given the types:

* `PlanKept`: a plan is in the pool from the summary on, the summary shows that very plan,
  and only that plan is executed. Replanning forgets the summary.
* `Verdict`: until the commit the exit code is 0 or "capability not found"; a refusal or a
  failure puts an error there, and a failed source package a code that is not 0.
* `LicenseKept`, `SkipsKept`, `MarksKept`: the license option, the automatically skipped
  patches and the marks in the pool (the command's own or `uncleaned`), followed from
  where they arise to the commit.
* `MarkerKept`, `RebootKept`: the mark for a reboot before, in and after the commit, and
  what the watchdog of the patch rules has to undo.

`AgreementIsInformed` and `MarkerIsRight` follow. `ImplementsConsent` proves each action a step
of `Consent` or a stutter, from `Verdict` and `PlanKept`. One hypothesis is in the statements
because the code needs it: `NoPurge` (purge-kernels returns 0 whatever happened), for what is
said of the exit code. It holds in the run. `MarksAreOwn` has none: what removeptf leaves is
in the property.

`RepoInitProofs` assumes `RepoInitAssumption`: the known repositories have different aliases,
and temporary ones others. `Inv` has three parts, each inductive by itself: `AbortRemembered` (an abort
is in the exit code until `LoadTarget` has looked at it), `SkipRemembered` (a skip is in the
info code, and from `CheckRepos` to the execution of a dist-upgrade that code is 0), and
`SystemSource` (in a shell the installed packages come from the reload, in a single command
from `LoadTarget`, which is passed over only with --disable-system-resolvables and not for
remove).
`CommandsArePrepared` and `NoDupOnceSkipped` follow; each says something of `execute` only and
does not hold by itself in earlier steps.
The contents of the list need more (`ListInv`). `SkippedOff`: what was skipped is listed and off,
unless it is listed twice; `KnownOnce`: only temporary repositories are; `OnIsUsable`: what is
on and not loaded yet is enabled, temporary or asked for; `SingleComplete`: in a single command
every repository to be used is listed and on until one is skipped, and a dist-upgrade that goes
on has skipped none. They rest on
what `do_init_repos` makes of the list (`SpecifiedFacts`, `ActiveFacts`), and those on lemmas about
lists without some of their elements (`NthFacts`, `SublistFacts`). `DupIsComplete` and
`UsableLoaded` follow.

`RepoManagementProofs` assumes `RepoManagementAssumption`. The invariant has nine parts: the
types (`Tables`, `Control`), for each loop what its queue holds (`Queues`), what was counted and that
a failure reaches the exit code (`Errors`), how the list at hand differs from the one the
user saw (`Seen`), that an argument is taken for what it means (`Taken`), that only what is
named is queued (`NamedQueue`), and that whatever is asked for is still in the queue
or done (`RefreshTodo`, `CleanTodo`). `ServedAlways` is read off where a loop ends: the queue is
empty, so all is done. `OnlyNamed` is an action property: what a step of a loop changes was
queued, and only named items are.

`CommitReportsProofs` assumes `CommitReportsAssumption` (what the options and packages of a
commit can be, and `Width` above the number of packages, so that no counter wraps). Types are proved
in three groups (places, flags, counters). `TrustNeedsConsent` needs `FetchKept`: the package at hand
is not in the cache yet, and what failed its check without being fetched is the package
asked about; what `KeyTrust` answers are lemmas (`ImportNeedsConsent`, `TrustNeedsWord`), and
`SignerKept` follows the key that signs for additional ones. `RequestKeepsRpmOut` is
inductive with `EarlyKept`: an early request stays, and rpm has not started. `FailuresReported` needs
`CodesKept`, which holds from the moment of each failure. `BarShowsStep` is inductive by itself.

`StartupProofs` assumes `StartupAssumption`: there is a line to run, and zypper does not hold the
lock before it starts. `LockKept` carries the rest: the pointer to zypp and the lock file agree, and
a process has the lock from its first command on. `ConditionsKept` and `DryRunKept`
give `ExecutesGuarded`; `Released` and `StatusKept` give `ChildHandOver`.
`OptionsAreMeant` says of the fixed set of options what the order of writing cannot change. `Passes`:
the options without dependencies come first, by priority, then the others; `Says`: the configuration is what
the options written so far mean, and the configuration file counts once `--config` is written.
Each option writes its own fields (`WriteFields`) except where two compete, and those either
exclude each other (`NoConflict`, `Excluded`) or are ordered (`WrittenBefore`). When all are
written, `Says` is `Meaning` (`AllSaid`).

`PatchListsProofs` proves the five properties of `DownloadsSpec`, for any patches, packages and
command lines. It assumes `PoolAssumption` and `FilesAssumption`: what pools, command lines and
files are. `ListsKept`: the last report still describes the system, since a step that
only looks changes nothing (`Quiet`). `RoundsKept`: after one round nothing needed is left for
the update stack, after two nothing at all. `Types` and `FileTypes` are inductive, the latter
given the former. `ShownKept`, for `FilesFit`: what `--status` showed still is what there is to
do, until something else happens. `LocksAsNamed` needs only the types and lemmas about lists:
what is left in a list of locks (`WithoutFacts`), that duplicates are found without losing a
query (`FirstFacts`), that addlock loses none (`AddFacts`), which lock has a number in what is left
(`WithoutNth`, `WithoutBehind`), and that the arguments of removelock take no more locks than
they are (`RangeIsSmall`). `NumbersTaken` is by the first number that would take another lock.

`SolverRequestProofs` assumes `RequestAssumption` (see above; also, packages and patches are
different things). `InstalledRespected`
follows from `Respects`, a property of one request: each is put together (`And`, `All`) from
`SetToInstall`, `SetToRemove` and jobs for capabilities, and each of those respects what is
installed (`InstallRespects`, `RemoveRespects`, `CapsRespect`). `AtHand` relates the argument
whose matches are gone through to those handled, which names the ones that fixed a vendor.
`ArgumentsAnswered` needs `AllTold`, `UnknownDenied` and `VerdictKept`: what is denied is in
the feedback, and the feedback becomes the exit code. `StackFirst` needs `PassesKept`: the second
pass over the patches comes only if the first marked nothing.

The types of a request (`Typed`, `ArgTypes`, `ControlTypes`) need that the choices the code makes
exist: a best item, an earliest version. A set of numbers has a least one (`Smallest`, by
well-foundedness), and so a finite set has an element of the highest rank (`Largest`): a
counterexample of the least size has one element too many.

Only model-checked: liveness (`SignalsStop`, `NonInteractiveEnds`, `UnattendedEnds`), which the
prover cannot do, nor ENABLED; and the four statements the code does not keep.
Not provable with the installed provers: what a recursive definition or a fold computes for
every input. The modules with theorems therefore take entries of a list by place, and
choose the least of a set instead of searching for it.

## Not modelled

See the components of `PROJECT.json`. Locales (setting and installing them through
`forceCommit`), the layout of all output, the lines printed by info, search and the query commands,
the syntax of the configuration file, the scanning of words by getopt_long. In the modelled
parts: the wording of messages, the pager and the detail views of the summary prompt; the
recommends, vendor and focus flags of the solver; the authentication prompt, which is a guarded
report without effect on the exit request; libzypp's own retries; delta rpms; .repo files
given to addrepo; source-install with its build dependencies.

Within the modelled parts some detail is left out as well: the repository filter of patches
named to `updatePatches` (`SolverRequester.cc:228`); a package whose failed download was answered with
"ignore" is not counted as a failure by `FailuresReported`, and a critical script is taken to fail its step;
`OnlyNamedChange` does not look at the service refresh itself, and `ZeroMeansServed` not at commands the
user aborts; optional patches are excluded by default, as in the shipped configuration; a
commit satisfies what it marked and makes no other patch applicable; download's newest
package is the one of the highest edition, whatever the priority of its repository.

libzypp is taken to load its hard locks once per process (`init_target` has a static `done`),
and to return from every call.

## Plan

1. The abstract specification of a request: what is requested is what the arguments matched,
   with `SolverRequest` shown to implement it.
2. `Session`: composition of `RepoInit` and `SolveAndCommit` over a shell session, for what
   survives a command; source-install with it, and the locale commands with their
   `forceCommit` and the requested locales a refused summary leaves in the pool.
