------------------------------ MODULE Startup ------------------------------
(***************************************************************************)
(* From the command line to the work of a command: the global options are  *)
(* parsed and written into the configuration (zyppflags.cc, Config.cc),    *)
(* doCommand looks the command up, parses its options, takes the zypp lock *)
(* (waiting for PackageKit if it must), checks the command's conditions    *)
(* and runs it: here, as a shell over further lines, or as another program *)
(* (subcommand.cc, transactionalwrapper.cc).  PackageKit is a process of   *)
(* its own; what a command then does is left to the other modules.         *)
(***************************************************************************)
EXTENDS Integers, SequencesExt

CONSTANTS
  Lines,       \* commands: records [cmd, flags]
  Scenarios    \* the starts: records [given, lines, env]

\* The global options modelled; "junk" is one that zypper does not know.
Words == {"help", "version", "config", "userdata", "bad-userdata", "quiet", "verbose", "debug",
          "color", "no-color", "no-abbrev", "terse", "xmlout", "non-interactive", "reposd-dir",
          "cache-dir", "raw-cache-dir", "root", "installroot", "relative-root",
          "plus-repo", "bad-plus-repo", "junk"}

\* What zypper finds where it is started.
Environment ==
  [isRoot : BOOLEAN, transactional : {"no", "wrapper", "bare"}, mntReadOnly : BOOLEAN,
   holder : {"none", "packagekit", "other"}, readonlyHack : BOOLEAN,
   confColor : BOOLEAN, confBroken : BOOLEAN]

ASSUME StartupAssumption ==
  \A s \in Scenarios : /\ s.given \in Seq(Words) /\ s.env \in Environment
                       /\ s.lines \in Seq(Lines) /\ s.lines # <<>>

EXIT_OK == 0
ERR_BUG == 1
ERR_SYNTAX == 2
ERR_INVALID_ARGS == 3
ERR_ZYPP == 4
ERR_PRIVILEGES == 5
ZYPP_LOCKED == 7

NoChild == -2
Running == -1

QUIET == 0
NORMAL == 1
DEBUG == 3

VARIABLES
  scene,      \* the scenario of this run
  pc,         \* the step zypper is at
  todo,       \* lines not yet read; the first one is the command being processed
  conf,       \* the configuration the options are written to
  solved, batch,   \* options written or skipped; those of the pass under way
  exitCode,
  shell,      \* Zypper::runningShell
  god,        \* the zypp pointer: "none", "readonly", "locked"
  dryRun,     \* DryRunSettings
  holder,     \* who holds the zypp lock: "none", "zypper", "packagekit", "other"
  pkRunning,  \* PackageKit is on the bus
  child       \* the program run instead: NoChild, Running, or its status

vars == <<scene, pc, todo, conf, solved, batch, exitCode, shell, god, dryRun, holder, pkRunning,
          child>>
optionVars == <<conf, solved, batch>>
lockVars == <<god, holder, pkRunning>>
commandVars == <<scene, todo, shell, dryRun, child>>

line == Head(todo)
Env == scene.env
----------------------------------------------------------------------------
(* Global options.  getopt collects them; then they are written in passes: *)
(* a pass holds the options whose dependencies are solved, highest         *)
(* priority first, and std::sort leaves the order of equals open.          *)

Given == ToSet(scene.given)
Times(o) == Cardinality({i \in DOMAIN scene.given : scene.given[i] = o})

ConflictSets == {{"quiet", "verbose", "debug"}, {"color", "no-color"}, {"color", "xmlout"},
                 {"root", "installroot"}, {"relative-root", "installroot"}}
Conflicting == \E c \in ConflictSets : Cardinality(c \cap Given) > 1

\* An option that is not given still counts as solved in its pass.
Considered == Given \cup {"config", "terse", "cache-dir"}

\* Slip: everything is written in one pass.
SlipDependencies(o) == {}
Dependencies(o) ==
  CASE o \in {"color", "no-abbrev"} -> {"terse"}
    [] o = "raw-cache-dir" -> {"cache-dir"}
    [] OTHER -> {}

Priority(o) ==
  CASE o = "version" -> 4000
    [] o = "config" -> 3000
    [] o \in {"quiet", "verbose", "debug"} -> 2001
    [] o = "xmlout" -> 2000
    [] o \in {"root", "installroot", "relative-root"} -> 1000
    [] OTHER -> 0

DefaultConfig == [color |-> FALSE, verbosity |-> NORMAL, writer |-> "text", shown |-> NORMAL,
  machine |-> FALSE, noAbbrev |-> FALSE, terse |-> FALSE, nonInteractive |-> FALSE, help |-> FALSE,
  root |-> "/", reposd |-> "/", cache |-> "/", raw |-> "/", plus |-> "none"]

\* RepoManagerOptions(root) derives every path from that root.
RootOption(c, root, repoRoot) ==
  [c EXCEPT !.root = root, !.reposd = repoRoot, !.cache = repoRoot, !.raw = repoRoot]

\* setOutVerbosity tells the writer that is in use.
SetVerbosity(c, v) == [c EXCEPT !.verbosity = v, !.shown = v]

\* Slip: nothing stops the counter.
SlipCounter(v, n) == v + n
Counter(v, n) == IF v + n > DEBUG THEN DEBUG ELSE v + n

\* Config::read: a file that cannot be parsed changes nothing.
ReadFile(c) == IF Env.confBroken THEN c ELSE [c EXCEPT !.color = Env.confColor]

Effect(o, c) ==
  CASE o = "config" -> ReadFile(c)
    [] o = "help" -> [c EXCEPT !.help = TRUE]
    [] o = "quiet" -> SetVerbosity(c, QUIET)
    [] o = "verbose" -> SetVerbosity(c, Counter(c.verbosity, Times("verbose")))
    [] o = "debug" -> SetVerbosity(c, DEBUG)
    [] o = "color" -> [c EXCEPT !.color = TRUE]
    [] o = "no-color" -> [c EXCEPT !.color = FALSE]
    [] o = "no-abbrev" -> [c EXCEPT !.noAbbrev = TRUE]
    [] o = "terse" -> [c EXCEPT !.machine = TRUE, !.noAbbrev = TRUE, !.terse = TRUE, !.color = FALSE]
    [] o = "xmlout" -> [c EXCEPT !.color = FALSE, !.writer = "xml", !.shown = c.verbosity,
                                 !.machine = TRUE, !.noAbbrev = TRUE]
    [] o = "non-interactive" -> [c EXCEPT !.nonInteractive = TRUE]
    [] o = "reposd-dir" -> [c EXCEPT !.reposd = "dir"]
    [] o = "cache-dir" -> [c EXCEPT !.cache = "dir", !.raw = "dir"]
    [] o = "raw-cache-dir" -> [c EXCEPT !.raw = "rawdir"]
    [] o = "root" -> RootOption(c, "/mnt", "/mnt")
    [] o = "installroot" -> RootOption(c, "/mnt", "/")
    [] o = "plus-repo" -> [c EXCEPT !.plus = IF @ = "none" THEN "valid" ELSE @]
    [] o = "bad-plus-repo" -> [c EXCEPT !.plus = "invalid"]
    [] OTHER -> c

\* What leaves Zypper::main: the code is set, nothing more is run.
Finish(code) == pc' = "done" /\ exitCode' = code

ParseGlobalOptions ==
  /\ pc = "parse"
  /\ IF "junk" \in Given \/ Conflicting
       THEN Finish(ERR_SYNTAX) ELSE pc' = "write" /\ UNCHANGED exitCode
  /\ UNCHANGED <<optionVars, lockVars, commandVars>>

NextPass ==
  /\ pc = "write" /\ batch = {} /\ solved # Considered
  /\ batch' = {o \in Considered \ solved : Dependencies(o) \subseteq solved}
  /\ UNCHANGED <<pc, exitCode, conf, solved, lockVars, commandVars>>

\* One option of the pass; an option that is not given is only marked as
\* solved, except that the default file is read when --config is not given.
WriteOption ==
  /\ pc = "write"
  /\ \E o \in batch :
       /\ \A p \in batch : Priority(o) >= Priority(p)
       /\ batch' = batch \ {o} /\ solved' = solved \cup {o}
       /\ conf' = IF o \in Given \cup {"config"} THEN Effect(o, conf) ELSE conf
       /\ CASE o \in Given /\ o = "version" -> Finish(exitCode)
            [] o = "bad-userdata" -> Finish(ERR_INVALID_ARGS)
            [] o = "relative-root" -> Finish(ERR_SYNTAX)
            [] OTHER -> UNCHANGED <<pc, exitCode>>
  /\ UNCHANGED <<lockVars, commandVars>>

AllWritten ==
  /\ pc = "write" /\ batch = {} /\ solved = Considered
  /\ pc' = "command"
  /\ UNCHANGED <<exitCode, optionVars, lockVars, commandVars>>
----------------------------------------------------------------------------
(* doCommand up to the lock.                                               *)

\* Which command it is; --help turns any command into help.
Command == IF conf.help \/ (line.cmd = "nothing" /\ ~shell) THEN "help" ELSE line.cmd

Subcommand == {"mysub", "subcommand"}
Unlocked == {"ps"} \cup Subcommand
ReadOnly == {"repos", "services", "help", "versioncmp", "targetos"}
WantsRoot == {"install", "addlock", "addrepo"}
WantsWritableRoot == {"install"}
IgnoresPlusRepo == {"addrepo", "refresh", "clean"}

\* In the shell the prompt comes back, otherwise zypper ends with this code.
Back(code) == /\ exitCode' = code
              /\ pc' = IF shell THEN "prompt" ELSE "done"

LookUp ==
  /\ pc = "command"
  /\ \/ Command \in {"unknown", "nothing"} /\ Back(ERR_SYNTAX) /\ UNCHANGED conf
     \/ /\ Command \notin {"unknown", "nothing"} /\ conf.plus = "invalid" /\ Command \notin IgnoresPlusRepo
        /\ Back(ERR_INVALID_ARGS) /\ UNCHANGED conf
     \/ /\ Command \notin {"unknown", "nothing"}
        /\ conf.plus # "invalid" \/ Command \in IgnoresPlusRepo
        /\ pc' = "options" /\ conf' = [conf EXCEPT !.plus = "none"] /\ UNCHANGED exitCode
  /\ UNCHANGED <<solved, batch, lockVars, commandVars>>

\* --help leaves the arguments to the help command; subcommands read their own.
Flags == IF Command # line.cmd \/ Command \in Subcommand THEN {} ELSE line.flags

\* reset() of the command, which also resets all global settings.
\* Slip: a setting stays for the next command of the shell.
SlipResetAndSet == dryRun' = (dryRun \/ "dry-run" \in Flags)
ResetAndSet == dryRun' = ("dry-run" \in Flags)

ParseCommandOptions ==
  /\ pc = "options"
  /\ IF "junk" \in Flags
       THEN Back(ERR_SYNTAX) /\ dryRun' = FALSE /\ UNCHANGED conf
       ELSE /\ ResetAndSet
            /\ conf' = [conf EXCEPT !.nonInteractive = @ \/ "no-confirm" \in Flags]
            /\ pc' = "lock" /\ UNCHANGED exitCode
  /\ UNCHANGED <<scene, todo, shell, child, solved, batch, lockVars>>
----------------------------------------------------------------------------
(* assertZYppPtrGod.                                                       *)

WithoutLock == Command \in Unlocked
ReadOnlyHack == Env.readonlyHack \/ Command \in ReadOnly

AssertZYppPtrGod ==
  /\ pc = "lock"
  /\ \/ /\ WithoutLock \/ god # "none"
        /\ pc' = "check" /\ UNCHANGED <<exitCode, god, holder>>
     \/ /\ ~WithoutLock /\ god = "none" /\ ReadOnlyHack
        /\ god' = "readonly" /\ pc' = "check" /\ UNCHANGED <<exitCode, holder>>
     \/ /\ ~WithoutLock /\ god = "none" /\ ~ReadOnlyHack /\ holder = "none"
        /\ \/ god' = "locked" /\ holder' = "zypper" /\ pc' = "check" /\ UNCHANGED exitCode
           \/ Back(ERR_ZYPP) /\ UNCHANGED <<god, holder>>
     \/ /\ ~WithoutLock /\ god = "none" /\ ~ReadOnlyHack /\ holder = "packagekit"
        /\ pc' = "ask" /\ UNCHANGED <<exitCode, god, holder>>
     \/ /\ ~WithoutLock /\ god = "none" /\ ~ReadOnlyHack /\ holder = "other"
        /\ Back(ZYPP_LOCKED) /\ UNCHANGED <<god, holder>>
  /\ UNCHANGED <<optionVars, commandVars, pkRunning>>

\* "Ask PackageKit to quit?" and "Try again?": without a user the default.
\* Slip: the default is to ask on.
SlipQuitDefault == TRUE
QuitDefault == FALSE

Proceed(yes) == IF yes THEN pc' = "quit" /\ UNCHANGED exitCode ELSE Back(ZYPP_LOCKED)

PromptUnattended ==
  /\ pc = "ask" /\ conf.nonInteractive /\ Proceed(QuitDefault)
  /\ UNCHANGED <<optionVars, lockVars, commandVars>>

UserAnswers ==
  /\ pc = "ask" /\ ~conf.nonInteractive
  /\ \E yes \in BOOLEAN : Proceed(yes)
  /\ UNCHANGED <<optionVars, lockVars, commandVars>>

SuggestQuit ==
  /\ pc = "quit" /\ pc' = "wait"
  /\ UNCHANGED <<exitCode, optionVars, commandVars, lockVars>>

\* After two seconds: PackageKit is still on the bus, or not.
LookAgain ==
  /\ pc = "wait"
  /\ pc' = IF pkRunning THEN "ask" ELSE "relock"
  /\ UNCHANGED <<exitCode, optionVars, lockVars, commandVars>>

LockAgain ==
  /\ pc = "relock"
  /\ IF holder = "none" THEN /\ holder' = "zypper" /\ god' = "locked"
                             /\ pc' = "check" /\ UNCHANGED exitCode
                        ELSE Back(ZYPP_LOCKED) /\ UNCHANGED <<holder, god>>
  /\ UNCHANGED <<optionVars, commandVars, pkRunning>>

\* The other processes: PackageKit may finish or quit, another one may come.
PackageKitReleases ==
  /\ holder = "packagekit" /\ holder' = "none"
  /\ UNCHANGED <<pc, exitCode, optionVars, commandVars, god, pkRunning>>

PackageKitQuits ==
  /\ pkRunning /\ pkRunning' = FALSE
  /\ holder' = IF holder = "packagekit" THEN "none" ELSE holder
  /\ UNCHANGED <<pc, exitCode, optionVars, commandVars, god>>

OtherLocks ==
  /\ holder = "none" /\ pc \in {"wait", "relock"} /\ holder' = "other"
  /\ UNCHANGED <<pc, exitCode, optionVars, commandVars, god, pkRunning>>
----------------------------------------------------------------------------
(* run() of the command.                                                   *)

ChangedRoot == conf.root # "/"
HelpRequested == "help" \in Flags
AtWork == IF HelpRequested THEN "help" ELSE Command

NotRoot == AtWork \in WantsRoot /\ ~Env.isRoot /\ ~ChangedRoot
RootReadOnly == IF ChangedRoot THEN Env.mntReadOnly ELSE Env.transactional # "no"
Unwritable == AtWork \in WantsWritableRoot /\ ~dryRun /\ RootReadOnly
\* transactionalwrapper.cc: only on "/", if installed, not disabled, not in the shell.
MayWrap == ~ChangedRoot /\ Env.transactional = "wrapper" /\ ~shell

CheckConditions ==
  /\ pc = "check"
  /\ \/ NotRoot /\ Back(ERR_PRIVILEGES)
     \/ ~NotRoot /\ Unwritable /\ ~MayWrap /\ Back(ERR_PRIVILEGES)
     \/ ~NotRoot /\ Unwritable /\ MayWrap /\ pc' = "handover" /\ UNCHANGED exitCode
     \/ ~NotRoot /\ ~Unwritable /\ pc' = "execute" /\ UNCHANGED exitCode
  /\ UNCHANGED <<optionVars, lockVars, commandVars>>

\* The work of a command: any code; an exception counts as a bug.
Execute ==
  /\ pc = "execute" /\ AtWork \notin {"shell", "quit"} \cup Subcommand
  /\ \E code \in {EXIT_OK, ERR_ZYPP, ERR_BUG} : Back(code)
  /\ UNCHANGED <<optionVars, lockVars, commandVars>>

EnterShell ==
  /\ pc = "execute" /\ AtWork = "shell"
  /\ IF shell THEN pc' = "prompt" /\ UNCHANGED shell ELSE pc' = "prompt" /\ shell' = TRUE
  /\ UNCHANGED <<exitCode, scene, todo, dryRun, child, optionVars, lockVars>>

\* shellCleanup, then the next line; at the end of the input the shell ends.
ReadLine ==
  /\ pc = "prompt" /\ Len(todo) > 1
  /\ todo' = Tail(todo) /\ exitCode' = EXIT_OK /\ pc' = "command"
  /\ UNCHANGED <<scene, shell, dryRun, child, optionVars, lockVars>>

EndOfInput ==
  /\ pc = "prompt" /\ Len(todo) = 1
  /\ Finish(EXIT_OK) /\ shell' = FALSE
  /\ UNCHANGED <<scene, todo, dryRun, child, optionVars, lockVars>>

\* quit outside of a shell only warns.
Quit ==
  /\ pc = "execute" /\ AtWork = "quit"
  /\ Finish(exitCode) /\ shell' = FALSE
  /\ UNCHANGED <<scene, todo, dryRun, child, optionVars, lockVars>>

RunSubcommand ==
  /\ pc = "execute" /\ AtWork \in Subcommand
  /\ \/ shell /\ Back(ERR_INVALID_ARGS)
     \/ ~shell /\ AtWork = "subcommand" /\ Back(EXIT_OK)
     \/ ~shell /\ AtWork = "mysub" /\ scene.given # <<>> /\ Back(ERR_INVALID_ARGS)
     \/ ~shell /\ AtWork = "mysub" /\ scene.given = <<>> /\ pc' = "handover" /\ UNCHANGED exitCode
  /\ UNCHANGED <<optionVars, lockVars, commandVars>>

\* cleanupForSubcommand drops the zypp pointer and with it the lock.
\* Slip: the lock is kept while the program runs.
SlipCleanupForSubcommand == UNCHANGED <<god, holder>>
CleanupForSubcommand ==
  /\ god' = "none"
  /\ holder' = IF god = "locked" THEN "none" ELSE holder

\* doRunAsSubcommand: fork and wait; 127 when fork fails.
HandOver ==
  /\ pc = "handover"
  /\ CleanupForSubcommand
  /\ \/ child' = Running /\ pc' = "child" /\ UNCHANGED exitCode
     \/ UNCHANGED child /\ Finish(127)
  /\ UNCHANGED <<scene, todo, shell, dryRun, optionVars, pkRunning>>

\* The status: success, an own code, not executable (128), killed by SIGTERM.
ChildEnds ==
  /\ pc = "child"
  /\ \E status \in {0, 104, 128, 143} :
       child' = status /\ Finish(status)
  /\ UNCHANGED <<scene, todo, shell, dryRun, optionVars, lockVars>>
----------------------------------------------------------------------------
Init ==
  /\ scene \in Scenarios
  /\ pc = "parse" /\ todo = scene.lines /\ exitCode = EXIT_OK
  /\ conf = DefaultConfig /\ solved = {} /\ batch = {}
  /\ shell = FALSE /\ dryRun = FALSE /\ child = NoChild
  /\ god = "none" /\ holder = scene.env.holder
  /\ pkRunning = (scene.env.holder = "packagekit")

Steps ==
  \/ ParseGlobalOptions \/ NextPass \/ WriteOption \/ AllWritten
  \/ LookUp \/ ParseCommandOptions
  \/ AssertZYppPtrGod \/ PromptUnattended \/ SuggestQuit \/ LookAgain \/ LockAgain
  \/ CheckConditions \/ Execute \/ EnterShell \/ Quit \/ RunSubcommand \/ HandOver

Next == \/ Steps \/ UserAnswers \/ ReadLine \/ EndOfInput \/ ChildEnds
        \/ PackageKitReleases \/ PackageKitQuits \/ OtherLocks

\* zypper goes on by itself; users, PackageKit and other programs need not.
Spec == Init /\ [][Next]_vars /\ WF_vars(Steps)
----------------------------------------------------------------------------
(* Types and properties.                                                   *)

ConfigType == [color : BOOLEAN, verbosity : QUIET .. DEBUG, writer : {"text", "xml"},
  shown : QUIET .. DEBUG, machine : BOOLEAN, noAbbrev : BOOLEAN, terse : BOOLEAN,
  nonInteractive : BOOLEAN, help : BOOLEAN, root : {"/", "/mnt"}, reposd : {"/", "/mnt", "dir"},
  cache : {"/", "/mnt", "dir"}, raw : {"/", "/mnt", "dir", "rawdir"},
  plus : {"none", "valid", "invalid"}]

\* Every variable has a value the program can give it (all of Startup).
TypeOK ==
  /\ conf \in ConfigType
  /\ pc \in {"parse", "write", "command", "options", "lock", "ask", "quit", "wait", "relock",
             "check", "execute", "handover", "child", "prompt", "done"}
  /\ \E k \in DOMAIN scene.lines : todo = SubSeq(scene.lines, k, Len(scene.lines))
  /\ batch \subseteq Considered /\ solved \subseteq Considered
  /\ exitCode \in Nat /\ child \in {NoChild, Running} \cup Nat
  /\ shell \in BOOLEAN /\ dryRun \in BOOLEAN /\ pkRunning \in BOOLEAN
  /\ god \in {"none", "readonly", "locked"}
  /\ holder \in {"none", "zypper", "packagekit", "other"}

Verbosity ==
  IF "quiet" \in Given THEN QUIET
  ELSE IF "debug" \in Given \/ Times("verbose") > 1 THEN DEBUG
  ELSE NORMAL + Times("verbose")

RepoRoot == IF "root" \in Given THEN "/mnt" ELSE "/"
CacheDir == IF "cache-dir" \in Given THEN "dir" ELSE RepoRoot

\* What the options say, whatever their order on the command line.
Meaning == [
  color |-> \/ "color" \in Given
            \/ /\ Given \cap {"no-color", "terse", "xmlout"} = {}
               /\ Env.confColor /\ ~Env.confBroken,
  verbosity |-> Verbosity, shown |-> Verbosity,
  writer |-> IF "xmlout" \in Given THEN "xml" ELSE "text",
  machine |-> Given \cap {"terse", "xmlout"} # {},
  noAbbrev |-> Given \cap {"terse", "xmlout", "no-abbrev"} # {},
  terse |-> "terse" \in Given,
  nonInteractive |-> "non-interactive" \in Given,
  help |-> "help" \in Given,
  root |-> IF Given \cap {"root", "installroot"} = {} THEN "/" ELSE "/mnt",
  reposd |-> IF "reposd-dir" \in Given THEN "dir" ELSE RepoRoot,
  cache |-> CacheDir,
  raw |-> IF "raw-cache-dir" \in Given THEN "rawdir" ELSE CacheDir,
  plus |-> IF "bad-plus-repo" \in Given THEN "invalid"
           ELSE IF "plus-repo" \in Given THEN "valid" ELSE "none"]

\* When the command is looked up the configuration is what the options mean:
\* a special option wins over a general one, the command line over the file,
\* and the writer has the final verbosity, in every order in which parseCLI
\* may write them (zyppflags.cc, Config::cliOptions).
OptionsMean == pc = "command" /\ ~shell => conf = Meaning

\* The work of a command starts with the zypp lock, unless the command does
\* without; as root, if it wants that; and on a read-only root only if this
\* very command is a dry run (doCommand, conditions.cc, GlobalSettings::reset).
ExecutesGuarded ==
  pc = "execute" =>
    /\ WithoutLock \/ holder = "zypper" \/ ReadOnlyHack
    /\ AtWork \in WantsRoot => Env.isRoot \/ ChangedRoot
    /\ AtWork \in WantsWritableRoot => ~RootReadOnly \/ "dry-run" \in line.flags

\* While another program does the work zypper does not hold the lock that
\* program may need, and its status becomes zypper's (doRunAsSubcommand).
ChildHandOver ==
  /\ pc = "child" => god = "none" /\ holder # "zypper"
  /\ pc = "done" /\ child >= 0 => exitCode = child

Unattended ==
  /\ scene.lines[1].cmd # "shell"
  /\ "non-interactive" \in Given \/ "no-confirm" \in scene.lines[1].flags

\* A command that must not ask anything ends or hands over whatever
\* PackageKit does: it waits neither for a user, also when -y is an option of
\* the command (bsc#1223766), nor for ever for the lock (assertZYppPtrGod).
UnattendedEnds == pc = "parse" /\ Unattended ~> pc \in {"done", "child"}
=============================================================================
