--------------------------- MODULE SolveAndCommit ---------------------------
(***************************************************************************)
(* The transaction of a zypper command (solve-commit.cc): call the solver, *)
(* put its problems to the user or resolve them automatically, show the    *)
(* summary, ask for consent and for the licenses, commit, and turn the     *)
(* result into an exit code.  Commands follow one another as they do in    *)
(* the zypper shell, with what Zypper::shellCleanup keeps and drops; a     *)
(* single command is the first one of the sequence.                        *)
(*                                                                         *)
(* libzypp's solver and commit are nondeterministic: a request has a set   *)
(* of troubles the solver complains about until they are resolved, and any *)
(* of Solutions may come out; a commit may do all, some or none of it.     *)
(***************************************************************************)
EXTENDS Naturals, FiniteSets

CONSTANTS
  CommandLines,    \* the commands that may be typed, see CommandLine
  Solutions,       \* what the solver may come up with, see Solution
  ForceCommands,   \* zypper.conf: solver.forceResolutionCommands
  Patches,         \* patches that may turn out not to be applicable
  Things,          \* packages a command line may mark
  Sources,         \* source packages
  NoPlan,          \* no solution in the pool
  MaxCommands      \* bound: commands run one after the other

Commands == {"install", "remove", "removeptf", "update", "patch", "dist-upgrade", "verify",
             "source-install", "purge-kernels"}

Troubles == Patches \cup {"conflict"}

TriBool == {"unset", "yes", "no"}

\* force: --[no-]force-resolution; clean: --[no-]clean-deps; agree:
\* --auto-agree-with-licenses; debug: --debug-solver; rules: --skip-interactive;
\* skipBad: --skip-not-applicable-patches; missing: an argument matches nothing.
CommandLine ==
  [cmd : Commands, force : TriBool, clean : TriBool,
   dry : {"no", "dry-run", "download-only"}, agree : BOOLEAN, debug : BOOLEAN,
   rules : BOOLEAN, skipBad : BOOLEAN, missing : BOOLEAN,
   marks : SUBSET Things, srcs : SUBSET Sources]

\* Packages to get, packages to remove, the most demanding patch, a license to
\* accept, a package that asks for a reboot.
Solution ==
  [gets : BOOLEAN, removes : BOOLEAN, patch : {"none", "restart", "reboot"},
   license : BOOLEAN, kernel : BOOLEAN]

Plan == [sol : Solutions, marks : SUBSET Things, forced : BOOLEAN]

ASSUME SolveAndCommitAssumption ==
  /\ CommandLines \subseteq CommandLine
  /\ \A l \in CommandLines : l.skipBad => l.cmd = "patch"
  /\ Solutions \subseteq Solution
  /\ ForceCommands \subseteq Commands
  /\ "conflict" \notin Patches
  /\ IsFiniteSet(Patches)
  /\ NoPlan \notin Plan
  /\ MaxCommands \in Nat

EXIT_OK == 0
EXIT_ERR_ZYPP == 4
EXIT_ERR_PRIVILEGES == 5
EXIT_ERR_COMMIT == 8
EXIT_INF_REBOOT_NEEDED == 102
EXIT_INF_RESTART_NEEDED == 103
EXIT_INF_CAP_NOT_FOUND == 104
EXIT_ON_SIGNAL == 105
NotYet == 256

VARIABLES
  nonInteractive,  \* --non-interactive
  root,            \* geteuid() = 0 or --root
  verbose,         \* -vv: Out::DEBUG
  pc,              \* where solve_and_commit is
  line,            \* the current command line, its SolverSettings included
  exitCode,        \* Application::exitCode
  threw,           \* the command ends with an exception, not with a return
  forceResolution, \* RuntimeData::force_resolution
  srcpkgs,         \* RuntimeData::srcpkgs_to_install
  flags,           \* resolver flags: forced resolution, clean deps on remove
  marks,           \* user selections in the pool
  trouble,         \* what the solver complains about unless forced
  left,            \* problems show_problems has not asked about yet
  several,         \* it started with more than one problem
  todo,            \* its pendingSolutions
  hints,           \* SolveAndCommitPolicy::summaryHints
  plan,            \* the transaction in the pool
  summary,         \* the summary the user is asked about: plan, hints, sources
  marker,          \* /run/reboot-needed exists
  watch,           \* the PatchRebootRulesWatchdog is armed
  srcsLeft         \* source packages install_src_pkgs still has to do

\* History variables, read by properties only (cmds also bounds).
VARIABLES
  cmds,            \* commands run so far
  reported,        \* exit code of the last command
  outcome,         \* what became of the transaction
  executed,        \* the plan that was committed
  skipped,         \* patches skipped automatically
  srcFailed,       \* a source package could not be installed
  markerBefore,    \* marker when the command started
  uncleaned        \* marks earlier commands may have left in the pool

options == <<nonInteractive, root, verbose>>
runtime == <<forceResolution, srcpkgs, flags, marks>>
asking  == <<left, several, todo>>
history == <<cmds, reported, outcome, executed, skipped, srcFailed, markerBefore, uncleaned>>
vars == <<options, pc, line, exitCode, threw, runtime, trouble, asking, hints, plan,
          summary, marker, watch, srcsLeft, history>>

NoSummary == [plan |-> NoPlan, hints |-> {}, srcs |-> {}]

\* Of these commands a declined transaction leaves nothing behind, see OnlyOwnMarks.
Declined == {"install", "remove", "update", "patch"}

\* dryRunEtc
DryRunEtc == line.dry # "no"

-----------------------------------------------------------------------------
\* Slips in the code below are named ...Slip: each is the definition that follows
\* it with one plausible mistake, and some property below must notice it.

(* The command starts: options are reset and parsed, the pool is prepared. *)

\* A command line with nothing set; the state before the first command.
NoLine ==
  [cmd |-> "verify", force |-> "unset", clean |-> "unset", dry |-> "no",
   agree |-> FALSE, debug |-> FALSE, rules |-> FALSE, skipBad |-> FALSE,
   missing |-> FALSE, marks |-> {}, srcs |-> {}]

\* ZypperBaseCommand::reset and parseArguments, the command's execute() up to
\* solve_and_commit.  "remove" goes on if an argument is unknown, the others only
\* interactively.
StartCommand(l) ==
  /\ pc = "idle"
  /\ cmds < MaxCommands
  /\ cmds' = cmds + 1
  /\ line' = l
  /\ marks' = marks \cup l.marks
  /\ srcpkgs' = srcpkgs \cup l.srcs
  /\ forceResolution' = IF l.cmd = "purge-kernels" THEN "yes" ELSE forceResolution
  /\ exitCode' = IF l.missing THEN EXIT_INF_CAP_NOT_FOUND ELSE EXIT_OK
  /\ threw' = (l.missing /\ nonInteractive /\ l.cmd # "remove")
  /\ pc' = IF threw' THEN "finish" ELSE "solve"
  /\ trouble' \in SUBSET (IF l.cmd = "patch" THEN Troubles ELSE {"conflict"})
  /\ hints' = {}
  /\ plan' = NoPlan
  /\ summary' = NoSummary
  /\ reported' = NotYet
  /\ outcome' = "nothing"
  /\ executed' = NoPlan
  /\ skipped' = {}
  /\ srcFailed' = FALSE
  /\ markerBefore' = marker
  /\ uncleaned' = IF outcome = "complete" \/ line.cmd \in Declined THEN {}
                  ELSE uncleaned \cup line.marks
  /\ UNCHANGED <<options, flags, asking, marker, watch, srcsLeft>>

-----------------------------------------------------------------------------
(* The solver *)

\* set_force_resolution: the command line, overruled by zypper.conf; "remove"
\* is forced by default if there is someone to see the summary.
ForceResolution ==
  LET asked == IF line.force # "unset" THEN line.force ELSE forceResolution
  IN IF line.cmd \in ForceCommands
        \/ (asked = "unset" /\ line.cmd = "remove" /\ ~nonInteractive)
     THEN "yes"
     ELSE IF asked = "unset" THEN "no" ELSE asked

\* set_clean_deps leaves the flag alone unless the option was given.
CleanDeps ==
  IF line.cmd = "remove" /\ line.clean # "unset" THEN line.clean = "yes" ELSE flags.clean

\* set_solver_flags: the setting is saved in the runtime data.
SetSolverFlags ==
  /\ forceResolution' = ForceResolution
  /\ flags' = [force |-> ForceResolution = "yes", clean |-> CleanDeps]

\* "update" without arguments calls doUpdate(), which never fails.
UpdateOnly == line.cmd = "update" /\ line.marks = {}

SolverSucceeds(s) ==
  /\ pc = "solve"
  /\ SetSolverFlags
  /\ trouble = {} \/ flags'.force \/ UpdateOnly
  /\ plan' = [sol |-> s, marks |-> marks, forced |-> flags'.force]
  /\ pc' = IF line.debug THEN "testcase" ELSE "summary"
  /\ UNCHANGED <<options, line, exitCode, threw, srcpkgs, marks, trouble, asking, hints,
                 summary, marker, watch, srcsLeft, history>>

\* It fails with some of the troubles, and stops there if only a test case of
\* the problem is wanted.
SolverFails(problems) ==
  /\ pc = "solve"
  /\ SetSolverFlags
  /\ ~flags'.force
  /\ ~UpdateOnly
  /\ problems # {}
  /\ problems \subseteq trouble
  /\ pc' = IF line.debug THEN "testcase" ELSE "problems"
  /\ left' = problems
  /\ several' = (Cardinality(problems) > 1)
  /\ todo' = {}
  /\ UNCHANGED <<options, line, exitCode, threw, srcpkgs, marks, trouble, hints, plan,
                 summary, marker, watch, srcsLeft, history>>

\* --debug-solver: make_solver_test_case instead of a transaction.
SolverTestCase ==
  /\ pc = "testcase"
  /\ \/ UNCHANGED <<exitCode, outcome>>
     \/ exitCode' = EXIT_ERR_ZYPP /\ outcome' = "failed"
  /\ pc' = "finish"
  /\ UNCHANGED <<options, line, threw, runtime, trouble, asking, hints, plan, summary,
                 marker, watch, srcsLeft, cmds, reported, executed, skipped, srcFailed,
                 markerBefore, uncleaned>>

-----------------------------------------------------------------------------
(* show_problems *)

AnySolutionSlip == IF line.skipBad THEN left ELSE {}

\* The problems that have a solution which only skips patches.
AutoSkips == IF line.skipBad THEN left \cap Patches ELSE {}

ForgetsToApplySlip ==
  /\ pc = "problems"
  /\ AutoSkips # {}
  /\ hints' = hints \cup AutoSkips
  /\ skipped' = skipped \cup AutoSkips
  /\ pc' = "solve"
  /\ UNCHANGED <<options, line, exitCode, threw, runtime, trouble, asking, plan, summary,
                 marker, watch, srcsLeft, cmds, reported, outcome, executed, srcFailed,
                 markerBefore, uncleaned>>

\* --skip-not-applicable-patches: solutions that only skip patches are applied
\* and remembered for the summary; nobody is asked before the solver ran again.
AutoResolve ==
  /\ pc = "problems"
  /\ AutoSkips # {}
  /\ trouble' = trouble \ AutoSkips
  /\ hints' = hints \cup AutoSkips
  /\ skipped' = skipped \cup AutoSkips
  /\ pc' = "solve"
  /\ UNCHANGED <<options, line, exitCode, threw, runtime, asking, plan, summary, marker,
                 watch, srcsLeft, cmds, reported, outcome, executed, srcFailed,
                 markerBefore, uncleaned>>

\* The next problem is asked about, or the solutions are applied.
GoOn(rest, chosen) ==
  /\ left' = rest
  /\ todo' = chosen
  /\ IF rest = {} THEN pc' = "solve" /\ trouble' = trouble \ chosen
                  ELSE UNCHANGED <<pc, trouble>>
  /\ UNCHANGED <<options, line, exitCode, threw, runtime, several, hints, plan, summary,
                 marker, watch, srcsLeft, history>>

AskAboutProblems == pc = "problems" /\ AutoSkips = {} /\ ~nonInteractive

ChooseSolution(p) == AskAboutProblems /\ p \in left /\ GoOn(left \ {p}, todo \cup {p})

SkipProblem(p) == AskAboutProblems /\ several /\ p \in left /\ GoOn(left \ {p}, todo)

\* "Retry solving immediately" with the solutions chosen so far.
RetryNow == AskAboutProblems /\ several /\ GoOn({}, todo)

\* The command is over before anything was committed.
GiveUp(code, exception) ==
  /\ exitCode' = code
  /\ threw' = exception
  /\ outcome' = "refused"
  /\ pc' = "finish"
  /\ UNCHANGED <<options, line, runtime, trouble, asking, hints, plan, summary, marker,
                 watch, srcsLeft, cmds, reported, executed, skipped, srcFailed,
                 markerBefore, uncleaned>>

SilentCancelSlip == pc = "problems" /\ AutoSkips = {} /\ GiveUp(exitCode, FALSE)

\* The default answer (bnc#242736: it is an error), and the only one in non-interactive mode.
CancelProblems == pc = "problems" /\ AutoSkips = {} /\ GiveUp(EXIT_ERR_ZYPP, FALSE)

-----------------------------------------------------------------------------
(* Summary, consent and licenses *)

\* packagesToGetAndInstall() || packagesToRemove() || pending source packages
SomethingToDo == plan.sol.gets \/ plan.sol.removes \/ srcpkgs # {}

NothingToDo ==
  /\ pc = "summary"
  /\ ~SomethingToDo
  /\ hints' = {}
  /\ pc' = "finish"
  /\ UNCHANGED <<options, line, exitCode, threw, runtime, trouble, asking, plan, summary,
                 marker, watch, srcsLeft, history>>

VerifyNeedsRoot ==
  /\ pc = "summary"
  /\ SomethingToDo
  /\ line.cmd = "verify"
  /\ ~root
  /\ GiveUp(EXIT_ERR_PRIVILEGES, FALSE)

HintsLostSlip ==
  /\ pc = "summary"
  /\ SomethingToDo
  /\ line.cmd = "verify" => root
  /\ summary' = [plan |-> plan, hints |-> {}, srcs |-> srcpkgs]
  /\ hints' = {}
  /\ pc' = "prompt"
  /\ UNCHANGED <<options, line, exitCode, threw, runtime, trouble, asking, plan, marker,
                 watch, srcsLeft, history>>

\* The summary takes the hints over: std::move(policy.summaryHints).
ShowSummary ==
  /\ pc = "summary"
  /\ SomethingToDo
  /\ line.cmd = "verify" => root
  /\ summary' = [plan |-> plan, hints |-> hints, srcs |-> srcpkgs]
  /\ hints' = {}
  /\ pc' = "prompt"
  /\ UNCHANGED <<options, line, exitCode, threw, runtime, trouble, asking, plan, marker,
                 watch, srcsLeft, history>>

\* show_p_option: is it worth while to see the problems that were forced away?
ShowP ==
  \/ plan.sol.removes /\ line.cmd \in {"install", "update"}
  \/ (plan.sol.gets \/ srcpkgs # {}) /\ line.cmd = "remove"

\* Yes, also the default in non-interactive mode.
AnswerYes ==
  /\ pc = "prompt"
  /\ pc' = "license"
  /\ UNCHANGED <<options, line, exitCode, threw, runtime, trouble, asking, hints, plan,
                 summary, marker, watch, srcsLeft, history>>

AnswerNo == pc = "prompt" /\ ~nonInteractive /\ GiveUp(EXIT_ERR_ZYPP, FALSE)

\* "Restart solver in no-force-resolution mode in order to show dependency
\* problems."
AnswerP ==
  /\ pc = "prompt"
  /\ ~nonInteractive
  /\ forceResolution = "yes" /\ ShowP
  /\ forceResolution' = "no"
  /\ plan' = NoPlan
  /\ summary' = NoSummary
  /\ pc' = "solve"
  /\ UNCHANGED <<options, line, exitCode, threw, srcpkgs, flags, marks, trouble, asking,
                 hints, marker, watch, srcsLeft, history>>

\* get_prompt_reply cannot read from the terminal.
PromptFails ==
  /\ pc \in {"problems", "prompt"}
  /\ pc = "problems" => AutoSkips = {}
  /\ ~nonInteractive
  /\ GiveUp(EXIT_ERR_ZYPP, TRUE)

UnattendedLicenseSlip ==
  /\ pc = "license"
  /\ pc' = "commit"
  /\ UNCHANGED <<options, line, exitCode, threw, runtime, trouble, asking, hints, plan,
                 summary, marker, watch, srcsLeft, history>>

\* confirm_licenses: nothing to confirm, --auto-agree-with-licenses, or the user
\* agrees; the default is not to.
LicensesAgreed ==
  /\ pc = "license"
  /\ plan.sol.license /\ ~line.agree => ~nonInteractive
  /\ pc' = "commit"
  /\ UNCHANGED <<options, line, exitCode, threw, runtime, trouble, asking, hints, plan,
                 summary, marker, watch, srcsLeft, history>>

LicensesRefused ==
  /\ pc = "license"
  /\ plan.sol.license
  /\ ~line.agree
  /\ \/ GiveUp(EXIT_ERR_ZYPP, FALSE)
     \/ ~nonInteractive /\ GiveUp(EXIT_ERR_ZYPP, TRUE)

-----------------------------------------------------------------------------
(* Commit *)

NeedMachineReboot == summary.plan.sol.patch = "reboot"

\* Summary::PATCH_REBOOT_RULES: asked for by patch --skip-interactive, and a part of
\* SHOW_ALL, which -vv sets for every command.
PatchRebootRules == line.rules \/ verbose

LateWatchSlip ==
  /\ pc = "commit"
  /\ watch' = PatchRebootRules
  /\ pc' = "committing"
  /\ UNCHANGED <<options, line, exitCode, threw, runtime, trouble, asking, hints, plan,
                 summary, marker, srcsLeft, history>>

\* entered_commit is set and the PatchRebootRulesWatchdog is constructed.
EnterCommit ==
  /\ pc = "commit"
  /\ watch' = (PatchRebootRules /\ ~NeedMachineReboot /\ ~marker)
  /\ pc' = "committing"
  /\ UNCHANGED <<options, line, exitCode, threw, runtime, trouble, asking, hints, plan,
                 summary, marker, srcsLeft, history>>

\* libzypp marks a reboot for the packages it installed; the destructor of the
\* watchdog takes the mark away again.
CommitMarks(done) ==
  LET marked == marker \/ (done /\ ~DryRunEtc /\ plan.sol.kernel)
  IN marker' = (marked /\ ~watch)

\* God->commit returns: everything done, or tested, or not.
CommitSucceeds ==
  /\ pc = "committing"
  /\ executed' = plan
  /\ outcome' = IF DryRunEtc THEN "tested" ELSE "complete"
  /\ CommitMarks(TRUE)
  /\ watch' = FALSE
  /\ marks' = IF DryRunEtc THEN marks ELSE {}
  /\ pc' = IF exitCode # EXIT_OK THEN "finish" ELSE "sources"
  /\ srcsLeft' = IF exitCode # EXIT_OK THEN {} ELSE srcpkgs
  /\ UNCHANGED <<options, line, exitCode, threw, forceResolution, srcpkgs, flags, trouble,
                 asking, hints, plan, summary, cmds, reported, skipped, srcFailed,
                 markerBefore, uncleaned>>

\* It returns with some steps failed, after (attemptToModify) or before the first
\* of them; "done" tells whether the package with the reboot mark got installed.
CommitIncomplete(attempted, done) ==
  /\ pc = "committing"
  /\ executed' = plan
  /\ outcome' = "failed"
  /\ exitCode' = IF attempted THEN EXIT_ERR_COMMIT ELSE EXIT_ERR_ZYPP
  /\ CommitMarks(attempted /\ done)
  /\ watch' = FALSE
  /\ pc' = "finish"
  /\ UNCHANGED <<options, line, threw, runtime, trouble, asking, hints, plan, summary,
                 srcsLeft, cmds, reported, skipped, srcFailed, markerBefore,
                 uncleaned>>

\* It throws, or show_update_messages does after it; all handlers of
\* solve_and_commit end the same way.
CommitThrows(done) ==
  /\ pc = "committing"
  /\ executed' = plan
  /\ outcome' = "failed"
  /\ exitCode' = EXIT_ERR_COMMIT
  /\ CommitMarks(done)
  /\ watch' = FALSE
  /\ pc' = "finish"
  /\ UNCHANGED <<options, line, threw, runtime, trouble, asking, hints, plan, summary,
                 srcsLeft, cmds, reported, skipped, srcFailed, markerBefore,
                 uncleaned>>

\* The process is stopped by a signal: exit() runs no destructors.
KilledInCommit(done) ==
  /\ pc = "committing"
  /\ executed' = plan
  /\ outcome' = "failed"
  /\ exitCode' = EXIT_ERR_COMMIT
  /\ marker' = (marker \/ (done /\ ~DryRunEtc /\ plan.sol.kernel))
  /\ pc' = "killed"
  /\ UNCHANGED <<options, line, threw, runtime, trouble, asking, hints, plan, summary,
                 watch, srcsLeft, cmds, reported, skipped, srcFailed, markerBefore,
                 uncleaned>>

-----------------------------------------------------------------------------
(* After the commit *)

OnlyLastSourceSlip(p, ok) ==
  /\ pc = "sources"
  /\ p \in srcsLeft
  /\ srcsLeft' = srcsLeft \ {p}
  /\ exitCode' = IF ok THEN EXIT_OK ELSE EXIT_ERR_ZYPP
  /\ srcFailed' = (srcFailed \/ ~ok)
  /\ UNCHANGED <<options, pc, line, threw, runtime, trouble, asking, hints, plan, summary,
                 marker, watch, cmds, reported, outcome, executed, skipped, markerBefore, uncleaned>>

\* One round of install_src_pkgs: a failure is reported and the others go on.
\* Nothing is taken out of srcpkgs_to_install.
InstallSource(p, ok) ==
  /\ pc = "sources"
  /\ p \in srcsLeft
  /\ srcsLeft' = srcsLeft \ {p}
  /\ exitCode' = IF ok THEN exitCode ELSE EXIT_ERR_ZYPP
  /\ srcFailed' = (srcFailed \/ ~ok)
  /\ UNCHANGED <<options, pc, line, threw, runtime, trouble, asking, hints, plan, summary,
                 marker, watch, cmds, reported, outcome, executed, skipped, markerBefore, uncleaned>>

MarkerForgottenSlip ==
  /\ pc = "sources"
  /\ srcsLeft = {}
  /\ exitCode' = IF NeedMachineReboot THEN EXIT_INF_REBOOT_NEEDED
                 ELSE IF summary.plan.sol.patch = "restart" THEN EXIT_INF_RESTART_NEEDED
                 ELSE exitCode
  /\ pc' = "finish"
  /\ UNCHANGED <<options, line, threw, runtime, trouble, asking, hints, plan, summary,
                 marker, watch, srcsLeft, history>>

\* The process is stopped by a signal after the commit, be it among the source packages: a
\* patch that needs a reboot has left no mark yet.
KilledAfterCommit ==
  /\ pc = "sources"
  /\ exitCode' = EXIT_ON_SIGNAL
  /\ pc' = "killed"
  /\ UNCHANGED <<options, line, threw, runtime, trouble, asking, hints, plan, summary,
                 marker, watch, srcsLeft, history>>

\* The info codes of patches; bsc#1217873: the reboot is remembered.  A dry run goes the
\* same way.
RebootOrRestart ==
  /\ pc = "sources"
  /\ srcsLeft = {}
  /\ exitCode' = IF NeedMachineReboot THEN EXIT_INF_REBOOT_NEEDED
                 ELSE IF summary.plan.sol.patch = "restart" THEN EXIT_INF_RESTART_NEEDED
                 ELSE exitCode
  /\ marker' = (marker \/ NeedMachineReboot)
  /\ pc' = "finish"
  /\ UNCHANGED <<options, line, threw, runtime, trouble, asking, hints, plan, summary,
                 watch, srcsLeft, history>>

\* What execute() returns and doCommand takes as the exit code.
ReturnedCode ==
  IF line.cmd = "purge-kernels" /\ ~threw THEN EXIT_OK ELSE exitCode

KeepsPatchMarksSlip == {"install", "remove", "update"}

\* The commands whose selections shellCleanup removes from the pool (remove_selections).
\* removeptf is not one of them, though it marks the pool as install does.  Requests to the
\* resolver (addRequire, addConflict) are never taken back: the code for it is commented
\* out.  They are among the reasons for which a solver has the troubles it has.
CleansUpMarks == {"install", "remove", "update", "patch"}

\* doCommand ends, Zypper::shellCleanup prepares for the next command.
FinishCommand ==
  /\ pc = "finish"
  /\ reported' = ReturnedCode
  /\ exitCode' = EXIT_OK
  /\ marks' = IF line.cmd \in CleansUpMarks THEN {} ELSE marks
  /\ pc' = "idle"
  /\ UNCHANGED <<options, line, threw, forceResolution, srcpkgs, flags, trouble, asking,
                 hints, plan, summary, marker, watch, srcsLeft, cmds, outcome, executed,
                 skipped, srcFailed, markerBefore, uncleaned>>

-----------------------------------------------------------------------------
Init ==
  /\ nonInteractive \in BOOLEAN
  /\ root \in BOOLEAN
  /\ verbose \in BOOLEAN
  /\ pc = "idle"
  /\ line = NoLine
  /\ exitCode = EXIT_OK
  /\ threw = FALSE
  /\ forceResolution = "unset"
  /\ srcpkgs = {}
  /\ flags \in [force : {FALSE}, clean : BOOLEAN]
  /\ marks = {}
  /\ trouble = {}
  /\ left = {}
  /\ several = FALSE
  /\ todo = {}
  /\ hints = {}
  /\ plan = NoPlan
  /\ summary = NoSummary
  /\ marker \in BOOLEAN
  /\ watch = FALSE
  /\ srcsLeft = {}
  /\ cmds = 0
  /\ reported = NotYet
  /\ outcome = "nothing"
  /\ executed = NoPlan
  /\ skipped = {}
  /\ srcFailed = FALSE
  /\ markerBefore = marker
  /\ uncleaned = {}

Solve ==
  \/ \E s \in Solutions : SolverSucceeds(s)
  \/ \E problems \in SUBSET Troubles : SolverFails(problems)
  \/ SolverTestCase

ShowProblems ==
  \/ AutoResolve
  \/ \E p \in Troubles : ChooseSolution(p) \/ SkipProblem(p)
  \/ RetryNow
  \/ CancelProblems

Confirm ==
  \/ NothingToDo
  \/ VerifyNeedsRoot
  \/ ShowSummary
  \/ AnswerYes
  \/ AnswerNo
  \/ AnswerP
  \/ PromptFails
  \/ LicensesAgreed
  \/ LicensesRefused

Commit ==
  \/ EnterCommit
  \/ CommitSucceeds
  \/ \E attempted, done \in BOOLEAN : CommitIncomplete(attempted, done)
  \/ \E done \in BOOLEAN : CommitThrows(done)
  \/ \E done \in BOOLEAN : KilledInCommit(done)
  \/ \E p \in Sources, ok \in BOOLEAN : InstallSource(p, ok)
  \/ KilledAfterCommit
  \/ RebootOrRestart
  \/ FinishCommand

\* Everything but the user typing the next command.
Work == Solve \/ ShowProblems \/ Confirm \/ Commit

Next == Work \/ \E l \in CommandLines : StartCommand(l)

Spec == Init /\ [][Next]_vars

\* zypper does not stop in the middle of a command by itself.
FairSpec == Spec /\ WF_vars(Work)

-----------------------------------------------------------------------------
(* Properties *)

FlagTypes ==
  /\ nonInteractive \in BOOLEAN
  /\ root \in BOOLEAN
  /\ verbose \in BOOLEAN
  /\ threw \in BOOLEAN
  /\ several \in BOOLEAN
  /\ marker \in BOOLEAN
  /\ watch \in BOOLEAN
  /\ srcFailed \in BOOLEAN
  /\ markerBefore \in BOOLEAN

DataTypes ==
  /\ pc \in {"idle", "solve", "testcase", "problems", "summary", "prompt", "license",
             "commit", "committing", "sources", "finish", "killed"}
  /\ line \in CommandLines \cup {NoLine}
  /\ exitCode \in {EXIT_OK, EXIT_ERR_ZYPP, EXIT_ERR_PRIVILEGES, EXIT_ERR_COMMIT,
                   EXIT_INF_REBOOT_NEEDED, EXIT_INF_RESTART_NEEDED, EXIT_INF_CAP_NOT_FOUND,
                   EXIT_ON_SIGNAL}
  /\ forceResolution \in TriBool
  /\ srcpkgs \subseteq Sources
  /\ flags \in [force : BOOLEAN, clean : BOOLEAN]
  /\ marks \subseteq Things
  /\ trouble \subseteq Troubles
  /\ left \subseteq Troubles
  /\ todo \subseteq Troubles
  /\ hints \subseteq Patches
  /\ plan \in Plan \cup {NoPlan}
  /\ summary \in [plan : Plan \cup {NoPlan}, hints : SUBSET Patches, srcs : SUBSET Sources]
  /\ srcsLeft \subseteq srcpkgs
  /\ cmds \in Nat
  /\ reported \in Nat
  /\ outcome \in {"nothing", "refused", "complete", "tested", "failed"}
  /\ executed \in Plan \cup {NoPlan}
  /\ skipped \subseteq Patches
  /\ uncleaned \subseteq Things

TypeOK == FlagTypes /\ DataTypes

Ended == pc = "idle" /\ reported # NotYet

\* What --skip-not-applicable-patches skipped is part of the summary the user
\* agrees to, however often the solver ran: the hints are moved into the first
\* summary, and a command that may skip patches never shows a second one.
SkippedPatchesShown ==
  pc \in {"prompt", "license", "commit", "committing"} => skipped \subseteq summary.hints

\* confirm_licenses: nothing with an unaccepted license is installed unless
\* someone was there to accept it or --auto-agree-with-licenses was given.
NoLicenseUnattended ==
  pc = "committing" /\ plan.sol.license /\ nonInteractive => line.agree

\* Exit code 0 (zypper(8): "Successful run of zypper with no special info"): the
\* command had nothing to do, or did or tested all of it, source packages too.
ZeroMeansDone ==
  Ended /\ reported = EXIT_OK =>
    outcome \in {"nothing", "complete", "tested"} /\ ~srcFailed

\* bsc#1217873: "Make sure reboot-needed is remembered until next boot": a patch
\* that needs a reboot and was installed (or tested) leaves the mark, unless the command
\* ended with an error or an unknown argument.
RebootRemembered ==
  Ended /\ outcome \in {"complete", "tested"} /\ executed.sol.patch = "reboot"
        /\ reported \notin 1..99 \cup {EXIT_INF_CAP_NOT_FOUND}
    => marker

\* A mark that was there before is still there, wherever the command is or was killed.
MarkStays == markerBefore => marker

\* A new mark has a cause: a patch that needs a reboot, once the command is through with it,
\* or a package with the mark, if it was not only tested.  bsc#1183268, PatchRebootRulesWatchdog: where
\* the patches rule, packages raise no mark against them, however the commit ends, unless the
\* process was killed in it, which runs no destructor.
MarkHasCause ==
  marker /\ ~markerBefore =>
    /\ executed # NoPlan
    /\ \/ executed.sol.patch = "reboot" /\ outcome # "failed" /\ pc \in {"finish", "idle"}
       \/ /\ executed.sol.kernel /\ ~DryRunEtc
          /\ \/ ~PatchRebootRules
             \/ executed.sol.patch = "reboot"
             \/ pc = "killed" /\ outcome = "failed"

\* shellCleanup and remove_selections: packages an earlier command of the same shell has
\* marked are not part of this command's transaction.  The exception is what a command
\* shellCleanup does not name (removeptf) has marked and not carried out, as long as no
\* command it does name has followed.  Of requests to the resolver nothing is said.
OnlyOwnMarks == plan # NoPlan => plan.marks \subseteq line.marks \cup uncleaned

\* --non-interactive: every command comes to an end by itself, also if the solver
\* has one not applicable patch after the other to skip.
NonInteractiveEnds ==
  (nonInteractive /\ pc = "solve") ~> (pc \in {"idle", "killed"})

\* What is agreed to is agreed to with full knowledge: the automatic skips are in the
\* summary, and a license had somebody to accept it.
AgreedInformed == SkippedPatchesShown /\ NoLicenseUnattended

\* /run/reboot-needed after a command, and where one was killed: what raises it (the patch in
\* the summary, or libzypp for a package), what keeps a package from it (the watchdog of the
\* patch rules), and that none takes away an earlier mark.
MarkerRight == RebootRemembered /\ MarkStays /\ MarkHasCause

\* The inductive invariants behind the safety properties (proved in
\* SolveAndCommitProofs), one definition per idea.
Planning == {"solve", "testcase", "problems", "summary"}
Asked == {"prompt", "license", "commit", "committing"}
Errors == {EXIT_ERR_ZYPP, EXIT_ERR_PRIVILEGES, EXIT_ERR_COMMIT}

\* The exit code and what became of the transaction.
Verdict ==
  /\ pc \in Planning \cup Asked =>
       exitCode \in {EXIT_OK, EXIT_INF_CAP_NOT_FOUND} /\ outcome = "nothing" /\ ~srcFailed
  /\ pc = "sources" => exitCode \in {EXIT_OK, EXIT_ERR_ZYPP} /\ outcome \in {"complete", "tested"}
  /\ pc \in {"sources", "finish"} /\ srcFailed => exitCode # EXIT_OK
  /\ pc = "finish" /\ outcome \in {"refused", "failed"} => exitCode \in Errors
  /\ pc # "idle" => reported = NotYet

\* From the plan in the pool to the summary, and on to what is executed.
PlanKept ==
  /\ pc \in {"summary", "sources"} \cup Asked => plan \in Plan
  /\ pc \in {"sources"} \cup Asked => summary.plan = plan
  /\ pc \in Planning => summary.plan = NoPlan
  /\ pc \in Planning \cup Asked => executed = NoPlan
  /\ pc = "sources" => executed = plan

LicenseKept ==
  pc \in {"commit", "committing"} /\ plan.sol.license /\ nonInteractive => line.agree

\* The marks in the pool are the command's own, or were left there.
MarksKept ==
  /\ marks \subseteq line.marks \cup uncleaned
  /\ pc = "idle" /\ line.cmd \in Declined => marks = {}
  /\ outcome = "complete" => marks = {} /\ pc \in {"sources", "finish", "idle", "killed"}
  /\ plan # NoPlan => plan.marks \subseteq line.marks \cup uncleaned

SkipsKept ==
  /\ skipped # {} => line.skipBad
  /\ pc \in Planning => skipped \subseteq hints
  /\ pc \in Asked => skipped \subseteq summary.hints

\* The mark for a reboot, before, in and after the commit.
MarkerKept ==
  /\ MarkStays
  /\ pc \in Planning \cup Asked => marker = markerBefore
  /\ pc = "committing" => (watch <=> PatchRebootRules /\ ~NeedMachineReboot /\ ~marker)
  /\ MarkHasCause

RebootKept ==
  pc = "finish" /\ outcome \in {"complete", "tested"} /\ executed.sol.patch = "reboot"
      /\ exitCode \notin Errors \cup {EXIT_INF_CAP_NOT_FOUND} => marker

\* The refinement: see Consent.
Promise == INSTANCE Consent WITH
  Plans    <- Plan,
  stage    <- CASE pc \in {"solve", "testcase", "problems", "summary"} -> "planning"
                [] pc = "prompt" -> "offered"
                [] pc \in {"license", "commit", "committing"} -> "accepted"
                [] pc \in {"sources", "finish", "killed"} -> "executed"
                [] OTHER -> "over",
  offer    <- summary.plan,
  failed   <- outcome \in {"refused", "failed"},
  verdict  <- IF reported = NotYet THEN "none"
              ELSE IF reported \in 1..99 THEN "error" ELSE "success"

HonoursConsent == Promise!ConsentSpec
=============================================================================
