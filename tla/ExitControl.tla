---------------------------- MODULE ExitControl ----------------------------
(***************************************************************************)
(* How zypper reacts to SIGINT, SIGTERM and SIGPIPE.                       *)
(*                                                                         *)
(* The signal handlers of main.cc only raise a flag in the Zypper object;  *)
(* the main thread looks at the flag in Zypper::instance() and out() (the  *)
(* "immediateExitCheck") and leaves there, unless one of the media         *)
(* callback receivers holds a SigExitGuard.  Inside a guarded report the   *)
(* download is aborted instead and the user is asked what to do; a "retry" *)
(* takes the request back.  A handler runs between two steps of the main   *)
(* thread, which is why requestExit(false) takes two.                      *)
(*                                                                         *)
(* The command that runs is abstract: it opens and closes media reports,   *)
(* meets media problems, records exit codes and may call God->commit once. *)
(***************************************************************************)
EXTENDS Naturals

CONSTANTS
  Receivers,       \* ExitGuardedReceiveReport receivers that are in use
  Urls,            \* URLs a medium problem can be reported for
  NoUrl,           \* the empty URL of a fresh repeat_counter_
  REPEAT_LIMIT,    \* auto-repeat limit of callbacks/media.h
  StdinComplete,   \* whether what the user types on stdin ends in a newline
  MaxSignals,      \* bound: signals sent to the process
  MaxCommands      \* bound: commands typed at the shell prompt

ASSUME ExitControlAssumption ==
  /\ Receivers \subseteq {"MediaChange", "Download", "Preload", "Auth"}
  /\ NoUrl \notin Urls
  /\ REPEAT_LIMIT \in Nat \ {0}
  /\ StdinComplete \in BOOLEAN
  /\ MaxSignals \in Nat
  /\ MaxCommands \in Nat

EXIT_OK == 0
EXIT_ERR_ZYPP == 4
EXIT_ERR_COMMIT == 8
EXIT_ON_SIGNAL == 105
EXIT_INF_REPOS_SKIPPED == 106
EXIT_INF_RPM_SCRIPT_FAILED == 107

\* The ways a media problem is put to the user: requestMedia for a CD/DVD, for
\* a soft I/O error, for any other error, and DownloadProgress' problem().
Problems == {"volatile", "soft", "media", "download"}

Actions == {"abort", "retry", "ignore"}

VARIABLES
  exitReq,         \* Zypper::_exit_requested
  shutdown,        \* libzypp's shutdown signal (set-/clearShutdownSignal)
  guards,          \* receivers whose SigExitGuard is held
  sigExitOnce,     \* main.cc: may immediateExit still run?
  enteredCommit,   \* RuntimeData::entered_commit
  exitCode,        \* Application::exitCode of the current command
  exitInfo,        \* Zypper::_exitInfoCode
  repeat,          \* repeat_counter_ of the MediaChange receiver
  shell,           \* running the interactive shell?
  nonInteractive,  \* --non-interactive?
  pc,              \* where the main thread is
  problem,         \* the media problem being handled
  deflt,           \* the default action of its prompt
  reply,           \* the action chosen
  committing,      \* God->commit is on the stack
  status           \* exit status of the process, 0 while it lives

\* History variables, read by properties only (sent and cmds also bound).
VARIABLES
  sent,            \* signals delivered so far
  cmds,            \* commands read at the shell prompt so far
  asked,           \* SIGINTs and SIGTERMs since the last cleared request
  pipeBroken,      \* a SIGPIPE found stdout or stderr broken
  autoRetries,     \* retries of repeat.url in a row that nobody asked for
  commitSeen,      \* the current command has called God->commit
  infos,           \* all codes ever given to setExitInfoCode
  cleanups         \* how often immediateExit called cleanup()

flags   == <<exitReq, shutdown, sigExitOnce>>
codes   == <<enteredCommit, exitCode, exitInfo, status>>
mode    == <<shell, nonInteractive>>
ask     == <<problem, deflt, reply>>
history == <<sent, cmds, asked, pipeBroken, autoRetries, commitSeen, infos,
             cleanups>>
vars == <<flags, guards, codes, repeat, mode, pc, ask, committing, history>>

-----------------------------------------------------------------------------
\* Slips in the code below are named ...Slip: each is the definition that follows
\* it with one plausible mistake, and some property below must notice it.

UnguardedSlip == exitReq > 0

OnlyPoliteSlip == exitReq = 1 /\ guards = {}

\* Zypper::immediateExitCheck: obey the request now?
ShouldExit == exitReq > 1 \/ (exitReq = 1 /\ guards = {})

NestedExitSlip ==
  /\ sigExitOnce' = FALSE
  /\ cleanups' = cleanups + 1
  /\ pc' = "cleanup"
  /\ UNCHANGED <<exitReq, shutdown, guards, codes, repeat, mode, ask, committing,
                 sent, cmds, asked, pipeBroken, autoRetries, commitSeen, infos>>

\* Zypper::immediateExit up to the call of cleanup().
ImmediateExit ==
  /\ sigExitOnce
  /\ sigExitOnce' = FALSE
  /\ cleanups' = cleanups + 1
  /\ pc' = "cleanup"
  /\ UNCHANGED <<exitReq, shutdown, guards, codes, repeat, mode, ask, committing,
                 sent, cmds, asked, pipeBroken, autoRetries, commitSeen, infos>>

CommitForgottenSlip ==
  /\ pc = "cleanup"
  /\ pc' = "exited"
  /\ status' = EXIT_ON_SIGNAL
  /\ UNCHANGED <<flags, guards, enteredCommit, exitCode, exitInfo, repeat, mode,
                 ask, committing, history>>

\* cleanup() returned: exit() with the code that tells a cut transaction.
ExitAfterCleanup ==
  /\ pc = "cleanup"
  /\ pc' = "exited"
  /\ status' = IF enteredCommit THEN EXIT_ERR_COMMIT ELSE EXIT_ON_SIGNAL
  /\ UNCHANGED <<flags, guards, enteredCommit, exitCode, exitInfo, repeat, mode,
                 ask, committing, history>>

-----------------------------------------------------------------------------
(* Signals *)

\* signal_handler: the first request is polite, any further one is not.
SigInt ==
  /\ pc # "exited"
  /\ sent < MaxSignals
  /\ sent' = sent + 1
  /\ asked' = asked + 1
  /\ exitReq' = IF exitReq >= 1 THEN 2 ELSE 1
  /\ shutdown' = TRUE
  /\ UNCHANGED <<sigExitOnce, guards, codes, repeat, mode, pc, ask, committing,
                 cmds, pipeBroken, autoRetries, commitSeen, infos, cleanups>>

\* signal_nopipe with stdout or stderr gone: unlike signal_handler it calls
\* Zypper::instance(), which may exit right here if a request is pending.
SigPipeExits ==
  /\ pc # "exited"
  /\ sent < MaxSignals
  /\ ShouldExit
  /\ ImmediateExit

SigPipeRequests ==
  /\ pc # "exited"
  /\ sent < MaxSignals
  /\ ~(ShouldExit /\ sigExitOnce)
  /\ sent' = sent + 1
  /\ pipeBroken' = TRUE
  /\ exitReq' = 2
  /\ shutdown' = TRUE
  /\ UNCHANGED <<sigExitOnce, guards, codes, repeat, mode, pc, ask, committing,
                 cmds, asked, autoRetries, commitSeen, infos, cleanups>>

-----------------------------------------------------------------------------
(* The main thread: exit checks and media reports *)

\* Any of the frequent calls of Zypper::instance(), out() or a polling prompt.
MainCheck ==
  /\ pc \in {"work", "problem"}
  /\ ShouldExit
  /\ ImmediateExit

\* ExitGuardedReceiveReport::reportbegin
ReportBegin(r) ==
  /\ pc = "work"
  /\ r \notin guards
  /\ guards' = guards \cup {r}
  /\ UNCHANGED <<flags, codes, repeat, mode, pc, ask, committing, history>>

\* ExitGuardedReceiveReport::reportend
ReportEnd(r) ==
  /\ pc = "work"
  /\ r \in guards
  /\ guards' = guards \ {r}
  /\ UNCHANGED <<flags, codes, repeat, mode, pc, ask, committing, history>>

\* progress() of the Download or Preload receiver sees a request and returns
\* false: libzypp aborts the transfer and ends the report.
ProgressAborts(r) ==
  /\ pc = "work"
  /\ r \in guards \cap {"Download", "Preload"}
  /\ exitReq > 0
  /\ ~ShouldExit
  /\ guards' = guards \ {r}
  /\ UNCHANGED <<flags, codes, repeat, mode, pc, ask, committing, history>>

-----------------------------------------------------------------------------
(* Media problems *)

OverrunLateSlip(u) == repeat.url = u /\ repeat.count + 1 > REPEAT_LIMIT

\* repeat_counter_::counter_overrun: the counter after a problem with url u and
\* whether the limit was hit (the counter is then reset).
Overrun(u) == repeat.url = u /\ repeat.count + 1 >= REPEAT_LIMIT

CounterNotResetSlip(u) ==
  [url |-> u, count |-> IF repeat.url = u THEN repeat.count + 1 ELSE 0]

CounterAfter(u) ==
  IF repeat.url = u /\ ~Overrun(u)
  THEN [url |-> u, count |-> repeat.count + 1]
  ELSE [url |-> u, count |-> 0]

\* MediaChangeReportReceiver::requestMedia up to its prompt.
RequestMedia(kind, u) ==
  /\ pc = "work"
  /\ "MediaChange" \in guards
  /\ kind \in {"volatile", "soft", "media"}
  /\ ~ShouldExit
  /\ pc' = "problem"
  /\ problem' = kind
  /\ deflt' = IF kind = "soft" /\ ~Overrun(u) THEN "retry" ELSE "abort"
  /\ repeat' = IF kind = "soft" THEN CounterAfter(u) ELSE repeat
  /\ autoRetries' = IF kind = "soft" /\ repeat.url # u THEN 0 ELSE autoRetries
  /\ UNCHANGED <<flags, guards, codes, mode, reply, committing, sent, cmds, asked,
                 pipeBroken, commitSeen, infos, cleanups>>

\* DownloadProgressReportReceiver::problem up to its prompt.
DownloadProblem ==
  /\ pc = "work"
  /\ "Download" \in guards
  /\ ~ShouldExit
  /\ pc' = "problem"
  /\ problem' = "download"
  /\ deflt' = "abort"
  /\ UNCHANGED <<flags, guards, codes, repeat, mode, reply, committing, history>>

\* The actions after which the receivers call requestExit(false).
Withdraws(kind, a) ==
  \/ a = "retry"
  \/ a = "ignore" /\ kind = "media"

\* The receiver returns action a; an abort makes libzypp throw through all open
\* reports, whose reportend releases the guards.
Answer(a, who) ==
  /\ problem' = "none"
  /\ deflt' = "none"
  /\ reply' = "none"
  /\ IF Withdraws(problem, a)
     THEN /\ pc' = "clear1"
          /\ UNCHANGED guards
     ELSE /\ pc' = "work"
          /\ guards' = IF a = "abort" THEN {} ELSE guards
  /\ autoRetries' = IF problem # "soft" THEN autoRetries
                    ELSE IF who = "nobody" /\ a = "retry" THEN autoRetries + 1 ELSE 0
  /\ UNCHANGED <<flags, codes, repeat, mode, committing, sent, cmds, asked,
                 pipeBroken, commitSeen, infos, cleanups>>

\* get_prompt_reply reads a line from /dev/tty.
UserReply(a) ==
  /\ pc = "problem"
  /\ ~nonInteractive
  /\ problem # "soft"
  /\ a \in Actions
  /\ problem = "volatile" => a # "ignore"
  /\ Answer(a, "user")

\* bailOut of get_prompt_reply: /dev/tty cannot be opened or read.  The exception
\* leaves libzypp through all open reports.
PromptFails ==
  /\ pc = "problem"
  /\ ~nonInteractive
  /\ problem # "soft"
  /\ problem' = "none"
  /\ deflt' = "none"
  /\ guards' = {}
  /\ exitCode' = EXIT_ERR_ZYPP
  /\ pc' = "work"
  /\ UNCHANGED <<flags, enteredCommit, exitInfo, status, repeat, mode, reply, committing,
                 history>>

\* read_action_ari_with_timeout gets a valid character from stdin and goes on
\* to discard the rest of the line.
UserKey(a) ==
  /\ pc = "problem"
  /\ ~nonInteractive
  /\ problem = "soft"
  /\ a \in Actions
  /\ pc' = "eatLine"
  /\ reply' = a
  /\ UNCHANGED <<flags, guards, codes, repeat, mode, problem, deflt, committing, history>>

\* "eat the rest of input": ends at the newline, and at nothing else.
EatLine ==
  /\ pc = "eatLine"
  /\ StdinComplete
  /\ Answer(reply, "user")

\* Nobody answers: the default in non-interactive mode, and after the countdown
\* (or at EOF) of read_action_ari_with_timeout.
AutoReply ==
  /\ pc = "problem"
  /\ nonInteractive \/ problem = "soft"
  /\ Answer(deflt, "nobody")

\* Zypper::requestExit( false ), first the flag, then libzypp's.
ClearRequest ==
  /\ pc = "clear1"
  /\ exitReq' = 0
  /\ asked' = 0
  /\ pipeBroken' = FALSE
  /\ pc' = "clear2"
  /\ UNCHANGED <<shutdown, sigExitOnce, guards, codes, repeat, mode, ask, committing,
                 sent, cmds, autoRetries, commitSeen, infos, cleanups>>

KeepsShutdownSlip ==
  /\ pc = "clear2"
  /\ pc' = "work"
  /\ UNCHANGED <<flags, guards, codes, repeat, mode, ask, committing, sent, cmds,
                 asked, pipeBroken, autoRetries, commitSeen, infos, cleanups>>

ClearShutdown ==
  /\ pc = "clear2"
  /\ shutdown' = FALSE
  /\ pc' = "work"
  /\ UNCHANGED <<exitReq, sigExitOnce, guards, codes, repeat, mode, ask, committing,
                 sent, cmds, asked, pipeBroken, autoRetries, commitSeen, infos, cleanups>>
-----------------------------------------------------------------------------
(* Commands and their exit codes *)

UnmarkedCommitSlip ==
  /\ pc = "work"
  /\ guards = {}
  /\ ~commitSeen
  /\ committing' = TRUE
  /\ commitSeen' = TRUE
  /\ UNCHANGED <<flags, guards, codes, repeat, mode, pc, ask, sent, cmds, asked,
                 pipeBroken, autoRetries, infos, cleanups>>

\* solve_and_commit up to God->commit; bsc#946750 sets entered_commit.
EnterCommit ==
  /\ pc = "work"
  /\ guards = {}
  /\ ~commitSeen
  /\ enteredCommit' = TRUE
  /\ committing' = TRUE
  /\ commitSeen' = TRUE
  /\ UNCHANGED <<flags, guards, exitCode, exitInfo, status, repeat, mode, pc, ask,
                 sent, cmds, asked, pipeBroken, autoRetries, infos, cleanups>>

\* God->commit returns a result: complete, untouched or incomplete.
CommitReturns ==
  /\ pc = "work"
  /\ committing
  /\ guards = {}
  /\ enteredCommit' = FALSE
  /\ committing' = FALSE
  /\ exitCode' \in {exitCode, EXIT_ERR_ZYPP, EXIT_ERR_COMMIT}
  /\ UNCHANGED <<flags, guards, exitInfo, status, repeat, mode, pc, ask, history>>

\* God->commit throws: the handlers of solve_and_commit set the exit code and
\* leave entered_commit as it is.
CommitThrows ==
  /\ pc = "work"
  /\ committing
  /\ committing' = FALSE
  /\ guards' = {}
  /\ exitCode' = EXIT_ERR_COMMIT
  /\ UNCHANGED <<flags, enteredCommit, exitInfo, status, repeat, mode, pc, ask, history>>

\* Zypper::setExitInfoCode: the first code is kept.
SetExitInfoCode(c) ==
  /\ pc = "work"
  /\ IF c = EXIT_INF_RPM_SCRIPT_FAILED THEN committing ELSE ~commitSeen
  /\ exitInfo' = IF exitInfo = EXIT_OK THEN c ELSE exitInfo
  /\ infos' = infos \cup {c}
  /\ UNCHANGED <<flags, guards, enteredCommit, exitCode, status, repeat, mode, pc,
                 ask, committing, sent, cmds, asked, pipeBroken,
                 autoRetries, commitSeen, cleanups>>

\* The command fails outside of the commit.
CommandFails ==
  /\ pc = "work"
  /\ ~committing
  /\ guards = {}
  /\ exitCode' = EXIT_ERR_ZYPP
  /\ UNCHANGED <<flags, guards, enteredCommit, exitInfo, status, repeat, mode, pc,
                 ask, committing, history>>

InfoCodeDroppedSlip ==
  /\ pc' = "exited"
  /\ status' = exitCode
  /\ UNCHANGED <<flags, guards, enteredCommit, exitCode, exitInfo, repeat, mode,
                 ask, committing, history>>

\* Zypper::main returns the exit code, main() prefers it over the info code.
ProcessReturns ==
  /\ pc' = "exited"
  /\ status' = IF exitCode = EXIT_OK THEN exitInfo ELSE exitCode
  /\ UNCHANGED <<flags, guards, enteredCommit, exitCode, exitInfo, repeat, mode,
                 ask, committing, history>>

CommandDone ==
  /\ pc = "work"
  /\ ~committing
  /\ guards = {}
  /\ ~shell
  /\ ProcessReturns

\* Zypper::shellCleanup between two shell commands: it resets the exit code and
\* keeps entered_commit and the info code.
ShellCommandDone ==
  /\ pc = "work"
  /\ ~committing
  /\ guards = {}
  /\ shell
  /\ pc' = "prompt"
  /\ exitCode' = EXIT_OK
  /\ commitSeen' = FALSE
  /\ UNCHANGED <<flags, guards, enteredCommit, exitInfo, status, repeat, mode, ask,
                 committing, sent, cmds, asked, pipeBroken, autoRetries, infos, cleanups>>

StubbornPromptSlip ==
  /\ pc = "prompt"
  /\ exitReq > 1
  /\ ImmediateExit

\* my_getc_function gives up waiting or a line was read: out() is called with a
\* request pending and no guard held.
PromptExits ==
  /\ pc = "prompt"
  /\ ShouldExit
  /\ ImmediateExit

ShellCommand ==
  /\ pc = "prompt"
  /\ ~ShouldExit
  /\ cmds < MaxCommands
  /\ cmds' = cmds + 1
  /\ pc' = "work"
  /\ UNCHANGED <<flags, guards, codes, repeat, mode, ask, committing, sent, asked,
                 pipeBroken, autoRetries, commitSeen, infos, cleanups>>

\* quit or ^D
ShellQuit ==
  /\ pc = "prompt"
  /\ ~ShouldExit
  /\ ProcessReturns

\* The process is gone.
Terminated ==
  /\ pc = "exited"
  /\ UNCHANGED vars

-----------------------------------------------------------------------------
Init ==
  /\ exitReq = 0
  /\ shutdown = FALSE
  /\ guards = {}
  /\ sigExitOnce = TRUE
  /\ enteredCommit = FALSE
  /\ exitCode = EXIT_OK
  /\ exitInfo = EXIT_OK
  /\ repeat = [url |-> NoUrl, count |-> 0]
  /\ shell \in BOOLEAN
  /\ nonInteractive \in BOOLEAN
  /\ pc = IF shell THEN "prompt" ELSE "work"
  /\ problem = "none"
  /\ deflt = "none"
  /\ reply = "none"
  /\ committing = FALSE
  /\ status = EXIT_OK
  /\ sent = 0
  /\ cmds = 0
  /\ asked = 0
  /\ pipeBroken = FALSE
  /\ autoRetries = 0
  /\ commitSeen = FALSE
  /\ infos = {}
  /\ cleanups = 0

Signal == SigInt \/ SigPipeExits \/ SigPipeRequests

Media ==
  \/ \E r \in Receivers : ReportBegin(r) \/ ReportEnd(r) \/ ProgressAborts(r)
  \/ \E kind \in Problems, u \in Urls : RequestMedia(kind, u)
  \/ DownloadProblem
  \/ \E a \in Actions : UserReply(a) \/ UserKey(a)
  \/ PromptFails
  \/ EatLine
  \/ AutoReply
  \/ ClearRequest
  \/ ClearShutdown

Command ==
  \/ EnterCommit
  \/ CommitReturns
  \/ CommitThrows
  \/ \E c \in {EXIT_INF_REPOS_SKIPPED, EXIT_INF_RPM_SCRIPT_FAILED} : SetExitInfoCode(c)
  \/ CommandFails
  \/ CommandDone
  \/ ShellCommandDone
  \/ PromptExits
  \/ ShellCommand
  \/ ShellQuit

Next == Signal \/ MainCheck \/ ExitAfterCleanup \/ Media \/ Command \/ Terminated

Spec == Init /\ [][Next]_vars

\* The main thread gets on: the places that look at the flag are passed again
\* and again (the prompts poll with a timeout, progress() is called while data
\* flows).  No user answers and no signal is promised.
Fairness ==
  /\ WF_vars(MainCheck)
  /\ WF_vars(PromptExits)
  /\ WF_vars(ExitAfterCleanup)
  /\ WF_vars(EatLine)
  /\ WF_vars(ClearRequest)
  /\ WF_vars(ClearShutdown)

FairSpec == Spec /\ Fairness

-----------------------------------------------------------------------------
(* Properties *)

PCs == {"prompt", "work", "problem", "eatLine", "clear1", "clear2", "cleanup", "exited"}

FlagTypes ==
  /\ shutdown \in BOOLEAN
  /\ sigExitOnce \in BOOLEAN
  /\ enteredCommit \in BOOLEAN
  /\ shell \in BOOLEAN
  /\ nonInteractive \in BOOLEAN
  /\ committing \in BOOLEAN
  /\ pipeBroken \in BOOLEAN
  /\ commitSeen \in BOOLEAN

DataTypes ==
  /\ exitReq \in 0..2
  /\ guards \subseteq Receivers
  /\ exitCode \in {EXIT_OK, EXIT_ERR_ZYPP, EXIT_ERR_COMMIT}
  /\ exitInfo \in {EXIT_OK, EXIT_INF_REPOS_SKIPPED, EXIT_INF_RPM_SCRIPT_FAILED}
  /\ repeat \in [url : Urls \cup {NoUrl}, count : 0..(REPEAT_LIMIT - 1)]
  /\ pc \in PCs
  /\ problem \in Problems \cup {"none"}
  /\ deflt \in Actions \cup {"none"}
  /\ reply \in Actions \cup {"none"}
  /\ status \in Nat
  /\ sent \in Nat
  /\ cmds \in Nat
  /\ asked \in Nat
  /\ autoRetries \in Nat
  /\ infos \subseteq {EXIT_INF_REPOS_SKIPPED, EXIT_INF_RPM_SCRIPT_FAILED}
  /\ cleanups \in Nat

TypeOK == FlagTypes /\ DataTypes

\* Was the process (or is it being) stopped by immediateExit?
Stopped == cleanups > 0

\* A SigExitGuard (Zypper.h: "preventing immediateExitCheck from exiting on the
\* 1st CTRL-C") holds: zypper never stops in the middle of a guarded report
\* unless two signals arrived since the last request was taken back, or its
\* output is gone.
GuardedExitNeedsTwoSignals ==
  Stopped /\ guards # {} => asked >= 2 \/ pipeBroken

\* bsc#946750: whoever stops zypper inside God->commit gets exit code 8, so that
\* scripts learn that the transaction may be incomplete.
CutCommitReported ==
  Stopped /\ committing /\ pc = "exited" => status = EXIT_ERR_COMMIT

\* main.cc: "prevent nested calls to Zypper::immediateExit": whatever signals
\* arrive while zypper cleans up, cleanup() runs once.
CleanupOnce == cleanups <= 1

\* main(): "propagate refresh errors even if main action succeeded": a process
\* that ends with 0 has recorded no info code in any command it ran.
ZeroMeansNothingToReport ==
  pc = "exited" /\ status = EXIT_OK => infos = {}

\* requestExit() and requestExit(false) keep libzypp in step: libzypp is not
\* left in shutdown mode once zypper has no request pending (it would refuse
\* every later download).
ShutdownHasRequest ==
  shutdown => exitReq > 0 \/ pc = "clear2"

\* "auto-repeat counter limit" (callbacks/media.h): a soft I/O error nobody reacts
\* to is retried at most REPEAT_LIMIT times in a row, also when earlier problems
\* with the same URL have left the counter half way.
RetryBudget == autoRetries <= REPEAT_LIMIT

\* The message of signal_handler for the second signal ("exiting as soon as
\* possible"): zypper stops, unless the request is taken back.
SecondSignalStops ==
  (exitReq = 2 /\ pc # "exited") ~> (pc = "exited" \/ exitReq = 0)

\* bsc#1226493: one CTRL-C is enough to leave the prompt of the shell.
PromptLeavesOnSignal ==
  (pc = "prompt" /\ exitReq > 0) ~> (pc = "exited")

\* What the handlers and the media callbacks count and flag stays in step: one cleanup,
\* libzypp shut down only for a request, no more unattended retries than allowed.
ExitBookkeeping == CleanupOnce /\ ShutdownHasRequest /\ RetryBudget

\* A signal ends zypper where it says so: the second one anywhere, the first one at the
\* prompt of the shell.
SignalsStop == SecondSignalStops /\ PromptLeavesOnSignal

\* The inductive invariant behind the safety properties (proved in
\* ExitControlProofs), one conjunct per idea.
Evidence ==
  /\ exitReq = 1 => asked >= 1
  /\ exitReq = 2 => asked >= 2 \/ pipeBroken

LeavingOnce ==
  /\ cleanups = IF sigExitOnce THEN 0 ELSE 1
  /\ ~sigExitOnce => pc \in {"cleanup", "exited"}
  /\ pc = "cleanup" => ~sigExitOnce

ExitCodes ==
  /\ committing => enteredCommit
  /\ exitInfo = EXIT_OK => infos = {}
  /\ pc = "exited" =>
       status = IF Stopped THEN IF enteredCommit THEN EXIT_ERR_COMMIT ELSE EXIT_ON_SIGNAL
                ELSE IF exitCode = EXIT_OK THEN exitInfo ELSE exitCode

RetriesCounted ==
  /\ pc \in {"prompt", "work", "clear1", "clear2"} => problem = "none"
  /\ problem # "soft" => autoRetries <= repeat.count + 1
  /\ deflt = "retry" => autoRetries <= repeat.count
  /\ autoRetries <= REPEAT_LIMIT
  /\ problem # "soft" => deflt \in {"abort", "none"}

GuardsAtRest ==
  /\ pc \in {"prompt"} => guards = {} /\ ~committing
  /\ pc = "exited" /\ ~Stopped => guards = {}

Inv ==
  /\ TypeOK
  /\ Evidence
  /\ LeavingOnce
  /\ ExitCodes
  /\ RetriesCounted
  /\ GuardsAtRest
  /\ GuardedExitNeedsTwoSignals
  /\ ShutdownHasRequest

\* The refinement: see ExitPromise.
Promise == INSTANCE ExitPromise WITH
  level     <- exitReq,
  protected <- guards # {},
  risky     <- enteredCommit,
  life      <- IF pc = "exited" THEN "gone"
               ELSE IF pc = "cleanup" THEN "leaving" ELSE "running",
  code      <- status

KeepsPromise == Promise!PromiseSpec
=============================================================================
