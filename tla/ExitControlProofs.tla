------------------------- MODULE ExitControlProofs -------------------------
(***************************************************************************)
(* Proofs about ExitControl, for any set of receivers and URLs, any repeat *)
(* limit, any number of signals and commands, and whether or not stdin     *)
(* ends in a newline.  Inv is inductive (InvInit, InvStep); each safety    *)
(* property follows from it, and so does the refinement of ExitPromise.    *)
(***************************************************************************)
EXTENDS ExitControl, TLAPS

USE DEF EXIT_OK, EXIT_ERR_ZYPP, EXIT_ERR_COMMIT, EXIT_ON_SIGNAL, EXIT_INF_REPOS_SKIPPED,
        EXIT_INF_RPM_SCRIPT_FAILED

-----------------------------------------------------------------------------
(* Type correctness: the Boolean variables and the others apart, because the *)
(* former need Zenon and the latter arithmetic.                              *)

\* An answer at a prompt keeps the types of the flags.
LEMMA AnswerKeepsFlags ==
  ASSUME FlagTypes, NEW a, NEW who, Answer(a, who)
  PROVE  FlagTypes'
BY Zenon DEF FlagTypes, Answer, flags, codes, mode

\* Every step keeps the types of the flags.
LEMMA FlagStep == FlagTypes /\ [Next]_vars => FlagTypes'
<1> SUFFICES ASSUME FlagTypes, [Next]_vars
             PROVE  FlagTypes'
  OBVIOUS
<1> USE Zenon DEF FlagTypes, flags, codes, mode, ask, history
<1>1. CASE SigInt
  BY <1>1 DEF SigInt
<1>2. CASE SigPipeExits
  BY <1>2 DEF SigPipeExits, ImmediateExit, ShouldExit
<1>3. CASE SigPipeRequests
  BY <1>3 DEF SigPipeRequests, ShouldExit
<1>4. CASE MainCheck
  BY <1>4 DEF MainCheck, ImmediateExit, ShouldExit
<1>5. CASE ExitAfterCleanup
  BY <1>5 DEF ExitAfterCleanup
<1>6. CASE \E r \in Receivers : ReportBegin(r)
  BY <1>6 DEF ReportBegin
<1>7. CASE \E r \in Receivers : ReportEnd(r)
  BY <1>7 DEF ReportEnd
<1>8. CASE \E r \in Receivers : ProgressAborts(r)
  BY <1>8 DEF ProgressAborts, ShouldExit
<1>9. CASE \E kind \in Problems, u \in Urls : RequestMedia(kind, u)
  BY <1>9 DEF RequestMedia
<1>10. CASE DownloadProblem
  BY <1>10 DEF DownloadProblem
<1>11. CASE \E a \in Actions : UserReply(a)
  BY <1>11, AnswerKeepsFlags DEF UserReply
<1>12. CASE \E a \in Actions : UserKey(a)
  BY <1>12 DEF UserKey
<1>13. CASE EatLine
  BY <1>13, AnswerKeepsFlags DEF EatLine
<1>14. CASE AutoReply
  BY <1>14, AnswerKeepsFlags DEF AutoReply
<1>15. CASE ClearRequest
  BY <1>15 DEF ClearRequest
<1>16. CASE ClearShutdown
  BY <1>16 DEF ClearShutdown
<1>17. CASE EnterCommit
  BY <1>17 DEF EnterCommit
<1>18. CASE CommitReturns
  BY <1>18 DEF CommitReturns
<1>19. CASE CommitThrows
  BY <1>19 DEF CommitThrows
<1>20. CASE \E c \in {EXIT_INF_REPOS_SKIPPED, EXIT_INF_RPM_SCRIPT_FAILED} : SetExitInfoCode(c)
  BY <1>20 DEF SetExitInfoCode
<1>21. CASE CommandFails
  BY <1>21 DEF CommandFails
<1>22. CASE CommandDone
  BY <1>22 DEF CommandDone, ProcessReturns
<1>23. CASE ShellCommandDone
  BY <1>23 DEF ShellCommandDone
<1>24. CASE PromptExits
  BY <1>24 DEF PromptExits, ImmediateExit, ShouldExit
<1>25. CASE ShellCommand
  BY <1>25 DEF ShellCommand
<1>26. CASE ShellQuit
  BY <1>26 DEF ShellQuit, ProcessReturns
<1>27. CASE Terminated
  BY <1>27 DEF Terminated, vars
<1>28. CASE UNCHANGED vars
  BY <1>28 DEF vars
<1>29. CASE PromptFails
  BY <1>29 DEF PromptFails
<1>30. QED
BY <1>1, <1>2, <1>3, <1>4, <1>5, <1>6, <1>7, <1>8, <1>9, <1>10, <1>11, <1>12, <1>13,
     <1>14, <1>15, <1>16, <1>17, <1>18, <1>19, <1>20, <1>21, <1>22, <1>23, <1>24,
     <1>25, <1>26, <1>27, <1>28, <1>29
  DEF Next, Signal, Media, Command

\* An answer keeps the types of the data.
LEMMA AnswerKeepsData ==
  ASSUME DataTypes, NEW a, NEW who \in {"user", "nobody"}, Answer(a, who)
  PROVE  DataTypes'
BY DEF DataTypes, Answer, PCs, flags, codes, mode

\* Every step keeps the types of the data.
LEMMA DataStep == DataTypes /\ [Next]_vars => DataTypes'
<1> SUFFICES ASSUME DataTypes, [Next]_vars
             PROVE  DataTypes'
  OBVIOUS
<1> USE ExitControlAssumption DEF DataTypes, PCs, flags, codes, mode, ask, history
<1>1. CASE SigInt
  BY <1>1 DEF SigInt
<1>2. CASE SigPipeExits
  BY <1>2 DEF SigPipeExits, ImmediateExit, ShouldExit
<1>3. CASE SigPipeRequests
  BY <1>3 DEF SigPipeRequests, ShouldExit
<1>4. CASE MainCheck
  BY <1>4 DEF MainCheck, ImmediateExit, ShouldExit
<1>5. CASE ExitAfterCleanup
  BY <1>5 DEF ExitAfterCleanup
<1>6. CASE \E r \in Receivers : ReportBegin(r)
  BY <1>6 DEF ReportBegin
<1>7. CASE \E r \in Receivers : ReportEnd(r)
  BY <1>7 DEF ReportEnd
<1>8. CASE \E r \in Receivers : ProgressAborts(r)
  BY <1>8 DEF ProgressAborts, ShouldExit
<1>9. CASE \E kind \in Problems, u \in Urls : RequestMedia(kind, u)
  BY <1>9 DEF RequestMedia, CounterAfter, Overrun, Problems, Actions
<1>10. CASE DownloadProblem
  BY <1>10 DEF DownloadProblem, Problems, Actions
<1>11. CASE \E a \in Actions : UserReply(a)
  <2> PICK a \in Actions : UserReply(a)
    BY <1>11
  <2> QED
    BY AnswerKeepsData DEF UserReply
<1>12. CASE \E a \in Actions : UserKey(a)
  BY <1>12 DEF UserKey, Actions
<1>13. CASE EatLine
  BY <1>13, AnswerKeepsData DEF EatLine
<1>14. CASE AutoReply
  BY <1>14, AnswerKeepsData DEF AutoReply
<1>15. CASE ClearRequest
  BY <1>15 DEF ClearRequest
<1>16. CASE ClearShutdown
  BY <1>16 DEF ClearShutdown
<1>17. CASE EnterCommit
  BY <1>17 DEF EnterCommit
<1>18. CASE CommitReturns
  BY <1>18 DEF CommitReturns
<1>19. CASE CommitThrows
  BY <1>19 DEF CommitThrows
<1>20. CASE \E c \in {EXIT_INF_REPOS_SKIPPED, EXIT_INF_RPM_SCRIPT_FAILED} : SetExitInfoCode(c)
  BY <1>20 DEF SetExitInfoCode
<1>21. CASE CommandFails
  BY <1>21 DEF CommandFails
<1>22. CASE CommandDone
  BY <1>22 DEF CommandDone, ProcessReturns
<1>23. CASE ShellCommandDone
  BY <1>23 DEF ShellCommandDone
<1>24. CASE PromptExits
  BY <1>24 DEF PromptExits, ImmediateExit, ShouldExit
<1>25. CASE ShellCommand
  BY <1>25 DEF ShellCommand
<1>26. CASE ShellQuit
  BY <1>26 DEF ShellQuit, ProcessReturns
<1>27. CASE Terminated
  BY <1>27 DEF Terminated, vars
<1>28. CASE UNCHANGED vars
  BY <1>28 DEF vars
<1>29. CASE PromptFails
  BY <1>29 DEF PromptFails
<1>30. QED
BY <1>1, <1>2, <1>3, <1>4, <1>5, <1>6, <1>7, <1>8, <1>9, <1>10, <1>11, <1>12, <1>13,
     <1>14, <1>15, <1>16, <1>17, <1>18, <1>19, <1>20, <1>21, <1>22, <1>23, <1>24,
     <1>25, <1>26, <1>27, <1>28, <1>29
  DEF Next, Signal, Media, Command

-----------------------------------------------------------------------------
(* The inductive invariant *)

\* The invariant holds at first.
LEMMA InvInit == Init => Inv
<1> SUFFICES ASSUME Init
             PROVE  Inv
  OBVIOUS
<1> USE DEF Init
<1>1. FlagTypes
  BY Zenon DEF FlagTypes
<1>2. DataTypes
  BY ExitControlAssumption DEF DataTypes, PCs
<1>3. Evidence /\ LeavingOnce
  BY DEF Evidence, LeavingOnce
<1>4. ExitCodes
  BY DEF ExitCodes
<1>5. RetriesCounted
  BY ExitControlAssumption DEF RetriesCounted
<1>6. GuardsAtRest
  BY DEF GuardsAtRest
<1>7. GuardedExitNeedsTwoSignals /\ ShutdownHasRequest
  BY DEF GuardedExitNeedsTwoSignals, ShutdownHasRequest
<1> QED
  BY <1>1, <1>2, <1>3, <1>4, <1>5, <1>6, <1>7 DEF Inv, TypeOK

\* Whoever calls immediateExit obeys a request, with two signals behind it if a
\* guard is held.
LEMMA ImmediateExitKeepsInv ==
  ASSUME Inv, TypeOK', ShouldExit, ImmediateExit
  PROVE  Inv'
<1> USE DEF Inv, TypeOK, DataTypes, ImmediateExit, flags, codes, mode, ask
<1>1. Evidence' /\ LeavingOnce'
  BY DEF Evidence, LeavingOnce
<1>2. ExitCodes' /\ RetriesCounted' /\ GuardsAtRest'
  BY DEF ExitCodes, RetriesCounted, GuardsAtRest
<1>3. GuardedExitNeedsTwoSignals'
  BY DEF GuardedExitNeedsTwoSignals, ShouldExit, Evidence
<1>4. ShutdownHasRequest'
  BY DEF ShutdownHasRequest, ShouldExit
<1> QED
  BY <1>1, <1>2, <1>3, <1>4

\* Every step keeps the invariant.
LEMMA InvStep == Inv /\ [Next]_vars => Inv'
<1> SUFFICES ASSUME Inv, [Next]_vars
             PROVE  Inv'
  OBVIOUS
<1> TypeOK'
  BY FlagStep, DataStep DEF Inv, TypeOK
<1> USE ExitControlAssumption
    DEF Inv, TypeOK, DataTypes, Evidence, LeavingOnce, ExitCodes, RetriesCounted, GuardsAtRest,
        GuardedExitNeedsTwoSignals, ShutdownHasRequest, Stopped, flags, codes, mode, ask,
        history
<1>1. CASE SigInt
  BY <1>1 DEF SigInt
<1>2. CASE SigPipeExits
  BY <1>2, ImmediateExitKeepsInv DEF SigPipeExits
<1>3. CASE SigPipeRequests
  BY <1>3 DEF SigPipeRequests, ShouldExit
<1>4. CASE MainCheck
  BY <1>4, ImmediateExitKeepsInv DEF MainCheck
<1>5. CASE ExitAfterCleanup
  BY <1>5 DEF ExitAfterCleanup
<1>6. CASE \E r \in Receivers : ReportBegin(r)
  BY <1>6 DEF ReportBegin
<1>7. CASE \E r \in Receivers : ReportEnd(r)
  BY <1>7 DEF ReportEnd
<1>8. CASE \E r \in Receivers : ProgressAborts(r)
  BY <1>8 DEF ProgressAborts, ShouldExit
<1>9. CASE \E kind \in Problems, u \in Urls : RequestMedia(kind, u)
  <2> PICK kind \in Problems, u \in Urls : RequestMedia(kind, u)
    BY <1>9
  <2> USE DEF RequestMedia
  <2>1. Evidence' /\ LeavingOnce' /\ ExitCodes' /\ GuardsAtRest'
    OBVIOUS
  <2>2. GuardedExitNeedsTwoSignals' /\ ShutdownHasRequest'
    OBVIOUS
  <2>3. RetriesCounted'
    BY DEF CounterAfter, Overrun
  <2> QED
    BY <2>1, <2>2, <2>3
<1>10. CASE DownloadProblem
  <2> USE <1>10 DEF DownloadProblem
  <2>1. Evidence' /\ LeavingOnce' /\ ExitCodes' /\ GuardsAtRest'
    OBVIOUS
  <2>2. GuardedExitNeedsTwoSignals' /\ ShutdownHasRequest'
    OBVIOUS
  <2>3. RetriesCounted'
    OBVIOUS
  <2> QED
    BY <2>1, <2>2, <2>3
<1>11. CASE \E a \in Actions : UserReply(a)
  BY <1>11 DEF UserReply, Answer, Withdraws
<1>12. CASE \E a \in Actions : UserKey(a)
  BY <1>12 DEF UserKey
<1>13. CASE EatLine
  BY <1>13 DEF EatLine, Answer, Withdraws
<1>14. CASE AutoReply
  BY <1>14 DEF AutoReply, Answer, Withdraws
<1>15. CASE ClearRequest
  BY <1>15 DEF ClearRequest
<1>16. CASE ClearShutdown
  BY <1>16 DEF ClearShutdown
<1>17. CASE EnterCommit
  BY <1>17 DEF EnterCommit
<1>18. CASE CommitReturns
  BY <1>18 DEF CommitReturns
<1>19. CASE CommitThrows
  BY <1>19 DEF CommitThrows
<1>20. CASE \E c \in {EXIT_INF_REPOS_SKIPPED, EXIT_INF_RPM_SCRIPT_FAILED} : SetExitInfoCode(c)
  BY <1>20 DEF SetExitInfoCode
<1>21. CASE CommandFails
  BY <1>21 DEF CommandFails
<1>22. CASE CommandDone
  BY <1>22 DEF CommandDone, ProcessReturns
<1>23. CASE ShellCommandDone
  BY <1>23 DEF ShellCommandDone
<1>24. CASE PromptExits
  BY <1>24, ImmediateExitKeepsInv DEF PromptExits
<1>25. CASE ShellCommand
  BY <1>25 DEF ShellCommand
<1>26. CASE ShellQuit
  BY <1>26 DEF ShellQuit, ProcessReturns
<1>27. CASE Terminated
  BY <1>27 DEF Terminated, vars
<1>28. CASE UNCHANGED vars
  BY <1>28 DEF vars
<1>29. CASE PromptFails
  BY <1>29 DEF PromptFails
<1>30. QED
BY <1>1, <1>2, <1>3, <1>4, <1>5, <1>6, <1>7, <1>8, <1>9, <1>10, <1>11, <1>12, <1>13,
     <1>14, <1>15, <1>16, <1>17, <1>18, <1>19, <1>20, <1>21, <1>22, <1>23, <1>24,
     <1>25, <1>26, <1>27, <1>28, <1>29
  DEF Next, Signal, Media, Command
\* The invariant always holds.
LEMMA InvAlways == Spec => []Inv
BY InvInit, InvStep, PTL DEF Spec

-----------------------------------------------------------------------------
(* What follows from the invariant *)

\* Every variable keeps its type: the exit codes, the counters and the position of
\* the main thread, whatever signals arrive.
THEOREM TypeCorrect == Spec => []TypeOK
<1>1. Inv => TypeOK
  BY DEF Inv
<1> QED
  BY <1>1, InvAlways, PTL

\* SigExitGuard and immediateExitCheck: while a guarded media report is open, zypper
\* stops only for two signals since the last withdrawal or for a broken pipe.
THEOREM GuardsHold == Spec => []GuardedExitNeedsTwoSignals
<1>1. Inv => GuardedExitNeedsTwoSignals
  BY DEF Inv
<1> QED
  BY <1>1, InvAlways, PTL

\* bsc#946750: a process stopped inside God->commit ends with ZYPPER_EXIT_ERR_COMMIT.
THEOREM CutCommitIsReported == Spec => []CutCommitReported
<1>1. Inv => CutCommitReported
  BY DEF Inv, ExitCodes, CutCommitReported
<1> QED
  BY <1>1, InvAlways, PTL

\* The static flag sigExitOnce of immediateExit: cleanup() never runs twice, even if
\* a signal handler interrupts it.
THEOREM CleanupRunsOnce == Spec => []CleanupOnce
<1>1. Inv => CleanupOnce
  BY DEF Inv, LeavingOnce, CleanupOnce
<1> QED
  BY <1>1, InvAlways, PTL

\* main() returns the info code of a skipped repository or a failed script unless
\* there is an error to return: status 0 hides nothing.
THEOREM ZeroIsHonest == Spec => []ZeroMeansNothingToReport
<1>1. Inv => ZeroMeansNothingToReport
  BY DEF Inv, TypeOK, DataTypes, ExitCodes, ZeroMeansNothingToReport
<1> QED
  BY <1>1, InvAlways, PTL

\* requestExit and requestExit(false): libzypp is in shutdown mode only while zypper
\* has a request pending, but for the gap between the two writes.
THEOREM ShutdownInStep == Spec => []ShutdownHasRequest
<1>1. Inv => ShutdownHasRequest
  BY DEF Inv
<1> QED
  BY <1>1, InvAlways, PTL

\* repeat_counter_: unattended retries of a soft media error are bounded.
THEOREM RetriesBounded == Spec => []RetryBudget
<1>1. Inv => RetryBudget
  BY DEF Inv, RetriesCounted, RetryBudget
<1> QED
  BY <1>1, InvAlways, PTL

\* Together: cleanup, shutdown mode and repeat counter stay in step with the flags.
THEOREM BookkeepingHolds == Spec => []ExitBookkeeping
<1>1. CleanupOnce /\ ShutdownHasRequest /\ RetryBudget => ExitBookkeeping
  BY DEF ExitBookkeeping
<1> QED
  BY <1>1, CleanupRunsOnce, ShutdownInStep, RetriesBounded, PTL

-----------------------------------------------------------------------------
(* ExitControl implements ExitPromise *)

\* The first states are first states of the promise.
LEMMA PromiseInitially == Init => Promise!PromiseInit
BY DEF Init, Promise!PromiseInit

\* Each step of zypper is a step of the promise, or none of its business.
LEMMA PromiseStep == Inv /\ [Next]_vars => [Promise!PromiseNext]_(Promise!pvars)
<1> SUFFICES ASSUME Inv, [Next]_vars
             PROVE  Promise!PromiseNext \/ UNCHANGED Promise!pvars
  OBVIOUS
<1> enteredCommit' \in BOOLEAN /\ (guards # {})' \in BOOLEAN
  BY FlagStep DEF Inv, TypeOK, FlagTypes
<1> USE DEF Inv, TypeOK, DataTypes, ExitCodes, GuardsAtRest, flags, codes, mode, ask, history,
            Promise!PromiseNext
<1>1. CASE SigInt
  BY <1>1 DEF SigInt, Promise!Insist
<1>2. CASE SigPipeExits
  BY <1>2 DEF SigPipeExits, LeavingOnce, ImmediateExit, ShouldExit, Promise!Leave
<1>3. CASE SigPipeRequests
  BY <1>3 DEF SigPipeRequests, ShouldExit, Promise!Insist
<1>4. CASE MainCheck
  BY <1>4 DEF MainCheck, ImmediateExit, ShouldExit, Promise!Leave
<1>5. CASE ExitAfterCleanup
  BY <1>5 DEF ExitAfterCleanup, Promise!Vanish
<1>6. CASE \E r \in Receivers : ReportBegin(r)
  BY <1>6 DEF ReportBegin, Promise!Proceed
<1>7. CASE \E r \in Receivers : ReportEnd(r)
  BY <1>7 DEF ReportEnd, Promise!Proceed
<1>8. CASE \E r \in Receivers : ProgressAborts(r)
  BY <1>8 DEF ProgressAborts, ShouldExit, Promise!Proceed
<1>9. CASE \E kind \in Problems, u \in Urls : RequestMedia(kind, u)
  BY <1>9 DEF RequestMedia, Promise!Proceed
<1>10. CASE DownloadProblem
  BY <1>10 DEF DownloadProblem, Promise!Proceed
<1>11. CASE \E a \in Actions : UserReply(a)
  BY <1>11 DEF UserReply, Answer, Withdraws, Promise!Proceed
<1>12. CASE \E a \in Actions : UserKey(a)
  BY <1>12 DEF UserKey, Promise!Proceed
<1>13. CASE EatLine
  BY <1>13 DEF EatLine, Answer, Withdraws, Promise!Proceed
<1>14. CASE AutoReply
  BY <1>14 DEF AutoReply, Answer, Withdraws, Promise!Proceed
<1>15. CASE ClearRequest
  BY <1>15 DEF ClearRequest, Promise!Proceed
<1>16. CASE ClearShutdown
  BY <1>16 DEF ClearShutdown, Promise!Proceed
<1>17. CASE EnterCommit
  BY <1>17 DEF EnterCommit, Promise!Proceed
<1>18. CASE CommitReturns
  BY <1>18 DEF CommitReturns, Promise!Proceed
<1>19. CASE CommitThrows
  BY <1>19 DEF CommitThrows, Promise!Proceed
<1>20. CASE \E c \in {EXIT_INF_REPOS_SKIPPED, EXIT_INF_RPM_SCRIPT_FAILED} : SetExitInfoCode(c)
  BY <1>20 DEF SetExitInfoCode, Promise!Proceed
<1>21. CASE CommandFails
  BY <1>21 DEF CommandFails, Promise!Proceed
<1>22. CASE CommandDone
  BY <1>22 DEF CommandDone, ProcessReturns, Promise!Return
<1>23. CASE ShellCommandDone
  BY <1>23 DEF ShellCommandDone, Promise!Proceed
<1>24. CASE PromptExits
  BY <1>24 DEF PromptExits, ImmediateExit, ShouldExit, Promise!Leave
<1>25. CASE ShellCommand
  BY <1>25 DEF ShellCommand, Promise!Proceed
<1>26. CASE ShellQuit
  BY <1>26 DEF ShellQuit, ProcessReturns, Promise!Return
<1>27. CASE Terminated
  BY <1>27 DEF Terminated, vars, Promise!pvars
<1>28. CASE UNCHANGED vars
  BY <1>28 DEF vars, Promise!pvars
<1>29. CASE PromptFails
  BY <1>29 DEF PromptFails, Promise!Proceed
<1>30. QED
BY <1>1, <1>2, <1>3, <1>4, <1>5, <1>6, <1>7, <1>8, <1>9, <1>10, <1>11, <1>12, <1>13,
     <1>14, <1>15, <1>16, <1>17, <1>18, <1>19, <1>20, <1>21, <1>22, <1>23, <1>24,
     <1>25, <1>26, <1>27, <1>28, <1>29
  DEF Next, Signal, Media, Command, Promise!PromiseNext

\* CTRL-C keeps its promise: requests are obeyed at once, or when the download in
\* progress ends, and the exit status tells what was interrupted.
THEOREM ImplementsPromise == Spec => KeepsPromise
BY InvAlways, PromiseInitially, PromiseStep, PTL DEF Spec, KeepsPromise, Promise!PromiseSpec
=============================================================================
