-------------------------- MODULE SolveAndCommitProofs --------------------------
(***************************************************************************)
(* Proofs about SolveAndCommit, for any command lines, solutions, patches, *)
(* packages and number of commands.  Each safety property has an inductive *)
(* invariant of its own (Verdict, PlanKept, ...); type correctness is      *)
(* proved first.  What is said of exit codes needs to know one thing more  *)
(* of the command lines: the code of purge-kernels says nothing (NoPurge). *)
(***************************************************************************)
EXTENDS SolveAndCommit, TLAPS

USE DEF EXIT_OK, EXIT_ERR_ZYPP, EXIT_ERR_PRIVILEGES, EXIT_ERR_COMMIT, EXIT_INF_REBOOT_NEEDED,
        EXIT_INF_RESTART_NEEDED, EXIT_INF_CAP_NOT_FOUND, EXIT_ON_SIGNAL, NotYet

NoPurge == \A l \in CommandLines : l.cmd # "purge-kernels"

-----------------------------------------------------------------------------
(* Type correctness, the Boolean variables and the others apart *)

\* A command line used is a command line.
LEMMA LineType == line \in CommandLines \cup {NoLine} => line \in CommandLine
<1>1. NoLine \in CommandLine
  BY DEF CommandLine, NoLine, Commands, TriBool
<1>2. CommandLines \subseteq CommandLine
  BY SolveAndCommitAssumption
<1> QED
  BY <1>1, <1>2

\* set_solver_flags leaves a definite setting.
LEMMA SolverFlagsType ==
  ASSUME DataTypes, SetSolverFlags
  PROVE  /\ forceResolution' \in TriBool
         /\ flags' \in [force : BOOLEAN, clean : BOOLEAN]
<1>1. line \in CommandLine
  BY LineType DEF DataTypes
<1>2. ForceResolution \in TriBool
  BY <1>1 DEF ForceResolution, CommandLine, TriBool, DataTypes
<1>3. CleanDeps \in BOOLEAN
  BY <1>1 DEF CleanDeps, DataTypes
<1> QED
  BY <1>2, <1>3 DEF SetSolverFlags

\* At first every variable has its type.
LEMMA TypeInit == Init => TypeOK
<1> SUFFICES ASSUME Init
             PROVE  TypeOK
  OBVIOUS
<1>1. FlagTypes
  BY Zenon DEF Init, FlagTypes
<1>2. flags \in [force : BOOLEAN, clean : BOOLEAN]
  <2>1. flags \in [force : {FALSE}, clean : BOOLEAN]
    BY Zenon DEF Init
  <2> QED
    BY <2>1
<1>3. summary \in [plan : Plan \cup {NoPlan}, hints : SUBSET Patches, srcs : SUBSET Sources]
  <2>1. summary = NoSummary
    BY Zenon DEF Init
  <2> QED
    BY <2>1 DEF NoSummary
<1>4. forceResolution \in TriBool
  BY DEF Init, TriBool
<1>5. cmds \in Nat /\ reported \in Nat
  BY DEF Init, NotYet
<1>6. DataTypes
  BY <1>2, <1>3, <1>4, <1>5, Zenon DEF Init, DataTypes
<1> QED
  BY <1>1, <1>6 DEF TypeOK

\* The Boolean variables stay Boolean.
LEMMA FlagStep == FlagTypes /\ [Next]_vars => FlagTypes'
<1> SUFFICES ASSUME FlagTypes, [Next]_vars
             PROVE  FlagTypes'
  OBVIOUS
<1> USE Zenon DEF FlagTypes, options, runtime, asking, history
<1>1. CASE \E s \in Solutions : SolverSucceeds(s)
  BY <1>1 DEF SolverSucceeds, SetSolverFlags
<1>2. CASE \E problems \in SUBSET Troubles : SolverFails(problems)
  <2> PICK problems \in SUBSET Troubles : SolverFails(problems)
    BY <1>2
  <2>1. (Cardinality(problems) > 1) \in BOOLEAN
    BY SMT
  <2> QED
    BY <2>1 DEF SolverFails
<1>3. CASE SolverTestCase
  BY <1>3 DEF SolverTestCase
<1>4. CASE AutoResolve
  BY <1>4 DEF AutoResolve
<1>5. CASE \E p \in Troubles : ChooseSolution(p)
  BY <1>5 DEF ChooseSolution, AskAboutProblems, GoOn
<1>6. CASE \E p \in Troubles : SkipProblem(p)
  BY <1>6 DEF SkipProblem, AskAboutProblems, GoOn
<1>7. CASE RetryNow
  BY <1>7 DEF RetryNow, AskAboutProblems, GoOn
<1>8. CASE CancelProblems
  BY <1>8 DEF CancelProblems, GiveUp
<1>9. CASE NothingToDo
  BY <1>9 DEF NothingToDo
<1>10. CASE VerifyNeedsRoot
  BY <1>10 DEF VerifyNeedsRoot, GiveUp
<1>11. CASE ShowSummary
  BY <1>11 DEF ShowSummary
<1>12. CASE AnswerYes
  BY <1>12 DEF AnswerYes
<1>13. CASE AnswerNo
  BY <1>13 DEF AnswerNo, GiveUp
<1>14. CASE AnswerP
  BY <1>14 DEF AnswerP
<1>15. CASE PromptFails
  BY <1>15 DEF PromptFails, GiveUp
<1>16. CASE LicensesAgreed
  BY <1>16 DEF LicensesAgreed
<1>17. CASE LicensesRefused
  BY <1>17 DEF LicensesRefused, GiveUp
<1>18. CASE EnterCommit
  BY <1>18 DEF EnterCommit
<1>19. CASE CommitSucceeds
  BY <1>19 DEF CommitSucceeds, CommitMarks
<1>20. CASE \E attempted, done \in BOOLEAN : CommitIncomplete(attempted, done)
  BY <1>20 DEF CommitIncomplete, CommitMarks
<1>21. CASE \E done \in BOOLEAN : CommitThrows(done)
  BY <1>21 DEF CommitThrows, CommitMarks
<1>22. CASE \E done \in BOOLEAN : KilledInCommit(done)
  BY <1>22 DEF KilledInCommit
<1>29. CASE KilledAfterCommit
  BY <1>29 DEF KilledAfterCommit
<1>23. CASE \E p \in Sources, ok \in BOOLEAN : InstallSource(p, ok)
  BY <1>23 DEF InstallSource
<1>24. CASE RebootOrRestart
  BY <1>24 DEF RebootOrRestart
<1>25. CASE FinishCommand
  BY <1>25 DEF FinishCommand
<1>26. CASE \E l \in CommandLines : StartCommand(l)
  BY <1>26 DEF StartCommand
<1>27. CASE UNCHANGED vars
  BY <1>27 DEF vars
<1>28. QED
  BY <1>1, <1>2, <1>3, <1>4, <1>5, <1>6, <1>7, <1>8, <1>9, <1>10, <1>11, <1>12,
     <1>13, <1>14, <1>15, <1>16, <1>17, <1>18, <1>19, <1>20, <1>21, <1>22, <1>23,
     <1>24, <1>25, <1>26, <1>27, <1>29
  DEF Next, Work, Solve, ShowProblems, Confirm, Commit

\* The others stay in their sets.
LEMMA DataStep == DataTypes /\ [Next]_vars => DataTypes'
<1> SUFFICES ASSUME DataTypes, [Next]_vars
             PROVE  DataTypes'
  OBVIOUS
<1> USE SolveAndCommitAssumption, LineType DEF DataTypes, options, runtime, asking, history
<1>1. CASE \E s \in Solutions : SolverSucceeds(s)
  <2> PICK s \in Solutions : SolverSucceeds(s)
    BY <1>1
  <2>1. flags'.force \in BOOLEAN
    BY SolverFlagsType DEF SolverSucceeds
  <2>2. plan' \in Plan
    BY <2>1 DEF SolverSucceeds, Plan
  <2> QED
    BY <2>2, SolverFlagsType DEF SolverSucceeds
<1>2. CASE \E problems \in SUBSET Troubles : SolverFails(problems)
  <2> PICK problems \in SUBSET Troubles : SolverFails(problems)
    BY <1>2
  <2> QED
    BY SolverFlagsType DEF SolverFails
<1>3. CASE SolverTestCase
  BY <1>3 DEF SolverTestCase
<1>4. CASE AutoResolve
  BY <1>4 DEF AutoResolve, AutoSkips
<1>5. CASE \E p \in Troubles : ChooseSolution(p)
  BY <1>5 DEF ChooseSolution, AskAboutProblems, GoOn
<1>6. CASE \E p \in Troubles : SkipProblem(p)
  BY <1>6 DEF SkipProblem, AskAboutProblems, GoOn
<1>7. CASE RetryNow
  BY <1>7 DEF RetryNow, AskAboutProblems, GoOn
<1>8. CASE CancelProblems
  BY <1>8 DEF CancelProblems, GiveUp
<1>9. CASE NothingToDo
  BY <1>9 DEF NothingToDo
<1>10. CASE VerifyNeedsRoot
  BY <1>10 DEF VerifyNeedsRoot, GiveUp
<1>11. CASE ShowSummary
  BY <1>11 DEF ShowSummary
<1>12. CASE AnswerYes
  BY <1>12 DEF AnswerYes
<1>13. CASE AnswerNo
  BY <1>13 DEF AnswerNo, GiveUp
<1>14. CASE AnswerP
  BY <1>14 DEF AnswerP, NoSummary, TriBool
<1>15. CASE PromptFails
  BY <1>15 DEF PromptFails, GiveUp
<1>16. CASE LicensesAgreed
  BY <1>16 DEF LicensesAgreed
<1>17. CASE LicensesRefused
  BY <1>17 DEF LicensesRefused, GiveUp
<1>18. CASE EnterCommit
  BY <1>18 DEF EnterCommit
<1>19. CASE CommitSucceeds
  BY <1>19 DEF CommitSucceeds, CommitMarks
<1>20. CASE \E attempted, done \in BOOLEAN : CommitIncomplete(attempted, done)
  BY <1>20 DEF CommitIncomplete, CommitMarks
<1>21. CASE \E done \in BOOLEAN : CommitThrows(done)
  BY <1>21 DEF CommitThrows, CommitMarks
<1>22. CASE \E done \in BOOLEAN : KilledInCommit(done)
  BY <1>22 DEF KilledInCommit
<1>29. CASE KilledAfterCommit
  BY <1>29 DEF KilledAfterCommit
<1>23. CASE \E p \in Sources, ok \in BOOLEAN : InstallSource(p, ok)
  BY <1>23 DEF InstallSource
<1>24. CASE RebootOrRestart
  BY <1>24 DEF RebootOrRestart
<1>25. CASE FinishCommand
  BY <1>25 DEF FinishCommand, ReturnedCode
<1>26. CASE \E l \in CommandLines : StartCommand(l)
  <2> PICK l \in CommandLines : StartCommand(l)
    BY <1>26
  <2>1. l.marks \subseteq Things /\ l.srcs \subseteq Sources
    BY DEF CommandLine
  <2>2. trouble' \subseteq Troubles
    BY DEF StartCommand, Troubles
  <2>3. forceResolution' \in TriBool
    BY DEF StartCommand, TriBool
  <2>4. summary' \in [plan : Plan \cup {NoPlan}, hints : SUBSET Patches, srcs : SUBSET Sources]
    BY DEF StartCommand, NoSummary
  <2>5. uncleaned' \subseteq Things
    <3>1. line.marks \subseteq Things
      BY DEF CommandLine
    <3> QED
      BY <3>1 DEF StartCommand
  <2> QED
    BY <2>1, <2>2, <2>3, <2>4, <2>5 DEF StartCommand
<1>27. CASE UNCHANGED vars
  BY <1>27 DEF vars
<1>28. QED
  BY <1>1, <1>2, <1>3, <1>4, <1>5, <1>6, <1>7, <1>8, <1>9, <1>10, <1>11, <1>12,
     <1>13, <1>14, <1>15, <1>16, <1>17, <1>18, <1>19, <1>20, <1>21, <1>22, <1>23,
     <1>24, <1>25, <1>26, <1>27, <1>29
  DEF Next, Work, Solve, ShowProblems, Confirm, Commit

\* Every variable always has its type.
LEMMA TypeAlways == Spec => []TypeOK
<1>1. TypeOK /\ [Next]_vars => TypeOK'
  BY FlagStep, DataStep DEF TypeOK
<1> QED
  BY TypeInit, <1>1, PTL DEF Spec

-----------------------------------------------------------------------------
(* The inductive invariants *)

\* What went wrong is in the exit code.
LEMMA VerdictStep == TypeOK /\ Verdict /\ [Next]_vars => Verdict'
<1> SUFFICES ASSUME TypeOK /\ Verdict, [Next]_vars
             PROVE  Verdict'
  OBVIOUS
<1> USE DEF Verdict, TypeOK, FlagTypes, Planning, Asked, Errors, options, runtime, asking, history
<1>1. CASE \E s \in Solutions : SolverSucceeds(s)
  BY <1>1 DEF SolverSucceeds, SetSolverFlags
<1>2. CASE \E problems \in SUBSET Troubles : SolverFails(problems)
  BY <1>2 DEF SolverFails, SetSolverFlags
<1>3. CASE SolverTestCase
  BY <1>3 DEF SolverTestCase
<1>4. CASE AutoResolve
  BY <1>4 DEF AutoResolve
<1>5. CASE \E p \in Troubles : ChooseSolution(p)
  BY <1>5 DEF ChooseSolution, AskAboutProblems, GoOn
<1>6. CASE \E p \in Troubles : SkipProblem(p)
  BY <1>6 DEF SkipProblem, AskAboutProblems, GoOn
<1>7. CASE RetryNow
  BY <1>7 DEF RetryNow, AskAboutProblems, GoOn
<1>8. CASE CancelProblems
  BY <1>8 DEF CancelProblems, GiveUp
<1>9. CASE NothingToDo
  BY <1>9 DEF NothingToDo
<1>10. CASE VerifyNeedsRoot
  BY <1>10 DEF VerifyNeedsRoot, GiveUp
<1>11. CASE ShowSummary
  BY <1>11 DEF ShowSummary
<1>12. CASE AnswerYes
  BY <1>12 DEF AnswerYes
<1>13. CASE AnswerNo
  BY <1>13 DEF AnswerNo, GiveUp
<1>14. CASE AnswerP
  BY <1>14 DEF AnswerP
<1>15. CASE PromptFails
  BY <1>15 DEF PromptFails, GiveUp
<1>16. CASE LicensesAgreed
  BY <1>16 DEF LicensesAgreed
<1>17. CASE LicensesRefused
  BY <1>17 DEF LicensesRefused, GiveUp
<1>18. CASE EnterCommit
  BY <1>18 DEF EnterCommit
<1>19. CASE CommitSucceeds
  BY <1>19 DEF CommitSucceeds, CommitMarks
<1>20. CASE \E attempted, done \in BOOLEAN : CommitIncomplete(attempted, done)
  BY <1>20 DEF CommitIncomplete, CommitMarks
<1>21. CASE \E done \in BOOLEAN : CommitThrows(done)
  BY <1>21 DEF CommitThrows, CommitMarks
<1>22. CASE \E done \in BOOLEAN : KilledInCommit(done)
  BY <1>22 DEF KilledInCommit
<1>29. CASE KilledAfterCommit
  BY <1>29 DEF KilledAfterCommit
<1>23. CASE \E p \in Sources, ok \in BOOLEAN : InstallSource(p, ok)
  BY <1>23 DEF InstallSource
<1>24. CASE RebootOrRestart
  BY <1>24 DEF RebootOrRestart
<1>25. CASE FinishCommand
  BY <1>25 DEF FinishCommand
<1>26. CASE \E l \in CommandLines : StartCommand(l)
  BY <1>26 DEF StartCommand
<1>27. CASE UNCHANGED vars
  BY <1>27 DEF vars
<1>28. QED
  BY <1>1, <1>2, <1>3, <1>4, <1>5, <1>6, <1>7, <1>8, <1>9, <1>10, <1>11, <1>12,
     <1>13, <1>14, <1>15, <1>16, <1>17, <1>18, <1>19, <1>20, <1>21, <1>22, <1>23,
     <1>24, <1>25, <1>26, <1>27, <1>29
  DEF Next, Work, Solve, ShowProblems, Confirm, Commit

\* The plan in the pool is the one in the summary.
LEMMA PlanStep == TypeOK /\ PlanKept /\ [Next]_vars => PlanKept'
<1> SUFFICES ASSUME TypeOK /\ PlanKept, [Next]_vars
             PROVE  PlanKept'
  OBVIOUS
<1> USE DEF PlanKept, TypeOK, DataTypes, Planning, Asked, options, runtime, asking, history
<1>1. CASE \E s \in Solutions : SolverSucceeds(s)
  BY <1>1 DEF SolverSucceeds, SetSolverFlags, Plan, ForceResolution, CleanDeps
<1>2. CASE \E problems \in SUBSET Troubles : SolverFails(problems)
  BY <1>2 DEF SolverFails, SetSolverFlags
<1>3. CASE SolverTestCase
  BY <1>3 DEF SolverTestCase
<1>4. CASE AutoResolve
  BY <1>4 DEF AutoResolve
<1>5. CASE \E p \in Troubles : ChooseSolution(p)
  BY <1>5 DEF ChooseSolution, AskAboutProblems, GoOn
<1>6. CASE \E p \in Troubles : SkipProblem(p)
  BY <1>6 DEF SkipProblem, AskAboutProblems, GoOn
<1>7. CASE RetryNow
  BY <1>7 DEF RetryNow, AskAboutProblems, GoOn
<1>8. CASE CancelProblems
  BY <1>8 DEF CancelProblems, GiveUp
<1>9. CASE NothingToDo
  BY <1>9 DEF NothingToDo
<1>10. CASE VerifyNeedsRoot
  BY <1>10 DEF VerifyNeedsRoot, GiveUp
<1>11. CASE ShowSummary
  BY <1>11 DEF ShowSummary
<1>12. CASE AnswerYes
  BY <1>12 DEF AnswerYes
<1>13. CASE AnswerNo
  BY <1>13 DEF AnswerNo, GiveUp
<1>14. CASE AnswerP
  BY <1>14 DEF AnswerP, NoSummary
<1>15. CASE PromptFails
  BY <1>15 DEF PromptFails, GiveUp
<1>16. CASE LicensesAgreed
  BY <1>16 DEF LicensesAgreed
<1>17. CASE LicensesRefused
  BY <1>17 DEF LicensesRefused, GiveUp
<1>18. CASE EnterCommit
  BY <1>18 DEF EnterCommit
<1>19. CASE CommitSucceeds
  BY <1>19 DEF CommitSucceeds, CommitMarks
<1>20. CASE \E attempted, done \in BOOLEAN : CommitIncomplete(attempted, done)
  BY <1>20 DEF CommitIncomplete, CommitMarks
<1>21. CASE \E done \in BOOLEAN : CommitThrows(done)
  BY <1>21 DEF CommitThrows, CommitMarks
<1>22. CASE \E done \in BOOLEAN : KilledInCommit(done)
  BY <1>22 DEF KilledInCommit
<1>29. CASE KilledAfterCommit
  BY <1>29 DEF KilledAfterCommit
<1>23. CASE \E p \in Sources, ok \in BOOLEAN : InstallSource(p, ok)
  BY <1>23 DEF InstallSource
<1>24. CASE RebootOrRestart
  BY <1>24 DEF RebootOrRestart
<1>25. CASE FinishCommand
  BY <1>25 DEF FinishCommand
<1>26. CASE \E l \in CommandLines : StartCommand(l)
  BY <1>26 DEF StartCommand, NoSummary
<1>27. CASE UNCHANGED vars
  BY <1>27 DEF vars
<1>28. QED
  BY <1>1, <1>2, <1>3, <1>4, <1>5, <1>6, <1>7, <1>8, <1>9, <1>10, <1>11, <1>12,
     <1>13, <1>14, <1>15, <1>16, <1>17, <1>18, <1>19, <1>20, <1>21, <1>22, <1>23,
     <1>24, <1>25, <1>26, <1>27, <1>29
  DEF Next, Work, Solve, ShowProblems, Confirm, Commit

\* The license is agreed to before the commit.
LEMMA LicenseStep == LicenseKept /\ [Next]_vars => LicenseKept'
<1> SUFFICES ASSUME LicenseKept, [Next]_vars
             PROVE  LicenseKept'
  OBVIOUS
<1> USE DEF LicenseKept, options, runtime, asking, history
<1>1. CASE \E s \in Solutions : SolverSucceeds(s)
  BY <1>1 DEF SolverSucceeds, SetSolverFlags
<1>2. CASE \E problems \in SUBSET Troubles : SolverFails(problems)
  BY <1>2 DEF SolverFails, SetSolverFlags
<1>3. CASE SolverTestCase
  BY <1>3 DEF SolverTestCase
<1>4. CASE AutoResolve
  BY <1>4 DEF AutoResolve
<1>5. CASE \E p \in Troubles : ChooseSolution(p)
  BY <1>5 DEF ChooseSolution, AskAboutProblems, GoOn
<1>6. CASE \E p \in Troubles : SkipProblem(p)
  BY <1>6 DEF SkipProblem, AskAboutProblems, GoOn
<1>7. CASE RetryNow
  BY <1>7 DEF RetryNow, AskAboutProblems, GoOn
<1>8. CASE CancelProblems
  BY <1>8 DEF CancelProblems, GiveUp
<1>9. CASE NothingToDo
  BY <1>9 DEF NothingToDo
<1>10. CASE VerifyNeedsRoot
  BY <1>10 DEF VerifyNeedsRoot, GiveUp
<1>11. CASE ShowSummary
  BY <1>11 DEF ShowSummary
<1>12. CASE AnswerYes
  BY <1>12 DEF AnswerYes
<1>13. CASE AnswerNo
  BY <1>13 DEF AnswerNo, GiveUp
<1>14. CASE AnswerP
  BY <1>14 DEF AnswerP
<1>15. CASE PromptFails
  BY <1>15 DEF PromptFails, GiveUp
<1>16. CASE LicensesAgreed
  BY <1>16 DEF LicensesAgreed
<1>17. CASE LicensesRefused
  BY <1>17 DEF LicensesRefused, GiveUp
<1>18. CASE EnterCommit
  BY <1>18 DEF EnterCommit
<1>19. CASE CommitSucceeds
  BY <1>19 DEF CommitSucceeds, CommitMarks
<1>20. CASE \E attempted, done \in BOOLEAN : CommitIncomplete(attempted, done)
  BY <1>20 DEF CommitIncomplete, CommitMarks
<1>21. CASE \E done \in BOOLEAN : CommitThrows(done)
  BY <1>21 DEF CommitThrows, CommitMarks
<1>22. CASE \E done \in BOOLEAN : KilledInCommit(done)
  BY <1>22 DEF KilledInCommit
<1>29. CASE KilledAfterCommit
  BY <1>29 DEF KilledAfterCommit
<1>23. CASE \E p \in Sources, ok \in BOOLEAN : InstallSource(p, ok)
  BY <1>23 DEF InstallSource
<1>24. CASE RebootOrRestart
  BY <1>24 DEF RebootOrRestart
<1>25. CASE FinishCommand
  BY <1>25 DEF FinishCommand
<1>26. CASE \E l \in CommandLines : StartCommand(l)
  BY <1>26 DEF StartCommand
<1>27. CASE UNCHANGED vars
  BY <1>27 DEF vars
<1>28. QED
  BY <1>1, <1>2, <1>3, <1>4, <1>5, <1>6, <1>7, <1>8, <1>9, <1>10, <1>11, <1>12,
     <1>13, <1>14, <1>15, <1>16, <1>17, <1>18, <1>19, <1>20, <1>21, <1>22, <1>23,
     <1>24, <1>25, <1>26, <1>27, <1>29
  DEF Next, Work, Solve, ShowProblems, Confirm, Commit

\* Marks are removed before the next command.
LEMMA MarksStep == TypeOK /\ MarksKept /\ [Next]_vars => MarksKept'
<1> SUFFICES ASSUME TypeOK /\ MarksKept, [Next]_vars
             PROVE  MarksKept'
  OBVIOUS
<1> USE DEF MarksKept, options, runtime, asking, history
<1>1. CASE \E s \in Solutions : SolverSucceeds(s)
  BY <1>1 DEF SolverSucceeds, SetSolverFlags
<1>2. CASE \E problems \in SUBSET Troubles : SolverFails(problems)
  BY <1>2 DEF SolverFails, SetSolverFlags
<1>3. CASE SolverTestCase
  BY <1>3 DEF SolverTestCase
<1>4. CASE AutoResolve
  BY <1>4 DEF AutoResolve
<1>5. CASE \E p \in Troubles : ChooseSolution(p)
  BY <1>5 DEF ChooseSolution, AskAboutProblems, GoOn
<1>6. CASE \E p \in Troubles : SkipProblem(p)
  BY <1>6 DEF SkipProblem, AskAboutProblems, GoOn
<1>7. CASE RetryNow
  BY <1>7 DEF RetryNow, AskAboutProblems, GoOn
<1>8. CASE CancelProblems
  BY <1>8 DEF CancelProblems, GiveUp
<1>9. CASE NothingToDo
  BY <1>9 DEF NothingToDo
<1>10. CASE VerifyNeedsRoot
  BY <1>10 DEF VerifyNeedsRoot, GiveUp
<1>11. CASE ShowSummary
  BY <1>11 DEF ShowSummary
<1>12. CASE AnswerYes
  BY <1>12 DEF AnswerYes
<1>13. CASE AnswerNo
  BY <1>13 DEF AnswerNo, GiveUp
<1>14. CASE AnswerP
  BY <1>14 DEF AnswerP
<1>15. CASE PromptFails
  BY <1>15 DEF PromptFails, GiveUp
<1>16. CASE LicensesAgreed
  BY <1>16 DEF LicensesAgreed
<1>17. CASE LicensesRefused
  BY <1>17 DEF LicensesRefused, GiveUp
<1>18. CASE EnterCommit
  BY <1>18 DEF EnterCommit
<1>19. CASE CommitSucceeds
  BY <1>19 DEF CommitSucceeds, CommitMarks
<1>20. CASE \E attempted, done \in BOOLEAN : CommitIncomplete(attempted, done)
  BY <1>20 DEF CommitIncomplete, CommitMarks
<1>21. CASE \E done \in BOOLEAN : CommitThrows(done)
  BY <1>21 DEF CommitThrows, CommitMarks
<1>22. CASE \E done \in BOOLEAN : KilledInCommit(done)
  BY <1>22 DEF KilledInCommit
<1>29. CASE KilledAfterCommit
  BY <1>29 DEF KilledAfterCommit
<1>23. CASE \E p \in Sources, ok \in BOOLEAN : InstallSource(p, ok)
  BY <1>23 DEF InstallSource
<1>24. CASE RebootOrRestart
  BY <1>24 DEF RebootOrRestart
<1>25. CASE FinishCommand
  BY <1>25 DEF FinishCommand, CleansUpMarks, Declined
<1>26. CASE \E l \in CommandLines : StartCommand(l)
  BY <1>26 DEF StartCommand
<1>27. CASE UNCHANGED vars
  BY <1>27 DEF vars
<1>28. QED
  BY <1>1, <1>2, <1>3, <1>4, <1>5, <1>6, <1>7, <1>8, <1>9, <1>10, <1>11, <1>12,
     <1>13, <1>14, <1>15, <1>16, <1>17, <1>18, <1>19, <1>20, <1>21, <1>22, <1>23,
     <1>24, <1>25, <1>26, <1>27, <1>29
  DEF Next, Work, Solve, ShowProblems, Confirm, Commit

\* What was skipped is in the hints, then in the summary.
LEMMA SkipsStep == TypeOK /\ SkipsKept /\ [Next]_vars => SkipsKept'
<1> SUFFICES ASSUME TypeOK /\ SkipsKept, [Next]_vars
             PROVE  SkipsKept'
  OBVIOUS
<1> USE DEF SkipsKept, Planning, Asked, options, runtime, asking, history
<1>1. CASE \E s \in Solutions : SolverSucceeds(s)
  BY <1>1 DEF SolverSucceeds, SetSolverFlags
<1>2. CASE \E problems \in SUBSET Troubles : SolverFails(problems)
  BY <1>2 DEF SolverFails, SetSolverFlags
<1>3. CASE SolverTestCase
  BY <1>3 DEF SolverTestCase
<1>4. CASE AutoResolve
  BY <1>4 DEF AutoResolve, AutoSkips
<1>5. CASE \E p \in Troubles : ChooseSolution(p)
  BY <1>5 DEF ChooseSolution, AskAboutProblems, GoOn
<1>6. CASE \E p \in Troubles : SkipProblem(p)
  BY <1>6 DEF SkipProblem, AskAboutProblems, GoOn
<1>7. CASE RetryNow
  BY <1>7 DEF RetryNow, AskAboutProblems, GoOn
<1>8. CASE CancelProblems
  BY <1>8 DEF CancelProblems, GiveUp
<1>9. CASE NothingToDo
  BY <1>9 DEF NothingToDo
<1>10. CASE VerifyNeedsRoot
  BY <1>10 DEF VerifyNeedsRoot, GiveUp
<1>11. CASE ShowSummary
  BY <1>11 DEF ShowSummary
<1>12. CASE AnswerYes
  BY <1>12 DEF AnswerYes
<1>13. CASE AnswerNo
  BY <1>13 DEF AnswerNo, GiveUp
<1>14. CASE AnswerP
  BY <1>14, SolveAndCommitAssumption DEF AnswerP, ShowP, TypeOK, DataTypes, NoLine
<1>15. CASE PromptFails
  BY <1>15 DEF PromptFails, GiveUp
<1>16. CASE LicensesAgreed
  BY <1>16 DEF LicensesAgreed
<1>17. CASE LicensesRefused
  BY <1>17 DEF LicensesRefused, GiveUp
<1>18. CASE EnterCommit
  BY <1>18 DEF EnterCommit
<1>19. CASE CommitSucceeds
  BY <1>19 DEF CommitSucceeds, CommitMarks
<1>20. CASE \E attempted, done \in BOOLEAN : CommitIncomplete(attempted, done)
  BY <1>20 DEF CommitIncomplete, CommitMarks
<1>21. CASE \E done \in BOOLEAN : CommitThrows(done)
  BY <1>21 DEF CommitThrows, CommitMarks
<1>22. CASE \E done \in BOOLEAN : KilledInCommit(done)
  BY <1>22 DEF KilledInCommit
<1>29. CASE KilledAfterCommit
  BY <1>29 DEF KilledAfterCommit
<1>23. CASE \E p \in Sources, ok \in BOOLEAN : InstallSource(p, ok)
  BY <1>23 DEF InstallSource
<1>24. CASE RebootOrRestart
  BY <1>24 DEF RebootOrRestart
<1>25. CASE FinishCommand
  BY <1>25 DEF FinishCommand
<1>26. CASE \E l \in CommandLines : StartCommand(l)
  BY <1>26 DEF StartCommand
<1>27. CASE UNCHANGED vars
  BY <1>27 DEF vars
<1>28. QED
  BY <1>1, <1>2, <1>3, <1>4, <1>5, <1>6, <1>7, <1>8, <1>9, <1>10, <1>11, <1>12,
     <1>13, <1>14, <1>15, <1>16, <1>17, <1>18, <1>19, <1>20, <1>21, <1>22, <1>23,
     <1>24, <1>25, <1>26, <1>27, <1>29
  DEF Next, Work, Solve, ShowProblems, Confirm, Commit

\* What God->commit and the watchdog after it make of the mark.
LEMMA CommitMarkFacts ==
  ASSUME TypeOK, PlanKept, MarkerKept, pc = "committing", NEW done \in BOOLEAN, CommitMarks(done),
         executed' = plan, UNCHANGED <<options, line, markerBefore>>
  PROVE  MarkStays' /\ MarkHasCause'
<1> DEFINE Package == done /\ ~DryRunEtc /\ plan.sol.kernel
<1>1. marker' <=> (marker \/ Package) /\ ~watch
  BY Zenon DEF CommitMarks
<1>2. watch <=> PatchRebootRules /\ ~NeedMachineReboot /\ ~marker
  BY Zenon DEF MarkerKept
<1>3. (marker <=> markerBefore) /\ (markerBefore' <=> markerBefore)
  <2>1. pc \in Planning \cup Asked
    BY DEF Asked
  <2>2. marker = markerBefore
    BY <2>1, Zenon DEF MarkerKept
  <2>3. markerBefore' = markerBefore
    OBVIOUS
  <2> QED
    BY <2>2, <2>3
<1>4. MarkStays'
  BY <1>1, <1>2, <1>3, Zenon DEF MarkStays
<1>5. ASSUME marker', ~markerBefore'
      PROVE  /\ executed' # NoPlan
             /\ executed'.sol.kernel /\ ~DryRunEtc'
             /\ ~PatchRebootRules' \/ executed'.sol.patch = "reboot"
  <2>1. Package /\ ~(PatchRebootRules /\ ~NeedMachineReboot)
    BY <1>1, <1>2, <1>3, <1>5, Zenon
  <2>2. plan # NoPlan /\ summary.plan = plan
    BY SolveAndCommitAssumption DEF PlanKept, Asked
  <2>3. (DryRunEtc' <=> DryRunEtc) /\ (PatchRebootRules' <=> PatchRebootRules)
    BY Zenon DEF DryRunEtc, PatchRebootRules, options
  <2>4. NeedMachineReboot => executed'.sol.patch = "reboot"
    BY <2>2 DEF NeedMachineReboot
  <2>5. executed' # NoPlan /\ executed'.sol = plan.sol
    BY <2>2
  <2> QED
    BY <2>1, <2>3, <2>4, <2>5, Zenon
<1> QED
  BY <1>4, <1>5, Zenon DEF MarkHasCause

\* The reboot marker follows the rules of patch.
LEMMA MarkerStep == TypeOK /\ Verdict /\ PlanKept /\ MarkerKept /\ [Next]_vars => MarkerKept'
<1> SUFFICES ASSUME TypeOK /\ Verdict /\ PlanKept /\ MarkerKept, [Next]_vars
             PROVE  MarkerKept'
  OBVIOUS
<1> USE DEF MarkerKept, MarkStays, MarkHasCause, Verdict, PlanKept, TypeOK, FlagTypes, Planning,
        Asked, PatchRebootRules, DryRunEtc, NeedMachineReboot, options, runtime, asking, history
<1>1. CASE \E s \in Solutions : SolverSucceeds(s)
  BY <1>1 DEF SolverSucceeds, SetSolverFlags
<1>2. CASE \E problems \in SUBSET Troubles : SolverFails(problems)
  BY <1>2 DEF SolverFails, SetSolverFlags
<1>3. CASE SolverTestCase
  BY <1>3 DEF SolverTestCase
<1>4. CASE AutoResolve
  BY <1>4 DEF AutoResolve
<1>5. CASE \E p \in Troubles : ChooseSolution(p)
  BY <1>5 DEF ChooseSolution, AskAboutProblems, GoOn
<1>6. CASE \E p \in Troubles : SkipProblem(p)
  BY <1>6 DEF SkipProblem, AskAboutProblems, GoOn
<1>7. CASE RetryNow
  BY <1>7 DEF RetryNow, AskAboutProblems, GoOn
<1>8. CASE CancelProblems
  BY <1>8 DEF CancelProblems, GiveUp
<1>9. CASE NothingToDo
  BY <1>9 DEF NothingToDo
<1>10. CASE VerifyNeedsRoot
  BY <1>10 DEF VerifyNeedsRoot, GiveUp
<1>11. CASE ShowSummary
  BY <1>11 DEF ShowSummary
<1>12. CASE AnswerYes
  BY <1>12 DEF AnswerYes
<1>13. CASE AnswerNo
  BY <1>13 DEF AnswerNo, GiveUp
<1>14. CASE AnswerP
  BY <1>14 DEF AnswerP
<1>15. CASE PromptFails
  BY <1>15 DEF PromptFails, GiveUp
<1>16. CASE LicensesAgreed
  BY <1>16 DEF LicensesAgreed
<1>17. CASE LicensesRefused
  BY <1>17 DEF LicensesRefused, GiveUp
<1>18. CASE EnterCommit
  BY <1>18 DEF EnterCommit
<1>19. CASE CommitSucceeds
  <2>1. CommitMarks(TRUE) /\ pc = "committing" /\ executed' = plan
    BY <1>19, Zenon DEF CommitSucceeds
  <2>2. UNCHANGED <<options, line, markerBefore>>
    BY <1>19, Zenon DEF CommitSucceeds
  <2>3. pc' \in {"finish", "sources"}
    BY <1>19 DEF CommitSucceeds
  <2>4. MarkStays' /\ MarkHasCause'
    BY <2>1, <2>2, CommitMarkFacts, Zenon
  <2> HIDE DEF MarkStays, MarkHasCause
  <2> QED
    BY <2>3, <2>4
<1>20. CASE \E attempted, done \in BOOLEAN : CommitIncomplete(attempted, done)
  <2> PICK attempted \in BOOLEAN, done \in BOOLEAN : CommitIncomplete(attempted, done)
    BY <1>20, Zenon
  <2>1. CommitMarks(attempted /\ done) /\ pc = "committing" /\ executed' = plan
    BY Zenon DEF CommitIncomplete
  <2>2. UNCHANGED <<options, line, markerBefore>>
    BY Zenon DEF CommitIncomplete
  <2>3. pc' = "finish"
    BY Zenon DEF CommitIncomplete
  <2>4. (attempted /\ done) \in BOOLEAN
    OBVIOUS
  <2>5. MarkStays' /\ MarkHasCause'
    <3> DEFINE installed == attempted /\ done
    <3>1. installed \in BOOLEAN /\ CommitMarks(installed)
      BY <2>1, <2>4
    <3> HIDE DEF installed
    <3> QED
      BY <2>1, <2>2, <3>1, CommitMarkFacts, Zenon
  <2> HIDE DEF MarkStays, MarkHasCause
  <2> QED
    BY <2>3, <2>5
<1>21. CASE \E done \in BOOLEAN : CommitThrows(done)
  <2> PICK done \in BOOLEAN : CommitThrows(done)
    BY <1>21, Zenon
  <2>1. CommitMarks(done) /\ pc = "committing" /\ executed' = plan
    BY Zenon DEF CommitThrows
  <2>2. UNCHANGED <<options, line, markerBefore>>
    BY Zenon DEF CommitThrows
  <2>3. pc' = "finish"
    BY Zenon DEF CommitThrows
  <2>4. done \in BOOLEAN /\ CommitMarks(done)
    BY <2>1
  <2>5. MarkStays' /\ MarkHasCause'
    <3> HIDE DEF TypeOK, FlagTypes, MarkerKept, PlanKept, CommitMarks
    <3> QED
      BY <2>1, <2>2, <2>4, CommitMarkFacts, Zenon
  <2> HIDE DEF MarkStays, MarkHasCause
  <2> QED
    BY <2>3, <2>5
<1>22. CASE \E done \in BOOLEAN : KilledInCommit(done)
  <2> PICK done \in BOOLEAN : KilledInCommit(done)
    BY <1>22, Zenon
  <2>1. /\ pc = "committing" /\ executed' = plan /\ pc' = "killed" /\ outcome' = "failed"
        /\ UNCHANGED <<options, line, markerBefore>>
    BY Zenon DEF KilledInCommit
  <2>2. marker' <=> marker \/ (done /\ ~DryRunEtc /\ plan.sol.kernel)
    BY Zenon DEF KilledInCommit
  <2>3. marker <=> markerBefore
    BY <2>1, Zenon DEF MarkerKept, Asked
  <2>4. plan # NoPlan
    BY <2>1, SolveAndCommitAssumption DEF PlanKept, Asked
  <2>5. DryRunEtc' <=> DryRunEtc
    BY <2>1, Zenon DEF DryRunEtc
  <2>6. MarkStays'
    BY <2>1, <2>2, <2>3, Zenon DEF MarkStays
  <2>7. ASSUME marker', ~markerBefore'
        PROVE  executed'.sol.kernel /\ ~DryRunEtc'
    BY <2>1, <2>2, <2>3, <2>5, <2>7, Zenon
  <2>8. MarkHasCause'
    BY <2>1, <2>4, <2>7, Zenon DEF MarkHasCause
  <2> HIDE DEF MarkStays, MarkHasCause
  <2> QED
    BY <2>1, <2>6, <2>8
<1>29. CASE KilledAfterCommit
  <2>1. /\ pc = "sources" /\ pc' = "killed"
        /\ UNCHANGED <<options, line, marker, markerBefore, executed, outcome>>
    BY <1>29, Zenon DEF KilledAfterCommit, history
  <2>2. (DryRunEtc' <=> DryRunEtc) /\ (PatchRebootRules' <=> PatchRebootRules)
    BY <2>1, Zenon DEF DryRunEtc, PatchRebootRules, options
  <2>3. MarkStays'
    BY <2>1, Zenon DEF MarkerKept, MarkStays
  <2>4. MarkHasCause'
    BY <2>1, <2>2, Zenon DEF MarkerKept, MarkHasCause
  <2> HIDE DEF MarkStays, MarkHasCause
  <2> QED
    BY <2>1, <2>3, <2>4
<1>23. CASE \E p \in Sources, ok \in BOOLEAN : InstallSource(p, ok)
  BY <1>23 DEF InstallSource
<1>24. CASE RebootOrRestart
  <2>1. /\ pc = "sources" /\ pc' = "finish" /\ (marker' <=> marker \/ NeedMachineReboot)
        /\ UNCHANGED <<options, line, markerBefore, executed, outcome>>
    BY <1>24, Zenon DEF RebootOrRestart, history
  <2>2. (DryRunEtc' <=> DryRunEtc) /\ (PatchRebootRules' <=> PatchRebootRules)
    BY <2>1, Zenon DEF DryRunEtc, PatchRebootRules, options
  <2>3. NeedMachineReboot => executed.sol.patch = "reboot"
    BY <2>1, Zenon DEF PlanKept, NeedMachineReboot
  <2>4. executed # NoPlan /\ outcome # "failed"
    BY <2>1, SolveAndCommitAssumption DEF PlanKept, Verdict
  <2>5. MarkStays'
    BY <2>1, Zenon DEF MarkerKept, MarkStays
  <2>6. MarkHasCause'
    BY <2>1, <2>2, <2>3, <2>4, Zenon DEF MarkerKept, MarkHasCause
  <2> HIDE DEF MarkStays, MarkHasCause
  <2> QED
    BY <2>1, <2>5, <2>6
<1>25. CASE FinishCommand
  BY <1>25 DEF FinishCommand
<1>26. CASE \E l \in CommandLines : StartCommand(l)
  BY <1>26 DEF StartCommand
<1>27. CASE UNCHANGED vars
  BY <1>27 DEF vars
<1>28. QED
  BY <1>1, <1>2, <1>3, <1>4, <1>5, <1>6, <1>7, <1>8, <1>9, <1>10, <1>11, <1>12,
     <1>13, <1>14, <1>15, <1>16, <1>17, <1>18, <1>19, <1>20, <1>21, <1>22, <1>23,
     <1>24, <1>25, <1>26, <1>27, <1>29
  DEF Next, Work, Solve, ShowProblems, Confirm, Commit

\* A reboot patch leaves the marker.
LEMMA RebootStep == TypeOK /\ PlanKept /\ Verdict /\ RebootKept /\ [Next]_vars => RebootKept'
<1> SUFFICES ASSUME TypeOK /\ PlanKept /\ Verdict /\ RebootKept, [Next]_vars
             PROVE  RebootKept'
  OBVIOUS
<1> USE DEF RebootKept, PlanKept, Verdict, Planning, Asked, Errors, options, runtime, asking, history
<1>1. CASE \E s \in Solutions : SolverSucceeds(s)
  BY <1>1 DEF SolverSucceeds, SetSolverFlags
<1>2. CASE \E problems \in SUBSET Troubles : SolverFails(problems)
  BY <1>2 DEF SolverFails, SetSolverFlags
<1>3. CASE SolverTestCase
  BY <1>3 DEF SolverTestCase
<1>4. CASE AutoResolve
  BY <1>4 DEF AutoResolve
<1>5. CASE \E p \in Troubles : ChooseSolution(p)
  BY <1>5 DEF ChooseSolution, AskAboutProblems, GoOn
<1>6. CASE \E p \in Troubles : SkipProblem(p)
  BY <1>6 DEF SkipProblem, AskAboutProblems, GoOn
<1>7. CASE RetryNow
  BY <1>7 DEF RetryNow, AskAboutProblems, GoOn
<1>8. CASE CancelProblems
  BY <1>8 DEF CancelProblems, GiveUp
<1>9. CASE NothingToDo
  BY <1>9 DEF NothingToDo
<1>10. CASE VerifyNeedsRoot
  BY <1>10 DEF VerifyNeedsRoot, GiveUp
<1>11. CASE ShowSummary
  BY <1>11 DEF ShowSummary
<1>12. CASE AnswerYes
  BY <1>12 DEF AnswerYes
<1>13. CASE AnswerNo
  BY <1>13 DEF AnswerNo, GiveUp
<1>14. CASE AnswerP
  BY <1>14 DEF AnswerP
<1>15. CASE PromptFails
  BY <1>15 DEF PromptFails, GiveUp
<1>16. CASE LicensesAgreed
  BY <1>16 DEF LicensesAgreed
<1>17. CASE LicensesRefused
  BY <1>17 DEF LicensesRefused, GiveUp
<1>18. CASE EnterCommit
  BY <1>18 DEF EnterCommit
<1>19. CASE CommitSucceeds
  BY <1>19 DEF CommitSucceeds, CommitMarks
<1>20. CASE \E attempted, done \in BOOLEAN : CommitIncomplete(attempted, done)
  BY <1>20 DEF CommitIncomplete, CommitMarks
<1>21. CASE \E done \in BOOLEAN : CommitThrows(done)
  BY <1>21 DEF CommitThrows, CommitMarks
<1>22. CASE \E done \in BOOLEAN : KilledInCommit(done)
  BY <1>22 DEF KilledInCommit
<1>29. CASE KilledAfterCommit
  BY <1>29 DEF KilledAfterCommit
<1>23. CASE \E p \in Sources, ok \in BOOLEAN : InstallSource(p, ok)
  BY <1>23 DEF InstallSource
<1>24. CASE RebootOrRestart
  <2> SUFFICES ASSUME executed'.sol.patch = "reboot"
               PROVE  marker'
    BY DEF RebootKept
  <2>1. NeedMachineReboot
    BY <1>24 DEF RebootOrRestart, PlanKept, NeedMachineReboot, history
  <2> QED
    BY <1>24, <2>1, Zenon DEF RebootOrRestart
<1>25. CASE FinishCommand
  BY <1>25 DEF FinishCommand
<1>26. CASE \E l \in CommandLines : StartCommand(l)
  BY <1>26 DEF StartCommand
<1>27. CASE UNCHANGED vars
  BY <1>27 DEF vars
<1>28. QED
  BY <1>1, <1>2, <1>3, <1>4, <1>5, <1>6, <1>7, <1>8, <1>9, <1>10, <1>11, <1>12,
     <1>13, <1>14, <1>15, <1>16, <1>17, <1>18, <1>19, <1>20, <1>21, <1>22, <1>23,
     <1>24, <1>25, <1>26, <1>27, <1>29
  DEF Next, Work, Solve, ShowProblems, Confirm, Commit

\* The parts of the invariant hold at first.
LEMMA KeptInit == Init => Verdict /\ PlanKept /\ LicenseKept /\ SkipsKept /\ MarkerKept /\ RebootKept
BY DEF Init, Verdict, PlanKept, LicenseKept, SkipsKept, MarkerKept, MarkStays, MarkHasCause, RebootKept,
       Planning, Asked

\* No mark is set at first.
LEMMA MarksInit == Init => MarksKept
BY DEF Init, MarksKept, NoLine, Declined

\* The parts of the invariant always hold.
LEMMA Always == Spec => [](TypeOK /\ Verdict /\ PlanKept /\ LicenseKept /\ SkipsKept /\ MarkerKept
                           /\ RebootKept)
BY TypeAlways, KeptInit, VerdictStep, PlanStep, LicenseStep, SkipsStep, MarkerStep, RebootStep, PTL
   DEF Spec

-----------------------------------------------------------------------------
(* What follows from them *)

\* Every variable of the session keeps its type: options, resolver flags, marks,
\* plan, summary, exit codes.
THEOREM TypeCorrect == Spec => []TypeOK
BY TypeAlways

\* confirm_licenses: without a user and without --auto-agree-with-licenses no plan with
\* a license to accept gets to God->commit.
THEOREM LicensesNeedAUser == Spec => []NoLicenseUnattended
<1>1. LicenseKept => NoLicenseUnattended
  BY DEF LicenseKept, NoLicenseUnattended
<1> QED
  BY <1>1, Always, PTL

\* show_problems and the summary: the patches that were skipped automatically are in
\* the summary that is agreed to.
THEOREM SkipsAreShown == Spec => []SkippedPatchesShown
<1>1. SkipsKept => SkippedPatchesShown
  BY DEF SkipsKept, SkippedPatchesShown, Asked
<1> QED
  BY <1>1, Always, PTL

\* shellCleanup: a command carries out no mark of an earlier command of the shell, but for
\* what removeptf (or whichever command it does not clean up after) marked and did not
\* carry out since the last one it cleaned up after.
THEOREM MarksAreOwn == Spec => []OnlyOwnMarks
<1>1. MarksKept => OnlyOwnMarks
  BY DEF MarksKept, OnlyOwnMarks
<1>2. TypeOK /\ MarksKept /\ [Next]_vars => MarksKept'
  BY MarksStep
<1> QED
  BY <1>1, <1>2, MarksInit, TypeAlways, PTL DEF Spec

\* A mark for a reboot that was there stays, in a command and where one was killed.
THEOREM MarkIsKept == Spec => []MarkStays
<1>1. MarkerKept => MarkStays
  BY DEF MarkerKept
<1> QED
  BY <1>1, Always, PTL

\* PatchRebootRulesWatchdog: a new mark for a reboot comes from a patch, or from a package where
\* patches do not rule, or where the commit was killed.
THEOREM MarkIsCaused == Spec => []MarkHasCause
<1>1. MarkerKept => MarkHasCause
  BY DEF MarkerKept
<1> QED
  BY <1>1, Always, PTL

-----------------------------------------------------------------------------
(* The end of a command and its exit code *)

\* Only FinishCommand ends a command.
LEMMA IdleStep ==
  ASSUME [Next]_vars, Ended'
  PROVE  FinishCommand \/ UNCHANGED vars
<1> USE DEF Ended, options, runtime, asking, history
<1>1. CASE \E s \in Solutions : SolverSucceeds(s)
  BY <1>1 DEF SolverSucceeds, SetSolverFlags
<1>2. CASE \E problems \in SUBSET Troubles : SolverFails(problems)
  BY <1>2 DEF SolverFails, SetSolverFlags
<1>3. CASE SolverTestCase
  BY <1>3 DEF SolverTestCase
<1>4. CASE AutoResolve
  BY <1>4 DEF AutoResolve
<1>5. CASE \E p \in Troubles : ChooseSolution(p)
  BY <1>5 DEF ChooseSolution, AskAboutProblems, GoOn
<1>6. CASE \E p \in Troubles : SkipProblem(p)
  BY <1>6 DEF SkipProblem, AskAboutProblems, GoOn
<1>7. CASE RetryNow
  BY <1>7 DEF RetryNow, AskAboutProblems, GoOn
<1>8. CASE CancelProblems
  BY <1>8 DEF CancelProblems, GiveUp
<1>9. CASE NothingToDo
  BY <1>9 DEF NothingToDo
<1>10. CASE VerifyNeedsRoot
  BY <1>10 DEF VerifyNeedsRoot, GiveUp
<1>11. CASE ShowSummary
  BY <1>11 DEF ShowSummary
<1>12. CASE AnswerYes
  BY <1>12 DEF AnswerYes
<1>13. CASE AnswerNo
  BY <1>13 DEF AnswerNo, GiveUp
<1>14. CASE AnswerP
  BY <1>14 DEF AnswerP
<1>15. CASE PromptFails
  BY <1>15 DEF PromptFails, GiveUp
<1>16. CASE LicensesAgreed
  BY <1>16 DEF LicensesAgreed
<1>17. CASE LicensesRefused
  BY <1>17 DEF LicensesRefused, GiveUp
<1>18. CASE EnterCommit
  BY <1>18 DEF EnterCommit
<1>19. CASE CommitSucceeds
  BY <1>19 DEF CommitSucceeds, CommitMarks
<1>20. CASE \E attempted, done \in BOOLEAN : CommitIncomplete(attempted, done)
  BY <1>20 DEF CommitIncomplete, CommitMarks
<1>21. CASE \E done \in BOOLEAN : CommitThrows(done)
  BY <1>21 DEF CommitThrows, CommitMarks
<1>22. CASE \E done \in BOOLEAN : KilledInCommit(done)
  BY <1>22 DEF KilledInCommit
<1>29. CASE KilledAfterCommit
  BY <1>29 DEF KilledAfterCommit
<1>23. CASE \E p \in Sources, ok \in BOOLEAN : InstallSource(p, ok)
  BY <1>23 DEF InstallSource
<1>24. CASE RebootOrRestart
  BY <1>24 DEF RebootOrRestart
<1>25. CASE FinishCommand
  BY <1>25
<1>26. CASE \E l \in CommandLines : StartCommand(l)
  BY <1>26 DEF StartCommand
<1>27. CASE UNCHANGED vars
  BY <1>27
<1>28. QED
  BY <1>1, <1>2, <1>3, <1>4, <1>5, <1>6, <1>7, <1>8, <1>9, <1>10, <1>11, <1>12,
     <1>13, <1>14, <1>15, <1>16, <1>17, <1>18, <1>19, <1>20, <1>21, <1>22, <1>23,
     <1>24, <1>25, <1>26, <1>27, <1>29
  DEF Next, Work, Solve, ShowProblems, Confirm, Commit

\* Without purge-kernels the code returned is the one set.
LEMMA NotPurging ==
  ASSUME NoPurge, DataTypes
  PROVE  ReturnedCode = exitCode
BY DEF NoPurge, DataTypes, NoLine, ReturnedCode

\* No step ends a command with 0 that left something undone.
LEMMA ZeroStep ==
  ASSUME NoPurge
  PROVE  TypeOK /\ Verdict /\ ZeroMeansDone /\ [Next]_vars => ZeroMeansDone'
<1> SUFFICES ASSUME TypeOK, Verdict, ZeroMeansDone, [Next]_vars, Ended', (reported = EXIT_OK)'
             PROVE  outcome' \in {"nothing", "complete", "tested"} /\ ~srcFailed'
  BY DEF ZeroMeansDone
<1>1. CASE FinishCommand
  <2>1. exitCode = EXIT_OK
    BY <1>1, NotPurging DEF FinishCommand, TypeOK
  <2> QED
    BY <1>1, <2>1 DEF FinishCommand, Verdict, Errors, TypeOK, DataTypes
<1>2. CASE UNCHANGED vars
  BY <1>2 DEF vars, history, ZeroMeansDone, Ended
<1> QED
  BY <1>1, <1>2, IdleStep

\* No step ends a command that needs a reboot without the marker.
LEMMA RebootEndStep ==
  ASSUME NoPurge
  PROVE  TypeOK /\ Verdict /\ RebootKept /\ RebootRemembered /\ [Next]_vars => RebootRemembered'
<1> SUFFICES ASSUME TypeOK, Verdict, RebootKept, RebootRemembered, [Next]_vars, Ended',
                    outcome' \in {"complete", "tested"}, executed'.sol.patch = "reboot",
                    reported' \notin 1..99 \cup {EXIT_INF_CAP_NOT_FOUND}
             PROVE  marker'
  BY DEF RebootRemembered
<1>1. CASE FinishCommand
  <2>1. exitCode \notin Errors \cup {EXIT_INF_CAP_NOT_FOUND}
    BY <1>1, NotPurging DEF FinishCommand, TypeOK, Errors
  <2> QED
    BY <1>1, <2>1 DEF FinishCommand, RebootKept
<1>2. CASE UNCHANGED vars
  BY <1>2 DEF vars, history, RebootRemembered, Ended
<1> QED
  BY <1>1, <1>2, IdleStep

\* Nothing has ended at first.
LEMMA EndInit == Init => ZeroMeansDone /\ RebootRemembered
BY DEF Init, ZeroMeansDone, RebootRemembered, Ended

\* zypper(8), exit code 0: but for purge-kernels, a command that returns 0 was not
\* refused, and nothing of its transaction or its source packages failed.
THEOREM ZeroIsDone ==
  ASSUME NoPurge
  PROVE  Spec => []ZeroMeansDone
<1>1. TypeOK /\ Verdict /\ ZeroMeansDone /\ [Next]_vars => ZeroMeansDone'
  BY ZeroStep
<1> QED
  BY <1>1, EndInit, Always, PTL DEF Spec

\* bsc#1217873: an installed patch that needs a reboot leaves /run/reboot-needed.
THEOREM RebootIsRemembered ==
  ASSUME NoPurge
  PROVE  Spec => []RebootRemembered
<1>1. TypeOK /\ Verdict /\ RebootKept /\ RebootRemembered /\ [Next]_vars => RebootRemembered'
  BY RebootEndStep
<1> QED
  BY <1>1, EndInit, Always, PTL DEF Spec

-----------------------------------------------------------------------------
(* SolveAndCommit implements Consent *)

\* The first states are first states of the promise.
LEMMA ConsentInitially == Init => Promise!ConsentInit
BY DEF Init, Promise!ConsentInit, NoSummary

\* Each step is a step of the abstract specification, or none of its business.
LEMMA ConsentStep ==
  ASSUME NoPurge
  PROVE  TypeOK /\ Verdict /\ PlanKept /\ [Next]_vars => [Promise!ConsentNext]_(Promise!cvars)
<1> SUFFICES ASSUME TypeOK /\ Verdict /\ PlanKept, [Next]_vars
             PROVE  [Promise!ConsentNext]_(Promise!cvars)
  OBVIOUS
<1> USE DEF TypeOK, DataTypes, Verdict, PlanKept, Planning, Asked, Errors,
        Promise!ConsentNext, options, runtime, asking, history
<1>1. CASE \E s \in Solutions : SolverSucceeds(s)
  BY <1>1 DEF SolverSucceeds, SetSolverFlags, Promise!cvars
<1>2. CASE \E problems \in SUBSET Troubles : SolverFails(problems)
  BY <1>2 DEF SolverFails, SetSolverFlags, Promise!cvars
<1>3. CASE SolverTestCase
  BY <1>3 DEF SolverTestCase, Promise!Refuse
<1>4. CASE AutoResolve
  BY <1>4 DEF AutoResolve, Promise!cvars
<1>5. CASE \E p \in Troubles : ChooseSolution(p)
  BY <1>5 DEF ChooseSolution, AskAboutProblems, GoOn, Promise!cvars
<1>6. CASE \E p \in Troubles : SkipProblem(p)
  BY <1>6 DEF SkipProblem, AskAboutProblems, GoOn, Promise!cvars
<1>7. CASE RetryNow
  BY <1>7 DEF RetryNow, AskAboutProblems, GoOn, Promise!cvars
<1>8. CASE CancelProblems
  BY <1>8 DEF CancelProblems, GiveUp, Promise!Refuse
<1>9. CASE NothingToDo
  BY <1>9 DEF NothingToDo, Promise!Refuse
<1>10. CASE VerifyNeedsRoot
  BY <1>10 DEF VerifyNeedsRoot, GiveUp, Promise!Refuse
<1>11. CASE ShowSummary
  BY <1>11 DEF ShowSummary, Promise!Offer
<1>12. CASE AnswerYes
  BY <1>12 DEF AnswerYes, Promise!Accept
<1>13. CASE AnswerNo
  BY <1>13 DEF AnswerNo, GiveUp, Promise!Refuse
<1>14. CASE AnswerP
  BY <1>14 DEF AnswerP, Promise!Reconsider, NoSummary
<1>15. CASE PromptFails
  BY <1>15 DEF PromptFails, GiveUp, Promise!Refuse
<1>16. CASE LicensesAgreed
  BY <1>16 DEF LicensesAgreed, Promise!cvars
<1>17. CASE LicensesRefused
  BY <1>17 DEF LicensesRefused, GiveUp, Promise!Refuse
<1>18. CASE EnterCommit
  BY <1>18 DEF EnterCommit, Promise!cvars
<1>19. CASE CommitSucceeds
  BY <1>19 DEF CommitSucceeds, CommitMarks, Promise!Execute
<1>20. CASE \E attempted, done \in BOOLEAN : CommitIncomplete(attempted, done)
  BY <1>20 DEF CommitIncomplete, CommitMarks, Promise!Execute
<1>21. CASE \E done \in BOOLEAN : CommitThrows(done)
  BY <1>21 DEF CommitThrows, CommitMarks, Promise!Execute
<1>22. CASE \E done \in BOOLEAN : KilledInCommit(done)
  BY <1>22 DEF KilledInCommit, Promise!Execute
<1>29. CASE KilledAfterCommit
  BY <1>29 DEF KilledAfterCommit, Promise!cvars
<1>23. CASE \E p \in Sources, ok \in BOOLEAN : InstallSource(p, ok)
  BY <1>23 DEF InstallSource, Promise!cvars
<1>24. CASE RebootOrRestart
  BY <1>24 DEF RebootOrRestart, Promise!cvars
<1>25. CASE FinishCommand
  BY <1>25, NotPurging DEF FinishCommand, Promise!Report
<1>26. CASE \E l \in CommandLines : StartCommand(l)
  BY <1>26 DEF StartCommand, Promise!Begin, NoSummary
<1>27. CASE UNCHANGED vars
  BY <1>27 DEF vars, Promise!cvars
<1>28. QED
  BY <1>1, <1>2, <1>3, <1>4, <1>5, <1>6, <1>7, <1>8, <1>9, <1>10, <1>11, <1>12,
     <1>13, <1>14, <1>15, <1>16, <1>17, <1>18, <1>19, <1>20, <1>21, <1>22, <1>23,
     <1>24, <1>25, <1>26, <1>27, <1>29
  DEF Next, Work, Solve, ShowProblems, Confirm, Commit

\* Together: the skips are shown and the licenses had somebody to accept them.
THEOREM AgreementIsInformed == Spec => []AgreedInformed
<1>1. SkippedPatchesShown /\ NoLicenseUnattended => AgreedInformed
  BY DEF AgreedInformed
<1> QED
  BY <1>1, SkipsAreShown, LicensesNeedAUser, PTL

\* Together: the reboot marker is right, unless purge-kernels hides an error.
THEOREM MarkerIsRight ==
  ASSUME NoPurge
  PROVE  Spec => []MarkerRight
<1>1. RebootRemembered /\ MarkStays /\ MarkHasCause => MarkerRight
  BY DEF MarkerRight
<1>2. Spec => []RebootRemembered
  BY RebootIsRemembered
<1> QED
  BY <1>1, <1>2, MarkIsKept, MarkIsCaused, PTL

\* What was shown and agreed to is what is executed, and whoever refuses, or whose
\* transaction fails, gets an error.
THEOREM ImplementsConsent ==
  ASSUME NoPurge
  PROVE  Spec => HonoursConsent
<1>1. TypeOK /\ Verdict /\ PlanKept /\ [Next]_vars => [Promise!ConsentNext]_(Promise!cvars)
  BY ConsentStep
<1> QED
  BY <1>1, ConsentInitially, Always, PTL DEF Spec, HonoursConsent, Promise!ConsentSpec
=============================================================================
