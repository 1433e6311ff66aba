----------------------------- MODULE StartupProofs -----------------------------
(***************************************************************************)
(* Proofs about Startup, for any scenarios: any global options, any lines  *)
(* typed, any environment.  The lock is followed from assertZYppPtrGod to  *)
(* the command, over the commands of a shell and to a child; the global    *)
(* options are followed through the passes in which they are written.      *)
(***************************************************************************)
EXTENDS Startup, FiniteSetTheorems, TLAPS

BeforeLock == {"parse", "write", "command", "options", "lock", "ask", "quit", "wait", "relock"}

\* Who has the lock: the zypp pointer and the lock file agree; a process without a shell
\* takes the lock once, a shell has it from its first command on.
LockKept ==
  /\ god \in {"none", "readonly", "locked"}
  /\ god = "locked" <=> holder = "zypper"
  /\ ~shell /\ pc \in BeforeLock => god = "none"
  /\ pc = "prompt" => shell
  /\ shell => pc \notin {"handover", "child"}
  /\ shell => holder = "zypper" \/ Env.readonlyHack
  /\ pc \in {"check", "execute"} => WithoutLock \/ holder = "zypper" \/ ReadOnlyHack

\* A dry run is one of this command.
DryRunKept ==
  pc \in {"lock", "ask", "quit", "wait", "relock", "check", "execute"} =>
    (dryRun => "dry-run" \in line.flags)

\* The conditions were met before the command started.
ConditionsKept == pc = "execute" => ~NotRoot /\ ~Unwritable

\* A status of another program is the one zypper ended with.
StatusKept == child >= 0 => pc = "done" /\ exitCode = child

\* The lock is not zypper's while another program runs.
Released == pc = "child" => god = "none" /\ holder # "zypper"

\* What is looked up stays the same while the options and the line do.
LEMMA SameCommand ==
  ASSUME UNCHANGED <<conf, todo, scene, shell, dryRun>>
  PROVE  /\ Command' = Command /\ AtWork' = AtWork
         /\ WithoutLock' = WithoutLock /\ ReadOnlyHack' = ReadOnlyHack
         /\ NotRoot' = NotRoot /\ Unwritable' = Unwritable
BY DEF Command, AtWork, HelpRequested, Flags, WithoutLock, ReadOnlyHack, NotRoot, Unwritable,
       RootReadOnly, ChangedRoot, Env, line

\* The lock file and the zypp pointer stay together.
LEMMA LockStep == LockKept /\ [Next]_vars => LockKept'
<1> SUFFICES ASSUME LockKept, [Next]_vars
             PROVE  LockKept'
  OBVIOUS
<1> USE DEF LockKept, BeforeLock, Env, commandVars, lockVars, optionVars
<1>1. CASE ParseGlobalOptions
  BY <1>1 DEF ParseGlobalOptions, Finish
<1>2. CASE NextPass
  BY <1>2 DEF NextPass
<1>3. CASE WriteOption
  BY <1>3 DEF WriteOption, Finish
<1>4. CASE AllWritten
  BY <1>4 DEF AllWritten
<1>5. CASE LookUp
  BY <1>5 DEF LookUp, Back
<1>6. CASE ParseCommandOptions
  BY <1>6 DEF ParseCommandOptions, Back, ResetAndSet
<1>7. CASE AssertZYppPtrGod
  <2>1. UNCHANGED <<conf, todo, scene, shell, dryRun>>
    BY <1>7 DEF AssertZYppPtrGod
  <2>2. WithoutLock' = WithoutLock /\ ReadOnlyHack' = ReadOnlyHack
    BY <2>1, SameCommand
  <2>3. Env.readonlyHack => ReadOnlyHack
    BY DEF ReadOnlyHack
  <2>4. QED
    BY <1>7, <2>1, <2>2, <2>3 DEF AssertZYppPtrGod, Back
<1>8. CASE PromptUnattended
  BY <1>8 DEF PromptUnattended, Proceed, Back
<1>9. CASE SuggestQuit
  BY <1>9 DEF SuggestQuit
<1>10. CASE LookAgain
  BY <1>10 DEF LookAgain
<1>11. CASE LockAgain
  BY <1>11 DEF LockAgain, Back
<1>12. CASE CheckConditions
  <2>1. UNCHANGED <<conf, todo, scene, shell, dryRun, god, holder>>
    BY <1>12 DEF CheckConditions
  <2>2. MayWrap => ~shell
    BY DEF MayWrap
  <2>3. QED
    BY <1>12, <2>1, <2>2, SameCommand DEF CheckConditions, Back
<1>13. CASE Execute
  BY <1>13 DEF Execute, Back
<1>14. CASE EnterShell
  <2>1. scene' = scene /\ god' = god /\ holder' = holder /\ pc' = "prompt" /\ shell'
    BY <1>14 DEF EnterShell
  <2>2. Command = "shell"
    BY <1>14 DEF EnterShell, AtWork
  <2>3. ~WithoutLock /\ (ReadOnlyHack => Env.readonlyHack)
    BY <2>2 DEF WithoutLock, Unlocked, Subcommand, ReadOnlyHack, ReadOnly
  <2>4. holder = "zypper" \/ Env.readonlyHack
    BY <1>14, <2>3 DEF EnterShell
  <2>5. QED
    BY <2>1, <2>4
<1>15. CASE Quit
  BY <1>15 DEF Quit, Finish
<1>16. CASE RunSubcommand
  BY <1>16 DEF RunSubcommand, Back
<1>17. CASE HandOver
  BY <1>17 DEF HandOver, CleanupForSubcommand, Finish
<1>18. CASE UserAnswers
  BY <1>18 DEF UserAnswers, Proceed, Back
<1>19. CASE ReadLine
  BY <1>19 DEF ReadLine
<1>20. CASE EndOfInput
  BY <1>20 DEF EndOfInput, Finish
<1>21. CASE ChildEnds
  BY <1>21 DEF ChildEnds, Finish
<1>22. CASE PackageKitReleases
  <2>1. UNCHANGED <<conf, todo, scene, shell, dryRun>>
    BY <1>22 DEF PackageKitReleases
  <2>2. QED
    BY <1>22, <2>1, SameCommand DEF PackageKitReleases
<1>23. CASE PackageKitQuits
  <2>1. UNCHANGED <<conf, todo, scene, shell, dryRun>>
    BY <1>23 DEF PackageKitQuits
  <2>2. QED
    BY <1>23, <2>1, SameCommand DEF PackageKitQuits
<1>24. CASE OtherLocks
  BY <1>24 DEF OtherLocks
<1>25. CASE UNCHANGED vars
  BY <1>25, SameCommand DEF vars
<1>26. QED
  BY <1>1, <1>2, <1>3, <1>4, <1>5, <1>6, <1>7, <1>8, <1>9, <1>10, <1>11, <1>12, <1>13,
       <1>14, <1>15, <1>16, <1>17, <1>18, <1>19, <1>20, <1>21, <1>22, <1>23, <1>24,
       <1>25
  DEF Next, Steps

\* reset() comes before the options of each command.
LEMMA DryRunStep == DryRunKept /\ [Next]_vars => DryRunKept'
<1> SUFFICES ASSUME DryRunKept, [Next]_vars
             PROVE  DryRunKept'
  OBVIOUS
<1> USE DEF DryRunKept, line, commandVars, lockVars, optionVars
<1>1. CASE ParseGlobalOptions
  BY <1>1 DEF ParseGlobalOptions, Finish
<1>2. CASE NextPass
  BY <1>2 DEF NextPass
<1>3. CASE WriteOption
  BY <1>3 DEF WriteOption, Finish
<1>4. CASE AllWritten
  BY <1>4 DEF AllWritten
<1>5. CASE LookUp
  BY <1>5 DEF LookUp, Back
<1>6. CASE ParseCommandOptions
  <2>1. CASE "junk" \in Flags
    BY <1>6, <2>1 DEF ParseCommandOptions, Back
  <2>2. CASE "junk" \notin Flags
    <3>1. todo' = todo /\ (dryRun' => "dry-run" \in Flags)
      BY <1>6, <2>2, Zenon DEF ParseCommandOptions, ResetAndSet
    <3>2. "dry-run" \in Flags => "dry-run" \in Head(todo).flags
      BY DEF Flags
    <3>3. QED
      BY <3>1, <3>2
  <2>3. QED
    BY <2>1, <2>2
<1>7. CASE AssertZYppPtrGod
  BY <1>7 DEF AssertZYppPtrGod, Back
<1>8. CASE PromptUnattended
  BY <1>8 DEF PromptUnattended, Proceed, Back
<1>9. CASE SuggestQuit
  BY <1>9 DEF SuggestQuit
<1>10. CASE LookAgain
  BY <1>10 DEF LookAgain
<1>11. CASE LockAgain
  BY <1>11 DEF LockAgain, Back
<1>12. CASE CheckConditions
  BY <1>12 DEF CheckConditions, Back
<1>13. CASE Execute
  BY <1>13 DEF Execute, Back
<1>14. CASE EnterShell
  BY <1>14 DEF EnterShell
<1>15. CASE Quit
  BY <1>15 DEF Quit, Finish
<1>16. CASE RunSubcommand
  BY <1>16 DEF RunSubcommand, Back
<1>17. CASE HandOver
  BY <1>17 DEF HandOver, CleanupForSubcommand, Finish
<1>18. CASE UserAnswers
  BY <1>18 DEF UserAnswers, Proceed, Back
<1>19. CASE ReadLine
  BY <1>19 DEF ReadLine
<1>20. CASE EndOfInput
  BY <1>20 DEF EndOfInput, Finish
<1>21. CASE ChildEnds
  BY <1>21 DEF ChildEnds, Finish
<1>22. CASE PackageKitReleases
  BY <1>22 DEF PackageKitReleases
<1>23. CASE PackageKitQuits
  BY <1>23 DEF PackageKitQuits
<1>24. CASE OtherLocks
  BY <1>24 DEF OtherLocks
<1>25. CASE UNCHANGED vars
  BY <1>25 DEF vars
<1>26. QED
  BY <1>1, <1>2, <1>3, <1>4, <1>5, <1>6, <1>7, <1>8, <1>9, <1>10, <1>11, <1>12, <1>13,
       <1>14, <1>15, <1>16, <1>17, <1>18, <1>19, <1>20, <1>21, <1>22, <1>23, <1>24,
       <1>25
  DEF Next, Steps

\* Only CheckConditions leads to the work of a command.
LEMMA ConditionsStep == ConditionsKept /\ [Next]_vars => ConditionsKept'
<1> SUFFICES ASSUME ConditionsKept, [Next]_vars
             PROVE  ConditionsKept'
  OBVIOUS
<1> USE DEF ConditionsKept, commandVars, lockVars, optionVars
<1>1. CASE ParseGlobalOptions
  BY <1>1 DEF ParseGlobalOptions, Finish
<1>2. CASE NextPass
  BY <1>2 DEF NextPass
<1>3. CASE WriteOption
  BY <1>3 DEF WriteOption, Finish
<1>4. CASE AllWritten
  BY <1>4 DEF AllWritten
<1>5. CASE LookUp
  BY <1>5 DEF LookUp, Back
<1>6. CASE ParseCommandOptions
  BY <1>6 DEF ParseCommandOptions, Back, ResetAndSet
<1>7. CASE AssertZYppPtrGod
  BY <1>7 DEF AssertZYppPtrGod, Back
<1>8. CASE PromptUnattended
  BY <1>8 DEF PromptUnattended, Proceed, Back
<1>9. CASE SuggestQuit
  BY <1>9 DEF SuggestQuit
<1>10. CASE LookAgain
  BY <1>10 DEF LookAgain
<1>11. CASE LockAgain
  BY <1>11 DEF LockAgain, Back
<1>12. CASE CheckConditions
  <2>1. UNCHANGED <<conf, todo, scene, shell, dryRun>>
    BY <1>12 DEF CheckConditions, Back
  <2>2. QED
    BY <1>12, <2>1, SameCommand DEF CheckConditions, Back
<1>13. CASE Execute
  BY <1>13 DEF Execute, Back
<1>14. CASE EnterShell
  BY <1>14 DEF EnterShell
<1>15. CASE Quit
  BY <1>15 DEF Quit, Finish
<1>16. CASE RunSubcommand
  BY <1>16 DEF RunSubcommand, Back
<1>17. CASE HandOver
  BY <1>17 DEF HandOver, CleanupForSubcommand, Finish
<1>18. CASE UserAnswers
  BY <1>18 DEF UserAnswers, Proceed, Back
<1>19. CASE ReadLine
  BY <1>19 DEF ReadLine
<1>20. CASE EndOfInput
  BY <1>20 DEF EndOfInput, Finish
<1>21. CASE ChildEnds
  BY <1>21 DEF ChildEnds, Finish
<1>22. CASE PackageKitReleases
  <2>1. UNCHANGED <<conf, todo, scene, shell, dryRun>>
    BY <1>22 DEF PackageKitReleases
  <2>2. QED
    BY <1>22, <2>1, SameCommand DEF PackageKitReleases
<1>23. CASE PackageKitQuits
  <2>1. UNCHANGED <<conf, todo, scene, shell, dryRun>>
    BY <1>23 DEF PackageKitQuits
  <2>2. QED
    BY <1>23, <2>1, SameCommand DEF PackageKitQuits
<1>24. CASE OtherLocks
  BY <1>24 DEF OtherLocks
<1>25. CASE UNCHANGED vars
  BY <1>25, SameCommand DEF vars
<1>26. QED
  BY <1>1, <1>2, <1>3, <1>4, <1>5, <1>6, <1>7, <1>8, <1>9, <1>10, <1>11, <1>12, <1>13,
       <1>14, <1>15, <1>16, <1>17, <1>18, <1>19, <1>20, <1>21, <1>22, <1>23, <1>24,
       <1>25
  DEF Next, Steps

\* cleanupForSubcommand gives the lock away.
LEMMA ReleasedStep == LockKept /\ Released /\ [Next]_vars => Released'
<1> SUFFICES ASSUME LockKept /\ Released, [Next]_vars
             PROVE  Released'
  OBVIOUS
<1> USE DEF LockKept, BeforeLock, Released, commandVars, lockVars, optionVars
<1>1. CASE ParseGlobalOptions
  BY <1>1 DEF ParseGlobalOptions, Finish
<1>2. CASE NextPass
  BY <1>2 DEF NextPass
<1>3. CASE WriteOption
  BY <1>3 DEF WriteOption, Finish
<1>4. CASE AllWritten
  BY <1>4 DEF AllWritten
<1>5. CASE LookUp
  BY <1>5 DEF LookUp, Back
<1>6. CASE ParseCommandOptions
  BY <1>6 DEF ParseCommandOptions, Back, ResetAndSet
<1>7. CASE AssertZYppPtrGod
  BY <1>7 DEF AssertZYppPtrGod, Back
<1>8. CASE PromptUnattended
  BY <1>8 DEF PromptUnattended, Proceed, Back
<1>9. CASE SuggestQuit
  BY <1>9 DEF SuggestQuit
<1>10. CASE LookAgain
  BY <1>10 DEF LookAgain
<1>11. CASE LockAgain
  BY <1>11 DEF LockAgain, Back
<1>12. CASE CheckConditions
  BY <1>12 DEF CheckConditions, Back
<1>13. CASE Execute
  BY <1>13 DEF Execute, Back
<1>14. CASE EnterShell
  BY <1>14 DEF EnterShell
<1>15. CASE Quit
  BY <1>15 DEF Quit, Finish
<1>16. CASE RunSubcommand
  BY <1>16 DEF RunSubcommand, Back
<1>17. CASE HandOver
  BY <1>17 DEF HandOver, CleanupForSubcommand, Finish
<1>18. CASE UserAnswers
  BY <1>18 DEF UserAnswers, Proceed, Back
<1>19. CASE ReadLine
  BY <1>19 DEF ReadLine
<1>20. CASE EndOfInput
  BY <1>20 DEF EndOfInput, Finish
<1>21. CASE ChildEnds
  BY <1>21 DEF ChildEnds, Finish
<1>22. CASE PackageKitReleases
  BY <1>22 DEF PackageKitReleases
<1>23. CASE PackageKitQuits
  BY <1>23 DEF PackageKitQuits
<1>24. CASE OtherLocks
  BY <1>24 DEF OtherLocks
<1>25. CASE UNCHANGED vars
  BY <1>25 DEF vars
<1>26. QED
  BY <1>1, <1>2, <1>3, <1>4, <1>5, <1>6, <1>7, <1>8, <1>9, <1>10, <1>11, <1>12, <1>13,
       <1>14, <1>15, <1>16, <1>17, <1>18, <1>19, <1>20, <1>21, <1>22, <1>23, <1>24,
       <1>25
  DEF Next, Steps

\* The status is taken over as it is.
LEMMA StatusStep == StatusKept /\ [Next]_vars => StatusKept'
<1> SUFFICES ASSUME StatusKept, [Next]_vars
             PROVE  StatusKept'
  OBVIOUS
<1> USE DEF StatusKept, Running, commandVars, lockVars, optionVars
<1>1. CASE ParseGlobalOptions
  BY <1>1 DEF ParseGlobalOptions, Finish
<1>2. CASE NextPass
  BY <1>2 DEF NextPass
<1>3. CASE WriteOption
  BY <1>3 DEF WriteOption, Finish
<1>4. CASE AllWritten
  BY <1>4 DEF AllWritten
<1>5. CASE LookUp
  BY <1>5 DEF LookUp, Back
<1>6. CASE ParseCommandOptions
  BY <1>6 DEF ParseCommandOptions, Back, ResetAndSet
<1>7. CASE AssertZYppPtrGod
  BY <1>7 DEF AssertZYppPtrGod, Back
<1>8. CASE PromptUnattended
  BY <1>8 DEF PromptUnattended, Proceed, Back
<1>9. CASE SuggestQuit
  BY <1>9 DEF SuggestQuit
<1>10. CASE LookAgain
  BY <1>10 DEF LookAgain
<1>11. CASE LockAgain
  BY <1>11 DEF LockAgain, Back
<1>12. CASE CheckConditions
  BY <1>12 DEF CheckConditions, Back
<1>13. CASE Execute
  BY <1>13 DEF Execute, Back
<1>14. CASE EnterShell
  BY <1>14 DEF EnterShell
<1>15. CASE Quit
  BY <1>15 DEF Quit, Finish
<1>16. CASE RunSubcommand
  BY <1>16 DEF RunSubcommand, Back
<1>17. CASE HandOver
  BY <1>17 DEF HandOver, CleanupForSubcommand, Finish
<1>18. CASE UserAnswers
  BY <1>18 DEF UserAnswers, Proceed, Back
<1>19. CASE ReadLine
  BY <1>19 DEF ReadLine
<1>20. CASE EndOfInput
  BY <1>20 DEF EndOfInput, Finish
<1>21. CASE ChildEnds
  BY <1>21 DEF ChildEnds, Finish
<1>22. CASE PackageKitReleases
  BY <1>22 DEF PackageKitReleases
<1>23. CASE PackageKitQuits
  BY <1>23 DEF PackageKitQuits
<1>24. CASE OtherLocks
  BY <1>24 DEF OtherLocks
<1>25. CASE UNCHANGED vars
  BY <1>25 DEF vars
<1>26. QED
  BY <1>1, <1>2, <1>3, <1>4, <1>5, <1>6, <1>7, <1>8, <1>9, <1>10, <1>11, <1>12, <1>13,
       <1>14, <1>15, <1>16, <1>17, <1>18, <1>19, <1>20, <1>21, <1>22, <1>23, <1>24,
       <1>25
  DEF Next, Steps

-----------------------------------------------------------------------------
(* The global options                                                      *)

\* How often an option is given.
LEMMA TimesFacts ==
  ASSUME scene \in Scenarios, NEW o
  PROVE  Times(o) \in Nat /\ (Times(o) = 0 <=> o \notin Given)
<1> DEFINE s == scene.given
           I == {i \in DOMAIN s : s[i] = o}
<1>1. s \in Seq(Words)
  BY StartupAssumption
<1>2. Len(s) \in Nat /\ DOMAIN s = 1 .. Len(s)
  BY <1>1
<1>3. IsFiniteSet(1 .. Len(s))
  BY <1>2, FS_Interval
<1>4. I \in SUBSET (1 .. Len(s))
  BY <1>2
<1>5. IsFiniteSet(I)
  BY <1>3, <1>4, FS_Subset
<1>6. Times(o) = Cardinality(I)
  BY DEF Times
<1>7. o \in Given <=> I # {}
  BY DEF Given, ToSet
<1>8. QED
  BY <1>5, <1>6, <1>7, FS_CardinalityType, FS_EmptySet

\* Of two options that exclude each other not both are accepted.
LEMMA NoConflict ==
  ASSUME ~Conflicting, NEW c \in ConflictSets, NEW a \in c, NEW b \in c, a # b
  PROVE  a \notin Given \/ b \notin Given
<1> SUFFICES ASSUME a \in Given, b \in Given
             PROVE  FALSE
  OBVIOUS
<1> DEFINE G == c \cap Given
<1>1. \A x, y, z : IsFiniteSet({x, y, z}) /\ IsFiniteSet({x, y})
  <2> TAKE x, y, z
  <2>1. IsFiniteSet({x})
    BY FS_Singleton
  <2>2. {x, y} = {x} \cup {y} /\ {x, y, z} = {x, y} \cup {z}
    OBVIOUS
  <2>3. IsFiniteSet({x, y})
    BY <2>1, <2>2, FS_AddElement
  <2>4. QED
    BY <2>2, <2>3, FS_AddElement
<1>2. IsFiniteSet(c)
  <2>1. \/ c = {"quiet", "verbose", "debug"} \/ c = {"color", "no-color"}
        \/ c = {"color", "xmlout"} \/ c = {"root", "installroot"}
        \/ c = {"relative-root", "installroot"}
    BY DEF ConflictSets
  <2>2. /\ IsFiniteSet({"quiet", "verbose", "debug"}) /\ IsFiniteSet({"color", "no-color"})
        /\ IsFiniteSet({"color", "xmlout"}) /\ IsFiniteSet({"root", "installroot"})
        /\ IsFiniteSet({"relative-root", "installroot"})
    BY <1>1
  <2>3. QED
    BY <2>1, <2>2
<1>3. G \in SUBSET c
  OBVIOUS
<1>4. IsFiniteSet(G)
  BY <1>2, <1>3, FS_Subset
<1>5. a \in G /\ b \in G
  OBVIOUS
<1> HIDE DEF G
<1>6. Cardinality(G) \in Nat /\ Cardinality(G) # 0 /\ Cardinality(G) # 1
  BY <1>4, <1>5, FS_CardinalityType, FS_EmptySet, FS_Singleton
<1>7. Cardinality(G) > 1
  BY <1>6
<1>8. QED
  BY <1>7 DEF G, Conflicting

\* What each option does to each setting.
LEMMA EffectFacts ==
  ASSUME scene \in Scenarios, NEW o, NEW c \in ConfigType, NEW e, e = Effect(o, c)
  PROVE  /\ e \in ConfigType
         /\ e.color <=> IF o \in {"no-color", "terse", "xmlout"} THEN FALSE
                        ELSE IF o = "config" /\ ~Env.confBroken THEN Env.confColor
                        ELSE o = "color" \/ c.color
         /\ e.verbosity = IF o = "quiet" THEN QUIET
                          ELSE IF o = "debug" THEN DEBUG
                          ELSE IF o = "verbose" THEN Counter(c.verbosity, Times("verbose"))
                          ELSE c.verbosity
         /\ c.shown = c.verbosity => e.shown = e.verbosity
         /\ e.writer = IF o = "xmlout" THEN "xml" ELSE c.writer
         /\ e.machine <=> o \in {"terse", "xmlout"} \/ c.machine
         /\ e.noAbbrev <=> o \in {"terse", "xmlout", "no-abbrev"} \/ c.noAbbrev
         /\ e.terse <=> o = "terse" \/ c.terse
         /\ e.nonInteractive <=> o = "non-interactive" \/ c.nonInteractive
         /\ e.help <=> o = "help" \/ c.help
         /\ e.root = IF o \in {"root", "installroot"} THEN "/mnt" ELSE c.root
         /\ e.reposd = IF o = "reposd-dir" THEN "dir" ELSE IF o = "root" THEN "/mnt"
                       ELSE IF o = "installroot" THEN "/" ELSE c.reposd
         /\ e.cache = IF o = "cache-dir" THEN "dir" ELSE IF o = "root" THEN "/mnt"
                      ELSE IF o = "installroot" THEN "/" ELSE c.cache
         /\ e.raw = IF o = "raw-cache-dir" THEN "rawdir" ELSE IF o = "cache-dir" THEN "dir"
                    ELSE IF o = "root" THEN "/mnt" ELSE IF o = "installroot" THEN "/" ELSE c.raw
         /\ e.plus = IF o = "bad-plus-repo" THEN "invalid"
                     ELSE IF o = "plus-repo" /\ c.plus = "none" THEN "valid" ELSE c.plus
<1> USE DEF ConfigType, QUIET, NORMAL, DEBUG
<1>1. Env.confColor \in BOOLEAN /\ Env.confBroken \in BOOLEAN
  BY StartupAssumption DEF Env, Environment
<1>2. Counter(c.verbosity, Times("verbose")) \in QUIET .. DEBUG
  BY TimesFacts DEF Counter
<1>3. CASE o = "config"
  BY <1>1, <1>3 DEF Effect, ReadFile
<1>4. CASE o = "help"
  BY <1>4 DEF Effect
<1>5. CASE o = "quiet"
  <2>1. e = [c EXCEPT !.verbosity = QUIET, !.shown = QUIET]
    BY <1>5 DEF Effect, SetVerbosity
  <2>2. e \in ConfigType
    <3>1. QUIET \in QUIET .. DEBUG
      OBVIOUS
    <3>2. QED
      BY <2>1, <3>1
  <2>3. /\ e.color = c.color /\ e.verbosity = QUIET /\ e.writer = c.writer
        /\ e.shown = QUIET /\ e.machine = c.machine /\ e.noAbbrev = c.noAbbrev
        /\ e.terse = c.terse /\ e.nonInteractive = c.nonInteractive /\ e.help = c.help
        /\ e.root = c.root /\ e.reposd = c.reposd /\ e.cache = c.cache /\ e.raw = c.raw
        /\ e.plus = c.plus
    BY <2>1
  <2>4. QED
    BY <1>5, <2>2, <2>3
<1>6. CASE o = "verbose"
  BY <1>2, <1>6 DEF Effect, SetVerbosity
<1>7. CASE o = "debug"
  <2>1. e = [c EXCEPT !.verbosity = DEBUG, !.shown = DEBUG]
    BY <1>7 DEF Effect, SetVerbosity
  <2>2. e \in ConfigType
    <3>1. DEBUG \in QUIET .. DEBUG
      OBVIOUS
    <3>2. QED
      BY <2>1, <3>1
  <2>3. /\ e.color = c.color /\ e.verbosity = DEBUG /\ e.writer = c.writer
        /\ e.shown = DEBUG /\ e.machine = c.machine /\ e.noAbbrev = c.noAbbrev
        /\ e.terse = c.terse /\ e.nonInteractive = c.nonInteractive /\ e.help = c.help
        /\ e.root = c.root /\ e.reposd = c.reposd /\ e.cache = c.cache /\ e.raw = c.raw
        /\ e.plus = c.plus
    BY <2>1
  <2>4. QED
    BY <1>7, <2>2, <2>3
<1>8. CASE o = "color"
  BY <1>8 DEF Effect
<1>9. CASE o = "no-color"
  BY <1>9 DEF Effect
<1>10. CASE o = "no-abbrev"
  BY <1>10 DEF Effect
<1>11. CASE o = "terse"
  BY <1>11 DEF Effect
<1>12. CASE o = "xmlout"
  BY <1>12 DEF Effect
<1>13. CASE o = "non-interactive"
  BY <1>13 DEF Effect
<1>14. CASE o = "reposd-dir"
  BY <1>14 DEF Effect
<1>15. CASE o = "cache-dir"
  <2>1. e = [c EXCEPT !.cache = "dir", !.raw = "dir"]
    BY <1>15 DEF Effect
  <2>2. e \in ConfigType
    BY <2>1
  <2>3. /\ e.color = c.color /\ e.verbosity = c.verbosity /\ e.writer = c.writer
        /\ e.shown = c.shown /\ e.machine = c.machine /\ e.noAbbrev = c.noAbbrev
        /\ e.terse = c.terse /\ e.nonInteractive = c.nonInteractive /\ e.help = c.help
        /\ e.root = c.root /\ e.reposd = c.reposd /\ e.cache = "dir" /\ e.raw = "dir"
        /\ e.plus = c.plus
    BY <2>1
  <2>4. QED
    BY <1>15, <2>2, <2>3
<1>16. CASE o = "raw-cache-dir"
  BY <1>16 DEF Effect
<1>17. CASE o = "root"
  <2>1. e = [c EXCEPT !.root = "/mnt", !.reposd = "/mnt", !.cache = "/mnt", !.raw = "/mnt"]
    BY <1>17 DEF Effect, RootOption
  <2>2. e \in ConfigType
    BY <2>1
  <2>3. /\ e.color = c.color /\ e.verbosity = c.verbosity /\ e.writer = c.writer
        /\ e.shown = c.shown /\ e.machine = c.machine /\ e.noAbbrev = c.noAbbrev
        /\ e.terse = c.terse /\ e.nonInteractive = c.nonInteractive /\ e.help = c.help
        /\ e.root = "/mnt" /\ e.reposd = "/mnt" /\ e.cache = "/mnt" /\ e.raw = "/mnt"
        /\ e.plus = c.plus
    BY <2>1
  <2>4. QED
    BY <1>17, <2>2, <2>3
<1>18. CASE o = "installroot"
  <2>1. e = [c EXCEPT !.root = "/mnt", !.reposd = "/", !.cache = "/", !.raw = "/"]
    BY <1>18 DEF Effect, RootOption
  <2>2. e \in ConfigType
    BY <2>1
  <2>3. /\ e.color = c.color /\ e.verbosity = c.verbosity /\ e.writer = c.writer
        /\ e.shown = c.shown /\ e.machine = c.machine /\ e.noAbbrev = c.noAbbrev
        /\ e.terse = c.terse /\ e.nonInteractive = c.nonInteractive /\ e.help = c.help
        /\ e.root = "/mnt" /\ e.reposd = "/" /\ e.cache = "/" /\ e.raw = "/"
        /\ e.plus = c.plus
    BY <2>1
  <2>4. QED
    BY <1>18, <2>2, <2>3
<1>19. CASE o = "plus-repo"
  BY <1>19 DEF Effect
<1>20. CASE o = "bad-plus-repo"
  BY <1>20 DEF Effect
<1>21. CASE o \notin {"config", "help", "quiet", "verbose", "debug", "color", "no-color", "no-abbrev", "terse",
               "xmlout", "non-interactive", "reposd-dir", "cache-dir", "raw-cache-dir", "root", "installroot", "plus-repo", "bad-plus-repo"}
  BY <1>21 DEF Effect
<1>22. QED
  BY <1>3, <1>4, <1>5, <1>6, <1>7, <1>8, <1>9, <1>10, <1>11, <1>12, <1>13,
     <1>14, <1>15, <1>16, <1>17, <1>18, <1>19, <1>20, <1>21

\* The options without dependencies: those of the first pass.
FirstPass == {o \in Considered : Dependencies(o) = {}}

\* How far the passes are: none yet, the first one under way, or over.
Passes ==
  \/ solved = {} /\ batch = {}
  \/ /\ solved \cap batch = {} /\ solved \cup batch = FirstPass
     /\ \A o \in solved, p \in batch : Priority(o) >= Priority(p)
  \/ solved \cap batch = {} /\ FirstPass \subseteq solved

\* What the options in W say; the file counts when "config" is among them.
Says(c, W) ==
  LET D == Given \cap W
      repoRoot == IF "root" \in D THEN "/mnt" ELSE "/"
      cacheDir == IF "cache-dir" \in D THEN "dir" ELSE repoRoot IN
  /\ c.color <=> \/ "color" \in D
                 \/ /\ D \cap {"no-color", "terse", "xmlout"} = {}
                    /\ "config" \in W /\ Env.confColor /\ ~Env.confBroken
  /\ c.verbosity = IF "quiet" \in D THEN QUIET
                   ELSE IF "debug" \in D THEN DEBUG
                   ELSE IF "verbose" \in D THEN Counter(NORMAL, Times("verbose"))
                   ELSE NORMAL
  /\ c.shown = c.verbosity
  /\ c.writer = IF "xmlout" \in D THEN "xml" ELSE "text"
  /\ c.machine <=> D \cap {"terse", "xmlout"} # {}
  /\ c.noAbbrev <=> D \cap {"terse", "xmlout", "no-abbrev"} # {}
  /\ c.terse <=> "terse" \in D
  /\ c.nonInteractive <=> "non-interactive" \in D
  /\ c.help <=> "help" \in D
  /\ c.root = IF D \cap {"root", "installroot"} = {} THEN "/" ELSE "/mnt"
  /\ c.reposd = IF "reposd-dir" \in D THEN "dir" ELSE repoRoot
  /\ c.cache = cacheDir
  /\ c.raw = IF "raw-cache-dir" \in D THEN "rawdir" ELSE cacheDir
  /\ c.plus = IF "bad-plus-repo" \in D THEN "invalid"
              ELSE IF "plus-repo" \in D THEN "valid" ELSE "none"

\* The options written so far are in the configuration, as they are meant.
OptionsKept ==
  /\ pc = "parse" => solved = {} /\ batch = {} /\ conf = DefaultConfig
  /\ pc = "write" => ~Conflicting /\ Passes /\ Says(conf, solved)
  /\ pc = "command" /\ ~shell => ~Conflicting /\ Says(conf, Considered)

\* The scenario, the lines and the options have their types.
LineTypes ==
  /\ scene \in Scenarios /\ conf \in ConfigType
  /\ \E k \in DOMAIN scene.lines : todo = SubSeq(scene.lines, k, Len(scene.lines))
  /\ batch \subseteq Considered /\ solved \subseteq Considered

\* The other variables have theirs.
ControlTypes ==
  /\ pc \in {"parse", "write", "command", "options", "lock", "ask", "quit", "wait", "relock",
             "check", "execute", "handover", "child", "prompt", "done"}
  /\ exitCode \in Nat /\ child \in {NoChild, Running} \cup Nat
  /\ shell \in BOOLEAN /\ dryRun \in BOOLEAN /\ pkRunning \in BOOLEAN
  /\ god \in {"none", "readonly", "locked"}
  /\ holder \in {"none", "zypper", "packagekit", "other"}

\* What has been written before an option: nothing that it would undo.
LEMMA WrittenBefore ==
  ASSUME Passes, NEW o \in batch, batch \subseteq Considered,
         \A p \in batch : Priority(o) >= Priority(p)
  PROVE  /\ o \notin solved
         /\ o = "config" => solved \cap {"color", "no-color", "terse", "xmlout"} = {}
         /\ o \in {"terse", "cache-dir"} => solved \cap {"color", "raw-cache-dir"} = {}
         /\ o \in {"root", "installroot"} =>
              solved \cap {"reposd-dir", "cache-dir", "raw-cache-dir"} = {}
<1>1. o \notin solved
  BY DEF Passes
<1>2. CASE FirstPass \subseteq solved
  <2>1. Dependencies(o) # {}
    BY <1>1, <1>2 DEF FirstPass
  <2>2. o \in {"color", "no-abbrev", "raw-cache-dir"}
    BY <2>1 DEF Dependencies
  <2>3. QED
    BY <1>1, <2>2
<1>3. CASE /\ solved \cup batch = FirstPass
           /\ \A q \in solved, p \in batch : Priority(q) >= Priority(p)
  <2>1. "color" \notin solved /\ "raw-cache-dir" \notin solved
    BY <1>3 DEF FirstPass, Dependencies
  <2>2. \A q \in solved : Priority(q) >= Priority(o)
    BY <1>3
  <2>3. /\ Priority("config") = 3000 /\ Priority("xmlout") = 2000 /\ Priority("no-color") = 0
        /\ Priority("terse") = 0 /\ Priority("root") = 1000 /\ Priority("installroot") = 1000
        /\ Priority("reposd-dir") = 0 /\ Priority("cache-dir") = 0
    BY DEF Priority
  <2>4. o = "config" => \A q \in {"no-color", "terse", "xmlout"} : q \notin solved
    BY <2>2, <2>3
  <2>5. o \in {"root", "installroot"} => \A q \in {"reposd-dir", "cache-dir"} : q \notin solved
    BY <2>2, <2>3
  <2>6. QED
    BY <1>1, <2>1, <2>4, <2>5
<1>4. QED
  BY <1>2, <1>3 DEF Passes

\* Which options are not given together.
LEMMA Excluded ==
  ASSUME ~Conflicting
  PROVE  /\ "quiet" \notin Given \/ "verbose" \notin Given
         /\ "quiet" \notin Given \/ "debug" \notin Given
         /\ "verbose" \notin Given \/ "debug" \notin Given
         /\ "color" \notin Given \/ "no-color" \notin Given
         /\ "color" \notin Given \/ "xmlout" \notin Given
         /\ "root" \notin Given \/ "installroot" \notin Given
<1> DEFINE V == {"quiet", "verbose", "debug"}
<1>1. V \in ConflictSets
  BY DEF ConflictSets
<1>2. {"color", "no-color"} \in ConflictSets
  BY DEF ConflictSets
<1>3. {"color", "xmlout"} \in ConflictSets
  BY DEF ConflictSets
<1>4. {"root", "installroot"} \in ConflictSets
  BY DEF ConflictSets
<1>5. "quiet" \notin Given \/ "verbose" \notin Given
  BY <1>1, NoConflict
<1>6. "quiet" \notin Given \/ "debug" \notin Given
  BY <1>1, NoConflict
<1>7. "verbose" \notin Given \/ "debug" \notin Given
  BY <1>1, NoConflict
<1>8. "color" \notin Given \/ "no-color" \notin Given
  BY <1>2, NoConflict
<1>9. "color" \notin Given \/ "xmlout" \notin Given
  BY <1>3, NoConflict
<1>10. "root" \notin Given \/ "installroot" \notin Given
  BY <1>4, NoConflict
<1>11. QED
  BY <1>5, <1>6, <1>7, <1>8, <1>9, <1>10

\* Writing one more option of a pass adds what that option means.
LEMMA WriteFields ==
  ASSUME scene \in Scenarios, ~Conflicting, Passes, batch \subseteq Considered,
         conf \in ConfigType, Says(conf, solved),
         NEW o \in batch, \A p \in batch : Priority(o) >= Priority(p),
         NEW e, e = IF o \in Given \cup {"config"} THEN Effect(o, conf) ELSE conf
  PROVE  e \in ConfigType /\ Says(e, solved \cup {o})
<1> DEFINE D == Given \cap solved
           W == solved \cup {o}
           G == Given \cap W
<1>1. /\ o \notin solved
      /\ o = "config" => solved \cap {"color", "no-color", "terse", "xmlout"} = {}
      /\ o \in {"terse", "cache-dir"} => solved \cap {"color", "raw-cache-dir"} = {}
      /\ o \in {"root", "installroot"} =>
           solved \cap {"reposd-dir", "cache-dir", "raw-cache-dir"} = {}
  BY WrittenBefore
<1>2. CASE o \notin Given \cup {"config"}
  <2>1. e = conf
    BY <1>2
  <2>2. G = D /\ ("config" \in W <=> "config" \in solved)
    BY <1>2
  <2> HIDE DEF W
  <2>3. Says(e, W)
    BY <2>1, <2>2 DEF Says
  <2>4. QED
    BY <2>1, <2>3 DEF W
<1>3. CASE o \in Given \cup {"config"}
  <2>1. e = Effect(o, conf)
    BY <1>3
  <2>2. \A q : q \in G <=> q \in D \/ (q = o /\ o \in Given)
    OBVIOUS
  <2>3. \A q : q \in D => q \in Given /\ q \in solved
    OBVIOUS
  <2>4. "config" \in W <=> "config" \in solved \/ o = "config"
    OBVIOUS
  <2> USE Excluded
  <2>5. e \in ConfigType
    BY <2>1, EffectFacts
  <2>6. e.color <=> \/ "color" \in G
                    \/ /\ G \cap {"no-color", "terse", "xmlout"} = {}
                       /\ "config" \in W /\ Env.confColor /\ ~Env.confBroken
    <3>1. e.color <=> IF o \in {"no-color", "terse", "xmlout"} THEN FALSE
                      ELSE IF o = "config" /\ ~Env.confBroken THEN Env.confColor
                      ELSE o = "color" \/ conf.color
      BY <2>1, EffectFacts
    <3>2. conf.color <=> \/ "color" \in D
                         \/ /\ D \cap {"no-color", "terse", "xmlout"} = {}
                            /\ "config" \in solved /\ Env.confColor /\ ~Env.confBroken
      BY DEF Says
    <3>3. (G \cap {"no-color", "terse", "xmlout"} = {}) <=>
            "no-color" \notin G /\ "terse" \notin G /\ "xmlout" \notin G
      OBVIOUS
    <3>4. (D \cap {"no-color", "terse", "xmlout"} = {}) <=>
            "no-color" \notin D /\ "terse" \notin D /\ "xmlout" \notin D
      OBVIOUS
    <3>5. o = "config" => "color" \notin D /\ "no-color" \notin D /\ "terse" \notin D /\ "xmlout" \notin D
      BY <1>1, <2>3
    <3>6. o = "terse" => "color" \notin D
      BY <1>1, <2>3
    <3> HIDE DEF D, G, W
    <3>7. QED
      BY <1>3, <2>2, <2>3, <2>4, <3>1, <3>2, <3>3, <3>4, <3>5, <3>6
  <2>7. e.verbosity = IF "quiet" \in G THEN QUIET
                      ELSE IF "debug" \in G THEN DEBUG
                      ELSE IF "verbose" \in G THEN Counter(NORMAL, Times("verbose"))
                      ELSE NORMAL
    <3>1. e.verbosity = IF o = "quiet" THEN QUIET
                        ELSE IF o = "debug" THEN DEBUG
                        ELSE IF o = "verbose" THEN Counter(conf.verbosity, Times("verbose"))
                        ELSE conf.verbosity
      BY <2>1, EffectFacts
    <3>2. conf.verbosity = IF "quiet" \in D THEN QUIET
                           ELSE IF "debug" \in D THEN DEBUG
                           ELSE IF "verbose" \in D THEN Counter(NORMAL, Times("verbose"))
                           ELSE NORMAL
      BY DEF Says
    <3>3. "verbose" = o => "verbose" \notin D
      BY <1>1, <2>3
    <3> HIDE DEF D, G, W
    <3>4. QED
      BY <1>3, <2>2, <2>3, <3>1, <3>2, <3>3
  <2>8. e.shown = e.verbosity
    BY <2>1, EffectFacts DEF Says
  <2>9. /\ e.writer = IF "xmlout" \in G THEN "xml" ELSE "text"
        /\ e.machine <=> G \cap {"terse", "xmlout"} # {}
        /\ e.noAbbrev <=> G \cap {"terse", "xmlout", "no-abbrev"} # {}
        /\ e.terse <=> "terse" \in G
        /\ e.nonInteractive <=> "non-interactive" \in G
        /\ e.help <=> "help" \in G
    <3>1. /\ e.writer = IF o = "xmlout" THEN "xml" ELSE conf.writer
          /\ e.machine <=> o \in {"terse", "xmlout"} \/ conf.machine
          /\ e.noAbbrev <=> o \in {"terse", "xmlout", "no-abbrev"} \/ conf.noAbbrev
          /\ e.terse <=> o = "terse" \/ conf.terse
          /\ e.nonInteractive <=> o = "non-interactive" \/ conf.nonInteractive
          /\ e.help <=> o = "help" \/ conf.help
      BY <2>1, EffectFacts
    <3>2. /\ conf.writer = IF "xmlout" \in D THEN "xml" ELSE "text"
          /\ conf.machine <=> D \cap {"terse", "xmlout"} # {}
          /\ conf.noAbbrev <=> D \cap {"terse", "xmlout", "no-abbrev"} # {}
          /\ conf.terse <=> "terse" \in D
          /\ conf.nonInteractive <=> "non-interactive" \in D
          /\ conf.help <=> "help" \in D
      BY DEF Says
    <3> HIDE DEF D, G, W
    <3>3. QED
      BY <1>3, <2>2, <3>1, <3>2
  <2>10. e.root = IF G \cap {"root", "installroot"} = {} THEN "/" ELSE "/mnt"
    <3>1. e.root = IF o \in {"root", "installroot"} THEN "/mnt" ELSE conf.root
      BY <2>1, EffectFacts
    <3>2. conf.root = IF D \cap {"root", "installroot"} = {} THEN "/" ELSE "/mnt"
      BY DEF Says
    <3> HIDE DEF D, G, W
    <3>3. QED
      BY <1>3, <2>2, <3>1, <3>2
  <2>11. /\ e.reposd = IF "reposd-dir" \in G THEN "dir" ELSE IF "root" \in G THEN "/mnt" ELSE "/"
         /\ e.cache = IF "cache-dir" \in G THEN "dir" ELSE IF "root" \in G THEN "/mnt" ELSE "/"
         /\ e.raw = IF "raw-cache-dir" \in G THEN "rawdir"
                    ELSE IF "cache-dir" \in G THEN "dir" ELSE IF "root" \in G THEN "/mnt" ELSE "/"
    <3>1. /\ e.reposd = IF o = "reposd-dir" THEN "dir" ELSE IF o = "root" THEN "/mnt"
                        ELSE IF o = "installroot" THEN "/" ELSE conf.reposd
          /\ e.cache = IF o = "cache-dir" THEN "dir" ELSE IF o = "root" THEN "/mnt"
                       ELSE IF o = "installroot" THEN "/" ELSE conf.cache
          /\ e.raw = IF o = "raw-cache-dir" THEN "rawdir" ELSE IF o = "cache-dir" THEN "dir"
                     ELSE IF o = "root" THEN "/mnt" ELSE IF o = "installroot" THEN "/" ELSE conf.raw
      BY <2>1, EffectFacts
    <3>2. /\ conf.reposd = IF "reposd-dir" \in D THEN "dir" ELSE IF "root" \in D THEN "/mnt" ELSE "/"
          /\ conf.cache = IF "cache-dir" \in D THEN "dir" ELSE IF "root" \in D THEN "/mnt" ELSE "/"
          /\ conf.raw = IF "raw-cache-dir" \in D THEN "rawdir"
                        ELSE IF "cache-dir" \in D THEN "dir" ELSE IF "root" \in D THEN "/mnt" ELSE "/"
      BY DEF Says
    <3>3. o \in {"root", "installroot"} =>
            "reposd-dir" \notin D /\ "cache-dir" \notin D /\ "raw-cache-dir" \notin D
      BY <1>1, <2>3
    <3>4. o = "cache-dir" => "raw-cache-dir" \notin D
      BY <1>1, <2>3
    <3> HIDE DEF D, G, W
    <3>5. QED
      BY <1>3, <2>2, <2>3, <3>1, <3>2, <3>3, <3>4
  <2>12. e.plus = IF "bad-plus-repo" \in G THEN "invalid"
                  ELSE IF "plus-repo" \in G THEN "valid" ELSE "none"
    <3>1. e.plus = IF o = "bad-plus-repo" THEN "invalid"
                   ELSE IF o = "plus-repo" /\ conf.plus = "none" THEN "valid" ELSE conf.plus
      BY <2>1, EffectFacts
    <3>2. conf.plus = IF "bad-plus-repo" \in D THEN "invalid"
                      ELSE IF "plus-repo" \in D THEN "valid" ELSE "none"
      BY DEF Says
    <3> HIDE DEF D, G, W
    <3>3. QED
      BY <1>3, <2>2, <3>1, <3>2
  <2> HIDE DEF W
  <2>13. Says(e, W)
    BY <2>6, <2>7, <2>8, <2>9, <2>10, <2>11, <2>12 DEF Says
  <2>14. QED
    BY <2>5, <2>13 DEF W
<1>4. QED
  BY <1>2, <1>3

\* Reading the next line leaves a rest of the lines.
LEMMA RestOfLines ==
  ASSUME scene \in Scenarios, NEW k \in DOMAIN scene.lines,
         todo = SubSeq(scene.lines, k, Len(scene.lines)), Len(todo) > 1
  PROVE  k + 1 \in DOMAIN scene.lines /\ Tail(todo) = SubSeq(scene.lines, k + 1, Len(scene.lines))
<1> DEFINE s == scene.lines
<1>1. s \in Seq(Lines)
  BY StartupAssumption
<1>2. Len(s) \in Nat /\ k \in 1 .. Len(s)
  BY <1>1
<1>3. Len(todo) = Len(s) - k + 1
  BY <1>1, <1>2
<1>4. k + 1 \in 1 .. Len(s)
  BY <1>2, <1>3
<1>5. Tail(todo) = SubSeq(s, k + 1, Len(s))
  <2>1. \A t \in Seq(Lines), i \in Nat :
          i >= 1 /\ i < Len(t) => Tail(SubSeq(t, i, Len(t))) = SubSeq(t, i + 1, Len(t))
    OBVIOUS
  <2>2. k \in Nat /\ k >= 1 /\ k < Len(s)
    BY <1>2, <1>4
  <2>3. Tail(SubSeq(s, k, Len(s))) = SubSeq(s, k + 1, Len(s))
    BY <1>1, <2>1, <2>2
  <2>4. QED
    BY <2>3
<1>6. k + 1 \in DOMAIN s
  BY <1>1, <1>4
<1>7. QED
  BY <1>5, <1>6

\* The lines and options keep their types when they stay as they are.
LEMMA SameLines ==
  ASSUME LineTypes, UNCHANGED <<scene, todo>>, conf' \in ConfigType,
         solved' \subseteq Considered, batch' \subseteq Considered
  PROVE  LineTypes'
BY DEF LineTypes, Given, Considered

\* The lines and the options keep their types.
LEMMA LineTypesStep == LineTypes /\ [Next]_vars => LineTypes'
<1> SUFFICES ASSUME LineTypes, [Next]_vars
             PROVE  LineTypes'
  OBVIOUS
<1> USE DEF LineTypes, commandVars, lockVars, optionVars
<1>1. CASE ParseGlobalOptions
  <2>1. UNCHANGED <<scene, todo, conf, solved, batch>>
    BY <1>1 DEF ParseGlobalOptions
  <2>2. QED
    BY <2>1, SameLines
<1>2. CASE NextPass
  <2>1. UNCHANGED <<scene, todo, conf, solved>> /\ batch' \subseteq Considered
    BY <1>2 DEF NextPass
  <2>2. QED
    BY <2>1, SameLines DEF Given, Considered
<1>3. CASE WriteOption
  <2> SUFFICES ASSUME NEW o \in batch,
                      batch' = batch \ {o}, solved' = solved \cup {o},
                      conf' = IF o \in Given \cup {"config"} THEN Effect(o, conf) ELSE conf,
                      UNCHANGED <<scene, todo>>
               PROVE  LineTypes'
    BY <1>3 DEF WriteOption
  <2>1. Effect(o, conf) \in ConfigType
    BY EffectFacts
  <2>2. QED
    BY <2>1 DEF Given, Considered
<1>4. CASE AllWritten
  <2>1. UNCHANGED <<scene, todo, conf, solved, batch>>
    BY <1>4 DEF AllWritten
  <2>2. QED
    BY <2>1, SameLines
<1>5. CASE LookUp
  <2>1. [conf EXCEPT !.plus = "none"] \in ConfigType
    BY DEF ConfigType
  <2>2. UNCHANGED <<scene, todo, solved, batch>> /\ conf' \in ConfigType
    BY <1>5, <2>1 DEF LookUp
  <2>3. QED
    BY <2>2, SameLines
<1>6. CASE ParseCommandOptions
  <2>1. conf.nonInteractive \in BOOLEAN
    BY DEF ConfigType
  <2>2. \A b \in BOOLEAN : [conf EXCEPT !.nonInteractive = b] \in ConfigType
    BY DEF ConfigType
  <2>3. (conf.nonInteractive \/ "no-confirm" \in Flags) \in BOOLEAN
    OBVIOUS
  <2>4. UNCHANGED <<scene, todo, solved, batch>> /\ conf' \in ConfigType
    BY <1>6, <2>2, <2>3 DEF ParseCommandOptions
  <2>5. QED
    BY <2>4, SameLines
<1>7. CASE AssertZYppPtrGod
  <2>1. UNCHANGED <<scene, todo, conf, solved, batch>>
    BY <1>7 DEF AssertZYppPtrGod
  <2>2. QED
    BY <2>1, SameLines
<1>8. CASE PromptUnattended
  <2>1. UNCHANGED <<scene, todo, conf, solved, batch>>
    BY <1>8 DEF PromptUnattended
  <2>2. QED
    BY <2>1, SameLines
<1>9. CASE SuggestQuit
  <2>1. UNCHANGED <<scene, todo, conf, solved, batch>>
    BY <1>9 DEF SuggestQuit
  <2>2. QED
    BY <2>1, SameLines
<1>10. CASE LookAgain
  <2>1. UNCHANGED <<scene, todo, conf, solved, batch>>
    BY <1>10 DEF LookAgain
  <2>2. QED
    BY <2>1, SameLines
<1>11. CASE LockAgain
  <2>1. UNCHANGED <<scene, todo, conf, solved, batch>>
    BY <1>11 DEF LockAgain
  <2>2. QED
    BY <2>1, SameLines
<1>12. CASE CheckConditions
  <2>1. UNCHANGED <<scene, todo, conf, solved, batch>>
    BY <1>12 DEF CheckConditions
  <2>2. QED
    BY <2>1, SameLines
<1>13. CASE Execute
  <2>1. UNCHANGED <<scene, todo, conf, solved, batch>>
    BY <1>13 DEF Execute
  <2>2. QED
    BY <2>1, SameLines
<1>14. CASE EnterShell
  <2>1. UNCHANGED <<scene, todo, conf, solved, batch>>
    BY <1>14 DEF EnterShell
  <2>2. QED
    BY <2>1, SameLines
<1>15. CASE Quit
  <2>1. UNCHANGED <<scene, todo, conf, solved, batch>>
    BY <1>15 DEF Quit
  <2>2. QED
    BY <2>1, SameLines
<1>16. CASE RunSubcommand
  <2>1. UNCHANGED <<scene, todo, conf, solved, batch>>
    BY <1>16 DEF RunSubcommand
  <2>2. QED
    BY <2>1, SameLines
<1>17. CASE HandOver
  <2>1. UNCHANGED <<scene, todo, conf, solved, batch>>
    BY <1>17 DEF HandOver
  <2>2. QED
    BY <2>1, SameLines
<1>18. CASE UserAnswers
  <2>1. UNCHANGED <<scene, todo, conf, solved, batch>>
    BY <1>18 DEF UserAnswers
  <2>2. QED
    BY <2>1, SameLines
<1>19. CASE ReadLine
  <2>1. PICK k \in DOMAIN scene.lines : todo = SubSeq(scene.lines, k, Len(scene.lines))
    OBVIOUS
  <2>2. /\ k + 1 \in DOMAIN scene.lines
        /\ todo' = SubSeq(scene.lines, k + 1, Len(scene.lines))
    BY <1>19, <2>1, RestOfLines DEF ReadLine
  <2>3. UNCHANGED <<scene, conf, solved, batch>>
    BY <1>19 DEF ReadLine
  <2>4. QED
    BY <2>2, <2>3 DEF Given, Considered
<1>20. CASE EndOfInput
  <2>1. UNCHANGED <<scene, todo, conf, solved, batch>>
    BY <1>20 DEF EndOfInput
  <2>2. QED
    BY <2>1, SameLines
<1>21. CASE ChildEnds
  <2>1. UNCHANGED <<scene, todo, conf, solved, batch>>
    BY <1>21 DEF ChildEnds
  <2>2. QED
    BY <2>1, SameLines
<1>22. CASE PackageKitReleases
  <2>1. UNCHANGED <<scene, todo, conf, solved, batch>>
    BY <1>22 DEF PackageKitReleases
  <2>2. QED
    BY <2>1, SameLines
<1>23. CASE PackageKitQuits
  <2>1. UNCHANGED <<scene, todo, conf, solved, batch>>
    BY <1>23 DEF PackageKitQuits
  <2>2. QED
    BY <2>1, SameLines
<1>24. CASE OtherLocks
  <2>1. UNCHANGED <<scene, todo, conf, solved, batch>>
    BY <1>24 DEF OtherLocks
  <2>2. QED
    BY <2>1, SameLines
<1>25. CASE UNCHANGED vars
  <2>1. UNCHANGED <<scene, todo, conf, solved, batch>>
    BY <1>25 DEF vars
  <2>2. QED
    BY <2>1, SameLines
<1>26. QED
  BY <1>1, <1>2, <1>3, <1>4, <1>5, <1>6, <1>7, <1>8, <1>9, <1>10, <1>11, <1>12, <1>13,
     <1>14, <1>15, <1>16, <1>17, <1>18, <1>19, <1>20, <1>21, <1>22, <1>23, <1>24, <1>25
  DEF Next, Steps

\* The step zypper is at, its code, the lock and the program run keep their types.
LEMMA ControlTypesStep == ControlTypes /\ [Next]_vars => ControlTypes'
<1> SUFFICES ASSUME ControlTypes, [Next]_vars
             PROVE  ControlTypes'
  OBVIOUS
<1> USE DEF ControlTypes, commandVars, lockVars, optionVars, NoChild, Running,
  EXIT_OK, ERR_BUG, ERR_SYNTAX, ERR_INVALID_ARGS,
  ERR_ZYPP, ERR_PRIVILEGES, ZYPP_LOCKED
<1>1. CASE ParseGlobalOptions
  BY <1>1 DEF ParseGlobalOptions, Finish
<1>2. CASE NextPass
  BY <1>2 DEF NextPass
<1>3. CASE WriteOption
  <2>1. pc' \in {pc, "done"} /\ exitCode' \in {exitCode, ERR_INVALID_ARGS, ERR_SYNTAX}
    BY <1>3 DEF WriteOption, Finish
  <2>2. UNCHANGED <<lockVars, commandVars>>
    BY <1>3 DEF WriteOption
  <2>3. QED
    BY <2>1, <2>2
<1>4. CASE AllWritten
  BY <1>4 DEF AllWritten
<1>5. CASE LookUp
  BY <1>5 DEF LookUp, Back
<1>6. CASE ParseCommandOptions
  <2>1. dryRun' \in BOOLEAN
    <3>1. (dryRun' = FALSE) \/ (dryRun' = ("dry-run" \in Flags))
      BY <1>6, Zenon DEF ParseCommandOptions, ResetAndSet
    <3>2. FALSE \in BOOLEAN /\ ("dry-run" \in Flags) \in BOOLEAN
      OBVIOUS
    <3>3. QED
      BY <3>1, <3>2, Zenon
  <2>2. pc' \in {"prompt", "done", "lock"} /\ exitCode' \in {exitCode, ERR_SYNTAX}
    BY <1>6 DEF ParseCommandOptions, Back
  <2>3. UNCHANGED <<shell, child, god, holder, pkRunning>>
    BY <1>6 DEF ParseCommandOptions
  <2>4. QED
    BY <2>1, <2>2, <2>3
<1>7. CASE AssertZYppPtrGod
  BY <1>7 DEF AssertZYppPtrGod, Back
<1>8. CASE PromptUnattended
  BY <1>8 DEF PromptUnattended, Proceed, Back
<1>9. CASE SuggestQuit
  BY <1>9 DEF SuggestQuit
<1>10. CASE LookAgain
  BY <1>10 DEF LookAgain
<1>11. CASE LockAgain
  BY <1>11 DEF LockAgain, Back
<1>12. CASE CheckConditions
  BY <1>12 DEF CheckConditions, Back
<1>13. CASE Execute
  BY <1>13 DEF Execute, Back
<1>14. CASE EnterShell
  BY <1>14 DEF EnterShell
<1>15. CASE Quit
  BY <1>15 DEF Quit, Finish
<1>16. CASE RunSubcommand
  BY <1>16 DEF RunSubcommand, Back
<1>17. CASE HandOver
  BY <1>17 DEF HandOver, CleanupForSubcommand, Finish
<1>18. CASE UserAnswers
  BY <1>18 DEF UserAnswers, Proceed, Back
<1>19. CASE ReadLine
  BY <1>19 DEF ReadLine
<1>20. CASE EndOfInput
  BY <1>20 DEF EndOfInput, Finish
<1>21. CASE ChildEnds
  BY <1>21 DEF ChildEnds, Finish
<1>22. CASE PackageKitReleases
  BY <1>22 DEF PackageKitReleases
<1>23. CASE PackageKitQuits
  BY <1>23 DEF PackageKitQuits
<1>24. CASE OtherLocks
  BY <1>24 DEF OtherLocks
<1>25. CASE UNCHANGED vars
  BY <1>25 DEF vars
<1>26. QED
  BY <1>1, <1>2, <1>3, <1>4, <1>5, <1>6, <1>7, <1>8, <1>9, <1>10, <1>11, <1>12, <1>13,
     <1>14, <1>15, <1>16, <1>17, <1>18, <1>19, <1>20, <1>21, <1>22, <1>23, <1>24, <1>25
  DEF Next, Steps

\* What the other processes do has nothing to do with the options.
LEMMA SameOptions ==
  ASSUME OptionsKept, UNCHANGED <<pc, scene, conf, solved, batch, shell>>
  PROVE  OptionsKept'
<1>1. Given' = Given /\ Env' = Env /\ Times("verbose")' = Times("verbose")
  BY DEF Given, Env, Times
<1>2. Considered' = Considered /\ FirstPass' = FirstPass /\ Conflicting' = Conflicting
  BY <1>1 DEF Considered, FirstPass, Conflicting
<1>3. Passes' = Passes
  BY <1>2 DEF Passes
<1>4. Says(conf, solved)' = Says(conf, solved) /\ Says(conf, Considered)' = Says(conf, Considered)
  BY <1>1, <1>2 DEF Says
<1>5. QED
  BY <1>2, <1>3, <1>4 DEF OptionsKept

\* The options stay what they mean until a command changes them.
LEMMA OptionsStep == LineTypes /\ LockKept /\ OptionsKept /\ [Next]_vars => OptionsKept'
<1> SUFFICES ASSUME LineTypes /\ LockKept /\ OptionsKept, [Next]_vars
             PROVE  OptionsKept'
  OBVIOUS
<1> USE DEF OptionsKept, commandVars, lockVars, optionVars
<1>1. CASE ParseGlobalOptions
  <2>1. CASE pc' = "write"
    <3>1. ~Conflicting /\ UNCHANGED <<scene, conf, solved, batch>> /\ pc = "parse"
      BY <1>1, <2>1 DEF ParseGlobalOptions, Finish
    <3>2. Says(conf, solved)
      <4>1. conf = DefaultConfig /\ solved = {}
        BY <3>1
      <4>2. QED
        BY <4>1 DEF Says, DefaultConfig, NORMAL
    <3>3. ~Conflicting' /\ Says(conf, solved)'
      BY <3>1, <3>2 DEF Conflicting, Given, Says, Times, Env
    <3>4. Passes'
      BY <3>1 DEF Passes
    <3>5. QED
      BY <2>1, <3>3, <3>4
  <2>2. CASE pc' # "write"
    BY <1>1, <2>2 DEF ParseGlobalOptions, Finish
  <2>3. QED
    BY <2>1, <2>2
<1>2. CASE NextPass
  <2>1. UNCHANGED <<pc, scene, conf, solved>> /\ batch = {} /\ pc = "write"
    BY <1>2 DEF NextPass
  <2>2. batch' = {o \in Considered \ solved : Dependencies(o) \subseteq solved}
    BY <1>2 DEF NextPass
  <2>3. ~Conflicting' /\ Says(conf, solved)'
    BY <2>1 DEF Conflicting, Given, Says, Times, Env
  <2>4. Considered' = Considered /\ FirstPass' = FirstPass
    BY <2>1 DEF Considered, FirstPass, Given
  <2>5. CASE solved = {}
    BY <2>1, <2>2, <2>3, <2>4, <2>5 DEF Passes, FirstPass
  <2>6. CASE FirstPass \subseteq solved
    BY <2>1, <2>2, <2>3, <2>4, <2>6 DEF Passes
  <2>7. QED
    BY <2>1, <2>5, <2>6 DEF Passes
<1>3. CASE WriteOption
  <2> SUFFICES ASSUME pc = "write", NEW o \in batch, \A p \in batch : Priority(o) >= Priority(p),
                      batch' = batch \ {o}, solved' = solved \cup {o},
                      conf' = IF o \in Given \cup {"config"} THEN Effect(o, conf) ELSE conf,
                      scene' = scene, pc' \in {"write", "done"}
               PROVE  OptionsKept'
    BY <1>3 DEF WriteOption, Finish
  <2>1. batch \subseteq Considered /\ conf \in ConfigType
    BY DEF LineTypes
  <2>2. Says(conf', solved')
    BY <2>1, WriteFields DEF LineTypes
  <2>3. ~Conflicting' /\ Says(conf, solved)'
    BY <2>2 DEF Conflicting, Given, Says, Times, Env
  <2>4. Passes'
    <3>1. FirstPass' = FirstPass
      BY DEF FirstPass, Considered, Given
    <3>2. CASE FirstPass \subseteq solved /\ solved \cap batch = {}
      BY <3>1, <3>2 DEF Passes
    <3>3. CASE /\ solved \cap batch = {} /\ solved \cup batch = FirstPass
               /\ \A q \in solved, p \in batch : Priority(q) >= Priority(p)
      BY <3>1, <3>3 DEF Passes
    <3>4. QED
      BY <3>2, <3>3 DEF Passes
  <2>5. QED
    BY <2>3, <2>4
<1>4. CASE AllWritten
  <2>1. UNCHANGED <<scene, conf, solved>> /\ solved = Considered /\ pc = "write" /\ pc' = "command"
    BY <1>4 DEF AllWritten
  <2>2. Says(conf, Considered)
    BY <2>1
  <2>3. Says(conf, Considered)'
    BY <2>1, <2>2 DEF Says, Considered, Given, Times, Env
  <2>4. ~Conflicting'
    BY <2>1 DEF Conflicting, Given
  <2>5. QED
    BY <2>1, <2>3, <2>4
<1>5. CASE LookUp
  BY <1>5 DEF LookUp, Back
<1>6. CASE ParseCommandOptions
  BY <1>6 DEF ParseCommandOptions, Back, ResetAndSet
<1>7. CASE AssertZYppPtrGod
  BY <1>7 DEF AssertZYppPtrGod, Back
<1>8. CASE PromptUnattended
  BY <1>8 DEF PromptUnattended, Proceed, Back
<1>9. CASE SuggestQuit
  BY <1>9 DEF SuggestQuit
<1>10. CASE LookAgain
  BY <1>10 DEF LookAgain
<1>11. CASE LockAgain
  BY <1>11 DEF LockAgain, Back
<1>12. CASE CheckConditions
  BY <1>12 DEF CheckConditions, Back
<1>13. CASE Execute
  BY <1>13 DEF Execute, Back
<1>14. CASE EnterShell
  BY <1>14 DEF EnterShell
<1>15. CASE Quit
  BY <1>15 DEF Quit, Finish
<1>16. CASE RunSubcommand
  BY <1>16 DEF RunSubcommand, Back
<1>17. CASE HandOver
  BY <1>17 DEF HandOver, CleanupForSubcommand, Finish
<1>18. CASE UserAnswers
  BY <1>18 DEF UserAnswers, Proceed, Back
<1>19. CASE ReadLine
  BY <1>19 DEF ReadLine, LockKept
<1>20. CASE EndOfInput
  BY <1>20 DEF EndOfInput, Finish
<1>21. CASE ChildEnds
  BY <1>21 DEF ChildEnds, Finish
<1>22. CASE PackageKitReleases
  <2>1. UNCHANGED <<pc, scene, conf, solved, batch, shell>>
    BY <1>22 DEF PackageKitReleases
  <2>2. QED
    BY <2>1, SameOptions
<1>23. CASE PackageKitQuits
  <2>1. UNCHANGED <<pc, scene, conf, solved, batch, shell>>
    BY <1>23 DEF PackageKitQuits
  <2>2. QED
    BY <2>1, SameOptions
<1>24. CASE OtherLocks
  <2>1. UNCHANGED <<pc, scene, conf, solved, batch, shell>>
    BY <1>24 DEF OtherLocks
  <2>2. QED
    BY <2>1, SameOptions
<1>25. CASE UNCHANGED vars
  <2>1. UNCHANGED <<pc, scene, conf, solved, batch, shell>>
    BY <1>25 DEF vars
  <2>2. QED
    BY <2>1, SameOptions
<1>26. QED
  BY <1>1, <1>2, <1>3, <1>4, <1>5, <1>6, <1>7, <1>8, <1>9, <1>10, <1>11, <1>12, <1>13,
     <1>14, <1>15, <1>16, <1>17, <1>18, <1>19, <1>20, <1>21, <1>22, <1>23, <1>24, <1>25
  DEF Next, Steps

\* When all options are written the configuration is the meaning of the options.
LEMMA AllSaid ==
  ASSUME scene \in Scenarios, ~Conflicting, conf \in ConfigType, Says(conf, Considered)
  PROVE  conf = Meaning
<1>1. Given \cap Considered = Given /\ "config" \in Considered
  BY DEF Considered
<1>2. conf.verbosity = Verbosity
  <2>1. conf.verbosity = IF "quiet" \in Given THEN QUIET
                         ELSE IF "debug" \in Given THEN DEBUG
                         ELSE IF "verbose" \in Given THEN Counter(NORMAL, Times("verbose"))
                         ELSE NORMAL
    BY <1>1 DEF Says
  <2>2. Times("verbose") \in Nat /\ (Times("verbose") = 0 <=> "verbose" \notin Given)
    BY TimesFacts
  <2>3. "verbose" \notin Given \/ "debug" \notin Given
    BY Excluded
  <2> DEFINE n == Times("verbose")
  <2> HIDE DEF n
  <2>4. n \in Nat /\ (n = 0 <=> "verbose" \notin Given)
    BY <2>2 DEF n
  <2>5. Counter(NORMAL, n) = IF n > 1 THEN DEBUG ELSE NORMAL + n
    BY <2>4 DEF Counter, NORMAL, DEBUG
  <2>6. Verbosity = IF "quiet" \in Given THEN QUIET
                    ELSE IF "debug" \in Given \/ n > 1 THEN DEBUG ELSE NORMAL + n
    BY DEF Verbosity, n
  <2>7. conf.verbosity = IF "quiet" \in Given THEN QUIET
                         ELSE IF "debug" \in Given THEN DEBUG
                         ELSE IF "verbose" \in Given THEN Counter(NORMAL, n) ELSE NORMAL
    BY <2>1 DEF n
  <2>8. NORMAL + 0 = NORMAL
    BY DEF NORMAL
  <2>9. QED
    BY <2>3, <2>4, <2>5, <2>6, <2>7, <2>8
<1>3. conf.color = Meaning.color
  BY <1>1 DEF Says, Meaning, ConfigType
<1>4. conf.verbosity = Meaning.verbosity /\ conf.shown = Meaning.shown
  BY <1>2 DEF Says, Meaning
<1>5. conf.writer = Meaning.writer
  BY <1>1 DEF Says, Meaning
<1>6. /\ conf.machine = Meaning.machine /\ conf.noAbbrev = Meaning.noAbbrev
      /\ conf.terse = Meaning.terse
  BY <1>1 DEF Says, Meaning, ConfigType
<1>7. conf.nonInteractive = Meaning.nonInteractive /\ conf.help = Meaning.help
  BY <1>1 DEF Says, Meaning, ConfigType
<1>8. conf.root = Meaning.root
  BY <1>1 DEF Says, Meaning
<1>9. /\ conf.reposd = Meaning.reposd /\ conf.cache = Meaning.cache /\ conf.raw = Meaning.raw
      /\ conf.plus = Meaning.plus
  BY <1>1 DEF Says, Meaning, RepoRoot, CacheDir
<1>10. QED
  BY <1>3, <1>4, <1>5, <1>6, <1>7, <1>8, <1>9 DEF ConfigType, Meaning

-----------------------------------------------------------------------------
(* The theorems.                                                           *)

\* The zypp lock is where it should be in every state.
LEMMA LockIsKept == Spec => []LockKept
<1>1. Init => LockKept
  BY StartupAssumption DEF Init, LockKept, BeforeLock, Environment
<1>2. QED
  BY <1>1, LockStep, PTL DEF Spec

\* Types, lock and options together are what every step keeps.
LEMMA TypesAreKept == Spec => [](LineTypes /\ ControlTypes /\ LockKept /\ OptionsKept)
<1>1. Init => LineTypes /\ ControlTypes /\ OptionsKept
  <2> SUFFICES ASSUME Init
               PROVE  LineTypes /\ ControlTypes /\ OptionsKept
    OBVIOUS
  <2> USE DEF Init
  <2>1. conf \in ConfigType
    BY DEF DefaultConfig, ConfigType, QUIET, NORMAL, DEBUG
  <2>2. scene.lines \in Seq(Lines) /\ scene.lines # <<>>
    BY StartupAssumption
  <2>3. 1 \in DOMAIN scene.lines /\ scene.lines = SubSeq(scene.lines, 1, Len(scene.lines))
    BY <2>2
  <2>4. LineTypes
    BY <2>1, <2>3 DEF LineTypes
  <2>5. ControlTypes
    BY StartupAssumption DEF ControlTypes, Environment, NoChild, Running, EXIT_OK
  <2>6. OptionsKept
    BY DEF OptionsKept
  <2>7. QED
    BY <2>4, <2>5, <2>6
<1>2. QED
  BY <1>1, LockIsKept, LineTypesStep, ControlTypesStep, OptionsStep, PTL DEF Spec

\* Every variable has a value the program can give it, for any command line (all of
\* Startup): the verbosity never leaves its range, however often --verbose is given.
THEOREM TypeCorrect == Spec => []TypeOK
<1>1. LineTypes /\ ControlTypes => TypeOK
  BY DEF LineTypes, ControlTypes, TypeOK
<1>2. QED
  BY <1>1, TypesAreKept, PTL

\* In every state in which the command is looked up (zyppflags.cc, Config::cliOptions): the
\* configuration is what the global options mean, for any options in any order, any
\* number of times, and any order in which the passes of parseCLI write them.
THEOREM OptionsAreMeant == Spec => []OptionsMean
<1>1. LineTypes /\ OptionsKept => OptionsMean
  BY AllSaid DEF LineTypes, OptionsKept, OptionsMean
<1>2. QED
  BY <1>1, TypesAreKept, PTL

\* In every state (doCommand, conditions.cc): a command works with the lock it needs, as
\* the user it needs, and on a read-only root as a dry run only.
THEOREM CommandsAreGuarded == Spec => []ExecutesGuarded
<1>1. Init => DryRunKept /\ ConditionsKept
  BY DEF Init, DryRunKept, ConditionsKept
<1>2. LockKept /\ DryRunKept /\ ConditionsKept => ExecutesGuarded
  BY DEF LockKept, DryRunKept, ConditionsKept, ExecutesGuarded, NotRoot, Unwritable
<1>3. QED
  BY <1>1, <1>2, LockIsKept, DryRunStep, ConditionsStep, PTL DEF Spec

\* While another program runs, zypper has given the lock away, and what that program
\* returns is returned (doRunAsSubcommand).
THEOREM ChildHasTheLock == Spec => []ChildHandOver
<1>1. Init => StatusKept /\ Released
  BY DEF Init, StatusKept, NoChild, Released
<1>2. LockKept /\ Released /\ [Next]_vars => Released'
  BY ReleasedStep
<1>3. StatusKept /\ Released => ChildHandOver
  BY DEF StatusKept, Released, ChildHandOver
<1>4. QED
  BY <1>1, <1>2, <1>3, LockIsKept, StatusStep, PTL DEF Spec
=============================================================================
