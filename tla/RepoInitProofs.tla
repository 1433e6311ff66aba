----------------------------- MODULE RepoInitProofs -----------------------------
(***************************************************************************)
(* Proofs about RepoInit, for any repositories, any command lines and any  *)
(* number of commands in a session.  Inv is inductive; what it says of     *)
(* aborts, skips and the installed packages is proved conjunct by conjunct,*)
(* because each is inductive on its own.  FullInv adds the contents of the *)
(* list of repositories, from which completeness of dist-upgrade and what  *)
(* may be loaded follow.                                                   *)
(***************************************************************************)
EXTENDS RepoInit, FiniteSetTheorems, TLAPS

USE DEF EXIT_OK, EXIT_ERR_BUG, EXIT_ERR_INVALID_ARGS, EXIT_ERR_ZYPP, EXIT_ERR_PRIVILEGES,
        EXIT_INF_REPOS_SKIPPED, EXIT_INF_RPM_SCRIPT_FAILED

\* The plain invariant holds at first.
LEMMA InvInit == Init => Inv
BY DEF Init, Inv, Booleans, AbortRemembered, SkipRemembered, SystemSource, SystemKnown

-----------------------------------------------------------------------------
\* The Boolean variables stay Boolean.
LEMMA BooleansStep == Booleans /\ [Next]_vars => Booleans'
<1> SUFFICES ASSUME Booleans, [Next]_vars
             PROVE  Booleans'
  OBVIOUS
<1> USE Zenon DEF Booleans, options, flags, codes, once, content, history
<1>1. CASE \E l \in CommandLines : StartCommand(l)
  BY <1>1 DEF StartCommand
<1>2. CASE ReloadFails
  BY <1>2 DEF ReloadFails
<1>3. CASE CheckConditions
  BY <1>3 DEF CheckConditions, Fail
<1>4. CASE InitTarget
  BY <1>4 DEF InitTarget
<1>5. CASE InitTargetFails
  BY <1>5 DEF InitTargetFails, Fail
<1>6. CASE \E result \in {"ok", "media"} : RefreshServices(result)
  BY <1>6 DEF RefreshServices
<1>7. CASE \E userAborts \in BOOLEAN : ServicesThrow(userAborts)
  BY <1>7 DEF ServicesThrow, Fail
<1>8. CASE RejectRepos
  BY <1>8 DEF RejectRepos
<1>9. CASE SelectRepos
  BY <1>9 DEF SelectRepos
<1>10. CASE LeaveDisabled
  BY <1>10 DEF LeaveDisabled
<1>11. CASE \E match \in BOOLEAN : RefreshOne(match)
  BY <1>11 DEF RefreshOne
<1>12. CASE \E forGood \in BOOLEAN : SkipOne(forGood)
  BY <1>12 DEF SkipOne
<1>13. CASE \E userAborts \in BOOLEAN : BreakOff(userAborts)
  BY <1>13 DEF BreakOff, Fail
<1>14. CASE EndInit
  BY <1>14 DEF EndInit
<1>15. CASE CheckRepos
  BY <1>15 DEF CheckRepos, MustFail, Fail
<1>16. CASE \E result \in {"loaded", "error", "disabled", "aborted"} : LoadOne(result)
  BY <1>16 DEF LoadOne
<1>17. CASE ReposLoaded
  BY <1>17 DEF ReposLoaded
<1>18. CASE \E ok \in BOOLEAN : LoadTarget(ok)
  BY <1>18 DEF LoadTarget
<1>19. CASE \E code \in {EXIT_OK, EXIT_ERR_ZYPP}, scriptFailed \in BOOLEAN : Execute(code, scriptFailed)
  BY <1>19 DEF Execute
<1>20. CASE FinishCommand
  BY <1>20 DEF FinishCommand
<1>21. CASE UNCHANGED vars
  BY <1>21 DEF vars
<1>22. QED
  BY <1>1, <1>2, <1>3, <1>4, <1>5, <1>6, <1>7, <1>8, <1>9, <1>10, <1>11, <1>12, <1>13,
       <1>14, <1>15, <1>16, <1>17, <1>18, <1>19, <1>20, <1>21
  DEF Next, InitRepos, Load

\* An abort is in the exit code until it is looked at.
LEMMA AbortStep == Booleans /\ AbortRemembered /\ [Next]_vars => AbortRemembered'
<1> SUFFICES ASSUME Booleans /\ AbortRemembered, [Next]_vars
             PROVE  AbortRemembered'
  OBVIOUS
<1> USE DEF AbortRemembered, Booleans, options, flags, codes, once, content, history
<1>1. CASE \E l \in CommandLines : StartCommand(l)
  BY <1>1 DEF StartCommand
<1>2. CASE ReloadFails
  BY <1>2 DEF ReloadFails
<1>3. CASE CheckConditions
  BY <1>3 DEF CheckConditions, Fail
<1>4. CASE InitTarget
  BY <1>4 DEF InitTarget
<1>5. CASE InitTargetFails
  BY <1>5 DEF InitTargetFails, Fail
<1>6. CASE \E result \in {"ok", "media"} : RefreshServices(result)
  BY <1>6 DEF RefreshServices
<1>7. CASE \E userAborts \in BOOLEAN : ServicesThrow(userAborts)
  BY <1>7 DEF ServicesThrow, Fail
<1>8. CASE RejectRepos
  BY <1>8 DEF RejectRepos
<1>9. CASE SelectRepos
  BY <1>9 DEF SelectRepos
<1>10. CASE LeaveDisabled
  BY <1>10 DEF LeaveDisabled
<1>11. CASE \E match \in BOOLEAN : RefreshOne(match)
  BY <1>11 DEF RefreshOne
<1>12. CASE \E forGood \in BOOLEAN : SkipOne(forGood)
  BY <1>12 DEF SkipOne
<1>13. CASE \E userAborts \in BOOLEAN : BreakOff(userAborts)
  BY <1>13 DEF BreakOff, Fail
<1>14. CASE EndInit
  BY <1>14 DEF EndInit
<1>15. CASE CheckRepos
  BY <1>15 DEF CheckRepos, MustFail, Fail
<1>16. CASE \E result \in {"loaded", "error", "disabled", "aborted"} : LoadOne(result)
  BY <1>16 DEF LoadOne
<1>17. CASE ReposLoaded
  BY <1>17 DEF ReposLoaded
<1>18. CASE \E ok \in BOOLEAN : LoadTarget(ok)
  BY <1>18 DEF LoadTarget
<1>19. CASE \E code \in {EXIT_OK, EXIT_ERR_ZYPP}, scriptFailed \in BOOLEAN : Execute(code, scriptFailed)
  BY <1>19 DEF Execute
<1>20. CASE FinishCommand
  BY <1>20 DEF FinishCommand
<1>21. CASE UNCHANGED vars
  BY <1>21 DEF vars
<1>22. QED
  BY <1>1, <1>2, <1>3, <1>4, <1>5, <1>6, <1>7, <1>8, <1>9, <1>10, <1>11, <1>12, <1>13,
       <1>14, <1>15, <1>16, <1>17, <1>18, <1>19, <1>20, <1>21
  DEF Next, InitRepos, Load

\* A skip is in the info code, and dist-upgrade has looked at it.
LEMMA SkipStep == Booleans /\ SkipRemembered /\ [Next]_vars => SkipRemembered'
<1> SUFFICES ASSUME Booleans /\ SkipRemembered, [Next]_vars
             PROVE  SkipRemembered'
  OBVIOUS
<1> USE DEF SkipRemembered, Booleans, options, flags, codes, once, content, history
<1>1. CASE \E l \in CommandLines : StartCommand(l)
  BY <1>1 DEF StartCommand
<1>2. CASE ReloadFails
  BY <1>2 DEF ReloadFails
<1>3. CASE CheckConditions
  BY <1>3 DEF CheckConditions, Fail
<1>4. CASE InitTarget
  BY <1>4 DEF InitTarget
<1>5. CASE InitTargetFails
  BY <1>5 DEF InitTargetFails, Fail
<1>6. CASE \E result \in {"ok", "media"} : RefreshServices(result)
  BY <1>6 DEF RefreshServices
<1>7. CASE \E userAborts \in BOOLEAN : ServicesThrow(userAborts)
  BY <1>7 DEF ServicesThrow, Fail
<1>8. CASE RejectRepos
  BY <1>8 DEF RejectRepos
<1>9. CASE SelectRepos
  BY <1>9 DEF SelectRepos
<1>10. CASE LeaveDisabled
  BY <1>10 DEF LeaveDisabled
<1>11. CASE \E match \in BOOLEAN : RefreshOne(match)
  BY <1>11 DEF RefreshOne
<1>12. CASE \E forGood \in BOOLEAN : SkipOne(forGood)
  BY <1>12 DEF SkipOne
<1>13. CASE \E userAborts \in BOOLEAN : BreakOff(userAborts)
  BY <1>13 DEF BreakOff, Fail
<1>14. CASE EndInit
  BY <1>14 DEF EndInit
<1>15. CASE CheckRepos
  BY <1>15 DEF CheckRepos, MustFail, Fail
<1>16. CASE \E result \in {"loaded", "error", "disabled", "aborted"} : LoadOne(result)
  BY <1>16 DEF LoadOne
<1>17. CASE ReposLoaded
  BY <1>17 DEF ReposLoaded
<1>18. CASE \E ok \in BOOLEAN : LoadTarget(ok)
  BY <1>18 DEF LoadTarget
<1>19. CASE \E code \in {EXIT_OK, EXIT_ERR_ZYPP}, scriptFailed \in BOOLEAN : Execute(code, scriptFailed)
  BY <1>19 DEF Execute
<1>20. CASE FinishCommand
  BY <1>20 DEF FinishCommand
<1>21. CASE UNCHANGED vars
  BY <1>21 DEF vars
<1>22. QED
  BY <1>1, <1>2, <1>3, <1>4, <1>5, <1>6, <1>7, <1>8, <1>9, <1>10, <1>11, <1>12, <1>13,
       <1>14, <1>15, <1>16, <1>17, <1>18, <1>19, <1>20, <1>21
  DEF Next, InitRepos, Load

\* The installed packages are known before the command runs.
LEMMA SystemStep == Booleans /\ SystemSource /\ [Next]_vars => SystemSource'
<1> SUFFICES ASSUME Booleans /\ SystemSource, [Next]_vars
             PROVE  SystemSource'
  OBVIOUS
<1> USE DEF SystemSource, SystemKnown, Booleans, options, flags, codes, once, content, history
<1>1. CASE \E l \in CommandLines : StartCommand(l)
  BY <1>1 DEF StartCommand
<1>2. CASE ReloadFails
  BY <1>2 DEF ReloadFails
<1>3. CASE CheckConditions
  BY <1>3 DEF CheckConditions, Fail
<1>4. CASE InitTarget
  BY <1>4 DEF InitTarget
<1>5. CASE InitTargetFails
  BY <1>5 DEF InitTargetFails, Fail
<1>6. CASE \E result \in {"ok", "media"} : RefreshServices(result)
  BY <1>6 DEF RefreshServices
<1>7. CASE \E userAborts \in BOOLEAN : ServicesThrow(userAborts)
  BY <1>7 DEF ServicesThrow, Fail
<1>8. CASE RejectRepos
  BY <1>8 DEF RejectRepos
<1>9. CASE SelectRepos
  BY <1>9 DEF SelectRepos
<1>10. CASE LeaveDisabled
  BY <1>10 DEF LeaveDisabled
<1>11. CASE \E match \in BOOLEAN : RefreshOne(match)
  BY <1>11 DEF RefreshOne
<1>12. CASE \E forGood \in BOOLEAN : SkipOne(forGood)
  BY <1>12 DEF SkipOne
<1>13. CASE \E userAborts \in BOOLEAN : BreakOff(userAborts)
  BY <1>13 DEF BreakOff, Fail
<1>14. CASE EndInit
  BY <1>14 DEF EndInit
<1>15. CASE CheckRepos
  BY <1>15 DEF CheckRepos, MustFail, Fail
<1>16. CASE \E result \in {"loaded", "error", "disabled", "aborted"} : LoadOne(result)
  BY <1>16 DEF LoadOne
<1>17. CASE ReposLoaded
  BY <1>17 DEF ReposLoaded
<1>18. CASE \E ok \in BOOLEAN : LoadTarget(ok)
  BY <1>18 DEF LoadTarget
<1>19. CASE \E code \in {EXIT_OK, EXIT_ERR_ZYPP}, scriptFailed \in BOOLEAN : Execute(code, scriptFailed)
  BY <1>19 DEF Execute
<1>20. CASE FinishCommand
  BY <1>20 DEF FinishCommand
<1>21. CASE UNCHANGED vars
  BY <1>21 DEF vars
<1>22. QED
  BY <1>1, <1>2, <1>3, <1>4, <1>5, <1>6, <1>7, <1>8, <1>9, <1>10, <1>11, <1>12, <1>13,
       <1>14, <1>15, <1>16, <1>17, <1>18, <1>19, <1>20, <1>21
  DEF Next, InitRepos, Load

\* The plain invariant always holds.
LEMMA InvAlways == Spec => []Inv
<1>1. Inv /\ [Next]_vars => Inv'
  BY BooleansStep, AbortStep, SkipStep, SystemStep DEF Inv
<1> QED
  BY InvInit, <1>1, PTL DEF Spec

-----------------------------------------------------------------------------
\* "rethrow ABORT exception, stop executing the command": after the user's abort no
\* command is executed, although load_repo_resolvables swallows the exception.
THEOREM AbortsStopCommands == Spec => []AbortStopsCommand
<1>1. Inv => AbortStopsCommand
  BY DEF Inv, AbortRemembered, AbortStopsCommand
<1> QED
  BY <1>1, InvAlways, PTL

\* FailIfReposFail: once init_repos has skipped a repository, no dist-upgrade is
\* executed in the session, whatever info code was recorded first.
THEOREM NoDupOnceSkipped == Spec => []NoDupAfterSkip
<1>1. Inv => NoDupAfterSkip
  BY Zenon DEF Inv, SkipRemembered, NoDupAfterSkip, Executing
<1> QED
  BY <1>1, InvAlways, PTL

\* load_target_resolvables: a command that is executed knows the installed packages, or it
\* is a single one told by --disable-system-resolvables not to look at them.
THEOREM SystemIsKnown == Spec => []SystemKnown
<1>1. Inv => SystemKnown
  BY DEF Inv, SystemSource
<1> QED
  BY <1>1, InvAlways, PTL

\* Together: a command runs only after a set-up that went well enough.
THEOREM CommandsArePrepared == Spec => []RunsPrepared
<1>1. AbortStopsCommand /\ SystemKnown => RunsPrepared
  BY DEF RunsPrepared
<1> QED
  BY <1>1, AbortsStopCommands, SystemIsKnown, PTL

-----------------------------------------------------------------------------
(* Lists without some of their elements                                    *)

Row == [alias : Aliases, on : BOOLEAN]

\* Nth goes through a finite set of numbers in order.
LEMMA NthFacts ==
  ASSUME NEW I, I \subseteq Nat, IsFiniteSet(I)
  PROVE  /\ Cardinality(I) \in Nat
         /\ \A k \in 1 .. Cardinality(I) : Nth(I, k) \in I
         /\ \A k, m \in 1 .. Cardinality(I) : Nth(I, k) = Nth(I, m) => k = m
         /\ \A i \in I : \E k \in 1 .. Cardinality(I) : Nth(I, k) = i
         /\ I # {} => \E i \in I : \A j \in I : i <= j
<1> DEFINE n == Cardinality(I)
           rank == [i \in I |-> Rank(I, i)]
<1>1. n \in Nat
  BY FS_CardinalityType
<1>2. \A i \in I : Rank(I, i) \in 1 .. n
  <2> TAKE i \in I
  <2> DEFINE L == {j \in I : j <= i}
  <2>1. L \in SUBSET I /\ i \in L
    OBVIOUS
  <2>2. IsFiniteSet(L) /\ Cardinality(L) <= n
    BY <2>1, FS_Subset
  <2>3. Cardinality(L) \in Nat /\ Cardinality(L) # 0
    BY <2>1, <2>2, FS_CardinalityType, FS_EmptySet
  <2>4. QED
    BY <1>1, <2>2, <2>3 DEF Rank
<1>3. ASSUME NEW i \in I, NEW j \in I, i < j
      PROVE  Rank(I, i) # Rank(I, j)
  <2> DEFINE L == {m \in I : m <= i}
             M == {m \in I : m <= j}
  <2>1. \A m \in I : m <= i => m <= j
    BY <1>3
  <2>2. L \in SUBSET M /\ M \in SUBSET I
    BY <2>1
  <2>3. j \in M /\ j \notin L
    BY <1>3
  <2>4. IsFiniteSet(M)
    BY <2>2, FS_Subset
  <2>5. Cardinality(M) # Cardinality(L)
    <3> HIDE DEF L, M
    <3> QED
      BY <2>2, <2>3, <2>4, FS_Subset
  <2>6. QED
    BY <2>5 DEF Rank
<1>4. \A i, j \in I : Rank(I, i) = Rank(I, j) => i = j
  <2> TAKE i, j \in I
  <2>1. i < j \/ j < i \/ i = j
    OBVIOUS
  <2>2. QED
    BY <1>3, <2>1
<1>5. rank \in Injection(I, 1 .. n)
  BY <1>2, <1>4 DEF Injection, IsInjective
<1>6. IsFiniteSet(1 .. n) /\ Cardinality(1 .. n) = n
  BY <1>1, FS_Interval
<1>7. rank \in Surjection(I, 1 .. n)
  <2> HIDE DEF rank
  <2> QED
    BY <1>5, <1>6, FS_Injection
<1>8. \A k \in 1 .. n : \E i \in I : Rank(I, i) = k
  BY <1>7 DEF Surjection
<1>9. \A k \in 1 .. n : Nth(I, k) \in I /\ Rank(I, Nth(I, k)) = k
  BY <1>8 DEF Nth
<1>10. \A i \in I : Nth(I, Rank(I, i)) = i
  BY <1>2, <1>4, <1>9
<1>11. ASSUME I # {}
       PROVE  \E i \in I : \A j \in I : i <= j
  <2>0. 1 \in 1 .. n
    <3>1. PICK x \in I : Rank(I, x) \in 1 .. n
      BY <1>2, <1>11
    <3>2. QED
      BY <1>1, <3>1
  <2>1. PICK i \in I : Rank(I, i) = 1
    BY <1>8, <2>0
  <2> DEFINE L == {j \in I : j <= i}
  <2>2. IsFiniteSet(L) /\ i \in L
    BY FS_Subset
  <2>3. \E x : L = {x}
    BY <2>1, <2>2, FS_Singleton DEF Rank
  <2>4. ASSUME NEW j \in I, j < i
        PROVE  FALSE
    BY <2>2, <2>3, <2>4
  <2>5. QED
    BY <2>4
<1>12. QED
  BY <1>1, <1>2, <1>9, <1>10, <1>11

\* A sublist has the elements at those positions, each once.
LEMMA SublistFacts ==
  ASSUME NEW S, NEW list \in Seq(S), NEW I, I \subseteq DOMAIN list
  PROVE  LET n == Cardinality(I) IN
         /\ n \in Nat
         /\ Sublist(list, I) \in Seq(S) /\ Len(Sublist(list, I)) = n
         /\ \A k \in 1 .. n : Nth(I, k) \in I /\ Sublist(list, I)[k] = list[Nth(I, k)]
         /\ \A k, m \in 1 .. n : Nth(I, k) = Nth(I, m) => k = m
         /\ \A i \in I : \E k \in 1 .. n : Nth(I, k) = i
         /\ I # {} => \E i \in I : \A j \in I : i <= j
<1> DEFINE n == Cardinality(I)
<1>1. DOMAIN list = 1 .. Len(list) /\ Len(list) \in Nat
  OBVIOUS
<1>2. IsFiniteSet(I) /\ I \subseteq Nat
  <2>1. I \in SUBSET (1 .. Len(list)) /\ I \subseteq Nat
    BY <1>1
  <2>2. IsFiniteSet(1 .. Len(list))
    BY <1>1, FS_Interval
  <2>3. QED
    BY <2>1, <2>2, FS_Subset
<1>3. /\ n \in Nat
      /\ \A k \in 1 .. n : Nth(I, k) \in I
      /\ \A k, m \in 1 .. n : Nth(I, k) = Nth(I, m) => k = m
      /\ \A i \in I : \E k \in 1 .. n : Nth(I, k) = i
      /\ I # {} => \E i \in I : \A j \in I : i <= j
  BY <1>2, NthFacts
<1>4. \A k \in 1 .. n : list[Nth(I, k)] \in S
  BY <1>1, <1>3
<1>5. Sublist(list, I) \in Seq(S) /\ Len(Sublist(list, I)) = n
  <2> HIDE DEF n
  <2>1. Sublist(list, I) = [k \in 1 .. n |-> list[Nth(I, k)]]
    BY DEF Sublist, n
  <2>2. QED
    BY <1>3, <1>4, <2>1
<1>6. \A k \in 1 .. n : Sublist(list, I)[k] = list[Nth(I, k)]
  BY DEF Sublist
<1>7. QED
  BY <1>3, <1>5, <1>6

\* Two lists, one after the other.
LEMMA ConcatFacts ==
  ASSUME NEW S, NEW s \in Seq(S), NEW t \in Seq(S)
  PROVE  /\ s \o t \in Seq(S) /\ Len(s \o t) = Len(s) + Len(t)
         /\ \A i \in 1 .. Len(s) : (s \o t)[i] = s[i]
         /\ \A i \in 1 .. Len(t) : (s \o t)[Len(s) + i] = t[i]
OBVIOUS

-----------------------------------------------------------------------------
(* What do_init_repos makes of the list                                    *)

Listed == /\ repos \in Seq(Row)
          /\ line \in CommandLine
          /\ enabled \in [ToSet(Known) -> BOOLEAN]

\* The table has a row for every alias.
LEMMA EntryIsRow == ASSUME Listed, NEW a \in Aliases
                    PROVE  Entry(a) \in Row /\ Entry(a).alias = a
<1>1. a \in ToSet(Temp) \/ enabled[a] \in BOOLEAN
  BY DEF Listed, Aliases
<1>2. Entry(a).on \in BOOLEAN
  BY <1>1, Zenon DEF Entry
<1>3. QED
  BY <1>2 DEF Entry, Row

\* The --repo arguments follow what was there, each once.
LEMMA SpecifiedFacts ==
  ASSUME Listed
  PROVE  LET new == WithSpecified IN
         /\ new \in Seq(Row) /\ Len(repos) <= Len(new)
         /\ \A i \in DOMAIN repos : new[i] = repos[i]
         /\ \A i \in DOMAIN new \ DOMAIN repos :
              /\ new[i].alias \in ToSet(line.only) \cap Aliases
              /\ new[i].alias \notin AliasesIn(repos)
              /\ new[i] = Entry(new[i].alias)
              /\ \A j \in DOMAIN new : new[j].alias = new[i].alias => j = i
         /\ \A a \in ToSet(line.only) \cap Aliases : a \in AliasesIn(new)
<1> DEFINE only == line.only
           I == NewArguments
           n == Cardinality(I)
           args == Sublist(only, I)
           tail == [i \in 1 .. n |-> Entry(args[i])]
<1>1. only \in Seq(Aliases \cup {Unknown}) /\ repos \in Seq(Row)
  BY DEF Listed, CommandLine
<1>2. I \subseteq DOMAIN only
  BY DEF NewArguments
<1>3. /\ n \in Nat /\ Len(args) = n
      /\ args \in Seq(Aliases \cup {Unknown})
      /\ \A k \in 1 .. n : Nth(I, k) \in I /\ args[k] = only[Nth(I, k)]
      /\ \A k, m \in 1 .. n : Nth(I, k) = Nth(I, m) => k = m
      /\ \A i \in I : \E k \in 1 .. n : Nth(I, k) = i
  <2> HIDE DEF I, only
  <2> QED
    BY <1>1, <1>2, SublistFacts
<1>4. DOMAIN args = 1 .. n
  BY <1>3
<1>5. \A k \in 1 .. n : args[k] \in Aliases /\ args[k] \notin AliasesIn(repos)
                        /\ args[k] \in ToSet(only)
  BY <1>1, <1>3 DEF NewArguments, ToSet
<1>6. \A k, m \in 1 .. n : args[k] = args[m] => k = m
  <2> TAKE k, m \in 1 .. n
  <2> HAVE args[k] = args[m]
  <2>1. Nth(I, k) \in Nat /\ Nth(I, m) \in Nat
    BY <1>1, <1>2, <1>3
  <2>2. ~(Nth(I, k) < Nth(I, m)) /\ ~(Nth(I, m) < Nth(I, k))
    BY <1>3 DEF NewArguments
  <2>3. QED
    BY <1>3, <2>1, <2>2
<1>7. \A k \in 1 .. n : tail[k] \in Row /\ tail[k] = Entry(args[k]) /\ tail[k].alias = args[k]
  BY <1>5, EntryIsRow
<1>8. tail \in Seq(Row) /\ Len(tail) = n
  <2> HIDE DEF n
  <2> QED
    BY <1>3, <1>7
<1>9. WithSpecified = repos \o tail
  BY <1>4 DEF WithSpecified
<1>10. /\ WithSpecified \in Seq(Row) /\ Len(WithSpecified) = Len(repos) + n
       /\ \A i \in 1 .. Len(repos) : WithSpecified[i] = repos[i]
       /\ \A i \in 1 .. n : WithSpecified[Len(repos) + i] = tail[i]
  <2> HIDE DEF tail, n
  <2>1. repos \in Seq(Row) /\ tail \in Seq(Row)
    BY <1>1, <1>8
  <2>2. /\ repos \o tail \in Seq(Row)
        /\ Len(repos \o tail) = Len(repos) + Len(tail)
        /\ \A i \in 1 .. Len(repos) : (repos \o tail)[i] = repos[i]
        /\ \A i \in 1 .. Len(tail) : (repos \o tail)[Len(repos) + i] = tail[i]
    BY <2>1, ConcatFacts
  <2>3. QED
    BY <1>8, <1>9, <2>2
<1>11. ASSUME NEW i \in DOMAIN WithSpecified \ DOMAIN repos
       PROVE  \E k \in 1 .. n : i = Len(repos) + k
  <2> HIDE DEF n
  <2>1. i \in Len(repos) + 1 .. Len(repos) + n
    BY <1>1, <1>3, <1>10
  <2>2. i - Len(repos) \in 1 .. n
    BY <1>1, <1>3, <2>1
  <2>3. QED
    BY <1>1, <2>1, <2>2
<1>12. \A i \in DOMAIN repos : repos[i].alias \in AliasesIn(repos)
  BY DEF AliasesIn
<1>13. ASSUME NEW i \in DOMAIN WithSpecified \ DOMAIN repos
       PROVE  LET new == WithSpecified IN
              /\ new[i].alias \in ToSet(only) \cap Aliases
              /\ new[i].alias \notin AliasesIn(repos)
              /\ new[i] = Entry(new[i].alias)
              /\ \A j \in DOMAIN new : new[j].alias = new[i].alias => j = i
  <2>1. PICK k \in 1 .. n : i = Len(repos) + k
    BY <1>11
  <2>2. WithSpecified[i] = tail[k]
    BY <1>10, <2>1
  <2>3. \A j \in DOMAIN WithSpecified \ DOMAIN repos :
          WithSpecified[j].alias = args[k] => j = i
    <3> SUFFICES ASSUME NEW j \in DOMAIN WithSpecified \ DOMAIN repos,
                        WithSpecified[j].alias = args[k]
                 PROVE  j = i
      OBVIOUS
    <3>1. PICK m \in 1 .. n : j = Len(repos) + m
      BY <1>11
    <3> HIDE DEF tail, args, n
    <3>2. args[m] = args[k]
      BY <1>7, <1>10, <3>1
    <3>3. QED
      BY <1>6, <2>1, <3>1, <3>2
  <2>4. \A j \in DOMAIN repos : WithSpecified[j].alias # args[k]
    BY <1>1, <1>5, <1>10, <1>12
  <2>5. QED
    <3> HIDE DEF tail, args, n
    <3> QED
      BY <1>5, <1>7, <2>2, <2>3, <2>4
<1>14. ASSUME NEW a \in ToSet(only) \cap Aliases
       PROVE  a \in AliasesIn(WithSpecified)
  <2>1. CASE a \in AliasesIn(repos)
    <3>1. PICK i \in DOMAIN repos : repos[i].alias = a
      BY <2>1 DEF AliasesIn
    <3>2. i \in DOMAIN WithSpecified /\ WithSpecified[i].alias = a
      <4> HIDE DEF n
      <4> QED BY <1>1, <1>3, <1>10, <3>1
    <3>3. QED
      BY <3>2 DEF AliasesIn
  <2>2. CASE a \notin AliasesIn(repos)
    <3> DEFINE J == {i \in DOMAIN only : only[i] = a}
    <3>1. J # {} /\ J \subseteq DOMAIN only
      BY DEF ToSet
    <3>2. PICK i \in J : \A j \in J : i <= j
      <4> HIDE DEF J, only
      <4> QED BY <1>1, <3>1, SublistFacts
    <3>3. i \in DOMAIN only /\ only[i] = a /\ i \in Nat
      BY <1>1, <3>2
    <3>4. \A j \in DOMAIN only : j < i => only[j] # a
      BY <1>1, <3>2, <3>3
    <3>5. i \in I
      BY <2>2, <3>3, <3>4 DEF NewArguments
    <3>6. PICK k \in 1 .. n : Nth(I, k) = i
      BY <1>3, <3>5
    <3>7. args[k] = a
      BY <1>3, <3>3, <3>6
    <3>8. Len(repos) + k \in DOMAIN WithSpecified /\ WithSpecified[Len(repos) + k].alias = a
      <4> HIDE DEF tail, args, n
      <4> QED BY <1>1, <1>3, <1>7, <1>10, <3>7
    <3>9. QED
      BY <3>8 DEF AliasesIn
  <2>3. QED
    BY <2>1, <2>2
<1>15. QED
  <2> HIDE DEF n
  <2>1. Len(repos) <= Len(WithSpecified)
    BY <1>1, <1>3, <1>10
  <2>2. \A i \in DOMAIN repos : WithSpecified[i] = repos[i]
    BY <1>1, <1>10
  <2>3. QED
    BY <1>10, <1>13, <1>14, <2>1, <2>2

\* The list that is refreshed: temporary repositories are added, ignored ones left out.
LEMMA ActiveFacts ==
  ASSUME Listed, AliasesIn(repos) \cap Ignored = {}, KnownOnce
  PROVE  /\ ActiveRepos \in Seq(Row)
         /\ AliasesIn(ActiveRepos) \cap Ignored = {}
         /\ AliasesIn(repos) \subseteq AliasesIn(ActiveRepos)
         /\ \A i \in DOMAIN ActiveRepos :
              \/ \E j \in DOMAIN repos : ActiveRepos[i] = repos[j]
              \/ ActiveRepos[i] = Entry(ActiveRepos[i].alias)
         /\ \A i \in DOMAIN ActiveRepos : ActiveRepos[i].alias \in AliasesIn(repos) =>
              \/ \E k \in DOMAIN ActiveRepos :
                   k # i /\ ActiveRepos[k].alias = ActiveRepos[i].alias
              \/ \E j \in DOMAIN repos :
                   /\ ActiveRepos[i] = repos[j]
                   /\ \A k \in DOMAIN repos : repos[k].alias = repos[j].alias => k = j
         /\ \A i, j \in DOMAIN ActiveRepos :
              /\ ActiveRepos[i].alias = ActiveRepos[j].alias
              /\ ActiveRepos[i].alias \in ToSet(Known)
              => i = j
         /\ repos = <<>> =>
              \A a \in ToSet(Known) \ Ignored : line.only = <<>> \/ a \in ToSet(line.only) =>
                \E i \in DOMAIN ActiveRepos : ActiveRepos[i] = Entry(a)
<1> DEFINE ws == WithSpecified
           base == IF ws = <<>> THEN [i \in DOMAIN Known |-> Entry(Known[i])] ELSE ws
           temp == [i \in DOMAIN Temp |-> Entry(Temp[i])]
           all == base \o temp
           I == {i \in DOMAIN all : all[i].alias \notin Ignored}
           n == Cardinality(I)
<1>1. ActiveRepos = Sublist(all, I)
  BY DEF ActiveRepos
<1>2. /\ ws \in Seq(Row) /\ Len(repos) <= Len(ws) /\ repos \in Seq(Row)
      /\ \A i \in DOMAIN repos : ws[i] = repos[i]
      /\ \A i \in DOMAIN ws \ DOMAIN repos :
              /\ ws[i].alias \in ToSet(line.only) \cap Aliases
              /\ ws[i].alias \notin AliasesIn(repos)
              /\ ws[i] = Entry(ws[i].alias)
              /\ \A j \in DOMAIN ws : ws[j].alias = ws[i].alias => j = i
      /\ \A a \in ToSet(line.only) \cap Aliases : a \in AliasesIn(ws)
  BY SpecifiedFacts DEF Listed
<1>3. /\ \A i \in DOMAIN Known : Known[i] \in Aliases /\ Known[i] \in ToSet(Known)
      /\ \A i \in DOMAIN Temp : Temp[i] \in Aliases /\ Temp[i] \in ToSet(Temp)
      /\ DOMAIN Known = 1 .. Len(Known) /\ Len(Known) \in Nat
      /\ DOMAIN Temp = 1 .. Len(Temp) /\ Len(Temp) \in Nat
  BY RepoInitAssumption DEF ToSet, Aliases
<1>4. /\ base \in Seq(Row) /\ Len(repos) <= Len(base)
      /\ \A i \in DOMAIN repos : base[i] = repos[i]
      /\ \A i \in DOMAIN base \ DOMAIN repos :
           base[i] = Entry(base[i].alias) /\ base[i].alias \notin AliasesIn(repos)
      /\ \A i, j \in DOMAIN base :
           base[i].alias = base[j].alias /\ base[i].alias \in ToSet(Known) => i = j
  <2>1. CASE ws = <<>>
    <3>1. repos = <<>> /\ AliasesIn(repos) = {}
      BY <1>2, <2>1 DEF AliasesIn
    <3>2. base = [i \in 1 .. Len(Known) |-> Entry(Known[i])]
      BY <1>3, <2>1
    <3>3. \A i \in 1 .. Len(Known) : Entry(Known[i]) \in Row /\ Entry(Known[i]).alias = Known[i]
      BY <1>3, EntryIsRow
    <3>4. base \in Seq(Row) /\ Len(base) = Len(Known)
      <4> HIDE DEF ws
      <4> QED BY <1>3, <3>2, <3>3
    <3>5. \A i \in DOMAIN base : base[i] = Entry(Known[i]) /\ base[i].alias = Known[i]
      BY <1>3, <3>2, <3>3
    <3>6. DOMAIN base = DOMAIN Known
      BY <1>3, <3>2
    <3> HIDE DEF base
    <3>7. \A i, j \in DOMAIN base : base[i].alias = base[j].alias => i = j
      BY <3>5, <3>6, RepoInitAssumption
    <3>8. QED
      BY <1>3, <3>1, <3>4, <3>5, <3>7
  <2>2. CASE ws # <<>>
    <3>1. base = ws
      BY <2>2
    <3>2. \A i \in DOMAIN repos : repos[i].alias \in AliasesIn(repos)
      BY DEF AliasesIn
    <3>3. ASSUME NEW i \in DOMAIN ws, NEW j \in DOMAIN ws, ws[i].alias = ws[j].alias,
                 ws[i].alias \in ToSet(Known)
          PROVE  i = j
      <4>1. CASE i \in DOMAIN repos /\ j \in DOMAIN repos
        BY <1>2, <3>3, <4>1 DEF KnownOnce
      <4>2. CASE i \notin DOMAIN repos \/ j \notin DOMAIN repos
        <5> HIDE DEF ws
        <5> QED BY <1>2, <3>3, <4>2
      <4>3. QED
        BY <4>1, <4>2
    <3> HIDE DEF ws, base
    <3>4. QED
      BY <1>2, <3>1, <3>3
  <2>3. QED
    BY <2>1, <2>2
<1>5. /\ temp \in Seq(Row) /\ Len(temp) = Len(Temp)
      /\ \A i \in 1 .. Len(temp) : /\ temp[i] = Entry(temp[i].alias)
                                   /\ temp[i].alias \in ToSet(Temp)
  <2>1. \A i \in DOMAIN Temp : Entry(Temp[i]) \in Row /\ Entry(Temp[i]).alias = Temp[i]
    BY <1>3, EntryIsRow
  <2>2. temp = [i \in 1 .. Len(Temp) |-> Entry(Temp[i])]
    BY <1>3
  <2>3. QED
    BY <1>3, <2>1, <2>2
<1>6. ToSet(Known) \cap ToSet(Temp) = {}
  BY RepoInitAssumption
<1>7. /\ all \in Seq(Row) /\ Len(all) = Len(base) + Len(temp)
      /\ \A i \in 1 .. Len(base) : all[i] = base[i]
      /\ \A i \in 1 .. Len(temp) : all[Len(base) + i] = temp[i]
  <2> HIDE DEF base, temp
  <2>1. base \in Seq(Row) /\ temp \in Seq(Row)
    BY <1>4, <1>5
  <2>2. QED
    BY <2>1, ConcatFacts
<1> HIDE DEF ws, base, temp, all
<1>8. /\ \A i \in DOMAIN repos : i \in DOMAIN base /\ all[i] = repos[i]
      /\ DOMAIN base \subseteq DOMAIN all
  <2>1. /\ DOMAIN repos = 1 .. Len(repos) /\ Len(repos) \in Nat
        /\ DOMAIN base = 1 .. Len(base) /\ Len(base) \in Nat
        /\ DOMAIN all = 1 .. Len(all) /\ Len(temp) \in Nat
    BY <1>2, <1>4, <1>5, <1>7
  <2>2. DOMAIN repos \subseteq DOMAIN base /\ DOMAIN base \subseteq DOMAIN all
    BY <1>4, <1>7, <2>1
  <2>3. QED
    BY <1>4, <1>7, <2>1, <2>2
<1>9. \A i \in DOMAIN all \ DOMAIN base :
        /\ all[i] = Entry(all[i].alias) /\ all[i].alias \in ToSet(Temp)
  <2> TAKE i \in DOMAIN all \ DOMAIN base
  <2>1. i - Len(base) \in 1 .. Len(temp) /\ i = Len(base) + (i - Len(base))
    BY <1>4, <1>5, <1>7
  <2>2. all[i] = temp[i - Len(base)]
    BY <1>7, <2>1
  <2>3. QED
    BY <1>5, <2>1, <2>2
<1>10. \A i \in DOMAIN all :
         \/ i \in DOMAIN repos /\ all[i] = repos[i]
         \/ all[i] = Entry(all[i].alias)
  BY <1>4, <1>7, <1>8, <1>9
<1>11. \A i, j \in DOMAIN all :
         all[i].alias = all[j].alias /\ all[i].alias \in ToSet(Known) => i = j
  <2> TAKE i, j \in DOMAIN all
  <2> HAVE all[i].alias = all[j].alias /\ all[i].alias \in ToSet(Known)
  <2>1. i \in DOMAIN base /\ j \in DOMAIN base
    BY <1>6, <1>9
  <2>2. all[i] = base[i] /\ all[j] = base[j]
    BY <1>4, <1>7, <2>1
  <2>3. QED
    BY <1>4, <2>1, <2>2
<1>12. \A i \in DOMAIN all : all[i].alias \in AliasesIn(repos) =>
         \/ \E k \in DOMAIN all : k # i /\ all[k].alias = all[i].alias
         \/ \E j \in DOMAIN repos :
              /\ all[i] = repos[j]
              /\ \A k \in DOMAIN repos : repos[k].alias = repos[j].alias => k = j
  <2> SUFFICES ASSUME NEW i \in DOMAIN all, all[i].alias \in AliasesIn(repos),
                      \A k \in DOMAIN all : k # i => all[k].alias # all[i].alias
               PROVE  \E j \in DOMAIN repos :
                        /\ all[i] = repos[j]
                        /\ \A k \in DOMAIN repos : repos[k].alias = repos[j].alias => k = j
    OBVIOUS
  <2>1. PICK j \in DOMAIN repos : repos[j].alias = all[i].alias
    BY DEF AliasesIn
  <2>2. j = i
    BY <1>8, <2>1
  <2>3. QED
    BY <1>8, <2>1, <2>2
<1>13. repos = <<>> =>
         \A a \in ToSet(Known) : line.only = <<>> \/ a \in ToSet(line.only) =>
           \E i \in DOMAIN all : all[i] = Entry(a) /\ all[i].alias = a
  <2> SUFFICES ASSUME repos = <<>>, NEW a \in ToSet(Known),
                      line.only = <<>> \/ a \in ToSet(line.only)
               PROVE  \E i \in DOMAIN base : base[i] = Entry(a) /\ base[i].alias = a
    BY <1>4, <1>7, <1>8
  <2>1. a \in Aliases /\ DOMAIN repos = {}
    BY DEF Aliases
  <2>2. CASE a \in AliasesIn(ws)
    <3>1. PICK i \in DOMAIN ws : ws[i].alias = a
      BY <2>2 DEF AliasesIn
    <3>2. ws # <<>>
      BY <3>1
    <3>3. QED
      BY <1>2, <2>1, <3>1, <3>2 DEF base
  <2>3. CASE a \notin AliasesIn(ws)
    <3>1. line.only = <<>>
      BY <1>2, <2>1, <2>3
    <3>2. DOMAIN ws = {}
      <4>1. ToSet(line.only) = {}
        BY <3>1 DEF ToSet
      <4>2. QED
        BY <1>2, <2>1, <4>1
    <3>3. ws = <<>>
      BY <1>2, <3>2
    <3>4. PICK i \in DOMAIN Known : Known[i] = a
      BY DEF ToSet
    <3>5. QED
      BY <1>3, <3>3, <3>4, EntryIsRow DEF base
  <2>4. QED
    BY <2>2, <2>3
<1>14. /\ n \in Nat
       /\ Sublist(all, I) \in Seq(Row) /\ Len(Sublist(all, I)) = n
       /\ \A k \in 1 .. n : Nth(I, k) \in I /\ Sublist(all, I)[k] = all[Nth(I, k)]
       /\ \A k, m \in 1 .. n : Nth(I, k) = Nth(I, m) => k = m
       /\ \A i \in I : \E k \in 1 .. n : Nth(I, k) = i
  <2>1. I \subseteq DOMAIN all
    OBVIOUS
  <2> HIDE DEF I
  <2>2. QED
    BY <1>7, <2>1, SublistFacts
<1>15. /\ DOMAIN ActiveRepos = 1 .. n /\ ActiveRepos \in Seq(Row)
       /\ \A k \in 1 .. n : Nth(I, k) \in I /\ ActiveRepos[k] = all[Nth(I, k)]
  BY <1>1, <1>14
<1>16. \A i \in DOMAIN all : all[i].alias \notin Ignored =>
         \E k \in 1 .. n : Nth(I, k) = i /\ ActiveRepos[k] = all[i]
  BY <1>14, <1>15
<1>17. \A k \in 1 .. n : Nth(I, k) \in DOMAIN all /\ ActiveRepos[k].alias \notin Ignored
  BY <1>15
<1> HIDE DEF I, n
<1>18. AliasesIn(ActiveRepos) \cap Ignored = {}
  BY <1>15, <1>17 DEF AliasesIn
<1>19. AliasesIn(repos) \subseteq AliasesIn(ActiveRepos)
  <2> SUFFICES ASSUME NEW j \in DOMAIN repos PROVE repos[j].alias \in AliasesIn(ActiveRepos)
    BY DEF AliasesIn
  <2>1. j \in DOMAIN all /\ all[j] = repos[j] /\ all[j].alias \notin Ignored
    BY <1>8 DEF AliasesIn
  <2>2. QED
    BY <1>15, <1>16, <2>1 DEF AliasesIn
<1>20. \A i \in DOMAIN ActiveRepos : ActiveRepos[i].alias \in AliasesIn(repos) =>
         \/ \E k \in DOMAIN ActiveRepos :
              k # i /\ ActiveRepos[k].alias = ActiveRepos[i].alias
         \/ \E j \in DOMAIN repos :
              /\ ActiveRepos[i] = repos[j]
              /\ \A k \in DOMAIN repos : repos[k].alias = repos[j].alias => k = j
  <2> SUFFICES ASSUME NEW i \in 1 .. n, ActiveRepos[i].alias \in AliasesIn(repos),
                      NEW k \in DOMAIN all, k # Nth(I, i), all[k].alias = all[Nth(I, i)].alias
               PROVE  \E m \in DOMAIN ActiveRepos :
                        m # i /\ ActiveRepos[m].alias = ActiveRepos[i].alias
    BY <1>12, <1>15, <1>17
  <2>1. all[k].alias \notin Ignored
    BY <1>15, <1>17
  <2>2. QED
    BY <1>15, <1>16, <2>1
<1>21. \A i, j \in DOMAIN ActiveRepos :
         ActiveRepos[i].alias = ActiveRepos[j].alias /\ ActiveRepos[i].alias \in ToSet(Known)
           => i = j
  BY <1>11, <1>14, <1>15, <1>17
<1>22. QED
  BY <1>10, <1>13, <1>15, <1>16, <1>17, <1>18, <1>19, <1>20, <1>21

-----------------------------------------------------------------------------
(* Types                                                                   *)

\* Where the command is, and the numbers.
PlainTypes ==
  /\ pc \in {"idle", "conditions", "target", "services", "select", "refresh", "check",
             "load", "loadTarget", "execute", "finish", "exited"}
  /\ line \in CommandLines \cup {NoLine}
  /\ exitCode \in {EXIT_OK, EXIT_ERR_BUG, EXIT_ERR_INVALID_ARGS, EXIT_ERR_ZYPP,
                   EXIT_ERR_PRIVILEGES}
  /\ exitInfo \in {EXIT_OK, EXIT_INF_REPOS_SKIPPED, EXIT_INF_RPM_SCRIPT_FAILED}
  /\ status \in Nat
  /\ cmds \in Nat

MoreBooleans ==
  /\ Booleans
  /\ root \in BOOLEAN
  /\ noRepos \in BOOLEAN
  /\ rejected \in BOOLEAN
  /\ noRefresh \in BOOLEAN
  /\ targetDone \in BOOLEAN
  /\ initDone \in BOOLEAN

\* The list, the place in it, and the sets of repositories.
ListTypes ==
  /\ enabled \in [ToSet(Known) -> BOOLEAN]
  /\ repos \in Seq(Row)
  /\ at \in 1 .. (Len(repos) + 1)
  /\ skips \in 0 .. Len(repos)
  /\ pool \subseteq Aliases
  /\ failed \subseteq Aliases
  /\ matched \subseteq Aliases
  /\ SkipsCounted

\* A command line is always one that may be typed.
LEMMA LineType == PlainTypes => line \in CommandLine
<1>1. CommandLines \subseteq CommandLine
  BY RepoInitAssumption
<1>2. <<>> \in Seq(Aliases \cup {Unknown})
  OBVIOUS
<1>3. NoLine \in CommandLine
  BY <1>2 DEF NoLine, CommandLine
<1>4. QED
  BY <1>1, <1>3 DEF PlainTypes

\* Lists of the right type are lists of the table.
LEMMA ListedFacts == PlainTypes /\ ListTypes => Listed
BY LineType DEF ListTypes, Listed

\* The plain types.
LEMMA PlainTypesStep == PlainTypes /\ [Next]_vars => PlainTypes'
<1> SUFFICES ASSUME PlainTypes, [Next]_vars
             PROVE  PlainTypes'
  OBVIOUS
<1> USE DEF PlainTypes, options, flags, codes, once, content, history
<1>1. CASE \E l \in CommandLines : StartCommand(l)
  BY <1>1 DEF StartCommand
<1>2. CASE ReloadFails
  BY <1>2 DEF ReloadFails
<1>3. CASE CheckConditions
  BY <1>3 DEF CheckConditions, Fail
<1>4. CASE InitTarget
  BY <1>4 DEF InitTarget
<1>5. CASE InitTargetFails
  BY <1>5 DEF InitTargetFails, Fail
<1>6. CASE \E result \in {"ok", "media"} : RefreshServices(result)
  BY <1>6 DEF RefreshServices
<1>7. CASE \E userAborts \in BOOLEAN : ServicesThrow(userAborts)
  BY <1>7 DEF ServicesThrow, Fail
<1>8. CASE RejectRepos
  BY <1>8 DEF RejectRepos
<1>9. CASE SelectRepos
  BY <1>9 DEF SelectRepos
<1>10. CASE LeaveDisabled
  BY <1>10 DEF LeaveDisabled
<1>11. CASE \E match \in BOOLEAN : RefreshOne(match)
  BY <1>11 DEF RefreshOne
<1>12. CASE \E forGood \in BOOLEAN : SkipOne(forGood)
  BY <1>12 DEF SkipOne
<1>13. CASE \E userAborts \in BOOLEAN : BreakOff(userAborts)
  BY <1>13 DEF BreakOff, Fail
<1>14. CASE EndInit
  BY <1>14 DEF EndInit
<1>15. CASE CheckRepos
  BY <1>15 DEF CheckRepos, MustFail, Fail
<1>16. CASE \E result \in {"loaded", "error", "disabled", "aborted"} : LoadOne(result)
  BY <1>16 DEF LoadOne
<1>17. CASE ReposLoaded
  BY <1>17 DEF ReposLoaded
<1>18. CASE \E ok \in BOOLEAN : LoadTarget(ok)
  BY <1>18 DEF LoadTarget
<1>19. CASE \E code \in {EXIT_OK, EXIT_ERR_ZYPP}, scriptFailed \in BOOLEAN : Execute(code, scriptFailed)
  BY <1>19 DEF Execute
<1>20. CASE FinishCommand
  BY <1>20 DEF FinishCommand
<1>21. CASE UNCHANGED vars
  BY <1>21 DEF vars
<1>22. QED
  BY <1>1, <1>2, <1>3, <1>4, <1>5, <1>6, <1>7, <1>8, <1>9, <1>10, <1>11, <1>12, <1>13,
       <1>14, <1>15, <1>16, <1>17, <1>18, <1>19, <1>20, <1>21
  DEF Next, InitRepos, Load

\* The other Boolean variables.
LEMMA MoreBooleansStep == PlainTypes /\ MoreBooleans /\ [Next]_vars => MoreBooleans'
<1> SUFFICES ASSUME PlainTypes /\ MoreBooleans, [Next]_vars
             PROVE  MoreBooleans'
  OBVIOUS
<1> USE Zenon DEF MoreBooleans, options, flags, codes, once, content, history
<1>1. CASE \E l \in CommandLines : StartCommand(l)
  BY <1>1, BooleansStep DEF StartCommand
<1>2. CASE ReloadFails
  BY <1>2, BooleansStep DEF ReloadFails
<1>3. CASE CheckConditions
  <2>1. line.installedOnly \in BOOLEAN
    BY LineType, SMT DEF CommandLine
  <2>2. noRefresh \/ line.installedOnly \in BOOLEAN
    BY <2>1
  <2>3. QED
    BY <1>3, <2>2, BooleansStep DEF CheckConditions, Fail
<1>4. CASE InitTarget
  BY <1>4, BooleansStep DEF InitTarget
<1>5. CASE InitTargetFails
  BY <1>5, BooleansStep DEF InitTargetFails, Fail
<1>6. CASE \E result \in {"ok", "media"} : RefreshServices(result)
  BY <1>6, BooleansStep DEF RefreshServices
<1>7. CASE \E userAborts \in BOOLEAN : ServicesThrow(userAborts)
  BY <1>7, BooleansStep DEF ServicesThrow, Fail
<1>8. CASE RejectRepos
  BY <1>8, BooleansStep DEF RejectRepos
<1>9. CASE SelectRepos
  BY <1>9, BooleansStep DEF SelectRepos
<1>10. CASE LeaveDisabled
  BY <1>10, BooleansStep DEF LeaveDisabled
<1>11. CASE \E match \in BOOLEAN : RefreshOne(match)
  BY <1>11, BooleansStep DEF RefreshOne
<1>12. CASE \E forGood \in BOOLEAN : SkipOne(forGood)
  BY <1>12, BooleansStep DEF SkipOne
<1>13. CASE \E userAborts \in BOOLEAN : BreakOff(userAborts)
  BY <1>13, BooleansStep DEF BreakOff, Fail
<1>14. CASE EndInit
  BY <1>14, BooleansStep DEF EndInit
<1>15. CASE CheckRepos
  BY <1>15, BooleansStep DEF CheckRepos, MustFail, Fail
<1>16. CASE \E result \in {"loaded", "error", "disabled", "aborted"} : LoadOne(result)
  BY <1>16, BooleansStep DEF LoadOne
<1>17. CASE ReposLoaded
  BY <1>17, BooleansStep DEF ReposLoaded
<1>18. CASE \E ok \in BOOLEAN : LoadTarget(ok)
  BY <1>18, BooleansStep DEF LoadTarget
<1>19. CASE \E code \in {EXIT_OK, EXIT_ERR_ZYPP}, scriptFailed \in BOOLEAN : Execute(code, scriptFailed)
  BY <1>19, BooleansStep DEF Execute
<1>20. CASE FinishCommand
  BY <1>20, BooleansStep DEF FinishCommand
<1>21. CASE UNCHANGED vars
  BY <1>21, BooleansStep DEF vars
<1>22. QED
  BY <1>1, <1>2, <1>3, <1>4, <1>5, <1>6, <1>7, <1>8, <1>9, <1>10, <1>11, <1>12, <1>13,
       <1>14, <1>15, <1>16, <1>17, <1>18, <1>19, <1>20, <1>21
  DEF Next, InitRepos, Load

-----------------------------------------------------------------------------
(* The list of repositories                                                *)

\* What the invariants below need of each other.
ListsOK == PlainTypes /\ MoreBooleans /\ ListTypes /\ Phases /\ IgnoredOut /\ KnownOnce

\* While the loaded set is selected nothing in the list is ignored.
LEMMA SelectFacts ==
  ListsOK /\ pc = "select" => Listed /\ ~initDone /\ AliasesIn(repos) \cap Ignored = {}
BY ListedFacts DEF ListsOK, Phases, IgnoredOut

\* The place of a loop that has not ended.
LEMMA HereFacts ==
  ASSUME PlainTypes, ListTypes, at <= Len(repos)
  PROVE  /\ at \in DOMAIN repos /\ repos[at] \in Row
         /\ repos[at].alias \in Aliases /\ repos[at].on \in BOOLEAN
         /\ repos[at].alias \in AliasesIn(repos)
         /\ Len(repos) \in Nat /\ DOMAIN repos = 1 .. Len(repos)
<1>1. Len(repos) \in Nat /\ DOMAIN repos = 1 .. Len(repos) /\ at \in 1 .. Len(repos)
  BY DEF ListTypes
<1>2. repos[at] \in Row
  BY <1>1 DEF ListTypes
<1>3. QED
  BY <1>1, <1>2 DEF Row, AliasesIn

\* The step of a loop that sets the flag of the current repository.
LEMMA FlagAt ==
  ASSUME PlainTypes, ListTypes, at <= Len(repos), NEW v \in BOOLEAN,
         repos' = [repos EXCEPT ![at].on = v]
  PROVE  /\ repos' \in Seq(Row) /\ Len(repos') = Len(repos) /\ DOMAIN repos' = DOMAIN repos
         /\ \A j \in DOMAIN repos : repos'[j].alias = repos[j].alias
         /\ \A j \in DOMAIN repos : j # at => repos'[j] = repos[j]
         /\ repos'[at].on = v
         /\ AliasesIn(repos') = AliasesIn(repos)
<1>1. /\ DOMAIN repos = 1 .. Len(repos) /\ Len(repos) \in Nat
      /\ at \in DOMAIN repos /\ repos \in Seq(Row)
  BY HereFacts DEF ListTypes
<1>2. \A j \in DOMAIN repos : repos[j] \in Row
  BY <1>1
<1>3. /\ DOMAIN repos' = DOMAIN repos
      /\ repos'[at] = [repos[at] EXCEPT !.on = v]
      /\ \A j \in DOMAIN repos : j # at => repos'[j] = repos[j]
  BY <1>1
<1>4. repos'[at] \in Row /\ repos'[at].alias = repos[at].alias /\ repos'[at].on = v
  BY <1>1, <1>2, <1>3 DEF Row
<1>5. repos' \in [1 .. Len(repos) -> Row]
  <2>1. repos' = [j \in 1 .. Len(repos) |-> repos'[j]]
    BY <1>1, <1>3
  <2>2. \A j \in 1 .. Len(repos) : repos'[j] \in Row
    BY <1>1, <1>2, <1>3, <1>4
  <2> QED
    BY <2>1, <2>2, Zenon
<1>6. repos' \in Seq(Row) /\ Len(repos') = Len(repos)
  BY <1>1, <1>5
<1>7. \A j \in DOMAIN repos : repos'[j].alias = repos[j].alias
  BY <1>3, <1>4
<1>8. AliasesIn(repos') = AliasesIn(repos)
  BY <1>3, <1>7 DEF AliasesIn
<1>9. QED
  BY <1>1, <1>3, <1>4, <1>6, <1>7, <1>8

\* The list and the counters over it.
LEMMA ListTypesStep == ListsOK /\ [Next]_vars => ListTypes'
<1> SUFFICES ASSUME ListsOK, [Next]_vars
             PROVE  ListTypes'
  OBVIOUS
<1> USE DEF options, flags, codes, once, content, history
<1>0. PlainTypes /\ ListTypes /\ MoreBooleans
  BY DEF ListsOK
<1>1. CASE \E l \in CommandLines : StartCommand(l)
  BY <1>1, <1>0 DEF StartCommand, ListTypes, SkipsCounted
<1>2. CASE ReloadFails
  BY <1>2, <1>0 DEF ReloadFails, ListTypes, SkipsCounted
<1>3. CASE CheckConditions
  BY <1>3, <1>0 DEF CheckConditions, Fail, ListTypes, SkipsCounted
<1>4. CASE InitTarget
  BY <1>4, <1>0 DEF InitTarget, ListTypes, SkipsCounted
<1>5. CASE InitTargetFails
  BY <1>5, <1>0 DEF InitTargetFails, Fail, ListTypes, SkipsCounted
<1>6. CASE \E result \in {"ok", "media"} : RefreshServices(result)
  BY <1>6, <1>0 DEF RefreshServices, ListTypes, SkipsCounted
<1>7. CASE \E userAborts \in BOOLEAN : ServicesThrow(userAborts)
  BY <1>7, <1>0 DEF ServicesThrow, Fail, ListTypes, SkipsCounted
<1>8. CASE RejectRepos
  <2>1. repos' = WithSpecified /\ pc' = "finish"
    BY <1>8 DEF RejectRepos
  <2>2. Listed
    BY <1>0, ListedFacts
  <2>3. WithSpecified \in Seq(Row) /\ Len(repos) <= Len(WithSpecified)
    BY <2>2, SpecifiedFacts
  <2>4. Len(repos) \in Nat /\ Len(repos') \in Nat /\ Len(repos) <= Len(repos')
    BY <1>0, <2>1, <2>3 DEF ListTypes
  <2>5. UNCHANGED <<enabled, at, skips, pool, failed, matched>>
    BY <1>8 DEF RejectRepos
  <2>6. QED
    BY <1>0, <2>1, <2>3, <2>4, <2>5 DEF ListTypes, SkipsCounted
<1>9. CASE SelectRepos
  <2>1. /\ repos' = ActiveRepos /\ at' = 1 /\ skips' = 0
        /\ UNCHANGED <<enabled, pool, failed, matched>>
    BY <1>9 DEF SelectRepos
  <2>2. Listed /\ AliasesIn(repos) \cap Ignored = {} /\ KnownOnce
    BY <1>9, SelectFacts DEF SelectRepos, ListsOK
  <2>3. ActiveRepos \in Seq(Row)
    BY <2>2, ActiveFacts
  <2>4. Len(repos') \in Nat
    BY <2>1, <2>3
  <2>5. QED
    BY <1>0, <2>1, <2>3, <2>4 DEF ListTypes, SkipsCounted
<1>10. CASE LeaveDisabled
  <2>1. at <= Len(repos) /\ at' = at + 1
        /\ UNCHANGED <<enabled, repos, pool, failed, pc, skips, matched>>
    BY <1>10 DEF LeaveDisabled
  <2>2. Len(repos) \in Nat
    BY <1>0, <2>1, HereFacts
  <2>3. QED
    BY <1>0, <2>1, <2>2 DEF ListTypes, SkipsCounted
<1>11. CASE \E match \in BOOLEAN : RefreshOne(match)
  <2>1. PICK match \in BOOLEAN :
          /\ at <= Len(repos)
          /\ repos' = [repos EXCEPT ![at].on = match]
          /\ failed' = failed \ {repos[at].alias}
          /\ matched' \subseteq matched \cup {repos[at].alias}
          /\ at' = at + 1 /\ UNCHANGED <<enabled, pool, pc, skips>>
    BY <1>11 DEF RefreshOne
  <2>2. at \in DOMAIN repos /\ Len(repos) \in Nat /\ repos[at].alias \in Aliases
    BY <1>0, <2>1, HereFacts
  <2>3. repos' \in Seq(Row) /\ Len(repos') = Len(repos)
    BY <1>0, <2>1, FlagAt
  <2>4. QED
    BY <1>0, <2>1, <2>2, <2>3 DEF ListTypes, SkipsCounted
<1>12. CASE \E forGood \in BOOLEAN : SkipOne(forGood)
  <2>1. PICK forGood \in BOOLEAN :
          /\ pc = "refresh" /\ at <= Len(repos)
          /\ repos' = [repos EXCEPT ![at].on = FALSE]
          /\ enabled' = IF forGood THEN [enabled EXCEPT ![repos[at].alias] = FALSE] ELSE enabled
          /\ failed' = failed \cup {repos[at].alias}
          /\ skips' = skips + 1
          /\ at' = at + 1 /\ UNCHANGED <<pool, pc, matched>>
    BY <1>12 DEF SkipOne
  <2>2. at \in DOMAIN repos /\ Len(repos) \in Nat /\ repos[at].alias \in Aliases
    BY <1>0, <2>1, HereFacts
  <2>3. repos' \in Seq(Row) /\ Len(repos') = Len(repos)
    BY <1>0, <2>1, FlagAt
  <2>4. enabled' \in [ToSet(Known) -> BOOLEAN]
    BY <1>0, <2>1 DEF ListTypes
  <2>5. skips' \in 0 .. Len(repos) /\ at' \in 1 .. Len(repos) + 1 /\ skips' < at'
    BY <1>0, <2>1, <2>2 DEF ListTypes, SkipsCounted
  <2>6. QED
    BY <1>0, <2>1, <2>2, <2>3, <2>4, <2>5 DEF ListTypes, SkipsCounted
<1>13. CASE \E userAborts \in BOOLEAN : BreakOff(userAborts)
  <2>1. /\ at <= Len(repos) /\ pc' = "finish"
        /\ repos' = [repos EXCEPT ![at].on = repos[at].on \/ Named(repos[at])]
        /\ failed' = failed \ {repos[at].alias}
        /\ UNCHANGED <<enabled, pool, at, skips, matched>>
    BY <1>13 DEF BreakOff, Fail
  <2>2. at \in DOMAIN repos /\ Len(repos) \in Nat
    BY <1>0, <2>1, HereFacts
  <2>3. repos[at].on \/ Named(repos[at]) \in BOOLEAN
    BY Zenon DEF Named
  <2>4. repos' \in Seq(Row) /\ Len(repos') = Len(repos)
    BY <1>0, <2>1, <2>2, <2>3, FlagAt
  <2>5. QED
    BY <1>0, <2>1, <2>2, <2>4 DEF ListTypes, SkipsCounted
<1>14. CASE EndInit
  BY <1>14, <1>0 DEF EndInit, ListTypes, SkipsCounted
<1>15. CASE CheckRepos
  BY <1>15, <1>0 DEF CheckRepos, MustFail, Fail, ListTypes, SkipsCounted
<1>16. CASE \E result \in {"loaded", "error", "disabled", "aborted"} : LoadOne(result)
  <2>1. /\ at <= Len(repos) /\ at' = at + 1
        /\ pool' \subseteq pool \cup {repos[at].alias}
        /\ \/ enabled' = enabled
           \/ enabled' = [enabled EXCEPT ![repos[at].alias] = FALSE]
        /\ pc = "load"
        /\ UNCHANGED <<repos, skips, failed, pc, matched>>
    BY <1>16 DEF LoadOne
  <2>2. Len(repos) \in Nat /\ repos[at].alias \in Aliases
    BY <1>0, <2>1, HereFacts
  <2>3. enabled' \in [ToSet(Known) -> BOOLEAN]
    BY <1>0, <2>1 DEF ListTypes
  <2>4. QED
    BY <1>0, <2>1, <2>2, <2>3 DEF ListTypes, SkipsCounted
<1>17. CASE ReposLoaded
  BY <1>17, <1>0 DEF ReposLoaded, ListTypes, SkipsCounted
<1>18. CASE \E ok \in BOOLEAN : LoadTarget(ok)
  BY <1>18, <1>0 DEF LoadTarget, ListTypes, SkipsCounted
<1>19. CASE \E code \in {EXIT_OK, EXIT_ERR_ZYPP}, scriptFailed \in BOOLEAN : Execute(code, scriptFailed)
  BY <1>19, <1>0 DEF Execute, ListTypes, SkipsCounted
<1>20. CASE FinishCommand
  BY <1>20, <1>0 DEF FinishCommand, ListTypes, SkipsCounted
<1>21. CASE UNCHANGED vars
  BY <1>21, <1>0 DEF vars, ListTypes, SkipsCounted
<1>22. QED
  BY <1>1, <1>2, <1>3, <1>4, <1>5, <1>6, <1>7, <1>8, <1>9, <1>10, <1>11, <1>12, <1>13,
       <1>14, <1>15, <1>16, <1>17, <1>18, <1>19, <1>20, <1>21
  DEF Next, InitRepos, Load

\* What is done once, and what remove does not do.
LEMMA PhasesStep == PlainTypes /\ MoreBooleans /\ Phases /\ [Next]_vars => Phases'
<1> SUFFICES ASSUME PlainTypes /\ MoreBooleans /\ Phases, [Next]_vars
             PROVE  Phases'
  OBVIOUS
<1> USE DEF PlainTypes, MoreBooleans, Booleans, Phases, options, flags, codes, once, content, history
<1>1. CASE \E l \in CommandLines : StartCommand(l)
  BY <1>1 DEF StartCommand
<1>2. CASE ReloadFails
  BY <1>2 DEF ReloadFails
<1>3. CASE CheckConditions
  BY <1>3 DEF CheckConditions, Fail
<1>4. CASE InitTarget
  BY <1>4 DEF InitTarget
<1>5. CASE InitTargetFails
  BY <1>5 DEF InitTargetFails, Fail
<1>6. CASE \E result \in {"ok", "media"} : RefreshServices(result)
  BY <1>6 DEF RefreshServices
<1>7. CASE \E userAborts \in BOOLEAN : ServicesThrow(userAborts)
  BY <1>7 DEF ServicesThrow, Fail
<1>8. CASE RejectRepos
  BY <1>8 DEF RejectRepos
<1>9. CASE SelectRepos
  BY <1>9 DEF SelectRepos
<1>10. CASE LeaveDisabled
  BY <1>10 DEF LeaveDisabled
<1>11. CASE \E match \in BOOLEAN : RefreshOne(match)
  BY <1>11 DEF RefreshOne
<1>12. CASE \E forGood \in BOOLEAN : SkipOne(forGood)
  BY <1>12 DEF SkipOne
<1>13. CASE \E userAborts \in BOOLEAN : BreakOff(userAborts)
  BY <1>13 DEF BreakOff, Fail
<1>14. CASE EndInit
  BY <1>14 DEF EndInit
<1>15. CASE CheckRepos
  BY <1>15 DEF CheckRepos, MustFail, Fail
<1>16. CASE \E result \in {"loaded", "error", "disabled", "aborted"} : LoadOne(result)
  BY <1>16 DEF LoadOne
<1>17. CASE ReposLoaded
  BY <1>17 DEF ReposLoaded
<1>18. CASE \E ok \in BOOLEAN : LoadTarget(ok)
  BY <1>18 DEF LoadTarget
<1>19. CASE \E code \in {EXIT_OK, EXIT_ERR_ZYPP}, scriptFailed \in BOOLEAN : Execute(code, scriptFailed)
  BY <1>19 DEF Execute
<1>20. CASE FinishCommand
  BY <1>20 DEF FinishCommand
<1>21. CASE UNCHANGED vars
  BY <1>21 DEF vars
<1>22. QED
  BY <1>1, <1>2, <1>3, <1>4, <1>5, <1>6, <1>7, <1>8, <1>9, <1>10, <1>11, <1>12, <1>13,
       <1>14, <1>15, <1>16, <1>17, <1>18, <1>19, <1>20, <1>21
  DEF Next, InitRepos, Load

\* The single command starts with nothing.
LEMMA SingleStartStep == MoreBooleans /\ SingleStart /\ [Next]_vars => SingleStart'
<1> SUFFICES ASSUME MoreBooleans /\ SingleStart, [Next]_vars
             PROVE  SingleStart'
  OBVIOUS
<1> USE DEF MoreBooleans, Booleans, SingleStart, options, flags, codes, once, content, history
<1>1. CASE \E l \in CommandLines : StartCommand(l)
  BY <1>1 DEF StartCommand
<1>2. CASE ReloadFails
  BY <1>2 DEF ReloadFails
<1>3. CASE CheckConditions
  BY <1>3 DEF CheckConditions, Fail
<1>4. CASE InitTarget
  BY <1>4 DEF InitTarget
<1>5. CASE InitTargetFails
  BY <1>5 DEF InitTargetFails, Fail
<1>6. CASE \E result \in {"ok", "media"} : RefreshServices(result)
  BY <1>6 DEF RefreshServices
<1>7. CASE \E userAborts \in BOOLEAN : ServicesThrow(userAborts)
  BY <1>7 DEF ServicesThrow, Fail
<1>8. CASE RejectRepos
  BY <1>8 DEF RejectRepos
<1>9. CASE SelectRepos
  BY <1>9 DEF SelectRepos
<1>10. CASE LeaveDisabled
  BY <1>10 DEF LeaveDisabled
<1>11. CASE \E match \in BOOLEAN : RefreshOne(match)
  BY <1>11 DEF RefreshOne
<1>12. CASE \E forGood \in BOOLEAN : SkipOne(forGood)
  BY <1>12 DEF SkipOne
<1>13. CASE \E userAborts \in BOOLEAN : BreakOff(userAborts)
  BY <1>13 DEF BreakOff, Fail
<1>14. CASE EndInit
  BY <1>14 DEF EndInit
<1>15. CASE CheckRepos
  BY <1>15 DEF CheckRepos, MustFail, Fail
<1>16. CASE \E result \in {"loaded", "error", "disabled", "aborted"} : LoadOne(result)
  BY <1>16 DEF LoadOne
<1>17. CASE ReposLoaded
  BY <1>17 DEF ReposLoaded
<1>18. CASE \E ok \in BOOLEAN : LoadTarget(ok)
  BY <1>18 DEF LoadTarget
<1>19. CASE \E code \in {EXIT_OK, EXIT_ERR_ZYPP}, scriptFailed \in BOOLEAN : Execute(code, scriptFailed)
  BY <1>19 DEF Execute
<1>20. CASE FinishCommand
  BY <1>20 DEF FinishCommand
<1>21. CASE UNCHANGED vars
  BY <1>21 DEF vars
<1>22. QED
  BY <1>1, <1>2, <1>3, <1>4, <1>5, <1>6, <1>7, <1>8, <1>9, <1>10, <1>11, <1>12, <1>13,
       <1>14, <1>15, <1>16, <1>17, <1>18, <1>19, <1>20, <1>21
  DEF Next, InitRepos, Load

ChangesList ==
  \/ RejectRepos
  \/ SelectRepos
  \/ \E match \in BOOLEAN : RefreshOne(match)
  \/ \E forGood \in BOOLEAN : SkipOne(forGood)
  \/ \E userAborts \in BOOLEAN : BreakOff(userAborts)

\* Only do_init_repos changes the list; what is done stays done.
LEMMA ListChanges ==
  MoreBooleans /\ [Next]_vars =>
    ChangesList \/ (UNCHANGED <<repos, failed, rejected>> /\ (initDone => initDone'))
<1> SUFFICES ASSUME MoreBooleans, [Next]_vars
             PROVE  ChangesList \/ (UNCHANGED <<repos, failed, rejected>> /\ (initDone => initDone'))
  OBVIOUS
<1> USE DEF ChangesList, options, flags, codes, once, content, history
<1>1. CASE \E l \in CommandLines : StartCommand(l)
  BY <1>1 DEF StartCommand
<1>2. CASE ReloadFails
  BY <1>2 DEF ReloadFails
<1>3. CASE CheckConditions
  BY <1>3 DEF CheckConditions, Fail
<1>4. CASE InitTarget
  BY <1>4 DEF InitTarget
<1>5. CASE InitTargetFails
  BY <1>5 DEF InitTargetFails, Fail
<1>6. CASE \E result \in {"ok", "media"} : RefreshServices(result)
  BY <1>6 DEF RefreshServices
<1>7. CASE \E userAborts \in BOOLEAN : ServicesThrow(userAborts)
  BY <1>7 DEF ServicesThrow, Fail
<1>8. CASE RejectRepos
  BY <1>8 DEF RejectRepos
<1>9. CASE SelectRepos
  BY <1>9 DEF SelectRepos
<1>10. CASE LeaveDisabled
  BY <1>10 DEF LeaveDisabled
<1>11. CASE \E match \in BOOLEAN : RefreshOne(match)
  BY <1>11 DEF RefreshOne
<1>12. CASE \E forGood \in BOOLEAN : SkipOne(forGood)
  BY <1>12 DEF SkipOne
<1>13. CASE \E userAborts \in BOOLEAN : BreakOff(userAborts)
  BY <1>13 DEF BreakOff, Fail
<1>14. CASE EndInit
  BY <1>14 DEF EndInit
<1>15. CASE CheckRepos
  BY <1>15 DEF CheckRepos, MustFail, Fail
<1>16. CASE \E result \in {"loaded", "error", "disabled", "aborted"} : LoadOne(result)
  BY <1>16 DEF LoadOne
<1>17. CASE ReposLoaded
  BY <1>17 DEF ReposLoaded
<1>18. CASE \E ok \in BOOLEAN : LoadTarget(ok)
  BY <1>18 DEF LoadTarget
<1>19. CASE \E code \in {EXIT_OK, EXIT_ERR_ZYPP}, scriptFailed \in BOOLEAN : Execute(code, scriptFailed)
  BY <1>19 DEF Execute
<1>20. CASE FinishCommand
  BY <1>20 DEF FinishCommand
<1>21. CASE UNCHANGED vars
  BY <1>21 DEF vars
<1>22. QED
  BY <1>1, <1>2, <1>3, <1>4, <1>5, <1>6, <1>7, <1>8, <1>9, <1>10, <1>11, <1>12, <1>13,
       <1>14, <1>15, <1>16, <1>17, <1>18, <1>19, <1>20, <1>21
  DEF Next, InitRepos, Load

\* The list after get_repos, seen from the list before.
LEMMA RejectFacts ==
  ASSUME ListsOK, RejectRepos
  PROVE  /\ initDone' /\ failed' = failed
         /\ \A i \in DOMAIN repos : i \in DOMAIN repos' /\ repos'[i] = repos[i]
         /\ \A i \in DOMAIN repos' \ DOMAIN repos :
              /\ repos'[i].alias \notin AliasesIn(repos)
              /\ repos'[i] = Entry(repos'[i].alias)
              /\ \A j \in DOMAIN repos' : repos'[j].alias = repos'[i].alias => j = i
<1>1. repos' = WithSpecified /\ initDone' /\ failed' = failed
  BY DEF RejectRepos, history
<1>2. Listed
  BY ListedFacts DEF ListsOK
<1>3. /\ WithSpecified \in Seq(Row) /\ Len(repos) <= Len(WithSpecified)
      /\ \A i \in DOMAIN repos : WithSpecified[i] = repos[i]
      /\ \A i \in DOMAIN WithSpecified \ DOMAIN repos :
           /\ WithSpecified[i].alias \notin AliasesIn(repos)
           /\ WithSpecified[i] = Entry(WithSpecified[i].alias)
           /\ \A j \in DOMAIN WithSpecified :
                WithSpecified[j].alias = WithSpecified[i].alias => j = i
  BY <1>2, SpecifiedFacts
<1>4. DOMAIN repos \subseteq DOMAIN WithSpecified
  <2>1. /\ DOMAIN repos = 1 .. Len(repos) /\ Len(repos) \in Nat
        /\ DOMAIN WithSpecified = 1 .. Len(WithSpecified) /\ Len(WithSpecified) \in Nat
    BY <1>2, <1>3 DEF Listed
  <2>2. QED
    BY <1>3, <2>1
<1>5. QED
  BY <1>1, <1>3, <1>4

\* The same of the list that is refreshed; it is at a temporary repository that has
\* been skipped before that an alias is listed twice.
LEMMA NewListFacts ==
  ASSUME ListsOK, SelectRepos
  PROVE  /\ failed' = failed /\ enabled' = enabled
         /\ AliasesIn(repos') \cap Ignored = {}
         /\ AliasesIn(repos) \subseteq AliasesIn(repos')
         /\ \A i \in DOMAIN repos' :
              \/ \E j \in DOMAIN repos : repos'[i] = repos[j]
              \/ repos'[i] = Entry(repos'[i].alias)
         /\ \A i \in DOMAIN repos' : repos'[i].alias \in AliasesIn(repos) =>
              \/ \E k \in DOMAIN repos' : k # i /\ repos'[k].alias = repos'[i].alias
              \/ \E j \in DOMAIN repos :
                   /\ repos'[i] = repos[j]
                   /\ \A k \in DOMAIN repos : repos[k].alias = repos[j].alias => k = j
         /\ \A i, j \in DOMAIN repos' :
              repos'[i].alias = repos'[j].alias /\ repos'[i].alias \in ToSet(Known) => i = j
         /\ repos = <<>> =>
              \A a \in ToSet(Known) \ Ignored : line.only = <<>> \/ a \in ToSet(line.only) =>
                \E i \in DOMAIN repos' : repos'[i] = Entry(a)
<1>1. repos' = ActiveRepos /\ failed' = failed /\ enabled' = enabled /\ pc = "select"
  BY DEF SelectRepos, options, history
<1>2. Listed /\ AliasesIn(repos) \cap Ignored = {} /\ KnownOnce
  BY <1>1, SelectFacts DEF ListsOK
<1> DEFINE A == ActiveRepos
<1>3. /\ AliasesIn(A) \cap Ignored = {}
      /\ AliasesIn(repos) \subseteq AliasesIn(A)
      /\ \A i \in DOMAIN A :
           (\E j \in DOMAIN repos : A[i] = repos[j]) \/ A[i] = Entry(A[i].alias)
      /\ \A i \in DOMAIN A : A[i].alias \in AliasesIn(repos) =>
           \/ \E k \in DOMAIN A : k # i /\ A[k].alias = A[i].alias
           \/ \E j \in DOMAIN repos :
                /\ A[i] = repos[j]
                /\ \A k \in DOMAIN repos : repos[k].alias = repos[j].alias => k = j
      /\ \A i, j \in DOMAIN A :
           A[i].alias = A[j].alias /\ A[i].alias \in ToSet(Known) => i = j
      /\ repos = <<>> =>
           \A a \in ToSet(Known) \ Ignored : line.only = <<>> \/ a \in ToSet(line.only) =>
             \E i \in DOMAIN A : A[i] = Entry(a)
  BY <1>2, ActiveFacts
<1>4. QED
  <2> HIDE DEF A
  <2>1. repos' = A
    BY <1>1 DEF A
  <2>2. QED
    BY <1>1, <1>3, <2>1, SMT

\* A step of the loop of do_init_repos: the aliases stay.
LEMMA LoopFacts ==
  ASSUME ListsOK,
         \/ \E match \in BOOLEAN : RefreshOne(match)
         \/ \E forGood \in BOOLEAN : SkipOne(forGood)
         \/ \E userAborts \in BOOLEAN : BreakOff(userAborts)
  PROVE  /\ initDone' = initDone /\ rejected' = rejected
         /\ at \in DOMAIN repos /\ DOMAIN repos' = DOMAIN repos
         /\ \A j \in DOMAIN repos : repos'[j].alias = repos[j].alias
         /\ \A j \in DOMAIN repos : j # at => repos'[j] = repos[j]
         /\ AliasesIn(repos') = AliasesIn(repos)
         /\ \/ failed' = failed \ {repos[at].alias}
            \/ failed' = failed \cup {repos[at].alias} /\ repos'[at].on = FALSE
<1>1. PICK v \in BOOLEAN : /\ repos' = [repos EXCEPT ![at].on = v]
                           /\ at <= Len(repos) /\ UNCHANGED <<initDone, rejected>>
                           /\ \/ failed' = failed \ {repos[at].alias}
                              \/ failed' = failed \cup {repos[at].alias} /\ v = FALSE
  <2>1. CASE \E match \in BOOLEAN : RefreshOne(match)
    BY <2>1 DEF RefreshOne, once
  <2>2. CASE \E forGood \in BOOLEAN : SkipOne(forGood)
    BY <2>2 DEF SkipOne, once
  <2>3. CASE \E userAborts \in BOOLEAN : BreakOff(userAborts)
    <3>1. repos[at].on \/ Named(repos[at]) \in BOOLEAN
      BY Zenon DEF Named
    <3>2. QED
      BY <2>3, <3>1 DEF BreakOff, once
  <2>4. QED
    BY <2>1, <2>2, <2>3
<1>2. PlainTypes /\ ListTypes
  BY DEF ListsOK
<1>3. at \in DOMAIN repos
  BY <1>1, <1>2, HereFacts
<1>4. /\ DOMAIN repos' = DOMAIN repos
      /\ \A j \in DOMAIN repos : repos'[j].alias = repos[j].alias
      /\ \A j \in DOMAIN repos : j # at => repos'[j] = repos[j]
      /\ repos'[at].on = v
      /\ AliasesIn(repos') = AliasesIn(repos)
  BY <1>1, <1>2, FlagAt
<1>5. \/ failed' = failed \ {repos[at].alias}
      \/ failed' = failed \cup {repos[at].alias} /\ repos'[at].on = FALSE
  BY <1>1, <1>4
<1>6. QED
  BY <1>1, <1>3, <1>4, <1>5, SMT

\* Only temporary repositories get into the list twice.
LEMMA KnownOnceStep == ListsOK /\ [Next]_vars => KnownOnce'
<1> SUFFICES ASSUME ListsOK, [Next]_vars
             PROVE  KnownOnce'
  OBVIOUS
<1>0. KnownOnce /\ MoreBooleans
  BY DEF ListsOK
<1>1. CASE RejectRepos
  <2>1. /\ \A i \in DOMAIN repos : i \in DOMAIN repos' /\ repos'[i] = repos[i]
        /\ \A i \in DOMAIN repos' \ DOMAIN repos :
             \A j \in DOMAIN repos' : repos'[j].alias = repos'[i].alias => j = i
    BY <1>1, RejectFacts
  <2>2. QED
    BY <1>0, <2>1 DEF KnownOnce
<1>2. CASE SelectRepos
  BY <1>2, NewListFacts DEF KnownOnce
<1>3. CASE \/ \E match \in BOOLEAN : RefreshOne(match)
           \/ \E forGood \in BOOLEAN : SkipOne(forGood)
           \/ \E userAborts \in BOOLEAN : BreakOff(userAborts)
  <2>1. /\ DOMAIN repos' = DOMAIN repos
        /\ \A j \in DOMAIN repos : repos'[j].alias = repos[j].alias
    BY <1>3, LoopFacts
  <2>2. QED
    BY <1>0, <2>1 DEF KnownOnce
<1>4. CASE repos' = repos
  BY <1>0, <1>4 DEF KnownOnce
<1>5. QED
  BY <1>0, <1>1, <1>2, <1>3, <1>4, ListChanges DEF ChangesList

\* The ignored repositories stay out until init_repos is done.
LEMMA IgnoredOutStep == ListsOK /\ [Next]_vars => IgnoredOut'
<1> SUFFICES ASSUME ListsOK, [Next]_vars
             PROVE  IgnoredOut'
  OBVIOUS
<1>0. IgnoredOut /\ MoreBooleans
  BY DEF ListsOK
<1>1. CASE RejectRepos
  BY <1>1 DEF RejectRepos, IgnoredOut
<1>2. CASE SelectRepos
  BY <1>0, <1>2, NewListFacts DEF SelectRepos, IgnoredOut, history, once
<1>3. CASE \/ \E match \in BOOLEAN : RefreshOne(match)
           \/ \E forGood \in BOOLEAN : SkipOne(forGood)
           \/ \E userAborts \in BOOLEAN : BreakOff(userAborts)
  <2>1. UNCHANGED <<initDone, rejected>> /\ AliasesIn(repos') = AliasesIn(repos)
    BY <1>3, LoopFacts
  <2>2. QED
    BY <1>0, <2>1, Zenon DEF IgnoredOut
<1>4. CASE repos' = repos /\ rejected' = rejected /\ (initDone => initDone')
  <2>1. AliasesIn(repos') = AliasesIn(repos)
    BY <1>4
  <2>2. QED
    BY <1>0, <1>4, <2>1, Zenon DEF IgnoredOut
<1>5. QED
  BY <1>0, <1>1, <1>2, <1>3, <1>4, ListChanges DEF ChangesList

\* What was skipped is off, or listed twice.
LEMMA SkippedOffStep == ListsOK /\ SkippedOff /\ [Next]_vars => SkippedOff'
<1> SUFFICES ASSUME ListsOK, SkippedOff, [Next]_vars
             PROVE  SkippedOff'
  OBVIOUS
<1>0. MoreBooleans
  BY DEF ListsOK
<1>1. CASE RejectRepos
  <2>1. /\ failed' = failed
        /\ \A i \in DOMAIN repos : i \in DOMAIN repos' /\ repos'[i] = repos[i]
        /\ \A i \in DOMAIN repos' \ DOMAIN repos : repos'[i].alias \notin AliasesIn(repos)
    BY <1>1, RejectFacts
  <2>2. AliasesIn(repos) \subseteq AliasesIn(repos')
    BY <2>1 DEF AliasesIn
  <2>3. ASSUME NEW i \in DOMAIN repos', repos'[i].on, repos'[i].alias \in failed'
        PROVE  \E j \in DOMAIN repos' : j # i /\ repos'[j].alias = repos'[i].alias
    <3>1. i \in DOMAIN repos /\ repos'[i] = repos[i]
      BY <2>1, <2>3 DEF SkippedOff
    <3>2. PICK j \in DOMAIN repos : j # i /\ repos[j].alias = repos[i].alias
      BY <2>1, <2>3, <3>1 DEF SkippedOff
    <3>3. QED
      BY <2>1, <3>1, <3>2
  <2>4. QED
    BY <2>1, <2>2, <2>3 DEF SkippedOff
<1>2. CASE SelectRepos
  <2>1. /\ failed' = failed
        /\ AliasesIn(repos) \subseteq AliasesIn(repos')
        /\ \A i \in DOMAIN repos' : repos'[i].alias \in AliasesIn(repos) =>
             \/ \E k \in DOMAIN repos' : k # i /\ repos'[k].alias = repos'[i].alias
             \/ \E j \in DOMAIN repos :
                  /\ repos'[i] = repos[j]
                  /\ \A k \in DOMAIN repos : repos[k].alias = repos[j].alias => k = j
    BY <1>2, NewListFacts
  <2>2. ASSUME NEW i \in DOMAIN repos', repos'[i].on, repos'[i].alias \in failed'
        PROVE  \E j \in DOMAIN repos' : j # i /\ repos'[j].alias = repos'[i].alias
    <3>1. ASSUME NEW j \in DOMAIN repos, repos'[i] = repos[j],
                 \A k \in DOMAIN repos : repos[k].alias = repos[j].alias => k = j
          PROVE  FALSE
      BY <2>1, <2>2, <3>1 DEF SkippedOff
    <3>2. QED
      BY <2>1, <2>2, <3>1 DEF SkippedOff
  <2>3. QED
    BY <2>1, <2>2 DEF SkippedOff
<1>3. CASE \/ \E match \in BOOLEAN : RefreshOne(match)
           \/ \E forGood \in BOOLEAN : SkipOne(forGood)
           \/ \E userAborts \in BOOLEAN : BreakOff(userAborts)
  <2>1. /\ at \in DOMAIN repos /\ DOMAIN repos' = DOMAIN repos
        /\ \A j \in DOMAIN repos : repos'[j].alias = repos[j].alias
        /\ \A j \in DOMAIN repos : j # at => repos'[j] = repos[j]
        /\ AliasesIn(repos') = AliasesIn(repos)
        /\ \/ failed' = failed \ {repos[at].alias}
           \/ failed' = failed \cup {repos[at].alias} /\ repos'[at].on = FALSE
    BY <1>3, LoopFacts
  <2>2. repos[at].alias \in AliasesIn(repos)
    BY <2>1 DEF AliasesIn
  <2>3. ASSUME NEW i \in DOMAIN repos', repos'[i].on, repos'[i].alias \in failed'
        PROVE  \E j \in DOMAIN repos' : j # i /\ repos'[j].alias = repos'[i].alias
    <3>1. i # at
      BY <2>1, <2>3
    <3>2. CASE repos[i].alias \in failed
      <4>1. PICK j \in DOMAIN repos : j # i /\ repos[j].alias = repos[i].alias
        BY <2>1, <2>3, <3>1, <3>2 DEF SkippedOff
      <4>2. QED
        BY <2>1, <4>1
    <3>3. CASE repos[i].alias = repos[at].alias
      BY <2>1, <3>1, <3>3
    <3>4. QED
      BY <2>1, <2>3, <3>2, <3>3
  <2>4. QED
    BY <2>1, <2>2, <2>3 DEF SkippedOff
<1>4. CASE UNCHANGED <<repos, failed>>
  BY <1>4 DEF SkippedOff, AliasesIn
<1>5. QED
  BY <1>0, <1>1, <1>2, <1>3, <1>4, ListChanges DEF ChangesList

-----------------------------------------------------------------------------
(* What is loaded, and what dist-upgrade has                               *)

\* A repository as the RepoManager knows it is on only if it is usable.
LEMMA EntryUsable == ASSUME NEW a, Entry(a).on PROVE Usable(a)
BY Zenon DEF Entry, Usable

\* What is on and still to be loaded is usable.
LEMMA OnIsUsableStep == ListsOK /\ SystemSource /\ OnIsUsable /\ [Next]_vars => OnIsUsable'
<1> SUFFICES ASSUME ListsOK /\ SystemSource /\ OnIsUsable, [Next]_vars
             PROVE  OnIsUsable'
  OBVIOUS
<1> USE DEF options, flags, codes, once, content, history
<1>0. /\ PlainTypes /\ ListTypes /\ MoreBooleans /\ Phases /\ KnownOnce /\ OnIsUsable
      /\ loadDone \in BOOLEAN /\ Len(repos) \in Nat /\ DOMAIN repos = 1 .. Len(repos)
  BY DEF ListsOK, MoreBooleans, Booleans, ListTypes
<1>1. CASE \E l \in CommandLines : StartCommand(l)
  BY <1>1, <1>0 DEF StartCommand, OnIsUsable, Usable
<1>2. CASE ReloadFails
  BY <1>2, <1>0 DEF ReloadFails, OnIsUsable, Usable
<1>3. CASE CheckConditions
  BY <1>3, <1>0 DEF CheckConditions, Fail, OnIsUsable, Usable
<1>4. CASE InitTarget
  BY <1>4, <1>0 DEF InitTarget, OnIsUsable, Usable
<1>5. CASE InitTargetFails
  BY <1>5, <1>0 DEF InitTargetFails, Fail, OnIsUsable, Usable
<1>6. CASE \E result \in {"ok", "media"} : RefreshServices(result)
  BY <1>6, <1>0 DEF RefreshServices, OnIsUsable, Usable
<1>7. CASE \E userAborts \in BOOLEAN : ServicesThrow(userAborts)
  BY <1>7, <1>0 DEF ServicesThrow, Fail, OnIsUsable, Usable
<1>8. CASE RejectRepos
  <2>1. /\ pc = "select" /\ pc' = "finish" /\ UNCHANGED <<loadDone, enabled, matched>>
    BY <1>8 DEF RejectRepos
  <2>2. /\ \A i \in DOMAIN repos : repos'[i] = repos[i]
        /\ \A i \in DOMAIN repos' \ DOMAIN repos : repos'[i] = Entry(repos'[i].alias)
    BY <1>8, RejectFacts
  <2>3. ASSUME ~loadDone, NEW i \in DOMAIN repos', repos'[i].on
        PROVE  Usable(repos'[i].alias)
    <3>1. CASE i \in DOMAIN repos
      BY <1>0, <2>1, <2>2, <2>3, <3>1 DEF OnIsUsable
    <3>2. CASE i \notin DOMAIN repos
      BY <2>2, <2>3, <3>2, EntryUsable, Zenon
    <3>3. QED
      BY <3>1, <3>2
  <2>4. QED
    BY <2>1, <2>3 DEF OnIsUsable, Usable
<1>9. CASE SelectRepos
  <2>1. pc = "select" /\ pc' = "refresh" /\ UNCHANGED <<loadDone, enabled, matched>>
    BY <1>9 DEF SelectRepos
  <2>2. \A i \in DOMAIN repos' : \/ \E j \in DOMAIN repos : repos'[i] = repos[j]
                                 \/ repos'[i] = Entry(repos'[i].alias)
    BY <1>9, NewListFacts
  <2>3. ASSUME ~loadDone, NEW i \in DOMAIN repos', repos'[i].on
        PROVE  Usable(repos'[i].alias)
    <3>1. ASSUME NEW j \in DOMAIN repos, repos'[i] = repos[j]
          PROVE  Usable(repos'[i].alias)
      BY <1>0, <2>1, <2>3, <3>1 DEF OnIsUsable
    <3>2. CASE repos'[i] = Entry(repos'[i].alias)
      BY <2>3, <3>2, EntryUsable, Zenon
    <3>3. QED
      BY <2>2, <3>1, <3>2
  <2>4. QED
    BY <2>1, <2>3 DEF OnIsUsable, Usable
<1>10. CASE LeaveDisabled
  BY <1>10, <1>0 DEF LeaveDisabled, OnIsUsable, Usable
<1>11. CASE \E match \in BOOLEAN : RefreshOne(match)
  <2>1. PICK match \in BOOLEAN :
          /\ pc = "refresh" /\ UNCHANGED <<pc, loadDone, enabled>>
          /\ repos[at].on \/ Named(repos[at]) \/ Scannable(repos[at])
          /\ at <= Len(repos)
          /\ repos' = [repos EXCEPT ![at].on = match]
          /\ matched' = IF ~Scannable(repos[at]) THEN matched
                        ELSE IF match THEN matched \cup {repos[at].alias}
                             ELSE matched \ {repos[at].alias}
    BY <1>11 DEF RefreshOne
  <2>2. /\ DOMAIN repos' = DOMAIN repos /\ at \in DOMAIN repos
        /\ \A j \in DOMAIN repos : repos'[j].alias = repos[j].alias
        /\ \A j \in DOMAIN repos : j # at => repos'[j] = repos[j]
        /\ repos'[at].on = match
    BY <1>0, <2>1, FlagAt, HereFacts
  <2>3. ASSUME NEW a, a = repos[at].alias, ~loadDone, match
        PROVE  Usable(a)'
    <3>1. repos[at].on => Usable(a)
      BY <1>0, <2>1, <2>2, <2>3 DEF OnIsUsable
    <3>2. CASE Scannable(repos[at])
      BY <2>1, <2>3, <3>2 DEF Usable
    <3>3. CASE ~Scannable(repos[at])
      BY <2>1, <2>3, <3>1, <3>3 DEF Named, Scannable, Usable
    <3>4. QED
      BY <3>2, <3>3
  <2>4. ASSUME NEW i \in DOMAIN repos, i # at, Usable(repos[i].alias)
        PROVE  Usable(repos[i].alias)'
    <3>1. repos[i].alias \in ToSet(Temp) \/ repos[i].alias # repos[at].alias
      <4>1. repos[i] \in Row
        BY <1>0, <2>4 DEF ListTypes
      <4>2. repos[i].alias \in ToSet(Known) \/ repos[i].alias \in ToSet(Temp)
        BY <4>1 DEF Row, Aliases
      <4>3. QED
        BY <1>0, <2>2, <2>4, <4>2 DEF KnownOnce
    <3>2. QED
      BY <2>1, <2>2, <2>4, <3>1 DEF Usable
  <2>5. QED
    BY <1>0, <2>1, <2>2, <2>3, <2>4 DEF OnIsUsable
<1>12. CASE \E forGood \in BOOLEAN : SkipOne(forGood)
  <2>1. PICK forGood \in BOOLEAN :
          /\ pc = "refresh" /\ UNCHANGED <<pc, loadDone, matched>>
          /\ forGood => repos[at].alias \in ToSet(Known)
          /\ at <= Len(repos)
          /\ repos' = [repos EXCEPT ![at].on = FALSE]
          /\ enabled' = IF forGood THEN [enabled EXCEPT ![repos[at].alias] = FALSE] ELSE enabled
    BY <1>12 DEF SkipOne
  <2>2. /\ DOMAIN repos' = DOMAIN repos /\ at \in DOMAIN repos
        /\ \A j \in DOMAIN repos : repos'[j].alias = repos[j].alias
        /\ \A j \in DOMAIN repos : j # at => repos'[j] = repos[j]
        /\ repos'[at].on = FALSE
    BY <1>0, <2>1, FlagAt, HereFacts
  <2>3. ASSUME NEW i \in DOMAIN repos, i # at, Usable(repos[i].alias)
        PROVE  Usable(repos[i].alias)'
    <3>1. CASE forGood
      <4>1. repos[i].alias # repos[at].alias
        BY <1>0, <2>1, <2>2, <2>3, <3>1 DEF KnownOnce
      <4>2. enabled'[repos[i].alias] = enabled[repos[i].alias] \/ repos[i].alias \notin ToSet(Known)
        BY <1>0, <2>1, <3>1, <4>1 DEF ListTypes
      <4>3. repos[i].alias \in ToSet(Known) \/ repos[i].alias \in ToSet(Temp)
        <5>1. repos[i] \in Row
          BY <1>0, <2>3 DEF ListTypes
        <5>2. QED
          BY <5>1 DEF Row, Aliases
      <4>4. repos'[i] = repos[i]
        BY <2>2, <2>3
      <4>5. QED
        BY <2>1, <2>3, <4>2, <4>3, <4>4 DEF Usable
    <3>2. CASE ~forGood
      BY <2>1, <2>2, <2>3, <3>2 DEF Usable
    <3>3. QED
      BY <3>1, <3>2
  <2>4. QED
    BY <1>0, <2>1, <2>2, <2>3 DEF OnIsUsable
<1>13. CASE \E userAborts \in BOOLEAN : BreakOff(userAborts)
  <2>1. /\ pc = "refresh" /\ pc' = "finish" /\ UNCHANGED <<loadDone, enabled, matched>>
        /\ at <= Len(repos)
        /\ repos' = [repos EXCEPT ![at].on = repos[at].on \/ Named(repos[at])]
    BY <1>13 DEF BreakOff, Fail
  <2>2. repos[at].on \/ Named(repos[at]) \in BOOLEAN
    BY Zenon DEF Named
  <2>3. /\ DOMAIN repos' = DOMAIN repos /\ at \in DOMAIN repos
        /\ \A j \in DOMAIN repos : repos'[j].alias = repos[j].alias
        /\ \A j \in DOMAIN repos : j # at => repos'[j] = repos[j]
        /\ repos'[at].on = (repos[at].on \/ Named(repos[at]))
    BY <1>0, <2>1, <2>2, FlagAt, HereFacts
  <2>4. ~loadDone /\ repos'[at].on => Usable(repos[at].alias)
    BY <1>0, <2>1, <2>3 DEF OnIsUsable, Named, Usable
  <2>5. QED
    BY <1>0, <2>1, <2>3, <2>4 DEF OnIsUsable, Usable
<1>14. CASE EndInit
  BY <1>14, <1>0 DEF EndInit, OnIsUsable, Usable
<1>15. CASE CheckRepos
  BY <1>15, <1>0 DEF CheckRepos, MustFail, Fail, OnIsUsable, Usable
<1>16. CASE \E result \in {"loaded", "error", "disabled", "aborted"} : LoadOne(result)
  <2>1. PICK result \in {"loaded", "error", "disabled", "aborted"} :
          /\ pc = "load" /\ at <= Len(repos) /\ at' = at + 1
          /\ result = "disabled" => repos[at].alias \in ToSet(Known)
          /\ enabled' = IF result = "disabled" THEN [enabled EXCEPT ![repos[at].alias] = FALSE]
                        ELSE enabled
          /\ UNCHANGED <<pc, loadDone, repos, matched>>
    BY <1>16 DEF LoadOne
  <2>2. at \in DOMAIN repos /\ at \in Nat
    BY <1>0, <2>1, HereFacts
  <2>3. ASSUME NEW i \in DOMAIN repos, i # at, Usable(repos[i].alias)
        PROVE  Usable(repos[i].alias)'
    <3>1. CASE result = "disabled"
      <4>1. repos[i].alias # repos[at].alias
        BY <1>0, <2>1, <2>2, <2>3, <3>1 DEF KnownOnce
      <4>2. enabled'[repos[i].alias] = enabled[repos[i].alias] \/ repos[i].alias \notin ToSet(Known)
        BY <1>0, <2>1, <3>1, <4>1 DEF ListTypes
      <4>3. repos[i].alias \in ToSet(Known) \/ repos[i].alias \in ToSet(Temp)
        <5>1. repos[i] \in Row
          BY <1>0, <2>3 DEF ListTypes
        <5>2. QED
          BY <5>1 DEF Row, Aliases
      <4>4. QED
        BY <2>1, <2>3, <4>2, <4>3 DEF Usable
    <3>2. CASE result # "disabled"
      BY <2>1, <2>3, <3>2 DEF Usable
    <3>3. QED
      BY <3>1, <3>2
  <2>4. ASSUME ~loadDone, NEW i \in DOMAIN repos', i >= at', repos'[i].on
        PROVE  Usable(repos[i].alias)'
    <3>1. i \in DOMAIN repos /\ i # at /\ i >= at /\ repos[i].on
      BY <1>0, <2>1, <2>2, <2>4
    <3>2. QED
      BY <1>0, <2>1, <2>3, <2>4, <3>1 DEF OnIsUsable
  <2>5. QED
    BY <2>1, <2>4 DEF OnIsUsable
<1>17. CASE ReposLoaded
  <2>1. /\ pc = "load" /\ loadDone' = noSystem
        /\ pc' = "loadTarget" \/ noSystem
        /\ UNCHANGED line
    BY <1>17, Zenon DEF ReposLoaded
  <2>2. line.cmd # "remove"
    BY <2>1 DEF SystemSource
  <2>3. QED
    BY <2>1, <2>2 DEF OnIsUsable
<1>18. CASE \E ok \in BOOLEAN : LoadTarget(ok)
  BY <1>18, <1>0 DEF LoadTarget, OnIsUsable, Usable
<1>19. CASE \E code \in {EXIT_OK, EXIT_ERR_ZYPP}, scriptFailed \in BOOLEAN : Execute(code, scriptFailed)
  BY <1>19, <1>0 DEF Execute, OnIsUsable, Usable
<1>20. CASE FinishCommand
  BY <1>20, <1>0 DEF FinishCommand, OnIsUsable, Usable
<1>21. CASE UNCHANGED vars
  BY <1>21, <1>0 DEF vars, OnIsUsable, Usable
<1>22. QED
  BY <1>1, <1>2, <1>3, <1>4, <1>5, <1>6, <1>7, <1>8, <1>9, <1>10, <1>11, <1>12, <1>13,
       <1>14, <1>15, <1>16, <1>17, <1>18, <1>19, <1>20, <1>21
  DEF Next, InitRepos, Load

\* A single command has every repository until one is skipped.
LEMMA SingleCompleteStep == ListsOK /\ SingleStart /\ SingleComplete /\ [Next]_vars => SingleComplete'
<1> SUFFICES ASSUME ListsOK /\ SingleStart /\ SingleComplete, [Next]_vars
             PROVE  SingleComplete'
  OBVIOUS
<1> USE DEF options, flags, codes, once, content, history
<1>0. /\ PlainTypes /\ ListTypes /\ MoreBooleans /\ SingleStart /\ SingleComplete
      /\ shell \in BOOLEAN /\ Len(repos) \in Nat /\ DOMAIN repos = 1 .. Len(repos)
  BY DEF ListsOK, MoreBooleans, Booleans, ListTypes
<1>1. CASE \E l \in CommandLines : StartCommand(l)
  BY <1>1, <1>0 DEF StartCommand, SingleComplete, AllListed
<1>2. CASE ReloadFails
  BY <1>2, <1>0 DEF ReloadFails, SingleComplete, AllListed
<1>3. CASE CheckConditions
  BY <1>3, <1>0 DEF CheckConditions, Fail, SingleComplete, AllListed
<1>4. CASE InitTarget
  BY <1>4, <1>0 DEF InitTarget, SingleComplete, AllListed, SingleStart
<1>5. CASE InitTargetFails
  BY <1>5, <1>0 DEF InitTargetFails, Fail, SingleComplete, AllListed
<1>6. CASE \E result \in {"ok", "media"} : RefreshServices(result)
  BY <1>6, <1>0 DEF RefreshServices, SingleComplete, AllListed
<1>7. CASE \E userAborts \in BOOLEAN : ServicesThrow(userAborts)
  BY <1>7, <1>0 DEF ServicesThrow, Fail, SingleComplete, AllListed
<1>8. CASE RejectRepos
  BY <1>8, <1>0 DEF RejectRepos, SingleComplete, AllListed
<1>9. CASE SelectRepos
  <2>1. pc = "select" /\ pc' = "refresh" /\ UNCHANGED <<shell, noRepos, failed, enabled, line>>
    BY <1>9 DEF SelectRepos
  <2>2. repos = <<>> =>
          \A a \in ToSet(Known) \ Ignored : line.only = <<>> \/ a \in ToSet(line.only) =>
            \E i \in DOMAIN repos' : repos'[i] = Entry(a)
    BY <1>9, NewListFacts
  <2>3. ASSUME ~shell
        PROVE  failed' = {} /\ AllListed'
    <3>1. repos = <<>> /\ failed = {}
      BY <1>0, <2>1, <2>3 DEF SingleStart
    <3>2. ASSUME NEW a \in ToSet(Known) \ Ignored, enabled[a],
                 line.only = <<>> \/ a \in ToSet(line.only)
          PROVE  \E i \in DOMAIN repos' : repos'[i].alias = a /\ repos'[i].on
      <4>1. PICK i \in DOMAIN repos' : repos'[i] = Entry(a)
        BY <2>2, <3>1, <3>2
      <4>2. Entry(a).alias = a /\ Entry(a).on
        BY <3>2, Zenon DEF Entry
      <4>3. QED
        BY <4>1, <4>2
    <3>3. QED
      BY <2>1, <3>1, <3>2 DEF AllListed
  <2>4. QED
    BY <2>1, <2>3 DEF SingleComplete
<1>10. CASE LeaveDisabled
  BY <1>10, <1>0 DEF LeaveDisabled, SingleComplete, AllListed
<1>11. CASE \E match \in BOOLEAN : RefreshOne(match)
  <2>1. PICK match \in BOOLEAN :
          /\ pc = "refresh" /\ UNCHANGED <<pc, skips, shell, noRepos, line, enabled, exitInfo>>
          /\ at <= Len(repos)
          /\ match \/ Scannable(repos[at])
          /\ repos' = [repos EXCEPT ![at].on = match]
          /\ failed' = failed \ {repos[at].alias}
    BY <1>11 DEF RefreshOne
  <2>2. /\ DOMAIN repos' = DOMAIN repos /\ at \in DOMAIN repos
        /\ \A j \in DOMAIN repos : repos'[j].alias = repos[j].alias
        /\ \A j \in DOMAIN repos : j # at => repos'[j] = repos[j]
        /\ repos'[at].on = match
    BY <1>0, <2>1, FlagAt, HereFacts
  <2>3. ASSUME NEW i \in DOMAIN repos, repos[i].on
        PROVE  repos'[i].alias = repos[i].alias /\ repos'[i].on
    <3>1. CASE i = at
      BY <2>1, <2>2, <2>3, <3>1 DEF Scannable
    <3>2. CASE i # at
      BY <2>2, <2>3, <3>2
    <3>3. QED
      BY <3>1, <3>2
  <2>4. AllListed => AllListed'
    BY <2>1, <2>2, <2>3 DEF AllListed
  <2>5. QED
    BY <1>0, <2>1, <2>4 DEF SingleComplete
<1>12. CASE \E forGood \in BOOLEAN : SkipOne(forGood)
  <2>1. pc' = "refresh" /\ skips' = skips + 1 /\ skips \in Nat
    BY <1>12, <1>0 DEF SkipOne, ListTypes
  <2>2. QED
    BY <2>1 DEF SingleComplete
<1>13. CASE \E userAborts \in BOOLEAN : BreakOff(userAborts)
  BY <1>13, <1>0 DEF BreakOff, Fail, SingleComplete, AllListed
<1>14. CASE EndInit
  BY <1>14, <1>0 DEF EndInit, SingleComplete, AllListed, ListTypes
<1>15. CASE CheckRepos
  BY <1>15, <1>0 DEF CheckRepos, MustFail, Fail, SingleComplete, AllListed
<1>16. CASE \E result \in {"loaded", "error", "disabled", "aborted"} : LoadOne(result)
  <2>1. /\ pc = "load" /\ UNCHANGED <<pc, shell, noRepos, line, failed, repos, exitInfo>>
        /\ \/ enabled' = enabled
           \/ enabled' = [enabled EXCEPT ![repos[at].alias] = FALSE]
    BY <1>16 DEF LoadOne
  <2>2. \A a \in ToSet(Known) : enabled'[a] => enabled[a]
    BY <1>0, <2>1 DEF ListTypes
  <2>3. AllListed => AllListed'
    BY <2>1, <2>2 DEF AllListed
  <2>4. QED
    BY <1>0, <2>1, <2>3 DEF SingleComplete
<1>17. CASE ReposLoaded
  BY <1>17, <1>0 DEF ReposLoaded, SingleComplete, AllListed
<1>18. CASE \E ok \in BOOLEAN : LoadTarget(ok)
  BY <1>18, <1>0 DEF LoadTarget, SingleComplete, AllListed
<1>19. CASE \E code \in {EXIT_OK, EXIT_ERR_ZYPP}, scriptFailed \in BOOLEAN : Execute(code, scriptFailed)
  BY <1>19, <1>0 DEF Execute, SingleComplete, AllListed
<1>20. CASE FinishCommand
  BY <1>20, <1>0 DEF FinishCommand, SingleComplete, AllListed
<1>21. CASE UNCHANGED vars
  BY <1>21, <1>0 DEF vars, SingleComplete, AllListed
<1>22. QED
  BY <1>1, <1>2, <1>3, <1>4, <1>5, <1>6, <1>7, <1>8, <1>9, <1>10, <1>11, <1>12, <1>13,
       <1>14, <1>15, <1>16, <1>17, <1>18, <1>19, <1>20, <1>21
  DEF Next, InitRepos, Load

-----------------------------------------------------------------------------
(* The theorems about the list                                             *)

\* Inv, the types and ListInv, together inductive.
FullInv ==
  /\ Inv
  /\ PlainTypes /\ MoreBooleans /\ ListTypes
  /\ Phases /\ SingleStart /\ SkippedOff /\ IgnoredOut /\ KnownOnce
  /\ OnIsUsable /\ SingleComplete

\* The full invariant holds at first.
LEMMA FullInvInit == Init => FullInv
<1> SUFFICES ASSUME Init
             PROVE  FullInv
  OBVIOUS
<1>1. /\ pc = "idle" /\ repos = <<>> /\ failed = {} /\ ~initDone /\ ~loadDone
      /\ Len(repos) = 0 /\ DOMAIN repos = {} /\ AliasesIn(repos) = {} /\ ~rejected
  BY DEF Init, AliasesIn
<1>2. PlainTypes /\ MoreBooleans
  BY <1>1 DEF Init, PlainTypes, MoreBooleans, Booleans
<1>3. ListTypes
  BY <1>1 DEF Init, ListTypes, SkipsCounted
<1>4. Phases /\ SingleStart /\ SkippedOff /\ IgnoredOut /\ KnownOnce /\ OnIsUsable
      /\ SingleComplete
  BY <1>1 DEF Phases, SingleStart, SkippedOff, IgnoredOut, KnownOnce, OnIsUsable, SingleComplete
<1>5. QED
  BY <1>2, <1>3, <1>4, InvInit DEF FullInv

\* Every step keeps the full invariant.
LEMMA FullInvStep == FullInv /\ [Next]_vars => FullInv'
<1> SUFFICES ASSUME FullInv, [Next]_vars
             PROVE  FullInv'
  OBVIOUS
<1>1. ListsOK
  BY DEF FullInv, ListsOK
<1>2. Inv'
  BY BooleansStep, AbortStep, SkipStep, SystemStep DEF FullInv, Inv
<1>3. PlainTypes' /\ MoreBooleans' /\ ListTypes'
  BY <1>1, PlainTypesStep, MoreBooleansStep, ListTypesStep DEF FullInv
<1>4. Phases' /\ SingleStart' /\ SkippedOff' /\ IgnoredOut' /\ KnownOnce'
  BY <1>1, PhasesStep, SingleStartStep, SkippedOffStep, IgnoredOutStep, KnownOnceStep DEF FullInv
<1>5. OnIsUsable' /\ SingleComplete'
  BY <1>1, OnIsUsableStep, SingleCompleteStep DEF FullInv, Inv
<1>6. QED
  BY <1>2, <1>3, <1>4, <1>5 DEF FullInv

\* The full invariant always holds.
LEMMA FullInvAlways == Spec => []FullInv
BY FullInvInit, FullInvStep, PTL DEF Spec

\* The list of repositories, the place of the loops over it and the counters stay
\* within their types, however many commands follow one another.
THEOREM TypeCorrect == Spec => []TypeOK
<1>1. FullInv => TypeOK
  BY DEF FullInv, Inv, Booleans, PlainTypes, MoreBooleans, ListTypes, TypeOK, Row, options, flags
<1> QED
  BY <1>1, FullInvAlways, PTL

\* The list is well formed: what was skipped is off, what is ignored is out, only
\* temporary repositories are listed twice, a single command lacks nothing unnoticed.
THEOREM ListsAreRight == Spec => []ListInv
<1>1. FullInv => ListInv
  BY DEF FullInv, ListTypes, ListInv
<1> QED
  BY <1>1, FullInvAlways, PTL

\* zypper(8), dist-upgrade: "It must not continue if enabled repositories fail to
\* refresh": a single dist-upgrade runs with every repository it was to use, and none
\* runs in a session in which one was skipped.
THEOREM DupIsComplete == Spec => []DupComplete
<1>1. FullInv => DupComplete
  <2> SUFFICES ASSUME FullInv
               PROVE  DupComplete
    OBVIOUS
  <2>1. NoDupAfterSkip
    BY Zenon DEF FullInv, Inv, SkipRemembered, NoDupAfterSkip, Executing
  <2>2. ASSUME Executing("dist-upgrade"), ~shell, ~noRepos
        PROVE  failed = {} /\ AllListed
    <3>1. pc = "execute" /\ line.cmd = "dist-upgrade" /\ exitInfo = EXIT_OK
      BY <2>2 DEF Executing, FullInv, Inv, SkipRemembered
    <3>2. QED
      BY <2>2, <3>1 DEF FullInv, SingleComplete
  <2>3. AllListed =>
          \A a \in ToSet(Known) \ Ignored :
            enabled[a] /\ (line.only = <<>> \/ a \in ToSet(line.only)) =>
              \E e \in ToSet(repos) : e.alias = a /\ e.on
    BY DEF AllListed, ToSet
  <2>4. QED
    BY <2>1, <2>2, <2>3 DEF DupComplete, DupHasAllRepos
<1> QED
  BY <1>1, FullInvAlways, PTL

\* load_repo_resolvables: what gets into the pool is a repository that may be used, was
\* not skipped when it was last tried, unless it is listed twice, and is left out by no
\* option, unless a rejected --repo ended init_repos.
THEOREM UsableLoaded == Spec => OnlyUsableLoaded
<1> DEFINE P == \A a \in pool' \ pool :
                  /\ a \notin failed \/ Cardinality({i \in DOMAIN repos : repos[i].alias = a}) > 1
                  /\ a \in ToSet(Temp) \/ enabled[a] \/ a \in PlusNamed \/ a \in matched
                  /\ ~noRepos
                  /\ a \notin Ignored \/ rejected
<1>1. FullInv /\ [Next]_vars => [P]_vars
  <2> SUFFICES ASSUME FullInv, [Next]_vars, NEW a \in pool' \ pool
               PROVE  /\ a \notin failed \/ Cardinality({i \in DOMAIN repos : repos[i].alias = a}) > 1
                      /\ a \in ToSet(Temp) \/ enabled[a] \/ a \in PlusNamed \/ a \in matched
                      /\ ~noRepos
                      /\ a \notin Ignored \/ rejected
    OBVIOUS
  <2>1. /\ pc = "load" /\ at <= Len(repos) /\ repos[at].on
        /\ a = repos[at].alias
    BY DEF Next, InitRepos, Load, StartCommand, ReloadFails, CheckConditions, InitTarget,
           InitTargetFails, RefreshServices, ServicesThrow, RejectRepos, SelectRepos,
           LeaveDisabled, RefreshOne, SkipOne, BreakOff, EndInit, CheckRepos, LoadOne,
           ReposLoaded, LoadTarget, Execute, FinishCommand, vars, content
  <2>2. at \in DOMAIN repos /\ Len(repos) \in Nat /\ DOMAIN repos = 1 .. Len(repos)
    BY <2>1, HereFacts DEF FullInv
  <2>3. Usable(a)
    <3>1. ~loadDone
      BY <2>1 DEF FullInv, Phases
    <3>2. at >= at
      BY <2>2
    <3>3. QED
      BY <2>1, <2>2, <3>1, <3>2 DEF FullInv, OnIsUsable
  <2>4. ASSUME a \in failed
        PROVE  Cardinality({i \in DOMAIN repos : repos[i].alias = a}) > 1
    <3> DEFINE I == {i \in DOMAIN repos : repos[i].alias = a}
    <3>1. PICK j \in DOMAIN repos : j # at /\ repos[j].alias = repos[at].alias
      BY <2>1, <2>2, <2>4 DEF FullInv, SkippedOff
    <3>2. at \in I /\ j \in I /\ j # at /\ I \in SUBSET (1 .. Len(repos))
      BY <2>1, <2>2, <3>1
    <3>3. IsFiniteSet(1 .. Len(repos))
      BY <2>2, FS_Interval
    <3> HIDE DEF I
    <3>4. IsFiniteSet(I) /\ Cardinality(I) \in Nat
      BY <3>2, <3>3, FS_Subset, FS_CardinalityType
    <3>5. Cardinality(I) # 0 /\ Cardinality(I) # 1
      BY <3>2, <3>4, FS_EmptySet, FS_Singleton
    <3>6. Cardinality(I) > 1
      BY <3>4, <3>5
    <3>7. QED
      BY <3>6 DEF I
  <2>5. ~noRepos
    <3>1. repos # <<>>
      BY <2>2
    <3>2. QED
      BY <3>1 DEF FullInv, Phases
  <2>6. a \notin Ignored \/ rejected
    <3>1. a \in AliasesIn(repos)
      BY <2>1, <2>2 DEF AliasesIn
    <3>2. QED
      BY <3>1 DEF FullInv, IgnoredOut
  <2>7. QED
    BY <2>3, <2>4, <2>5, <2>6 DEF Usable
<1>2. QED
  BY <1>1, FullInvAlways, PTL DEF Spec, OnlyUsableLoaded
=============================================================================
