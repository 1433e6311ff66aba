-------------------------- MODULE CommitReportsProofs --------------------------
(***************************************************************************)
(* Proofs about CommitReports, for any packages, any set of configurations *)
(* and any number of retries.  Each property has an invariant of its own   *)
(* that is inductive given the types.                                      *)
(***************************************************************************)
EXTENDS CommitReports, FiniteSetTheorems, TLAPS

Answers == {"abort", "retry", "ignore"}

\* The options of the process do not change.
GivenOptions == g \in Options

\* The types, in three groups.
Places ==
  /\ pc \in {"index", "digest", "fetch", "again", "fetching", "problem", "sigProblem",
             "conflicts", "rpm", "step", "stepFails", "stepProblem", "stopped", "done"}
  /\ exitCode \in {EXIT_OK, EXIT_ERR_ZYPP}
  /\ exitInfo \in {EXIT_OK, EXIT_INF_RPM_SCRIPT_FAILED}
  /\ toFetch \subseteq Packages /\ cached \subseteq Packages
  /\ pkg \in Packages \cup {NoPackage}
  /\ pc \in {"again", "fetching", "problem", "sigProblem"} => pkg \in Packages
  /\ toDo \subseteq Obsolete \cup Packages
  /\ step \in Obsolete \cup Packages \cup {NoPackage}
  /\ bar \in {"none", "conflicts", "step"}
  /\ letters \subseteq {"none", "r", "t", "a"}
  /\ signer \in {"none", "known", "new"}
  /\ unverified \subseteq Packages /\ ignored \subseteq Packages

Flags ==
  /\ exitRequested \in BOOLEAN /\ fetchingRpm \in BOOLEAN
  /\ imported \in BOOLEAN /\ additional \in BOOLEAN /\ rejectedIndex \in BOOLEAN /\ requestedEarly \in BOOLEAN
  /\ stepFailed \in BOOLEAN /\ scriptFailed \in BOOLEAN

Counters ==
  /\ current \in 0 .. Width - 1 /\ shown \in 0 .. Width - 1
  /\ rpmCurrent \in 0 .. Width - 1
  /\ retries \in 0 .. MaxRetries

\* A package at hand is one not fetched yet; what failed its check and is not fetched
\* yet is the package the user is asked about.
FetchKept ==
  /\ toFetch \cap cached = {}
  /\ pc \in {"again", "fetching", "problem", "sigProblem"} => pkg \in toFetch
  /\ ~g.noGpgChecks /\ pc \notin {"sigProblem", "stopped"} => unverified \cap toFetch = {}
  /\ ~g.noGpgChecks /\ pc \in {"sigProblem", "stopped"} => unverified \cap toFetch \subseteq {pkg}

\* Who signed the index is decided before additional keys come in; a new key has been
\* accepted by an option or a letter.
SignerKept ==
  /\ signer = "new" => g.autoImport \/ g.noGpgChecks \/ {"t", "a"} \cap letters # {}
  /\ pc = "index" => ~additional
  /\ additional => signer \in {"known", "new"}

\* An early request is still there, and rpm has not started.
EarlyKept ==
  requestedEarly =>
    /\ exitRequested
    /\ pc \in {"index", "digest", "fetch", "again", "fetching", "problem", "sigProblem",
               "conflicts", "stopped"}

\* The codes remember what failed, from the moment it does.
CodesKept ==
  /\ stepFailed => exitCode # EXIT_OK
  /\ scriptFailed => exitInfo # EXIT_OK

-----------------------------------------------------------------------------
(* The answers of KeyTrust.                                                *)

\* A question with the default no is answered no when nobody is there.
LEMMA NobodySaysYes ==
  ASSUME NEW o \in Options, o.unattended
  PROVE  /\ \A b \in BoolAnswers(o, FALSE) : ~b
         /\ \A b \in AcceptWrongDigest(o) : ~b
         /\ \A a \in AriAnswers(o) : a = "abort"
<1>1. Replies(o, <<"yes", "no">>, 1) = {1} /\ Replies(o, <<"unblock", "discard">>, 1) = {1}
      /\ Replies(o, <<"a", "r", "i">>, 0) = {0}
  BY DEF Replies
<1>2. \A i \in {1} : ~(i = 0)
  OBVIOUS
<1>3. \A b \in BoolAnswers(o, FALSE) : ~b
  BY <1>1, <1>2, Zenon DEF BoolAnswers
<1>4. \A b \in AcceptWrongDigest(o) : ~b
  BY <1>1, <1>2, Zenon DEF AcceptWrongDigest
<1>5. \A a \in AriAnswers(o) : a = "abort"
  BY <1>1 DEF AriAnswers
<1>6. QED
  BY <1>3, <1>4, <1>5

\* Whoever is asked, a key is imported by option, or by the letter for it from a user who
\* may write the database.
LEMMA ImportNeedsConsent ==
  ASSUME NEW o \in Options, NEW temporarily \in BOOLEAN,
         NEW d \in AcceptKey(o, temporarily), d.trust = "import"
  PROVE  o.autoImport \/ (o.canImport /\ d.letter = "a")
<1>1. CASE o.autoImport
  BY <1>1
<1>2. CASE ~o.autoImport /\ o.noGpgChecks /\ temporarily
  BY <1>2 DEF AcceptKey
<1>3. CASE ~o.autoImport /\ ~o.canImport /\ ~temporarily
  BY <1>3 DEF AcceptKey
<1>4. CASE ~o.autoImport /\ ~(o.noGpgChecks /\ temporarily) /\ (o.canImport \/ temporarily)
  <2>1. PICK i \in Replies(o, KeyLetters(o, temporarily), 0) :
          d = [trust |-> KeyMeaning(temporarily, i), letter |-> KeyLetters(o, temporarily)[i + 1]]
    BY <1>4 DEF AcceptKey
  <2>2. CASE ~temporarily
    <3>1. KeyLetters(o, temporarily) = <<"r", "a">>
      BY <2>2 DEF KeyLetters
    <3>2. i \in {0, 1}
      BY <2>1, <3>1 DEF Replies
    <3>3. CASE i = 0
      BY <2>1, <3>3 DEF KeyMeaning
    <3>4. CASE i = 1
      BY <1>4, <2>1, <2>2, <3>1, <3>4
    <3>5. QED
      BY <3>2, <3>3, <3>4
  <2>3. CASE temporarily /\ o.canImport
    <3>1. KeyLetters(o, temporarily) = <<"r", "t", "a">>
      BY <2>3 DEF KeyLetters
    <3>2. i \in {0, 1, 2}
      BY <2>1, <3>1 DEF Replies
    <3>3. CASE i \in {0, 1}
      BY <2>1, <2>3, <3>3 DEF KeyMeaning
    <3>4. CASE i = 2
      <4>1. KeyLetters(o, temporarily)[3] = "a"
        BY <3>1
      <4>2. d.letter = "a"
        BY <2>1, <3>4, <4>1
      <4>3. QED
        BY <2>3, <4>2
    <3>5. QED
      BY <3>2, <3>3, <3>4
  <2>4. CASE temporarily /\ ~o.canImport
    <3>1. KeyLetters(o, temporarily) = <<"r", "t">>
      BY <2>4 DEF KeyLetters
    <3>2. i \in {0, 1}
      BY <2>1, <3>1 DEF Replies
    <3>3. QED
      BY <2>1, <2>4, <3>2 DEF KeyMeaning
  <2>5. QED
    BY <2>2, <2>3, <2>4
<1>5. QED
  BY <1>1, <1>2, <1>3, <1>4

\* A new key that is trusted for a while at least was accepted by an option or a letter.
LEMMA TrustNeedsWord ==
  ASSUME NEW o \in Options, NEW temporarily \in BOOLEAN,
         NEW d \in AcceptKey(o, temporarily), d.trust # "reject"
  PROVE  temporarily => o.autoImport \/ o.noGpgChecks \/ d.letter \in {"t", "a"}
<1>1. CASE o.autoImport \/ o.noGpgChecks \/ ~temporarily
  BY <1>1
<1>2. CASE ~o.autoImport /\ ~o.noGpgChecks /\ temporarily
  <2>1. PICK i \in Replies(o, KeyLetters(o, temporarily), 0) :
          d = [trust |-> KeyMeaning(temporarily, i), letter |-> KeyLetters(o, temporarily)[i + 1]]
    BY <1>2 DEF AcceptKey
  <2>2. i # 0
    BY <2>1 DEF KeyMeaning
  <2>3. CASE o.canImport
    <3>1. KeyLetters(o, temporarily) = <<"r", "t", "a">>
      BY <1>2, <2>3 DEF KeyLetters
    <3>2. i \in {0, 1, 2}
      BY <2>1, <3>1 DEF Replies
    <3>3. i = 1 \/ i = 2
      BY <2>2, <3>2
    <3>4. KeyLetters(o, temporarily)[2] = "t" /\ KeyLetters(o, temporarily)[3] = "a"
      BY <3>1
    <3>5. KeyLetters(o, temporarily)[i + 1] \in {"t", "a"}
      BY <3>3, <3>4
    <3>6. QED
      BY <2>1, <3>5
  <2>4. CASE ~o.canImport
    <3>1. KeyLetters(o, temporarily) = <<"r", "t">>
      BY <1>2, <2>4 DEF KeyLetters
    <3>2. i \in {0, 1}
      BY <2>1, <3>1 DEF Replies
    <3>3. i = 1
      BY <2>2, <3>2
    <3>4. KeyLetters(o, temporarily)[2] = "t"
      BY <3>1
    <3>5. KeyLetters(o, temporarily)[i + 1] = "t"
      BY <3>3, <3>4
    <3>6. QED
      BY <2>1, <3>5
  <2>5. QED
    BY <2>3, <2>4
<1>3. QED
  BY <1>1, <1>2

\* The letters a user may have typed.
LEMMA LettersOffered ==
  ASSUME NEW o \in Options, NEW temporarily \in BOOLEAN, NEW d \in AcceptKey(o, temporarily)
  PROVE  d.letter \in {"none", "r", "t", "a"}
<1>1. CASE d.letter = "none"
  BY <1>1
<1>2. CASE d.letter # "none"
  <2>1. PICK i \in Replies(o, KeyLetters(o, temporarily), 0) :
          d = [trust |-> KeyMeaning(temporarily, i), letter |-> KeyLetters(o, temporarily)[i + 1]]
    BY <1>2 DEF AcceptKey
  <2>2. d.letter = KeyLetters(o, temporarily)[i + 1]
    BY <2>1
  <2>3. CASE Len(KeyLetters(o, temporarily)) = 2
    <3>1. i \in {0, 1}
      BY <2>1, <2>3 DEF Replies
    <3>2. QED
      BY <2>2, <2>3, <3>1 DEF KeyLetters
  <2>4. CASE KeyLetters(o, temporarily) = <<"r", "t", "a">>
    <3>1. i \in {0, 1, 2}
      BY <2>1, <2>4 DEF Replies
    <3>2. QED
      BY <2>2, <2>4, <3>1
  <2>5. QED
    BY <2>3, <2>4 DEF KeyLetters
<1>3. QED
  BY <1>1, <1>2

\* After an exit request no answer about conflicts makes rpm start.
LEMMA RequestMeansNo ==
  ASSUME NEW conflicts \in BOOLEAN, NEW go \in ContinueAfter(conflicts), go
  PROVE  ~exitRequested
BY Zenon DEF ContinueAfter

-----------------------------------------------------------------------------
(* Each invariant is kept by every step.                                   *)

\* The options of the process stay.
LEMMA OptionsStep == [Next]_vars => g' = g
BY DEF Next, Verify, Fetch, CheckConflicts, Rpm, VerifyFile, VerifyWithNewKey, AutoImportKey,
       CheckDigest,
       InCache, StartDownload, DownloadFails, PackageKeyRequest, PkgGpgCheck, DownloadProblem,
       BeginConflictCheck, ConflictProgress, ConflictResult, StartRemove, StartInstall,
       StartStep, ProgressAborts, ProcessAdditionalRpmOutputLine, ScriptReport, RemoveDone,
       InstallDone, StepDone, StepError, RemoveProblem, InstallProblem, StepProblem, TaskFails,
       PosttransOutput, PatchMessage, PatchScriptProblem, Done, RequestExit, vars

\* An error stays in the codes.
LEMMA CodesStep == CodesKept /\ [Next]_vars => CodesKept'
<1> SUFFICES ASSUME CodesKept, [Next]_vars
             PROVE  CodesKept'
  OBVIOUS
<1> USE DEF CodesKept, codes, fetch, rpm, trust, signing, failure,
            EXIT_OK, EXIT_ERR_ZYPP, EXIT_INF_RPM_SCRIPT_FAILED
<1>1. CASE \E signature \in {"good", "none", "unknown", "broken"} : VerifyFile(signature)
  BY <1>1 DEF VerifyFile
<1>2. CASE VerifyWithNewKey
  BY <1>2 DEF VerifyWithNewKey
<1>3. CASE \E digest \in {"good", "none", "unknown", "wrong"} : CheckDigest(digest)
  BY <1>3 DEF CheckDigest
<1>4. CASE \E p \in Packages : InCache(p)
  BY <1>4 DEF InCache, CountUp
<1>5. CASE \E p \in Packages : StartDownload(p)
  BY <1>5 DEF StartDownload
<1>6. CASE DownloadFails
  BY <1>6 DEF DownloadFails
<1>7. CASE PackageKeyRequest
  BY <1>7 DEF PackageKeyRequest
<1>8. CASE \E ok \in BOOLEAN : PkgGpgCheck(ok)
  BY <1>8 DEF PkgGpgCheck, Finish
<1>9. CASE \E answer \in Answers : DownloadProblem(answer)
  BY <1>9 DEF DownloadProblem, Finish, CountDown, Stop
<1>10. CASE BeginConflictCheck
  BY <1>10 DEF BeginConflictCheck
<1>11. CASE ConflictProgress
  BY <1>11 DEF ConflictProgress, Stop
<1>12. CASE \E conflicts \in BOOLEAN : ConflictResult(conflicts)
  BY <1>12 DEF ConflictResult
<1>13. CASE \E s \in Obsolete \cup Packages : StartStep(s)
  BY <1>13 DEF StartStep
<1>14. CASE ProgressAborts
  BY <1>14 DEF ProgressAborts
<1>15. CASE ProcessAdditionalRpmOutputLine
  BY <1>15 DEF ProcessAdditionalRpmOutputLine, SetExitInfoCode
<1>16. CASE \E error \in {"warn", "critical"} : ScriptReport(error)
  BY <1>16 DEF ScriptReport, SetExitInfoCode
<1>17. CASE \E error \in BOOLEAN : StepDone(error)
  BY <1>17 DEF StepDone, FinishStep
<1>18. CASE StepError
  BY <1>18 DEF StepError
<1>19. CASE \E answer \in Answers : StepProblem(answer)
  BY <1>19 DEF StepProblem, Reopen
<1>20. CASE TaskFails
  BY <1>20 DEF TaskFails
<1>21. CASE PosttransOutput
  BY <1>21 DEF PosttransOutput, SetExitInfoCode
<1>22. CASE PatchMessage
  BY <1>22 DEF PatchMessage, Stop
<1>23. CASE \E answer \in Answers : PatchScriptProblem(answer)
  BY <1>23 DEF PatchScriptProblem, Stop
<1>24. CASE Done
  BY <1>24 DEF Done
<1>25. CASE RequestExit
  BY <1>25 DEF RequestExit
<1>26. CASE UNCHANGED vars
  BY <1>26 DEF vars
<1>27. CASE AutoImportKey
  BY <1>27 DEF AutoImportKey
<1>28. QED
  BY <1>1, <1>2, <1>3, <1>4, <1>5, <1>6, <1>7, <1>8, <1>9, <1>10, <1>11, <1>12, <1>13,
       <1>14, <1>15, <1>16, <1>17, <1>18, <1>19, <1>20, <1>21, <1>22, <1>23, <1>24,
       <1>25, <1>26, <1>27
  DEF Next, Verify, Fetch, CheckConflicts, Rpm, StartRemove, StartInstall,
      RemoveDone, InstallDone, RemoveProblem, InstallProblem, Answers

\* Whatever the answer about conflicts, an early request leads away from rpm.
LEMMA EarlyStep == EarlyKept /\ [Next]_vars => EarlyKept'
<1> SUFFICES ASSUME EarlyKept, [Next]_vars
             PROVE  EarlyKept'
  OBVIOUS
<1> USE DEF EarlyKept, codes, fetch, rpm, trust, signing, failure
<1>1. CASE \E signature \in {"good", "none", "unknown", "broken"} : VerifyFile(signature)
  BY <1>1 DEF VerifyFile
<1>2. CASE VerifyWithNewKey
  BY <1>2 DEF VerifyWithNewKey
<1>3. CASE \E digest \in {"good", "none", "unknown", "wrong"} : CheckDigest(digest)
  BY <1>3 DEF CheckDigest
<1>4. CASE \E p \in Packages : InCache(p)
  BY <1>4 DEF InCache, CountUp
<1>5. CASE \E p \in Packages : StartDownload(p)
  BY <1>5 DEF StartDownload
<1>6. CASE DownloadFails
  BY <1>6 DEF DownloadFails
<1>7. CASE PackageKeyRequest
  BY <1>7 DEF PackageKeyRequest
<1>8. CASE \E ok \in BOOLEAN : PkgGpgCheck(ok)
  BY <1>8 DEF PkgGpgCheck, Finish
<1>9. CASE \E answer \in Answers : DownloadProblem(answer)
  BY <1>9 DEF DownloadProblem, Finish, CountDown, Stop
<1>10. CASE BeginConflictCheck
  BY <1>10 DEF BeginConflictCheck
<1>11. CASE ConflictProgress
  BY <1>11 DEF ConflictProgress, Stop
<1>12. CASE \E conflicts \in BOOLEAN : ConflictResult(conflicts)
  <2>1. PICK conflicts \in BOOLEAN : ConflictResult(conflicts)
    BY <1>12
  <2>2. PICK go \in ContinueAfter(conflicts) : pc' = IF go THEN "rpm" ELSE "stopped"
    BY <2>1 DEF ConflictResult
  <2>3. go => ~exitRequested
    BY <2>2, RequestMeansNo
  <2>4. QED
    BY <2>1, <2>2, <2>3 DEF ConflictResult
<1>13. CASE \E s \in Obsolete \cup Packages : StartStep(s)
  BY <1>13 DEF StartStep
<1>14. CASE ProgressAborts
  BY <1>14 DEF ProgressAborts
<1>15. CASE ProcessAdditionalRpmOutputLine
  BY <1>15 DEF ProcessAdditionalRpmOutputLine, SetExitInfoCode
<1>16. CASE \E error \in {"warn", "critical"} : ScriptReport(error)
  BY <1>16 DEF ScriptReport, SetExitInfoCode
<1>17. CASE \E error \in BOOLEAN : StepDone(error)
  BY <1>17 DEF StepDone, FinishStep
<1>18. CASE StepError
  BY <1>18 DEF StepError
<1>19. CASE \E answer \in Answers : StepProblem(answer)
  BY <1>19 DEF StepProblem, Reopen
<1>20. CASE TaskFails
  BY <1>20 DEF TaskFails
<1>21. CASE PosttransOutput
  BY <1>21 DEF PosttransOutput, SetExitInfoCode
<1>22. CASE PatchMessage
  BY <1>22 DEF PatchMessage, Stop
<1>23. CASE \E answer \in Answers : PatchScriptProblem(answer)
  BY <1>23 DEF PatchScriptProblem, Stop
<1>24. CASE Done
  BY <1>24 DEF Done
<1>25. CASE RequestExit
  BY <1>25 DEF RequestExit
<1>26. CASE UNCHANGED vars
  BY <1>26 DEF vars
<1>27. CASE AutoImportKey
  BY <1>27 DEF AutoImportKey
<1>28. QED
  BY <1>1, <1>2, <1>3, <1>4, <1>5, <1>6, <1>7, <1>8, <1>9, <1>10, <1>11, <1>12, <1>13,
       <1>14, <1>15, <1>16, <1>17, <1>18, <1>19, <1>20, <1>21, <1>22, <1>23, <1>24,
       <1>25, <1>26, <1>27
  DEF Next, Verify, Fetch, CheckConflicts, Rpm, StartRemove, StartInstall,
      RemoveDone, InstallDone, RemoveProblem, InstallProblem, Answers

\* The bar is opened and closed together with its operation.
LEMMA BarStep == BarShowsStep /\ [Next]_vars => BarShowsStep'
<1> SUFFICES ASSUME BarShowsStep, [Next]_vars
             PROVE  BarShowsStep'
  OBVIOUS
<1> USE DEF BarShowsStep, codes, fetch, rpm, trust, signing, failure
<1>1. CASE \E signature \in {"good", "none", "unknown", "broken"} : VerifyFile(signature)
  BY <1>1 DEF VerifyFile
<1>2. CASE VerifyWithNewKey
  BY <1>2 DEF VerifyWithNewKey
<1>3. CASE \E digest \in {"good", "none", "unknown", "wrong"} : CheckDigest(digest)
  BY <1>3 DEF CheckDigest
<1>4. CASE \E p \in Packages : InCache(p)
  BY <1>4 DEF InCache, CountUp
<1>5. CASE \E p \in Packages : StartDownload(p)
  BY <1>5 DEF StartDownload
<1>6. CASE DownloadFails
  BY <1>6 DEF DownloadFails
<1>7. CASE PackageKeyRequest
  BY <1>7 DEF PackageKeyRequest
<1>8. CASE \E ok \in BOOLEAN : PkgGpgCheck(ok)
  BY <1>8 DEF PkgGpgCheck, Finish
<1>9. CASE \E answer \in Answers : DownloadProblem(answer)
  BY <1>9 DEF DownloadProblem, Finish, CountDown, Stop
<1>10. CASE BeginConflictCheck
  BY <1>10 DEF BeginConflictCheck
<1>11. CASE ConflictProgress
  BY <1>11 DEF ConflictProgress, Stop
<1>12. CASE \E conflicts \in BOOLEAN : ConflictResult(conflicts)
  BY <1>12 DEF ConflictResult
<1>13. CASE \E s \in Obsolete \cup Packages : StartStep(s)
  BY <1>13 DEF StartStep
<1>14. CASE ProgressAborts
  BY <1>14 DEF ProgressAborts
<1>15. CASE ProcessAdditionalRpmOutputLine
  BY <1>15 DEF ProcessAdditionalRpmOutputLine, SetExitInfoCode
<1>16. CASE \E error \in {"warn", "critical"} : ScriptReport(error)
  BY <1>16 DEF ScriptReport, SetExitInfoCode
<1>17. CASE \E error \in BOOLEAN : StepDone(error)
  BY <1>17 DEF StepDone, FinishStep
<1>18. CASE StepError
  BY <1>18 DEF StepError
<1>19. CASE \E answer \in Answers : StepProblem(answer)
  BY <1>19 DEF StepProblem, Reopen
<1>20. CASE TaskFails
  BY <1>20 DEF TaskFails
<1>21. CASE PosttransOutput
  BY <1>21 DEF PosttransOutput, SetExitInfoCode
<1>22. CASE PatchMessage
  BY <1>22 DEF PatchMessage, Stop
<1>23. CASE \E answer \in Answers : PatchScriptProblem(answer)
  BY <1>23 DEF PatchScriptProblem, Stop
<1>24. CASE Done
  BY <1>24 DEF Done
<1>25. CASE RequestExit
  BY <1>25 DEF RequestExit
<1>26. CASE UNCHANGED vars
  BY <1>26 DEF vars
<1>27. CASE AutoImportKey
  BY <1>27 DEF AutoImportKey
<1>28. QED
  BY <1>1, <1>2, <1>3, <1>4, <1>5, <1>6, <1>7, <1>8, <1>9, <1>10, <1>11, <1>12, <1>13,
       <1>14, <1>15, <1>16, <1>17, <1>18, <1>19, <1>20, <1>21, <1>22, <1>23, <1>24,
       <1>25, <1>26, <1>27
  DEF Next, Verify, Fetch, CheckConflicts, Rpm, StartRemove, StartInstall,
      RemoveDone, InstallDone, RemoveProblem, InstallProblem, Answers

\* The package at hand is not in the cache yet.
LEMMA FetchStep == FetchKept /\ [Next]_vars => FetchKept'
<1> SUFFICES ASSUME FetchKept, [Next]_vars
             PROVE  FetchKept'
  OBVIOUS
<1> USE DEF FetchKept, codes, fetch, rpm, trust, signing, failure
<1>1. CASE \E signature \in {"good", "none", "unknown", "broken"} : VerifyFile(signature)
  BY <1>1 DEF VerifyFile
<1>2. CASE VerifyWithNewKey
  BY <1>2 DEF VerifyWithNewKey
<1>3. CASE \E digest \in {"good", "none", "unknown", "wrong"} : CheckDigest(digest)
  BY <1>3 DEF CheckDigest
<1>4. CASE \E p \in Packages : InCache(p)
  BY <1>4 DEF InCache, CountUp
<1>5. CASE \E p \in Packages : StartDownload(p)
  BY <1>5 DEF StartDownload
<1>6. CASE DownloadFails
  BY <1>6 DEF DownloadFails
<1>7. CASE PackageKeyRequest
  BY <1>7 DEF PackageKeyRequest
<1>8. CASE \E ok \in BOOLEAN : PkgGpgCheck(ok)
  BY <1>8 DEF PkgGpgCheck, Finish
<1>9. CASE \E answer \in Answers : DownloadProblem(answer)
  BY <1>9 DEF DownloadProblem, Finish, CountDown, Stop
<1>10. CASE BeginConflictCheck
  BY <1>10 DEF BeginConflictCheck
<1>11. CASE ConflictProgress
  BY <1>11 DEF ConflictProgress, Stop
<1>12. CASE \E conflicts \in BOOLEAN : ConflictResult(conflicts)
  BY <1>12 DEF ConflictResult
<1>13. CASE \E s \in Obsolete \cup Packages : StartStep(s)
  BY <1>13 DEF StartStep
<1>14. CASE ProgressAborts
  BY <1>14 DEF ProgressAborts
<1>15. CASE ProcessAdditionalRpmOutputLine
  BY <1>15 DEF ProcessAdditionalRpmOutputLine, SetExitInfoCode
<1>16. CASE \E error \in {"warn", "critical"} : ScriptReport(error)
  BY <1>16 DEF ScriptReport, SetExitInfoCode
<1>17. CASE \E error \in BOOLEAN : StepDone(error)
  BY <1>17 DEF StepDone, FinishStep
<1>18. CASE StepError
  BY <1>18 DEF StepError
<1>19. CASE \E answer \in Answers : StepProblem(answer)
  BY <1>19 DEF StepProblem, Reopen
<1>20. CASE TaskFails
  BY <1>20 DEF TaskFails
<1>21. CASE PosttransOutput
  BY <1>21 DEF PosttransOutput, SetExitInfoCode
<1>22. CASE PatchMessage
  BY <1>22 DEF PatchMessage, Stop
<1>23. CASE \E answer \in Answers : PatchScriptProblem(answer)
  BY <1>23 DEF PatchScriptProblem, Stop
<1>24. CASE Done
  BY <1>24 DEF Done
<1>25. CASE RequestExit
  BY <1>25 DEF RequestExit
<1>26. CASE UNCHANGED vars
  BY <1>26 DEF vars
<1>27. CASE AutoImportKey
  BY <1>27 DEF AutoImportKey
<1>28. QED
  BY <1>1, <1>2, <1>3, <1>4, <1>5, <1>6, <1>7, <1>8, <1>9, <1>10, <1>11, <1>12, <1>13,
       <1>14, <1>15, <1>16, <1>17, <1>18, <1>19, <1>20, <1>21, <1>22, <1>23, <1>24,
       <1>25, <1>26, <1>27
  DEF Next, Verify, Fetch, CheckConflicts, Rpm, StartRemove, StartInstall,
      RemoveDone, InstallDone, RemoveProblem, InstallProblem, Answers

\* A key comes in with consent only.
LEMMA KeysStep == GivenOptions /\ AskedKeysNeedConsent /\ [Next]_vars => AskedKeysNeedConsent'
<1> SUFFICES ASSUME GivenOptions /\ AskedKeysNeedConsent, [Next]_vars
             PROVE  AskedKeysNeedConsent'
  OBVIOUS
<1> USE DEF GivenOptions, AskedKeysNeedConsent, codes, fetch, rpm, trust, signing, failure
<1>1. CASE \E signature \in {"good", "none", "unknown", "broken"} : VerifyFile(signature)
  BY <1>1 DEF VerifyFile
<1>2. CASE VerifyWithNewKey
  BY ImportNeedsConsent, <1>2 DEF VerifyWithNewKey
<1>3. CASE \E digest \in {"good", "none", "unknown", "wrong"} : CheckDigest(digest)
  BY <1>3 DEF CheckDigest
<1>4. CASE \E p \in Packages : InCache(p)
  BY <1>4 DEF InCache, CountUp
<1>5. CASE \E p \in Packages : StartDownload(p)
  BY <1>5 DEF StartDownload
<1>6. CASE DownloadFails
  BY <1>6 DEF DownloadFails
<1>7. CASE PackageKeyRequest
  <2>0. PICK c \in AcceptPackageKey(g) :
          (imported' => imported \/ c.trust) /\ letters' = letters \cup {c.letter}
    BY <1>7, Zenon DEF PackageKeyRequest
  <2>1. PICK d \in AcceptKey(g, FALSE) : c = [trust |-> d.trust = "import", letter |-> d.letter]
    BY <2>0 DEF AcceptPackageKey
  <2>2. d.trust = "import" => g.autoImport \/ (g.canImport /\ d.letter = "a")
    BY <2>1, ImportNeedsConsent
  <2>3. c.trust => d.trust = "import"
    BY <2>1
  <2>4. c.letter = d.letter
    BY <2>1
  <2>5. g' = g
    BY <1>7 DEF PackageKeyRequest
  <2>6. QED
    BY <2>0, <2>2, <2>3, <2>4, <2>5
<1>8. CASE \E ok \in BOOLEAN : PkgGpgCheck(ok)
  BY <1>8 DEF PkgGpgCheck, Finish
<1>9. CASE \E answer \in Answers : DownloadProblem(answer)
  BY <1>9 DEF DownloadProblem, Finish, CountDown, Stop
<1>10. CASE BeginConflictCheck
  BY <1>10 DEF BeginConflictCheck
<1>11. CASE ConflictProgress
  BY <1>11 DEF ConflictProgress, Stop
<1>12. CASE \E conflicts \in BOOLEAN : ConflictResult(conflicts)
  BY <1>12 DEF ConflictResult
<1>13. CASE \E s \in Obsolete \cup Packages : StartStep(s)
  BY <1>13 DEF StartStep
<1>14. CASE ProgressAborts
  BY <1>14 DEF ProgressAborts
<1>15. CASE ProcessAdditionalRpmOutputLine
  BY <1>15 DEF ProcessAdditionalRpmOutputLine, SetExitInfoCode
<1>16. CASE \E error \in {"warn", "critical"} : ScriptReport(error)
  BY <1>16 DEF ScriptReport, SetExitInfoCode
<1>17. CASE \E error \in BOOLEAN : StepDone(error)
  BY <1>17 DEF StepDone, FinishStep
<1>18. CASE StepError
  BY <1>18 DEF StepError
<1>19. CASE \E answer \in Answers : StepProblem(answer)
  BY <1>19 DEF StepProblem, Reopen
<1>20. CASE TaskFails
  BY <1>20 DEF TaskFails
<1>21. CASE PosttransOutput
  BY <1>21 DEF PosttransOutput, SetExitInfoCode
<1>22. CASE PatchMessage
  BY <1>22 DEF PatchMessage, Stop
<1>23. CASE \E answer \in Answers : PatchScriptProblem(answer)
  BY <1>23 DEF PatchScriptProblem, Stop
<1>24. CASE Done
  BY <1>24 DEF Done
<1>25. CASE RequestExit
  BY <1>25 DEF RequestExit
<1>26. CASE UNCHANGED vars
  BY <1>26 DEF vars
<1>27. CASE AutoImportKey
  BY <1>27 DEF AutoImportKey
<1>28. QED
  BY <1>1, <1>2, <1>3, <1>4, <1>5, <1>6, <1>7, <1>8, <1>9, <1>10, <1>11, <1>12, <1>13,
       <1>14, <1>15, <1>16, <1>17, <1>18, <1>19, <1>20, <1>21, <1>22, <1>23, <1>24,
       <1>25, <1>26, <1>27
  DEF Next, Verify, Fetch, CheckConflicts, Rpm, StartRemove, StartInstall,
      RemoveDone, InstallDone, RemoveProblem, InstallProblem, Answers

\* Additional keys come in on the word of a trusted key only.
LEMMA SignerStep == GivenOptions /\ Places /\ SignerKept /\ [Next]_vars => SignerKept'
<1> SUFFICES ASSUME GivenOptions /\ Places /\ SignerKept, [Next]_vars
             PROVE  SignerKept'
  OBVIOUS
<1> USE DEF GivenOptions, SignerKept, codes, fetch, rpm, trust, signing, failure
<1>1. CASE \E signature \in {"good", "none", "unknown", "broken"} : VerifyFile(signature)
  BY <1>1 DEF VerifyFile
<1>2. CASE VerifyWithNewKey
  <2>1. PICK d \in AcceptKey(g, TRUE) :
          /\ letters' = letters \cup {d.letter}
          /\ signer' = IF d.trust = "reject" THEN "none" ELSE "new"
          /\ pc = "index" /\ pc' \in {"digest", "stopped"}
          /\ g' = g /\ additional' = additional
    BY <1>2 DEF VerifyWithNewKey
  <2>2. d.trust # "reject" => g.autoImport \/ g.noGpgChecks \/ d.letter \in {"t", "a"}
    BY TrustNeedsWord
  <2>3. signer' = "new" => d.trust # "reject"
    BY <2>1
  <2>4. QED
    BY <2>1, <2>2, <2>3
<1>3. CASE \E digest \in {"good", "none", "unknown", "wrong"} : CheckDigest(digest)
  BY <1>3 DEF CheckDigest
<1>4. CASE \E p \in Packages : InCache(p)
  BY <1>4 DEF InCache, CountUp
<1>5. CASE \E p \in Packages : StartDownload(p)
  BY <1>5 DEF StartDownload
<1>6. CASE DownloadFails
  BY <1>6 DEF DownloadFails
<1>7. CASE PackageKeyRequest
  <2>1. PICK d \in AcceptPackageKey(g) : letters' = letters \cup {d.letter}
    BY <1>7, Zenon DEF PackageKeyRequest
  <2>2. g' = g /\ UNCHANGED signing /\ pc' # "index"
    BY <1>7 DEF PackageKeyRequest
  <2>3. QED
    BY <2>1, <2>2
<1>8. CASE \E ok \in BOOLEAN : PkgGpgCheck(ok)
  BY <1>8 DEF PkgGpgCheck, Finish
<1>9. CASE \E answer \in Answers : DownloadProblem(answer)
  BY <1>9 DEF DownloadProblem, Finish, CountDown, Stop
<1>10. CASE BeginConflictCheck
  BY <1>10 DEF BeginConflictCheck
<1>11. CASE ConflictProgress
  BY <1>11 DEF ConflictProgress, Stop
<1>12. CASE \E conflicts \in BOOLEAN : ConflictResult(conflicts)
  BY <1>12 DEF ConflictResult
<1>13. CASE \E s \in Obsolete \cup Packages : StartStep(s)
  BY <1>13 DEF StartStep
<1>14. CASE ProgressAborts
  BY <1>14 DEF ProgressAborts
<1>15. CASE ProcessAdditionalRpmOutputLine
  BY <1>15 DEF ProcessAdditionalRpmOutputLine, SetExitInfoCode
<1>16. CASE \E error \in {"warn", "critical"} : ScriptReport(error)
  BY <1>16 DEF ScriptReport, SetExitInfoCode
<1>17. CASE \E error \in BOOLEAN : StepDone(error)
  BY <1>17 DEF StepDone, FinishStep
<1>18. CASE StepError
  BY <1>18 DEF StepError
<1>19. CASE \E answer \in Answers : StepProblem(answer)
  BY <1>19 DEF StepProblem, Reopen
<1>20. CASE TaskFails
  BY <1>20 DEF TaskFails
<1>21. CASE PosttransOutput
  BY <1>21 DEF PosttransOutput, SetExitInfoCode
<1>22. CASE PatchMessage
  BY <1>22 DEF PatchMessage, Stop
<1>23. CASE \E answer \in Answers : PatchScriptProblem(answer)
  BY <1>23 DEF PatchScriptProblem, Stop
<1>24. CASE Done
  BY <1>24 DEF Done
<1>25. CASE RequestExit
  BY <1>25 DEF RequestExit
<1>26. CASE UNCHANGED vars
  BY <1>26 DEF vars
<1>27. CASE AutoImportKey
  BY <1>27 DEF AutoImportKey, Places
<1>28. QED
  BY <1>1, <1>2, <1>3, <1>4, <1>5, <1>6, <1>7, <1>8, <1>9, <1>10, <1>11, <1>12, <1>13,
       <1>14, <1>15, <1>16, <1>17, <1>18, <1>19, <1>20, <1>21, <1>22, <1>23, <1>24,
       <1>25, <1>26, <1>27
  DEF Next, Verify, Fetch, CheckConflicts, Rpm, StartRemove, StartInstall,
      RemoveDone, InstallDone, RemoveProblem, InstallProblem, Answers

\* Unverified data is used with consent only.
LEMMA DataStep ==
  GivenOptions /\ FetchKept /\ UnverifiedNeedsConsent /\ [Next]_vars
    => UnverifiedNeedsConsent'
<1> SUFFICES ASSUME GivenOptions /\ FetchKept /\ UnverifiedNeedsConsent, [Next]_vars
             PROVE  UnverifiedNeedsConsent'
  OBVIOUS
<1> USE DEF GivenOptions, FetchKept, UnverifiedNeedsConsent, codes, fetch, rpm, trust, signing, failure
<1>1. CASE \E signature \in {"good", "none", "unknown", "broken"} : VerifyFile(signature)
  BY NobodySaysYes, <1>1
  DEF VerifyFile, AcceptUnsignedFile, AcceptUnknownKey, AcceptVerificationFailed
<1>2. CASE VerifyWithNewKey
  BY <1>2 DEF VerifyWithNewKey
<1>3. CASE \E digest \in {"good", "none", "unknown", "wrong"} : CheckDigest(digest)
  BY NobodySaysYes, <1>3 DEF CheckDigest
<1>4. CASE \E p \in Packages : InCache(p)
  BY <1>4 DEF InCache, CountUp
<1>5. CASE \E p \in Packages : StartDownload(p)
  BY <1>5 DEF StartDownload
<1>6. CASE DownloadFails
  BY <1>6 DEF DownloadFails
<1>7. CASE PackageKeyRequest
  BY <1>7 DEF PackageKeyRequest
<1>8. CASE \E ok \in BOOLEAN : PkgGpgCheck(ok)
  BY <1>8 DEF PkgGpgCheck, Finish
<1>9. CASE \E answer \in Answers : DownloadProblem(answer)
  <2>1. PICK answer \in Answers : DownloadProblem(answer)
    BY <1>9
  <2>2. g.unattended => answer = "abort"
    BY <2>1, NobodySaysYes DEF DownloadProblem
  <2>3. QED
    BY <2>1, <2>2 DEF DownloadProblem, Finish, CountDown, Stop
<1>10. CASE BeginConflictCheck
  BY <1>10 DEF BeginConflictCheck
<1>11. CASE ConflictProgress
  BY <1>11 DEF ConflictProgress, Stop
<1>12. CASE \E conflicts \in BOOLEAN : ConflictResult(conflicts)
  BY <1>12 DEF ConflictResult
<1>13. CASE \E s \in Obsolete \cup Packages : StartStep(s)
  BY <1>13 DEF StartStep
<1>14. CASE ProgressAborts
  BY <1>14 DEF ProgressAborts
<1>15. CASE ProcessAdditionalRpmOutputLine
  BY <1>15 DEF ProcessAdditionalRpmOutputLine, SetExitInfoCode
<1>16. CASE \E error \in {"warn", "critical"} : ScriptReport(error)
  BY <1>16 DEF ScriptReport, SetExitInfoCode
<1>17. CASE \E error \in BOOLEAN : StepDone(error)
  BY <1>17 DEF StepDone, FinishStep
<1>18. CASE StepError
  BY <1>18 DEF StepError
<1>19. CASE \E answer \in Answers : StepProblem(answer)
  BY <1>19 DEF StepProblem, Reopen
<1>20. CASE TaskFails
  BY <1>20 DEF TaskFails
<1>21. CASE PosttransOutput
  BY <1>21 DEF PosttransOutput, SetExitInfoCode
<1>22. CASE PatchMessage
  BY <1>22 DEF PatchMessage, Stop
<1>23. CASE \E answer \in Answers : PatchScriptProblem(answer)
  BY <1>23 DEF PatchScriptProblem, Stop
<1>24. CASE Done
  BY <1>24 DEF Done
<1>25. CASE RequestExit
  BY <1>25 DEF RequestExit
<1>26. CASE UNCHANGED vars
  BY <1>26 DEF vars
<1>27. CASE AutoImportKey
  BY <1>27 DEF AutoImportKey
<1>28. QED
  BY <1>1, <1>2, <1>3, <1>4, <1>5, <1>6, <1>7, <1>8, <1>9, <1>10, <1>11, <1>12, <1>13,
       <1>14, <1>15, <1>16, <1>17, <1>18, <1>19, <1>20, <1>21, <1>22, <1>23, <1>24,
       <1>25, <1>26, <1>27
  DEF Next, Verify, Fetch, CheckConflicts, Rpm, StartRemove, StartInstall,
      RemoveDone, InstallDone, RemoveProblem, InstallProblem, Answers

\* Where things are.
LEMMA PlacesStep == GivenOptions /\ Places /\ [Next]_vars => Places'
<1> SUFFICES ASSUME GivenOptions /\ Places, [Next]_vars
             PROVE  Places'
  OBVIOUS
<1> USE DEF GivenOptions, Places, codes, fetch, rpm, trust, signing, failure,
            EXIT_OK, EXIT_ERR_ZYPP, EXIT_INF_RPM_SCRIPT_FAILED, NoPackage
<1>1. CASE \E signature \in {"good", "none", "unknown", "broken"} : VerifyFile(signature)
  BY <1>1 DEF VerifyFile
<1>2. CASE VerifyWithNewKey
  BY LettersOffered, <1>2 DEF VerifyWithNewKey
<1>3. CASE \E digest \in {"good", "none", "unknown", "wrong"} : CheckDigest(digest)
  BY <1>3 DEF CheckDigest
<1>4. CASE \E p \in Packages : InCache(p)
  BY <1>4 DEF InCache, CountUp
<1>5. CASE \E p \in Packages : StartDownload(p)
  BY <1>5 DEF StartDownload
<1>6. CASE DownloadFails
  BY <1>6 DEF DownloadFails
<1>7. CASE PackageKeyRequest
  <2>0. PICK c \in AcceptPackageKey(g) : letters' = letters \cup {c.letter}
    BY <1>7, Zenon DEF PackageKeyRequest
  <2>1. PICK d \in AcceptKey(g, FALSE) : c = [trust |-> d.trust = "import", letter |-> d.letter]
    BY <2>0 DEF AcceptPackageKey
  <2>2. c.letter \in {"none", "r", "t", "a"}
    BY <2>1, LettersOffered
  <2>3. letters' \subseteq {"none", "r", "t", "a"} /\ pc' \in {"fetching", "problem"}
    BY <1>7, <2>0, <2>2 DEF PackageKeyRequest
  <2>4. QED
    BY <1>7, <2>3 DEF PackageKeyRequest
<1>8. CASE \E ok \in BOOLEAN : PkgGpgCheck(ok)
  BY <1>8 DEF PkgGpgCheck, Finish
<1>9. CASE \E answer \in Answers : DownloadProblem(answer)
  BY <1>9 DEF DownloadProblem, Finish, CountDown, Stop
<1>10. CASE BeginConflictCheck
  BY <1>10 DEF BeginConflictCheck
<1>11. CASE ConflictProgress
  BY <1>11 DEF ConflictProgress, Stop
<1>12. CASE \E conflicts \in BOOLEAN : ConflictResult(conflicts)
  BY <1>12 DEF ConflictResult
<1>13. CASE \E s \in Obsolete \cup Packages : StartStep(s)
  BY <1>13 DEF StartStep
<1>14. CASE ProgressAborts
  BY <1>14 DEF ProgressAborts
<1>15. CASE ProcessAdditionalRpmOutputLine
  BY <1>15 DEF ProcessAdditionalRpmOutputLine, SetExitInfoCode
<1>16. CASE \E error \in {"warn", "critical"} : ScriptReport(error)
  BY <1>16 DEF ScriptReport, SetExitInfoCode
<1>17. CASE \E error \in BOOLEAN : StepDone(error)
  BY <1>17 DEF StepDone, FinishStep
<1>18. CASE StepError
  BY <1>18 DEF StepError
<1>19. CASE \E answer \in Answers : StepProblem(answer)
  BY <1>19 DEF StepProblem, Reopen
<1>20. CASE TaskFails
  BY <1>20 DEF TaskFails
<1>21. CASE PosttransOutput
  BY <1>21 DEF PosttransOutput, SetExitInfoCode
<1>22. CASE PatchMessage
  BY <1>22 DEF PatchMessage, Stop
<1>23. CASE \E answer \in Answers : PatchScriptProblem(answer)
  BY <1>23 DEF PatchScriptProblem, Stop
<1>24. CASE Done
  BY <1>24 DEF Done
<1>25. CASE RequestExit
  BY <1>25 DEF RequestExit
<1>26. CASE UNCHANGED vars
  BY <1>26 DEF vars
<1>27. CASE AutoImportKey
  BY <1>27 DEF AutoImportKey
<1>28. QED
  BY <1>1, <1>2, <1>3, <1>4, <1>5, <1>6, <1>7, <1>8, <1>9, <1>10, <1>11, <1>12, <1>13,
       <1>14, <1>15, <1>16, <1>17, <1>18, <1>19, <1>20, <1>21, <1>22, <1>23, <1>24,
       <1>25, <1>26, <1>27
  DEF Next, Verify, Fetch, CheckConflicts, Rpm, StartRemove, StartInstall,
      RemoveDone, InstallDone, RemoveProblem, InstallProblem, Answers

\* The Boolean variables.
LEMMA FlagsStep == Flags /\ [Next]_vars => Flags'
<1> SUFFICES ASSUME Flags, [Next]_vars
             PROVE  Flags'
  OBVIOUS
<1> USE Zenon DEF Flags, codes, fetch, rpm, trust, signing, failure
<1>1. CASE \E signature \in {"good", "none", "unknown", "broken"} : VerifyFile(signature)
  BY <1>1 DEF VerifyFile
<1>2. CASE VerifyWithNewKey
  BY <1>2 DEF VerifyWithNewKey
<1>3. CASE \E digest \in {"good", "none", "unknown", "wrong"} : CheckDigest(digest)
  BY <1>3 DEF CheckDigest
<1>4. CASE \E p \in Packages : InCache(p)
  BY <1>4 DEF InCache, CountUp
<1>5. CASE \E p \in Packages : StartDownload(p)
  BY <1>5 DEF StartDownload
<1>6. CASE DownloadFails
  BY <1>6 DEF DownloadFails
<1>7. CASE PackageKeyRequest
  BY <1>7 DEF PackageKeyRequest
<1>8. CASE \E ok \in BOOLEAN : PkgGpgCheck(ok)
  BY <1>8 DEF PkgGpgCheck, Finish
<1>9. CASE \E answer \in Answers : DownloadProblem(answer)
  BY <1>9 DEF DownloadProblem, Finish, CountDown, Stop
<1>10. CASE BeginConflictCheck
  BY <1>10 DEF BeginConflictCheck
<1>11. CASE ConflictProgress
  BY <1>11 DEF ConflictProgress, Stop
<1>12. CASE \E conflicts \in BOOLEAN : ConflictResult(conflicts)
  BY <1>12 DEF ConflictResult
<1>13. CASE \E s \in Obsolete \cup Packages : StartStep(s)
  BY <1>13 DEF StartStep
<1>14. CASE ProgressAborts
  BY <1>14 DEF ProgressAborts
<1>15. CASE ProcessAdditionalRpmOutputLine
  BY <1>15 DEF ProcessAdditionalRpmOutputLine, SetExitInfoCode
<1>16. CASE \E error \in {"warn", "critical"} : ScriptReport(error)
  BY <1>16 DEF ScriptReport, SetExitInfoCode
<1>17. CASE \E error \in BOOLEAN : StepDone(error)
  BY <1>17 DEF StepDone, FinishStep
<1>18. CASE StepError
  BY <1>18 DEF StepError
<1>19. CASE \E answer \in Answers : StepProblem(answer)
  BY <1>19 DEF StepProblem, Reopen
<1>20. CASE TaskFails
  BY <1>20 DEF TaskFails
<1>21. CASE PosttransOutput
  BY <1>21 DEF PosttransOutput, SetExitInfoCode
<1>22. CASE PatchMessage
  BY <1>22 DEF PatchMessage, Stop
<1>23. CASE \E answer \in Answers : PatchScriptProblem(answer)
  BY <1>23 DEF PatchScriptProblem, Stop
<1>24. CASE Done
  BY <1>24 DEF Done
<1>25. CASE RequestExit
  <2>1. requestedEarly' \in BOOLEAN
    BY <1>25, SMT DEF RequestExit
  <2>2. exitRequested' \in BOOLEAN
        /\ UNCHANGED <<fetchingRpm, imported, additional, rejectedIndex, stepFailed, scriptFailed>>
    BY <1>25 DEF RequestExit
  <2>3. QED
    BY <2>1, <2>2
<1>26. CASE UNCHANGED vars
  BY <1>26 DEF vars
<1>27. CASE AutoImportKey
  BY <1>27 DEF AutoImportKey
<1>28. QED
  BY <1>1, <1>2, <1>3, <1>4, <1>5, <1>6, <1>7, <1>8, <1>9, <1>10, <1>11, <1>12, <1>13,
       <1>14, <1>15, <1>16, <1>17, <1>18, <1>19, <1>20, <1>21, <1>22, <1>23, <1>24,
       <1>25, <1>26, <1>27
  DEF Next, Verify, Fetch, CheckConflicts, Rpm, StartRemove, StartInstall,
      RemoveDone, InstallDone, RemoveProblem, InstallProblem, Answers

\* The counters, modulo their width.
LEMMA CountersStep == Counters /\ [Next]_vars => Counters'
<1> SUFFICES ASSUME Counters, [Next]_vars
             PROVE  Counters'
  OBVIOUS
<1> USE DEF Counters, codes, fetch, rpm, trust, signing, failure
<1>0. Width \in Nat \ {0} /\ Total \in Nat /\ Total < Width /\ MaxRetries \in Nat
  BY CommitReportsAssumption, FS_CardinalityType DEF Total
<1> USE <1>0
<1>1. CASE \E signature \in {"good", "none", "unknown", "broken"} : VerifyFile(signature)
  BY <1>1 DEF VerifyFile
<1>2. CASE VerifyWithNewKey
  BY <1>2 DEF VerifyWithNewKey
<1>3. CASE \E digest \in {"good", "none", "unknown", "wrong"} : CheckDigest(digest)
  BY <1>3 DEF CheckDigest
<1>4. CASE \E p \in Packages : InCache(p)
  BY <1>4 DEF InCache, CountUp
<1>5. CASE \E p \in Packages : StartDownload(p)
  BY <1>5 DEF StartDownload
<1>6. CASE DownloadFails
  BY <1>6 DEF DownloadFails
<1>7. CASE PackageKeyRequest
  BY <1>7 DEF PackageKeyRequest
<1>8. CASE \E ok \in BOOLEAN : PkgGpgCheck(ok)
  BY <1>8 DEF PkgGpgCheck, Finish
<1>9. CASE \E answer \in Answers : DownloadProblem(answer)
  BY <1>9 DEF DownloadProblem, Finish, CountDown, Stop
<1>10. CASE BeginConflictCheck
  BY <1>10 DEF BeginConflictCheck
<1>11. CASE ConflictProgress
  BY <1>11 DEF ConflictProgress, Stop
<1>12. CASE \E conflicts \in BOOLEAN : ConflictResult(conflicts)
  BY <1>12 DEF ConflictResult
<1>13. CASE \E s \in Obsolete \cup Packages : StartStep(s)
  BY <1>13 DEF StartStep
<1>14. CASE ProgressAborts
  BY <1>14 DEF ProgressAborts
<1>15. CASE ProcessAdditionalRpmOutputLine
  BY <1>15 DEF ProcessAdditionalRpmOutputLine, SetExitInfoCode
<1>16. CASE \E error \in {"warn", "critical"} : ScriptReport(error)
  BY <1>16 DEF ScriptReport, SetExitInfoCode
<1>17. CASE \E error \in BOOLEAN : StepDone(error)
  BY <1>17 DEF StepDone, FinishStep
<1>18. CASE StepError
  BY <1>18 DEF StepError
<1>19. CASE \E answer \in Answers : StepProblem(answer)
  BY <1>19 DEF StepProblem, Reopen
<1>20. CASE TaskFails
  BY <1>20 DEF TaskFails
<1>21. CASE PosttransOutput
  BY <1>21 DEF PosttransOutput, SetExitInfoCode
<1>22. CASE PatchMessage
  BY <1>22 DEF PatchMessage, Stop
<1>23. CASE \E answer \in Answers : PatchScriptProblem(answer)
  BY <1>23 DEF PatchScriptProblem, Stop
<1>24. CASE Done
  BY <1>24 DEF Done
<1>25. CASE RequestExit
  BY <1>25 DEF RequestExit
<1>26. CASE UNCHANGED vars
  BY <1>26 DEF vars
<1>27. CASE AutoImportKey
  BY <1>27 DEF AutoImportKey
<1>28. QED
  BY <1>1, <1>2, <1>3, <1>4, <1>5, <1>6, <1>7, <1>8, <1>9, <1>10, <1>11, <1>12, <1>13,
       <1>14, <1>15, <1>16, <1>17, <1>18, <1>19, <1>20, <1>21, <1>22, <1>23, <1>24,
       <1>25, <1>26, <1>27
  DEF Next, Verify, Fetch, CheckConflicts, Rpm, StartRemove, StartInstall,
      RemoveDone, InstallDone, RemoveProblem, InstallProblem, Answers

-----------------------------------------------------------------------------
(* The theorems.                                                           *)

\* The options stay those the process was started with.
LEMMA OptionsKept == Spec => [](GivenOptions /\ g \in Configs)
<1>1. Init => GivenOptions /\ g \in Configs
  BY CommitReportsAssumption DEF Init, GivenOptions
<1>2. GivenOptions /\ g \in Configs /\ [Next]_vars => (GivenOptions /\ g \in Configs)'
  BY OptionsStep DEF GivenOptions
<1>3. QED
  BY <1>1, <1>2, PTL DEF Spec

\* Type correctness of CommitReports: every variable of zypper's receivers keeps its type, the
\* counters within their width.
THEOREM TypeCorrect == Spec => []TypeOK
<1>1. Init => Places /\ Flags /\ Counters
  <2>1. Width \in Nat \ {0} /\ MaxRetries \in Nat
    BY CommitReportsAssumption, FS_CardinalityType
  <2>2. Init => Places /\ Counters
    BY <2>1 DEF Init, Places, Counters
  <2>3. Init => Flags
    BY Zenon DEF Init, Flags
  <2>4. QED
    BY <2>2, <2>3
<1>2. GivenOptions /\ Places /\ Flags /\ Counters /\ [Next]_vars => Places' /\ Flags' /\ Counters'
  BY PlacesStep, FlagsStep, CountersStep
<1>3. g \in Configs /\ Places /\ Flags /\ Counters => TypeOK
  BY Zenon DEF Places, Flags, Counters, TypeOK
<1>4. QED
  BY <1>1, <1>2, <1>3, OptionsKept, PTL DEF Spec

\* Whatever the order of libzypp's questions (keyring.h, repo.h): no key zypper is asked
\* about without an option or the letter of a user, none of the additional keys without a
\* trusted key that signs for them, no unverified data without an option or an answer.
THEOREM ConsentHolds == Spec => []TrustNeedsConsent
<1>1. Init => AskedKeysNeedConsent /\ UnverifiedNeedsConsent /\ FetchKept /\ Places /\ SignerKept
  BY DEF Init, AskedKeysNeedConsent, UnverifiedNeedsConsent, FetchKept, Places, SignerKept, EXIT_OK
<1>2. GivenOptions /\ AskedKeysNeedConsent /\ UnverifiedNeedsConsent /\ FetchKept /\ Places
        /\ SignerKept /\ [Next]_vars
        => AskedKeysNeedConsent' /\ UnverifiedNeedsConsent' /\ FetchKept' /\ Places' /\ SignerKept'
  <2> SUFFICES ASSUME GivenOptions, AskedKeysNeedConsent, UnverifiedNeedsConsent, FetchKept,
                      Places, SignerKept, [Next]_vars
               PROVE  /\ AskedKeysNeedConsent' /\ UnverifiedNeedsConsent' /\ FetchKept'
                      /\ Places' /\ SignerKept'
    OBVIOUS
  <2>1. AskedKeysNeedConsent' /\ UnverifiedNeedsConsent'
    BY KeysStep, DataStep
  <2>2. FetchKept' /\ Places' /\ SignerKept'
    BY FetchStep, PlacesStep, SignerStep
  <2>3. QED
    BY <2>1, <2>2
<1>3. SignerKept => AdditionalKeysNeedTrust
  BY DEF SignerKept, AdditionalKeysNeedTrust
<1>4. AskedKeysNeedConsent /\ UnverifiedNeedsConsent /\ SignerKept => TrustNeedsConsent
  BY <1>3, Zenon DEF TrustNeedsConsent, KeysNeedConsent
<1>5. QED
  BY <1>1, <1>2, <1>4, OptionsKept, PTL DEF Spec

\* rpm never starts after an exit request that came before it (FindFileConflictstReport).
THEOREM RequestStopsRpm == Spec => []RequestKeepsRpmOut
<1>1. Init => EarlyKept
  BY DEF Init, EarlyKept
<1>2. EarlyKept /\ [Next]_vars => EarlyKept'
  BY EarlyStep
<1>3. EarlyKept => RequestKeepsRpmOut
  BY DEF EarlyKept, RequestKeepsRpmOut
<1>4. QED
  BY <1>1, <1>2, <1>3, PTL DEF Spec

\* A failed operation, task or patch script is in the exit code, and a failed scriptlet in the
\* info code, when the commit ends (rpm.h, job.h).
THEOREM FailuresAreReported == Spec => []FailuresReported
<1>1. Init => CodesKept
  BY DEF Init, CodesKept
<1>2. CodesKept /\ [Next]_vars => CodesKept'
  BY CodesStep
<1>3. CodesKept => FailuresReported
  BY DEF CodesKept, FailuresReported
<1>4. QED
  BY <1>1, <1>2, <1>3, PTL DEF Spec

\* The progress bar belongs to the operation that runs, over problems and retries (rpm.h).
THEOREM BarIsRight == Spec => []BarShowsStep
<1>1. Init => BarShowsStep
  BY DEF Init, BarShowsStep
<1>2. QED
  BY <1>1, BarStep, PTL DEF Spec
=============================================================================
