---------------------------- MODULE CommitReports ----------------------------
(***************************************************************************)
(* The callbacks libzypp makes from a refresh and from a commit, and what  *)
(* zypper's receivers answer and remember (callbacks/keyring.h, repo.h,    *)
(* rpm.h, job.h): the index of a repository is verified, packages are      *)
(* fetched and their signatures checked, file conflicts are looked for,    *)
(* rpm installs and removes, and messages and scripts of patches run.      *)
(* libzypp is the caller: what it reports next is nondeterministic, in the *)
(* order the receivers are written for.  The user may press Ctrl-C at any  *)
(* time.  Packages are downloaded in advance, zypper's default, so that    *)
(* libzypp looks for file conflicts before rpm starts.                     *)
(***************************************************************************)
EXTENDS KeyTrust, FiniteSets

CONSTANTS
  Configs,      \* the options a process may be started with
  Packages,     \* packages to fetch and to install
  Obsolete,     \* installed packages to remove
  Width,        \* an unsigned counter holds 0 .. Width - 1
  MaxRetries    \* bound: how often the user answers "retry"

ASSUME CommitReportsAssumption ==
  /\ Configs \subseteq Options
  /\ IsFiniteSet(Packages) /\ IsFiniteSet(Obsolete)
  /\ Packages \cap Obsolete = {}
  /\ Width \in Nat /\ MaxRetries \in Nat
  /\ Cardinality(Packages) < Width /\ Cardinality(Obsolete) < Width

EXIT_OK == 0
EXIT_ERR_ZYPP == 4
EXIT_INF_RPM_SCRIPT_FAILED == 107

VARIABLES
  g,              \* the options
  exitRequested,  \* Zypper::exitRequested
  exitCode,       \* Application::exitCode
  exitInfo,       \* Zypper::exitInfoCode
  pc,             \* what libzypp is doing
  current, shown, \* commit_pkg_current, and the number last shown to the user
  fetchingRpm,    \* RuntimeData::action_rpm_download
  toFetch, pkg,   \* packages not fetched yet, the package at hand
  cached,         \* packages in the package cache
  toDo, step,     \* rpm operations not started yet, the one that runs
  rpmCurrent,     \* rpm_pkg_current
  bar             \* the progress bar on the screen

\* History variables, read by properties only (retries also bounds).
VARIABLES
  imported,       \* a new key was imported, the letters the user typed for it
  letters,
  signer,         \* who signed the index: nobody to trust, a known key, a new one
  additional,     \* keys the index lists were imported without a question
  unverified,     \* packages in the cache that failed the check of their signature
  ignored,        \* packages whose failed check the user chose to ignore
  rejectedIndex,  \* the index was neither good nor accepted by user or option
  requestedEarly, \* the exit was requested before rpm started
  stepFailed,     \* an rpm operation failed and was not ignored
  scriptFailed,   \* a scriptlet of a package failed
  retries

codes   == <<exitRequested, exitCode, exitInfo>>
fetch   == <<current, shown, fetchingRpm, toFetch, pkg, cached>>
rpm     == <<toDo, step, rpmCurrent, bar>>
signing == <<signer, additional>>
trust   == <<imported, letters, signing, unverified, ignored, rejectedIndex>>
failure == <<stepFailed, scriptFailed>>
vars == <<g, codes, pc, fetch, rpm, trust, requestedEarly, failure, retries>>

NoPackage == "none"

Stop == pc' = "stopped"

-----------------------------------------------------------------------------
(* Trust in the index of the repository (a refresh before the commit).     *)

\* The receivers are asked one question for each thing that is wrong.
VerifyFile(signature) ==
  /\ pc = "index"
  /\ \E ok \in CASE signature = "none"    -> AcceptUnsignedFile(g)
                 [] signature = "unknown" -> AcceptUnknownKey(g)
                 [] signature = "broken"  -> AcceptVerificationFailed(g)
                 [] OTHER -> {TRUE} :
       /\ pc' = IF ok THEN "digest" ELSE "stopped"
       /\ rejectedIndex' = (ok /\ signature # "good" /\ g.unattended /\ ~g.noGpgChecks)
  /\ signer' = IF signature = "good" THEN "known" ELSE "none"
  /\ UNCHANGED <<g, codes, fetch, rpm, imported, letters, additional, unverified, ignored,
                 requestedEarly, failure, retries>>

\* The file is signed with a key that came along with it.
VerifyWithNewKey ==
  /\ pc = "index"
  /\ \E d \in AcceptKey(g, TRUE) :
       /\ pc' = IF d.trust = "reject" THEN "stopped" ELSE "digest"
       /\ imported' = (imported \/ d.trust = "import")
       /\ letters' = letters \cup {d.letter}
       /\ signer' = IF d.trust = "reject" THEN "none" ELSE "new"
  /\ UNCHANGED <<g, codes, fetch, rpm, additional, unverified, ignored, rejectedIndex,
                 requestedEarly, failure, retries>>

\* REPORT_AUTO_IMPORT_KEY: libzypp imports the additional keys listed in metadata that a
\* trusted key has signed.  zypper is told and asked nothing.  Whether a key trusted for
\* the moment is enough is up to libzypp.
AutoImportKey ==
  /\ pc = "digest" /\ signer # "none"
  /\ additional' = TRUE
  /\ UNCHANGED <<g, codes, pc, fetch, rpm, imported, letters, signer, unverified, ignored,
                 rejectedIndex, requestedEarly, failure, retries>>

\* The checksum of a file of the repository.
CheckDigest(digest) ==
  /\ pc = "digest"
  /\ \E ok \in CASE digest = "none"    -> AcceptNoDigest(g)
                 [] digest = "unknown" -> AcceptUnknownDigest(g)
                 [] digest = "wrong"   -> AcceptWrongDigest(g)
                 [] OTHER -> {TRUE} :
       /\ pc' = IF ok THEN "fetch" ELSE "stopped"
       /\ rejectedIndex' = (rejectedIndex \/ (ok /\ digest = "wrong" /\ g.unattended))
  /\ UNCHANGED <<g, codes, fetch, rpm, imported, letters, signing, unverified, ignored,
                 requestedEarly, failure, retries>>

-----------------------------------------------------------------------------
(* Fetching the packages.                                                  *)

Total == Cardinality(Packages)

\* fillsRhs: the counter goes up and is shown.
CountUp ==
  /\ current' = (current + 1) % Width
  /\ shown' = current'

\* Slip: a signed counter.
SlipCountDown == current' = current - 1

\* A package that is tried again is not counted twice.
CountDown == current' = (current + Width - 1) % Width

InCache(p) ==
  /\ pc = "fetch" /\ p \in toFetch
  /\ CountUp
  /\ cached' = cached \cup {p} /\ toFetch' = toFetch \ {p}
  /\ UNCHANGED <<g, codes, pc, fetchingRpm, pkg, rpm, trust, requestedEarly, failure, retries>>

\* DownloadResolvableReport start; a retry starts the same package again.  The
\* last package sets the counter back after it was shown.
StartDownload(p) ==
  /\ \/ pc = "fetch" /\ p \in toFetch
     \/ pc = "again" /\ p = pkg
  /\ shown' = (current + 1) % Width
  /\ current' = IF shown' = Total THEN 0 ELSE shown'
  /\ fetchingRpm' = TRUE
  /\ pkg' = p
  /\ pc' = "fetching"
  /\ UNCHANGED <<g, codes, toFetch, cached, rpm, trust, requestedEarly, failure, retries>>

\* The package could not be got, or its checksum is wrong.
DownloadFails ==
  /\ pc = "fetching"
  /\ pc' = "problem"
  /\ UNCHANGED <<g, codes, fetch, rpm, trust, requestedEarly, failure, retries>>

\* ACCEPT_PACKAGE_KEY_REQUEST: the package is signed with a key not known yet.
PackageKeyRequest ==
  /\ pc = "fetching"
  /\ \E d \in AcceptPackageKey(g) :
       /\ pc' = IF d.trust THEN "fetching" ELSE "problem"
       /\ imported' = (imported \/ d.trust)
       /\ letters' = letters \cup {d.letter}
  /\ UNCHANGED <<g, codes, fetch, rpm, signing, unverified, ignored, rejectedIndex,
                 requestedEarly, failure, retries>>

\* DownloadResolvableReport finish
Finish ==
  /\ pc' = "fetch"
  /\ fetchingRpm' = FALSE
  /\ cached' = cached \cup {pkg} /\ toFetch' = toFetch \ {pkg}
  /\ pkg' = NoPackage
  /\ UNCHANGED <<current, shown>>

\* Slip: a failed check is reported and the package taken.
SlipPkgGpgCheck(ok) ==
  /\ pc = "fetching"
  /\ Finish
  /\ unverified' = IF ok THEN unverified ELSE unverified \cup {pkg}
  /\ UNCHANGED <<g, codes, rpm, imported, letters, signing, ignored, rejectedIndex,
                 requestedEarly, failure, retries>>

\* pkgGpgCheck: accepted despite the error, or the problem is put to the user.
PkgGpgCheck(ok) ==
  /\ pc = "fetching"
  /\ unverified' = IF ok THEN unverified ELSE unverified \cup {pkg}
  /\ IF ok \/ g.noGpgChecks THEN Finish
     ELSE pc' = "sigProblem" /\ UNCHANGED fetch
  /\ UNCHANGED <<g, codes, rpm, imported, letters, signing, ignored, rejectedIndex,
                 requestedEarly, failure, retries>>

\* DownloadResolvableReport problem, for a failed download and a failed check.  A
\* download that is ignored is skipped, a check that is ignored is passed.
DownloadProblem(answer) ==
  /\ pc \in {"problem", "sigProblem"} /\ answer \in AriAnswers(g)
  /\ \/ /\ answer = "retry" /\ retries < MaxRetries
        /\ retries' = retries + 1
        /\ CountDown
        /\ pc' = "again"
        /\ unverified' = unverified \ {pkg}
        /\ UNCHANGED <<shown, fetchingRpm, toFetch, pkg, cached, ignored>>
     \/ /\ answer = "ignore"
        /\ IF pc = "sigProblem"
           THEN Finish /\ ignored' = ignored \cup {pkg}
           ELSE /\ pc' = "fetch" /\ fetchingRpm' = FALSE /\ pkg' = NoPackage
                /\ toFetch' = toFetch \ {pkg}
                /\ UNCHANGED <<current, shown, cached, ignored>>
        /\ UNCHANGED <<retries, unverified>>
     \/ /\ answer = "abort"
        /\ Stop
        /\ fetchingRpm' = FALSE
        /\ UNCHANGED <<current, shown, toFetch, pkg, cached, ignored, retries, unverified>>
  /\ UNCHANGED <<g, codes, rpm, imported, letters, signing, rejectedIndex, requestedEarly,
                 failure>>

-----------------------------------------------------------------------------
(* The check for file conflicts.                                           *)

BeginConflictCheck ==
  /\ pc = "fetch" /\ toFetch = {}
  /\ pc' = "conflicts"
  /\ bar' = "conflicts"
  /\ toDo' = Obsolete \cup cached
  /\ UNCHANGED <<g, codes, fetch, step, rpmCurrent, trust, requestedEarly, failure, retries>>

\* FindFileConflictstReport progress
ConflictProgress ==
  /\ pc = "conflicts" /\ exitRequested
  /\ Stop
  /\ bar' = "none"
  /\ UNCHANGED <<g, codes, fetch, toDo, step, rpmCurrent, trust, requestedEarly, failure, retries>>

\* Slip: after the dialog nobody looks at the exit request any more.
SlipContinueAfter(conflicts) ==
  IF conflicts /\ ~g.replaceFiles THEN BoolAnswers(g, FALSE)
  ELSE {TRUE}

\* Whether to go on after the check: an exit request counts as a no.
ContinueAfter(conflicts) ==
  IF conflicts /\ ~g.replaceFiles THEN { yes /\ ~exitRequested : yes \in BoolAnswers(g, FALSE) }
  ELSE {~exitRequested}

\* FindFileConflictstReport result
ConflictResult(conflicts) ==
  /\ pc = "conflicts"
  /\ bar' = "none"
  /\ \E go \in ContinueAfter(conflicts) : pc' = IF go THEN "rpm" ELSE "stopped"
  /\ UNCHANGED <<g, codes, fetch, toDo, step, rpmCurrent, trust, requestedEarly, failure, retries>>

-----------------------------------------------------------------------------
(* rpm, one operation after the other.                                     *)

SetExitInfoCode(code) == exitInfo' = IF exitInfo = EXIT_OK THEN code ELSE exitInfo

\* start of an operation: it is counted and a progress bar opened.
StartStep(s) ==
  /\ pc = "rpm" /\ s \in toDo
  /\ toDo' = toDo \ {s} /\ step' = s
  /\ rpmCurrent' = (rpmCurrent + 1) % Width
  /\ bar' = "step"
  /\ pc' = "step"
  /\ UNCHANGED <<g, codes, fetch, trust, requestedEarly, failure, retries>>

StartRemove(s) == s \in Obsolete /\ StartStep(s)

StartInstall(s) == s \in Packages /\ StartStep(s)

\* progress of an operation on its own returns FALSE after an exit request, and
\* the operation fails.
ProgressAborts ==
  /\ pc = "step" /\ ~g.singleTrans /\ exitRequested
  /\ pc' = "stepProblem"
  /\ bar' = "none"
  /\ UNCHANGED <<g, codes, fetch, toDo, step, rpmCurrent, trust, requestedEarly, failure, retries>>

\* A line of rpm's output tells that a scriptlet failed.
ProcessAdditionalRpmOutputLine ==
  /\ pc = "step" /\ ~g.singleTrans
  /\ SetExitInfoCode(EXIT_INF_RPM_SCRIPT_FAILED)
  /\ scriptFailed' = TRUE
  /\ UNCHANGED <<g, exitRequested, exitCode, pc, fetch, rpm, trust, requestedEarly,
                 stepFailed, retries>>

\* CommitScriptReportSA: a script that only warns sets the code, a critical one
\* makes the operation fail.
ScriptReport(error) ==
  /\ pc = "step" /\ g.singleTrans
  /\ \/ /\ error = "warn"
        /\ SetExitInfoCode(EXIT_INF_RPM_SCRIPT_FAILED)
        /\ scriptFailed' = TRUE
        /\ UNCHANGED pc
     \/ /\ error = "critical"
        /\ pc' = "stepFails"
        /\ UNCHANGED <<exitInfo, scriptFailed>>
  /\ UNCHANGED <<g, exitRequested, exitCode, fetch, rpm, trust, requestedEarly,
                 stepFailed, retries>>

\* finish of an operation, and of the tasks rpm does around them: an error sets
\* the exit code.
FinishStep(error) ==
  /\ bar' = "none"
  /\ step' = NoPackage
  /\ exitCode' = IF error THEN EXIT_ERR_ZYPP ELSE exitCode
  /\ stepFailed' = (stepFailed \/ error)

\* Slip: only a problem the user was asked about sets the code.
SlipStepDone(error) ==
  /\ pc = IF error THEN "stepFails" ELSE "step"
  /\ bar' = "none" /\ step' = NoPackage /\ UNCHANGED exitCode
  /\ stepFailed' = (stepFailed \/ error)
  /\ pc' = IF error /\ ~g.singleTrans THEN "stopped" ELSE "rpm"
  /\ UNCHANGED <<g, exitRequested, exitInfo, fetch, toDo, rpmCurrent, trust, requestedEarly,
                 scriptFailed, retries>>

\* In a single transaction rpm goes on with the others.
StepDone(error) ==
  /\ pc = IF error THEN "stepFails" ELSE "step"
  /\ FinishStep(error)
  /\ pc' = IF error /\ ~g.singleTrans THEN "stopped" ELSE "rpm"
  /\ UNCHANGED <<g, exitRequested, exitInfo, fetch, toDo, rpmCurrent, trust, requestedEarly,
                 scriptFailed, retries>>

\* rpm reports an error: the bar is closed before anybody is asked; a single
\* transaction asks nobody.
StepError ==
  /\ pc = "step"
  /\ pc' = IF g.singleTrans THEN "stepFails" ELSE "stepProblem"
  /\ bar' = IF g.singleTrans THEN bar ELSE "none"
  /\ UNCHANGED <<g, codes, fetch, toDo, step, rpmCurrent, trust, requestedEarly, failure, retries>>

\* Slip: the bar is not shown again for a retry.
SlipReopen == UNCHANGED bar

\* showProgress, for a retry
Reopen == bar' = "step"

\* problem of an operation: abort, retry with a new bar, or ignore.
StepProblem(answer) ==
  /\ pc = "stepProblem" /\ answer \in AriAnswers(g)
  /\ \/ /\ answer = "retry" /\ retries < MaxRetries
        /\ retries' = retries + 1
        /\ pc' = "step" /\ Reopen
        /\ UNCHANGED step
     \/ /\ answer = "abort"
        /\ pc' = "stepFails"
        /\ UNCHANGED <<bar, step, retries>>
     \/ /\ answer = "ignore"
        /\ pc' = "rpm" /\ step' = NoPackage
        /\ UNCHANGED <<bar, retries>>
  /\ UNCHANGED <<g, codes, fetch, toDo, rpmCurrent, trust, requestedEarly, failure>>

RemoveProblem(answer) == step \in Obsolete /\ StepProblem(answer)

InstallProblem(answer) == step \in Packages /\ StepProblem(answer)

RemoveDone(error) == step \in Obsolete /\ StepDone(error)

InstallDone(error) == step \in Packages /\ StepDone(error)

\* TransactionReportSA and CleanupPackageReportSA: preparing and cleaning up may
\* fail as well.
TaskFails ==
  /\ pc = "rpm" /\ g.singleTrans
  /\ exitCode' = EXIT_ERR_ZYPP
  /\ stepFailed' = TRUE
  /\ UNCHANGED <<g, exitRequested, exitInfo, pc, fetch, rpm, trust, requestedEarly,
                 scriptFailed, retries>>

\* JobReport message: the output of %posttrans scripts is searched as rpm's is.
PosttransOutput ==
  /\ pc = "rpm" /\ toDo = {}
  /\ SetExitInfoCode(EXIT_INF_RPM_SCRIPT_FAILED)
  /\ scriptFailed' = TRUE
  /\ UNCHANGED <<g, exitRequested, exitCode, pc, fetch, rpm, trust, requestedEarly,
                 stepFailed, retries>>

\* PatchMessageReport show
PatchMessage ==
  /\ pc = "rpm" /\ toDo = {}
  /\ \E go \in BoolAnswers(g, TRUE) : pc' = IF go THEN "rpm" ELSE "stopped"
  /\ UNCHANGED <<g, codes, fetch, rpm, trust, requestedEarly, failure, retries>>

\* PatchScriptReport: progress aborts the script after an exit request, which is
\* a problem like any other; an abort sets the exit code.
PatchScriptProblem(answer) ==
  /\ pc = "rpm" /\ toDo = {} /\ answer \in AriAnswers(g)
  /\ \/ /\ answer = "retry" /\ retries < MaxRetries
        /\ retries' = retries + 1
        /\ UNCHANGED <<pc, exitCode, stepFailed>>
     \/ /\ answer = "abort"
        /\ exitCode' = EXIT_ERR_ZYPP /\ stepFailed' = TRUE
        /\ Stop
        /\ UNCHANGED retries
     \/ /\ answer = "ignore"
        /\ UNCHANGED <<pc, retries, exitCode, stepFailed>>
  /\ UNCHANGED <<g, exitRequested, exitInfo, fetch, rpm, trust, requestedEarly, scriptFailed>>

Done ==
  /\ pc = "rpm" /\ toDo = {}
  /\ pc' = "done"
  /\ UNCHANGED <<g, codes, fetch, rpm, trust, requestedEarly, failure, retries>>

\* Ctrl-C
RequestExit ==
  /\ pc \notin {"done", "stopped"} /\ ~exitRequested
  /\ exitRequested' = TRUE
  /\ requestedEarly' = (pc \in {"index", "digest", "fetch", "again", "fetching", "problem",
                               "sigProblem", "conflicts"})
  /\ UNCHANGED <<g, exitCode, exitInfo, pc, fetch, rpm, trust, failure, retries>>

-----------------------------------------------------------------------------
Init ==
  /\ g \in Configs
  /\ pc = "index"
  /\ exitRequested = FALSE /\ exitCode = EXIT_OK /\ exitInfo = EXIT_OK
  /\ current = 0 /\ shown = 0 /\ fetchingRpm = FALSE
  /\ toFetch = Packages /\ pkg = NoPackage /\ cached = {}
  /\ toDo = {} /\ step = NoPackage /\ rpmCurrent = 0 /\ bar = "none"
  /\ imported = FALSE /\ letters = {} /\ signer = "none" /\ additional = FALSE
  /\ unverified = {} /\ ignored = {}
  /\ rejectedIndex = FALSE /\ requestedEarly = FALSE
  /\ stepFailed = FALSE /\ scriptFailed = FALSE /\ retries = 0

Verify ==
  \/ \E signature \in {"good", "none", "unknown", "broken"} : VerifyFile(signature)
  \/ VerifyWithNewKey
  \/ AutoImportKey
  \/ \E digest \in {"good", "none", "unknown", "wrong"} : CheckDigest(digest)

Fetch ==
  \/ \E p \in Packages : InCache(p) \/ StartDownload(p)
  \/ DownloadFails
  \/ PackageKeyRequest
  \/ \E ok \in BOOLEAN : PkgGpgCheck(ok)
  \/ \E answer \in {"abort", "retry", "ignore"} : DownloadProblem(answer)

CheckConflicts ==
  \/ BeginConflictCheck
  \/ ConflictProgress
  \/ \E conflicts \in BOOLEAN : ConflictResult(conflicts)

Rpm ==
  \/ \E s \in Obsolete : StartRemove(s)
  \/ \E s \in Packages : StartInstall(s)
  \/ ProgressAborts
  \/ ProcessAdditionalRpmOutputLine
  \/ \E error \in {"warn", "critical"} : ScriptReport(error)
  \/ \E error \in BOOLEAN : RemoveDone(error) \/ InstallDone(error)
  \/ StepError
  \/ \E answer \in {"abort", "retry", "ignore"} : RemoveProblem(answer) \/ InstallProblem(answer)
  \/ TaskFails
  \/ PosttransOutput
  \/ PatchMessage
  \/ \E answer \in {"abort", "retry", "ignore"} : PatchScriptProblem(answer)
  \/ Done

Next == Verify \/ Fetch \/ CheckConflicts \/ Rpm \/ RequestExit

Spec == Init /\ [][Next]_vars

-----------------------------------------------------------------------------
(* Properties                                                              *)

TypeOK ==
  /\ g \in Configs
  /\ pc \in {"index", "digest", "fetch", "again", "fetching", "problem", "sigProblem",
             "conflicts", "rpm", "step", "stepFails", "stepProblem", "stopped", "done"}
  /\ exitRequested \in BOOLEAN
  /\ exitCode \in {EXIT_OK, EXIT_ERR_ZYPP}
  /\ exitInfo \in {EXIT_OK, EXIT_INF_RPM_SCRIPT_FAILED}
  /\ current \in 0 .. Width - 1 /\ shown \in 0 .. Width - 1
  /\ fetchingRpm \in BOOLEAN
  /\ toFetch \subseteq Packages /\ cached \subseteq Packages
  /\ pkg \in Packages \cup {NoPackage}
  /\ toDo \subseteq Obsolete \cup Packages
  /\ step \in Obsolete \cup Packages \cup {NoPackage}
  /\ rpmCurrent \in 0 .. Width - 1
  /\ bar \in {"none", "conflicts", "step"}
  /\ imported \in BOOLEAN /\ letters \subseteq {"none", "r", "t", "a"}
  /\ signer \in {"none", "known", "new"} /\ additional \in BOOLEAN
  /\ unverified \subseteq Packages /\ ignored \subseteq Packages
  /\ rejectedIndex \in BOOLEAN /\ requestedEarly \in BOOLEAN
  /\ stepFailed \in BOOLEAN /\ scriptFailed \in BOOLEAN
  /\ retries \in 0 .. MaxRetries

\* A key that zypper is asked about gets into the rpm database only with
\* --gpg-auto-import-keys, or when a user who may write there typed the letter for it:
\* whatever list of letters was shown, and never because of --no-gpg-checks.
AskedKeysNeedConsent ==
  imported => g.autoImport \/ (g.canImport /\ "a" \in letters)

\* Additional keys get there with nobody asked and without that option, but only on the
\* word of a key that was trusted before, or that is new and was accepted by an option
\* or by a letter the user typed: for an unattended zypper without options, by a key it
\* already had.
AdditionalKeysNeedTrust ==
  additional =>
    \/ signer = "known"
    \/ signer = "new" /\ (g.autoImport \/ g.noGpgChecks \/ {"t", "a"} \cap letters # {})

KeysNeedConsent == AskedKeysNeedConsent /\ AdditionalKeysNeedTrust

\* A package whose signature check failed, and an index with a wrong checksum or
\* signature, are used only with --no-gpg-checks or after an answer of the user: an
\* unattended zypper takes neither, and no option makes it take a wrong checksum.
UnverifiedNeedsConsent ==
  /\ ~g.noGpgChecks => unverified \cap cached \subseteq ignored
  /\ g.unattended => ignored = {} /\ ~rejectedIndex

\* No trust without consent, of a key or of data, in any order of the questions; the
\* additional keys of a repository come in by the trust in the key that signs for them.
TrustNeedsConsent == KeysNeedConsent /\ UnverifiedNeedsConsent

\* An exit requested before rpm starts keeps rpm from starting: also when it comes
\* while the dialog about file conflicts is open and the user answers yes.
RequestKeepsRpmOut ==
  requestedEarly => pc \notin {"rpm", "step", "stepFails", "stepProblem", "done"}

\* A commit that ends normally although an operation, a task around it or a script
\* of a patch failed has set the exit code, and one with a failed scriptlet has the
\* code 107 to report if nothing else went wrong.
FailuresReported ==
  pc = "done" => /\ stepFailed => exitCode # EXIT_OK
                 /\ scriptFailed => exitInfo # EXIT_OK

\* The progress bar is on the screen exactly while its operation runs: it is gone when
\* the user is asked about a problem, comes back for a retry, and none is left behind.
BarShowsStep ==
  /\ pc = "step" => bar = "step"
  /\ pc = "conflicts" <=> bar = "conflicts"
  /\ bar = "step" => pc \in {"step", "stepFails"}
=============================================================================
