---------------------------- MODULE PatchListsProofs ----------------------------
(***************************************************************************)
(* Proofs about PatchLists, together with Downloads, for any pool, any     *)
(* locks and any command lines: every state has its type, the lists agree  *)
(* with each other and with what patch and update do, two rounds of patch  *)
(* are enough, a lock goes only as it is named and holds until then, and   *)
(* the files fetched are those wanted.                                     *)
(***************************************************************************)
EXTENDS Downloads, FiniteSetTheorems, TLAPS

\* A step after which the patches and packages look the same as before.
Quiet ==
  /\ UNCHANGED <<scene, status, installed, locks, shell>>
  /\ LoadTarget \/ held' = held

\* The steps that are no command of PatchLists.
ShiftsOnly == ShellSwitch \/ Publish \/ Reboot \/ \E errand \in scene.errands : Errand(errand)

\* What patch without options would still install.
Left(p) == Applicable(p) /\ ~Unwanted(p) /\ ~Optional(p)

\* One round leaves nothing for the update stack, two rounds leave nothing.
RoundsKept ==
  /\ rounds \in Nat
  /\ rounds >= 1 => \A p \in Patches : Left(p) => ~Patch(p).stack
  /\ rounds >= 2 => \A p \in Patches : ~Left(p)

\* What patch-check counts, and the two things lists show.
Checked(line) == { p \in Patches : Applicable(p) /\ (line.stackOnly => Patch(p).stack) }
Needed(p, line) ==
  p \in Patches /\ PatchStatus(p, Fixup(line, OptionalOf(line))) = "needed"
CheckStats(line) == Stats(Checked(line), OptionalOf(line))
ListedFirst(line) == PatchUpdates(line, Fixup(line, OptionalOf(line))).first

\* The last report still describes the system.
CheckKept == report.cmd = "patch-check" =>
  /\ report.stats = CheckStats(report.line)
  /\ report.code = PatchCheckCode(report.stats)
FirstKept == report.cmd = "list-patches" /\ report.line.issues = {} =>
  report.first = ListedFirst(report.line)
PackagesKept == report.cmd = "list-updates" /\ report.line.kinds = {"package"} =>
  report.packages = OtherUpdates(report.line)

-----------------------------------------------------------------------------
(* What a quiet step leaves as it is.                                      *)

\* The locks the target is loaded with.
LEMMA SameLocks ==
  ASSUME UNCHANGED <<locks, shell>>, LoadTarget \/ held' = held
  PROVE  LoadedLocks' = LoadedLocks
<1>1. CASE held' = held
  BY <1>1 DEF LoadedLocks, HeldLocks, Kept
<1>2. CASE LoadTarget /\ shell
  <2>1. held' = <<LoadedLocks>> /\ shell'
    BY <1>2 DEF LoadTarget
  <2>2. HeldLocks' = <<LoadedLocks>>
    BY <2>1 DEF HeldLocks, Kept
  <2>3. QED
    BY <2>2 DEF LoadedLocks
<1>3. CASE LoadTarget /\ ~shell
  BY <1>3 DEF LoadTarget, LoadedLocks, HeldLocks, Kept
<1>4. QED
  BY <1>1, <1>2, <1>3

\* A patch.
LEMMA SamePatch ==
  ASSUME Quiet, NEW p
  PROVE  /\ Applicable(p)' <=> Applicable(p)
         /\ Unwanted(p)' <=> Unwanted(p)
         /\ Optional(p)' <=> Optional(p)
         /\ Patch(p)' = Patch(p)
         /\ Left(p)' <=> Left(p)
<1>1. LoadedLocks' = LoadedLocks
  BY SameLocks DEF Quiet
<1>2. Patch(p)' = Patch(p) /\ (Applicable(p)' <=> Applicable(p))
  BY DEF Quiet, Patch, Applicable
<1>3. Unwanted(p)' <=> Unwanted(p)
  BY <1>1, <1>2 DEF Unwanted, Locked
<1>4. QED
  BY <1>2, <1>3 DEF Optional, Left

\* patch-check would count the same.
LEMMA SameCheck ==
  ASSUME Quiet, NEW line
  PROVE  CheckStats(line)' = CheckStats(line)
<1>1. Checked(line)' = Checked(line)
  BY SamePatch DEF Checked
<1>2. QED
  BY <1>1, SamePatch DEF CheckStats, Stats

\* The lists would show the same first.
LEMMA SameFirst ==
  ASSUME Quiet, NEW line
  PROVE  ListedFirst(line)' = ListedFirst(line)
BY SamePatch DEF ListedFirst, PatchUpdates, PatchTables, XmlLists, CliMatch, NeededForStack

\* list-updates would show the same.
LEMMA SameUpdates ==
  ASSUME Quiet, NEW line
  PROVE  OtherUpdates(line)' = OtherUpdates(line)
<1>1. scene' = scene /\ installed' = installed /\ LoadedLocks' = LoadedLocks
  BY SameLocks DEF Quiet
<1>2. \A n : /\ Picked(n)' <=> Picked(n)
             /\ IsInstalled(n)' <=> IsInstalled(n)
             /\ Highest(n)' = Highest(n)
  BY <1>1 DEF Picked, PackageLocked, IsInstalled, Highest
<1>3. FindUpdates(line.all)' = FindUpdates(line.all)
  BY <1>1, <1>2 DEF FindUpdates
<1>4. QED
  BY <1>1, <1>3 DEF OtherUpdates

-----------------------------------------------------------------------------
(* What the commands report.                                               *)

Shows == {"patch-check", "list-patches", "list-updates"}

\* patch-check reports its counts and the code for them.
LEMMA CheckReports ==
  ASSUME NEW line, PatchCheck(line)
  PROVE  /\ Quiet /\ UNCHANGED rounds
         /\ report'.cmd = "patch-check" /\ report'.line = line
         /\ report'.stats = CheckStats(line)
         /\ report'.code = PatchCheckCode(CheckStats(line))
<1>1. Excluding(line) = OptionalOf(line)
  BY DEF PatchCheck, Starts, Excluding
<1>2. QED
  BY <1>1 DEF PatchCheck, Starts, LooksOnly, Quiet, CheckStats, Checked, Report

\* list-patches reports the two or three lists, and in them what is needed.
LEMMA ListReports ==
  ASSUME NEW line, ListPatches(line)
  PROVE  /\ Quiet /\ UNCHANGED rounds
         /\ report'.cmd = "list-patches" /\ report'.line = line /\ line.issues = {}
         /\ \E found : /\ found = PatchUpdates(line, Fixup(line, OptionalOf(line)))
                       /\ report'.first = found.first /\ report'.rest = found.rest
                       /\ report'.blocked = found.blocked /\ report'.stats = found.stats
                       /\ report'.needed = { p \in found.first \cup found.rest \cup found.blocked :
                                               Needed(p, line) }
<1>1. Excluding(line) = Fixup(line, OptionalOf(line))
  BY DEF ListPatches, Starts, Excluding
<1>2. QED
  BY <1>1 DEF ListPatches, Lists, Starts, LooksOnly, Quiet, Report, Needed

\* list-patches by issue is no plain list.
LEMMA IssueReports ==
  ASSUME NEW line, ListPatchesByIssue(line)
  PROVE  /\ Quiet /\ UNCHANGED rounds
         /\ report'.cmd = "list-patches" /\ report'.line = line /\ line.issues # {}
BY DEF ListPatchesByIssue, Lists, Starts, LooksOnly, Quiet, Report

\* list-updates of packages reports the updates left by the filter.
LEMMA UpdateReports ==
  ASSUME NEW line, ListUpdates(line)
  PROVE  /\ Quiet /\ UNCHANGED rounds
         /\ report'.cmd = "list-updates" /\ report'.line = line
         /\ line.kinds = {"package"} => report'.packages = OtherUpdates(line)
BY DEF ListUpdates, Lists, Starts, LooksOnly, Quiet, Report

\* The commands that install patches or packages.
LEMMA InstallReports ==
  ASSUME NEW line, NEW patches, NEW packages, NEW notFound,
         SolveAndCommit(line, patches, packages, notFound)
  PROVE  /\ report'.cmd = line.cmd /\ report'.line = line
         /\ report'.marked = patches /\ report'.packages = packages
BY DEF SolveAndCommit, Report

\* patch reports what it marked.
LEMMA PatchReports ==
  ASSUME NEW line, PatchCmd(line)
  PROVE  /\ report'.cmd = "patch" /\ report'.line = line
         /\ report'.marked = Marked(line, Fixup(line, OptionalOf(line)) /\ ~line.withUpdate)
<1>1. line.cmd = "patch" /\ Excluding(line) = Fixup(line, OptionalOf(line))
  BY DEF PatchCmd, Starts, Excluding
<1>2. QED
  BY <1>1, InstallReports DEF PatchCmd

\* The other commands show no list; those that install say what.
LEMMA OtherReports ==
  ASSUME NEW line,
         \/ PatchCmd(line) \/ PatchByIssue(line) \/ UpdateCmd(line) \/ NeedsRebooting(line)
         \/ AddLocksCmd(line) \/ RemoveLocksCmd(line) \/ CleanLocksCmd(line) \/ ListLocksCmd(line)
  PROVE  /\ report'.cmd \notin Shows
         /\ report'.cmd = "patch" => PatchCmd(line) \/ (PatchByIssue(line) /\ report'.line.issues # {})
         /\ report'.cmd = "update" =>
              /\ report'.line = line
              /\ line.kinds = {"package"} => report'.packages = FindUpdates(FALSE)
<1>1. CASE PatchByIssue(line)
  BY <1>1, InstallReports DEF PatchByIssue, Starts, Shows
<1>2. CASE UpdateCmd(line)
  BY <1>2, InstallReports DEF UpdateCmd, Starts, Shows
<1>3. CASE PatchCmd(line)
  BY <1>3, InstallReports DEF PatchCmd, Starts, Shows
<1>4. CASE NeedsRebooting(line)
  BY <1>4 DEF NeedsRebooting, Starts, Shows, Report
<1>5. CASE AddLocksCmd(line) \/ RemoveLocksCmd(line) \/ CleanLocksCmd(line)
  BY <1>5 DEF AddLocksCmd, RemoveLocksCmd, CleanLocksCmd, Edits, Starts, Shows, Report
<1>6. CASE ListLocksCmd(line)
  BY <1>6 DEF ListLocksCmd, Starts, Shows, Report
<1>7. QED
  BY <1>1, <1>2, <1>3, <1>4, <1>5, <1>6

-----------------------------------------------------------------------------
(* The lists agree.                                                        *)

ListsKept == CheckKept /\ FirstKept /\ PackagesKept

\* The steps that are no command of PatchLists report nothing.
LEMMA SilentSteps ==
  ASSUME ShiftsOnly
  PROVE  report'.cmd = "none"
<1>1. CASE ShellSwitch \/ Publish \/ Reboot
  <2>1. report' = Report
    BY <1>1, Zenon DEF ShellSwitch, Publish, Reboot
  <2>2. QED
    BY <2>1 DEF Report
<1>2. CASE \E errand \in scene.errands : Errand(errand)
  <2>1. PICK errand \in scene.errands : Errand(errand)
    BY <1>2
  <2>2. CASE DownloadCmd(errand)
    <3>1. Fetches(errand, "download")
      BY <2>2, Zenon DEF DownloadCmd
    <3>2. QED
      BY <3>1 DEF Fetches, Report
  <2>3. CASE SourceDownloadCmd(errand)
    <3>1. Fetches(errand, "source-download")
      BY <2>3, Zenon DEF SourceDownloadCmd
    <3>2. QED
      BY <3>1 DEF Fetches, Report
  <2>4. QED
    BY <2>1, <2>2, <2>3 DEF Errand
<1>3. QED
  BY <1>1, <1>2 DEF ShiftsOnly

\* A report stays true until the next one: nothing happens in between.
LEMMA ListsStep == ListsKept /\ [DownloadsNext]_allVars => ListsKept'
<1> SUFFICES ASSUME ListsKept, [DownloadsNext]_allVars
             PROVE  ListsKept'
  OBVIOUS
<1> USE DEF ListsKept, CheckKept, FirstKept, PackagesKept
<1>1. CASE UNCHANGED allVars
  <2>1. Quiet /\ report' = report
    BY <1>1 DEF allVars, vars, system, Quiet
  <2>2. QED
    BY <2>1, SameCheck, SameFirst, SameUpdates
<1>2. CASE \E line \in scene.lines : PatchCheck(line)
  BY <1>2, CheckReports, SameCheck
<1>3. CASE \E line \in scene.lines : ListPatches(line)
  BY <1>3, ListReports, SameFirst DEF ListedFirst
<1>4. CASE \E line \in scene.lines : ListPatchesByIssue(line)
  BY <1>4, IssueReports
<1>5. CASE \E line \in scene.lines : ListUpdates(line)
  BY <1>5, UpdateReports, SameUpdates
<1>6. CASE \E line \in scene.lines :
             \/ PatchCmd(line) \/ PatchByIssue(line) \/ UpdateCmd(line) \/ NeedsRebooting(line)
             \/ AddLocksCmd(line) \/ RemoveLocksCmd(line) \/ CleanLocksCmd(line) \/ ListLocksCmd(line)
  BY <1>6, OtherReports DEF Shows
<1>7. CASE ShiftsOnly
  BY <1>7, SilentSteps
<1>8. QED
  BY <1>1, <1>2, <1>3, <1>4, <1>5, <1>6, <1>7 DEF DownloadsNext, Next, Command, ShiftsOnly

\* With no filter every list has the same patches, and splits off the same ones.
LEMMA PlainLists ==
  ASSUME NEW line, Plain(line)
  PROVE  LET found == PatchUpdates(line, Fixup(line, OptionalOf(line)))
             stats == CheckStats(line)
         IN /\ found.first \cup found.rest \cup found.blocked = { p \in Patches : Applicable(p) }
            /\ stats.needed \cup stats.optional \cup stats.locked = { p \in Patches : Applicable(p) }
            /\ stats.needed = { p \in Patches : Applicable(p) /\ ~Unwanted(p)
                                                /\ ~(OptionalOf(line) /\ Optional(p)) }
            /\ found.first = { p \in stats.needed : Patch(p).stack }
            /\ ~line.xml => found.stats = stats
<1>1. Fixup(line, OptionalOf(line)) = OptionalOf(line)
  BY DEF Plain, Fixup, OptionalOf
<1>2. Checked(line) = { p \in Patches : Applicable(p) } /\ ~line.all /\ \A p : CliMatch(p, line)
  BY DEF Plain, Checked, CliMatch
<1>3. CheckStats(line).needed = { p \in Patches : Applicable(p) /\ ~Unwanted(p)
                                                  /\ ~(OptionalOf(line) /\ Optional(p)) }
  BY <1>2 DEF CheckStats, Stats
<1>4. CheckStats(line).needed \cup CheckStats(line).optional \cup CheckStats(line).locked
        = { p \in Patches : Applicable(p) }
  BY <1>2 DEF CheckStats, Stats
<1>5. CASE line.xml
  BY <1>1, <1>2, <1>3, <1>4, <1>5 DEF PatchUpdates, XmlLists, NeededForStack
<1>6. CASE ~line.xml
  BY <1>1, <1>2, <1>3, <1>4, <1>6 DEF PatchUpdates, PatchTables, NeededForStack, CheckStats
<1>7. QED
  BY <1>5, <1>6

\* And patch marks those of the update stack, or all.
LEMMA PlainMarks ==
  ASSUME NEW line, Plain(line)
  PROVE  LET needed == CheckStats(line).needed
             stack == { p \in needed : Patch(p).stack }
         IN Marked(line, Fixup(line, OptionalOf(line)) /\ ~line.withUpdate)
              = IF stack # {} THEN stack ELSE needed
<1>1. Fixup(line, OptionalOf(line)) <=> OptionalOf(line)
  BY DEF Plain, Fixup, OptionalOf
<1>2. ~line.withUpdate /\ ~line.skip /\ ~line.stackOnly /\ \A p : CliMatch(p, line)
  BY DEF Plain, CliMatch
<1>3. QED
  BY <1>1, <1>2, PlainLists DEF Marked, Marks

\* Command lines that ask the same are answered the same.
LEMMA SameAsked ==
  ASSUME NEW a, NEW b, AsAsked(a, b)
  PROVE  /\ Plain(a) /\ Plain(b) /\ CheckStats(a) = CheckStats(b)
         /\ ListedFirst(a) = { p \in CheckStats(b).needed : Patch(p).stack }
<1>1. Checked(a) = Checked(b)
  BY DEF AsAsked, Plain, Checked
<1>2. CheckStats(a) = CheckStats(b)
  BY <1>1 DEF AsAsked, CheckStats, Stats, OptionalOf
<1>3. QED
  BY <1>2, PlainLists DEF AsAsked, ListedFirst

\* Which command it was.
LEMMA TheCommand ==
  ASSUME DownloadsNext, report'.cmd # "none"
  PROVE  /\ report'.cmd = "list-patches" /\ report'.line.issues = {} => \E line : ListPatches(line)
         /\ report'.cmd = "patch" /\ report'.line.issues = {} => \E line : PatchCmd(line)
         /\ report'.cmd = "update" /\ report'.line.kinds = {"package"} =>
              report'.packages = FindUpdates(FALSE)
<1>1. PICK line \in scene.lines : Command(line)
  BY SilentSteps DEF DownloadsNext, Next, ShiftsOnly
<1>2. CASE PatchCheck(line)
  BY <1>2, CheckReports
<1>3. CASE ListUpdates(line)
  BY <1>3, UpdateReports
<1>4. CASE ListPatches(line)
  BY <1>4, ListReports
<1>5. CASE ListPatchesByIssue(line)
  BY <1>5, IssueReports
<1>6. CASE \/ PatchCmd(line) \/ PatchByIssue(line) \/ UpdateCmd(line) \/ NeedsRebooting(line)
           \/ AddLocksCmd(line) \/ RemoveLocksCmd(line) \/ CleanLocksCmd(line) \/ ListLocksCmd(line)
  BY <1>6, OtherReports DEF Shows
<1>7. QED
  BY <1>1, <1>2, <1>3, <1>4, <1>5, <1>6 DEF Command

\* patch-check, the lists and patch say the same of the patches.
LEMMA PatchesStep ==
  ASSUME ListsKept, DownloadsNext, report.cmd # "none", report'.cmd # "none"
  PROVE  PatchesAgree(report, report')
<1> SUFFICES ASSUME AsAsked(report.line, report'.line)
             PROVE  PatchesAgree(report, report')
  BY DEF PatchesAgree
<1> DEFINE now == report.line
           then == report'.line
           stats == CheckStats(then)
<1>1. CheckStats(now) = stats /\ ListedFirst(now) = { p \in stats.needed : Patch(p).stack }
      /\ Plain(now) /\ Plain(then) /\ now.issues = {} /\ then.issues = {}
  BY SameAsked DEF Plain
<1>2. report.cmd = "patch-check" => report.stats = stats /\ report.code = PatchCheckCode(stats)
  BY <1>1 DEF ListsKept, CheckKept
<1>3. report.cmd = "list-patches" => report.first = { p \in stats.needed : Patch(p).stack }
  BY <1>1 DEF ListsKept, FirstKept
<1>4. CASE report.cmd = "patch-check" /\ report'.cmd = "list-patches"
  <2>1. PICK line : ListPatches(line)
    BY <1>1, <1>4, TheCommand
  <2>2. line = then
    BY <2>1, ListReports
  <2>3. PICK found : /\ found = PatchUpdates(then, Fixup(then, OptionalOf(then)))
                     /\ report'.first = found.first /\ report'.rest = found.rest
                     /\ report'.blocked = found.blocked /\ report'.stats = found.stats
                     /\ report'.needed = { p \in found.first \cup found.rest \cup found.blocked :
                                             Needed(p, then) }
    BY <2>1, <2>2, ListReports
  <2>4. /\ found.first \cup found.rest \cup found.blocked = { p \in Patches : Applicable(p) }
        /\ stats.needed \cup stats.optional \cup stats.locked = { p \in Patches : Applicable(p) }
        /\ stats.needed = { p \in Patches : Applicable(p) /\ ~Unwanted(p)
                                            /\ ~(OptionalOf(then) /\ Optional(p)) }
        /\ ~then.xml => found.stats = stats
    BY <1>1, <2>3, PlainLists
  <2>5. Fixup(then, OptionalOf(then)) <=> OptionalOf(then)
    BY <1>1 DEF Plain, Fixup, OptionalOf
  <2>6. report'.needed = stats.needed
    BY <2>3, <2>4, <2>5 DEF Needed, PatchStatus, Applicable
  <2>7. QED
    BY <1>2, <1>4, <2>3, <2>4, <2>6 DEF PatchesAgree
<1>5. CASE report'.cmd = "patch"
  <2>1. PICK line : PatchCmd(line)
    BY <1>1, <1>5, TheCommand
  <2>2. report'.marked = IF { p \in stats.needed : Patch(p).stack } # {}
                         THEN { p \in stats.needed : Patch(p).stack } ELSE stats.needed
    BY <1>1, <2>1, PatchReports, PlainMarks
  <2>3. PatchCheckCode(stats) # EXIT_OK <=> stats.needed # {}
    BY DEF PatchCheckCode, EXIT_OK, INF_UPDATE_NEEDED, INF_SEC_UPDATE_NEEDED
  <2>4. QED
    BY <1>2, <1>3, <1>5, <2>2, <2>3 DEF PatchesAgree
<1>6. QED
  BY <1>4, <1>5 DEF PatchesAgree

\* list-updates announces what update does.
LEMMA PackagesStep ==
  ASSUME ListsKept, DownloadsNext, report.cmd # "none", report'.cmd # "none"
  PROVE  PackagesAgree(report, report')
<1> SUFFICES ASSUME report.cmd = "list-updates", report'.cmd = "update",
                    report.line.kinds = {"package"}, report'.line.kinds = {"package"}
             PROVE  PackagesAgree(report, report')
  BY DEF PackagesAgree
<1>1. report.packages = OtherUpdates(report.line)
  BY DEF ListsKept, PackagesKept
<1>2. report'.packages = FindUpdates(FALSE)
  BY TheCommand
<1>3. ~report.line.all => FindUpdates(report.line.all) = FindUpdates(FALSE)
  BY DEF FindUpdates
<1>4. QED
  BY <1>1, <1>2, <1>3 DEF PackagesAgree, OtherUpdates, VersionChangeFiltered

-----------------------------------------------------------------------------
(* Two rounds of patch.                                                    *)

\* The commands that only fetch files.
LEMMA FetchingIsQuiet ==
  ASSUME NEW errand, DownloadCmd(errand) \/ SourceDownloadCmd(errand)
  PROVE  Quiet /\ UNCHANGED rounds
<1>1. UNCHANGED <<scene, system, locks, shell, rounds>>
  <2>1. Fetches(errand, "download") \/ Fetches(errand, "source-download")
    BY Zenon DEF DownloadCmd, SourceDownloadCmd
  <2>2. QED
    BY <2>1 DEF Fetches
<1>2. LoadTarget \/ held' = held
  BY Zenon DEF DownloadCmd, SourceDownloadCmd, CannotStart
<1>3. QED
  BY <1>1, <1>2 DEF Quiet, system

\* The two ways a command that installs ends.
LEMMA InstallEnds ==
  ASSUME NEW line, NEW patches, NEW packages, NEW notFound, LoadTarget, UNCHANGED <<scene, shell>>,
         SolveAndCommit(line, patches, packages, notFound)
  PROVE  \/ Quiet /\ UNCHANGED rounds
         \/ /\ Commit(patches, packages) /\ UNCHANGED locks
            /\ \/ UNCHANGED rounds
               \/ /\ rounds' = rounds + 1
                  /\ line.cmd = "patch" /\ line.optional # "with"
                  /\ line.issues = {} /\ line.categories = {}
                  /\ ~line.skip /\ ~line.stackOnly /\ ~line.withUpdate
BY DEF SolveAndCommit, LooksOnly, Quiet

\* A commit leaves nothing it was to install, and makes nothing applicable.
LEMMA CommitLeaves ==
  ASSUME NEW patches, NEW packages, Commit(patches, packages), LoadTarget,
         UNCHANGED <<scene, locks, shell>>, NEW p \in Patches, Left(p)'
  PROVE  Left(p) /\ p \notin patches /\ Patch(p)' = Patch(p)
<1>1. LoadedLocks' = LoadedLocks
  BY SameLocks
<1>2. Patch(p)' = Patch(p)
  BY DEF Patch
<1>3. Applicable(p) /\ p \notin patches
  BY DEF Left, Applicable, Commit
<1>4. ~Unwanted(p)
  BY <1>1, <1>2 DEF Left, Unwanted, Locked, Applicable
<1>5. ~Optional(p)
  BY <1>2 DEF Left, Optional
<1>6. QED
  BY <1>2, <1>3, <1>4, <1>5 DEF Left

\* A round of patch leaves only what Marked left out.
LEMMA RoundsInstall ==
  ASSUME RoundsKept, NEW line, PatchCmd(line) \/ PatchByIssue(line) \/ UpdateCmd(line)
  PROVE  RoundsKept'
<1>1. LoadTarget /\ UNCHANGED <<scene, shell>>
  BY DEF PatchCmd, PatchByIssue, UpdateCmd, Starts
<1>2. CASE Quiet /\ UNCHANGED rounds
  BY <1>2, SamePatch DEF RoundsKept
<1>3. CASE \E patches, packages : Commit(patches, packages) /\ UNCHANGED <<locks, rounds>>
  BY <1>1, <1>3, CommitLeaves DEF RoundsKept
<1>4. CASE /\ rounds' = rounds + 1 /\ UNCHANGED locks
           /\ \E packages : Commit({ p \in Patches : Left(p) /\ Patch(p).stack }, packages)
           /\ { p \in Patches : Left(p) /\ Patch(p).stack } # {}
  BY <1>1, <1>4, CommitLeaves DEF RoundsKept
<1>5. CASE /\ rounds' = rounds + 1 /\ UNCHANGED locks
           /\ \E packages : Commit({ p \in Patches : Left(p) }, packages)
  BY <1>1, <1>5, CommitLeaves DEF RoundsKept
<1>6. CASE PatchByIssue(line) \/ UpdateCmd(line)
  BY <1>1, <1>2, <1>3, <1>6, InstallEnds DEF PatchByIssue, UpdateCmd, Starts
<1>7. CASE PatchCmd(line)
  <2> DEFINE excl == Excluding(line) /\ ~line.withUpdate
  <2>1. PICK packages : SolveAndCommit(line, Marked(line, excl), packages, FALSE)
    BY <1>7 DEF PatchCmd
  <2>2. CASE /\ Commit(Marked(line, excl), packages) /\ UNCHANGED locks
             /\ rounds' = rounds + 1
             /\ line.cmd = "patch" /\ line.optional # "with"
             /\ line.issues = {} /\ line.categories = {}
             /\ ~line.skip /\ ~line.stackOnly /\ ~line.withUpdate
    <3>1. excl
      BY <2>2 DEF Excluding, Fixup, OptionalOf
    <3>2. \A p : Marks(p, line, excl) <=> Left(p)
      BY <2>2, <3>1 DEF Marks, Left, CliMatch
    <3>3. LET all == { p \in Patches : Left(p) }
              stack == { p \in Patches : Left(p) /\ Patch(p).stack }
          IN Marked(line, excl) = IF stack # {} THEN stack ELSE all
      BY <2>2, <3>2 DEF Marked
    <3>4. QED
      BY <1>4, <1>5, <2>2, <3>3
  <2>3. QED
    BY <1>1, <1>2, <1>3, <2>1, <2>2, InstallEnds
<1>8. QED
  BY <1>6, <1>7

\* Only patch counts rounds, and whatever changes from outside starts anew.
LEMMA RoundsStep == RoundsKept /\ [DownloadsNext]_allVars => RoundsKept'
<1> SUFFICES ASSUME RoundsKept, [DownloadsNext]_allVars
             PROVE  RoundsKept'
  OBVIOUS
<1>1. CASE Quiet /\ UNCHANGED rounds
  BY <1>1, SamePatch DEF RoundsKept
<1>2. CASE rounds' = 0
  BY <1>2 DEF RoundsKept
<1>3. CASE UNCHANGED allVars
  BY <1>1, <1>3 DEF allVars, vars, system, Quiet
<1>4. CASE \E line : \/ PatchCheck(line) \/ ListUpdates(line)
                    \/ ListPatches(line) \/ ListPatchesByIssue(line)
  BY <1>1, <1>4, CheckReports, ListReports, IssueReports, UpdateReports
<1>5. CASE \E line : PatchCmd(line) \/ PatchByIssue(line) \/ UpdateCmd(line)
  BY <1>5, RoundsInstall
<1>6. CASE \E line : NeedsRebooting(line) \/ ListLocksCmd(line)
  BY <1>1, <1>6 DEF NeedsRebooting, ListLocksCmd, Starts, LooksOnly, Quiet, system
<1>7. CASE \E line : AddLocksCmd(line) \/ RemoveLocksCmd(line) \/ CleanLocksCmd(line)
  BY <1>1, <1>2, <1>7 DEF AddLocksCmd, RemoveLocksCmd, CleanLocksCmd, Starts, Edits, Quiet, system
<1>8. CASE ShellSwitch \/ Publish \/ Reboot
  BY <1>2, <1>8 DEF ShellSwitch, Publish, Reboot
<1>9. CASE \E errand : DownloadCmd(errand) \/ SourceDownloadCmd(errand)
  BY <1>1, <1>9, FetchingIsQuiet
<1>10. QED
  BY <1>3, <1>4, <1>5, <1>6, <1>7, <1>8, <1>9 DEF DownloadsNext, Next, Command, Errand

-----------------------------------------------------------------------------
(* The files fetched.                                                      *)

\* What source-download --status showed still is what there is to do.
ShownKept ==
  outcome.cmd = "source-download" /\ outcome.started /\ outcome.errand.dryRun =>
    /\ outcome.missing = NeededSources \ LocalSources
    /\ outcome.superfluous = LocalSources \ NeededSources

\* An installed package needs its source, and every source needed is one of these.
LEMMA NeededFacts ==
  \A s : s \in NeededSources <=> \E n \in Packages : IsInstalled(n) /\ Source(n, installed[n]) = s
BY DEF NeededSources

\* A source is there if a file holds it.
LEMMA LocalFacts == \A s : s \in LocalSources <=> \E f \in sources : f.source = s
BY DEF LocalSources

\* A command of PatchLists says nothing of files.
LEMMA OtherCommands ==
  ASSUME outcome' = Outcome \/ \E errand \in scene.errands : DownloadCmd(errand)
  PROVE  outcome'.cmd # "source-download"
<1>1. CASE outcome' = Outcome
  BY <1>1 DEF Outcome
<1>2. ASSUME NEW errand, DownloadCmd(errand)
      PROVE  outcome'.cmd = "download"
  <2>1. errand.cmd = "download"
    BY <1>2, Zenon DEF DownloadCmd, Fetches
  <2>2. CASE Fails(errand, ERR_PRIVILEGES)
    BY <2>1, <2>2 DEF Fails, Outcome
  <2>3. CASE ~Fails(errand, ERR_PRIVILEGES)
    <3>1. \E code, missing, got :
             outcome' = [Outcome EXCEPT !.cmd = "download", !.errand = errand, !.code = code,
                                        !.missing = missing, !.got = got]
      BY <1>2, <2>3, Zenon DEF DownloadCmd
    <3>2. QED
      BY <3>1 DEF Outcome
  <2>4. QED
    BY <2>2, <2>3
<1>3. QED
  BY <1>1, <1>2

\* How source-download ends.
LEMMA SourceDownloadEnds ==
  ASSUME NEW errand, SourceDownloadCmd(errand)
  PROVE  /\ UNCHANGED <<installed, cache>>
         /\ outcome'.cmd = "source-download" /\ outcome'.errand = errand
         /\ \/ ~outcome'.started /\ UNCHANGED sources
            \/ /\ outcome'.missing = NeededSources \ LocalSources
               /\ outcome'.superfluous = LocalSources \ NeededSources
               /\ \E listed : /\ \A f \in listed : f \in sources /\ f.source \notin NeededSources
                  /\ \/ errand.dryRun /\ UNCHANGED sources
                     \/ /\ ~errand.dryRun /\ errand.delete /\ outcome'.got = {}
                        /\ outcome'.superfluous # {}
                        /\ \E removed \in SUBSET listed : sources' = sources \ removed
                     \/ /\ ~errand.dryRun /\ outcome'.got \subseteq outcome'.missing
                        /\ sources' = (sources \ (IF errand.delete THEN listed ELSE {}))
                                        \cup { File(s) : s \in outcome'.got }
<1> DEFINE superfluous == LocalSources \ NeededSources
           missing == NeededSources \ LocalSources
           Ends(code, got) ==
             outcome' = [Outcome EXCEPT !.cmd = "source-download", !.errand = errand, !.code = code,
                                        !.missing = missing, !.superfluous = superfluous, !.got = got]
           Fate(listed) ==
             /\ \A f \in listed : f \in sources /\ f.source \notin NeededSources
             /\ \/ errand.dryRun /\ UNCHANGED sources
                \/ /\ ~errand.dryRun /\ errand.delete /\ outcome'.got = {}
                   /\ outcome'.superfluous # {}
                   /\ \E removed \in SUBSET listed : sources' = sources \ removed
                \/ /\ ~errand.dryRun /\ outcome'.got \subseteq outcome'.missing
                   /\ sources' = (sources \ (IF errand.delete THEN listed ELSE {}))
                                   \cup { File(s) : s \in outcome'.got }
           Done == /\ outcome'.cmd = "source-download" /\ outcome'.errand = errand
                   /\ outcome'.missing = missing /\ outcome'.superfluous = superfluous
                   /\ \E listed : Fate(listed)
<1>1. UNCHANGED <<installed, cache>> /\ errand.cmd = "source-download"
  BY Zenon DEF SourceDownloadCmd, Fetches, system, CannotStart, Fails
<1>2. ASSUME NEW code, NEW got, Ends(code, got)
      PROVE  /\ outcome'.cmd = "source-download" /\ outcome'.errand = errand
             /\ outcome'.missing = missing /\ outcome'.superfluous = superfluous
             /\ outcome'.got = got
  <2> HIDE DEF superfluous, missing
  <2> QED
    BY <1>2 DEF Outcome
<1>3. \A listed \in Manifest(superfluous) :
        \A f \in listed : f \in sources /\ f.source \in superfluous
  BY DEF Manifest
<1>4. CASE CannotStart(errand)
  BY <1>1, <1>4 DEF CannotStart, Fails, Outcome
<1>5. ASSUME errand.dryRun, Ends(EXIT_OK, {}), UNCHANGED sources
      PROVE  Done
  <2>1. Fate({})
    BY <1>5
  <2>2. /\ outcome'.cmd = "source-download" /\ outcome'.errand = errand
        /\ outcome'.missing = missing /\ outcome'.superfluous = superfluous
    BY <1>2, <1>5
  <2> HIDE DEF Fate, Ends
  <2>3. QED
    BY <2>1, <2>2
<1>6. ASSUME NEW listed \in Manifest(superfluous), NEW removed \in SUBSET listed, removed # listed,
             ~errand.dryRun, errand.delete, Ends(EXIT_OK, {}), sources' = sources \ removed
      PROVE  Done
  <2>1. \A f \in listed : f \in sources /\ f.source \in superfluous
    BY <1>3
  <2>2. superfluous # {}
    BY <1>6, <2>1
  <2>3. /\ outcome'.cmd = "source-download" /\ outcome'.errand = errand /\ outcome'.got = {}
        /\ outcome'.missing = missing /\ outcome'.superfluous = superfluous
    BY <1>2, <1>6
  <2>4. \A f \in listed : f \in sources /\ f.source \notin NeededSources
    BY <2>1
  <2> HIDE DEF superfluous, missing, Ends
  <2>5. Fate(listed)
    BY <1>6, <2>2, <2>3, <2>4
  <2> HIDE DEF Fate
  <2>6. QED
    BY <2>3, <2>5
<1>7. ASSUME NEW listed \in Manifest(superfluous), NEW got \in SUBSET (missing \cap scene.sources),
             NEW code, ~errand.dryRun, Ends(code, got),
             sources' = (sources \ (IF errand.delete THEN listed ELSE {})) \cup { File(s) : s \in got }
      PROVE  Done
  <2>1. \A f \in listed : f \in sources /\ f.source \in superfluous
    BY <1>3
  <2>2. /\ outcome'.cmd = "source-download" /\ outcome'.errand = errand /\ outcome'.got = got
        /\ outcome'.missing = missing /\ outcome'.superfluous = superfluous
    BY <1>2, <1>7
  <2>3. \A f \in listed : f \in sources /\ f.source \notin NeededSources
    BY <2>1
  <2> HIDE DEF superfluous, missing, Ends
  <2>4. Fate(listed)
    BY <1>7, <2>2, <2>3
  <2> HIDE DEF Fate
  <2>5. QED
    BY <2>2, <2>4
<1>8. \/ CannotStart(errand)
      \/ errand.dryRun /\ Ends(EXIT_OK, {}) /\ UNCHANGED sources
      \/ /\ ~errand.dryRun /\ errand.delete /\ Ends(EXIT_OK, {})
         /\ \E listed \in Manifest(superfluous) : \E removed \in SUBSET listed :
              removed # listed /\ sources' = sources \ removed
      \/ /\ ~errand.dryRun
         /\ \E listed \in Manifest(superfluous) :
            \E got \in SUBSET (missing \cap scene.sources) : \E code :
              /\ sources' = (sources \ (IF errand.delete THEN listed ELSE {})) \cup { File(s) : s \in got }
              /\ Ends(code, got)
  BY Zenon DEF SourceDownloadCmd
<1>9. CannotStart(errand) \/ Done
  <2> HIDE DEF superfluous, missing, Ends, Done
  <2>1. QED
    BY <1>5, <1>6, <1>7, <1>8
<1>10. QED
  BY <1>1, <1>4, <1>9

\* The best of the offers of a package is its highest version.
LEMMA BestIsHighest ==
  ASSUME scene \in Scenes, NEW n \in Packages, NEW e \in scene.offers[n],
         \A f \in scene.offers[n] : ~Older(e, f)
  PROVE  Highest(n) = e
<1>1. scene.offers[n] \subseteq Edition
  BY PoolAssumption
<1>2. /\ Highest(n) \in scene.offers[n]
      /\ \A f \in scene.offers[n] : ~Older(Highest(n), f)
  BY DEF Highest
<1>3. ASSUME NEW x \in Edition, NEW y \in Edition, ~Older(x, y), ~Older(y, x)
      PROVE  x = y
  <2>1. x.epoch = y.epoch /\ x.version = y.version /\ x.release = y.release /\ x.rebuild = y.rebuild
    BY <1>3 DEF Older, Edition
  <2>2. QED
    BY <2>1 DEF Edition
<1>4. QED
  BY <1>1, <1>2, <1>3

\* What an argument matches.
LEMMA ItemFacts ==
  ASSUME NEW a
  PROVE  /\ \A i \in Items(a) : i[1] \in Matching[a] /\ i[2] \in scene.offers[i[1]] /\ i = <<i[1], i[2]>>
         /\ \A n \in Matching[a] : \A e \in scene.offers[n] : <<n, e>> \in Items(a)
<1>1. ASSUME NEW i \in Items(a)
      PROVE  i[1] \in Matching[a] /\ i[2] \in scene.offers[i[1]] /\ i = <<i[1], i[2]>>
  <2>1. PICK n \in Matching[a] : \E e \in scene.offers[n] : i = <<n, e>>
    BY DEF Items
  <2>2. QED
    BY <2>1
<1>2. \A n \in Matching[a] : \A e \in scene.offers[n] : <<n, e>> \in Items(a)
  BY DEF Items
<1>3. QED
  BY <1>1, <1>2

\* Each argument stands for one name; it is filed under a name it matches; and the best of
\* what is filed under a name is taken.
OneName(args) == \A b \in args : Matching[b] \subseteq Packages /\ \A m, n \in Matching[b] : m = n
Filed(args, first) == \A b \in args : Items(b) # {} => first[b] \in { i[1] : i \in Items(b) }
Taken(args, first, best, n) ==
  Collected(args, first, n) # {} => best[n] \in Best(Collected(args, first, n))

\* If each argument stands for one name, the best match of a name is its highest version.
LEMMA BestMatches ==
  ASSUME scene \in Scenes, NEW args, OneName(args), NEW a \in args, NEW n \in Matching[a],
         scene.offers[n] # {}, NEW first, Filed(args, first), NEW best, Taken(args, first, best, n)
  PROVE  Collected(args, first, n) # {} /\ best[n] = <<n, Highest(n)>>
<1> DEFINE all == Collected(args, first, n)
<1>1. \A b \in args : Items(b) # {} => first[b] \in Matching[b]
  BY ItemFacts DEF Filed
<1>2. first[a] = n /\ Items(a) # {}
  BY <1>1, ItemFacts DEF OneName
<1>3. \A i : i \in all <=> \E b \in args : i \in Items(b) /\ first[b] = n
  BY DEF Collected
<1>4. \A e \in scene.offers[n] : <<n, e>> \in all
  BY <1>2, <1>3, ItemFacts
<1>5. \A i \in all : i[1] = n /\ i[2] \in scene.offers[n] /\ i = <<i[1], i[2]>>
  <2> TAKE i \in all
  <2>1. PICK b \in args : i \in Items(b) /\ first[b] = n
    BY <1>3
  <2>2. i[1] \in Matching[b] /\ n \in Matching[b]
    BY <1>1, <2>1, ItemFacts
  <2>3. i[1] = n
    BY <2>2 DEF OneName
  <2>4. QED
    BY <2>1, <2>3, ItemFacts
<1> HIDE DEF all
<1>6. all # {}
  BY <1>4
<1>7. best[n] \in all /\ \A j \in all : ~Older(best[n][2], j[2])
  BY <1>6 DEF Best, Taken, all
<1> DEFINE e == best[n][2]
<1>8. best[n] = <<n, e>> /\ e \in scene.offers[n]
  BY <1>5, <1>7
<1>9. \A f \in scene.offers[n] : ~Older(e, f)
  <2> TAKE f \in scene.offers[n]
  <2>1. <<n, f>> \in all /\ <<n, f>>[2] = f
    BY <1>4
  <2>2. QED
    BY <1>7, <2>1
<1> HIDE DEF e
<1>10. Highest(n) = e
  BY <1>8, <1>9, BestIsHighest DEF OneName
<1>11. QED
  BY <1>6, <1>8, <1>10 DEF all

\* How download ends.
LEMMA DownloadEnds ==
  ASSUME scene \in Scenes, NEW errand \in scene.errands, DownloadCmd(errand)
  PROVE  /\ UNCHANGED <<scene, sources>>
         /\ outcome'.cmd = "download" /\ outcome'.errand = errand
         /\ \/ ~outcome'.started /\ UNCHANGED cache
            \/ /\ outcome'.got \subseteq outcome'.missing /\ cache' = cache \cup outcome'.got
               /\ \E chosen :
                    /\ outcome'.missing = IF errand.dryRun THEN {} ELSE chosen \ cache
                    /\ \A i \in chosen : \E a \in ToSet(errand.args) : i \in Items(a)
                    /\ (\A a \in ToSet(errand.args) : \A m, n \in Matching[a] : m = n) =>
                         \A n \in UNION { Matching[a] : a \in ToSet(errand.args) } :
                           scene.offers[n] # {} => <<n, Highest(n)>> \in chosen
<1> DEFINE args == ToSet(errand.args)
           found == UNION { Items(a) : a \in args }
           idents == { i[1] : i \in found }
           filled(first) == { n \in idents : Collected(args, first, n) # {} }
           chosen(first, best) == IF errand.allMatches THEN found ELSE { best[n] : n \in filled(first) }
           missing(first, best) == IF errand.dryRun THEN {} ELSE chosen(first, best) \ cache
           Firsts(first) ==
             \A a \in args : IF Items(a) = {} THEN first[a] = "none" ELSE first[a] \in { i[1] : i \in Items(a) }
           Bests(first, best) ==
             \A n \in idents : IF Collected(args, first, n) = {} THEN best[n] = (CHOOSE i \in found : TRUE)
                               ELSE best[n] \in Best(Collected(args, first, n))
           info == IF (\E a \in args : Items(a) = {}) /\ ~errand.ignoreUnknown THEN INF_CAP_NOT_FOUND
                   ELSE EXIT_OK
           Codes(some) == {info} \cup { ON_SIGNAL : i \in some }
           Ends(code, some, got) ==
             outcome' = [Outcome EXCEPT !.cmd = "download", !.errand = errand, !.code = code,
                                        !.missing = some, !.got = got]
<1>1. UNCHANGED <<scene, sources>> /\ errand.cmd = "download"
  BY Zenon DEF DownloadCmd, Fetches, Fails
<1>2. \/ Fails(errand, ERR_PRIVILEGES)
      \/ \E first \in [args -> idents \cup {"none"}] : \E best \in [idents -> found] :
           /\ Firsts(first) /\ Bests(first, best)
           /\ \E got \in SUBSET missing(first, best) : \E code \in Codes(missing(first, best)) :
                cache' = cache \cup got /\ Ends(code, missing(first, best), got)
  BY DEF DownloadCmd
<1>3. CASE Fails(errand, ERR_PRIVILEGES)
  BY <1>1, <1>3 DEF Fails, Outcome
<1>4. ASSUME NEW first \in [args -> idents \cup {"none"}], NEW best \in [idents -> found],
             Firsts(first), Bests(first, best),
             NEW got \in SUBSET missing(first, best), NEW code,
             cache' = cache \cup got, Ends(code, missing(first, best), got)
      PROVE  /\ outcome'.cmd = "download" /\ outcome'.errand = errand
             /\ outcome'.got \subseteq outcome'.missing /\ cache' = cache \cup outcome'.got
             /\ \E all :
                  /\ outcome'.missing = IF errand.dryRun THEN {} ELSE all \ cache
                  /\ \A i \in all : \E a \in args : i \in Items(a)
                  /\ (\A a \in args : \A m, n \in Matching[a] : m = n) =>
                       \A n \in UNION { Matching[a] : a \in args } :
                         scene.offers[n] # {} => <<n, Highest(n)>> \in all
  <2> DEFINE all == chosen(first, best)
  <2>1. /\ outcome'.cmd = "download" /\ outcome'.errand = errand
        /\ outcome'.missing = missing(first, best) /\ outcome'.got = got
    <3> DEFINE some == missing(first, best)
    <3> HIDE DEF some
    <3>1. Ends(code, some, got)
      BY <1>4 DEF some
    <3>2. QED
      BY <3>1 DEF Outcome, some
  <2>2. \A i \in all : \E a \in args : i \in Items(a)
    <3>1. all \subseteq found
      OBVIOUS
    <3>2. QED
      BY <3>1
  <2>3. ASSUME \A a \in args : \A m, n \in Matching[a] : m = n,
               NEW a \in args, NEW n \in Matching[a], scene.offers[n] # {}
        PROVE  <<n, Highest(n)>> \in all
    <3>1. OneName(args)
      BY <2>3, FilesAssumption DEF OneName
    <3>2. n \in idents
      <4>1. PICK e \in scene.offers[n] : <<n, e>> \in Items(a)
        BY <2>3, ItemFacts
      <4>2. <<n, e>> \in found /\ <<n, e>>[1] = n
        BY <4>1
      <4>3. QED
        BY <4>2
    <3>3. Filed(args, first)
      BY <1>4 DEF Filed
    <3>4. Taken(args, first, best, n)
      BY <1>4, <3>2 DEF Taken
    <3>5. Collected(args, first, n) # {} /\ best[n] = <<n, Highest(n)>>
      <4> HIDE DEF args
      <4> QED
        BY <2>3, <3>1, <3>3, <3>4, BestMatches
    <3>6. n \in filled(first) /\ best[n] \in found
      BY <3>2, <3>5
    <3> HIDE DEF found, filled
    <3>7. QED
      BY <3>5, <3>6
  <2>4. outcome'.missing = IF errand.dryRun THEN {} ELSE all \ cache
    BY <2>1
  <2> HIDE DEF args, found, idents, filled, chosen, all
  <2>5. \A n \in UNION { Matching[a] : a \in args } :
          (\A a \in args : \A m, k \in Matching[a] : m = k) /\ scene.offers[n] # {}
             => <<n, Highest(n)>> \in all
    BY <2>3
  <2>6. QED
    BY <1>4, <2>1, <2>2, <2>4, <2>5
<1> HIDE DEF Firsts, Bests, Ends, Codes, missing, chosen, idents, found
<1>5. QED
  BY <1>1, <1>2, <1>3, <1>4

\* A step that leaves the directory alone, and is not source-download, fits.
LEMMA SourcesRest ==
  ASSUME outcome'.cmd # "source-download", UNCHANGED sources
  PROVE  SourcesFit
BY DEF SourcesFit

\* source-download fits, also what its --status had shown.
LEMMA SourcesStep ==
  ASSUME ShownKept, NEW errand, SourceDownloadCmd(errand)
  PROVE  SourcesFit
<1> DEFINE then == outcome'
<1>1. /\ then.cmd = "source-download" /\ then.errand = errand
      /\ \/ ~then.started /\ UNCHANGED sources
         \/ /\ then.missing = NeededSources \ LocalSources
            /\ then.superfluous = LocalSources \ NeededSources
            /\ \E listed : /\ \A f \in listed : f \in sources /\ f.source \notin NeededSources
               /\ \/ errand.dryRun /\ UNCHANGED sources
                  \/ /\ ~errand.dryRun /\ errand.delete /\ then.got = {}
                     /\ then.superfluous # {}
                     /\ \E removed \in SUBSET listed : sources' = sources \ removed
                  \/ /\ ~errand.dryRun /\ then.got \subseteq then.missing
                     /\ sources' = (sources \ (IF errand.delete THEN listed ELSE {}))
                                     \cup { File(s) : s \in then.got }
  BY SourceDownloadEnds
<1>2. \A s : File(s).source = s
  BY DEF File
<1> DEFINE Removal == \A f \in sources \ sources' :
             errand.delete /\ ~errand.dryRun /\ f.source \notin NeededSources
           Arrival == \A f \in sources' \ sources : f.source \in NeededSources
           Complete == then.started /\ then.got = then.missing /\ ~errand.dryRun
                         /\ (then.missing # {} \/ then.superfluous = {})
                       => \A s \in NeededSources : \E f \in sources' : f.source = s
<1>3. CASE ~then.started /\ UNCHANGED sources
  BY <1>1, <1>3 DEF SourcesFit
<1>4. CASE /\ then.missing = NeededSources \ LocalSources
           /\ then.superfluous = LocalSources \ NeededSources
           /\ \E listed : /\ \A f \in listed : f \in sources /\ f.source \notin NeededSources
              /\ \/ errand.dryRun /\ UNCHANGED sources
                 \/ /\ ~errand.dryRun /\ errand.delete /\ then.got = {}
                    /\ then.superfluous # {}
                    /\ \E removed \in SUBSET listed : sources' = sources \ removed
                 \/ /\ ~errand.dryRun /\ then.got \subseteq then.missing
                    /\ sources' = (sources \ (IF errand.delete THEN listed ELSE {}))
                                    \cup { File(s) : s \in then.got }
  <2>1. PICK listed :
              /\ \A f \in listed : f \in sources /\ f.source \notin NeededSources
              /\ \/ errand.dryRun /\ UNCHANGED sources
                 \/ /\ ~errand.dryRun /\ errand.delete /\ then.got = {}
                    /\ then.superfluous # {}
                    /\ \E removed \in SUBSET listed : sources' = sources \ removed
                 \/ /\ ~errand.dryRun /\ then.got \subseteq then.missing
                    /\ sources' = (sources \ (IF errand.delete THEN listed ELSE {}))
                                    \cup { File(s) : s \in then.got }
    BY <1>4
  <2>2. Removal /\ Arrival /\ Complete
    <3>1. CASE errand.dryRun /\ UNCHANGED sources
      BY <3>1
    <3>2. CASE /\ ~errand.dryRun /\ errand.delete /\ then.got = {}
               /\ then.superfluous # {}
               /\ \E removed \in SUBSET listed : sources' = sources \ removed
      BY <2>1, <3>2
    <3>3. CASE /\ ~errand.dryRun /\ then.got \subseteq then.missing
               /\ sources' = (sources \ (IF errand.delete THEN listed ELSE {}))
                               \cup { File(s) : s \in then.got }
      <4>1. Removal
        BY <2>1, <3>3
      <4>2. Arrival
        BY <1>2, <1>4, <3>3
      <4>3. ASSUME then.got = then.missing, NEW s \in NeededSources
            PROVE  \E f \in sources' : f.source = s
        <5>1. CASE s \in LocalSources
          <6>1. PICK f \in sources : f.source = s
            BY <5>1, LocalFacts
          <6>2. f \in sources'
            BY <2>1, <3>3, <6>1
          <6>3. QED
            BY <6>1, <6>2
        <5>2. CASE s \notin LocalSources
          <6>1. File(s) \in sources'
            BY <1>4, <3>3, <4>3, <5>2
          <6>2. QED
            BY <1>2, <6>1
        <5>3. QED
          BY <5>1, <5>2
      <4>4. QED
        BY <4>1, <4>2, <4>3
    <3>4. QED
      BY <2>1, <3>1, <3>2, <3>3
  <2>3. outcome.cmd = "source-download" /\ outcome.started /\ outcome.errand.dryRun =>
          then.missing = outcome.missing /\ then.superfluous = outcome.superfluous
    BY <1>4 DEF ShownKept
  <2>4. /\ \A f \in sources \ sources' :
             \A n \in Packages : IsInstalled(n) => Source(n, installed[n]) # f.source
        /\ \A f \in sources' \ sources :
             \E n \in Packages : IsInstalled(n) /\ Source(n, installed[n]) = f.source
        /\ then.started /\ then.got = then.missing /\ ~errand.dryRun
             /\ (then.missing # {} \/ then.superfluous = {}) =>
             \A n \in Packages : IsInstalled(n) => \E f \in sources' : f.source = Source(n, installed[n])
    BY <2>2, NeededFacts
  <2> HIDE DEF then, Arrival, Complete
  <2>5. QED
    BY <1>1, <2>2, <2>3, <2>4 DEF SourcesFit, then
<1>5. QED
  BY <1>1, <1>3, <1>4

\* download fits.
LEMMA DownloadsStep ==
  ASSUME scene \in Scenes, NEW errand \in scene.errands, DownloadCmd(errand)
  PROVE  DownloadsFit
<1> DEFINE args == ToSet(errand.args)
<1>1. /\ outcome'.errand = errand
      /\ \/ ~outcome'.started /\ UNCHANGED cache
         \/ /\ outcome'.got \subseteq outcome'.missing /\ cache' = cache \cup outcome'.got
            /\ \E chosen :
                 /\ outcome'.missing = IF errand.dryRun THEN {} ELSE chosen \ cache
                 /\ \A i \in chosen : \E a \in args : i \in Items(a)
                 /\ (\A a \in args : \A m, n \in Matching[a] : m = n) =>
                      \A n \in UNION { Matching[a] : a \in args } :
                        scene.offers[n] # {} => <<n, Highest(n)>> \in chosen
  BY DownloadEnds
<1>2. CASE ~outcome'.started /\ UNCHANGED cache
  BY <1>2 DEF DownloadsFit
<1>3. ASSUME outcome'.got \subseteq outcome'.missing, cache' = cache \cup outcome'.got,
             NEW chosen, outcome'.missing = IF errand.dryRun THEN {} ELSE chosen \ cache,
             \A i \in chosen : \E a \in args : i \in Items(a),
             (\A a \in args : \A m, n \in Matching[a] : m = n) =>
               \A n \in UNION { Matching[a] : a \in args } :
                 scene.offers[n] # {} => <<n, Highest(n)>> \in chosen
      PROVE  DownloadsFit
  <2>1. cache' \ cache \subseteq chosen
    BY <1>3
  <2>2. outcome'.got = outcome'.missing /\ ~errand.dryRun => chosen \subseteq cache'
    BY <1>3
  <2> HIDE DEF args
  <2>3. QED
    BY <1>1, <1>3, <2>1, <2>2 DEF DownloadsFit, args
<1>4. QED
  BY <1>1, <1>2, <1>3

\* Every step fits, and --status keeps its word.
LEMMA FilesStep ==
  ASSUME scene \in Scenes, ShownKept, [DownloadsNext]_allVars
  PROVE  /\ [SourcesFit /\ DownloadsFit]_allVars
         /\ ShownKept'
<1>1. CASE UNCHANGED allVars
  <2>1. UNCHANGED <<outcome, sources, installed>>
    BY <1>1 DEF allVars, vars, system
  <2>2. NeededSources' = NeededSources /\ LocalSources' = LocalSources
    BY <2>1 DEF NeededSources, LocalSources, IsInstalled
  <2>3. ShownKept'
    BY <2>1, <2>2 DEF ShownKept
  <2>4. QED
    BY <1>1, <2>3
<1>2. CASE Next /\ outcome' = Outcome /\ UNCHANGED <<cache, sources>>
  <2>1. outcome'.cmd = "none"
    BY <1>2 DEF Outcome
  <2>2. SourcesFit
    BY <1>2, <2>1, SourcesRest
  <2>3. DownloadsFit /\ ShownKept'
    BY <2>1 DEF DownloadsFit, ShownKept
  <2>4. QED
    BY <2>2, <2>3
<1>3. ASSUME NEW errand \in scene.errands, DownloadCmd(errand)
      PROVE  SourcesFit /\ DownloadsFit /\ ShownKept'
  <2>1. outcome'.cmd # "source-download" /\ UNCHANGED sources
    BY <1>3, OtherCommands, DownloadEnds
  <2>2. ShownKept'
    BY <2>1 DEF ShownKept
  <2>3. QED
    BY <1>3, <2>1, <2>2, SourcesRest, DownloadsStep
<1>4. ASSUME NEW errand \in scene.errands, SourceDownloadCmd(errand)
      PROVE  SourcesFit /\ DownloadsFit /\ ShownKept'
  <2>1. outcome'.cmd = "source-download" /\ outcome'.errand = errand /\ UNCHANGED installed
    BY <1>4, SourceDownloadEnds
  <2>2. outcome'.started /\ errand.dryRun =>
          /\ UNCHANGED sources
          /\ outcome'.missing = NeededSources \ LocalSources
          /\ outcome'.superfluous = LocalSources \ NeededSources
    BY <1>4, SourceDownloadEnds
  <2>3. UNCHANGED sources => NeededSources' = NeededSources /\ LocalSources' = LocalSources
    BY <2>1 DEF NeededSources, LocalSources, IsInstalled
  <2>4. ShownKept'
    BY <2>1, <2>2, <2>3 DEF ShownKept
  <2>5. SourcesFit /\ DownloadsFit
    BY <1>4, <2>1, SourcesStep DEF DownloadsFit
  <2>6. QED
    BY <2>4, <2>5
<1>5. QED
  BY <1>1, <1>2, <1>3, <1>4 DEF DownloadsNext, Errand

-----------------------------------------------------------------------------
(* Lists of locks.                                                         *)

\* Nth goes through a finite set of numbers in order.
LEMMA NthFacts ==
  ASSUME NEW I, I \subseteq Nat, IsFiniteSet(I)
  PROVE  /\ Cardinality(I) \in Nat
         /\ \A k \in 1 .. Cardinality(I) : Nth(I, k) \in I /\ Rank(I, Nth(I, k)) = k
         /\ \A k, m \in 1 .. Cardinality(I) : Nth(I, k) = Nth(I, m) => k = m
         /\ \A i \in I : \E k \in 1 .. Cardinality(I) : Nth(I, k) = i
         /\ I # {} => \E i \in I : \A j \in I : i <= j
         /\ \A i \in I : Rank(I, i) \in 1 .. Cardinality(I) /\ Nth(I, Rank(I, i)) = i
<1> DEFINE n == Cardinality(I)
           rank == [i \in I |-> Rank(I, i)]
<1>1. n \in Nat
  BY FS_CardinalityType
<1>2. \A i \in I : Rank(I, i) \in 1 .. n
  <2> TAKE i \in I
  <2> DEFINE L == {j \in I : j <= i}
  <2>1. L \in SUBSET I /\ i \in L
    OBVIOUS
  <2>2. IsFiniteSet(L) /\ Cardinality(L) <= n
    BY <2>1, FS_Subset
  <2>3. Cardinality(L) \in Nat /\ Cardinality(L) # 0
    BY <2>1, <2>2, FS_CardinalityType, FS_EmptySet
  <2>4. QED
    BY <1>1, <2>2, <2>3 DEF Rank
<1>3. ASSUME NEW i \in I, NEW j \in I, i < j
      PROVE  Rank(I, i) # Rank(I, j)
  <2> DEFINE L == {m \in I : m <= i}
             M == {m \in I : m <= j}
  <2>1. \A m \in I : m <= i => m <= j
    BY <1>3
  <2>2. L \in SUBSET M /\ M \in SUBSET I
    BY <2>1
  <2>3. j \in M /\ j \notin L
    BY <1>3
  <2>4. IsFiniteSet(M)
    BY <2>2, FS_Subset
  <2>5. Cardinality(M) # Cardinality(L)
    <3> HIDE DEF L, M
    <3> QED
      BY <2>2, <2>3, <2>4, FS_Subset
  <2>6. QED
    BY <2>5 DEF Rank
<1>4. \A i, j \in I : Rank(I, i) = Rank(I, j) => i = j
  <2> TAKE i, j \in I
  <2>1. i < j \/ j < i \/ i = j
    OBVIOUS
  <2>2. QED
    BY <1>3, <2>1
<1>5. rank \in Injection(I, 1 .. n)
  BY <1>2, <1>4 DEF Injection, IsInjective
<1>6. IsFiniteSet(1 .. n) /\ Cardinality(1 .. n) = n
  BY <1>1, FS_Interval
<1>7. rank \in Surjection(I, 1 .. n)
  <2> HIDE DEF rank
  <2> QED
    BY <1>5, <1>6, FS_Injection
<1>8. \A k \in 1 .. n : \E i \in I : Rank(I, i) = k
  BY <1>7 DEF Surjection
<1>9. \A k \in 1 .. n : Nth(I, k) \in I /\ Rank(I, Nth(I, k)) = k
  BY <1>8 DEF Nth
<1>10. \A i \in I : Nth(I, Rank(I, i)) = i
  BY <1>2, <1>4, <1>9
<1>11. ASSUME I # {}
       PROVE  \E i \in I : \A j \in I : i <= j
  <2>0. 1 \in 1 .. n
    <3>1. PICK x \in I : Rank(I, x) \in 1 .. n
      BY <1>2, <1>11
    <3>2. QED
      BY <1>1, <3>1
  <2>1. PICK i \in I : Rank(I, i) = 1
    BY <1>8, <2>0
  <2> DEFINE L == {j \in I : j <= i}
  <2>2. IsFiniteSet(L) /\ i \in L
    BY FS_Subset
  <2>3. \E x : L = {x}
    BY <2>1, <2>2, FS_Singleton DEF Rank
  <2>4. ASSUME NEW j \in I, j < i
        PROVE  FALSE
    BY <2>2, <2>3, <2>4
  <2>5. QED
    BY <2>4
<1>12. QED
  BY <1>1, <1>2, <1>9, <1>10, <1>11

\* The entries of a list at some places are those, and all of those.
LEMMA AtFacts ==
  ASSUME NEW X, NEW list \in Seq(X), NEW S, S \subseteq DOMAIN list
  PROVE  /\ At(list, S) \in Seq(X)
         /\ \A k \in DOMAIN At(list, S) : \E i \in S : At(list, S)[k] = list[i]
         /\ \A i \in S : \E k \in DOMAIN At(list, S) : At(list, S)[k] = list[i]
<1> DEFINE n == Cardinality(S)
<1>1. DOMAIN list = 1 .. Len(list) /\ Len(list) \in Nat
  OBVIOUS
<1>2. S \subseteq Nat /\ IsFiniteSet(S)
  <2>1. IsFiniteSet(1 .. Len(list))
    BY <1>1, FS_Interval
  <2>2. QED
    BY <1>1, <2>1, FS_Subset
<1>3. /\ n \in Nat
      /\ \A k \in 1 .. n : Nth(S, k) \in S
      /\ \A i \in S : \E k \in 1 .. n : Nth(S, k) = i
  BY <1>2, NthFacts
<1>4. \A i \in S : list[i] \in X
  BY <1>1
<1>5. At(list, S) = [k \in 1 .. n |-> list[Nth(S, k)]]
  BY DEF At
<1> HIDE DEF n
<1>6. At(list, S) \in [1 .. n -> X]
  BY <1>3, <1>4, <1>5
<1>7. At(list, S) \in Seq(X) /\ DOMAIN At(list, S) = 1 .. n
  BY <1>3, <1>5, <1>6
<1>8. QED
  BY <1>3, <1>5, <1>7

\* Their queries.
LEMMA AtQueries ==
  ASSUME NEW X, NEW list \in Seq(X), NEW S, S \subseteq DOMAIN list
  PROVE  Queries(At(list, S)) = { Query(list[i]) : i \in S }
BY AtFacts DEF Queries

\* Without anything to leave out, the list stays.
LEMMA WithoutNothing ==
  ASSUME NEW X, NEW list \in Seq(X)
  PROVE  Without(list, {}) = list
<1> DEFINE S == 1 .. Len(list)
<1>1. DOMAIN list = S /\ Len(list) \in Nat
  OBVIOUS
<1>2. IsFiniteSet(S) /\ Cardinality(S) = Len(list) /\ S \subseteq Nat
  BY <1>1, FS_Interval
<1>3. ASSUME NEW k \in S
      PROVE  Nth(S, k) = k
  <2>1. { j \in S : j <= k } = 1 .. k /\ k \in Nat
    BY <1>1
  <2>2. Cardinality(1 .. k) = k
    BY <2>1, FS_Interval
  <2>3. Rank(S, k) = k
    BY <2>1, <2>2 DEF Rank
  <2> HIDE DEF S
  <2>4. QED
    BY <1>2, <2>3, NthFacts
<1>4. { i \in DOMAIN list : Query(list[i]) \notin {} } = S
  BY <1>1
<1>5. Without(list, {}) = [k \in 1 .. Len(list) |-> list[Nth(S, k)]]
  BY <1>2, <1>4 DEF Without, At
<1>6. [k \in 1 .. Len(list) |-> list[Nth(S, k)]] = [k \in 1 .. Len(list) |-> list[k]]
  BY <1>3
<1>7. list = [k \in 1 .. Len(list) |-> list[k]]
  OBVIOUS
<1>8. QED
  BY <1>5, <1>6, <1>7

\* What is left out is gone, and nothing else.
LEMMA WithoutFacts ==
  ASSUME NEW X, NEW list \in Seq(X), NEW gone
  PROVE  /\ Without(list, gone) \in Seq(X)
         /\ Queries(Without(list, gone)) = Queries(list) \ gone
<1> DEFINE S == { i \in DOMAIN list : Query(list[i]) \notin gone }
<1>1. Without(list, gone) = At(list, S)
  BY DEF Without
<1>2. S \subseteq DOMAIN list
  OBVIOUS
<1>3. { Query(list[i]) : i \in S } = Queries(list) \ gone
  BY DEF Queries
<1> HIDE DEF S
<1>4. QED
  BY <1>1, <1>2, <1>3, AtFacts, AtQueries

\* Without its duplicates a list has the same queries.
LEMMA FirstFacts ==
  ASSUME NEW X, NEW list \in Seq(X)
  PROVE  /\ FirstOfItsKind(list) \in Seq(X)
         /\ Queries(FirstOfItsKind(list)) = Queries(list)
<1> DEFINE S == { i \in DOMAIN list : \A j \in 1..(i - 1) : Query(list[j]) # Query(list[i]) }
<1>1. FirstOfItsKind(list) = At(list, S)
  BY DEF FirstOfItsKind
<1>2. S \subseteq DOMAIN list
  OBVIOUS
<1>3. ASSUME NEW i \in DOMAIN list
      PROVE  \E j \in S : Query(list[j]) = Query(list[i])
  <2> DEFINE I == { j \in 1 .. Len(list) : Query(list[j]) = Query(list[i]) }
  <2>1. I # {} /\ I \subseteq 1 .. Len(list) /\ I \subseteq Nat
    OBVIOUS
  <2>2. IsFiniteSet(I)
    <3>1. IsFiniteSet(1 .. Len(list))
      BY FS_Interval
    <3> HIDE DEF I
    <3>2. QED
      BY <2>1, <3>1, FS_Subset
  <2>3. PICK m \in I : \A j \in I : m <= j
    <3> HIDE DEF I
    <3> QED
      BY <2>1, <2>2, NthFacts
  <2>4. m \in DOMAIN list /\ Query(list[m]) = Query(list[i])
    BY <2>3
  <2>5. \A j \in 1..(m - 1) : Query(list[j]) # Query(list[m])
    BY <2>3, <2>4
  <2>6. QED
    BY <2>4, <2>5
<1>4. { Query(list[i]) : i \in S } = Queries(list)
  BY <1>2, <1>3 DEF Queries
<1> HIDE DEF S
<1>5. Queries(At(list, S)) = { Query(list[i]) : i \in S }
  BY <1>2, AtQueries
<1>6. At(list, S) \in Seq(X)
  BY <1>2, AtFacts
<1>7. QED
  BY <1>1, <1>4, <1>5, <1>6

\* What is added comes after what was there.
LEMMA AddFacts ==
  ASSUME NEW X, NEW list \in Seq(X), NEW new \in Seq(X)
  PROVE  /\ AddLocks(list, new) \in Seq(X)
         /\ Queries(list) \subseteq Queries(AddLocks(list, new))
<1>1. Without(new, Queries(list)) \in Seq(X)
  BY WithoutFacts
<1>2. PICK more \in Seq(X) : AddLocks(list, new) = list \o more
  BY <1>1, FirstFacts DEF AddLocks
<1>3. \A i \in DOMAIN list : i \in DOMAIN (list \o more) /\ (list \o more)[i] = list[i]
  OBVIOUS
<1>4. list \o more \in Seq(X)
  OBVIOUS
<1>5. QED
  BY <1>2, <1>3, <1>4 DEF Queries

-----------------------------------------------------------------------------
(* Types.                                                                  *)

PoolTypes ==
  /\ scene \in Scenes
  /\ status \in [Patches -> {"broken", "satisfied", "irrelevant"}]
  /\ installed \in [Packages -> Edition]
  /\ reboot \in BOOLEAN
  /\ rounds \in 0..MaxRounds

ListTypes ==
  /\ locks \in Seq(Lock) /\ shown \in Seq(Lock)
  /\ shell \in BOOLEAN /\ exclude \in BOOLEAN
  /\ note \in {"", "reason"}
  /\ held = <<>> \/ (shell /\ Len(held) = 1 /\ held[1] \subseteq Lock)

Codes == {EXIT_OK, ERR_BUG, ERR_ZYPP, ERR_COMMIT, INF_UPDATE_NEEDED, INF_SEC_UPDATE_NEEDED,
          INF_REBOOT_NEEDED, INF_RESTART_NEEDED, INF_CAP_NOT_FOUND}

\* A report as TypeOK wants it.
Reported(r) == r.code \in Codes /\ r.marked \subseteq Patches /\ r.stats.needed \subseteq Patches

Types == PoolTypes /\ ListTypes /\ Reported(report)

\* No report at all.
LEMMA NoReport == Reported(Report) /\ Report.stats.needed = {}
<1>1. Stats({}, TRUE).needed = {}
  BY DEF Stats
<1>2. /\ Report.code = EXIT_OK /\ Report.marked = {} /\ Report.stats = Stats({}, TRUE)
  BY DEF Report
<1>3. QED
  BY <1>1, <1>2 DEF Reported, Codes

\* The command line at hand.
LEMMA LineTypes ==
  ASSUME PoolTypes, NEW line \in scene.lines
  PROVE  line \in CommandLine
BY PoolAssumption DEF PoolTypes

\* The flags a command sets as it starts.
LEMMA StartTypes ==
  ASSUME ListTypes, NEW line \in CommandLine, NEW cmd, Starts(line, cmd)
  PROVE  exclude' \in BOOLEAN /\ note' \in {"", "reason"} /\ UNCHANGED <<scene, shell>>
<1>1. OptionalOf(line) \in BOOLEAN /\ Fixup(line, OptionalOf(line)) \in BOOLEAN
  BY DEF OptionalOf, Fixup
<1>2. Kept(exclude, TRUE) \in BOOLEAN
  BY DEF Kept, ListTypes
<1>3. Excluding(line) \in {OptionalOf(line), Fixup(line, OptionalOf(line)), Kept(exclude, TRUE)}
  BY DEF Excluding
<1>4. Excluding(line) \in BOOLEAN
  BY <1>1, <1>2, <1>3
<1>5. exclude' \in {Excluding(line), TRUE}
  BY DEF Starts
<1>6. note' \in {"", "reason"}
  BY DEF Starts, ListTypes, CommandLine
<1>7. exclude' \in BOOLEAN
  BY <1>4, <1>5
<1>8. QED
  BY <1>6, <1>7 DEF Starts

\* What the target is loaded with.
LEMMA LoadTypes ==
  ASSUME ListTypes, shell' = shell, LoadTarget \/ held' = held
  PROVE  held' = <<>> \/ (shell' /\ Len(held') = 1 /\ held'[1] \subseteq Lock)
<1>1. ToSet(locks) \subseteq Lock
  <2>1. locks \in Seq(Lock)
    BY DEF ListTypes
  <2>2. \A i \in DOMAIN locks : locks[i] \in Lock
    BY <2>1
  <2>3. QED
    BY <2>2 DEF ToSet
<1>2. LoadedLocks \subseteq Lock
  BY <1>1 DEF LoadedLocks, HeldLocks, Kept, ListTypes
<1>3. Len(<<LoadedLocks>>) = 1 /\ <<LoadedLocks>>[1] = LoadedLocks
  OBVIOUS
<1>4. CASE LoadTarget
  BY <1>2, <1>3, <1>4 DEF LoadTarget
<1>5. CASE held' = held
  BY <1>5 DEF ListTypes
<1>6. QED
  BY <1>4, <1>5

\* A command that leaves the lists of locks as they are.
LEMMA ListTypesStay ==
  ASSUME ListTypes, NEW line \in CommandLine, NEW cmd, Starts(line, cmd),
         LoadTarget \/ held' = held, locks' \in Seq(Lock), shown' \in Seq(Lock)
  PROVE  ListTypes'
BY StartTypes, LoadTypes DEF ListTypes

\* A command that only looks.
LEMMA LookTypes ==
  ASSUME Types, NEW line \in CommandLine, NEW cmd, Starts(line, cmd),
         LoadTarget \/ held' = held, LooksOnly, Reported(report')
  PROVE  Types'
<1>1. ListTypes'
  BY ListTypesStay DEF Types, LooksOnly, ListTypes
<1>2. PoolTypes'
  BY DEF Types, LooksOnly, PoolTypes, Starts
<1>3. Reported(report)'
  BY DEF Reported
<1>4. QED
  BY <1>1, <1>2, <1>3 DEF Types

\* Counts are of patches.
LEMMA StatsType ==
  ASSUME NEW collected, collected \subseteq Patches, NEW excl
  PROVE  Stats(collected, excl).needed \subseteq Patches
BY DEF Stats

\* What the lists show.
LEMMA ListsReported ==
  ASSUME NEW line, NEW found, Lists(line, found), found.stats.needed \subseteq Patches
  PROVE  Reported(report')
<1>1. report'.stats = found.stats /\ report'.code = Report.code /\ report'.marked = Report.marked
  BY DEF Lists, Report
<1>2. QED
  BY <1>1, NoReport DEF Reported

\* The commands that only look report what there is.
LEMMA LookingTypes ==
  ASSUME Types, NEW line \in scene.lines,
         \/ PatchCheck(line) \/ ListUpdates(line) \/ ListPatches(line) \/ ListPatchesByIssue(line)
         \/ NeedsRebooting(line)
  PROVE  Types'
<1>0. line \in CommandLine
  BY LineTypes DEF Types
<1>1. CASE PatchCheck(line)
  <2>1. PICK stats : /\ stats.needed \subseteq Patches
                     /\ report' = [Report EXCEPT !.cmd = line.cmd, !.line = line, !.stats = stats,
                                                 !.code = PatchCheckCode(stats)]
    BY <1>1, StatsType DEF PatchCheck
  <2>2. PatchCheckCode(stats) \in Codes
    BY DEF PatchCheckCode, Codes
  <2>3. report'.stats = stats /\ report'.code = PatchCheckCode(stats) /\ report'.marked = {}
    BY <2>1 DEF Report
  <2>4. Reported(report')
    BY <2>1, <2>2, <2>3 DEF Reported
  <2>5. QED
    BY <1>0, <1>1, <2>4, LookTypes DEF PatchCheck
<1>2. ASSUME NEW excl
      PROVE  PatchUpdates(line, excl).stats.needed \subseteq Patches
  BY StatsType DEF PatchUpdates, XmlLists, PatchTables
<1>3. CASE ListUpdates(line)
  <2>1. PICK found : Lists(line, found) /\ found.stats.needed \subseteq Patches
    <3>1. CASE "patch" \in line.kinds
      BY <1>2, <1>3, <3>1 DEF ListUpdates
    <3>2. CASE "patch" \notin line.kinds
      <4> DEFINE found == [first |-> {}, rest |-> {}, blocked |-> {}, affects |-> FALSE,
                           stats |-> Report.stats]
      <4>1. Lists(line, found)
        BY <1>3, <3>2 DEF ListUpdates
      <4>2. found.stats.needed \subseteq Patches
        BY NoReport
      <4> HIDE DEF found
      <4>3. QED
        BY <4>1, <4>2
    <3>3. QED
      BY <3>1, <3>2
  <2>2. QED
    BY <1>0, <1>3, <2>1, ListsReported, LookTypes DEF ListUpdates
<1>4. CASE ListPatches(line)
  BY <1>0, <1>2, <1>4, ListsReported, LookTypes DEF ListPatches
<1>5. CASE ListPatchesByIssue(line)
  <2> DEFINE found == [first |-> ByIssue(line).numbers, rest |-> ByIssue(line).descriptions,
                       blocked |-> ByIssue(line).unknown, affects |-> FALSE, stats |-> Report.stats]
  <2>1. Lists(line, found)
    BY <1>5 DEF ListPatchesByIssue
  <2>2. found.stats.needed \subseteq Patches
    BY NoReport
  <2> HIDE DEF found
  <2>3. QED
    BY <1>0, <1>5, <2>1, <2>2, ListsReported, LookTypes DEF ListPatchesByIssue
<1>6. CASE NeedsRebooting(line)
  <2>1. /\ report'.code \in {INF_REBOOT_NEEDED, EXIT_OK} /\ report'.marked = Report.marked
        /\ report'.stats = Report.stats
    BY <1>6 DEF NeedsRebooting, Report
  <2>2. Reported(report')
    BY <2>1, NoReport DEF Reported, Codes
  <2>3. QED
    BY <1>0, <1>6, <2>2, LookTypes DEF NeedsRebooting
<1>7. QED
  BY <1>1, <1>3, <1>4, <1>5, <1>6

\* A commit leaves editions and statuses behind.
LEMMA CommitTypes ==
  ASSUME PoolTypes, NEW patches, NEW packages, Commit(patches, packages)
  PROVE  /\ status' \in [Patches -> {"broken", "satisfied", "irrelevant"}]
         /\ installed' \in [Packages -> Edition] /\ reboot' \in BOOLEAN
<1>1. status' \in [Patches -> {"broken", "satisfied", "irrelevant"}]
  BY DEF Commit, PoolTypes
<1>2. NotInstalled \in Edition
  BY DEF NotInstalled, Edition
<1>3. \A n \in Packages : scene.pick[n] \in Edition
  BY <1>2, PoolAssumption DEF PoolTypes
<1>4. installed' \in [Packages -> Edition]
  BY <1>3 DEF Commit, PoolTypes
<1>5. reboot' = (reboot \/ \E p \in patches : Patch(p).asks)
  BY Zenon DEF Commit
<1>6. (reboot \/ \E p \in patches : Patch(p).asks) \in BOOLEAN
  OBVIOUS
<1>7. reboot' \in BOOLEAN
  BY <1>5, <1>6, Zenon
<1>8. QED
  BY <1>1, <1>4, <1>7

\* A command that solves and commits.
LEMMA InstallTypes ==
  ASSUME Types, NEW line \in CommandLine, NEW cmd, Starts(line, cmd), LoadTarget,
         NEW patches, patches \subseteq Patches, NEW packages, NEW notFound,
         SolveAndCommit(line, patches, packages, notFound)
  PROVE  Types'
<1>1. \E code \in Codes : \E went :
        report' = [Report EXCEPT !.cmd = line.cmd, !.line = line, !.marked = patches,
                                 !.packages = packages, !.code = code, !.went = went]
  BY DEF SolveAndCommit, Codes, CommitCode
<1>2. Reported(report')
  BY <1>1, NoReport DEF Reported, Report
<1>3. CASE LooksOnly
  BY <1>2, <1>3, LookTypes
<1>4. CASE /\ Commit(patches, packages) /\ UNCHANGED <<locks, shown>>
           /\ rounds' = rounds \/ (rounds < MaxRounds /\ rounds' = rounds + 1)
  <2>1. PoolTypes'
    <3>1. rounds' \in 0..MaxRounds
      BY <1>4, PoolAssumption DEF Types, PoolTypes
    <3>2. /\ status' \in [Patches -> {"broken", "satisfied", "irrelevant"}]
          /\ installed' \in [Packages -> Edition] /\ reboot' \in BOOLEAN
      BY <1>4, CommitTypes DEF Types
    <3>3. scene' \in Scenes
      BY DEF Types, PoolTypes, Starts
    <3>4. QED
      BY <3>1, <3>2, <3>3 DEF PoolTypes
  <2>2. ListTypes'
    BY <1>4, ListTypesStay DEF Types, ListTypes
  <2>3. Reported(report)'
    BY <1>2 DEF Reported
  <2>4. QED
    BY <2>1, <2>2, <2>3 DEF Types
<1>5. QED
  BY <1>3, <1>4 DEF SolveAndCommit

\* patch, patch by issue and update.
LEMMA InstallingTypes ==
  ASSUME Types, NEW line \in scene.lines, PatchCmd(line) \/ PatchByIssue(line) \/ UpdateCmd(line)
  PROVE  Types'
<1>0. line \in CommandLine
  BY LineTypes DEF Types
<1>1. \A excl : Marked(line, excl) \subseteq Patches
  BY DEF Marked
<1>2. \A excl : UNION { MarkedFor(i, line, excl) : i \in line.issues } \subseteq Patches
  BY DEF MarkedFor
<1>3. CASE PatchCmd(line)
  <2>1. PICK excl, packages : SolveAndCommit(line, Marked(line, excl), packages, FALSE)
    BY <1>3 DEF PatchCmd
  <2>2. QED
    BY <1>0, <1>1, <1>3, <2>1, InstallTypes DEF PatchCmd
<1>4. CASE PatchByIssue(line)
  <2> DEFINE excl == Excluding(line) /\ ~line.withUpdate
             fixes == [i \in line.issues |-> MarkedFor(i, line, excl)]
             all == UNION { fixes[i] : i \in line.issues }
  <2>1. all \subseteq Patches
    BY DEF MarkedFor
  <2>2. PICK packages, notFound : SolveAndCommit(line, all, packages, notFound)
    BY <1>4 DEF PatchByIssue
  <2> HIDE DEF all
  <2>3. QED
    BY <1>0, <1>4, <2>1, <2>2, InstallTypes DEF PatchByIssue
<1>5. CASE UpdateCmd(line)
  <2> DEFINE patches == IF "patch" \in line.kinds THEN Marked(line, Excluding(line)) ELSE {}
  <2>0. patches \subseteq Patches
    BY <1>1
  <2>1. PICK packages : SolveAndCommit(line, patches, packages, FALSE)
    BY <1>5 DEF UpdateCmd
  <2> HIDE DEF patches
  <2>2. QED
    BY <1>0, <1>5, <2>0, <2>1, InstallTypes DEF UpdateCmd
<1>6. QED
  BY <1>3, <1>4, <1>5

\* What is in a list.
LEMMA ElementType ==
  ASSUME NEW X, NEW s \in Seq(X), NEW i \in DOMAIN s
  PROVE  s[i] \in X
<1>1. DOMAIN s = 1 .. Len(s)
  OBVIOUS
<1>2. QED
  BY <1>1

\* The arguments of a command.
LEMMA ArgTypes ==
  ASSUME NEW line \in CommandLine
  PROVE  /\ line.args \in Seq([number : Nat, name : Names, kind : Kinds \cup {""}])
         /\ DOMAIN line.args = 1 .. Len(line.args) /\ Len(line.args) \in Nat
         /\ line.comment \in {"", "reason"}
<1>1. /\ line.args \in Seq([number : Nat, name : Names, kind : Kinds \cup {""}])
      /\ line.comment \in {"", "reason"}
  BY DEF CommandLine
<1>2. \A X : line.args \in Seq(X) => DOMAIN line.args = 1 .. Len(line.args) /\ Len(line.args) \in Nat
  OBVIOUS
<1>3. QED
  BY <1>1, <1>2

\* A lock made of one.
LEMMA QueryTypes ==
  ASSUME NEW line \in CommandLine, NEW k \in DOMAIN line.args, NEW comment \in {"", "reason"}
  PROVE  Arg2Query(line.args[k], line, comment) \in Lock
<1>1. line.args[k] \in [number : Nat, name : Names, kind : Kinds \cup {""}]
  <2>1. line.args \in Seq([number : Nat, name : Names, kind : Kinds \cup {""}])
    BY ArgTypes
  <2>2. \A X, s : s \in Seq(X) => \A i \in DOMAIN s : s[i] \in X
    BY ElementType
  <2>3. QED
    BY <2>1, <2>2, Zenon
<1>2. line.kinds \subseteq Kinds
  BY DEF CommandLine
<1>3. line.args[k].name \in Names /\ line.args[k].kind \in Kinds \cup {""}
  BY <1>1
<1>4. line.repos \cap Repos \subseteq Repos /\ "package" \in Kinds
  BY DEF Kinds
<1>5. QED
  BY <1>2, <1>3, <1>4 DEF Arg2Query, Lock

\* A command that edits the list.
LEMMA EditTypes ==
  ASSUME Types, NEW line \in CommandLine, NEW cmd, Starts(line, cmd),
         LoadTarget \/ held' = held, NEW list \in Seq(Lock), NEW failure \in Codes,
         Edits(line, list, failure)
  PROVE  Types'
<1>1. /\ report'.code \in Codes /\ report'.marked = Report.marked /\ report'.stats = Report.stats
      /\ locks' \in {list, locks} /\ shown' = shown /\ rounds' \in {0, rounds}
      /\ UNCHANGED system
  <2>1. CASE /\ report' = [Report EXCEPT !.cmd = line.cmd, !.line = line, !.went = TRUE]
             /\ locks' = list /\ rounds' = 0
    BY <2>1 DEF Report, Codes, Edits
  <2>2. CASE /\ report' = [Report EXCEPT !.cmd = line.cmd, !.line = line, !.code = failure]
             /\ UNCHANGED <<locks, rounds>>
    BY <2>2 DEF Report, Edits
  <2>3. QED
    BY <2>1, <2>2 DEF Edits
<1>2. Reported(report')
  BY <1>1, NoReport DEF Reported
<1>3. locks' \in Seq(Lock) /\ shown' \in Seq(Lock)
  BY <1>1 DEF Types, ListTypes
<1>4. ListTypes'
  BY <1>3, ListTypesStay DEF Types
<1>5. PoolTypes'
  <2>1. rounds' \in 0..MaxRounds
    BY <1>1, PoolAssumption DEF Types, PoolTypes
  <2>2. QED
    BY <1>1, <2>1 DEF Types, PoolTypes, Starts, system
<1>6. Reported(report)'
  BY <1>2 DEF Reported
<1>7. QED
  BY <1>4, <1>5, <1>6 DEF Types

\* The four lock commands.
LEMMA LockCommandTypes ==
  ASSUME Types, NEW line \in scene.lines,
         AddLocksCmd(line) \/ RemoveLocksCmd(line) \/ CleanLocksCmd(line) \/ ListLocksCmd(line)
  PROVE  Types'
<1>0. line \in CommandLine /\ locks \in Seq(Lock) /\ ERR_ZYPP \in Codes /\ ERR_BUG \in Codes
  BY LineTypes DEF Types, ListTypes, Codes
<1>1. CASE AddLocksCmd(line)
  <2> DEFINE comment == IF line.comment # "" THEN line.comment ELSE Kept(note, "")
             new == [k \in DOMAIN line.args |-> Arg2Query(line.args[k], line, comment)]
  <2>1. comment \in {"", "reason"}
    BY <1>0, ArgTypes DEF Kept, Types, ListTypes
  <2>2. new \in Seq(Lock)
    <3>1. DOMAIN line.args = 1 .. Len(line.args) /\ Len(line.args) \in Nat
      BY <1>0, ArgTypes
    <3> HIDE DEF comment
    <3>2. \A k \in DOMAIN line.args : Arg2Query(line.args[k], line, comment) \in Lock
      BY <1>0, <2>1, QueryTypes
    <3>3. QED
      BY <3>1, <3>2
  <2>3. Edits(line, AddLocks(locks, new), ERR_ZYPP) /\ Starts(line, "addlock") /\ held' = held
    BY <1>1 DEF AddLocksCmd
  <2> HIDE DEF new
  <2>4. AddLocks(locks, new) \in Seq(Lock)
    BY <1>0, <2>2, AddFacts
  <2>5. QED
    BY <1>0, <2>3, <2>4, EditTypes
<1>2. CASE RemoveLocksCmd(line)
  <2>1. PICK gone : Edits(line, Without(locks, gone), ERR_ZYPP)
    BY <1>2 DEF RemoveLocksCmd
  <2>2. Starts(line, "removelock") /\ held' = held
    BY <1>2 DEF RemoveLocksCmd
  <2>3. Without(locks, gone) \in Seq(Lock)
    BY <1>0, WithoutFacts
  <2>4. QED
    BY <1>0, <2>1, <2>2, <2>3, EditTypes
<1>3. CASE CleanLocksCmd(line)
  <2> DEFINE left == { i \in DOMAIN locks : ~LocksNothing(locks[i]) }
             used == IF line.onlyDuplicates THEN locks ELSE At(locks, left)
             list == IF line.onlyEmpty THEN used ELSE FirstOfItsKind(used)
  <2>1. Starts(line, "cleanlocks") /\ LoadTarget /\ Edits(line, list, ERR_BUG)
    BY <1>3 DEF CleanLocksCmd
  <2>2. left \subseteq DOMAIN locks
    OBVIOUS
  <2>3. used \in Seq(Lock)
    <3> HIDE DEF left
    <3> QED
      BY <1>0, <2>2, AtFacts
  <2> HIDE DEF used
  <2>4. list \in Seq(Lock)
    BY <2>3, FirstFacts
  <2> HIDE DEF list
  <2>5. QED
    BY <1>0, <2>1, <2>4, EditTypes
<1>4. CASE ListLocksCmd(line)
  <2>1. Starts(line, "locks") /\ UNCHANGED <<system, locks, held, rounds>>
    BY <1>4 DEF ListLocksCmd
  <2>2. shown' \in Seq(Lock)
    BY <1>0, <1>4 DEF ListLocksCmd, Types, ListTypes
  <2>3. /\ report'.code \in {EXIT_OK, ERR_ZYPP} /\ report'.marked = Report.marked
        /\ report'.stats = Report.stats
    BY <1>4 DEF ListLocksCmd, Report
  <2>4. Reported(report)'
    BY <2>3, NoReport DEF Reported, Codes
  <2>5. ListTypes'
    BY <1>0, <2>1, <2>2, ListTypesStay DEF Types
  <2>6. PoolTypes'
    BY <2>1 DEF Types, PoolTypes, Starts, system
  <2>7. QED
    BY <2>4, <2>5, <2>6 DEF Types
<1>5. QED
  BY <1>1, <1>2, <1>3, <1>4

\* The steps around the commands of PatchLists.
LEMMA ShiftTypes ==
  ASSUME Types, ShellSwitch \/ Publish \/ Reboot
  PROVE  Types'
<1>1. report' = Report
  BY DEF ShellSwitch, Publish, Reboot
<1>2. Reported(report)'
  BY <1>1, NoReport DEF Reported
<1>3. 0 \in 0 .. MaxRounds
  BY PoolAssumption
<1>4. CASE ShellSwitch
  BY <1>2, <1>3, <1>4 DEF ShellSwitch, Types, PoolTypes, ListTypes, system
<1>5. CASE Publish
  BY <1>2, <1>3, <1>5 DEF Publish, Types, PoolTypes, ListTypes
<1>6. CASE Reboot
  BY <1>2, <1>3, <1>6 DEF Reboot, Types, PoolTypes, ListTypes
<1>7. QED
  BY <1>4, <1>5, <1>6

\* The commands that only fetch files.
LEMMA ErrandTypes ==
  ASSUME Types, NEW errand, DownloadCmd(errand) \/ SourceDownloadCmd(errand)
  PROVE  Types'
<1>1. /\ report' = Report /\ exclude' = Kept(exclude, TRUE)
      /\ UNCHANGED <<scene, system, locks, shell, note, shown, rounds>>
  <2>1. Fetches(errand, "download") \/ Fetches(errand, "source-download")
    BY Zenon DEF DownloadCmd, SourceDownloadCmd
  <2>2. QED
    BY <2>1 DEF Fetches
<1>2. LoadTarget \/ held' = held
  BY Zenon DEF DownloadCmd, SourceDownloadCmd, CannotStart
<1>3. Reported(report)'
  BY <1>1, NoReport DEF Reported
<1>4. exclude' \in BOOLEAN
  BY <1>1 DEF Kept, Types, ListTypes
<1>5. held' = <<>> \/ (shell' /\ Len(held') = 1 /\ held'[1] \subseteq Lock)
  BY <1>1, <1>2, LoadTypes DEF Types
<1>6. ListTypes'
  BY <1>1, <1>4, <1>5 DEF Types, ListTypes
<1>7. PoolTypes'
  BY <1>1 DEF Types, PoolTypes, system
<1>8. QED
  BY <1>3, <1>6, <1>7 DEF Types

\* Every step keeps the types.
LEMMA TypesStep == Types /\ [DownloadsNext]_allVars => Types'
<1> SUFFICES ASSUME Types, [DownloadsNext]_allVars
             PROVE  Types'
  OBVIOUS
<1>1. CASE UNCHANGED allVars
  BY <1>1 DEF allVars, vars, system, Types, PoolTypes, ListTypes, Reported
<1>2. ASSUME NEW line \in scene.lines, Command(line)
      PROVE  Types'
  BY <1>2, LookingTypes, InstallingTypes, LockCommandTypes DEF Command
<1>3. CASE ShellSwitch \/ Publish \/ Reboot
  BY <1>3, ShiftTypes
<1>4. ASSUME NEW errand, DownloadCmd(errand) \/ SourceDownloadCmd(errand)
      PROVE  Types'
  BY <1>4, ErrandTypes
<1>5. QED
  BY <1>1, <1>2, <1>3, <1>4 DEF DownloadsNext, Next, Errand

\* What is in the cache and in the directory, and how the last of these commands ended.
FileTypes ==
  /\ \A i \in cache : i[1] \in Packages /\ i[2] \in scene.offers[i[1]]
  /\ \A f \in sources : f.own \in BOOLEAN /\ f.source[2] \in Edition
  /\ outcome.code \in {EXIT_OK, ERR_BUG, ERR_PRIVILEGES, INF_CAP_NOT_FOUND, ON_SIGNAL}
  /\ outcome.got \subseteq outcome.missing

\* An outcome as DownloadsTypeOK wants it.
Ended(o) ==
  o.code \in {EXIT_OK, ERR_BUG, ERR_PRIVILEGES, INF_CAP_NOT_FOUND, ON_SIGNAL} /\ o.got \subseteq o.missing

\* A command that could not start got nothing.
LEMMA FailsEnded ==
  ASSUME NEW errand, NEW code \in {EXIT_OK, ERR_BUG, ERR_PRIVILEGES}, Fails(errand, code)
  PROVE  Ended(outcome')
<1>1. outcome'.code = code /\ outcome'.got = {} /\ outcome'.missing = {}
  BY DEF Fails, Outcome
<1>2. QED
  BY <1>1 DEF Ended

\* The two commands end with one of their codes, and got nothing that was not missing.
LEMMA ErrandEnds ==
  ASSUME NEW errand, DownloadCmd(errand) \/ SourceDownloadCmd(errand)
  PROVE  Ended(outcome')
<1>1. CASE DownloadCmd(errand)
  <2>1. CASE Fails(errand, ERR_PRIVILEGES)
    BY <2>1, FailsEnded
  <2>2. CASE ~Fails(errand, ERR_PRIVILEGES)
    <3>1. \E info \in {INF_CAP_NOT_FOUND, EXIT_OK} : \E missing :
             \E got \in SUBSET missing : \E code \in {info} \cup { ON_SIGNAL : i \in missing } :
               outcome' = [Outcome EXCEPT !.cmd = "download", !.errand = errand, !.code = code,
                                          !.missing = missing, !.got = got]
      BY <1>1, <2>2, Zenon DEF DownloadCmd
    <3>2. PICK info, missing, got, code :
            /\ info \in {INF_CAP_NOT_FOUND, EXIT_OK} /\ got \subseteq missing /\ code \in {info, ON_SIGNAL}
            /\ outcome' = [Outcome EXCEPT !.cmd = "download", !.errand = errand, !.code = code,
                                          !.missing = missing, !.got = got]
      BY <3>1
    <3>3. outcome'.code = code /\ outcome'.missing = missing /\ outcome'.got = got
      BY <3>2 DEF Outcome
    <3>4. code \in {INF_CAP_NOT_FOUND, EXIT_OK, ON_SIGNAL} /\ got \subseteq missing
      BY <3>2
    <3>5. QED
      BY <3>3, <3>4 DEF Ended
  <2>3. QED
    BY <2>1, <2>2
<1>2. CASE SourceDownloadCmd(errand)
  <2> DEFINE superfluous == LocalSources \ NeededSources
             missing == NeededSources \ LocalSources
             Ends(code, got) ==
               outcome' = [Outcome EXCEPT !.cmd = "source-download", !.errand = errand, !.code = code,
                                          !.missing = missing, !.superfluous = superfluous, !.got = got]
  <2>1. \/ CannotStart(errand)
        \/ Ends(EXIT_OK, {})
        \/ \E got \in SUBSET (missing \cap scene.sources) :
             \E code \in {EXIT_OK} \cup { ON_SIGNAL : s \in missing } : Ends(code, got)
    BY <1>2, Zenon DEF SourceDownloadCmd
  <2>2. CASE CannotStart(errand)
    BY <2>2, FailsEnded DEF CannotStart
  <2> HIDE DEF superfluous, missing
  <2>3. ASSUME NEW code, NEW got, Ends(code, got)
        PROVE  outcome'.code = code /\ outcome'.missing = missing /\ outcome'.got = got
    BY <2>3 DEF Outcome
  <2> HIDE DEF Ends
  <2>4. CASE Ends(EXIT_OK, {})
    BY <2>3, <2>4 DEF Ended
  <2>5. ASSUME NEW got \in SUBSET (missing \cap scene.sources),
               NEW code \in {EXIT_OK} \cup { ON_SIGNAL : s \in missing }, Ends(code, got)
        PROVE  Ended(outcome')
    <3>1. code \in {EXIT_OK, ON_SIGNAL}
      OBVIOUS
    <3>2. QED
      BY <2>3, <2>5, <3>1 DEF Ended
  <2>6. QED
    BY <2>1, <2>2, <2>4, <2>5
<1>3. QED
  BY <1>1, <1>2

\* What is fetched is an offer of a package, or the source of an installed one.
LEMMA FileTypesStep == Types /\ FileTypes /\ [DownloadsNext]_allVars => FileTypes'
<1> SUFFICES ASSUME Types, FileTypes, [DownloadsNext]_allVars
             PROVE  FileTypes'
  OBVIOUS
<1>0. scene \in Scenes /\ installed \in [Packages -> Edition]
  BY DEF Types, PoolTypes
<1>1. CASE UNCHANGED allVars
  BY <1>1 DEF allVars, vars, FileTypes
<1>2. CASE Next /\ outcome' = Outcome /\ UNCHANGED <<cache, sources>>
  <2>1. scene' = scene
    BY <1>2, CheckReports, ListReports, IssueReports, UpdateReports
    DEF Next, Command, Quiet, PatchCmd, PatchByIssue, UpdateCmd, NeedsRebooting, AddLocksCmd,
        RemoveLocksCmd, CleanLocksCmd, ListLocksCmd, Starts, ShellSwitch, Publish, Reboot
  <2>2. outcome'.code = EXIT_OK /\ outcome'.got = {} /\ outcome'.missing = {}
    BY <1>2 DEF Outcome
  <2>3. QED
    BY <1>2, <2>1, <2>2 DEF FileTypes
<1>3. ASSUME NEW errand \in scene.errands, DownloadCmd(errand)
      PROVE  FileTypes'
  <2>1. UNCHANGED <<scene, sources>> /\ Ended(outcome')
    BY <1>0, <1>3, DownloadEnds, ErrandEnds
  <2>2. \A i \in cache' \ cache : \E a \in ToSet(errand.args) : i \in Items(a)
    BY <1>0, <1>3, DownloadEnds
  <2>3. ASSUME NEW a \in ToSet(errand.args), NEW i \in Items(a)
        PROVE  i[1] \in Packages /\ i[2] \in scene.offers[i[1]]
    <3>1. Matching[a] \subseteq Packages
      BY <1>0, FilesAssumption
    <3>2. QED
      BY <3>1, ItemFacts
  <2>4. \A i \in cache' : i[1] \in Packages /\ i[2] \in scene.offers[i[1]]
    BY <2>2, <2>3 DEF FileTypes
  <2>5. QED
    BY <2>1, <2>4 DEF FileTypes, Ended
<1>4. ASSUME NEW errand \in scene.errands, SourceDownloadCmd(errand)
      PROVE  FileTypes'
  <2>1. UNCHANGED cache /\ Ended(outcome')
    BY <1>4, SourceDownloadEnds, ErrandEnds
  <2>2. scene' = scene
    BY <1>4, FetchingIsQuiet DEF Quiet
  <2>3. outcome'.started => outcome'.missing = NeededSources \ LocalSources
    BY <1>4, SourceDownloadEnds
  <2>4. \A f \in sources' \ sources : \E s \in NeededSources : f = File(s)
    BY <1>4, SourceDownloadEnds
  <2>5. \A s \in NeededSources : s[2] \in Edition
    BY <1>0 DEF NeededSources, Source
  <2>6. \A s : File(s).own = TRUE /\ File(s).source = s
    BY DEF File
  <2>7. ASSUME NEW f \in sources'
        PROVE  f.own \in BOOLEAN /\ f.source[2] \in Edition
    <3>1. CASE f \in sources
      BY <3>1 DEF FileTypes
    <3>2. CASE f \notin sources
      <4>1. PICK s \in NeededSources : f = File(s)
        BY <2>4, <3>2
      <4>2. f.own = TRUE /\ f.source[2] \in Edition
        BY <2>5, <2>6, <4>1
      <4>3. QED
        BY <4>2
    <3>3. QED
      BY <3>1, <3>2
  <2>8. QED
    BY <2>1, <2>2, <2>7 DEF FileTypes, Ended
<1>5. QED
  BY <1>1, <1>2, <1>3, <1>4 DEF DownloadsNext, Errand

-----------------------------------------------------------------------------
(* The locks that go, and the locks that hold.                             *)

\* What the last conjuncts of LocksAsNamed ask of the new report.
LocksHeld ==
  /\ \A p \in report'.marked : ~Locked(p)
  /\ report'.cmd \in {"patch", "update"} => \A u \in report'.packages : ~PackageLocked(u[1])

\* Nothing locked is marked or updated.
LEMMA MarksHeld ==
  /\ \A line, excl : \A p \in Marked(line, excl) : ~Locked(p)
  /\ \A i, line, excl : \A p \in MarkedFor(i, line, excl) : ~Locked(p)
  /\ \A u \in FindUpdates(FALSE) : ~PackageLocked(u[1])
<1>1. \A p, line, excl : Marks(p, line, excl) => ~Locked(p)
  BY DEF Marks, Unwanted
<1>2. \A line, excl : \A p \in Marked(line, excl) : Marks(p, line, excl)
  BY DEF Marked
<1>3. \A i, line, excl : \A p \in MarkedFor(i, line, excl) : Marks(p, line, excl)
  BY DEF MarkedFor
<1>4. ASSUME NEW u \in FindUpdates(FALSE)
      PROVE  ~PackageLocked(u[1])
  <2>1. PICK n \in Packages : Picked(n) /\ u = <<n, scene.pick[n]>>
    BY DEF FindUpdates
  <2>2. u[1] = n
    BY <2>1
  <2>3. QED
    BY <2>1, <2>2 DEF Picked
<1>5. QED
  BY <1>1, <1>2, <1>3, <1>4

\* The commands that install hold to the locks, and leave the list as it is.
LEMMA InstallHolds ==
  ASSUME NEW line, PatchCmd(line) \/ PatchByIssue(line) \/ UpdateCmd(line)
  PROVE  LocksHeld /\ locks' = locks
<1>1. ASSUME NEW patches, \A p \in patches : ~Locked(p),
             NEW packages, packages = {} \/ packages = FindUpdates(FALSE), NEW notFound,
             SolveAndCommit(line, patches, packages, notFound)
      PROVE  LocksHeld /\ locks' = locks
  <2>1. report'.marked = patches /\ report'.packages = packages
    BY <1>1, InstallReports
  <2>2. \A u \in packages : ~PackageLocked(u[1])
    BY <1>1, MarksHeld
  <2>3. locks' = locks
    BY <1>1 DEF SolveAndCommit, LooksOnly
  <2>4. QED
    BY <1>1, <2>1, <2>2, <2>3 DEF LocksHeld
<1>2. CASE PatchCmd(line)
  <2>1. PICK excl, packages : /\ packages = {} \/ packages = FindUpdates(FALSE)
                              /\ SolveAndCommit(line, Marked(line, excl), packages, FALSE)
    BY <1>2 DEF PatchCmd
  <2>2. QED
    BY <1>1, <2>1, MarksHeld
<1>3. CASE PatchByIssue(line)
  <2> DEFINE excl == Excluding(line) /\ ~line.withUpdate
             fixes == [i \in line.issues |-> MarkedFor(i, line, excl)]
             all == UNION { fixes[i] : i \in line.issues }
             packages == IF line.withUpdate THEN FindUpdates(FALSE) ELSE {}
             notFound == \E i \in line.issues : fixes[i] = {}
  <2>1. ASSUME NEW p \in all
        PROVE  ~Locked(p)
    <3>1. PICK i \in line.issues : p \in fixes[i]
      OBVIOUS
    <3>2. p \in MarkedFor(i, line, excl)
      BY <3>1
    <3> HIDE DEF excl
    <3>3. QED
      BY <3>2, MarksHeld
  <2>2. SolveAndCommit(line, all, packages, notFound)
    BY <1>3 DEF PatchByIssue
  <2>3. packages = {} \/ packages = FindUpdates(FALSE)
    OBVIOUS
  <2> HIDE DEF all, packages, notFound
  <2>4. QED
    BY <1>1, <2>1, <2>2, <2>3
<1>4. CASE UpdateCmd(line)
  <2> DEFINE patches == IF "patch" \in line.kinds THEN Marked(line, Excluding(line)) ELSE {}
             packages == IF "package" \in line.kinds THEN FindUpdates(FALSE) ELSE {}
  <2>1. \A p \in patches : ~Locked(p)
    BY MarksHeld
  <2>2. SolveAndCommit(line, patches, packages, FALSE)
    BY <1>4 DEF UpdateCmd
  <2>3. packages = {} \/ packages = FindUpdates(FALSE)
    OBVIOUS
  <2> HIDE DEF patches, packages
  <2>4. QED
    BY <1>1, <2>1, <2>2, <2>3
<1>5. QED
  BY <1>2, <1>3, <1>4

\* The other commands mark nothing.
LEMMA OthersHold ==
  ASSUME DownloadsNext, ~\E line : PatchCmd(line) \/ PatchByIssue(line) \/ UpdateCmd(line)
  PROVE  LocksHeld
<1>1. Report.marked = {} /\ Report.cmd = "none"
  BY DEF Report
<1>2. ASSUME NEW line, PatchCheck(line)
      PROVE  report'.marked = {} /\ report'.cmd = "patch-check"
  BY <1>1, <1>2, CheckReports DEF PatchCheck, Report
<1>3. ASSUME NEW line, NEW found, Lists(line, found)
      PROVE  report'.marked = {} /\ report'.cmd = line.cmd
  BY <1>3 DEF Lists, Report
<1>4. ASSUME NEW line, ListUpdates(line) \/ ListPatches(line) \/ ListPatchesByIssue(line)
      PROVE  report'.marked = {} /\ report'.cmd \in {"list-updates", "list-patches"}
  <2>1. line.cmd \in {"list-updates", "list-patches"}
    BY <1>4 DEF ListUpdates, ListPatches, ListPatchesByIssue, Starts
  <2>2. \E found : Lists(line, found)
    BY <1>4 DEF ListUpdates, ListPatches, ListPatchesByIssue
  <2>3. QED
    BY <1>3, <2>1, <2>2
<1>5. ASSUME NEW line, NeedsRebooting(line)
      PROVE  report'.marked = {} /\ report'.cmd = "needs-rebooting"
  BY <1>5 DEF NeedsRebooting, Starts, Report
<1>6. ASSUME NEW line,
             AddLocksCmd(line) \/ RemoveLocksCmd(line) \/ CleanLocksCmd(line) \/ ListLocksCmd(line)
      PROVE  report'.marked = {} /\ report'.cmd \in {"addlock", "removelock", "cleanlocks", "locks"}
  <2>1. line.cmd \in {"addlock", "removelock", "cleanlocks", "locks"}
    BY <1>6 DEF AddLocksCmd, RemoveLocksCmd, CleanLocksCmd, ListLocksCmd, Starts
  <2>2. report'.marked = {} /\ report'.cmd = line.cmd
    BY <1>6 DEF AddLocksCmd, RemoveLocksCmd, CleanLocksCmd, ListLocksCmd, Edits, Report
  <2>3. QED
    BY <2>1, <2>2
<1>7. CASE ShiftsOnly
  <2>1. CASE ShellSwitch \/ Publish \/ Reboot
    BY <1>1, <2>1 DEF ShellSwitch, Publish, Reboot, LocksHeld
  <2>2. ASSUME NEW errand, DownloadCmd(errand) \/ SourceDownloadCmd(errand)
        PROVE  LocksHeld
    <3>1. Fetches(errand, "download") \/ Fetches(errand, "source-download")
      BY <2>2, Zenon DEF DownloadCmd, SourceDownloadCmd
    <3>2. report' = Report
      BY <3>1 DEF Fetches
    <3>3. QED
      BY <1>1, <3>2 DEF LocksHeld
  <2>3. QED
    BY <1>7, <2>1, <2>2 DEF ShiftsOnly, Errand
<1>8. QED
  BY <1>2, <1>4, <1>5, <1>6, <1>7 DEF DownloadsNext, Next, Command, ShiftsOnly, LocksHeld

\* Only removelock reports as removelock.
LEMMA OtherNames ==
  ASSUME NEW line,
         \/ PatchCheck(line) \/ ListUpdates(line) \/ ListPatches(line) \/ ListPatchesByIssue(line)
         \/ PatchCmd(line) \/ PatchByIssue(line) \/ UpdateCmd(line) \/ NeedsRebooting(line)
         \/ AddLocksCmd(line) \/ CleanLocksCmd(line) \/ ListLocksCmd(line)
  PROVE  report'.cmd # "removelock"
<1>1. CASE PatchCheck(line) \/ ListUpdates(line) \/ ListPatches(line) \/ ListPatchesByIssue(line)
  BY <1>1, CheckReports, ListReports, IssueReports, UpdateReports
<1>2. CASE PatchCmd(line) \/ PatchByIssue(line) \/ UpdateCmd(line)
  <2>1. line.cmd # "removelock"
    BY <1>2 DEF PatchCmd, PatchByIssue, UpdateCmd, Starts
  <2>2. report'.cmd = line.cmd
    <3>1. CASE PatchCmd(line)
      BY <3>1, InstallReports DEF PatchCmd
    <3>2. CASE PatchByIssue(line)
      BY <3>2, InstallReports DEF PatchByIssue
    <3>3. CASE UpdateCmd(line)
      BY <3>3, InstallReports DEF UpdateCmd
    <3>4. QED
      BY <1>2, <3>1, <3>2, <3>3
  <2>3. QED
    BY <2>1, <2>2
<1>3. CASE NeedsRebooting(line)
  BY <1>3 DEF NeedsRebooting, Starts, Report
<1>4. CASE AddLocksCmd(line) \/ CleanLocksCmd(line) \/ ListLocksCmd(line)
  <2>1. report'.cmd = line.cmd
    BY <1>4 DEF AddLocksCmd, CleanLocksCmd, ListLocksCmd, Edits, Report
  <2>2. QED
    BY <1>4, <2>1 DEF AddLocksCmd, CleanLocksCmd, ListLocksCmd, Starts
<1>5. QED
  BY <1>1, <1>2, <1>3, <1>4

\* addlock takes nothing away.
LEMMA AddKeeps ==
  ASSUME Types, NEW line \in scene.lines, AddLocksCmd(line)
  PROVE  LocksRemoved(Queries(locks) \ Queries(locks'), report')
<1> DEFINE comment == IF line.comment # "" THEN line.comment ELSE Kept(note, "")
           new == [k \in DOMAIN line.args |-> Arg2Query(line.args[k], line, comment)]
<1>1. line \in CommandLine /\ locks \in Seq(Lock)
  BY LineTypes DEF Types, ListTypes
<1>2. comment \in {"", "reason"}
  BY <1>1, ArgTypes DEF Kept, Types, ListTypes
<1>3. new \in Seq(Lock)
  <2>1. DOMAIN line.args = 1 .. Len(line.args) /\ Len(line.args) \in Nat
    BY <1>1, ArgTypes
  <2> HIDE DEF comment
  <2>2. \A k \in DOMAIN line.args : Arg2Query(line.args[k], line, comment) \in Lock
    BY <1>1, <1>2, QueryTypes
  <2>3. QED
    BY <2>1, <2>2
<1>4. locks' \in {AddLocks(locks, new), locks}
  BY DEF AddLocksCmd, Edits
<1> HIDE DEF new
<1>5. Queries(locks) \subseteq Queries(locks')
  BY <1>1, <1>3, <1>4, AddFacts
<1>6. report'.cmd # "removelock"
  BY OtherNames
<1> HIDE DEF comment
<1>7. Queries(locks) \ Queries(locks') = {}
  BY <1>5
<1>8. QED
  BY <1>6, <1>7 DEF LocksRemoved

\* cleanlocks takes duplicates, and what locks nothing.
LEMMA CleanKeeps ==
  ASSUME Types, NEW line \in scene.lines, CleanLocksCmd(line)
  PROVE  LocksRemoved(Queries(locks) \ Queries(locks'), report')
<1> DEFINE left == { i \in DOMAIN locks : ~LocksNothing(locks[i]) }
           used == IF line.onlyDuplicates THEN locks ELSE At(locks, left)
           list == IF line.onlyEmpty THEN used ELSE FirstOfItsKind(used)
           gone == Queries(locks) \ Queries(locks')
<1>0. locks \in Seq(Lock) /\ line.cmd = "cleanlocks"
  BY DEF Types, ListTypes, CleanLocksCmd, Starts
<1>1. locks' \in {list, locks} /\ report'.cmd = "cleanlocks" /\ report'.line = line
  BY <1>0 DEF CleanLocksCmd, Edits, Report
<1>2. left \subseteq DOMAIN locks
  OBVIOUS
<1>3. At(locks, left) \in Seq(Lock) /\ Queries(At(locks, left)) = { Query(locks[i]) : i \in left }
  <2> HIDE DEF left
  <2> QED
    BY <1>0, <1>2, AtFacts, AtQueries
<1>4. \A i \in DOMAIN locks : Query(locks[i]) \notin Queries(At(locks, left)) => LocksNothing(locks[i])
  BY <1>3
<1>5. used \in Seq(Lock)
  BY <1>0, <1>3
<1>6. Queries(list) = Queries(used)
  <2> HIDE DEF used
  <2> QED
    BY <1>5, FirstFacts
<1> HIDE DEF left, list
<1>7. CASE line.onlyDuplicates
  <2>1. gone = {}
    BY <1>1, <1>6, <1>7
  <2>2. QED
    BY <1>1, <2>1 DEF LocksRemoved
<1>8. CASE ~line.onlyDuplicates
  <2>1. \A i \in DOMAIN locks : Query(locks[i]) \in gone => LocksNothing(locks[i])
    BY <1>1, <1>4, <1>6, <1>8
  <2>2. \A l \in ToSet(locks) : Query(l) \in gone => LocksNothing(l)
    BY <2>1 DEF ToSet
  <2> HIDE DEF gone
  <2>3. LocksRemoved(gone, report')
    BY <1>1, <1>8, <2>2 DEF LocksRemoved
  <2>4. QED
    BY <2>3 DEF gone
<1>9. QED
  BY <1>7, <1>8

-----------------------------------------------------------------------------
(* What removelock takes.                                                  *)

\* The locks the arguments name are no more than the arguments.
LEMMA RangeIsSmall ==
  ASSUME NEW n \in Nat, NEW T, NEW f \in [1 .. n -> T], NEW S, S \subseteq Range(f)
  PROVE  Cardinality(S) <= n
<1>1. IsFiniteSet(1 .. n) /\ Cardinality(1 .. n) = n
  BY FS_Interval
<1>2. f \in Surjection(1 .. n, Range(f))
  BY DEF Surjection, Range
<1>3. IsFiniteSet(Range(f)) /\ Cardinality(Range(f)) <= n
  BY <1>1, <1>2, FS_Surjection
<1>4. Cardinality(S) <= Cardinality(Range(f)) /\ IsFiniteSet(S)
  BY <1>3, FS_Subset
<1>5. Cardinality(S) \in Nat /\ Cardinality(Range(f)) \in Nat
  BY <1>3, <1>4, FS_CardinalityType
<1>6. QED
  BY <1>3, <1>4, <1>5

\* The n-th entry of a list without some of its locks.
LEMMA WithoutNth ==
  ASSUME locks \in Seq(Lock), NEW gone, NEW n \in DOMAIN Without(locks, gone)
  PROVE  \E p \in DOMAIN locks : Without(locks, gone)[n] = locks[p] /\ IsNumber(n, p, gone)
<1> DEFINE S == { i \in DOMAIN locks : Query(locks[i]) \notin gone }
           p == Nth(S, n)
<1>1. DOMAIN locks = 1 .. Len(locks) /\ Len(locks) \in Nat
  OBVIOUS
<1>2. S \subseteq Nat /\ IsFiniteSet(S) /\ S \subseteq DOMAIN locks
  <2>1. IsFiniteSet(1 .. Len(locks))
    BY <1>1, FS_Interval
  <2>2. QED
    BY <1>1, <2>1, FS_Subset
<1>3. Without(locks, gone) = [k \in 1 .. Cardinality(S) |-> locks[Nth(S, k)]]
  BY DEF Without, At
<1>4. n \in 1 .. Cardinality(S) /\ Without(locks, gone)[n] = locks[p]
  BY <1>3
<1>5. p \in S /\ Rank(S, p) = n
  <2> HIDE DEF S
  <2>1. \A k \in 1 .. Cardinality(S) : Nth(S, k) \in S /\ Rank(S, Nth(S, k)) = k
    BY <1>2, NthFacts
  <2>2. QED
    BY <1>4, <2>1
<1>6. { j \in S : j <= p } = { i \in 1 .. p : Query(locks[i]) \notin gone }
  <2>1. p \in DOMAIN locks
    BY <1>5
  <2> HIDE DEF p
  <2>2. \A i : i \in DOMAIN locks /\ i <= p <=> i \in 1 .. p
    BY <1>1, <2>1
  <2>3. QED
    BY <2>2
<1>7. n = Cardinality({ i \in 1 .. p : Query(locks[i]) \notin gone })
  BY <1>5, <1>6 DEF Rank
<1>8. IsNumber(n, p, gone)
  BY <1>5, <1>7 DEF IsNumber
<1> HIDE DEF p
<1>9. QED
  BY <1>2, <1>4, <1>5, <1>8

\* With nothing taken in front of it a lock keeps its number.
LEMMA WithoutBehind ==
  ASSUME locks \in Seq(Lock), NEW gone, NEW n \in DOMAIN locks,
         \A i \in 1 .. n : Query(locks[i]) \notin gone
  PROVE  n \in DOMAIN Without(locks, gone) /\ Without(locks, gone)[n] = locks[n]
<1> DEFINE S == { i \in DOMAIN locks : Query(locks[i]) \notin gone }
<1>1. DOMAIN locks = 1 .. Len(locks) /\ Len(locks) \in Nat
  OBVIOUS
<1>2. S \subseteq Nat /\ IsFiniteSet(S) /\ n \in S
  <2>1. IsFiniteSet(1 .. Len(locks))
    BY <1>1, FS_Interval
  <2>2. QED
    BY <1>1, <2>1, FS_Subset
<1>3. { j \in S : j <= n } = 1 .. n
  BY <1>1
<1>4. Rank(S, n) = n
  <2>1. n \in Nat
    BY <1>1
  <2>2. Cardinality(1 .. n) = n
    BY <2>1, FS_Interval
  <2>3. QED
    BY <1>3, <2>2 DEF Rank
<1>5. n \in 1 .. Cardinality(S) /\ Nth(S, n) = n
  <2> HIDE DEF S
  <2>1. \A i \in S : Rank(S, i) \in 1 .. Cardinality(S) /\ Nth(S, Rank(S, i)) = i
    BY <1>2, NthFacts
  <2>2. QED
    BY <1>2, <1>4, <2>1
<1>6. Without(locks, gone) = [k \in 1 .. Cardinality(S) |-> locks[Nth(S, k)]]
  BY DEF Without, At
<1> HIDE DEF S
<1>7. QED
  BY <1>5, <1>6

\* Only the locks of the file count.
LEMMA SameNumber ==
  ASSUME NEW gone, NEW out, NEW n, locks \in Seq(Lock), NEW p \in DOMAIN locks,
         \A i \in DOMAIN locks : Query(locks[i]) \in gone <=> Query(locks[i]) \in out
  PROVE  IsNumber(n, p, gone) => IsNumber(n, p, out)
<1>1. DOMAIN locks = 1 .. Len(locks) /\ Len(locks) \in Nat
  OBVIOUS
<1>2. \A i \in 1 .. p : i \in DOMAIN locks
  BY <1>1
<1>3. { i \in 1 .. p : Query(locks[i]) \notin gone } = { i \in 1 .. p : Query(locks[i]) \notin out }
  BY <1>2
<1>4. QED
  BY <1>3 DEF IsNumber

\* What an argument stands for: the name given, or the lock that has the number given in the
\* file or in what is left of it.
LEMMA NamedFacts ==
  ASSUME locks \in Seq(Lock), NEW line \in CommandLine, NEW k \in DOMAIN line.args, NEW gone,
         NEW atOnce \in BOOLEAN
  PROVE  LET g == Named(line.args[k], line, gone, atOnce)
         IN \/ g = Query(Arg2Query(line.args[k], line, ""))
            \/ \E p \in DOMAIN locks : g = Query(locks[p]) /\ IsNumber(line.args[k].number, p, {})
            \/ atOnce /\ \E p \in DOMAIN locks :
                           g = Query(locks[p]) /\ IsNumber(line.args[k].number, p, gone)
<1> DEFINE arg == line.args[k]
           n == arg.number
           list == IF atOnce THEN Without(locks, gone) ELSE locks
<1>1. CASE n \notin DOMAIN list
  <2>1. Named(arg, line, gone, atOnce) = Query(Arg2Query(arg, line, ""))
    BY <1>1 DEF Named
  <2>2. QED
    BY <2>1
<1>2. CASE n \in DOMAIN list
  <2>0. Named(arg, line, gone, atOnce) = Query(list[n])
    BY <1>2 DEF Named
  <2>1. CASE atOnce
    <3>1. n \in DOMAIN Without(locks, gone) /\ list = Without(locks, gone)
      BY <1>2, <2>1
    <3> HIDE DEF list, n, arg
    <3>2. PICK p \in DOMAIN locks : Without(locks, gone)[n] = locks[p] /\ IsNumber(n, p, gone)
      BY <3>1, WithoutNth
    <3>3. Named(arg, line, gone, atOnce) = Query(locks[p])
      BY <2>0, <3>1, <3>2
    <3>4. QED
      BY <2>1, <3>2, <3>3 DEF n, arg
  <2>2. CASE ~atOnce
    <3>1. n \in DOMAIN locks /\ list = locks
      BY <1>2, <2>2
    <3>2. Without(locks, {}) = locks
      BY WithoutNothing
    <3> HIDE DEF list, n, arg
    <3>3. PICK p \in DOMAIN locks : Without(locks, {})[n] = locks[p] /\ IsNumber(n, p, {})
      BY <3>1, <3>2, WithoutNth
    <3>4. Named(arg, line, gone, atOnce) = Query(locks[p])
      BY <2>0, <3>1, <3>2, <3>3
    <3>5. QED
      BY <3>3, <3>4 DEF n, arg
  <2>3. QED
    BY <2>1, <2>2
<1>3. QED
  BY <1>1, <1>2

\* Numbers of the list shown that begin the file, and do not count past each other.
LEMMA NumbersTaken ==
  ASSUME locks \in Seq(Lock), shown \in Seq(Lock), NEW line \in CommandLine, NumbersHold(line.args),
         NEW atOnce \in BOOLEAN, NEW T, NEW taken \in [DOMAIN line.args -> T],
         \A k \in DOMAIN line.args :
           taken[k] = Named(line.args[k], line, { taken[j] : j \in 1 .. (k - 1) }, atOnce)
  PROVE  \A k \in DOMAIN line.args : /\ taken[k] = Query(shown[line.args[k].number])
                                     /\ taken[k] \in Queries(locks)
<1> DEFINE n == Len(line.args)
           num(k) == line.args[k].number
           wrong == { k \in DOMAIN line.args : taken[k] # Query(locks[num(k)]) }
<1>1. DOMAIN line.args = 1 .. n /\ n \in Nat
  BY ArgTypes
<1>2. \A k \in DOMAIN line.args : num(k) \in DOMAIN locks /\ shown[num(k)] = locks[num(k)]
  BY DEF NumbersHold
<1>3. DOMAIN shown = 1 .. Len(shown) /\ Len(shown) \in Nat
  OBVIOUS
<1>4. ASSUME NEW k \in DOMAIN line.args,
             \A j \in 1 .. (k - 1) : taken[j] = Query(locks[num(j)])
      PROVE  taken[k] = Query(locks[num(k)])
  <2> DEFINE before == { taken[j] : j \in 1 .. (k - 1) }
  <2>1. ASSUME NEW i \in 1 .. num(k)
        PROVE  Query(locks[i]) \notin before
    <3>1. num(k) \in 1 .. Len(shown)
      BY <1>3 DEF NumbersHold
    <3>2. i \in DOMAIN shown
      BY <1>3, <3>1
    <3>3. locks[i] = shown[i]
      BY <3>2 DEF NumbersHold
    <3>4. ASSUME NEW j \in 1 .. (k - 1)
          PROVE  Query(locks[i]) # taken[j]
      <4>1. Query(shown[i]) # Query(shown[num(j)])
        BY DEF NumbersHold
      <4>2. j \in DOMAIN line.args
        BY <1>1
      <4>3. QED
        BY <1>2, <1>4, <3>3, <4>1, <4>2
    <3>5. QED
      BY <3>4
  <2>2. num(k) \in DOMAIN locks
    BY <1>2
  <2>3. taken[k] = Named(line.args[k], line, before, atOnce)
    OBVIOUS
  <2> HIDE DEF before
  <2>4. num(k) \in DOMAIN Without(locks, before) /\ Without(locks, before)[num(k)] = locks[num(k)]
    BY <2>1, <2>2, WithoutBehind
  <2>5. QED
    BY <2>2, <2>3, <2>4 DEF Named
<1>5. wrong = {}
  <2> SUFFICES ASSUME wrong # {}
               PROVE  FALSE
    OBVIOUS
  <2>1. wrong \subseteq Nat /\ wrong \subseteq 1 .. n
    BY <1>1
  <2>2. IsFiniteSet(wrong)
    <3> HIDE DEF wrong, n
    <3>1. IsFiniteSet(1 .. n)
      BY <1>1, FS_Interval
    <3>2. QED
      BY <2>1, <3>1, FS_Subset
  <2>3. PICK k \in wrong : \A j \in wrong : k <= j
    <3> HIDE DEF wrong
    <3> QED
      BY <2>1, <2>2, NthFacts
  <2>4. k \in DOMAIN line.args /\ k \in 1 .. n
    BY <1>1, <2>3
  <2>5. \A j \in 1 .. (k - 1) : taken[j] = Query(locks[num(j)])
    <3> TAKE j \in 1 .. (k - 1)
    <3>1. j \in DOMAIN line.args /\ j < k /\ ~(k <= j)
      BY <1>1, <2>4
    <3>2. j \notin wrong
      BY <2>3, <3>1
    <3>3. QED
      BY <3>1, <3>2
  <2>6. taken[k] = Query(locks[num(k)])
    BY <1>4, <2>4, <2>5
  <2>7. QED
    BY <2>3, <2>6
<1>6. \A k \in DOMAIN line.args : taken[k] = Query(locks[num(k)])
  BY <1>5
<1>7. QED
  BY <1>2, <1>6 DEF Queries

\* removelock takes at most one lock for each argument, by number or by name; descending numbers
\* of the list shown take the locks that have them there.
LEMMA RemoveKeeps ==
  ASSUME Types, NEW line \in scene.lines, RemoveLocksCmd(line)
  PROVE  LocksRemoved(Queries(locks) \ Queries(locks'), report')
<1> DEFINE gone == Queries(locks) \ Queries(locks')
           n == Len(line.args)
<1>1. line \in CommandLine /\ locks \in Seq(Lock) /\ line.cmd = "removelock"
  BY LineTypes DEF Types, ListTypes, RemoveLocksCmd, Starts
<1>2. n \in Nat /\ DOMAIN line.args = 1 .. n
  BY <1>1, ArgTypes
<1>3. PICK atOnce \in BOOLEAN, taken \in [DOMAIN line.args -> Nameable(line)] :
        /\ \A k \in DOMAIN line.args :
             taken[k] = Named(line.args[k], line, { taken[j] : j \in 1 .. (k - 1) }, atOnce)
        /\ Edits(line, Without(locks, Range(taken)), ERR_ZYPP)
  BY Zenon DEF RemoveLocksCmd
<1>4. /\ report'.cmd = "removelock" /\ report'.line = line
      /\ \/ locks' = Without(locks, Range(taken))
         \/ locks' = locks /\ report'.went = FALSE
  BY <1>1, <1>3 DEF Edits, Report
<1>5. CASE locks' = locks /\ report'.went = FALSE
  <2>1. gone = {}
    BY <1>5
  <2>2. QED
    BY <1>5, <2>1 DEF LocksRemoved
<1>6. CASE locks' = Without(locks, Range(taken))
  <2>1. Queries(locks') = Queries(locks) \ Range(taken)
    BY <1>1, <1>6, WithoutFacts
  <2>2. gone = Queries(locks) \cap Range(taken)
    BY <2>1
  <2>3. Cardinality(gone) <= n
    <3>1. gone \subseteq Range(taken)
      BY <2>2
    <3> HIDE DEF gone, n
    <3>2. taken \in [1 .. n -> Nameable(line)]
      BY <1>2
    <3>3. QED
      BY <1>2, <3>1, <3>2, RangeIsSmall
  <2>4. ASSUME NEW g \in gone
        PROVE  \E k \in DOMAIN line.args :
                 \/ g = Query(Arg2Query(line.args[k], line, ""))
                 \/ \E p \in DOMAIN locks : \E out \in SUBSET gone :
                      /\ g = Query(locks[p])
                      /\ IsNumber(line.args[k].number, p, out)
                      /\ Cardinality(out) < k /\ (out = {} \/ atOnce)
    <3>1. PICK k \in DOMAIN line.args : g = taken[k]
      BY <2>2 DEF Range
    <3> DEFINE before == { taken[j] : j \in 1 .. (k - 1) }
               out == before \cap Queries(locks)
               num == line.args[k].number
    <3>2. g = Named(line.args[k], line, before, atOnce)
      BY <1>3, <3>1
    <3>3. k \in 1 .. n /\ (k - 1) \in Nat
      BY <1>2
    <3>4. Cardinality(out) < k
      <4> DEFINE f == [j \in 1 .. (k - 1) |-> taken[j]]
      <4>1. f \in [1 .. (k - 1) -> Range(taken)]
        BY <1>2, <3>3 DEF Range
      <4>2. out \subseteq Range(f)
        BY DEF Range
      <4> HIDE DEF f, out
      <4>3. Cardinality(out) <= k - 1 /\ Cardinality(out) \in Nat
        <5>1. IsFiniteSet(out)
          <6>1. IsFiniteSet(1 .. (k - 1))
            BY <3>3, FS_Interval
          <6>2. f \in Surjection(1 .. (k - 1), Range(f))
            BY <4>1 DEF Surjection, Range
          <6>3. IsFiniteSet(Range(f))
            BY <6>1, <6>2, FS_Surjection
          <6>4. QED
            BY <4>2, <6>3, FS_Subset
        <5>2. \A m \in Nat : f \in [1 .. m -> Range(taken)] => Cardinality(out) <= m
          BY <4>2, RangeIsSmall
        <5>3. Cardinality(out) <= k - 1
          BY <3>3, <4>1, <5>2
        <5>4. QED
          BY <5>1, <5>3, FS_CardinalityType
      <4>4. QED
        BY <3>3, <4>3
    <3>5. Cardinality({}) < k
      BY <3>3, FS_EmptySet
    <3>6. out \in SUBSET gone
      <4>1. \A j \in 1 .. (k - 1) : j \in DOMAIN line.args
        BY <1>2, <3>3
      <4>2. before \subseteq Range(taken)
        BY <4>1 DEF Range
      <4>3. QED
        BY <2>2, <4>2
    <3>7. \A p \in DOMAIN locks : IsNumber(num, p, before) => IsNumber(num, p, out)
      <4>1. \A i \in DOMAIN locks : Query(locks[i]) \in before <=> Query(locks[i]) \in out
        BY DEF Queries
      <4> HIDE DEF before, out, num
      <4>2. QED
        BY <1>1, <4>1, SameNumber
    <3> HIDE DEF gone, before, out
    <3>8. \/ g = Query(Arg2Query(line.args[k], line, ""))
          \/ \E p \in DOMAIN locks : g = Query(locks[p]) /\ IsNumber(num, p, {})
          \/ atOnce /\ \E p \in DOMAIN locks : g = Query(locks[p]) /\ IsNumber(num, p, before)
      BY <1>1, <3>2, NamedFacts
    <3> HIDE DEF num
    <3>9. CASE g = Query(Arg2Query(line.args[k], line, ""))
      BY <3>9
    <3>10. CASE \E p \in DOMAIN locks : g = Query(locks[p]) /\ IsNumber(num, p, {})
      <4>1. PICK p \in DOMAIN locks : g = Query(locks[p]) /\ IsNumber(num, p, {})
        BY <3>10
      <4>2. {} \in SUBSET gone
        OBVIOUS
      <4>3. QED
        BY <3>5, <4>1, <4>2 DEF num
    <3>11. CASE atOnce /\ \E p \in DOMAIN locks : g = Query(locks[p]) /\ IsNumber(num, p, before)
      <4>1. PICK p \in DOMAIN locks : g = Query(locks[p]) /\ IsNumber(num, p, out)
        BY <3>7, <3>11
      <4>2. QED
        BY <3>4, <3>6, <3>11, <4>1 DEF num
    <3>12. QED
      BY <3>8, <3>9, <3>10, <3>11
  <2>5. ASSUME NumbersHold(line.args)
        PROVE  gone = { Query(shown[line.args[k].number]) : k \in DOMAIN line.args }
    <3>1. \A k \in DOMAIN line.args : /\ taken[k] = Query(shown[line.args[k].number])
                                      /\ taken[k] \in Queries(locks)
      <4>1. shown \in Seq(Lock)
        BY DEF Types, ListTypes
      <4> HIDE DEF gone, n
      <4>2. QED
        BY <1>1, <1>3, <2>5, <4>1, NumbersTaken
    <3>2. Range(taken) = { Query(shown[line.args[k].number]) : k \in DOMAIN line.args }
      BY <3>1 DEF Range
    <3>3. Range(taken) \subseteq Queries(locks)
      BY <3>1 DEF Range
    <3>4. QED
      BY <2>2, <3>2, <3>3
  <2> HIDE DEF gone
  <2>6. \E once \in BOOLEAN : ByArgument(gone, line, once)
    BY <2>4 DEF ByArgument
  <2>7. LocksRemoved(gone, report')
    BY <1>2, <1>4, <2>3, <2>5, <2>6 DEF LocksRemoved
  <2>8. QED
    BY <2>7 DEF gone
<1>7. QED
  BY <1>4, <1>5, <1>6

\* The steps that are no lock command leave the file of locks alone.
LEMMA LocksStay ==
  ASSUME DownloadsNext,
         ~\E line \in scene.lines : AddLocksCmd(line) \/ RemoveLocksCmd(line) \/ CleanLocksCmd(line)
  PROVE  locks' = locks
<1>1. ASSUME NEW line, PatchCheck(line) \/ ListUpdates(line) \/ ListPatches(line)
                       \/ ListPatchesByIssue(line) \/ NeedsRebooting(line) \/ ListLocksCmd(line)
      PROVE  locks' = locks
  BY <1>1 DEF PatchCheck, ListUpdates, ListPatches, ListPatchesByIssue, NeedsRebooting,
              ListLocksCmd, LooksOnly
<1>2. ASSUME NEW line, PatchCmd(line) \/ PatchByIssue(line) \/ UpdateCmd(line)
      PROVE  locks' = locks
  BY <1>2, InstallHolds
<1>3. CASE ShellSwitch \/ Publish \/ Reboot
  BY <1>3 DEF ShellSwitch, Publish, Reboot
<1>4. ASSUME NEW errand, DownloadCmd(errand) \/ SourceDownloadCmd(errand)
      PROVE  locks' = locks
  <2>1. Fetches(errand, "download") \/ Fetches(errand, "source-download")
    BY <1>4, Zenon DEF DownloadCmd, SourceDownloadCmd
  <2>2. QED
    BY <2>1 DEF Fetches
<1>5. QED
  BY <1>1, <1>2, <1>3, <1>4 DEF DownloadsNext, Errand, Next, Command

\* At first everything has its type.
LEMMA InitTypes == DownloadsInit => Types
<1> SUFFICES ASSUME DownloadsInit
             PROVE  Types
  OBVIOUS
<1>1. scene \in Scenes /\ rounds = 0 /\ reboot = FALSE /\ shell = FALSE /\ exclude = TRUE
      /\ note = "" /\ held = <<>> /\ shown = <<>> /\ report = Report
  BY DEF DownloadsInit, Init
<1>2. status \in [Patches -> {"broken", "satisfied", "irrelevant"}]
  BY <1>1, PoolAssumption DEF DownloadsInit, Init
<1>3. installed \in [Packages -> Edition] /\ locks \in Seq(Lock) /\ MaxRounds \in Nat
  BY <1>1, PoolAssumption DEF DownloadsInit, Init
<1>4. reboot \in BOOLEAN /\ shell \in BOOLEAN /\ exclude \in BOOLEAN
  BY <1>1, Zenon
<1>5. rounds \in 0..MaxRounds /\ note \in {"", "reason"} /\ shown \in Seq(Lock)
  <2>1. rounds \in 0..MaxRounds
    <3>1. rounds = 0 /\ MaxRounds \in Nat
      BY <1>1, <1>3, Zenon
    <3>2. QED
      BY <3>1
  <2>2. note \in {"", "reason"}
    BY <1>1, Zenon
  <2>3. shown \in Seq(Lock)
    <3>1. shown = <<>>
      BY <1>1, Zenon
    <3>2. QED
      BY <3>1
  <2>4. QED
    BY <2>1, <2>2, <2>3
<1>6. PoolTypes
  BY <1>1, <1>2, <1>3, <1>4, <1>5, Zenon DEF PoolTypes
<1>7. ListTypes
  BY <1>1, <1>3, <1>4, <1>5, Zenon DEF ListTypes
<1>8. Reported(report)
  BY <1>1, NoReport, Zenon
<1>9. QED
  BY <1>6, <1>7, <1>8 DEF Types

\* No step takes a lock that was not asked for, or installs what is locked.
LEMMA LocksStep ==
  ASSUME Types, DownloadsNext
  PROVE  LocksRemoved(Queries(locks) \ Queries(locks'), report') /\ LocksHeld
<1>1. LocksHeld
  BY InstallHolds, OthersHold
<1>2. CASE \E line \in scene.lines : AddLocksCmd(line) \/ RemoveLocksCmd(line) \/ CleanLocksCmd(line)
  <2>1. LocksRemoved(Queries(locks) \ Queries(locks'), report')
    BY <1>2, AddKeeps, RemoveKeeps, CleanKeeps, Zenon
  <2>2. QED
    BY <1>1, <2>1, Zenon
<1>3. CASE ~\E line \in scene.lines : AddLocksCmd(line) \/ RemoveLocksCmd(line) \/ CleanLocksCmd(line)
  <2>1. Queries(locks) \ Queries(locks') = {}
    BY <1>3, LocksStay
  <2>2. report'.cmd # "removelock"
    BY <1>3, OtherNames, SilentSteps DEF DownloadsNext, Next, Command, ShiftsOnly
  <2>3. LocksRemoved({}, report')
    BY <2>2 DEF LocksRemoved
  <2>4. QED
    BY <1>1, <2>1, <2>3, Zenon
<1>4. QED
  BY <1>1, <1>2, <1>3

-----------------------------------------------------------------------------
(* The theorems.                                                           *)

\* update.cc asks it of PatchCheckStats, and doc/zypper.8.txt of list-updates: for any pool,
\* locks and options, patch-check, the lists in both formats, patch and update agree.
THEOREM ListsDoAgree == DownloadsSpec => ListsAgree
<1>1. DownloadsInit => ListsKept
  <2>1. DownloadsInit => report = Report
    BY Zenon DEF DownloadsInit, Init
  <2>2. Report.cmd = "none"
    BY DEF Report
  <2>3. QED
    BY <2>1, <2>2 DEF ListsKept, CheckKept, FirstKept, PackagesKept
<1>2. ListsKept /\ [DownloadsNext]_allVars =>
        [report.cmd # "none" /\ report'.cmd # "none"
           => PatchesAgree(report, report') /\ PackagesAgree(report, report')]_vars
  BY PatchesStep, PackagesStep DEF allVars
<1>3. QED
  BY <1>1, <1>2, ListsStep, PTL DEF DownloadsSpec, ListsAgree

\* doc/zypper.8.txt, patch: after two rounds no patch is needed, however the patches for the
\* update stack are distributed over any set of patches.
THEOREM TwoRoundsAreEnough == DownloadsSpec => []TwoRoundsSuffice
<1>1. DownloadsInit => RoundsKept
  <2>1. DownloadsInit => rounds = 0
    BY Zenon DEF DownloadsInit, Init
  <2>2. QED
    BY <2>1 DEF RoundsKept
<1>2. RoundsKept => TwoRoundsSuffice
  BY DEF RoundsKept, TwoRoundsSuffice, Left
<1>3. QED
  BY <1>1, <1>2, RoundsStep, PTL DEF DownloadsSpec

\* Every state has its type; zypper names the files it writes, a report has one of the exit
\* codes of its command, and what was fetched was missing: for any pool, locks and files.
THEOREM TypeCorrect == DownloadsSpec => []DownloadsTypeOK
<1>1. DownloadsInit => Types /\ FileTypes
  <2> SUFFICES ASSUME DownloadsInit
               PROVE  Types /\ FileTypes
    OBVIOUS
  <2>1. scene \in Scenes /\ outcome = Outcome
    BY DEF DownloadsInit, Init
  <2>4. Types
    BY InitTypes
  <2>5. cache = {} /\ \A f \in sources : f.own \in BOOLEAN /\ f.source[2] \in Edition
    BY <2>1, FilesAssumption DEF DownloadsInit
  <2>6. outcome.code = EXIT_OK /\ outcome.got = {}
    BY <2>1 DEF Outcome
  <2>7. QED
    BY <2>4, <2>5, <2>6 DEF FileTypes
<1>2. Types /\ FileTypes => DownloadsTypeOK
  BY DEF Types, PoolTypes, ListTypes, Reported, Codes, FileTypes, DownloadsTypeOK, TypeOK
<1>3. Types /\ FileTypes /\ [DownloadsNext]_allVars => (Types /\ FileTypes)'
  BY TypesStep, FileTypesStep
<1>4. QED
  BY <1>1, <1>2, <1>3, PTL DEF DownloadsSpec

\* doc/zypper.8.txt, source-download and download: for any packages, built from whatever
\* sources, and any arguments, the directory loses no source of an installed package, nothing
\* else comes in, --status holds, and download gets the newest offer of each.
THEOREM FilesDoFit == DownloadsSpec => FilesFit
<1>1. DownloadsInit => scene \in Scenes /\ ShownKept
  <2>1. DownloadsInit => scene \in Scenes /\ outcome = Outcome
    BY DEF DownloadsInit, Init
  <2>2. Outcome.cmd = "none"
    BY DEF Outcome
  <2>3. QED
    BY <2>1, <2>2 DEF ShownKept
<1>2. scene \in Scenes /\ [DownloadsNext]_allVars => (scene \in Scenes)'
  BY CheckReports, ListReports, IssueReports, UpdateReports, FetchingIsQuiet
  DEF DownloadsNext, Next, Command, Errand, Quiet, PatchCmd, PatchByIssue, UpdateCmd, NeedsRebooting,
      AddLocksCmd, RemoveLocksCmd, CleanLocksCmd, ListLocksCmd, Starts, ShellSwitch, Publish, Reboot,
      allVars, vars
<1>3. scene \in Scenes /\ ShownKept /\ [DownloadsNext]_allVars =>
        ShownKept' /\ [SourcesFit /\ DownloadsFit]_allVars
  BY FilesStep
<1>4. QED
  BY <1>1, <1>2, <1>3, PTL DEF DownloadsSpec, FilesFit

\* doc/zypper.8.txt, removelock and locks: in any file of locks and for any arguments a lock goes
\* because it was named in full, has the number given in the file or in what earlier arguments
\* left of it, or was found useless; descending numbers of a list that still begins the file
\* take just the locks shown with them; and nothing locked is installed.
THEOREM LocksGoAsNamed == DownloadsSpec => LocksAsNamed
<1>1. DownloadsInit => Types
  BY InitTypes
<1>2. Types /\ [DownloadsNext]_allVars =>
        [/\ LocksRemoved(Queries(locks) \ Queries(locks'), report')
         /\ \A p \in report'.marked : ~Locked(p)
         /\ report'.cmd \in {"patch", "update"} => \A u \in report'.packages : ~PackageLocked(u[1])]_vars
  BY LocksStep DEF LocksHeld, allVars
<1>3. QED
  BY <1>1, <1>2, TypesStep, PTL DEF DownloadsSpec, LocksAsNamed
=============================================================================
