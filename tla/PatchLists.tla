----------------------------- MODULE PatchLists -----------------------------
(***************************************************************************)
(* One system over many commands: patch-check, list-patches, list-updates, *)
(* patch and update look at the patches and packages of the pool, addlock, *)
(* removelock, locks and cleanlocks edit the file of locks the pool is     *)
(* loaded with.  A command is one step; it runs as a process of its own or *)
(* in the zypper shell, which keeps the target, the configuration and the  *)
(* command objects from one command to the next.                           *)
(***************************************************************************)
EXTENDS Integers, SequencesExt

CONSTANTS
  Patches, Packages,
  Scenes,      \* records [patch, offers, pick, installed, locks, lines]: what the pool offers,
               \* what there is at first, and the command lines used, see CommandLine
  Names,       \* what a lock may name
  Hits,        \* the items of the pool a name matches
  Repos,       \* aliases of repositories
  Within,      \* pairs of strings: the first one occurs in the second one
  MaxLocks, MaxRounds    \* bounds

Category == {"security", "recommended", "optional"}
Kinds == {"package", "patch"}
Edition == [epoch : Nat, version : Nat, release : Nat, rebuild : Nat]
Older(a, b) ==
  \/ a.epoch < b.epoch
  \/ a.epoch = b.epoch /\ a.version < b.version
  \/ a.epoch = b.epoch /\ a.version = b.version /\ a.release < b.release
  \/ a.epoch = b.epoch /\ a.version = b.version /\ a.release = b.release /\ a.rebuild < b.rebuild
NotInstalled == [epoch |-> 0, version |-> 0, release |-> 0, rebuild |-> 0]

\* A lock is a query: names and kinds match the items of the repositories, or of all if none is named.
Lock == [name : Names, kinds : SUBSET Kinds, repos : SUBSET Repos, comment : {"", "reason"}]

\* optional: "with", "without", or "" for the default; categories: the filter; change: of
\* list-updates; args: of the lock commands, a number or a name with the kind in front of it.
CommandLine ==
  [cmd : {"patch-check", "list-patches", "list-updates", "patch", "update", "addlock", "removelock",
          "locks", "cleanlocks", "needs-rebooting"},
   all : BOOLEAN, xml : BOOLEAN, optional : {"", "with", "without"}, categories : SUBSET Category,
   stackOnly : BOOLEAN, withUpdate : BOOLEAN, skip : BOOLEAN, issues : SUBSET [type : STRING, id : STRING],
   kinds : SUBSET Kinds, change : {"none", "rebuild", "package"},
   args : Seq([number : Nat, name : Names, kind : Kinds \cup {""}]),
   repos : SUBSET (Repos \cup {"unknown"}), comment : {"", "reason"},
   onlyDuplicates : BOOLEAN, onlyEmpty : BOOLEAN]

ASSUME PoolAssumption ==
  /\ MaxLocks \in Nat /\ MaxRounds \in Nat
  /\ \A s \in Scenes :
       /\ s.locks \in Seq(Lock)
       /\ \A line \in s.lines : line \in CommandLine
       /\ \A p \in Patches : /\ s.patch[p].cat \in Category
                             /\ s.patch[p].status \in {"broken", "satisfied", "irrelevant"}
       /\ s.installed \in [Packages -> Edition]
       /\ \A n \in Packages : s.offers[n] \subseteq Edition /\ s.pick[n] \in s.offers[n] \cup {NotInstalled}

EXIT_OK == 0
ERR_BUG == 1
ERR_ZYPP == 4
ERR_COMMIT == 8
INF_UPDATE_NEEDED == 100
INF_SEC_UPDATE_NEEDED == 101
INF_REBOOT_NEEDED == 102
INF_RESTART_NEEDED == 103
INF_CAP_NOT_FOUND == 104

VARIABLES
  scene,       \* what the pool offers
  status,      \* of the patches: "broken", "satisfied", "irrelevant"
  installed,   \* the editions of the packages
  reboot,      \* /run/reboot-needed exists
  locks,       \* the file of locks
  shell,       \* the commands are those of a zypper shell
  held,        \* <<>>, or <<the locks the target was loaded with>>
  exclude,     \* Config::exclude_optional_patches
  note,        \* AddLocksCmd::_comment
  shown,       \* the list of locks the user saw last
  rounds,      \* patch commands that went through since the last change from outside
  report       \* the last command, what it showed and did

vars == <<scene, status, installed, reboot, locks, shell, held, exclude, note, shown, rounds, report>>
system == <<status, installed, reboot>>

\* What the shell keeps for the next command; a process starts without it.
Kept(x, fresh) == IF shell THEN x ELSE fresh
-----------------------------------------------------------------------------
(* The pool *)

Patch(p) == scene.patch[p]

Covers(l, item, kind, repo) ==
  /\ item \in Hits[l.name]
  /\ kind \in l.kinds
  /\ l.repos = {} \/ repo \in l.repos

\* The target reads the file once.
HeldLocks == Kept(held, <<>>)
LoadedLocks == IF HeldLocks = <<>> THEN ToSet(locks) ELSE HeldLocks[1]
LoadTarget == held' = IF shell THEN <<LoadedLocks>> ELSE <<>>

Locked(p) == \E l \in LoadedLocks : Covers(l, p, "patch", Patch(p).repo)
PackageLocked(n) == \E l \in LoadedLocks : Covers(l, n, "package", "main")

Applicable(p) == status[p] = "broken"
Unwanted(p) == Applicable(p) /\ Locked(p)
Optional(p) == Patch(p).cat = "optional"

\* patchIsNeededRestartSuggested.
NeededForStack(p, excl) ==
  /\ Applicable(p)
  /\ ~Unwanted(p)
  /\ ~(excl /\ Optional(p))
  /\ Patch(p).stack

\* CliMatchPatch; the categories stand for dates and severities too.
CliMatch(p, line) == line.categories = {} \/ Patch(p).cat \in line.categories
-----------------------------------------------------------------------------
(* PatchCheckStats and the lists *)

\* i18nPatchStatus, the status column of the lists; none of the patches is retracted.
PatchStatus(p, excl) ==
  IF status[p] = "satisfied" THEN "applied"
  ELSE IF status[p] = "irrelevant" THEN "not needed"
  ELSE IF Unwanted(p) THEN "unwanted"
  ELSE IF excl /\ Optional(p) THEN "optional" ELSE "needed"

\* Slip: a locked patch counts as what it would be without the lock.
SlipStats(collected, excl) ==
  LET optional == { p \in collected : excl /\ Optional(p) }
  IN [needed |-> collected \ optional, optional |-> optional, locked |-> {},
      security |-> { p \in collected \ optional : Patch(p).cat = "security" }]
Stats(collected, excl) ==
  LET locked == { p \in collected : Unwanted(p) }
      optional == { p \in collected \ locked : excl /\ Optional(p) }
      needed == collected \ (locked \cup optional)
  IN [needed |-> needed, optional |-> optional, locked |-> locked,
      security |-> { p \in needed : Patch(p).cat = "security" }]

PatchCheckCode(stats) ==
  IF stats.needed = {} THEN EXIT_OK
  ELSE IF stats.security = {} THEN INF_UPDATE_NEEDED ELSE INF_SEC_UPDATE_NEEDED

\* list_patch_updates: the table of the update stack, and the one of the others.
PatchTables(line, excl) ==
  LET rows == { p \in Patches : CliMatch(p, line) /\ (line.all \/ Applicable(p)) }
      first == { p \in rows : ~line.all /\ NeededForStack(p, excl) }
  IN [first |-> first, rest |-> rows \ first, blocked |-> {}, affects |-> first # {},
      stats |-> Stats({ p \in Patches : CliMatch(p, line) /\ Applicable(p) }, excl)]

\* xml_list_patches: no filter of the command line reaches it; with a patch for the update
\* stack the others make up a list of their own.
XmlLists(line, excl) ==
  LET affects == \E p \in Patches : NeededForStack(p, excl)
      rows == { p \in Patches : line.all \/ Applicable(p) }
      first == { p \in rows : ~line.all /\ NeededForStack(p, excl) }
  IN [first |-> first,
      rest |-> IF affects /\ ~line.all THEN {} ELSE rows,
      blocked |-> IF affects /\ ~line.all THEN rows \ first ELSE {},
      affects |-> affects, stats |-> Stats({}, excl)]

PatchUpdates(line, excl) == IF line.xml THEN XmlLists(line, excl) ELSE PatchTables(line, excl)

IsInstalled(n) == installed[n] # NotInstalled
Highest(n) == CHOOSE e \in scene.offers[n] : \A f \in scene.offers[n] : ~Older(e, f)

\* doUpdate: what the solver picks for an update, which never moves a locked package.
Picked(n) == scene.pick[n] # NotInstalled /\ Older(installed[n], scene.pick[n]) /\ ~PackageLocked(n)

FindUpdates(all) ==
  IF all
  THEN { <<n, Highest(n)>> : n \in { m \in Packages : /\ IsInstalled(m) /\ scene.offers[m] # {}
                                                     /\ Older(installed[m], Highest(m)) } }
  ELSE { <<n, scene.pick[n]>> : n \in { m \in Packages : Picked(m) /\ IsInstalled(m) } }

\* versionChangeFiltered: the last segment of a release counts the rebuilds.
VersionChangeFiltered(old, new, filter) ==
  /\ filter # "none"
  /\ old.epoch = new.epoch
  /\ old.version = new.version
  /\ filter = "package" \/ old.release = new.release

OtherUpdates(line) ==
  { u \in FindUpdates(line.all) : ~VersionChangeFiltered(installed[u[1]], u[2], line.change) }
-----------------------------------------------------------------------------
(* Issues: list-patches --issue, --cve, --bugzilla and patch --cve, --bugzilla *)

In(part, text) == part = "" \/ part = text \/ <<part, text>> \in Within

\* The references of a patch that the query for an issue finds; exact as patch wants them.
IdMatches(issue, ref, exact) == IF exact THEN issue.id = ref[2] ELSE In(issue.id, ref[2])
TypeMatches(text, ref, exact) == IF exact THEN text = ref[1] ELSE In(text, ref[1])
Queried(issue, p, exact) ==
  { ref \in Patch(p).refs :
      IF issue.type # "" /\ issue.id = "" THEN TypeMatches(issue.type, ref, exact)
      ELSE \/ IdMatches(issue, ref, exact)
           \/ ~exact /\ issue.type = "" /\ issue.id # "" /\ TypeMatches(issue.id, ref, exact) }

\* One query cannot ask for a type and an id; the type is checked on its results.
References(issue, p, exact) ==
  { ref \in Queried(issue, p, exact) : issue.type = "" \/ ref[1] = issue.type }

\* Who mentions it in summary or description: the second pass, for issues of any type.
Mentioned(issue) ==
  IF issue.type = "" /\ issue.id # "" THEN { p \in Patches : \E w \in Patch(p).words : In(issue.id, w) }
  ELSE {}

ByIssue(line) ==
  LET listed == { p \in Patches : (line.all \/ Applicable(p)) /\ CliMatch(p, line) }
      numbers == { p \in listed : \E i \in line.issues : References(i, p, FALSE) # {} }
  IN [numbers |-> numbers,
      descriptions |-> { p \in listed \ numbers : \E i \in line.issues : p \in Mentioned(i) },
      unknown |-> { i.id : i \in { j \in line.issues : /\ j.id # ""
                                                      /\ \A p \in Patches : Queried(j, p, FALSE) = {} } }
                    \ { i.id : i \in { j \in line.issues : Mentioned(j) # {} } }]
-----------------------------------------------------------------------------
(* patch and update -t patch: SolverRequester::updatePatches, installPatch *)

Marks(p, line, excl) ==
  /\ Applicable(p)
  /\ ~Unwanted(p)
  /\ ~(excl /\ Optional(p))
  /\ ~(line.skip /\ Patch(p).asks)
  /\ CliMatch(p, line)

\* Slip: a patch of the update stack that cannot be installed still holds back the others.
SlipMarked(line, excl) ==
  LET all == { p \in Patches : Marks(p, line, excl) }
      stack == { p \in Patches : Applicable(p) /\ Patch(p).stack }
  IN IF stack # {} \/ line.stackOnly THEN all \cap stack ELSE all
Marked(line, excl) ==
  LET all == { p \in Patches : Marks(p, line, excl) }
      stack == { p \in all : Patch(p).stack }
  IN IF stack # {} \/ line.stackOnly THEN stack ELSE all

\* mark_updates_by_issue.
MarkedFor(issue, line, excl) ==
  { p \in Patches : References(issue, p, TRUE) # {} /\ Marks(p, line, excl) }
-----------------------------------------------------------------------------
(* Commands *)

Report == [cmd |-> "none", line |-> {}, code |-> EXIT_OK, stats |-> Stats({}, TRUE), first |-> {}, rest |-> {},
           blocked |-> {}, needed |-> {}, packages |-> {}, marked |-> {}, went |-> FALSE]

\* OptionalPatchesOptionSet: reset() sets the default before the options are parsed.
OptionalOf(line) == line.optional # "with"

\* SelectPatchOptionSet::fixupIfWithOptional.
Fixup(line, excl) == excl /\ "optional" \notin line.categories

\* list-updates and update have no such option: they see what was set last.
Excluding(line) ==
  CASE line.cmd = "patch-check" -> OptionalOf(line)
    [] line.cmd \in {"list-patches", "patch"} -> Fixup(line, OptionalOf(line))
    [] OTHER -> Kept(exclude, TRUE)

Starts(line, cmd) ==
  /\ line.cmd = cmd
  /\ exclude' = IF shell THEN Excluding(line) ELSE TRUE
  /\ note' = IF shell /\ line.comment # "" THEN line.comment ELSE note
  /\ UNCHANGED <<scene, shell>>

LooksOnly == UNCHANGED <<status, installed, reboot, locks, shown, rounds>>

PatchCheck(line) ==
  /\ Starts(line, "patch-check")
  /\ LoadTarget
  /\ LET stats == Stats({ p \in Patches : Applicable(p) /\ (line.stackOnly => Patch(p).stack) }, Excluding(line))
     IN report' = [Report EXCEPT !.cmd = line.cmd, !.line = line, !.stats = stats,
                                 !.code = PatchCheckCode(stats)]
  /\ LooksOnly

Lists(line, found) ==
  report' = [Report EXCEPT !.cmd = line.cmd, !.line = line, !.stats = found.stats, !.first = found.first,
                           !.rest = found.rest, !.blocked = found.blocked,
                           !.needed = { p \in Patches : /\ p \in found.first \cup found.rest \cup found.blocked
                                                        /\ PatchStatus(p, Excluding(line)) = "needed" },
                           !.packages = IF "package" \in line.kinds /\ ~found.affects THEN OtherUpdates(line)
                                        ELSE {}]

\* Patches first; with one for the update stack nothing else is listed.
ListUpdates(line) ==
  /\ Starts(line, "list-updates")
  /\ LoadTarget
  /\ Lists(line, IF "patch" \in line.kinds THEN PatchUpdates(line, Excluding(line))
                 ELSE [first |-> {}, rest |-> {}, blocked |-> {}, affects |-> FALSE, stats |-> Report.stats])
  /\ LooksOnly

ListPatches(line) ==
  /\ Starts(line, "list-patches")
  /\ LoadTarget
  /\ line.issues = {}
  /\ Lists(line, PatchUpdates(line, Excluding(line)))
  /\ LooksOnly

ListPatchesByIssue(line) ==
  /\ Starts(line, "list-patches")
  /\ LoadTarget
  /\ line.issues # {}
  /\ LET found == ByIssue(line)
     IN Lists(line, [first |-> found.numbers, rest |-> found.descriptions, blocked |-> found.unknown,
                     affects |-> FALSE, stats |-> Report.stats])
  /\ LooksOnly

\* What a commit of these patches and packages leaves behind; the packages of one patch may
\* be those another one waits for.
Commit(patches, packages) ==
  /\ \E also \in SUBSET { p \in Patches \ patches : Applicable(p) /\ patches \cup packages # {} } :
       status' = [p \in Patches |-> IF p \in patches \cup also THEN "satisfied" ELSE status[p]]
  /\ installed' = [n \in Packages |-> IF \E u \in packages : u[1] = n THEN scene.pick[n] ELSE installed[n]]
  /\ reboot' = (reboot \/ \E p \in patches : Patch(p).asks)

CommitCode(patches) ==
  IF \E p \in patches : Patch(p).asks THEN INF_REBOOT_NEEDED
  ELSE IF \E p \in patches : Patch(p).stack THEN INF_RESTART_NEEDED ELSE EXIT_OK

\* The user declines, the commit fails, or all of it goes through.
SolveAndCommit(line, patches, packages, notFound) ==
  LET Says(code, went) ==
        report' = [Report EXCEPT !.cmd = line.cmd, !.line = line, !.marked = patches,
                                 !.packages = packages, !.code = code, !.went = went]
      info == IF notFound THEN INF_CAP_NOT_FOUND ELSE EXIT_OK
      plain == line.issues = {} /\ line.categories = {} /\ ~line.skip /\ ~line.stackOnly /\ ~line.withUpdate
  IN \/ /\ Commit(patches, packages)
        /\ Says(IF CommitCode(patches) = EXIT_OK THEN info ELSE CommitCode(patches), TRUE)
        /\ rounds' = IF line.cmd = "patch" /\ plain /\ line.optional # "with" /\ rounds < MaxRounds
                     THEN rounds + 1 ELSE rounds
        /\ UNCHANGED <<locks, shown>>
     \/ \E code \in {info, ERR_COMMIT} :
          /\ patches \cup packages # {}
          /\ Says(code, FALSE)
          /\ LooksOnly

\* --with-update is dropped once the update stack goes first, and brings in the optional patches.
PatchCmd(line) ==
  LET excl == Excluding(line) /\ ~line.withUpdate
      patches == Marked(line, excl)
      stackFirst == \E p \in patches : Patch(p).stack
  IN /\ Starts(line, "patch")
     /\ LoadTarget
     /\ line.issues = {}
     /\ SolveAndCommit(line, patches, IF line.withUpdate /\ ~stackFirst THEN FindUpdates(FALSE) ELSE {}, FALSE)

PatchByIssue(line) ==
  LET excl == Excluding(line) /\ ~line.withUpdate
      fixes == [i \in line.issues |-> MarkedFor(i, line, excl)]
  IN /\ Starts(line, "patch")
     /\ LoadTarget
     /\ line.issues # {}
     /\ SolveAndCommit(line, UNION { fixes[i] : i \in line.issues },
                       IF line.withUpdate THEN FindUpdates(FALSE) ELSE {}, \E i \in line.issues : fixes[i] = {})

UpdateCmd(line) ==
  /\ Starts(line, "update")
  /\ LoadTarget
  /\ SolveAndCommit(line, IF "patch" \in line.kinds THEN Marked(line, Excluding(line)) ELSE {},
                    IF "package" \in line.kinds THEN FindUpdates(FALSE) ELSE {}, FALSE)

NeedsRebooting(line) ==
  /\ Starts(line, "needs-rebooting")
  /\ report' = [Report EXCEPT !.cmd = line.cmd, !.line = line,
                              !.code = IF reboot THEN INF_REBOOT_NEEDED ELSE EXIT_OK]
  /\ UNCHANGED held
  /\ LooksOnly
-----------------------------------------------------------------------------
(* The lock commands *)

Query(l) == <<l.name, l.kinds, l.repos>>
Queries(list) == { Query(list[i]) : i \in DOMAIN list }

\* The entries of a list at some of its places, in their order.
Rank(S, i) == Cardinality({ j \in S : j <= i })
Nth(S, k) == CHOOSE i \in S : Rank(S, i) = k
At(list, S) == [k \in 1..Cardinality(S) |-> list[Nth(S, k)]]

\* Slip: the repositories are not looked up.
SlipArg2Query(arg, line, comment) ==
  [name |-> arg.name, repos |-> line.repos, comment |-> comment,
   kinds |-> IF arg.kind # "" THEN {arg.kind} ELSE IF line.kinds = {} THEN {"package"} ELSE line.kinds]
\* arg2query: an unknown repository is left out; a kind in front of the name wins over --type.
Arg2Query(arg, line, comment) ==
  [name |-> arg.name, repos |-> line.repos \cap Repos, comment |-> comment,
   kinds |-> IF arg.kind # "" THEN {arg.kind} ELSE IF line.kinds = {} THEN {"package"} ELSE line.kinds]

\* The libzypp Locks compare queries without their comment.
Without(list, gone) == At(list, { i \in DOMAIN list : Query(list[i]) \notin gone })

FirstOfItsKind(list) ==
  At(list, { i \in DOMAIN list : \A j \in 1..(i - 1) : Query(list[j]) # Query(list[i]) })

\* Only what is not there yet is added.
AddLocks(list, new) == list \o FirstOfItsKind(Without(new, Queries(list)))

\* Reading or saving the file may fail; then the file stays.
Edits(line, list, failure) ==
  /\ \/ /\ locks' = list
        /\ report' = [Report EXCEPT !.cmd = line.cmd, !.line = line, !.went = TRUE]
        /\ rounds' = 0
     \/ /\ report' = [Report EXCEPT !.cmd = line.cmd, !.line = line, !.code = failure]
        /\ UNCHANGED <<locks, rounds>>
  /\ UNCHANGED <<system, shown>>

\* doReset leaves the comment of an earlier addlock in place.
AddLocksCmd(line) ==
  LET comment == IF line.comment # "" THEN line.comment ELSE Kept(note, "")
      added == AddLocks(locks, [k \in DOMAIN line.args |-> Arg2Query(line.args[k], line, comment)])
  IN /\ Starts(line, "addlock")
     /\ Len(added) <= MaxLocks
     /\ Edits(line, added, ERR_ZYPP)
     /\ UNCHANGED held

\* Slip: one argument too far.
SlipNamed(arg, line, gone, atOnce) ==
  LET list == IF atOnce THEN Without(locks, gone) ELSE locks
  IN IF arg.number + 1 \in DOMAIN list THEN Query(list[arg.number + 1]) ELSE Query(Arg2Query(arg, line, ""))
\* Slip: the locks already taken are allowed for, whatever their places.
ShiftedNamed(arg, line, gone, atOnce) ==
  LET number == arg.number - Cardinality(gone)
  IN IF number \in DOMAIN locks THEN Query(locks[number]) ELSE Query(Arg2Query(arg, line, ""))
\* A number counts in the list as it is by then: libzypp takes a lock out atOnce, or when
\* the file is saved; the code here relies on neither.  Beyond the list it is a name.
Named(arg, line, gone, atOnce) ==
  LET list == IF atOnce THEN Without(locks, gone) ELSE locks
  IN IF arg.number \in DOMAIN list THEN Query(list[arg.number]) ELSE Query(Arg2Query(arg, line, ""))

\* What the arguments may stand for.
Nameable(line) == Queries(locks) \cup { Query(Arg2Query(arg, line, "")) : arg \in ToSet(line.args) }

\* taken: what each argument takes, after those before it.
RemoveLocksCmd(line) ==
  /\ Starts(line, "removelock")
  /\ \E atOnce \in BOOLEAN : \E taken \in [DOMAIN line.args -> Nameable(line)] :
       /\ \A k \in DOMAIN line.args :
            taken[k] = Named(line.args[k], line, { taken[j] : j \in 1..(k - 1) }, atOnce)
       /\ Edits(line, Without(locks, Range(taken)), ERR_ZYPP)
  /\ UNCHANGED held

\* The pool of the repositories is at hand here; nobody is asked.
LocksNothing(l) ==
  /\ \A p \in Patches : ~Covers(l, p, "patch", Patch(p).repo)
  /\ \A n \in Packages : ~Covers(l, n, "package", "main")

CleanLocksCmd(line) ==
  LET used == IF line.onlyDuplicates THEN locks
              ELSE At(locks, { i \in DOMAIN locks : ~LocksNothing(locks[i]) })
      list == IF line.onlyEmpty THEN used ELSE FirstOfItsKind(used)
  IN /\ Starts(line, "cleanlocks")
     /\ LoadTarget
     /\ Edits(line, list, ERR_BUG)

\* The list with its numbers; a broken file is reported.
ListLocksCmd(line) ==
  /\ Starts(line, "locks")
  /\ \/ /\ shown' = locks
        /\ report' = [Report EXCEPT !.cmd = line.cmd, !.line = line, !.went = TRUE]
     \/ /\ report' = [Report EXCEPT !.cmd = line.cmd, !.line = line, !.code = ERR_ZYPP]
        /\ UNCHANGED shown
  /\ UNCHANGED <<system, locks, held, rounds>>
-----------------------------------------------------------------------------
(* Around the commands *)

\* Entering or leaving the zypper shell: what was kept is gone.
ShellSwitch ==
  /\ shell' = ~shell
  /\ held' = <<>> /\ exclude' = TRUE /\ note' = ""
  /\ rounds' = 0
  /\ report' = Report
  /\ UNCHANGED <<scene, system, locks, shown>>

\* A repository publishes what makes a patch applicable.
Publish ==
  /\ ~shell
  /\ \E p \in Patches : status[p] = "irrelevant" /\ status' = [status EXCEPT ![p] = "broken"]
  /\ rounds' = 0
  /\ report' = Report
  /\ UNCHANGED <<scene, installed, reboot, locks, shell, held, exclude, note, shown>>

\* The machine comes up again; /run starts empty.
Reboot ==
  /\ reboot
  /\ reboot' = FALSE
  /\ shell' = FALSE /\ held' = <<>> /\ exclude' = TRUE /\ note' = ""
  /\ rounds' = 0
  /\ report' = Report
  /\ UNCHANGED <<scene, status, installed, locks, shown>>

Init ==
  /\ scene \in Scenes
  /\ status = [p \in Patches |-> scene.patch[p].status]
  /\ installed = scene.installed
  /\ reboot = FALSE
  /\ locks = scene.locks
  /\ shell = FALSE /\ held = <<>> /\ exclude = TRUE /\ note = ""
  /\ shown = <<>>
  /\ rounds = 0
  /\ report = Report

Command(line) ==
  \/ PatchCheck(line)
  \/ ListUpdates(line)
  \/ ListPatches(line)
  \/ ListPatchesByIssue(line)
  \/ PatchCmd(line)
  \/ PatchByIssue(line)
  \/ UpdateCmd(line)
  \/ NeedsRebooting(line)
  \/ AddLocksCmd(line)
  \/ RemoveLocksCmd(line)
  \/ CleanLocksCmd(line)
  \/ ListLocksCmd(line)

Next ==
  \/ \E line \in scene.lines : Command(line)
  \/ ShellSwitch
  \/ Publish
  \/ Reboot

Spec == Init /\ [][Next]_vars
-----------------------------------------------------------------------------
(* Properties *)

\* Type correctness; what the pool was loaded with is kept by the shell only.
TypeOK ==
  /\ scene \in Scenes
  /\ status \in [Patches -> {"broken", "satisfied", "irrelevant"}]
  /\ installed \in [Packages -> Edition]
  /\ locks \in Seq(Lock) /\ shown \in Seq(Lock)
  /\ reboot \in BOOLEAN /\ shell \in BOOLEAN /\ exclude \in BOOLEAN
  /\ note \in {"", "reason"}
  /\ rounds \in 0..MaxRounds
  /\ held = <<>> \/ (shell /\ Len(held) = 1 /\ held[1] \subseteq Lock)
  /\ report.code \in {EXIT_OK, ERR_BUG, ERR_ZYPP, ERR_COMMIT, INF_UPDATE_NEEDED, INF_SEC_UPDATE_NEEDED,
                      INF_REBOOT_NEEDED, INF_RESTART_NEEDED, INF_CAP_NOT_FOUND}
  /\ report.marked \cup report.stats.needed \subseteq Patches

\* A command line that asks for all patches in the same way as another one.
Plain(line) ==
  line.categories = {} /\ line.issues = {} /\ ~line.all /\ ~line.stackOnly /\ ~line.skip /\ ~line.withUpdate

AsAsked(a, b) == Plain(a) /\ Plain(b) /\ a.optional = b.optional

\* update.cc, at PatchCheckStats: the update summary must correspond to list-updates and
\* patch-check.  One command after the other: patch-check counts what list-patches shows, in the
\* tables and in the two lists of the xml output, down to the status of each, and announces by 100 or 101 that patch has
\* something to install; and patch takes what the list shows first.
PatchesAgree(now, then) ==
  AsAsked(now.line, then.line) =>
    /\ now.cmd = "patch-check" /\ then.cmd = "list-patches" =>
         LET all == then.first \cup then.rest \cup then.blocked
         IN /\ all = now.stats.needed \cup now.stats.optional \cup now.stats.locked
            /\ then.needed = now.stats.needed
            /\ then.line.xml \/ then.stats = now.stats
    /\ now.cmd = "patch-check" /\ then.cmd = "patch" =>
         then.marked \subseteq now.stats.needed /\ (then.marked # {} <=> now.code # EXIT_OK)
    /\ now.cmd = "list-patches" /\ then.cmd = "patch" /\ now.first # {} => then.marked = now.first

\* doc/zypper.8.txt, list-updates: this list is what update will propose to install; a filter
\* by version change hides no change of the upstream version.
PackagesAgree(now, then) ==
  /\ now.cmd = "list-updates" /\ then.cmd = "update" /\ now.line.kinds = {"package"} /\ then.line.kinds = {"package"} =>
       /\ now.line.all \/ now.packages \subseteq then.packages
       /\ \A u \in then.packages :
            /\ now.line.change = "none" /\ ~now.line.all => u \in now.packages
            /\ ~now.line.all /\ (installed[u[1]].epoch # u[2].epoch \/ installed[u[1]].version # u[2].version)
                 => u \in now.packages

ListsAgree ==
  [][report.cmd # "none" /\ report'.cmd # "none"
       => PatchesAgree(report, report') /\ PackagesAgree(report, report')]_vars

\* doc/zypper.8.txt, patch: patches for the package management are installed first and patch is
\* to be run again.  Twice is enough: then no patch is left that patch-check would count.
TwoRoundsSuffice ==
  rounds >= 2 => \A p \in Patches : Applicable(p) => Unwanted(p) \/ Optional(p)

\* Lock p of the file is the n-th of those that are not out.
IsNumber(n, p, out) ==
  /\ Query(locks[p]) \notin out
  /\ n = Cardinality({ i \in 1..p : Query(locks[i]) \notin out })

\* Each lock that goes has an argument that is its name, with its kinds and repositories, or its
\* number: in the file, or in what earlier arguments left of it if libzypp takes locks out atOnce.
ByArgument(gone, line, atOnce) ==
  \A g \in gone : \E k \in DOMAIN line.args :
     \/ g = Query(Arg2Query(line.args[k], line, ""))
     \/ \E p \in DOMAIN locks : \E out \in SUBSET gone :
          /\ g = Query(locks[p])
          /\ IsNumber(line.args[k].number, p, out)
          /\ Cardinality(out) < k /\ (out = {} \/ atOnce)

\* The arguments are numbers of the list shown, which still begins the file, and no number
\* counts past a lock that an earlier one takes: they descend, or there is only one.
NumbersHold(args) ==
  /\ \A i \in DOMAIN shown : i \in DOMAIN locks /\ locks[i] = shown[i]
  /\ \A k \in DOMAIN args :
       /\ args[k].number \in DOMAIN shown
       /\ \A j \in 1..(k - 1) : \A i \in 1..args[k].number :
            Query(shown[i]) # Query(shown[args[j].number])

\* doc/zypper.8.txt, removelock and locks: a lock goes because the command line names it, because
\* its number is given, or because cleanlocks finds it useless; one argument takes one lock.  A
\* number counts in the file as it is then.  It is the lock the user saw with it while the
\* list shown still begins the file (addlock keeps it so, the other edits do not) and the
\* numbers descend: 'removelock 1 2' may take the first and the third.
LocksRemoved(gone, then) ==
  LET line == then.line
  IN /\ \/ gone = {}
        \/ /\ then.cmd = "cleanlocks"
           /\ ~line.onlyDuplicates
           /\ \A l \in ToSet(locks) : Query(l) \in gone => LocksNothing(l)
        \/ /\ then.cmd = "removelock"
           /\ Cardinality(gone) <= Len(line.args)
           /\ \E atOnce \in BOOLEAN : ByArgument(gone, line, atOnce)
     /\ then.cmd = "removelock" /\ then.went /\ NumbersHold(line.args) =>
          gone = { Query(shown[line.args[k].number]) : k \in DOMAIN line.args }

\* And what is locked as the target was loaded is never installed.
LocksAsNamed ==
  [][/\ LocksRemoved(Queries(locks) \ Queries(locks'), report')
     /\ \A p \in report'.marked : ~Locked(p)
     /\ report'.cmd \in {"patch", "update"} => \A u \in report'.packages : ~PackageLocked(u[1])]_vars
=============================================================================
