--------------------------- MODULE SolverRequest ---------------------------
(***************************************************************************)
(* From the arguments of install, remove, update and patch to the request  *)
(* for the solver: PackageArgs sorts the arguments into what is wanted and *)
(* what is not, SolverRequester marks items of the pool or adds solver     *)
(* jobs for them, and the command decides by the requester's feedback      *)
(* whether to go on to solve_and_commit.                                   *)
(*                                                                         *)
(* One command in one pool.  The set-up before it is RepoInit, what comes  *)
(* after it SolveAndCommit.  The pool and its queries are libzypp's: names *)
(* have items, and libzypp says which item is the candidate for an update. *)
(***************************************************************************)
EXTENDS Naturals, Sequences, FiniteSets

CONSTANTS
  Packages,    \* names of packages
  Patches,     \* names of patches
  Repos,       \* aliases of repositories
  Priority,    \* of the repositories and the system; a lower number wins
  Archs, Vendors,
  Caps,        \* what an argument may say
  Issues,      \* issue numbers of patch --cve, --bugzilla
  FixedBy,     \* the patches that name an issue
  Lines,       \* the command lines, see CommandLine
  Pools,       \* what the pool may contain, see Selectable and PatchVersion
  NoItem       \* no such item

System == "@System"
Unspecified == "any"

\* The edition stands for the order of versions; two items are identical for libzypp
\* if all but the repository and the lock agrees.
Item == [ed : Nat, arch : Archs, vendor : Vendors, repo : Repos \cup {System}, locked : BOOLEAN]

\* candidate: Selectable::updateCandidateObj, which keeps to the installed vendor.
Selectable == [installed : Item \cup {NoItem}, available : SUBSET Item,
               candidate : Item \cup {NoItem}]

\* asks: what makes it interactive; stack: Patch::restartSuggested, it affects the
\* package manager itself; late, fits, severe: how it relates to the patch filters.
PatchVersion == [ed : Nat, status : {"broken", "satisfied", "irrelevant"}, stack : BOOLEAN,
                 locked : BOOLEAN, optional : BOOLEAN, asks : SUBSET {"reboot", "license", "other"},
                 late : BOOLEAN, fits : BOOLEAN, severe : BOOLEAN]

\* A PackageSpec: the names its glob matches, who provides it as a capability, the
\* edition and the architecture it insists on (0, Unspecified: none), the repository in front.
Spec_ == [cap : Caps, names : SUBSET (Packages \cup Patches), provides : SUBSET Packages,
          ed : Nat, arch : Archs \cup {Unspecified}, repo : Repos \cup {Unspecified},
          modified : BOOLEAN]

NoSpec == [cap |-> CHOOSE c \in Caps : TRUE, names |-> {}, provides |-> {}, ed |-> 0,
           arch |-> Unspecified, repo |-> Unspecified, modified |-> FALSE]

\* An argument with its modifier resolved; bad: a modifier or an option without a name.
Word == [spec : Spec_, dont : BOOLEAN, bad : BOOLEAN]

Kinds == {"package", "patch", "pattern", "product", "srcpackage"}

\* words: the arguments, those for rpm files apart; sorted as a set of strings is.
CommandLine ==
  [cmd : {"install", "remove", "update", "patch"}, words : Seq(Seq(Word)), kinds : SUBSET Kinds,
   byName : BOOLEAN, byCap : BOOLEAN, force : BOOLEAN, oldpackage : BOOLEAN,
   bestEffort : BOOLEAN, from : SUBSET Repos, badFrom : BOOLEAN, allowVendor : BOOLEAN,
   skipInteractive : BOOLEAN, skipOptional : BOOLEAN, rebootOk : BOOLEAN, agree : BOOLEAN,
   dateLimit : BOOLEAN, category : BOOLEAN, severity : BOOLEAN, stackOnly : BOOLEAN,
   withUpdate : BOOLEAN, issues : SUBSET Issues, nonInteractive : BOOLEAN, ignoreUnknown : BOOLEAN]

\* A candidate for an update keeps the vendor; a name is a package's or a patch's; a patch of
\* the pool has a version, a package finitely many.
ASSUME RequestAssumption ==
  /\ Packages \cap Patches = {}
  /\ NoItem \notin Item /\ Caps # {}
  /\ FixedBy \in [Issues -> SUBSET Patches]
  /\ Lines \subseteq CommandLine
  /\ Pools \subseteq [packages : [Packages -> Selectable], patches : [Patches -> Seq(PatchVersion)]]
  /\ \A world \in Pools, n \in Packages :
       LET s == world.packages[n]
       IN /\ s.installed # NoItem /\ s.candidate # NoItem => s.candidate.vendor = s.installed.vendor
          /\ IsFiniteSet(s.available)
  /\ \A world \in Pools, p \in Patches : world.patches[p] # <<>>

EXIT_OK == 0
EXIT_ERR_INVALID_ARGS == 3
EXIT_INF_CAP_NOT_FOUND == 104

VARIABLES
  pool,        \* packages and patches of the pool
  line,        \* the command
  pc,          \* where the command is
  batch,       \* the PackageArgs at hand: plain arguments, then rpm files
  at,          \* the next argument to be parsed
  dos, donts,  \* PackageArgs::_dos and _donts, what is left of them
  spec,        \* the argument whose matches are gone through
  matches,     \* the names it matches, as far as not handled
  hit,         \* one of its matches was handled
  sr,          \* the SolverRequester: marks, solver jobs, feedback
  issues,      \* issues still to be looked at
  exitCode, exitInfo,
  updateOnly,  \* RuntimeData::solve_update_only
  withUpdate   \* RuntimeData::solve_with_update

\* History variable, read by properties only.
VARIABLE given \* the arguments that were handled, with their direction

args == <<batch, at, dos, donts>>
loop == <<spec, matches, hit>>
codes == <<exitCode, exitInfo>>
runtime == <<updateOnly, withUpdate>>
vars == <<pool, line, pc, args, loop, sr, issues, codes, runtime, given>>

-----------------------------------------------------------------------------
(* The pool *)

Items(n) ==
  pool.packages[n].available \cup ({pool.packages[n].installed} \ {NoItem})

Installed(n) == pool.packages[n].installed

Available(n) == pool.packages[n].available

IsInstalled(n) == Installed(n) # NoItem

Identical(i, j) == i.ed = j.ed /\ i.arch = j.arch /\ i.vendor = j.vendor

\* Selectable::highestAvailableVersionObj.
Highest(n) == CHOOSE i \in Available(n) : \A j \in Available(n) : j.ed <= i.ed

Versions(p) == pool.patches[p]

\* Selectable::hasLocks.
HasLocks(n) ==
  IF n \in Packages THEN \E i \in Items(n) : i.locked
  ELSE \E v \in 1..Len(Versions(n)) : Versions(n)[v].locked

\* PoolItemBest with preferNotLocked.
Better(i, j) ==
  \/ j.locked /\ ~i.locked
  \/ i.locked = j.locked /\ Priority[i.repo] < Priority[j.repo]
  \/ i.locked = j.locked /\ Priority[i.repo] = Priority[j.repo] /\ i.ed > j.ed

Fits(s, i) == s.ed \in {0, i.ed} /\ s.arch \in {Unspecified, i.arch}

\* pkg_spec_to_poolquery.
Query(s, n, repos) ==
  { i \in Items(n) : Fits(s, i) /\ (repos = {} \/ i.repo \in repos) }

AskedRepos(s) == IF s.repo # Unspecified THEN {s.repo} ELSE line.from

\* sat::WhatProvides, which knows nothing of repositories, and its installed part.
Providers(s) == { n \in s.provides : \E i \in Items(n) : Fits(s, i) }
InstalledProviders(s) == { n \in Providers(s) : IsInstalled(n) /\ Fits(s, Installed(n)) }

\* The user asked for a repository, an edition or an architecture.
UserConstraints(s) == s.ed # 0 \/ s.arch # Unspecified \/ line.from # {} \/ s.repo # Unspecified

-----------------------------------------------------------------------------
(* What the requester has done so far *)

\* toinst and toremove: the marked items; requires and conflicts: the solver's jobs;
\* feedback: what is reported, of which argument or which name.
Nothing == [toinst |-> {}, toremove |-> {}, requires |-> {}, conflicts |-> {}, feedback |-> {}]

And(j, k) ==
  [toinst |-> j.toinst \cup k.toinst, toremove |-> j.toremove \cup k.toremove,
   requires |-> j.requires \cup k.requires, conflicts |-> j.conflicts \cup k.conflicts,
   feedback |-> j.feedback \cup k.feedback]

All(js) ==
  [toinst |-> UNION { j.toinst : j \in js }, toremove |-> UNION { j.toremove : j \in js },
   requires |-> UNION { j.requires : j \in js }, conflicts |-> UNION { j.conflicts : j \in js },
   feedback |-> UNION { j.feedback : j \in js }]

\* addFeedback, of an argument or of an item.
Args(ids, s) == [Nothing EXCEPT !.feedback = { [id |-> id, arg |-> s, name |-> ""] : id \in ids }]
Names(ids, n) ==
  [Nothing EXCEPT !.feedback = { [id |-> id, arg |-> NoSpec, name |-> n] : id \in ids }]

\* The capabilities the requester makes up, and the one of an argument.
Exactly(n, i) == [of |-> n, op |-> "EQ", ed |-> i.ed]
NewerThan(n, i) == [of |-> n, op |-> "GT", ed |-> i.ed]
AsGiven(s) == [of |-> s.cap, op |-> "arg", ed |-> s.ed]

\* setToInstall: a lock is left to the solver, marking the item would remove it.
SetToInstall(n, i) ==
  IF line.force
  THEN And([Nothing EXCEPT !.toinst = {<<n, i>>}], Names({"FORCED_INSTALL"}, n))
  ELSE IF HasLocks(n)
  THEN And([Nothing EXCEPT !.requires = {Exactly(n, i)}],
           Names({"SET_TO_INSTALL", "INSTALLED_LOCKED"}, n))
  ELSE And([Nothing EXCEPT !.toinst = {<<n, i>>}], Names({"SET_TO_INSTALL"}, n))

SetToRemoveLockedSlip(n, i) ==
  And([Nothing EXCEPT !.toremove = {<<n, i>>}], Names({"SET_TO_REMOVE"}, n))

\* setToRemove.
SetToRemove(n, i) ==
  IF HasLocks(n)
  THEN And([Nothing EXCEPT !.conflicts = {Exactly(n, i)}],
           Names({"SET_TO_REMOVE", "INSTALLED_LOCKED"}, n))
  ELSE And([Nothing EXCEPT !.toremove = {<<n, i>>}], Names({"SET_TO_REMOVE"}, n))

\* addRequirement and addConflict.
AddRequirement(s) ==
  And([Nothing EXCEPT !.requires = {AsGiven(s)}], Args({"ADDED_REQUIREMENT"}, s))

AddConflict(s) ==
  And([Nothing EXCEPT !.conflicts = {AsGiven(s)}], Args({"ADDED_CONFLICT"}, s))

-----------------------------------------------------------------------------
(* updateTo: from the installed item to the selected one *)

WantedIfAskedSlip(s, n, sel) ==
  sel.ed > Installed(n).ed \/ s.ed # 0 \/ s.repo # Unspecified \/ line.force \/ line.oldpackage

\* Neither --force nor --oldpackage: an older item is not selected.
Wanted(s, n, sel) ==
  LET inst == Installed(n)
  IN \/ sel.ed > inst.ed
     \/ sel.ed = inst.ed /\ sel.arch # inst.arch /\ s.arch # Unspecified
     \/ sel.ed = inst.ed /\ s.repo # Unspecified
     \/ line.force \/ line.oldpackage

Acts(s, n, sel) ==
  /\ ~Identical(Installed(n), sel) \/ line.force
  /\ line.bestEffort \/ Wanted(s, n, sel)

UpdateJob(s, n, sel) ==
  IF ~Acts(s, n, sel) THEN Nothing
  ELSE IF line.bestEffort
  THEN And([Nothing EXCEPT !.requires = {NewerThan(n, Installed(n))}],
           Names({"ADDED_REQUIREMENT"}, n))
  ELSE SetToInstall(n, sel)

\* Nothing changes.
Stays(s, n, sel) ==
  \/ Identical(Installed(n), sel)
  \/ ~Acts(s, n, sel) /\ Installed(n).ed = sel.ed

IsOlder(s, n, sel) == ~Stays(s, n, sel) /\ sel.ed < Installed(n).ed

NothingNewer(n) == Available(n) = {} \/ Highest(n).ed <= Installed(n).ed

\* Why the highest version is not the selected one.
Restrictions(s, n, sel) ==
  LET high == Highest(n)
      inst == Installed(n)
  IN IF Available(n) = {} \/ Identical(sel, high) \/ high.ed <= inst.ed THEN {}
     ELSE { r \in {"USER_RESTRICTED", "IS_LOCKED", "CHANGES_VENDOR", "HAS_LOWER_PRIO"} :
            CASE r = "USER_RESTRICTED" -> UserConstraints(s)
              [] r = "IS_LOCKED" -> sel.locked /\ (inst.locked \/ high.locked)
              [] r = "CHANGES_VENDOR" -> high.vendor # inst.vendor /\ ~line.allowVendor
              [] r = "HAS_LOWER_PRIO" -> Priority[high.repo] > Priority[sel.repo] }

UpdateFeedback(s, n, sel) ==
  IF (Stays(s, n, sel) /\ line.force)
     \/ (IsOlder(s, n, sel) /\ (line.force \/ line.oldpackage))
  THEN {}
  ELSE (IF Stays(s, n, sel) /\ line.cmd = "install" THEN {"ALREADY_INSTALLED"} ELSE {})
    \cup (IF Stays(s, n, sel) /\ NothingNewer(n) THEN {"NO_UPD_CANDIDATE"} ELSE {})
    \cup (IF IsOlder(s, n, sel) THEN {"SELECTED_IS_OLDER"} ELSE {})
    \cup Restrictions(s, n, sel)

UpdateTo(s, n, sel) == And(UpdateJob(s, n, sel), Args(UpdateFeedback(s, n, sel), s))

-----------------------------------------------------------------------------
(* installPatch *)

\* CliMatchPatch.
PassesFilter(v) ==
  /\ ~(line.dateLimit /\ v.late)
  /\ ~(line.category /\ ~v.fits)
  /\ ~(line.severity /\ ~v.severe)

IgnoredFlags ==
  (IF line.rebootOk THEN {"reboot"} ELSE {}) \cup (IF line.agree THEN {"license"} ELSE {})

TooInteractive(v) == line.skipInteractive /\ v.asks \ IgnoredFlags # {}

Rejected(v) ==
  \/ v.locked
  \/ line.skipOptional /\ v.optional
  \/ TooInteractive(v)
  \/ ~PassesFilter(v)

\* The first pass is for patches of the update stack only.
Due(v, ignorePkgmgmt) == v.status = "broken" /\ (ignorePkgmgmt \/ v.stack)

Marks(v, ignorePkgmgmt) == Due(v, ignorePkgmgmt) /\ ~Rejected(v)

RejectionOf(v) ==
  IF v.locked THEN "PATCH_UNWANTED"
  ELSE IF line.skipOptional /\ v.optional THEN "PATCH_OPTIONAL"
  ELSE IF TooInteractive(v) THEN "PATCH_INTERACTIVE_SKIPPED"
  ELSE "PATCH_FILTERED"

\* command: SolverRequester::_command, which updatePatches leaves unset.
InstallPatch(p, v, ignorePkgmgmt, command) ==
  IF Marks(v, ignorePkgmgmt) THEN SetToInstall(p, v)
  ELSE IF Due(v, ignorePkgmgmt) THEN Names({RejectionOf(v)}, p)
  ELSE IF v.status = "broken" \/ command \notin {"install", "update"} THEN Nothing
  ELSE Names({IF v.status = "satisfied" THEN "ALREADY_INSTALLED" ELSE "PATCH_NOT_NEEDED"}, p)

-----------------------------------------------------------------------------
(* The command and its arguments *)

TheKind == IF line.kinds = {} THEN "package" ELSE CHOOSE k \in line.kinds : TRUE

NoWords == line.words = <<>> \/ \A b \in 1..Len(line.words) : line.words[b] = <<>>

\* What execute() refuses before it looks at any argument.
Invalid ==
  CASE line.cmd = "install" -> NoWords
    [] line.cmd = "remove" -> NoWords \/ TheKind \in {"patch", "srcpackage"}
    [] line.cmd = "update" -> \/ line.kinds \cap {"product", "srcpackage"} # {}
                              \/ ~NoWords /\ Cardinality(line.kinds) > 1
    [] line.cmd = "patch" -> ~NoWords

Fail(code) == pc' = "failed" /\ exitCode' = code

RejectCommand ==
  /\ pc = "start"
  /\ Invalid \/ line.badFrom
  /\ Fail(EXIT_ERR_INVALID_ARGS)
  /\ UNCHANGED <<pool, line, args, loop, sr, issues, exitInfo, runtime, given>>

\* update and patch without arguments set up their flags here.
StartCommand ==
  /\ pc = "start"
  /\ ~Invalid /\ ~line.badFrom
  /\ pc' = IF line.cmd = "patch" THEN (IF line.issues = {} THEN "stack" ELSE "issues")
           ELSE IF ~NoWords THEN "parse"
           ELSE IF "patch" \in line.kinds THEN "stack" ELSE "feedback"
  /\ updateOnly' = (line.cmd = "update" /\ NoWords /\ (line.kinds = {} \/ "package" \in line.kinds))
  /\ withUpdate' = (line.cmd = "patch" /\ line.withUpdate)
  /\ issues' = IF line.cmd = "patch" THEN line.issues ELSE {}
  /\ UNCHANGED <<pool, line, args, loop, sr, codes, given>>

StoreTwiceSlip(s, mine, other) == [mine |-> mine \cup {s}, other |-> other]

\* argsToCaps, one argument: what is wanted and unwanted cancels out.
Store(s, mine, other) ==
  [mine |-> IF \E o \in other : o.cap = s.cap \/ \E m \in mine : m.cap = s.cap
            THEN mine ELSE mine \cup {s},
   other |-> { o \in other : o.cap # s.cap }]

Parse ==
  /\ pc = "parse"
  /\ at <= Len(line.words[batch])
  /\ LET w == line.words[batch][at]
     IN /\ ~w.bad
        /\ LET new == IF w.dont THEN Store(w.spec, donts, dos) ELSE Store(w.spec, dos, donts)
           IN /\ dos' = IF w.dont THEN new.other ELSE new.mine
              /\ donts' = IF w.dont THEN new.mine ELSE new.other
  /\ at' = at + 1
  /\ UNCHANGED <<pool, line, pc, batch, loop, sr, issues, codes, runtime, given>>

\* A modifier without a name, or an option after the arguments: ExitRequestException.
BadArgument ==
  /\ pc = "parse"
  /\ at <= Len(line.words[batch])
  /\ line.words[batch][at].bad
  /\ Fail(EXIT_ERR_INVALID_ARGS)
  /\ UNCHANGED <<pool, line, args, loop, sr, issues, exitInfo, runtime, given>>

\* update has no use for what is not wanted.
Parsed ==
  /\ pc = "parse"
  /\ at > Len(line.words[batch])
  /\ pc' = "args"
  /\ donts' = IF line.cmd = "update" THEN {} ELSE donts
  /\ UNCHANGED <<pool, line, batch, at, dos, loop, sr, issues, codes, runtime, given>>

NextBatch ==
  /\ pc = "args"
  /\ dos = {} /\ donts = {}
  /\ IF batch < Len(line.words)
     THEN batch' = batch + 1 /\ at' = 1 /\ pc' = "parse"
     ELSE pc' = "feedback" /\ UNCHANGED <<batch, at>>
  /\ UNCHANGED <<pool, line, dos, donts, loop, sr, issues, codes, runtime, given>>

-----------------------------------------------------------------------------
(* install, also for update *)

MatchedPackages(s, repos) == { n \in s.names \cap Packages : Query(s, n, repos) # {} }

MatchedPatches(s) ==
  { p \in s.names \cap Patches : \E v \in 1..Len(Versions(p)) : s.ed \in {0, Versions(p)[v].ed} }

Matched(s, repos) == MatchedPackages(s, repos) \cup MatchedPatches(s)

\* Which of its versions a patch argument selects: the newest one, an unlocked one
\* before the locked ones, or the one whose edition is given.
BestVersions(s, p) ==
  LET fits == { v \in 1..Len(Versions(p)) : s.ed \in {0, Versions(p)[v].ed} }
      free == { v \in fits : ~Versions(p)[v].locked }
      pick == IF free = {} THEN fits ELSE free
  IN { Versions(p)[v] : v \in { u \in pick : \A w \in pick : u <= w } }

BestItems(s, n) ==
  LET found == Query(s, n, AskedRepos(s))
  IN { i \in found : ~\E j \in found : Better(j, i) }

TakeArgument(s) ==
  /\ pc = "args"
  /\ s \in dos
  /\ dos' = dos \ {s}
  /\ given' = given \cup {[spec |-> s, dont |-> FALSE]}

\* By name: the matches are gone through one by one.
InstallByName(s) ==
  /\ TakeArgument(s)
  /\ ~line.byCap
  /\ Matched(s, AskedRepos(s)) # {}
  /\ spec' = s
  /\ matches' = Matched(s, AskedRepos(s))
  /\ hit' = FALSE
  /\ pc' = "match"
  /\ UNCHANGED <<pool, line, batch, at, donts, sr, issues, codes, runtime>>

NameOnly(s) == line.byName \/ s.modified

InstallNameUnknown(s) ==
  /\ TakeArgument(s)
  /\ ~line.byCap
  /\ Matched(s, AskedRepos(s)) = {}
  /\ NameOnly(s)
  /\ sr' = And(sr, Args({"NOT_FOUND_NAME"}, s))
  /\ UNCHANGED <<pool, line, pc, batch, at, donts, loop, issues, codes, runtime>>

TryingCaps(s) == IF line.byCap THEN Nothing ELSE Args({"NOT_FOUND_NAME_TRYING_CAPS"}, s)

CapJob(s) ==
  IF Providers(s) = {} THEN Args({"NOT_FOUND_CAP"}, s)
  ELSE IF InstalledProviders(s) = {} THEN AddRequirement(s)
  ELSE IF line.cmd = "install" THEN Args({"ALREADY_INSTALLED"}, s)
  ELSE Nothing

InstallByCap(s) ==
  /\ TakeArgument(s)
  /\ line.byCap \/ (Matched(s, AskedRepos(s)) = {} /\ ~NameOnly(s))
  /\ sr' = And(sr, And(TryingCaps(s), CapJob(s)))
  /\ UNCHANGED <<pool, line, pc, batch, at, donts, loop, issues, codes, runtime>>

TakeMatch(n) ==
  /\ pc = "match"
  /\ n \in matches
  /\ matches' = matches \ {n}

MatchPatch(p) ==
  /\ TakeMatch(p)
  /\ p \in Patches
  /\ \E v \in BestVersions(spec, p) : sr' = And(sr, InstallPatch(p, v, TRUE, line.cmd))
  /\ hit' = TRUE
  /\ UNCHANGED <<pool, line, pc, args, spec, issues, codes, runtime, given>>

\* Installed, but in no repository: install() returns, whatever else matches.
MatchOrphan(n) ==
  /\ pc = "match"
  /\ n \in matches
  /\ n \in Packages /\ IsInstalled(n) /\ Available(n) = {}
  /\ sr' = And(sr, Args({"NOT_IN_REPOS"} \cup (IF line.force THEN {} ELSE {"ALREADY_INSTALLED"}),
                        spec))
  /\ matches' = {}
  /\ hit' = TRUE
  /\ UNCHANGED <<pool, line, pc, args, spec, issues, codes, runtime, given>>

VendorForgottenSlip(s, n, i) ==
  IF UserConstraints(s) THEN i ELSE IF line.force THEN Highest(n) ELSE i

\* Which item to update to, by constraint, force, candidate, vendor.
Selected(s, n, i) ==
  LET inst == Installed(n)
      cand == pool.packages[n].candidate
      partlyLocked == cand # NoItem /\ cand.locked /\ ~i.locked /\ i.ed > inst.ed
  IN IF UserConstraints(s) THEN i
     ELSE IF line.force THEN Highest(n)
     ELSE IF cand # NoItem /\ ~partlyLocked THEN cand
     ELSE IF i.vendor # inst.vendor /\ ~line.allowVendor THEN inst
     ELSE i

MatchInstalled(n) ==
  /\ TakeMatch(n)
  /\ n \in Packages /\ IsInstalled(n) /\ Available(n) # {}
  /\ \E i \in BestItems(spec, n) : sr' = And(sr, UpdateTo(spec, n, Selected(spec, n, i)))
  /\ hit' = TRUE
  /\ UNCHANGED <<pool, line, pc, args, spec, issues, codes, runtime, given>>

MatchNew(n) ==
  /\ TakeMatch(n)
  /\ n \in Packages /\ ~IsInstalled(n) /\ line.cmd = "install"
  /\ \E i \in BestItems(spec, n) : sr' = And(sr, SetToInstall(n, i))
  /\ hit' = TRUE
  /\ UNCHANGED <<pool, line, pc, args, spec, issues, codes, runtime, given>>

\* update, or a wanted argument of remove.
MatchNotInstalled(n) ==
  /\ TakeMatch(n)
  /\ n \in Packages /\ ~IsInstalled(n) /\ line.cmd # "install"
  /\ UNCHANGED <<pool, line, pc, args, spec, hit, sr, issues, codes, runtime, given>>

MatchesDone ==
  /\ pc = "match"
  /\ matches = {}
  /\ sr' = IF hit THEN sr ELSE And(sr, Args({"NOT_INSTALLED"}, spec))
  /\ pc' = "args"
  /\ UNCHANGED <<pool, line, args, loop, issues, codes, runtime, given>>

-----------------------------------------------------------------------------
(* remove *)

\* By name: what is installed is marked.  Patches are never installed in this sense.
Removals(s) ==
  { SetToRemove(n, Installed(n)) :
    n \in { m \in MatchedPackages(s, {}) : IsInstalled(m) /\ Fits(s, Installed(m)) } }

ConflictJob(s) ==
  IF Providers(s) = {} THEN Args({"NOT_FOUND_CAP"}, s)
  ELSE IF InstalledProviders(s) = {} THEN Args({"NO_INSTALLED_PROVIDER"}, s)
  ELSE AddConflict(s)

RemoveByCap(s) == And(TryingCaps(s), ConflictJob(s))

RemoveUnreportedSlip(s) ==
  IF line.byCap THEN RemoveByCap(s)
  ELSE IF Matched(s, {}) # {} THEN All(Removals(s))
  ELSE IF NameOnly(s) THEN Args({"NOT_FOUND_NAME"}, s)
  ELSE RemoveByCap(s)

RemoveJob(s) ==
  IF line.byCap THEN RemoveByCap(s)
  ELSE IF Matched(s, {}) # {} /\ Removals(s) # {} THEN All(Removals(s))
  ELSE IF Matched(s, {}) # {}
  THEN And(Args({"NOT_INSTALLED"}, s), IF line.byName THEN Nothing ELSE RemoveByCap(s))
  ELSE IF NameOnly(s) THEN Args({"NOT_FOUND_NAME"}, s)
  ELSE RemoveByCap(s)

Remove(s) ==
  /\ pc = "args"
  /\ dos = {}
  /\ s \in donts
  /\ donts' = donts \ {s}
  /\ given' = given \cup {[spec |-> s, dont |-> TRUE]}
  /\ sr' = And(sr, RemoveJob(s))
  /\ UNCHANGED <<pool, line, pc, batch, at, dos, loop, issues, codes, runtime>>

-----------------------------------------------------------------------------
(* patch, and update of all patches *)

\* A date limit takes the newest version that is not too late, if there is one.
Candidate(p) ==
  LET early == { v \in 1..Len(Versions(p)) : ~Versions(p)[v].late }
  IN IF line.dateLimit /\ early # {}
     THEN Versions(p)[CHOOSE v \in early : \A w \in early : v <= w]
     ELSE Versions(p)[1]

Pass(ignorePkgmgmt) == All({ InstallPatch(p, Candidate(p), ignorePkgmgmt, "none") : p \in Patches })

AnyMarked(ignorePkgmgmt) == \E p \in Patches : Marks(Candidate(p), ignorePkgmgmt)

GoOnSlip ==
  /\ pc = "stack"
  /\ sr' = And(sr, Pass(FALSE))
  /\ withUpdate' = (withUpdate /\ ~AnyMarked(FALSE))
  /\ pc' = IF line.stackOnly THEN "feedback" ELSE "others"
  /\ UNCHANGED <<pool, line, args, loop, issues, codes, updateOnly, given>>

\* The first pass of updatePatches; if it marks something there is no second.
CheckUpdateStack ==
  /\ pc = "stack"
  /\ sr' = And(sr, Pass(FALSE))
  /\ withUpdate' = (withUpdate /\ ~AnyMarked(FALSE))
  /\ pc' = IF AnyMarked(FALSE) \/ line.stackOnly THEN "feedback" ELSE "others"
  /\ UNCHANGED <<pool, line, args, loop, issues, codes, updateOnly, given>>

CheckOtherPatches ==
  /\ pc = "others"
  /\ sr' = And(sr, Pass(TRUE))
  /\ pc' = "feedback"
  /\ UNCHANGED <<pool, line, args, loop, issues, codes, runtime, given>>

\* mark_updates_by_issue, one issue: all needed versions of the patches that name it.
MarkByIssue(i) ==
  /\ pc = "issues"
  /\ i \in issues
  /\ issues' = issues \ {i}
  /\ LET broken == UNION { { <<p, Versions(p)[v]>> : v \in { w \in 1..Len(Versions(p)) :
                            Versions(p)[w].status = "broken" } } : p \in FixedBy[i] }
     IN /\ sr' = And(sr, All({ InstallPatch(b[1], b[2], TRUE, "none") : b \in broken }))
        /\ exitInfo' = IF \E b \in broken : Marks(b[2], TRUE) THEN exitInfo
                       ELSE EXIT_INF_CAP_NOT_FOUND
  /\ UNCHANGED <<pool, line, pc, args, loop, exitCode, runtime, given>>

IssuesDone ==
  /\ pc = "issues"
  /\ issues = {}
  /\ pc' = "solve"
  /\ UNCHANGED <<pool, line, args, loop, sr, issues, codes, runtime, given>>

-----------------------------------------------------------------------------
(* printAndHandleSolverRequesterFeedback *)

HasFeedback(id) == \E f \in sr.feedback : f.id = id

OnlyByNameSlip == ~line.ignoreUnknown /\ HasFeedback("NOT_FOUND_NAME")

CapNotFound ==
  /\ ~line.ignoreUnknown
  /\ HasFeedback("NOT_FOUND_NAME") \/ HasFeedback("NOT_FOUND_CAP")

\* Unattended, an unknown argument ends the command, except remove (bsc#980263).
HandleFeedback ==
  /\ pc = "feedback"
  /\ exitCode' = IF CapNotFound THEN EXIT_INF_CAP_NOT_FOUND ELSE EXIT_OK
  /\ pc' = IF CapNotFound /\ line.nonInteractive /\ line.cmd # "remove" THEN "failed" ELSE "solve"
  /\ UNCHANGED <<pool, line, args, loop, sr, issues, exitInfo, runtime, given>>

-----------------------------------------------------------------------------

Init ==
  /\ pool \in Pools
  /\ line \in Lines
  /\ pc = "start"
  /\ batch = 1 /\ at = 1
  /\ dos = {} /\ donts = {}
  /\ spec = NoSpec
  /\ matches = {}
  /\ hit = FALSE
  /\ sr = Nothing
  /\ issues = {}
  /\ exitCode = EXIT_OK
  /\ exitInfo = EXIT_OK
  /\ updateOnly = FALSE
  /\ withUpdate = FALSE
  /\ given = {}

Arguments == Parse \/ BadArgument \/ Parsed \/ NextBatch

Install ==
  \/ \E s \in dos : InstallByName(s) \/ InstallNameUnknown(s) \/ InstallByCap(s)
  \/ \E n \in matches : \/ MatchPatch(n) \/ MatchOrphan(n) \/ MatchInstalled(n)
                        \/ MatchNew(n) \/ MatchNotInstalled(n)
  \/ MatchesDone

PatchCommands ==
  \/ CheckUpdateStack \/ CheckOtherPatches
  \/ \E i \in issues : MarkByIssue(i)
  \/ IssuesDone

Next ==
  \/ StartCommand \/ RejectCommand
  \/ Arguments
  \/ Install
  \/ \E s \in donts : Remove(s)
  \/ PatchCommands
  \/ HandleFeedback

Spec == Init /\ [][Next]_vars

-----------------------------------------------------------------------------
(* Properties *)

Mark == (Packages \X Item) \cup (Patches \X PatchVersion)
Job == [of : Packages \cup Patches \cup Caps, op : {"EQ", "GT", "arg"}, ed : Nat]

\* Type correctness; an argument is never both wanted and unwanted.
TypeOK ==
  /\ pool \in Pools /\ line \in Lines
  /\ pc \in {"start", "parse", "args", "match", "stack", "others", "issues", "feedback",
             "solve", "failed"}
  /\ batch \in Nat \ {0} /\ at \in Nat \ {0}
  /\ dos \subseteq Spec_ /\ donts \subseteq Spec_
  /\ \A d \in dos, e \in donts : d.cap # e.cap
  /\ spec \in Spec_
  /\ matches \subseteq spec.names
  /\ hit \in BOOLEAN
  /\ sr.toinst \subseteq Mark /\ sr.toremove \subseteq Mark
  /\ sr.requires \subseteq Job /\ sr.conflicts \subseteq Job
  /\ \A f \in sr.feedback : f.arg \in Spec_ /\ f.name \in Packages \cup Patches \cup {""}
  /\ issues \subseteq Issues
  /\ exitCode \in {EXIT_OK, EXIT_ERR_INVALID_ARGS, EXIT_INF_CAP_NOT_FOUND}
  /\ exitInfo \in {EXIT_OK, EXIT_INF_CAP_NOT_FOUND}
  /\ updateOnly \in BOOLEAN /\ withUpdate \in BOOLEAN
  /\ given \subseteq [spec : Spec_, dont : BOOLEAN]

\* doc/zypper.8.txt, --oldpackage and --force: without one of them no installed package
\* is replaced by an older one, neither by a mark nor by a job for the solver.
NoDowngrade ==
  \/ line.force \/ line.oldpackage
  \/ /\ \A m \in sr.toinst :
          m[1] \in Packages /\ IsInstalled(m[1]) => m[2].ed >= Installed(m[1]).ed
     /\ \A j \in sr.requires :
          j.op = "EQ" /\ j.of \in Packages /\ IsInstalled(j.of) => j.ed >= Installed(j.of).ed

\* doc/zypper.8.txt, update: packages keep their vendor, unless the user forces it, allows
\* it, or asks for an edition, an architecture or a repository.
VendorKept ==
  \A m \in sr.toinst :
    m[1] \in Packages /\ IsInstalled(m[1]) /\ m[2].vendor # Installed(m[1]).vendor
      => \/ line.force \/ line.allowVendor
         \/ \E g \in given : ~g.dont /\ m[1] \in g.spec.names /\ UserConstraints(g.spec)

\* setToInstall and setToRemove: a lock is never lifted on the way, except by --force when
\* something is to be installed; the solver gets to know the lock.
LocksStay ==
  /\ \A m \in sr.toinst : HasLocks(m[1]) => line.force
  /\ \A m \in sr.toremove : ~HasLocks(m[1])

\* The requester respects what is installed: editions, vendors and locks, under every
\* combination of options.
InstalledRespected == NoDowngrade /\ VendorKept /\ LocksStay

\* What an argument can mean at all: a name in the repositories asked for, or a
\* capability of some package, unless the options rule one of these out.
Known(g) ==
  \/ ~line.byCap /\ Matched(g.spec, IF g.dont THEN {} ELSE AskedRepos(g.spec)) # {}
  \/ ~NameOnly(g.spec) /\ Providers(g.spec) # {}
  \/ line.byCap /\ Providers(g.spec) # {}

\* doc/zypper.8.txt, --ignore-unknown: an unattended install or update does not go on to
\* the solver if one of its arguments is unknown; and whoever goes on, says so by 104.
UnknownStops ==
  pc = "solve" /\ ~line.ignoreUnknown /\ (\E g \in given : ~Known(g))
    => /\ line.nonInteractive => line.cmd = "remove"
       /\ exitCode = EXIT_INF_CAP_NOT_FOUND

\* SolverRequester.h, Feedback: what install is to install or remove, and remove to remove,
\* never gets lost: when the request is complete, each of these arguments has led to a mark,
\* a job or a message.
NoSilentArgument ==
  pc = "feedback" =>
    \A g \in given : line.cmd = "install" \/ (line.cmd = "remove" /\ g.dont)
      => \E f \in sr.feedback : f.arg = g.spec \/ f.name \in g.spec.names

\* Every argument is answered: acted upon, reported, or the reason to stop.
ArgumentsAnswered == UnknownStops /\ NoSilentArgument

\* patch and update of all patches.
PatchesMarked ==
  { p \in Patches : (\E m \in sr.toinst : m[1] = p) \/ (\E j \in sr.requires : j.of = p) }

\* SolverRequester.h, updatePatches: needed patches for the package manager go first and
\* alone, without the packages of --with-update; --updatestack-only takes no others.
StackFirst ==
  LET all == pc = "feedback" /\ NoWords
      stack == { p \in Patches : Candidate(p).stack }
  IN all => /\ PatchesMarked \cap stack # {} => PatchesMarked \subseteq stack /\ ~withUpdate
            /\ (\E p \in stack : Marks(Candidate(p), TRUE)) /\ PatchesMarked # {}
                 => PatchesMarked \cap stack # {}
            /\ line.stackOnly => PatchesMarked \subseteq stack

\* doc/zypper.8.txt, update: a pattern stands for all packages that match; each of them
\* that is installed and has a newer candidate is updated.
PatternUpdatesAll ==
  pc = "feedback" /\ line.cmd = "update" =>
    \A g \in given : ~g.dont /\ ~UserConstraints(g.spec) =>
      \A n \in MatchedPackages(g.spec, {}) :
        IsInstalled(n) /\ ~HasLocks(n) /\ pool.packages[n].candidate # NoItem
            /\ pool.packages[n].candidate.ed > Installed(n).ed
          => \E f \in sr.feedback : f.name = n
=============================================================================
