------------------------------ MODULE RepoInit ------------------------------
(***************************************************************************)
(* How a command gets at its repositories: ZypperBaseCommand's             *)
(* defaultSystemSetup with init_target, init_repos, load_resolvables and   *)
(* load_target_resolvables of repos.cc.  Repositories that fail to refresh *)
(* are switched off for the process and reported by an exit info code,     *)
(* except that dist-upgrade must not go on without them.                   *)
(*                                                                         *)
(* init_repos and load_resolvables do their work once per process, and the *)
(* list of repositories outlives a command that fails half way: the        *)
(* commands of the zypper shell follow one another.  A single command is   *)
(* the first one with shell = FALSE.                                       *)
(*                                                                         *)
(* Whether metadata can be retrieved, parsed and loaded is up to libzypp   *)
(* and the network, hence nondeterministic.                                *)
(***************************************************************************)
EXTENDS Naturals, FiniteSets, SequencesExt

CONSTANTS
  Known,         \* the aliases the RepoManager knows, in its order
  Temp,          \* temporary repositories (--plus-repo), in their order
  Autorefresh,   \* the repositories with autorefresh
  Ignored,       \* those --no-cd and --no-remote exclude
  PlusNamed,     \* known repositories named by --plus-content
  PlusKeyword,   \* whether --plus-content has a keyword, too
  CommandLines,  \* the commands that may be typed, see CommandLine
  Unknown,       \* an argument of --repo that matches nothing
  MaxCommands    \* bound: commands run one after the other

Aliases == ToSet(Known) \cup ToSet(Temp)

\* only: the --repo arguments; installedOnly: search --installed-only.
CommandLine ==
  [cmd : {"install", "remove", "dist-upgrade", "search"},
   only : Seq(Aliases \cup {Unknown}), installedOnly : BOOLEAN]

ASSUME RepoInitAssumption ==
  /\ Known \in Seq(ToSet(Known)) /\ Temp \in Seq(ToSet(Temp))
  /\ \A i, j \in DOMAIN Known : Known[i] = Known[j] => i = j
  /\ ToSet(Known) \cap ToSet(Temp) = {}
  /\ Autorefresh \subseteq Aliases
  /\ Ignored \subseteq Aliases
  /\ PlusNamed \subseteq ToSet(Known)
  /\ PlusKeyword \in BOOLEAN
  /\ CommandLines \subseteq CommandLine
  /\ Unknown \notin Aliases
  /\ MaxCommands \in Nat

EXIT_OK == 0
EXIT_ERR_BUG == 1
EXIT_ERR_INVALID_ARGS == 3
EXIT_ERR_ZYPP == 4
EXIT_ERR_PRIVILEGES == 5
EXIT_INF_REPOS_SKIPPED == 106
EXIT_INF_RPM_SCRIPT_FAILED == 107

VARIABLES
  shell,       \* running the interactive shell?
  root,        \* geteuid() = 0
  enabled,     \* the repository is enabled in its .repo file
  noSystem,    \* Config::disable_system_resolvables
  noRepos,     \* Config::disable_system_sources, which --disable-repositories sets
  noRefresh,   \* Config::no_refresh
  pc,          \* where defaultSystemSetup is
  line,        \* the current command line
  exitCode,    \* Application::exitCode
  exitInfo,    \* Zypper::_exitInfoCode
  targetDone,  \* init_target has run
  initDone,    \* the "done" of init_repos
  loadDone,    \* the "done" of load_resolvables
  repos,       \* RuntimeData::repos: alias and enabled flag
  at,          \* the one a loop over repos is at
  skips,       \* skip_count of do_init_repos
  pool,        \* repositories whose packages are in the pool
  system,      \* the installed packages are in the pool
  status       \* exit status of the process

\* History variables, read by properties only (cmds also bounds).
VARIABLES
  cmds,        \* commands run so far
  failed,      \* repositories skipped when they were last tried
  aborted,     \* the user aborted the current command
  skipped,     \* a finished do_init_repos skipped a repository
  matched,     \* disabled repositories whose content matched when last scanned
  rejected     \* a command's --repo was rejected, which ended init_repos

flags   == <<noSystem, noRepos>>
options == <<shell, root, flags, enabled>>
codes   == <<exitCode, exitInfo, status>>
once    == <<targetDone, initDone, loadDone>>
content == <<pool, system>>
history == <<cmds, failed, aborted, skipped, matched, rejected>>
vars == <<options, noRefresh, pc, line, codes, once, repos, at, skips, content, history>>

NoLine == [cmd |-> "search", only |-> <<>>, installedOnly |-> FALSE]

-----------------------------------------------------------------------------
\* Slips in the code below are named ...Slip: each is the definition that follows
\* it with one plausible mistake, and some property below must notice it.

(* Commands *)

NeedsRoot == line.cmd # "search"

\* The command line is accepted; the shell has read the rpm database (again).
StartCommand(l) ==
  /\ pc = "idle"
  /\ cmds < IF shell THEN MaxCommands ELSE 1
  /\ cmds' = cmds + 1
  /\ line' = l
  /\ aborted' = FALSE
  /\ system' = (system \/ shell)
  /\ pc' = "conditions"
  /\ UNCHANGED <<options, noRefresh, codes, once, repos, at, skips, pool, failed,
                 skipped, matched, rejected>>

\* God->target()->reload() throws: commandShell drops the command.
ReloadFails ==
  /\ pc = "idle"
  /\ shell
  /\ cmds < MaxCommands
  /\ cmds' = cmds + 1
  /\ UNCHANGED <<options, noRefresh, pc, line, codes, once, repos, at, skips, content,
                 failed, aborted, skipped, matched, rejected>>

\* The conditions of the command, and what search does before its set up.
CheckConditions ==
  /\ pc = "conditions"
  /\ IF NeedsRoot /\ ~root
     THEN /\ exitCode' = EXIT_ERR_PRIVILEGES
          /\ pc' = "finish"
          /\ UNCHANGED noRefresh
     ELSE /\ noRefresh' = (noRefresh \/ line.installedOnly)
          /\ pc' = "target"
          /\ UNCHANGED exitCode
  /\ UNCHANGED <<options, line, exitInfo, status, once, repos, at, skips, content, history>>

\* The command ends here, by an error or an exception.
Fail(code) ==
  /\ exitCode' = IF exitCode = EXIT_OK THEN code ELSE exitCode
  /\ pc' = "finish"

\* init_target, and init_repos up to do_init_repos.
InitTarget ==
  /\ pc = "target"
  /\ targetDone' = TRUE
  /\ initDone' = (initDone \/ (noRepos /\ line.cmd # "remove"))
  /\ pc' = IF line.cmd = "remove" THEN "loadTarget"
           ELSE IF initDone' THEN "check" ELSE "services"
  /\ UNCHANGED <<options, noRefresh, line, codes, loadDone, repos, at, skips, content,
                 history>>

InitTargetFails ==
  /\ pc = "target"
  /\ ~targetDone
  /\ Fail(EXIT_ERR_ZYPP)
  /\ UNCHANGED <<options, noRefresh, line, exitInfo, status, once, repos, at, skips,
                 content, history>>

-----------------------------------------------------------------------------
(* do_init_repos *)

\* The autorefresh services are refreshed: "media" is an error that is
\* remembered in the exit code.
RefreshServices(result) ==
  /\ pc = "services"
  /\ result \in {"ok", "media"}
  /\ result = "media" => root /\ ~noRefresh
  /\ exitCode' = IF result = "media" THEN EXIT_ERR_ZYPP ELSE exitCode
  /\ pc' = "select"
  /\ UNCHANGED <<options, noRefresh, line, exitInfo, status, once, repos, at, skips,
                 content, history>>

\* refresh_service lets other exceptions through.  doCommand makes an exit code
\* of them, but not of the AbortRequestException.
ServicesThrow(userAborts) ==
  /\ pc = "services"
  /\ root
  /\ ~noRefresh
  /\ Fail(IF userAborts THEN EXIT_OK ELSE EXIT_ERR_BUG)
  /\ aborted' = userAborts
  /\ UNCHANGED <<options, noRefresh, line, exitInfo, status, once, repos, at, skips,
                 content, cmds, failed, skipped, matched, rejected>>

\* What the RepoManager knows of alias a.
Entry(a) == [alias |-> a, on |-> a \in ToSet(Temp) \/ enabled[a]]

AliasesIn(list) == {list[i].alias : i \in DOMAIN list}

\* What list has at the positions in I, in order.
Rank(I, i) == Cardinality({j \in I : j <= i})
Nth(I, k) == CHOOSE i \in I : Rank(I, i) = k
Sublist(list, I) == [k \in 1 .. Cardinality(I) |-> list[Nth(I, k)]]

\* get_repos: the --repo arguments that match, without duplicates, after what is
\* in the list already.
NewArguments ==
  { i \in DOMAIN line.only : /\ line.only[i] \in Aliases \ AliasesIn(repos)
                             /\ \A j \in DOMAIN line.only : j < i => line.only[j] # line.only[i] }

WithSpecified ==
  LET new == Sublist(line.only, NewArguments)
  IN repos \o [i \in DOMAIN new |-> Entry(new[i])]

\* The specified repositories, or all known ones, and the temporary ones,
\* without those that --no-cd and --no-remote exclude.
ActiveRepos ==
  LET chosen == IF WithSpecified = <<>> THEN [i \in DOMAIN Known |-> Entry(Known[i])]
                ELSE WithSpecified
      all == chosen \o [i \in DOMAIN Temp |-> Entry(Temp[i])]
  IN Sublist(all, {i \in DOMAIN all : all[i].alias \notin Ignored})

\* A --repo argument is unknown, or a repository disabled: init_repos is done.
UnusableRepos ==
  \/ Unknown \in ToSet(line.only)
  \/ \E e \in ToSet(WithSpecified) : ~e.on /\ e.alias \notin PlusNamed

RejectRepos ==
  /\ pc = "select"
  /\ UnusableRepos
  /\ exitCode' = EXIT_ERR_INVALID_ARGS
  /\ repos' = WithSpecified
  /\ initDone' = TRUE
  /\ rejected' = TRUE
  /\ pc' = "finish"
  /\ UNCHANGED <<options, noRefresh, line, exitInfo, status, targetDone, loadDone, at,
                 skips, content, cmds, failed, aborted, skipped, matched>>

KeepsCountingSlip ==
  /\ pc = "select"
  /\ ~UnusableRepos
  /\ repos' = ActiveRepos
  /\ at' = 1
  /\ pc' = "refresh"
  /\ UNCHANGED <<options, noRefresh, line, codes, once, skips, content, history>>

SelectRepos ==
  /\ pc = "select"
  /\ ~UnusableRepos
  /\ repos' = ActiveRepos
  /\ at' = 1
  /\ skips' = 0
  /\ pc' = "refresh"
  /\ UNCHANGED <<options, noRefresh, line, codes, once, content, history>>

\* Does --plus-content name the disabled repository e, or make zypper scan it?
Named(e) == ~e.on /\ e.alias \in PlusNamed
Scannable(e) == ~e.on /\ e.alias \notin PlusNamed /\ PlusKeyword

Refreshing(e) == e.alias \in Autorefresh /\ ~noRefresh

\* The next repository is left disabled.
LeaveDisabled ==
  /\ pc = "refresh"
  /\ at <= Len(repos)
  /\ ~repos[at].on
  /\ ~Named(repos[at])
  /\ at' = at + 1
  /\ UNCHANGED <<options, noRefresh, pc, line, codes, once, repos, skips, content, history>>

ScannedStaysOnSlip(match) ==
  /\ pc = "refresh"
  /\ at <= Len(repos)
  /\ LET e == repos[at]
     IN /\ e.on \/ Named(e) \/ Scannable(e)
        /\ match \/ Scannable(e)
        /\ repos' = [repos EXCEPT ![at].on = TRUE]
        /\ failed' = failed \ {e.alias}
        /\ matched' = IF ~Scannable(e) THEN matched
                      ELSE IF match THEN matched \cup {e.alias} ELSE matched \ {e.alias}
  /\ at' = at + 1
  /\ UNCHANGED <<options, noRefresh, pc, line, codes, once, skips, content, cmds, aborted,
                 skipped, rejected>>

\* It is refreshed and its cache is there; a scanned one is used if its content
\* matches.  For a user who is not root nothing can go wrong with a refresh.
RefreshOne(match) ==
  /\ pc = "refresh"
  /\ at <= Len(repos)
  /\ LET e == repos[at]
     IN /\ e.on \/ Named(e) \/ Scannable(e)
        /\ match \/ Scannable(e)
        /\ repos' = [repos EXCEPT ![at].on = match]
        /\ failed' = failed \ {e.alias}
        /\ matched' = IF ~Scannable(e) THEN matched
                      ELSE IF match THEN matched \cup {e.alias} ELSE matched \ {e.alias}
  /\ at' = at + 1
  /\ UNCHANGED <<options, noRefresh, pc, line, codes, once, skips, content, cmds, aborted,
                 skipped, rejected>>

SkippedStaysOnSlip(forGood) ==
  /\ pc = "refresh"
  /\ at <= Len(repos)
  /\ LET e == repos[at]
     IN /\ e.on \/ Named(e) \/ Scannable(e)
        /\ root \/ ~Refreshing(e)
        /\ forGood => Refreshing(e) /\ e.alias \in ToSet(Known)
        /\ repos' = [repos EXCEPT ![at].on = ~forGood /\ @]
        /\ enabled' = IF forGood THEN [enabled EXCEPT ![e.alias] = FALSE] ELSE enabled
        /\ failed' = failed \cup {e.alias}
  /\ skips' = skips + 1
  /\ at' = at + 1
  /\ UNCHANGED <<shell, root, flags, noRefresh, pc, line, codes, once, content, cmds,
                 aborted, skipped, matched, rejected>>

\* refresh_raw_metadata or build_cache fails: skipped, and after a skip request
\* perhaps disabled permanently.
SkipOne(forGood) ==
  /\ pc = "refresh"
  /\ at <= Len(repos)
  /\ LET e == repos[at]
     IN /\ e.on \/ Named(e) \/ Scannable(e)
        /\ root \/ ~Refreshing(e)
        /\ forGood => Refreshing(e) /\ e.alias \in ToSet(Known)
        /\ repos' = [repos EXCEPT ![at].on = FALSE]
        /\ enabled' = IF forGood THEN [enabled EXCEPT ![e.alias] = FALSE] ELSE enabled
        /\ failed' = failed \cup {e.alias}
  /\ skips' = skips + 1
  /\ at' = at + 1
  /\ UNCHANGED <<shell, root, flags, noRefresh, pc, line, codes, once, content, cmds,
                 aborted, skipped, matched, rejected>>

\* An exception gets through do_init_repos: the user's abort or metadata that
\* vanished.  The list is left as it is, init_repos is not done.
BreakOff(userAborts) ==
  /\ pc = "refresh"
  /\ at <= Len(repos)
  /\ LET e == repos[at]
     IN /\ e.on \/ Named(e) \/ Scannable(e)
        /\ root \/ ~Refreshing(e)
        /\ userAborts => Refreshing(e)
        /\ repos' = [repos EXCEPT ![at].on = @ \/ Named(e)]
        /\ failed' = failed \ {e.alias}
  /\ aborted' = userAborts
  /\ Fail(IF userAborts THEN EXIT_ERR_ZYPP ELSE EXIT_ERR_BUG)
  /\ UNCHANGED <<options, noRefresh, line, exitInfo, status, once, at, skips, content,
                 cmds, skipped, matched, rejected>>

OneSkipPassesSlip ==
  /\ pc = "refresh"
  /\ at > Len(repos)
  /\ exitInfo' = IF skips > 1 /\ exitInfo = EXIT_OK THEN EXIT_INF_REPOS_SKIPPED ELSE exitInfo
  /\ skipped' = (skipped \/ skips > 0)
  /\ initDone' = TRUE
  /\ pc' = "check"
  /\ UNCHANGED <<options, noRefresh, line, exitCode, status, targetDone, loadDone, repos,
                 at, skips, content, cmds, failed, aborted, matched, rejected>>

\* The rest of do_init_repos and init_repos.
EndInit ==
  /\ pc = "refresh"
  /\ at > Len(repos)
  /\ exitInfo' = IF skips > 0 /\ exitInfo = EXIT_OK THEN EXIT_INF_REPOS_SKIPPED ELSE exitInfo
  /\ skipped' = (skipped \/ skips > 0)
  /\ initDone' = TRUE
  /\ pc' = "check"
  /\ UNCHANGED <<options, noRefresh, line, exitCode, status, targetDone, loadDone, repos,
                 at, skips, content, cmds, failed, aborted, matched, rejected>>

-----------------------------------------------------------------------------
(* defaultSystemSetup after init_repos *)

OnlyRepoCodeSlip == line.cmd = "dist-upgrade" /\ exitInfo = EXIT_INF_REPOS_SKIPPED

\* FailIfReposFail: "dup must not continue if repositories failed to refresh".
MustFail == line.cmd = "dist-upgrade" /\ exitInfo # EXIT_OK

CheckRepos ==
  /\ pc = "check"
  /\ IF exitCode # EXIT_OK \/ MustFail
     THEN Fail(EXIT_ERR_ZYPP) /\ UNCHANGED at
     ELSE /\ at' = 1
          /\ pc' = IF loadDone THEN "execute" ELSE "load"
          /\ UNCHANGED exitCode
  /\ UNCHANGED <<options, noRefresh, line, exitInfo, status, once, repos, skips, content,
                 history>>

AbortSwallowedSlip(result) ==
  /\ pc = "load"
  /\ at <= Len(repos)
  /\ result # "loaded" => repos[at].on
  /\ result \in {"aborted", "disabled"} => root
  /\ result = "disabled" => repos[at].alias \in ToSet(Known)
  /\ pool' = IF result = "loaded" /\ repos[at].on THEN pool \cup {repos[at].alias} ELSE pool
  /\ aborted' = (aborted \/ result = "aborted")
  /\ enabled' = IF result = "disabled" THEN [enabled EXCEPT ![repos[at].alias] = FALSE]
                ELSE enabled
  /\ at' = at + 1
  /\ UNCHANGED <<shell, root, flags, noRefresh, pc, line, codes, once, repos, skips, system,
                 cmds, failed, skipped, matched, rejected>>

\* load_repo_resolvables: one repository after the other; an error costs the
\* packages of the repository and nothing else, but an abort while refreshing
\* its metadata has set the exit code before it is caught, and a skip may have
\* disabled the repository for good.
LoadOne(result) ==
  /\ pc = "load"
  /\ at <= Len(repos)
  /\ result # "loaded" => repos[at].on
  /\ result \in {"aborted", "disabled"} => root
  /\ result = "disabled" => repos[at].alias \in ToSet(Known)
  /\ pool' = IF result = "loaded" /\ repos[at].on THEN pool \cup {repos[at].alias} ELSE pool
  /\ exitCode' = IF result = "aborted" THEN EXIT_ERR_ZYPP ELSE exitCode
  /\ aborted' = (aborted \/ result = "aborted")
  /\ enabled' = IF result = "disabled" THEN [enabled EXCEPT ![repos[at].alias] = FALSE]
                ELSE enabled
  /\ at' = at + 1
  /\ UNCHANGED <<shell, root, flags, noRefresh, pc, line, exitInfo, status, once, repos, skips,
                 system, cmds, failed, skipped, matched, rejected>>

\* --disable-system-resolvables leaves out load_target_resolvables, for good.
ReposLoaded ==
  /\ pc = "load"
  /\ at > Len(repos)
  /\ loadDone' = noSystem
  /\ pc' = IF ~noSystem THEN "loadTarget" ELSE IF exitCode = EXIT_OK THEN "execute" ELSE "finish"
  /\ UNCHANGED <<options, noRefresh, line, codes, targetDone, initDone, repos, at, skips,
                 content, history>>

UncheckedLoadSlip(ok) ==
  /\ pc = "loadTarget"
  /\ system' = (system \/ ok)
  /\ exitCode' = exitCode
  /\ loadDone' = (loadDone \/ line.cmd # "remove")
  /\ pc' = IF exitCode' = EXIT_OK THEN "execute" ELSE "finish"
  /\ UNCHANGED <<options, noRefresh, line, exitInfo, status, targetDone, initDone, repos,
                 at, skips, pool, history>>

\* load_target_resolvables, and the check of the exit code that follows.
LoadTarget(ok) ==
  /\ pc = "loadTarget"
  /\ system' = (system \/ ok)
  /\ exitCode' = IF ok THEN exitCode ELSE EXIT_ERR_ZYPP
  /\ loadDone' = (loadDone \/ line.cmd # "remove")
  /\ pc' = IF exitCode' = EXIT_OK THEN "execute" ELSE "finish"
  /\ UNCHANGED <<options, noRefresh, line, exitInfo, status, targetDone, initDone, repos,
                 at, skips, pool, history>>

-----------------------------------------------------------------------------
\* The command proper; see SolveAndCommit for the one that matters.
Execute(code, scriptFailed) ==
  /\ pc = "execute"
  /\ exitCode' = code
  /\ scriptFailed => line.cmd # "search"
  /\ exitInfo' = IF scriptFailed /\ exitInfo = EXIT_OK THEN EXIT_INF_RPM_SCRIPT_FAILED
                 ELSE exitInfo
  /\ pc' = "finish"
  /\ UNCHANGED <<options, noRefresh, line, status, once, repos, at, skips, content, history>>

\* doCommand is over; main() or shellCleanup.
FinishCommand ==
  /\ pc = "finish"
  /\ IF shell THEN /\ exitCode' = EXIT_OK
                   /\ pc' = "idle"
                   /\ UNCHANGED status
              ELSE /\ status' = IF exitCode = EXIT_OK THEN exitInfo ELSE exitCode
                   /\ pc' = "exited"
                   /\ UNCHANGED exitCode
  /\ UNCHANGED <<options, noRefresh, line, exitInfo, once, repos, at, skips, content, history>>

Init ==
  /\ shell \in BOOLEAN
  /\ root \in BOOLEAN
  /\ noSystem \in BOOLEAN
  /\ noRepos \in BOOLEAN
  /\ enabled \in [ToSet(Known) -> BOOLEAN]
  /\ noRefresh \in BOOLEAN
  /\ pc = "idle"
  /\ line = NoLine
  /\ exitCode = EXIT_OK
  /\ exitInfo = EXIT_OK
  /\ targetDone = shell
  /\ initDone = FALSE
  /\ loadDone = FALSE
  /\ repos = <<>>
  /\ at = 1
  /\ skips = 0
  /\ pool = {}
  /\ system = FALSE
  /\ status = EXIT_OK
  /\ cmds = 0
  /\ failed = {}
  /\ aborted = FALSE
  /\ skipped = FALSE
  /\ matched = {}
  /\ rejected = FALSE

InitRepos ==
  \/ \E result \in {"ok", "media"} : RefreshServices(result)
  \/ \E userAborts \in BOOLEAN : ServicesThrow(userAborts)
  \/ RejectRepos
  \/ SelectRepos
  \/ LeaveDisabled
  \/ \E match \in BOOLEAN : RefreshOne(match)
  \/ \E forGood \in BOOLEAN : SkipOne(forGood)
  \/ \E userAborts \in BOOLEAN : BreakOff(userAborts)
  \/ EndInit

Load ==
  \/ \E result \in {"loaded", "error", "disabled", "aborted"} : LoadOne(result)
  \/ ReposLoaded
  \/ \E ok \in BOOLEAN : LoadTarget(ok)

Next ==
  \/ \E l \in CommandLines : StartCommand(l)
  \/ ReloadFails
  \/ CheckConditions
  \/ InitTarget
  \/ InitTargetFails
  \/ InitRepos
  \/ CheckRepos
  \/ Load
  \/ \E code \in {EXIT_OK, EXIT_ERR_ZYPP}, scriptFailed \in BOOLEAN : Execute(code, scriptFailed)
  \/ FinishCommand

Spec == Init /\ [][Next]_vars

-----------------------------------------------------------------------------
(* Properties *)

TypeOK ==
  /\ shell \in BOOLEAN
  /\ root \in BOOLEAN
  /\ noSystem \in BOOLEAN
  /\ noRepos \in BOOLEAN
  /\ enabled \in [ToSet(Known) -> BOOLEAN]
  /\ noRefresh \in BOOLEAN
  /\ pc \in {"idle", "conditions", "target", "services", "select", "refresh", "check",
             "load", "loadTarget", "execute", "finish", "exited"}
  /\ line \in CommandLines \cup {NoLine}
  /\ exitCode \in {EXIT_OK, EXIT_ERR_BUG, EXIT_ERR_INVALID_ARGS, EXIT_ERR_ZYPP,
                   EXIT_ERR_PRIVILEGES}
  /\ exitInfo \in {EXIT_OK, EXIT_INF_REPOS_SKIPPED, EXIT_INF_RPM_SCRIPT_FAILED}
  /\ targetDone \in BOOLEAN
  /\ initDone \in BOOLEAN
  /\ loadDone \in BOOLEAN
  /\ repos \in Seq([alias : Aliases, on : BOOLEAN])
  /\ at \in 1..(Len(repos) + 1)
  /\ skips \in 0..Len(repos)
  /\ pool \subseteq Aliases
  /\ system \in BOOLEAN
  /\ status \in Nat
  /\ cmds \in Nat
  /\ failed \subseteq Aliases
  /\ aborted \in BOOLEAN
  /\ skipped \in BOOLEAN
  /\ matched \subseteq Aliases
  /\ rejected \in BOOLEAN

Executing(c) == pc = "execute" /\ line.cmd = c

\* "rethrow ABORT exception, stop executing the command": the user's abort stops
\* the command, also where load_repo_resolvables catches the exception and
\* only the exit code tells of it.
AbortStopsCommand ==
  aborted => pc # "execute"

\* zypper(8), dist-upgrade: "It must not continue if enabled repositories fail to
\* refresh": a single dist-upgrade runs with every repository it was to use.
\* --disable-repositories leaves it none.
DupHasAllRepos ==
  Executing("dist-upgrade") /\ ~shell /\ ~noRepos =>
    /\ failed = {}
    /\ \A a \in ToSet(Known) \ Ignored :
         enabled[a] /\ (line.only = <<>> \/ a \in ToSet(line.only)) =>
           \E e \in ToSet(repos) : e.alias = a /\ e.on

\* No later dist-upgrade of a shell session forgets it either: setExitInfoCode
\* keeps whatever code came first, so no command in between can hide the skip.
NoDupAfterSkip ==
  Executing("dist-upgrade") => ~skipped

\* The packages of a disabled repository are not offered unless --plus-content names it,
\* or has a keyword that its content matched when it was last looked at; a repository that
\* was skipped when it was last tried is not offered at all, however often a session starts
\* over after it broke off (a temporary repository is then listed, and tried, twice).  An
\* attempt that was broken off is no skip: what --plus-content names stays enabled after
\* it, although it was skipped before.  --disable-repositories leaves nothing to offer, and
\* what --no-cd and --no-remote exclude is left out, but for one case that the code lets
\* through: a command whose --repo is rejected leaves its list as it is, and init_repos
\* does not run again.
OnlyUsableLoaded ==
  [][\A a \in pool' \ pool :
       /\ a \notin failed \/ Cardinality({i \in DOMAIN repos : repos[i].alias = a}) > 1
       /\ a \in ToSet(Temp) \/ enabled[a] \/ a \in PlusNamed \/ a \in matched
       /\ ~noRepos
       /\ a \notin Ignored \/ rejected]_vars

\* Commands know the installed packages, whatever went wrong with loading them in an
\* earlier command of the session, except exactly where --disable-system-resolvables
\* asks for it: "act as if there were no packages installed".  The option is not heeded
\* by remove, which loads them itself, nor in the shell, which reloads them for each
\* command.
SystemKnown ==
  pc = "execute" => (system <=> shell \/ ~noSystem \/ line.cmd = "remove")

\* A command is executed only on what defaultSystemSetup was to give it: not after an
\* abort, and with the installed system where it is not to be left out.
RunsPrepared == AbortStopsCommand /\ SystemKnown

\* dist-upgrade needs every repository it was to use, and none skipped earlier.
DupComplete == DupHasAllRepos /\ NoDupAfterSkip

\* zypper(8), EXIT CODES: "0 represents a normal successful run", which a run the
\* user aborted is not.
AbortIsAnError ==
  aborted /\ pc = "finish" => exitCode # EXIT_OK

\* The inductive invariant behind AbortStopsCommand, NoDupAfterSkip and SystemKnown
\* (proved in RepoInitProofs), one conjunct per idea.
Booleans ==
  /\ shell \in BOOLEAN
  /\ noSystem \in BOOLEAN
  /\ loadDone \in BOOLEAN
  /\ system \in BOOLEAN
  /\ aborted \in BOOLEAN
  /\ skipped \in BOOLEAN

\* From an abort to the check of the exit code.
AbortRemembered ==
  aborted =>
    /\ pc \in {"load", "loadTarget", "finish", "idle", "exited"}
    /\ pc \in {"load", "loadTarget"} => exitCode # EXIT_OK

\* From a skip to the check of the info code, and from there to the execution.
SkipRemembered ==
  /\ skipped => exitInfo # EXIT_OK
  /\ pc \in {"load", "loadTarget", "execute"} /\ line.cmd = "dist-upgrade" =>
       exitInfo = EXIT_OK

\* Where the installed packages come from: the shell's reload, or load_resolvables.
SystemSource ==
  /\ shell /\ pc # "idle" => system
  /\ ~shell /\ pc \notin {"execute", "finish", "exited"} => ~loadDone /\ ~system
  /\ pc \in {"services", "select", "refresh", "check", "load"} => line.cmd # "remove"
  /\ pc = "loadTarget" /\ noSystem => line.cmd = "remove"
  /\ SystemKnown

Inv == Booleans /\ AbortRemembered /\ SkipRemembered /\ SystemSource

\* The invariants behind TypeOK, OnlyUsableLoaded and DupHasAllRepos, about the list of
\* repositories.  A skip is counted for each position the loop has passed at most.
SkipsCounted == pc = "refresh" => skips < at

\* What is done once per process, and never with --disable-repositories.
Phases ==
  /\ pc \in {"services", "select", "refresh"} => ~initDone
  /\ noRepos => repos = <<>> /\ pc \notin {"services", "select", "refresh"}
  /\ pc = "load" => ~loadDone

\* The single command starts with nothing.
SingleStart ==
  ~shell /\ pc \in {"idle", "conditions", "target", "services", "select"} =>
    repos = <<>> /\ failed = {} /\ ~initDone /\ ~loadDone

\* What was skipped is in the list and off there, unless it is listed twice.
SkippedOff ==
  /\ failed \subseteq AliasesIn(repos)
  /\ \A i \in DOMAIN repos : repos[i].on /\ repos[i].alias \in failed =>
       \E j \in DOMAIN repos : j # i /\ repos[j].alias = repos[i].alias

\* --no-cd and --no-remote have been applied to what an earlier command left, unless its
\* --repo was rejected.
IgnoredOut ==
  /\ rejected => initDone
  /\ ~rejected => AliasesIn(repos) \cap Ignored = {}

\* Only temporary repositories are listed twice.
KnownOnce ==
  \A i, j \in DOMAIN repos :
    repos[i].alias = repos[j].alias /\ repos[i].alias \in ToSet(Known) => i = j

Usable(a) == a \in ToSet(Temp) \/ enabled[a] \/ a \in PlusNamed \/ a \in matched

\* What is on and still to be loaded is usable.
OnIsUsable ==
  ~loadDone /\ ~(pc = "loadTarget" /\ line.cmd # "remove") =>
    \A i \in DOMAIN repos : (pc = "load" => i >= at) /\ repos[i].on => Usable(repos[i].alias)

\* Every repository that is to be used is listed and on.
AllListed ==
  \A a \in ToSet(Known) \ Ignored :
    enabled[a] /\ (line.only = <<>> \/ a \in ToSet(line.only)) =>
      \E i \in DOMAIN repos : repos[i].alias = a /\ repos[i].on

\* In a single command that is so until one is skipped, which the info code tells.
SingleComplete ==
  /\ ~shell /\ ~noRepos
  /\ \/ pc = "refresh" /\ skips = 0
     \/ /\ pc \in {"check", "load", "loadTarget", "execute"}
        /\ exitInfo = EXIT_OK /\ line.cmd = "dist-upgrade"
  => failed = {} /\ AllListed

ListInv ==
  /\ SkipsCounted /\ Phases /\ SingleStart /\ SkippedOff
  /\ IgnoredOut /\ KnownOnce /\ OnIsUsable /\ SingleComplete
=============================================================================
