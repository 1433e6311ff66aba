--------------------------- MODULE RepoManagement ---------------------------
(***************************************************************************)
(* The commands that manage repositories and services (repos.cc,           *)
(* commands/repos, commands/services): refresh, clean, addrepo,            *)
(* removerepo, modifyrepo, renamerepo, refresh-services, addservice,       *)
(* removeservice, modifyservice.  A command resolves its arguments         *)
(* (alias, number, name, URL), works through a queue of repositories or    *)
(* services of which each may fail, and turns what happened into an exit   *)
(* code.  libzypp's RepoManager is the environment: whether a download, a  *)
(* parse or a write of a file works is nondeterministic.                   *)
(***************************************************************************)
EXTENDS Integers, FiniteSetsExt, SequencesExt

CONSTANTS
  Words,        \* aliases and names: numbers, so that one may look like a position
  Urls,         \* what the index of a service may give as URL
  InitRepos, InitServices,  \* what is defined at the start
  Offered,      \* service alias -> repositories its index may list
  CommandLines, \* what the user may type
  MaxCommands   \* bound: commands of one shell

NoWord == 0

Url == [path : STRING, query : STRING, auth : STRING, scheme : STRING]

RepoRow == [name : Words \cup {NoWord}, urls : Seq(Url) \ {<<>>}, enabled : BOOLEAN,
            auto : BOOLEAN, service : Words \cup {NoWord}]

\* An argument is a word or a URL; an entry is what addrepo and addservice add.
Arg == [word : Words \cup {NoWord}, url : Url]

NewEntry == [alias : Words \cup {NoWord}, urls : Seq(Url), enabled : BOOLEAN, auto : BOOLEAN]

CommandLine ==
  [verb : STRING, args : Seq(Arg), repos : Seq(Arg), plus : Seq(Arg), flags : SUBSET STRING,
   name : Words \cup {NoWord}, entries : Seq(NewEntry)]

\* --repo and --with-repos are options of the commands named here; addservice has an
\* alias and a URL, and a new alias is a word.
ASSUME RepoManagementAssumption ==
  /\ Words \subseteq Nat \ {NoWord} /\ IsFiniteSet(Words)
  /\ DOMAIN InitRepos \subseteq Words /\ InitRepos \in [DOMAIN InitRepos -> RepoRow]
  /\ DOMAIN InitServices \subseteq Words
  /\ DOMAIN Offered = Words /\ \A s \in Words : Offered[s] \subseteq Words
  /\ Urls \subseteq Url /\ \E u \in Urls : u.scheme # "cd"
  /\ CommandLines \subseteq CommandLine /\ CommandLines # {}
  /\ \A c \in CommandLines :
       /\ c.repos # <<>> => c.verb \in {"refresh", "clean"}
       /\ "with-repos" \in c.flags => c.verb = "refresh-services"
       /\ c.verb = "addservice" =>
            /\ c.entries # <<>> /\ c.entries[1].alias # NoWord /\ c.entries[1].urls # <<>>
       /\ c.verb = "renamerepo" /\ Len(c.args) = 2 => c.args[2].word # NoWord
  /\ MaxCommands \in Nat

EXIT_OK == 0
ERR_BUG == 1
ERR_INVALID_ARGS == 3
ERR_ZYPP == 4
ERR_PRIVILEGES == 5
NO_REPOS == 6

VARIABLES
  repos,      \* RepoManager's repositories: alias -> [name, urls, enabled, auto, service]
  services,   \* and services: alias -> [url, enabled, auto]
  raw, cache, \* metadata as downloaded and as parsed: "none", "old", "new"
  pkgs,       \* repositories with packages in the package cache
  cmd, pc,    \* the command, and where it is
  exitCode,
  initial,    \* RepoManagerWrapper: the aliases in the order `zypper repos' shows
  queue,      \* what is still to do
  specified, notFound,  \* repositories named by the arguments; some name nothing
  failed,     \* the command's error count: the items that failed
  tried       \* the repositories worked on

\* History variables, read by properties only (commands also bounds).
VARIABLES
  before,     \* repos when the command started
  broken,     \* what failed, counted by the command or not
  commands

config == <<repos, services>>
data   == <<raw, cache, pkgs>>
given  == <<cmd, initial, before, commands>>
work   == <<queue, specified, notFound, failed, tried, broken>>
vars == <<config, data, given, pc, exitCode, work>>

Known == DOMAIN repos

Flag(f) == f \in cmd.flags

\* The command returns; an exception leaves it earlier.
Return(code) == pc' = "done" /\ exitCode' = code

Leave(code) == pc' = "left" /\ exitCode' = code

\* The elements of S in order.
Rank(S, a) == Cardinality({b \in S : b <= a})
Nth(S, k) == CHOOSE a \in S : Rank(S, a) = k
Sorted(S) == [k \in 1 .. Cardinality(S) |-> Nth(S, k)]

-----------------------------------------------------------------------------
(* Which repository or service an argument means.  An argument is a word   *)
(* or a URL: a record [word, url] of which the other field does not count. *)

IsCd(r) == \A i \in DOMAIN r.urls : r.urls[i].scheme = "cd"

\* The parts of a URL that are compared.
View(u, looseQuery, looseAuth) ==
  <<u.path, IF looseQuery THEN "" ELSE u.query, IF looseAuth THEN "" ELSE u.auth>>

HasUrl(urls, u, looseQuery, looseAuth) ==
  \E i \in DOMAIN urls : View(urls[i], looseQuery, looseAuth) = View(u, looseQuery, looseAuth)

\* Slip: the number counts in the list as it is now.
SlipRepoNumber(w) == IF w \in 1 .. Cardinality(Known) THEN Sorted(Known)[w] ELSE NoWord

\* repoManagerInitialAlias
RepoNumber(w) == IF w \in DOMAIN initial THEN initial[w] ELSE NoWord

\* match_repo: the first repository the argument fits.
MatchRepo(arg, looseQuery, looseAuth) ==
  LET w == arg.word
      fits == IF w # NoWord
              THEN { a \in Known : a = w \/ a = RepoNumber(w) \/ repos[a].name = w }
              ELSE { a \in Known : HasUrl(repos[a].urls, arg.url, looseQuery, looseAuth) }
  IN IF fits = {} THEN NoWord ELSE Min(fits)

\* get_repos: the matches without duplicates, and whether some argument has none.
GetRepos(args) == { MatchRepo(args[i], FALSE, FALSE) : i \in DOMAIN args } \ {NoWord}

Unmatched(args) == \E i \in DOMAIN args : MatchRepo(args[i], FALSE, FALSE) = NoWord

Service(s) == [kind |-> "service", alias |-> s]

PlainRepo(a) == [kind |-> "repo", alias |-> a]

ServiceRepos(s) == { a \in Known : repos[a].service = s }

\* Services first, then repositories.
Items(S, R) ==
  [i \in 1 .. Cardinality(S) |-> Service(Nth(S, i))] \o
  [i \in 1 .. Cardinality(R) |-> PlainRepo(Nth(R, i))]

\* get_all_services: the services, then the repositories that belong to none.
GetAllServices == Items(DOMAIN services, ServiceRepos(NoWord))

\* match_service; the number counts in the list as it is.
MatchService(arg, looseAuth, looseQuery) ==
  LET known == GetAllServices
      UrlsOf(item) == IF item.kind = "service" THEN <<services[item.alias].url>>
                      ELSE repos[item.alias].urls
      fits == { n \in DOMAIN known :
                  IF arg.word # NoWord THEN known[n].alias = arg.word \/ n = arg.word
                  ELSE HasUrl(UrlsOf(known[n]), arg.url, looseQuery, looseAuth) }
  IN IF fits = {} THEN {} ELSE {known[Min(fits)]}

MatchedServices(looseAuth, looseQuery) ==
  UNION { MatchService(cmd.args[i], looseAuth, looseQuery) : i \in DOMAIN cmd.args }

\* get_services_helper compares what argument i means with what each argument before it
\* meant, up to an equal one.  A service that meets a repository is taken for a
\* repository: the null pointer of the failed cast is dereferenced.
Found(i) == MatchService(cmd.args[i], FALSE, FALSE)

NullRepo ==
  \E i, j \in DOMAIN cmd.args, item \in MatchedServices(FALSE, FALSE) :
    /\ j < i /\ item \in Found(i) /\ item.kind = "service"
    /\ \E other \in Found(j) : other.kind = "repo"
    /\ \A k \in DOMAIN cmd.args : k < j => item \notin Found(k)

-----------------------------------------------------------------------------
(* One repository or service.                                              *)

Forget(gone, f) == [a \in Words |-> IF a \in gone THEN "none" ELSE f[a]]

\* refreshRepository: what may become of the metadata of each repository in R.  The
\* parsed data follows only on raw data that could be had.
Refreshed(R, flags, rawOk, cacheOk) ==
  /\ raw' = [a \in Words |-> IF a \in R \cap rawOk /\ "build-only" \notin flags
                             THEN "new" ELSE raw[a]]
  /\ cache' = [a \in Words |-> IF a \in R \cap rawOk \cap cacheOk /\ "download-only" \notin flags
                               THEN "new" ELSE cache[a]]

RefreshError(R, flags, rawOk, cacheOk) ==
  (R \ rawOk) \cup (IF "download-only" \in flags THEN {} ELSE R \ cacheOk)

\* libzypp's removeRepository takes the metadata along.
RemoveRepos(gone) ==
  /\ repos' = [a \in Known \ gone |-> repos[a]]
  /\ raw' = Forget(gone, raw) /\ cache' = Forget(gone, cache)
  /\ pkgs' = pkgs \ gone

\* What refreshing the service s may do to the list of repositories: those its index
\* names are added or kept, its others removed.
ServiceRefreshed(s) ==
  \E listed \in SUBSET { a \in Offered[s] : a \in Known => repos[a].service = s } :
    LET gone == ServiceRepos(s) \ listed IN
    /\ repos' = [a \in (Known \ gone) \cup listed |->
                   IF a \in Known THEN repos[a]
                   ELSE [name |-> a, urls |-> <<CHOOSE u \in Urls : u.scheme # "cd">>,
                         enabled |-> TRUE, auto |-> TRUE, service |-> s]]
    /\ raw' = Forget(gone, raw) /\ cache' = Forget(gone, cache)
    /\ pkgs' = pkgs \ gone

\* The settings of modifyrepo and modifyservice.
Modified(r) ==
  [r EXCEPT !.enabled = IF Flag("enable") THEN TRUE ELSE IF Flag("disable") THEN FALSE ELSE @,
            !.auto = IF Flag("refresh") THEN TRUE ELSE IF Flag("no-refresh") THEN FALSE ELSE @]

Renamed(r) == IF cmd.name = NoWord THEN r ELSE [r EXCEPT !.name = cmd.name]

\* modify_repo: an error is printed and forgotten.
ModifyRepo(a) ==
  \/ /\ repos' = [repos EXCEPT ![a] = Renamed(Modified(@))]
     /\ UNCHANGED <<services, broken>>
  \/ /\ Renamed(Modified(repos[a])) # repos[a]
     /\ broken' = broken \cup {a}
     /\ UNCHANGED config

\* modifyService: its callers do not look at the code it returns.
ModifyService(s) ==
  \/ /\ services' = [services EXCEPT ![s] = Modified(@)]
     /\ UNCHANGED <<repos, broken>>
  \/ /\ Modified(services[s]) # services[s]
     /\ broken' = broken \cup {s}
     /\ UNCHANGED config

\* The aggregate options --all, --local, --remote, --medium-type.
Aggregate == cmd.flags \cap {"all", "local", "remote"} # {}

Selected(u) ==
  \/ Flag("all")
  \/ Flag("local") /\ u.scheme = "cd"
  \/ Flag("remote") /\ u.scheme # "cd"

-----------------------------------------------------------------------------
(* A command begins.                                                       *)

\* The RepoManager is set up anew, and with it the numbers; nothing is new yet.
ReadCommand(c) ==
  /\ pc \in {"idle", "done", "left"} /\ commands < MaxCommands
  /\ pc' = "start" /\ cmd' = c /\ commands' = commands + 1
  /\ exitCode' = EXIT_OK
  /\ initial' = Sorted(Known) /\ before' = repos
  /\ raw' = [a \in Words |-> IF raw[a] = "new" THEN "old" ELSE raw[a]]
  /\ cache' = [a \in Words |-> IF cache[a] = "new" THEN "old" ELSE cache[a]]
  /\ queue' = <<>> /\ specified' = {} /\ notFound' = FALSE
  /\ failed' = {} /\ tried' = {} /\ broken' = {}
  /\ UNCHANGED <<config, pkgs>>

Start(verb) == pc = "start" /\ cmd.verb = verb

\* The command goes to its loop with this queue.
Enqueue(loop, items) ==
  /\ pc' = loop /\ queue' = items
  /\ UNCHANGED <<config, data, given, exitCode, failed, tried, broken>>

\* RefreshRepoCmd: the services come first, all of them or those with autorefresh.
StartRefresh ==
  /\ Start("refresh")
  /\ IF Flag("services") /\ cmd.args # <<>>
     THEN Return(ERR_PRIVILEGES) /\ UNCHANGED <<config, data, given, work>>
     ELSE /\ Enqueue("services",
               Items({ s \in DOMAIN services : /\ services[s].enabled
                                               /\ Flag("services") \/ services[s].auto }, {}))
          /\ UNCHANGED <<specified, notFound>>

\* RefreshServicesCmd: those given, else all; disabled ones are skipped.
ToServe(alias) == IF specified' = {} THEN ~notFound' ELSE alias \in specified'

StartRefreshServices ==
  /\ Start("refresh-services")
  /\ IF NullRepo
     THEN pc' = "crashed" /\ UNCHANGED <<config, data, given, exitCode, work>>
     ELSE /\ notFound' = (\E i \in DOMAIN cmd.args : Found(i) = {})
          /\ specified' = { item.alias : item \in MatchedServices(FALSE, FALSE) }
          /\ Enqueue("services",
               Items({ s \in DOMAIN services : ToServe(s) /\ services[s].enabled },
                     { a \in ServiceRepos(NoWord) :
                         ToServe(a) /\ repos[a].enabled /\ Flag("with-repos") }))

\* refresh_service.  A plugin's informal error counts as success.
RefreshService ==
  /\ pc = "services" /\ queue # <<>> /\ Head(queue).kind = "service"
  /\ LET s == Head(queue).alias IN
     \/ /\ ServiceRefreshed(s)
        /\ UNCHANGED <<exitCode, failed, broken, services>>
     \/ UNCHANGED <<config, data, exitCode, failed, broken>>
     \/ /\ failed' = failed \cup {s} /\ broken' = broken \cup {s}
        /\ exitCode' = ERR_ZYPP
        /\ UNCHANGED <<config, data>>
  /\ IF Flag("with-repos") THEN pc' = "serviceRepos" /\ UNCHANGED queue
     ELSE queue' = Tail(queue) /\ UNCHANGED pc
  /\ UNCHANGED <<given, specified, notFound, tried>>

\* The repositories of a service that was just refreshed; errors are not counted.
RefreshServiceRepos ==
  /\ pc = "serviceRepos" /\ pc' = "services" /\ queue' = Tail(queue)
  /\ LET R == ServiceRepos(Head(queue).alias) IN
     \E rawOk, cacheOk \in SUBSET R :
       /\ Refreshed(R, cmd.flags, rawOk, cacheOk)
       /\ broken' = broken \cup RefreshError(R, cmd.flags, rawOk, cacheOk)
       /\ tried' = tried \cup R
  /\ UNCHANGED <<config, pkgs, given, exitCode, specified, notFound, failed>>

\* A repository that is no service's is treated like a service.
RefreshPlainRepo ==
  /\ pc = "services" /\ queue # <<>> /\ Head(queue).kind = "repo"
  /\ queue' = Tail(queue)
  /\ LET R == {Head(queue).alias} IN
     \E rawOk, cacheOk \in SUBSET R :
       /\ Refreshed(R, cmd.flags, rawOk, cacheOk)
       /\ failed' = failed \cup RefreshError(R, cmd.flags, rawOk, cacheOk)
       /\ broken' = broken \cup RefreshError(R, cmd.flags, rawOk, cacheOk)
       /\ tried' = tried \cup R
  /\ UNCHANGED <<config, pkgs, given, pc, exitCode, specified, notFound>>

\* After the services.  A failed service has set the exit code; the set-up of the
\* target returns it, and no repository is refreshed.
EndServices ==
  /\ pc = "services" /\ queue = <<>>
  /\ IF cmd.verb = "refresh-services" \/ failed # {}
     THEN Return(IF failed # {} THEN ERR_ZYPP ELSE EXIT_OK)
     ELSE pc' = "select" /\ UNCHANGED exitCode
  /\ UNCHANGED <<config, data, given, work>>

-----------------------------------------------------------------------------
(* refresh and clean                                                       *)

RepoArgs == cmd.repos \o cmd.args

\* --plus-content: repositories, or keywords looked for in the disabled ones.
PlusContent == GetRepos(cmd.plus)

\* refreshRepositories: which ones.
ToRefresh(spec, missing) ==
  IF spec = {} /\ missing THEN {}
  ELSE { a \in Known : IF repos[a].enabled THEN spec = {} \/ a \in spec \cup PlusContent
                       ELSE a \in PlusContent \/ Unmatched(cmd.plus) }

SelectRepos ==
  /\ pc = "select"
  /\ specified' = GetRepos(RepoArgs) /\ notFound' = Unmatched(RepoArgs)
  /\ Enqueue("refresh", Sorted(ToRefresh(specified', notFound')))

\* refreshRepository for one of them.  Asked whether to skip it, the user may have it
\* disabled; the user may also abort the command.
RefreshRepo ==
  /\ pc = "refresh" /\ queue # <<>>
  /\ LET R == {Head(queue)} IN
     /\ tried' = tried \cup R
     /\ \E rawOk, cacheOk \in SUBSET R :
          /\ "build-only" \in cmd.flags => rawOk = R
          /\ Refreshed(R, cmd.flags, rawOk, cacheOk)
          /\ failed' = failed \cup RefreshError(R, cmd.flags, rawOk, cacheOk)
          /\ broken' = broken \cup RefreshError(R, cmd.flags, rawOk, cacheOk)
          /\ \/ UNCHANGED repos
             \/ rawOk = {} /\ repos' = [repos EXCEPT ![Head(queue)].enabled = FALSE]
          /\ \/ pc' = pc /\ queue' = Tail(queue) /\ UNCHANGED exitCode
             \/ rawOk = {} /\ repos' = repos /\ Leave(ERR_ZYPP) /\ UNCHANGED queue
             \/ rawOk = R /\ failed' # failed /\ Leave(ERR_BUG) /\ UNCHANGED queue
  /\ UNCHANGED <<services, pkgs, given, specified, notFound>>

\* Slip: it is enough that one repository was refreshed.
SlipRefreshCode ==
  IF notFound THEN ERR_INVALID_ARGS
  ELSE IF tried = {} THEN IF specified = {} THEN NO_REPOS ELSE EXIT_OK
  ELSE IF failed = tried THEN ERR_ZYPP ELSE EXIT_OK

RefreshCode ==
  IF notFound THEN ERR_INVALID_ARGS
  ELSE IF tried = {} THEN IF specified = {} THEN NO_REPOS ELSE EXIT_OK
  ELSE IF failed # {} THEN ERR_ZYPP ELSE EXIT_OK

EndRefresh ==
  /\ pc = "refresh" /\ queue = <<>>
  /\ Return(RefreshCode)
  /\ UNCHANGED <<config, data, given, work>>

\* clean_repos: of what, and what.
StartClean ==
  /\ Start("clean")
  /\ specified' = GetRepos(RepoArgs) /\ notFound' = Unmatched(RepoArgs)
  /\ Enqueue("clean", IF specified' # {} THEN Sorted(specified')
                      ELSE IF notFound' THEN <<>> ELSE Sorted(Known))

CleanMetadata == Flag("all") \/ Flag("metadata")

CleanRaw == Flag("all") \/ Flag("raw-metadata")

CleanPackages == Flag("all") \/ ~(CleanMetadata \/ CleanRaw)

\* The raw metadata of a CD is kept unless everything about it is to go.
KeepsRaw(a) == IsCd(repos[a]) /\ ~(Flag("all") /\ a \in specified)

\* An error leaves the rest of the repository as it is.
CleanRepo ==
  /\ pc = "clean" /\ queue # <<>>
  /\ queue' = Tail(queue)
  /\ LET a == Head(queue) IN
     \E done \in 0 .. 3 :
       /\ cache' = IF CleanMetadata /\ done >= 1 THEN [cache EXCEPT ![a] = "none"] ELSE cache
       /\ raw' = IF CleanRaw /\ ~KeepsRaw(a) /\ done >= 2
                 THEN [raw EXCEPT ![a] = "none"] ELSE raw
       /\ pkgs' = IF CleanPackages /\ done >= 3 THEN pkgs \ {a} ELSE pkgs
       /\ failed' = IF done < 3 THEN failed \cup {a} ELSE failed
       /\ broken' = IF done < 3 THEN broken \cup {a} ELSE broken
       /\ tried' = tried \cup {a}
  /\ UNCHANGED <<config, given, pc, exitCode, specified, notFound>>

\* Slip: the error of the last one decides.
SlipEndClean ==
  /\ pc = "clean" /\ queue = <<>>
  /\ \E systemOk \in BOOLEAN : Return(IF systemOk \/ ~CleanMetadata THEN EXIT_OK ELSE ERR_ZYPP)
  /\ UNCHANGED <<config, data, given, work>>

\* The cache of the installed packages goes with the metadata.
EndClean ==
  /\ pc = "clean" /\ queue = <<>>
  /\ \E systemOk \in BOOLEAN :
       Return(IF failed = {} /\ (systemOk \/ ~CleanMetadata) THEN EXIT_OK ELSE ERR_ZYPP)
  /\ UNCHANGED <<config, data, given, work>>

-----------------------------------------------------------------------------
(* addrepo                                                                 *)

\* By URL there is one entry, a .repo file that can be read has any number.
StartAdd ==
  /\ Start("addrepo")
  /\ \/ Enqueue("add", cmd.entries) /\ UNCHANGED <<specified, notFound>>
     \/ /\ Flag("file") /\ \E code \in {ERR_INVALID_ARGS, ERR_ZYPP} : Return(code)
        /\ UNCHANGED <<config, data, given, work>>

\* The record of a new repository: a CD is not refreshed automatically.
NewRepo(e) ==
  [name |-> e.alias, urls |-> e.urls, enabled |-> Modified(e).enabled,
   auto |-> Modified(e).auto /\ ~IsCd(e), service |-> NoWord]

\* Entries of a file without alias or URL are skipped with a warning.
SkipEntry ==
  /\ pc = "add" /\ queue # <<>>
  /\ Head(queue).alias = NoWord \/ Head(queue).urls = <<>>
  /\ queue' = Tail(queue)
  /\ UNCHANGED <<config, data, given, pc, exitCode, specified, notFound, failed, tried, broken>>

Addable == /\ pc = "add" /\ queue # <<>>
           /\ Head(queue).alias # NoWord /\ Head(queue).urls # <<>>

\* add_repo fails: the alias is invalid or taken, the type unknown, the repository
\* not to be had, or something unexpected happened.
AddFails ==
  /\ Addable
  /\ queue' = Tail(queue)
  /\ exitCode' \in IF Head(queue).alias \in Known THEN {ERR_ZYPP}
                   ELSE {ERR_INVALID_ARGS, ERR_ZYPP, ERR_BUG}
  /\ failed' = failed \cup {Head(queue).alias}
  /\ broken' = broken \cup {Head(queue).alias}
  /\ UNCHANGED <<config, data, given, pc, specified, notFound, tried>>

\* Slip: a success clears the code.
SlipAddRepo ==
  /\ Addable /\ Head(queue).alias \notin Known
  /\ queue' = Tail(queue) /\ exitCode' = EXIT_OK
  /\ LET e == Head(queue) IN
     /\ repos' = [a \in Known \cup {e.alias} |-> IF a = e.alias THEN NewRepo(e) ELSE repos[a]]
     /\ tried' = tried \cup {e.alias}
  /\ UNCHANGED <<services, data, given, pc, specified, notFound, failed, broken>>

\* add_repo: the data of a CD is read at once unless --no-check is given.  When that
\* fails the repository stays.
AddRepo ==
  /\ Addable /\ Head(queue).alias \notin Known
  /\ queue' = Tail(queue)
  /\ LET e == Head(queue)
         R == {e.alias}
     IN
     /\ repos' = [a \in Known \cup R |-> IF a = e.alias THEN NewRepo(e) ELSE repos[a]]
     /\ tried' = tried \cup R
     /\ IF IsCd(e) /\ ~Flag("no-check")
        THEN \E rawOk, cacheOk \in SUBSET R :
               /\ Refreshed(R, {}, rawOk, cacheOk)
               /\ failed' = failed \cup RefreshError(R, {}, rawOk, cacheOk)
               /\ broken' = broken \cup RefreshError(R, {}, rawOk, cacheOk)
               /\ exitCode' = IF RefreshError(R, {}, rawOk, cacheOk) = {} THEN exitCode ELSE ERR_ZYPP
        ELSE UNCHANGED <<raw, cache, failed, broken, exitCode>>
  /\ UNCHANGED <<services, pkgs, given, pc, specified, notFound>>

\* Slip: the number of errors is returned.
SlipEndAdd ==
  /\ pc = "add" /\ queue = <<>>
  /\ Return(Cardinality(failed))
  /\ UNCHANGED <<config, data, given, work>>

EndAdd ==
  /\ pc = "add" /\ queue = <<>>
  /\ Return(exitCode)
  /\ UNCHANGED <<config, data, given, work>>

-----------------------------------------------------------------------------
(* removerepo, modifyrepo, renamerepo                                      *)

\* collect_repos_by_option
CollectRepos == { a \in Known : Selected(Head(repos[a].urls)) }

Matches == { MatchRepo(cmd.args[i], Flag("loose-query"), Flag("loose-auth"))
             : i \in DOMAIN cmd.args } \ {NoWord}

\* All are looked up before the first is removed; unknown ones are only reported.
StartRemove ==
  /\ Start("removerepo")
  /\ IF cmd.args # <<>> <=> Aggregate
     THEN Return(ERR_INVALID_ARGS) /\ UNCHANGED <<config, data, given, work>>
     ELSE /\ Enqueue("remove", Sorted(IF Aggregate THEN CollectRepos ELSE Matches))
          /\ UNCHANGED <<specified, notFound>>

\* remove_repo; an exception ends the command.
RemoveRepo ==
  /\ pc = "remove" /\ queue # <<>>
  /\ \/ RemoveRepos({Head(queue)}) /\ queue' = Tail(queue) /\ UNCHANGED <<pc, exitCode, broken>>
     \/ /\ Leave(ERR_BUG) /\ broken' = broken \cup {Head(queue)}
        /\ UNCHANGED <<repos, data, queue>>
  /\ UNCHANGED <<services, given, specified, notFound, failed, tried>>

\* Arguments are looked up one by one, after the ones before have been modified.
StartModify ==
  /\ Start("modifyrepo")
  /\ IF cmd.args # <<>> <=> Aggregate
     THEN Return(ERR_INVALID_ARGS) /\ UNCHANGED <<config, data, given, work>>
     ELSE /\ Enqueue("modify", IF Aggregate THEN Sorted(CollectRepos) ELSE cmd.args)
          /\ UNCHANGED <<specified, notFound>>

Modify ==
  /\ pc = "modify" /\ queue # <<>>
  /\ LET a == IF Aggregate THEN Head(queue) ELSE MatchRepo(Head(queue), FALSE, FALSE) IN
     IF a = NoWord
     THEN Return(ERR_INVALID_ARGS) /\ UNCHANGED <<config, queue, broken>>
     ELSE ModifyRepo(a) /\ queue' = Tail(queue) /\ UNCHANGED <<pc, exitCode>>
  /\ UNCHANGED <<data, given, specified, notFound, failed, tried>>

\* Both return 0 whatever happened to the items.
EndRemoveOrModify ==
  /\ pc \in {"remove", "modify"} /\ queue = <<>>
  /\ Return(EXIT_OK)
  /\ UNCHANGED <<config, data, given, work>>

RenameWrongly ==
  /\ Start("renamerepo") /\ Len(cmd.args) # 2
  /\ Return(ERR_INVALID_ARGS)
  /\ UNCHANGED <<config, data, given, work>>

\* rename_repo: refused for a repository of a service; any other error is printed.
RenameRepo ==
  /\ Start("renamerepo") /\ Len(cmd.args) = 2
  /\ LET a == MatchRepo(cmd.args[1], FALSE, FALSE)
         new == cmd.args[2].word
     IN
     IF a # NoWord /\ repos[a].service # NoWord
     THEN Return(ERR_ZYPP) /\ broken' = {a} /\ UNCHANGED <<config, data>>
     ELSE /\ Return(EXIT_OK)
          /\ UNCHANGED services
          /\ \/ /\ a # NoWord /\ new \notin Known
                /\ repos' = [b \in (Known \ {a}) \cup {new} |->
                               IF b = new THEN repos[a] ELSE repos[b]]
                /\ raw' = Forget({a}, raw) /\ cache' = Forget({a}, cache)
                /\ pkgs' = pkgs \ {a}
                /\ UNCHANGED broken
             \/ broken' = {new} /\ UNCHANGED <<repos, data>>
  /\ UNCHANGED <<given, queue, specified, notFound, failed, tried>>

-----------------------------------------------------------------------------
(* addservice, removeservice, modifyservice                                *)

\* add_service: known with the same URL the settings are updated, with another one
\* the alias is refused.
AddService ==
  /\ Start("addservice")
  /\ LET e == Head(cmd.entries)
         url == Head(e.urls)
     IN
     \/ /\ e.alias \in DOMAIN services => services[e.alias].url = url
        /\ services' = [s \in DOMAIN services \cup {e.alias} |->
                          IF s = e.alias
                          THEN [url |-> url, enabled |-> Modified(e).enabled, auto |-> Modified(e).auto]
                          ELSE services[s]]
        /\ Return(EXIT_OK) /\ UNCHANGED broken
     \/ Return(ERR_ZYPP) /\ broken' = {e.alias} /\ UNCHANGED services
  /\ UNCHANGED <<repos, data, given, queue, specified, notFound, failed, tried>>

\* As the repositories, the services are looked up before the first is removed.
StartRemoveServices ==
  /\ Start("removeservice")
  /\ IF cmd.args = <<>>
     THEN Return(ERR_INVALID_ARGS) /\ UNCHANGED <<config, data, given, work>>
     ELSE /\ Enqueue("removeServices",
               LET found == MatchedServices(Flag("loose-auth"), Flag("loose-query"))
               IN Items({ s \in DOMAIN services : Service(s) \in found },
                        { a \in ServiceRepos(NoWord) : PlainRepo(a) \in found }))
          /\ UNCHANGED <<specified, notFound>>

\* removeService of libzypp takes the repositories of the service along.
RemoveService ==
  /\ pc = "removeServices" /\ queue # <<>>
  /\ LET item == Head(queue) IN
     \/ /\ item.kind = "service"
        /\ services' = [s \in DOMAIN services \ {item.alias} |-> services[s]]
        /\ RemoveRepos(ServiceRepos(item.alias))
        /\ queue' = Tail(queue) /\ UNCHANGED <<pc, exitCode, broken>>
     \/ /\ item.kind = "repo" /\ RemoveRepos({item.alias})
        /\ queue' = Tail(queue) /\ UNCHANGED <<pc, exitCode, broken, services>>
     \/ /\ Leave(ERR_BUG) /\ broken' = broken \cup {item.alias}
        /\ UNCHANGED <<config, data, queue>>
  /\ UNCHANGED <<given, specified, notFound, failed, tried>>

\* One argument or an aggregate option.
StartModifyServices ==
  /\ Start("modifyservice")
  /\ IF (cmd.args # <<>> <=> Aggregate) \/ Len(cmd.args) > 1
     THEN Return(ERR_INVALID_ARGS) /\ UNCHANGED <<config, data, given, work>>
     ELSE /\ Enqueue("modifyServices",
               LET found == MatchedServices(FALSE, FALSE)
               IN Items({ s \in DOMAIN services : IF Aggregate THEN Selected(services[s].url)
                                                  ELSE Service(s) \in found },
                        { a \in ServiceRepos(NoWord) :
                            IF Aggregate THEN Selected(Head(repos[a].urls))
                            ELSE PlainRepo(a) \in found }))
          /\ UNCHANGED <<specified, notFound>>

ModifyOneService ==
  /\ pc = "modifyServices" /\ queue # <<>>
  /\ queue' = Tail(queue)
  /\ IF Head(queue).kind = "service" THEN ModifyService(Head(queue).alias)
     ELSE ModifyRepo(Head(queue).alias)
  /\ UNCHANGED <<data, given, pc, exitCode, specified, notFound, failed, tried>>

EndServicesEdit ==
  /\ pc \in {"removeServices", "modifyServices"} /\ queue = <<>>
  /\ Return(exitCode)
  /\ UNCHANGED <<config, data, given, work>>

-----------------------------------------------------------------------------
Init ==
  /\ repos = InitRepos /\ services = InitServices
  /\ raw = [a \in Words |-> IF a \in DOMAIN InitRepos THEN "old" ELSE "none"]
  /\ cache = raw /\ pkgs = DOMAIN InitRepos
  /\ cmd = (CHOOSE c \in CommandLines : TRUE) /\ pc = "idle" /\ exitCode = EXIT_OK
  /\ initial = <<>> /\ queue = <<>> /\ specified = {} /\ notFound = FALSE
  /\ failed = {} /\ tried = {}
  /\ before = InitRepos /\ broken = {} /\ commands = 0

Refresh ==
  \/ StartRefresh \/ StartRefreshServices
  \/ RefreshService \/ RefreshServiceRepos \/ RefreshPlainRepo \/ EndServices
  \/ SelectRepos \/ RefreshRepo \/ EndRefresh

Clean == StartClean \/ CleanRepo \/ EndClean

Edit ==
  \/ StartAdd \/ SkipEntry \/ AddFails \/ AddRepo \/ EndAdd
  \/ StartRemove \/ RemoveRepo \/ StartModify \/ Modify \/ EndRemoveOrModify
  \/ RenameWrongly \/ RenameRepo

EditServices ==
  \/ AddService \/ StartRemoveServices \/ RemoveService
  \/ StartModifyServices \/ ModifyOneService \/ EndServicesEdit

Next ==
  \/ \E c \in CommandLines : ReadCommand(c)
  \/ Refresh \/ Clean \/ Edit \/ EditServices

Spec == Init /\ [][Next]_vars

-----------------------------------------------------------------------------
(* Properties                                                              *)

TypeOK ==
  /\ Known \subseteq Words /\ DOMAIN services \subseteq Words
  /\ raw \in [Words -> {"none", "old", "new"}] /\ cache \in [Words -> {"none", "old", "new"}]
  /\ pkgs \subseteq Words
  /\ \A a \in Known : repos[a].service \in Words \cup {NoWord} /\ repos[a].urls # <<>>
  /\ cmd \in CommandLines
  /\ pc \in {"idle", "start", "services", "serviceRepos", "select", "refresh", "clean", "add",
             "remove", "modify", "removeServices", "modifyServices", "done", "left", "crashed"}
  /\ exitCode \in {EXIT_OK, ERR_BUG, ERR_INVALID_ARGS, ERR_ZYPP, ERR_PRIVILEGES, NO_REPOS}
  /\ Range(initial) \subseteq Words /\ specified \subseteq Words /\ notFound \in BOOLEAN
  /\ failed \subseteq Words /\ tried \subseteq Words
  /\ commands \in 0 .. MaxCommands

\* What an argument may mean to the user, who saw the list as it was when the command
\* started: the position, the alias, the name or the URL.  A repository that a refresh of
\* the services has brought since has its URL, too.
Meanings(arg) ==
  IF arg.word # NoWord
  THEN {arg.word} \cup { initial[i] : i \in {arg.word} \cap DOMAIN initial }
                  \cup { a \in DOMAIN before : before[a].name = arg.word }
  ELSE { a \in DOMAIN before : HasUrl(before[a].urls, arg.url, TRUE, TRUE) }
         \cup { a \in Known : HasUrl(repos[a].urls, arg.url, TRUE, TRUE) }

Meant == UNION { Meanings(arg) : arg \in Range(RepoArgs) }

Entry(a) ==
  <<IF a \in Known THEN {repos[a]} ELSE {}, raw[a], cache[a], a \in pkgs>>

\* refresh, clean, removerepo, modifyrepo and renamerepo touch only repositories their
\* arguments name in the list the user saw, whatever a service refresh or the steps
\* before did to the list; without arguments, or with --plus-content, any.
OnlyNamedChange ==
  [][ /\ pc \in {"refresh", "clean", "remove", "modify", "start"}
      /\ RepoArgs # <<>> /\ cmd.plus = <<>> /\ pc' # "start"
      => \A a \in Words : Entry(a)' # Entry(a) => a \in Meant ]_vars

UpToDate(a) ==
  /\ a \in Known
  /\ repos[a].enabled =>
       /\ "build-only" \in cmd.flags \/ raw[a] = "new"
       /\ "download-only" \in cmd.flags \/ cache[a] = "new"
Cleaned(a) ==
  /\ CleanMetadata => cache[a] = "none"
  /\ CleanRaw => raw[a] = "none" \/ (IsCd(repos[a]) /\ ~(Flag("all") /\ RepoArgs # <<>>))
  /\ CleanPackages => a \notin pkgs

\* refresh returns 0 only if every enabled repository that it was asked for has been
\* downloaded and parsed, as far as the options wanted it: in particular after a
\* service refresh changed the list, and if some other repository failed.  clean returns 0
\* only if what it was asked to clean is gone for every repository an argument names; raw
\* data of a CD goes only with --all and the CD named.
\* And a failed repository or service is not lost in the exit code by what succeeds after
\* it: in refresh, clean, addrepo, addservice, and refresh-services as far as it counts.
ZeroMeansServed ==
  pc = "done" /\ exitCode = EXIT_OK =>
    /\ cmd.verb = "refresh" =>
         IF RepoArgs = <<>> THEN \A a \in Known : UpToDate(a)
         ELSE \A i \in DOMAIN RepoArgs : \E a \in Meanings(RepoArgs[i]) : UpToDate(a)
    /\ cmd.verb = "clean" => \A a \in IF RepoArgs = <<>> THEN Known ELSE specified : Cleaned(a)
    /\ cmd.verb \in {"refresh", "clean", "addrepo", "addservice"} => broken = {}
    /\ failed = {}

\* zypper.8.txt: repositories that belong to no service are treated like services, in
\* any order on the command line.
ReposAreServices == pc # "crashed"
=============================================================================
