------------------------------ MODULE Downloads ------------------------------
(***************************************************************************)
(* The two commands that only fetch files, beside the patch and update     *)
(* commands of PatchLists, which change what is installed and with it what *)
(* these fetch or throw away: download puts packages in the cache, source- *)
(* download makes a directory hold the sources of what is installed.       *)
(***************************************************************************)
EXTENDS PatchLists

CONSTANTS
  SourceOf,    \* the name of the source package a package is built from
  Matching     \* the packages whose name (or else provides) an argument of download matches

\* The command lines of the two commands, with their arguments; and what is in the directory
\* at first, as it was read from the files' headers.
ASSUME FilesAssumption ==
  \A s \in Scenes :
    /\ \A errand \in s.errands :
         /\ errand.cmd \in {"download", "source-download"}
         /\ \A a \in ToSet(errand.args) : Matching[a] \subseteq Packages
    /\ \A f \in s.files : f.own \in BOOLEAN /\ f.source[2] \in Edition

ERR_PRIVILEGES == 5
ON_SIGNAL == 105

VARIABLES
  cache,       \* the packages in the package cache
  sources,     \* files in the download directory: [source, own], own if zypper named the file
  outcome      \* of the last command of this module

allVars == <<vars, cache, sources, outcome>>

\* The source packages, by name and edition.
Source(n, e) == <<SourceOf[n], e>>
File(s) == [source |-> s, own |-> TRUE]

Outcome == [cmd |-> "none", errand |-> {}, code |-> EXIT_OK, missing |-> {}, superfluous |-> {}, got |-> {},
            started |-> TRUE]

\* These commands leave the rest of the system alone.
Fetches(errand, cmd) ==
  /\ errand.cmd = cmd
  /\ report' = Report
  /\ exclude' = Kept(exclude, TRUE)
  /\ UNCHANGED <<scene, system, locks, shell, note, shown, rounds>>

Fails(errand, code) ==
  /\ outcome' = [Outcome EXCEPT !.cmd = errand.cmd, !.errand = errand, !.code = code,
                                !.started = FALSE]
  /\ UNCHANGED <<cache, sources>>
-----------------------------------------------------------------------------
(* download *)

Items(arg) == UNION { { <<n, e>> : e \in scene.offers[n] } : n \in Matching[arg] }

\* Slip: the arguments share one set of matches.
SlipCollected(args, first, ident) == UNION { Items(a) : a \in args }
\* All matches of an argument are filed under the name of the first one.
Collected(args, first, ident) ==
  UNION { Items(a) : a \in { b \in args : Items(b) # {} /\ first[b] = ident } }

\* The first one of a set in AvailableItemOrder.
Best(items) == { i \in items : \A j \in items : ~Older(i[2], j[2]) }

\* Whatever goes wrong with one package is reported, and the next one tried, also if the user
\* aborts; the exit code tells of a signal only.
DownloadCmd(errand) ==
  LET args == ToSet(errand.args)
      unknown == \E a \in args : Items(a) = {}
      found == UNION { Items(a) : a \in args }
      idents == { i[1] : i \in found }
      info == IF unknown /\ ~errand.ignoreUnknown THEN INF_CAP_NOT_FOUND ELSE EXIT_OK
  IN /\ Fetches(errand, "download")
     /\ \/ Fails(errand, ERR_PRIVILEGES) /\ UNCHANGED held
        \/ \E first \in [args -> idents \cup {"none"}] : \E best \in [idents -> found] :
             /\ \A a \in args : IF Items(a) = {} THEN first[a] = "none" ELSE first[a] \in { i[1] : i \in Items(a) }
             /\ \A n \in idents : LET all == Collected(args, first, n)
                                  IN IF all = {} THEN best[n] = (CHOOSE i \in found : TRUE) ELSE best[n] \in Best(all)
             /\ LET filled == { n \in idents : Collected(args, first, n) # {} }
                    chosen == IF errand.allMatches THEN found ELSE { best[n] : n \in filled }
                    missing == IF errand.dryRun THEN {} ELSE chosen \ cache
                IN \E got \in SUBSET missing : \E code \in {info} \cup { ON_SIGNAL : i \in missing } :
                     /\ cache' = cache \cup got
                     /\ outcome' = [Outcome EXCEPT !.cmd = "download", !.errand = errand, !.code = code,
                                                   !.missing = missing, !.got = got]
             /\ LoadTarget
             /\ UNCHANGED sources
-----------------------------------------------------------------------------
(* source-download *)

\* Slip: a source is needed for the package of its name only.
SlipNeededSources ==
  { Source(n, installed[n]) : n \in { m \in Packages : IsInstalled(m) /\ SourceOf[m] = m } }
NeededSources == { Source(n, installed[n]) : n \in { m \in Packages : IsInstalled(m) } }
LocalSources == { f.source : f \in sources }

\* The directory cannot be made, read or written; or the set-up of the command fails, which
\* the exit code does not tell.
CannotStart(errand) == \E code \in {ERR_BUG, ERR_PRIVILEGES, EXIT_OK} : Fails(errand, code) /\ UNCHANGED held

\* The manifest knows one file per source, the last one read.
Manifest(superfluous) ==
  { chosen \in SUBSET { f \in sources : f.source \in superfluous } :
      \A s \in superfluous : Cardinality({ f \in chosen : f.source = s }) = 1 }

\* A file that cannot be removed ends the command, with 0; a source that cannot be had is
\* reported, and the next one tried.
SourceDownloadCmd(errand) ==
  LET superfluous == LocalSources \ NeededSources
      missing == NeededSources \ LocalSources
      Ends(code, got) ==
        outcome' = [Outcome EXCEPT !.cmd = "source-download", !.errand = errand, !.code = code,
                                   !.missing = missing, !.superfluous = superfluous, !.got = got]
  IN /\ Fetches(errand, "source-download")
     /\ \/ CannotStart(errand)
        \/ /\ errand.dryRun
           /\ Ends(EXIT_OK, {}) /\ LoadTarget
           /\ UNCHANGED <<cache, sources>>
        \/ /\ ~errand.dryRun /\ errand.delete
           /\ \E listed \in Manifest(superfluous) : \E removed \in SUBSET listed :
                /\ removed # listed
                /\ sources' = sources \ removed
           /\ Ends(EXIT_OK, {}) /\ LoadTarget
           /\ UNCHANGED cache
        \/ /\ ~errand.dryRun
           /\ \E listed \in Manifest(superfluous) :
              \E got \in SUBSET (missing \cap scene.sources) : \E code \in {EXIT_OK} \cup { ON_SIGNAL : s \in missing } :
                /\ sources' = (sources \ (IF errand.delete THEN listed ELSE {})) \cup { File(s) : s \in got }
                /\ Ends(code, got)
           /\ LoadTarget
           /\ UNCHANGED cache
-----------------------------------------------------------------------------
Errand(errand) == DownloadCmd(errand) \/ SourceDownloadCmd(errand)

DownloadsInit ==
  /\ Init
  /\ cache = {}
  /\ sources = scene.files
  /\ outcome = Outcome

DownloadsNext ==
  \/ Next /\ outcome' = Outcome /\ UNCHANGED <<cache, sources>>
  \/ \E errand \in scene.errands : Errand(errand)

DownloadsSpec == DownloadsInit /\ [][DownloadsNext]_allVars
-----------------------------------------------------------------------------
(* Properties *)

\* Type correctness; zypper names the files it writes, so there is one per source.
DownloadsTypeOK ==
  /\ TypeOK
  /\ \A i \in cache : i[1] \in Packages /\ i[2] \in scene.offers[i[1]]
  /\ \A f \in sources : f.own \in BOOLEAN /\ f.source[2] \in Edition
  /\ outcome.code \in {EXIT_OK, ERR_BUG, ERR_PRIVILEGES, INF_CAP_NOT_FOUND, ON_SIGNAL}
  /\ outcome.got \subseteq outcome.missing

\* doc/zypper.8.txt, source-download: the directory gets the sources of all installed packages,
\* extraneous ones go unless --no-delete is given, and --status shows what would be done.  Over
\* updates in between: no source of an installed package is ever removed, whoever else is built
\* from it; what --status shows is what the next command handles; nothing else comes in.
SourcesFit ==
  LET now == outcome
      then == outcome'
      asShown == now.cmd = "source-download" /\ now.errand.dryRun /\ then.cmd = "source-download"
                 /\ now.started /\ then.started
  IN /\ \A f \in sources \ sources' :
          /\ then.cmd = "source-download" /\ then.errand.delete /\ ~then.errand.dryRun
          /\ \A n \in Packages : IsInstalled(n) => Source(n, installed[n]) # f.source
     /\ \A f \in sources' \ sources :
          \E n \in Packages : IsInstalled(n) /\ Source(n, installed[n]) = f.source
     /\ asShown => then.missing = now.missing /\ then.superfluous = now.superfluous
     /\ then.cmd = "source-download" /\ then.started /\ then.got = then.missing /\ ~then.errand.dryRun
          /\ (then.missing # {} \/ then.superfluous = {}) =>
          \A n \in Packages : IsInstalled(n) => \E f \in sources' : f.source = Source(n, installed[n])

\* doc/zypper.8.txt, download: the rpms named on the command line are downloaded, without
\* --all-matches the best version of each.  If every argument matches one name, then none of
\* them shadows another one, and after a command that could fetch all it tried the cache has
\* the newest offer of each; nothing comes in that no argument matches.
DownloadsFit ==
  LET then == outcome'
      args == ToSet(then.errand.args)
      untroubled == then.started /\ then.got = then.missing /\ ~then.errand.dryRun
  IN then.cmd = "download" =>
       /\ \A i \in cache' \ cache : \E a \in args : i \in Items(a)
       /\ untroubled /\ (\A a \in args : \A m, n \in Matching[a] : m = n) =>
            \A n \in UNION { Matching[a] : a \in args } :
              scene.offers[n] # {} => <<n, Highest(n)>> \in cache'

FilesFit == [][SourcesFit /\ DownloadsFit]_allVars
=============================================================================
