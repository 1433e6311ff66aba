---------------------------- MODULE MCPatchLists ----------------------------
(***************************************************************************)
(* PatchLists and Downloads for TLC: three patches, one of them for the    *)
(* update stack in some scenes, two packages built from one source, and    *)
(* the command lines that bring in one option or one kind of argument      *)
(* each.                                                                   *)
(***************************************************************************)
EXTENDS Downloads, TLC

MCPatches == {"p", "q", "r"}
MCPackages == {"a", "b"}
MCRepos == {"main", "side"}
MCNames == {"p*", "q", "a", "7"}
MCHits == ("p*" :> {"p"}) @@ [q |-> {"q"}, a |-> {"a"}] @@ ("7" :> {})
MCWithin == {<<"1", "12">>, <<"cv", "cve">>}

Ed(v, r, b) == [epoch |-> 1, version |-> v, release |-> r, rebuild |-> b]

P(cat, st) == [cat |-> cat, status |-> st, stack |-> FALSE, asks |-> FALSE, repo |-> "main",
               refs |-> {}, words |-> {}]
Stack(x) == [x EXCEPT !.stack = TRUE]
Asks(x) == [x EXCEPT !.asks = TRUE]
Fixes(x, refs, words) == [x EXCEPT !.refs = refs, !.words = words]

L(cmd) ==
  [cmd |-> cmd, all |-> FALSE, xml |-> FALSE, optional |-> "", categories |-> {}, stackOnly |-> FALSE,
   withUpdate |-> FALSE, skip |-> FALSE, issues |-> {}, kinds |-> {}, change |-> "none", args |-> <<>>,
   repos |-> {}, comment |-> "", onlyDuplicates |-> FALSE, onlyEmpty |-> FALSE]

Number(i) == [number |-> i, name |-> "7", kind |-> ""]
Name(n, k) == [number |-> 0, name |-> n, kind |-> k]
Cve(id) == [type |-> "cve", id |-> id]
Issue(id) == [type |-> "", id |-> id]

Check == {
  L("patch-check"),
  L("patch"),
  [L("update") EXCEPT !.kinds = {"package"}] }

Look == {
  L("patch-check"),
  [L("patch-check") EXCEPT !.stackOnly = TRUE],
  L("list-patches"),
  [L("list-patches") EXCEPT !.xml = TRUE],
  L("patch"),
  [L("update") EXCEPT !.kinds = {"patch"}] }

WithOptional == {
  [L("patch-check") EXCEPT !.optional = "with"],
  [L("list-patches") EXCEPT !.optional = "with"],
  [L("list-patches") EXCEPT !.categories = {"optional"}, !.all = TRUE],
  [L("patch") EXCEPT !.optional = "with"],
  [L("list-updates") EXCEPT !.kinds = {"package", "patch"}, !.xml = TRUE],
  [L("patch") EXCEPT !.skip = TRUE, !.categories = {"security"}],
  L("needs-rebooting") }

Updates == {
  [L("list-updates") EXCEPT !.kinds = {"package"}],
  [L("list-updates") EXCEPT !.kinds = {"package"}, !.change = "rebuild"],
  [L("list-updates") EXCEPT !.kinds = {"package"}, !.change = "package"],
  [L("list-updates") EXCEPT !.kinds = {"package", "patch"}, !.all = TRUE],
  [L("update") EXCEPT !.kinds = {"package"}],
  [L("patch") EXCEPT !.withUpdate = TRUE] }

ByNumber == {
  [L("list-patches") EXCEPT !.issues = {Issue("1"), Cve("12"), Cve("7")}],
  [L("list-patches") EXCEPT !.issues = {Cve("")}, !.all = TRUE],
  [L("patch") EXCEPT !.issues = {Cve("12"), Cve("5")}],
  [L("patch") EXCEPT !.stackOnly = TRUE] }

OnLocks == {
  [L("addlock") EXCEPT !.args = <<Name("p*", "patch"), Name("a", "")>>, !.comment = "reason"],
  [L("addlock") EXCEPT !.args = <<Name("q", "")>>, !.kinds = {"patch"}, !.repos = {"unknown"}],
  [L("removelock") EXCEPT !.args = <<Name("p*", "patch")>>],
  L("cleanlocks"),
  [L("cleanlocks") EXCEPT !.onlyDuplicates = TRUE] }

\* The same numbers up and down, and edits in between.
ByNumbers == {
  [L("addlock") EXCEPT !.args = <<Name("p*", "patch"), Name("a", "")>>],
  [L("removelock") EXCEPT !.args = <<Number(1), Number(2)>>],
  [L("removelock") EXCEPT !.args = <<Number(2), Number(1)>>],
  [L("removelock") EXCEPT !.args = <<Number(3)>>],
  L("cleanlocks"),
  L("locks") }

LockOf(name, kind, repos) == [name |-> name, kinds |-> {kind}, repos |-> repos, comment |-> ""]

Packages1 == [offers |-> [a |-> {Ed(1, 1, 2), Ed(2, 1, 1)}, b |-> {Ed(1, 2, 1)}],
              pick |-> [a |-> Ed(2, 1, 1), b |-> Ed(1, 2, 1)],
              installed |-> [a |-> Ed(1, 1, 1), b |-> Ed(1, 1, 1)]]
Packages2 == [offers |-> [a |-> {Ed(1, 1, 2), Ed(2, 1, 1)}, b |-> {Ed(1, 1, 1)}],
              pick |-> [a |-> Ed(1, 1, 2), b |-> Ed(1, 1, 1)],
              installed |-> [a |-> Ed(1, 1, 1), b |-> NotInstalled]]

MCSourceOf == [a |-> "a", b |-> "a"]
MCMatching == ("a" :> {"a"}) @@ ("libb" :> {"b"}) @@ ("*" :> {"a", "b"}) @@ ("c" :> {})

E(cmd) == [cmd |-> cmd, args |-> <<>>, allMatches |-> FALSE, dryRun |-> FALSE, delete |-> TRUE, ignoreUnknown |-> FALSE]
Download(args) == [E("download") EXCEPT !.args = args]

Errands == {
  Download(<<"a", "libb">>),
  Download(<<"*", "a">>),
  [Download(<<"*", "c">>) EXCEPT !.allMatches = TRUE, !.ignoreUnknown = TRUE],
  E("source-download"),
  [E("source-download") EXCEPT !.delete = FALSE],
  [E("source-download") EXCEPT !.dryRun = TRUE] }

\* The sources some repository has, and two files of one source that nothing installed needs.
MCSources == {<<"a", Ed(1, 1, 1)>>, <<"a", Ed(2, 1, 1)>>}
MCFiles == { [source |-> <<"a", Ed(1, 1, 0)>>, own |-> o] : o \in BOOLEAN }

Scene(p, q, r, packages, list, lines) ==
  [patch |-> [x \in MCPatches |-> IF x = "p" THEN p ELSE IF x = "q" THEN q ELSE r],
   offers |-> packages.offers, pick |-> packages.pick, installed |-> packages.installed, locks |-> list, lines |-> lines,
   sources |-> {}, files |-> {}, errands |-> {}]
Fetching(s) == [s EXCEPT !.sources = MCSources, !.files = MCFiles, !.errands = Errands]

MCScenes == {
  Scene(P("security", "broken"), Stack(P("recommended", "broken")), P("optional", "broken"), Packages1, <<>>, Look \cup WithOptional \cup Updates),
  Scene(Stack(P("optional", "broken")), P("recommended", "broken"), Asks(P("security", "irrelevant")), Packages2, <<>>, Look \cup WithOptional),
  Scene(Stack(P("security", "broken")), P("security", "broken"), P("recommended", "satisfied"),
        Packages2, <<LockOf("p*", "patch", {}), LockOf("p*", "patch", {})>>, Check \cup OnLocks),
  Scene(Fixes(P("security", "broken"), {<<"cve", "12">>, <<"bugzilla", "5">>}, {}),
        Fixes(P("recommended", "broken"), {<<"bugzilla", "5">>}, {"12"}),
        Fixes(P("optional", "satisfied"), {<<"cve", "1">>}, {}), Packages2,
        <<LockOf("q", "patch", {"side"}), LockOf("a", "package", {})>>,
        Look \cup Updates \cup ByNumber),
  Scene(P("security", "satisfied"), P("recommended", "satisfied"), P("optional", "satisfied"), Packages1,
        <<LockOf("p*", "patch", {}), LockOf("q", "patch", {}), LockOf("a", "package", {"side"})>>, ByNumbers),
  Fetching(Scene(P("security", "satisfied"), P("recommended", "satisfied"), P("optional", "satisfied"),
                 Packages1, <<>>, {[L("update") EXCEPT !.kinds = {"package"}]})) }
=============================================================================
