-------------------------- MODULE MCSolverRequest --------------------------
(***************************************************************************)
(* SolverRequest for TLC: every way a package can be installed and on      *)
(* offer that the requester tells apart, next to a second package; every   *)
(* state of two patches; and command lines that each bring in one option   *)
(* or one kind of argument.                                                *)
(***************************************************************************)
EXTENDS SolverRequest, TLC

CONSTANT none

MCPackages == {"a", "b"}
MCPatches == {"p", "q"}
MCRepos == {"main", "side"}
MCPriority == [main |-> 50, side |-> 99] @@ (System :> 99)
MCCaps == {"a", "b", "a=1", "ab*", "b.i586", "main:a", "cap", "patch:p", "old", "nothing"}
MCIssues == {"cve", "bug"}
MCFixedBy == [cve |-> {"p", "q"}, bug |-> {}]
MCNoItem == none

It(ed, repo) == [ed |-> ed, arch |-> "x86", vendor |-> "us", repo |-> repo, locked |-> FALSE]
Sys(ed) == It(ed, System)
Sel(inst, avail, cand) == [installed |-> inst, available |-> avail, candidate |-> cand]

Foreign(i) == [i EXCEPT !.vendor = "them"]
Locked(i) == [i EXCEPT !.locked = TRUE]
I586(i) == [i EXCEPT !.arch = "i586"]

Selectables == {
  Sel(none, {}, none),
  Sel(none, {It(1, "main")}, It(1, "main")),
  Sel(none, {Locked(It(1, "side")), It(2, "side")}, It(2, "side")),
  Sel(Sys(1), {}, none),
  Sel(Sys(1), {It(1, "main"), It(2, "main")}, It(2, "main")),
  Sel(Sys(1), {Foreign(It(2, "main"))}, none),
  Sel(Sys(1), {It(1, "main"), Foreign(It(2, "side"))}, It(1, "main")),
  Sel(Sys(2), {It(1, "main")}, It(1, "main")),
  Sel(Sys(1), {It(1, "main"), It(2, "side")}, It(1, "main")),
  Sel(Locked(Sys(1)), {Locked(It(2, "main"))}, Locked(It(2, "main"))),
  Sel(Sys(1), {Locked(It(3, "side")), It(2, "main")}, Locked(It(3, "side"))),
  Sel(Sys(1), {Locked(It(3, "side")), Foreign(It(2, "main"))}, Locked(It(3, "side"))),
  Sel(Sys(1), {I586(It(1, "main")), I586(It(2, "side"))}, none) }

Others == {
  Sel(none, {It(1, "main")}, It(1, "main")),
  Sel(Sys(1), {}, none),
  Sel(Sys(1), {It(2, "side")}, It(2, "side")),
  Sel(Sys(1), {I586(It(1, "main"))}, none) }

Needed == [ed |-> 2, status |-> "broken", stack |-> FALSE, locked |-> FALSE, optional |-> FALSE,
           asks |-> {}, late |-> FALSE, fits |-> TRUE, severe |-> TRUE]
Older == [Needed EXCEPT !.ed = 1]
PatchLists == {
  <<Needed>>, <<[Needed EXCEPT !.stack = TRUE]>>,
  <<[Needed EXCEPT !.status = "satisfied"], [Older EXCEPT !.status = "irrelevant"]>>,
  <<[Needed EXCEPT !.locked = TRUE], Older>>,
  <<[Needed EXCEPT !.optional = TRUE, !.stack = TRUE]>>,
  <<[Needed EXCEPT !.asks = {"reboot"}, !.stack = TRUE], Older>>,
  <<[Needed EXCEPT !.asks = {"license", "other"}]>>,
  <<[Needed EXCEPT !.late = TRUE, !.stack = TRUE], [Older EXCEPT !.fits = FALSE]>>,
  <<[Needed EXCEPT !.severe = FALSE]>> }

PoolOf(a, b, p, q) == [packages |-> [n \in MCPackages |-> IF n = "a" THEN a ELSE b],
                       patches |-> [x \in MCPatches |-> IF x = "p" THEN p ELSE q]]

MCPools == { PoolOf(a, b, <<Needed>>, <<Older>>) : a \in Selectables, b \in Others }
      \cup { PoolOf(Sel(none, {}, none), Sel(none, {}, none), p, q) : p \in PatchLists, q \in PatchLists }

-----------------------------------------------------------------------------
Arg(cap, names, provides) ==
  [cap |-> cap, names |-> names, provides |-> provides, ed |-> 0, arch |-> Unspecified, repo |-> Unspecified,
   modified |-> FALSE]

A == Arg("a", {"a"}, {"a"})
B == Arg("b", {"b"}, {"b"})
A1 == [Arg("a=1", {"a"}, {"a"}) EXCEPT !.ed = 1, !.modified = TRUE]
Glob == Arg("ab*", {"a", "b"}, {})
B586 == [Arg("b.i586", {"b"}, {"b"}) EXCEPT !.arch = "i586"]
MainA == [Arg("main:a", {"a"}, {"a"}) EXCEPT !.repo = "main"]
Cap == Arg("cap", {}, {"a", "b"})
PatchP == Arg("patch:p", {"p"}, {})
OldP == [Arg("old", {"p"}, {}) EXCEPT !.ed = 1]
Nonsense == Arg("nothing", {}, {})

Do(s) == [spec |-> s, dont |-> FALSE, bad |-> FALSE]
Dont(s) == [spec |-> s, dont |-> TRUE, bad |-> FALSE]
Bad == [spec |-> Nonsense, dont |-> TRUE, bad |-> TRUE]

Line(cmd, words) ==
  [cmd |-> cmd, words |-> words, kinds |-> {}, byName |-> FALSE, byCap |-> FALSE, force |-> FALSE,
   oldpackage |-> FALSE, bestEffort |-> FALSE, from |-> {}, badFrom |-> FALSE,
   allowVendor |-> FALSE, skipInteractive |-> FALSE, skipOptional |-> FALSE, rebootOk |-> FALSE,
   agree |-> FALSE, dateLimit |-> FALSE, category |-> FALSE, severity |-> FALSE,
   stackOnly |-> FALSE, withUpdate |-> FALSE, issues |-> {}, nonInteractive |-> FALSE,
   ignoreUnknown |-> FALSE]

Unattended(l) == [l EXCEPT !.nonInteractive = TRUE]

MCLines == {
  Line("install", <<>>),
  Line("install", <<<<Bad>>>>),
  Line("install", <<<<Do(A)>>>>),
  Line("install", <<<<Do(A1)>>>>),
  Line("install", <<<<Do(Glob), Dont(B)>>>>),
  Line("install", <<<<Do(B586)>>, <<Do(MainA)>>>>),
  Line("install", <<<<Do(Cap), Dont(Nonsense)>>>>),
  Line("install", <<<<Do(A), Dont(A), Do(B), Dont(Cap)>>>>),
  Unattended(Line("install", <<<<Do(B)>>, <<Do(Nonsense)>>>>)),
  [Unattended(Line("install", <<<<Do(A), Do(Nonsense)>>>>)) EXCEPT !.ignoreUnknown = TRUE],
  [Line("install", <<<<Do(Glob)>>>>) EXCEPT !.force = TRUE],
  [Line("install", <<<<Do(A), Do(B)>>>>) EXCEPT !.oldpackage = TRUE, !.from = {"main"}],
  [Line("install", <<<<Do(A)>>>>) EXCEPT !.badFrom = TRUE],
  [Line("install", <<<<Do(A)>>>>) EXCEPT !.byName = TRUE, !.allowVendor = TRUE],
  [Line("install", <<<<Do(A), Dont(B)>>>>) EXCEPT !.byCap = TRUE],
  Line("install", <<<<Do(OldP), Do(PatchP)>>>>),
  Line("remove", <<<<Dont(A), Dont(Nonsense), Do(B)>>>>),
  Unattended(Line("remove", <<<<Dont(Glob), Do(PatchP)>>>>)),
  [Line("remove", <<<<Dont(A1), Dont(Cap)>>>>) EXCEPT !.byName = TRUE],
  [Line("remove", <<<<Dont(A)>>>>) EXCEPT !.byCap = TRUE],
  [Line("remove", <<<<Dont(A)>>>>) EXCEPT !.kinds = {"patch"}],
  Line("update", <<<<Do(Glob), Dont(A)>>>>),
  Line("update", <<<<Do(Cap), Do(PatchP)>>>>),
  [Line("update", <<<<Do(A)>>>>) EXCEPT !.bestEffort = TRUE],
  [Line("update", <<>>) EXCEPT !.kinds = {"package", "patch"}, !.skipOptional = TRUE],
  [Line("update", <<>>) EXCEPT !.kinds = {"product"}],
  Line("update", <<>>),
  Line("patch", <<<<Do(A)>>>>),
  [Line("patch", <<>>) EXCEPT !.withUpdate = TRUE, !.skipInteractive = TRUE],
  [Line("patch", <<>>) EXCEPT !.stackOnly = TRUE],
  [Line("patch", <<>>) EXCEPT !.dateLimit = TRUE, !.severity = TRUE, !.skipInteractive = TRUE,
                              !.rebootOk = TRUE, !.agree = TRUE],
  [Line("patch", <<>>) EXCEPT !.issues = MCIssues, !.category = TRUE] }
=============================================================================
