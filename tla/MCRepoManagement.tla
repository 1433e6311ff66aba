-------------------------- MODULE MCRepoManagement --------------------------
(***************************************************************************)
(* RepoManagement for TLC.  At the start there is a repository 3 of the    *)
(* service 5, a CD 4 named "2" and a disabled repository 6; the index of   *)
(* the service may list 1 and 3, so that its refresh shifts the positions. *)
(***************************************************************************)
EXTENDS RepoManagement

Http(p) == [path |-> p, query |-> "", auth |-> "", scheme |-> "http"]
HttpAuth(p) == [Http(p) EXCEPT !.auth = "user", !.query = "x=1"]
Cd == [Http("m") EXCEPT !.scheme = "cd"]

MCUrls == {Http("p"), HttpAuth("p"), Http("q"), Cd}

Repo(name, url, enabled, service) ==
  [name |-> name, urls |-> <<url>>, enabled |-> enabled, auto |-> FALSE, service |-> service]

MCInitRepos ==
  (3 :> Repo(3, Http("q"), TRUE, 5)) @@ (4 :> Repo(2, Cd, TRUE, NoWord)) @@
  (6 :> Repo(6, HttpAuth("p"), FALSE, NoWord))

MCInitServices == 5 :> [url |-> Http("s"), enabled |-> TRUE, auto |-> TRUE]

MCOffered == [w \in 1 .. 7 |-> IF w = 5 THEN {1, 3} ELSE {}]

Entry7 == [alias |-> 7, urls |-> <<Http("q")>>, enabled |-> TRUE, auto |-> TRUE]
CdEntry == [Entry7 EXCEPT !.alias = 1, !.urls = <<Cd>>]
Nameless == [Entry7 EXCEPT !.alias = NoWord]

W(w) == [word |-> w, url |-> Cd]
U(u) == [word |-> NoWord, url |-> u]

Line(verb) == [verb |-> verb, args |-> <<>>, repos |-> <<>>, plus |-> <<>>, flags |-> {},
               name |-> NoWord, entries |-> <<>>]

RefreshLines == {
  Line("refresh"),
  [Line("refresh") EXCEPT !.args = <<W(2)>>],
  [Line("refresh") EXCEPT !.args = <<U(CHOOSE u \in MCUrls : u.scheme # "cd")>>],
  [Line("refresh") EXCEPT !.repos = <<W(1)>>, !.args = <<W(4), W(7)>>],
  [Line("refresh") EXCEPT !.args = <<W(6)>>, !.plus = <<W(3)>>, !.flags = {"download-only"}],
  [Line("refresh") EXCEPT !.plus = <<W(7)>>, !.flags = {"services", "build-only"}],
  [Line("refresh") EXCEPT !.args = <<W(4)>>, !.flags = {"services"}],
  Line("refresh-services"),
  [Line("refresh-services") EXCEPT !.args = <<W(2), W(7)>>, !.flags = {"with-repos"}],
  [Line("refresh-services") EXCEPT !.args = <<W(5)>>, !.flags = {"with-repos"}] }

CleanLines == {
  Line("clean"),
  [Line("clean") EXCEPT !.args = <<W(2), W(3)>>, !.flags = {"all"}],
  [Line("clean") EXCEPT !.args = <<W(7)>>, !.flags = {"metadata"}],
  [Line("clean") EXCEPT !.flags = {"raw-metadata"}] }

EditLines == {
  [Line("addrepo") EXCEPT !.entries = <<CdEntry>>],
  [Line("addrepo") EXCEPT !.entries = <<Nameless, Entry7, CdEntry>>, !.flags = {"file", "no-check", "disable"}],
  [Line("removerepo") EXCEPT !.args = <<W(1), W(2)>>],
  [Line("removerepo") EXCEPT !.args = <<U(Http("p"))>>, !.flags = {"loose-query", "loose-auth"}],
  [Line("removerepo") EXCEPT !.flags = {"local"}],
  [Line("modifyrepo") EXCEPT !.args = <<W(3), W(7), W(2)>>, !.flags = {"enable"}],
  [Line("modifyrepo") EXCEPT !.args = <<U(HttpAuth("p")), W(2)>>, !.flags = {"enable"}, !.name = 1],
  [Line("modifyrepo") EXCEPT !.flags = {"all", "disable", "refresh"}],
  [Line("renamerepo") EXCEPT !.args = <<W(2), W(1)>>],
  [Line("renamerepo") EXCEPT !.args = <<W(2)>>],
  [Line("renamerepo") EXCEPT !.args = <<W(1), W(7)>>] }

ServiceLines == {
  [Line("addservice") EXCEPT !.entries = <<[Entry7 EXCEPT !.urls = <<Http("s")>>]>>],
  [Line("addservice") EXCEPT !.entries = <<[Entry7 EXCEPT !.alias = 5, !.urls = <<Http("s")>>]>>,
                             !.flags = {"no-refresh"}],
  [Line("removeservice") EXCEPT !.args = <<W(1), W(3)>>],
  [Line("modifyservice") EXCEPT !.args = <<W(1)>>, !.flags = {"disable"}],
  [Line("modifyservice") EXCEPT !.flags = {"remote", "enable", "no-refresh"}] }

MCCommandLines == RefreshLines \cup CleanLines \cup EditLines \cup ServiceLines

\* A repository in front of the service it does not belong to.
Services5 == { [Line("refresh-services") EXCEPT !.args = <<W(4), W(5)>>] }
=============================================================================
