----------------------------- MODULE MCRepoInit -----------------------------
(***************************************************************************)
(* RepoInit for TLC.  Two known repositories and a temporary one, all with *)
(* autorefresh (--no-refresh turns it off): one can fail after another was *)
(* skipped; and a third known one, on a medium that --no-cd excludes.  Of  *)
(* the known ones --plus-content names r2 and has a keyword for the rest.  *)
(* Four commands are what it takes to skip one repository, break off the   *)
(* next try, to trip over what is left, and to go on from there.           *)
(***************************************************************************)
EXTENDS RepoInit

CONSTANTS r1, r2, r3, t1, nosuch

Line(cmd) == [NoLine EXCEPT !.cmd = cmd]

MCKnown == <<r1, r2, r3>>
MCTemp == <<t1>>
All == {r1, r2, t1}
OnlyR2 == {r2}
OnlyR3 == {r3}
MCUnknown == nosuch

MCLines == {
  Line("install"),
  [Line("install") EXCEPT !.only = <<r3, nosuch>>],
  Line("remove"),
  Line("dist-upgrade"),
  [Line("dist-upgrade") EXCEPT !.only = <<r2>>],
  [Line("search") EXCEPT !.installedOnly = TRUE] }
=============================================================================
