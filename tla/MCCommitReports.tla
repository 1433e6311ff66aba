--------------------------- MODULE MCCommitReports ---------------------------
(***************************************************************************)
(* CommitReports for TLC: two packages to install, one to remove.  The     *)
(* processes below differ in one option each from a plain one that runs    *)
(* unattended or attended.                                                 *)
(***************************************************************************)
EXTENDS CommitReports

CONSTANTS a, b, r

MCPackages == {a, b}
MCObsolete == {r}

Plain == [unattended |-> FALSE, noGpgChecks |-> FALSE, autoImport |-> FALSE,
          canImport |-> TRUE, replaceFiles |-> FALSE, singleTrans |-> FALSE]

MCConfigs == {
  Plain,
  [Plain EXCEPT !.singleTrans = TRUE],
  [Plain EXCEPT !.canImport = FALSE],
  [Plain EXCEPT !.noGpgChecks = TRUE, !.canImport = FALSE],
  [Plain EXCEPT !.unattended = TRUE],
  [Plain EXCEPT !.unattended = TRUE, !.autoImport = TRUE, !.singleTrans = TRUE],
  [Plain EXCEPT !.unattended = TRUE, !.noGpgChecks = TRUE, !.replaceFiles = TRUE] }
=============================================================================
