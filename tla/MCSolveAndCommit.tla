-------------------------- MODULE MCSolveAndCommit --------------------------
(***************************************************************************)
(* SolveAndCommit for TLC.  Two commands in a row show what the first one  *)
(* leaves behind; the command lines below each bring in one option or one  *)
(* kind of command that changes the control flow, the solutions every      *)
(* distinction solve_and_commit makes.                                     *)
(***************************************************************************)
EXTENDS SolveAndCommit

CONSTANTS a, s, t, p1, p2, none

Line(cmd) == [NoLine EXCEPT !.cmd = cmd]

MCPatches == {p1, p2}
MCThings == {a}
MCSources == {s, t}
MCNoPlan == none
NoForce == {}

MCLines == {
  [Line("install") EXCEPT !.marks = {a}],
  [Line("install") EXCEPT !.marks = {a}, !.missing = TRUE],
  [Line("install") EXCEPT !.force = "yes", !.agree = TRUE],
  [Line("remove") EXCEPT !.marks = {a}, !.clean = "yes", !.missing = TRUE],
  [Line("remove") EXCEPT !.marks = {a}],
  [Line("removeptf") EXCEPT !.marks = {a}, !.dry = "dry-run"],
  Line("update"),
  [Line("patch") EXCEPT !.skipBad = TRUE, !.marks = {a}],
  [Line("patch") EXCEPT !.rules = TRUE, !.force = "no"],
  Line("verify"),
  [Line("dist-upgrade") EXCEPT !.debug = TRUE],
  [Line("dist-upgrade") EXCEPT !.dry = "dry-run"],
  [Line("source-install") EXCEPT !.srcs = {s, t}, !.dry = "download-only"] }

Sol(gets, removes, patch, license, kernel) ==
  [gets |-> gets, removes |-> removes, patch |-> patch, license |-> license, kernel |-> kernel]

MCSolutions == {
  Sol(FALSE, FALSE, "none", FALSE, FALSE),
  Sol(TRUE, TRUE, "none", FALSE, TRUE),
  Sol(TRUE, FALSE, "restart", TRUE, FALSE),
  Sol(TRUE, FALSE, "reboot", FALSE, FALSE) }
=============================================================================
