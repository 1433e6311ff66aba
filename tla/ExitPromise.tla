---------------------------- MODULE ExitPromise ----------------------------
(***************************************************************************)
(* What zypper promises to a user who presses CTRL-C, without the flags,   *)
(* callbacks and prompts that implement it:                                *)
(*                                                                         *)
(*  - a request is either a polite one (level 1) or an insistent one       *)
(*    (level 2); it may be withdrawn while the program runs;               *)
(*  - while the program is protected (a download is in progress) only an   *)
(*    insistent request makes it leave, unprotected a polite one is enough *)
(*  - once it is leaving it does nothing but clean up and report how it    *)
(*    was stopped: 8 when a transaction was cut short, 105 otherwise.      *)
(*                                                                         *)
(* The module ExitControl is shown to implement this specification.        *)
(***************************************************************************)
EXTENDS Naturals

VARIABLES level,      \* 0: no request, 1: polite, 2: insistent
          protected,  \* whether a polite request has to wait
          risky,      \* whether leaving now has to be reported as 8
          life,       \* "running", "leaving" or "gone"
          code        \* exit status once gone, 0 before

pvars == <<level, protected, risky, life, code>>

PromiseInit ==
  /\ level = 0
  /\ protected = FALSE
  /\ risky = FALSE
  /\ life = "running"
  /\ code = 0

\* A signal raises the level, whatever the program is doing.
Insist ==
  /\ life # "gone"
  /\ level' \in {1, 2}
  /\ level' >= level
  /\ UNCHANGED <<protected, risky, life, code>>

\* The program gets on with its work and may take a request back.
Proceed ==
  /\ life = "running"
  /\ level' \in {0, level}
  /\ protected' \in BOOLEAN
  /\ risky' \in BOOLEAN
  /\ UNCHANGED <<life, code>>

\* A request is obeyed.
Leave ==
  /\ life = "running"
  /\ level = 2 \/ (level = 1 /\ ~protected)
  /\ life' = "leaving"
  /\ UNCHANGED <<level, protected, risky, code>>

\* The clean up is over and the process reports why it ended.
Vanish ==
  /\ life = "leaving"
  /\ life' = "gone"
  /\ code' = IF risky THEN 8 ELSE 105
  /\ UNCHANGED <<level, protected, risky>>

\* The program reaches its end without being told to leave.
Return ==
  /\ life = "running"
  /\ ~protected
  /\ life' = "gone"
  /\ code' \in Nat \ {105}
  /\ UNCHANGED <<level, protected, risky>>

PromiseNext == Insist \/ Proceed \/ Leave \/ Vanish \/ Return

PromiseSpec == PromiseInit /\ [][PromiseNext]_pvars
=============================================================================
