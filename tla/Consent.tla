------------------------------ MODULE Consent ------------------------------
(***************************************************************************)
(* What zypper promises about a transaction, without solver, prompts and   *)
(* options:                                                                *)
(*                                                                         *)
(*  - nothing is executed but the plan that was offered last, after it was *)
(*    accepted and its licenses were agreed to;                            *)
(*  - an offer can be reconsidered, but not once it is accepted;           *)
(*  - a command that was refused, or whose transaction failed, ends with   *)
(*    an error verdict.                                                    *)
(*                                                                         *)
(* The module SolveAndCommit is shown to implement this specification.     *)
(***************************************************************************)
CONSTANTS Plans, NoPlan

VARIABLES stage,     \* "planning", "offered", "accepted", "executed" or "over"
          offer,     \* the plan put to the user, or NoPlan
          executed,  \* the plan that was carried out, or NoPlan
          failed,    \* whether it was refused or went wrong
          verdict    \* "none" before the end, then "success" or "error"

cvars == <<stage, offer, executed, failed, verdict>>

ConsentInit ==
  /\ stage = "over"
  /\ offer = NoPlan
  /\ executed = NoPlan
  /\ failed = FALSE
  /\ verdict = "none"

\* A new command; it may be found wanting at once.
Begin ==
  /\ stage = "over"
  /\ stage' \in {"planning", "executed"}
  /\ offer' = NoPlan
  /\ executed' = NoPlan
  /\ failed' = FALSE
  /\ verdict' = "none"

Offer ==
  /\ stage = "planning"
  /\ stage' = "offered"
  /\ offer' \in Plans
  /\ UNCHANGED <<executed, failed, verdict>>

\* "Show me another one."
Reconsider ==
  /\ stage = "offered"
  /\ stage' = "planning"
  /\ offer' = NoPlan
  /\ UNCHANGED <<executed, failed, verdict>>

Accept ==
  /\ stage = "offered"
  /\ stage' = "accepted"
  /\ UNCHANGED <<offer, executed, failed, verdict>>

\* No plan could be found or none was wanted.
Refuse ==
  /\ stage \in {"planning", "offered", "accepted"}
  /\ stage' = "executed"
  /\ failed' \in BOOLEAN
  /\ stage # "planning" => failed'
  /\ UNCHANGED <<offer, executed, verdict>>

\* Carried out, whether with success or not.
Execute ==
  /\ stage = "accepted"
  /\ stage' = "executed"
  /\ executed' = offer
  /\ failed' \in BOOLEAN
  /\ UNCHANGED <<offer, verdict>>

\* The end of the command.  What follows the transaction (source packages) may
\* fail as well.
Report ==
  /\ stage = "executed"
  /\ stage' = "over"
  /\ verdict' \in {"success", "error"}
  /\ failed => verdict' = "error"
  /\ UNCHANGED <<offer, executed, failed>>

ConsentNext == Begin \/ Offer \/ Reconsider \/ Accept \/ Refuse \/ Execute \/ Report

ConsentSpec == ConsentInit /\ [][ConsentNext]_cvars
=============================================================================
