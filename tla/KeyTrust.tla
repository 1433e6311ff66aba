------------------------------- MODULE KeyTrust -------------------------------
(***************************************************************************)
(* What zypper answers when libzypp asks whether to trust a key, a file or *)
(* a checksum (callbacks/keyring.h).  Every question is an operator: given *)
(* the options g of the process it is the set of answers that may come     *)
(* out, one when an option or --non-interactive decides, several when the  *)
(* user does.                                                              *)
(***************************************************************************)
EXTENDS Naturals, Sequences

\* The options the answers depend on: --non-interactive, --no-gpg-checks,
\* --gpg-auto-import-keys, root or --root (canimport), --replacefiles, and
\* whether rpm runs one transaction for everything.
Options ==
  [unattended : BOOLEAN, noGpgChecks : BOOLEAN, autoImport : BOOLEAN,
   canImport : BOOLEAN, replaceFiles : BOOLEAN, singleTrans : BOOLEAN]

\* get_prompt_reply: the index of the default when nobody is asked, else any.
Replies(g, letters, default) ==
  IF g.unattended THEN {default} ELSE 0 .. Len(letters) - 1

\* read_bool_answer
BoolAnswers(g, default) ==
  { i = 0 : i \in Replies(g, <<"yes", "no">>, IF default THEN 0 ELSE 1) }

\* read_action_ari with the default ABORT
AriAnswers(g) ==
  { <<"abort", "retry", "ignore">>[i + 1] : i \in Replies(g, <<"a", "r", "i">>, 0) }

AcceptUnsignedFile(g) == IF g.noGpgChecks THEN {TRUE} ELSE BoolAnswers(g, FALSE)

AcceptUnknownKey(g) == IF g.noGpgChecks THEN {TRUE} ELSE BoolAnswers(g, FALSE)

AcceptVerificationFailed(g) == IF g.noGpgChecks THEN {TRUE} ELSE BoolAnswers(g, FALSE)

\* The letters offered: reject, trust temporarily, trust always.
KeyLetters(g, canTrustTemporarily) ==
  IF ~canTrustTemporarily THEN <<"r", "a">>
  ELSE IF g.canImport THEN <<"r", "t", "a">> ELSE <<"r", "t">>

\* What the index of the reply means.
KeyMeaning(canTrustTemporarily, i) ==
  CASE i = 0 -> "reject"
    [] i = 1 -> IF canTrustTemporarily THEN "temporarily" ELSE "import"
    [] OTHER -> "import"

\* Slip: an import is offered to a user who may not write the rpm database.
SlipAcceptKey(g, canTrustTemporarily) ==
  IF g.autoImport THEN {[trust |-> "import", letter |-> "none"]}
  ELSE IF g.noGpgChecks THEN {[trust |-> "import", letter |-> "none"]}
  ELSE { [trust |-> KeyMeaning(canTrustTemporarily, i),
          letter |-> KeyLetters(g, canTrustTemporarily)[i + 1]]
         : i \in Replies(g, KeyLetters(g, canTrustTemporarily), 0) }

\* askUserToAcceptKey: the decision, with the letter the user typed, if any.
AcceptKey(g, canTrustTemporarily) ==
  IF g.autoImport THEN {[trust |-> "import", letter |-> "none"]}
  ELSE IF g.noGpgChecks /\ canTrustTemporarily THEN {[trust |-> "temporarily", letter |-> "none"]}
  ELSE IF ~g.canImport /\ ~canTrustTemporarily THEN {[trust |-> "reject", letter |-> "none"]}
  ELSE { [trust |-> KeyMeaning(canTrustTemporarily, i),
          letter |-> KeyLetters(g, canTrustTemporarily)[i + 1]]
         : i \in Replies(g, KeyLetters(g, canTrustTemporarily), 0) }

\* askUserToAcceptPackageKey: a package key is imported or not, never trusted
\* for the moment only.
AcceptPackageKey(g) ==
  { [trust |-> d.trust = "import", letter |-> d.letter] : d \in AcceptKey(g, FALSE) }

\* The checksum of a file: missing, of an unknown kind, or wrong.  A wrong one
\* is unblocked by typing its first characters, whatever the options say.
AcceptNoDigest(g) == BoolAnswers(g, g.noGpgChecks)

AcceptUnknownDigest(g) == BoolAnswers(g, g.noGpgChecks)

AcceptWrongDigest(g) ==
  { i = 0 : i \in Replies(g, <<"unblock", "discard">>, 1) }
=============================================================================
