--------------------------- MODULE MCExitControl ---------------------------
(***************************************************************************)
(* ExitControl for TLC.  Three signals are enough for a polite and an      *)
(* insistent request after an earlier request was taken back; one command  *)
(* typed at the shell prompt is enough for what a command leaves behind to *)
(* reach the prompt (two, for it to reach the next command).  The Preload  *)
(* and Auth receivers behave like Download, minus problem().               *)
(***************************************************************************)
EXTENDS ExitControl

CONSTANTS u1, u2, none

MCReceivers == {"MediaChange", "Download"}
OneUrl == {u1}
TwoUrls == {u1, u2}
MCNoUrl == none
=============================================================================
