----------------------------- MODULE MCChatTurn -----------------------------
(***************************************************************************)
(* Small instances of ChatTurn for TLC: three turns let a stale error of   *)
(* the first re-open the composer under the second, and the third follow.  *)
(***************************************************************************)
EXTENDS ChatTurn
=============================================================================
