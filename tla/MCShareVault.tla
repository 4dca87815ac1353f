---------------------------- MODULE MCShareVault ----------------------------
(***************************************************************************)
(* ShareVault on a small scale, for TLC.                                   *)
(***************************************************************************)
EXTENDS ShareVault

MCValues == {-1, 4}
=============================================================================
