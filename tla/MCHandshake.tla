---------------------------- MODULE MCHandshake ----------------------------
(***************************************************************************)
(* Handshake for TLC: exchanges on two connections, the one a client began *)
(* with and the one it has after a reconnect.                              *)
(***************************************************************************)
EXTENDS Handshake
=============================================================================
