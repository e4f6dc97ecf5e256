---------------------------- MODULE MCFTPTransfer ----------------------------
(* Two transfers of one control channel, for TLC. *)
EXTENDS FTPTransfer

MCMaxTransfers == 2
MCMaxCommands == 3
=============================================================================
