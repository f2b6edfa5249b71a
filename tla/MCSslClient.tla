---------------------------- MODULE MCSslClient ----------------------------
(***************************************************************************)
(* An instance of SslClient for TLC.                                        *)
(***************************************************************************)
EXTENDS SslClient

CONSTANTS f1, f2
=============================================================================
