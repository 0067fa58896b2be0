------------------------------- MODULE MCAccess -------------------------------
(***************************************************************************)
(* Small instances of Access for TLC.                                      *)
(***************************************************************************)
EXTENDS Access
=============================================================================
