------------------------------- MODULE MCLsp -------------------------------
(***************************************************************************)
(* Instances of LspSession for TLC.                                        *)
(***************************************************************************)
EXTENDS LspSession, TLC

CONSTANTS d1, d2

MCUris == {d1, d2}
MCFileUris == {d1}
MCCrashing == {<<d1, 2>>}
=============================================================================
