---------------------------- MODULE MCSelfUpdate ----------------------------
(***************************************************************************)
(* Small instances of SelfUpdate: up to three builds, one of them perhaps  *)
(* broken, and a probe every eight minutes, longer than a trial, a stale   *)
(* marker or an upgrade.                                                   *)
(***************************************************************************)
EXTENDS SelfUpdate

CONSTANTS v1, v2, v3
=============================================================================
