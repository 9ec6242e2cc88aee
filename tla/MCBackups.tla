----------------------------- MODULE MCBackups -----------------------------
(***************************************************************************)
(* Instances of Backups.  A day has two moments: 03:30, when AutoBackup    *)
(* runs, and the evening after 20:26, whose HHMMSS no longer sorts before  *)
(* a YYYYMMDD of 2026.                                                     *)
(***************************************************************************)
EXTENDS Backups

BeforeEvening == {0}
=============================================================================
