--------------------------- MODULE MCBackupWatch ---------------------------
(* Small instances of BackupWatch for TLC. *)
EXTENDS BackupWatch, TLC
=============================================================================
