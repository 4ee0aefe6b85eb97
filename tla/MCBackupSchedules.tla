-------------------------- MODULE MCBackupSchedules --------------------------
(***************************************************************************)
(* Model checking of BackupSchedules.  Processes, rows and requests are    *)
(* interchangeable model values.                                           *)
(***************************************************************************)
EXTENDS BackupSchedules, TLC

Symmetry == Permutations(Instances) \cup Permutations(Targets)
            \cup Permutations(Schedules) \cup Permutations(Requests)
=============================================================================
