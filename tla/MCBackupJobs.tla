---------------------------- MODULE MCBackupJobs ----------------------------
(***************************************************************************)
(* Model checking of BackupJobs.  The instances and the run identifiers    *)
(* are model values given in the configurations; a backup and a restore    *)
(* are never exchanged, instances and identifiers of one table may be.     *)
(***************************************************************************)
EXTENDS BackupJobs, TLC

Symmetry == Permutations(Instances) \cup Permutations(BackupIds)
            \cup Permutations(RestoreIds)
=============================================================================
