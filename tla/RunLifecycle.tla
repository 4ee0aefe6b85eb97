---------------------------- MODULE RunLifecycle ----------------------------
(***************************************************************************)
(* What the job queue promises the reader of backup_runs and restore_runs  *)
(* when one API process works on them: a run is submitted once, is claimed *)
(* once, and settles once as completed or failed; a settled run never      *)
(* changes again.  The one exception is a restore, which forgets every run *)
(* but itself, because it replaces the database the runs are recorded in.  *)
(* A run whose outcome cannot be recorded after a restore is forgotten.    *)
(***************************************************************************)
CONSTANTS BackupIds, RestoreIds

VARIABLE state

Runs    == BackupIds \cup RestoreIds
Settled == {"completed", "failed"}
States  == {"unborn", "pending", "running", "gone"} \cup Settled

Init == state = [r \in Runs |-> "unborn"]

Move(r, from, to) ==
    /\ state[r] = from
    /\ state' = [state EXCEPT ![r] = to]

Submit(r)   == Move(r, "unborn", "pending")
Claim(r)    == Move(r, "pending", "running")
Complete(r) == Move(r, "running", "completed")
Forget(r)   == Move(r, "running", "gone")

(* One run fails, or all that were interrupted together do.                *)
Fail(S) ==
    /\ S # {} /\ \A r \in S : state[r] = "running"
    /\ state' = [r \in Runs |-> IF r \in S THEN "failed" ELSE state[r]]

(* A running restore replaces the database.                                *)
Replace(r) ==
    /\ state[r] = "running"
    /\ state' = [q \in Runs |-> IF q = r \/ state[q] = "unborn" THEN state[q]
                                                                ELSE "gone"]

Next ==
    \/ \E r \in Runs : Submit(r) \/ Claim(r) \/ Complete(r) \/ Forget(r)
    \/ \E S \in SUBSET Runs : Fail(S)
    \/ \E r \in RestoreIds : Replace(r)

Spec == Init /\ [][Next]_state
=============================================================================
