---------------------------- MODULE JobLifecycle ----------------------------
(***************************************************************************)
(* What the job store promises about every encoding job, independent of    *)
(* caches, files, threads and processes (web/job_store.py):                *)
(*                                                                         *)
(*     pending -> running -> done | failed                                 *)
(*                                                                         *)
(* A job is pending from the moment it is created, a finished job is never *)
(* run again, and only a finished job is ever removed.                     *)
(***************************************************************************)
CONSTANT Jobs           \* the uuid4 job ids
VARIABLE status         \* "unused" before the id is drawn, "deleted" after cleanup

States   == {"pending", "running", "done", "failed"}
Terminal == {"done", "failed"}

TypeOK == status \in [Jobs -> States \cup {"unused", "deleted"}]

Init == status = [j \in Jobs |-> "unused"]

Move(j, from, to) ==
  /\ status[j] = from
  /\ status' = [status EXCEPT ![j] = to]

Create(j) == Move(j, "unused", "pending")
Begin(j)  == Move(j, "pending", "running")
End(j)    == \E result \in Terminal : Move(j, "running", result)

\* Maintenance removes any number of finished jobs at once.
Purge ==
  \E S \in SUBSET {j \in Jobs : status[j] \in Terminal} :
    status' = [j \in Jobs |-> IF j \in S THEN "deleted" ELSE status[j]]

Next == Purge \/ \E j \in Jobs : Create(j) \/ Begin(j) \/ End(j)

Spec == Init /\ [][Next]_status
=============================================================================
