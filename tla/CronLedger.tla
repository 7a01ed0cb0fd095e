----------------------------- MODULE CronLedger -----------------------------
(***************************************************************************)
(* What Workshop promises to the clients of the "cronjobs" table: a job    *)
(* belongs to at most one node at a time, and it counts as executed only   *)
(* by the end of an execution under such a claim.  There are no rows,      *)
(* timers, notifies or processes here; CronCluster implements this         *)
(* specification.                                                          *)
(*                                                                         *)
(* An execution may be lost (its node dies, or cannot store the result).   *)
(* The job stays with that node until the cluster takes it away.           *)
(***************************************************************************)
CONSTANTS Jobs, Nodes, NULL

VARIABLE ledger   \* per job: its phase, its executor, and if it ever came to its end

NewEntry == [phase |-> "absent", executor |-> NULL, executed |-> FALSE]

Insert(old, new) ==
  old.phase = "absent" /\ new = [old EXCEPT !.phase = "idle"]

\* A node executes the job, or has claimed it without being able to.
Start(old, new) ==
  /\ old.phase = "idle"
  /\ \E n \in Nodes, phase \in {"executing", "lost"} :
       new = [phase |-> phase, executor |-> n, executed |-> old.executed]

Finish(old, new) ==
  /\ old.phase = "executing"
  /\ new = [phase |-> "idle", executor |-> NULL, executed |-> TRUE]

Lose(old, new) ==
  old.phase = "executing" /\ new = [old EXCEPT !.phase = "lost"]

\* Its executor connects again, or has exceeded the time limit.
Take(old, new) ==
  /\ old.phase \in {"executing", "lost"}
  /\ new = [phase |-> "idle", executor |-> NULL, executed |-> old.executed]

EntryStep(old, new) ==
  \/ Insert(old, new) \/ Start(old, new) \/ Finish(old, new)
  \/ Lose(old, new) \/ Take(old, new)

Init == ledger = [j \in Jobs |-> NewEntry]

\* One statement, or the death of a node, may concern several jobs.
Next ==
  /\ DOMAIN ledger' = Jobs
  /\ \A j \in Jobs : ledger'[j] = ledger[j] \/ EntryStep(ledger[j], ledger'[j])

Spec == Init /\ [][Next]_ledger
=============================================================================
