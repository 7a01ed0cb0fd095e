------------------------------ MODULE JobLedger ------------------------------
(***************************************************************************)
(* What Workshop promises to the clients of the "jobs" table: "Workshop    *)
(* attempts to execute a job exactly once."  The ledger has one entry per  *)
(* job.  There are no rows, statements, connections or timers here;        *)
(* WorkshopCluster implements this specification.                          *)
(*                                                                         *)
(* An execution may be lost (its node dies, or cannot store the result).   *)
(* Such a job stays with its node until the cluster takes it away, and     *)
(* from then on the ledger promises nothing: it may be executed again.     *)
(***************************************************************************)
EXTENDS Naturals

CONSTANTS Jobs, Nodes, NULL

VARIABLE ledger

Phase == {"absent", "waiting", "executing", "lost", "done", "removed", "taken"}

Entry == [phase : Phase, executor : Nodes \cup {NULL}, executions : Nat]

NewEntry == [phase |-> "absent", executor |-> NULL, executions |-> 0]

\* The entry of a job that was taken away from a node.
TakenEntry == [phase |-> "taken", executor |-> NULL, executions |-> 0]

Insert(old, new) ==
  old.phase = "absent" /\ new = [old EXCEPT !.phase = "waiting"]

\* A node executes the job, or has taken it over without being able to.
Start(old, new) ==
  /\ old.phase = "waiting"
  /\ \E n \in Nodes, phase \in {"executing", "lost"} :
       new = [phase |-> phase, executor |-> n, executions |-> old.executions + 1]

\* The process asks to be executed again.
Return(old, new) ==
  old.phase = "executing" /\ new = [old EXCEPT !.phase = "waiting", !.executor = NULL]

\* The one way to a result is from an execution; the executor is remembered.
Finish(old, new) ==
  old.phase = "executing" /\ new = [old EXCEPT !.phase = "done"]

Lose(old, new) ==
  old.phase = "executing" /\ new = [old EXCEPT !.phase = "lost"]

Take(old, new) ==
  old.phase \in {"executing", "lost"} /\ new = TakenEntry

Remove(old, new) ==
  old.phase = "done" /\ new = [old EXCEPT !.phase = "removed"]

EntryStep(old, new) ==
  \/ Insert(old, new) \/ Start(old, new) \/ Return(old, new) \/ Finish(old, new)
  \/ Lose(old, new) \/ Take(old, new) \/ Remove(old, new)

Init == ledger = [j \in Jobs |-> NewEntry]

\* One statement may concern several jobs.
Next ==
  /\ ledger' \in [Jobs -> Entry]
  /\ \A j \in Jobs : ledger'[j] = ledger[j] \/ EntryStep(ledger[j], ledger'[j])

Spec == Init /\ [][Next]_ledger
=============================================================================
