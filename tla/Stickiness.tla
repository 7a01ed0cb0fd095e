----------------------------- MODULE Stickiness -----------------------------
(***************************************************************************)
(* Sticky jobs: every node publishes a Zeroconf service while its queue is *)
(* enabled, and keeps a map of the services it has heard of.  A job with a *)
(* sticky_id is executed on the node that rendezvous hashing chooses from  *)
(* that map.  The ids which belong to other nodes are remembered in the    *)
(* temporary table sticky_non_local of the node's database connection, and *)
(* rows with such an id are not selected any more.  A Workshop queue also  *)
(* selects only the plans its library offers, and the owner of a job is    *)
(* chosen without asking whether it has the plan.                          *)
(*                                                                         *)
(* The maps of two nodes differ while Zeroconf has not told them the news, *)
(* and the table is a cache of decisions that depend on the map.  A full   *)
(* queue, which stays published, is in WorkshopNode and CronCluster.       *)
(***************************************************************************)
EXTENDS Naturals, FiniteSets

CONSTANTS
  Nodes,
  Jobs,       \* jobs with a sticky_id
  Ids,        \* the values of sticky_id
  StickyId,   \* the sticky_id of each job
  Plans,
  PlanName,   \* the plan_name of each job; a cron job has none, which does not matter
  Score,      \* the rendezvous score of an id on a node
  MaxChanges  \* bound: how often queues and filters change and statements fail

ASSUME StickinessAssumption ==
  /\ StickyId \in [Jobs -> Ids]
  /\ PlanName \in [Jobs -> Plans]
  /\ Score \in [Ids -> [Nodes -> Nat]]
  /\ \A id \in Ids : \A m, n \in Nodes : Score[id][m] = Score[id][n] => m = n
  /\ {"absent", "waiting"} \cap Nodes = {}
  /\ MaxChanges \in Nat

VARIABLES
  kind,      \* is this the queue of a Workshop or of a cron partition?
  job,       \* per job: "absent", "waiting", or the node that has claimed it
  enabled,   \* per node: IsEnabledOrFull, and so is the service published
  plans,     \* per node: the plans that the filter of the queue lets through
  ready,     \* per node: is the database connected?
  nodes,     \* per node: StickyManager::nodes
  changed,   \* per node: nodes has changed since OnAvahiAllForNow
  sticky_non_local,  \* per node: the temporary table
  stale,     \* history, per node: the table could not be emptied after a change
  timer,     \* per node: the timer of the next queue run is pending
  failed,    \* history, per node: a queue run has failed and left no timer
  rows,      \* per node: selected rows the queue run still has to look at
  changes    \* history: the changes so far

map == <<nodes, changed>>
table == <<sticky_non_local, stale>>
wakeup == <<timer, failed>>

vars == <<kind, job, enabled, plans, ready, map, table, wakeup, rows, changes>>

Published == {n \in Nodes : enabled[n]}

\* Nothing else of a node happens during a queue run.
Idle(n) == rows[n] = {}

\* Something that happens only so often.
Change == changes < MaxChanges /\ changes' = changes + 1

\* Reschedule or ScheduleClaim on these nodes.
Reschedule(some) ==
  /\ timer' = [n \in Nodes |-> timer[n] \/ n \in some]
  /\ failed' = [n \in Nodes |-> failed[n] /\ n \notin some]

-----------------------------------------------------------------------------
(***************************************************************************)
(* StickyManager.                                                          *)
(***************************************************************************)
Best(members, id) == CHOOSE m \in members : \A l \in members : Score[id][l] <= Score[id][m]

\* Mutant: do not compare the scores.
MutIsLocal(n, id) == nodes[n] = {} \/ n \in nodes[n]

\* With no or one entry, the job is regarded as local.
IsLocal(n, id) ==
  IF Cardinality(nodes[n]) <= 1 THEN TRUE ELSE Best(nodes[n], id) = n

\* The daemons have started.  A state file may have disabled a queue, and the library
\* of a Workshop node may offer any of the plans.
Init ==
  /\ kind \in {"workshop", "cron"}
  /\ job = [j \in Jobs |-> "absent"]
  /\ enabled \in [Nodes -> BOOLEAN]
  /\ plans \in [Nodes -> IF kind = "workshop" THEN SUBSET Plans ELSE {Plans}]
  /\ ready = [n \in Nodes |-> FALSE]
  /\ nodes = [n \in Nodes |-> {}]
  /\ changed = [n \in Nodes |-> FALSE]
  /\ sticky_non_local = [n \in Nodes |-> {}]
  /\ stale = [n \in Nodes |-> FALSE]
  /\ timer = [n \in Nodes |-> FALSE]
  /\ failed = [n \in Nodes |-> FALSE]
  /\ rows = [n \in Nodes |-> {}]
  /\ changes = 0

\* Zeroconf reports a service that has appeared, maybe the node's own one.
OnAvahiNewObject(n, m) ==
  /\ Idle(n) /\ m \in Published \ nodes[n]
  /\ nodes' = [nodes EXCEPT ![n] = @ \cup {m}]
  /\ changed' = [changed EXCEPT ![n] = TRUE]
  /\ UNCHANGED <<kind, job, enabled, plans, ready, table, wakeup, rows, changes>>

OnAvahiRemoveObject(n, m) ==
  /\ Idle(n) /\ m \in nodes[n] \ Published
  /\ nodes' = [nodes EXCEPT ![n] = @ \ {m}]
  /\ changed' = [changed EXCEPT ![n] = TRUE]
  /\ UNCHANGED <<kind, job, enabled, plans, ready, table, wakeup, rows, changes>>

\* Mutant: a change leaves the table alone.
MutNoFlush(n) == UNCHANGED <<table, changes>>

\* Without a connection there is no table.  If the TRUNCATE fails and the connection
\* survives, the table stays as it is and nobody tries again before the next change.
FlushSticky(n) ==
  \/ ~ready[n] /\ UNCHANGED <<table, changes>>
  \/ /\ ready[n]
     /\ sticky_non_local' = [sticky_non_local EXCEPT ![n] = {}]
     /\ stale' = [stale EXCEPT ![n] = FALSE]
     /\ UNCHANGED changes
  \/ /\ ready[n] /\ Change
     /\ stale' = [stale EXCEPT ![n] = TRUE]
     /\ UNCHANGED sticky_non_local

\* The end of a batch of changes.  No queue run is scheduled.
OnAvahiAllForNow(n) ==
  /\ Idle(n) /\ changed[n]
  /\ changed' = [changed EXCEPT ![n] = FALSE]
  /\ FlushSticky(n)
  /\ UNCHANGED <<kind, job, enabled, plans, ready, nodes, wakeup, rows>>

-----------------------------------------------------------------------------
(***************************************************************************)
(* Clients, the administrator, the plan library and the connection.        *)
(***************************************************************************)
Connected == {n \in Nodes : ready[n]}

\* The notify reaches every connected node: "new_job", "cronjobs_scheduled".
InsertJob(j) ==
  /\ job[j] = "absent"
  /\ job' = [job EXCEPT ![j] = "waiting"]
  /\ Reschedule(Connected)
  /\ UNCHANGED <<kind, enabled, plans, ready, map, table, rows, changes>>

\* A notify that another job has caused.
OnNotify ==
  /\ Reschedule(Connected)
  /\ UNCHANGED <<kind, job, enabled, plans, ready, map, table, rows, changes>>

\* Mutant: enabling the queue does not schedule a run.
MutSwitchSilently(n) ==
  /\ Idle(n) /\ Change
  /\ enabled' = [enabled EXCEPT ![n] = ~@]
  /\ UNCHANGED <<kind, job, plans, ready, map, table, wakeup, rows>>

\* The queue is enabled (CheckEnabled) or disabled, by a control packet, a state
\* file, the start or the shutdown of the daemon; EnableDisableSticky follows.
SwitchQueue(n) ==
  /\ Idle(n) /\ Change
  /\ enabled' = [enabled EXCEPT ![n] = ~@]
  /\ Reschedule(IF enabled'[n] /\ ready[n] THEN {n} ELSE {})
  /\ UNCHANGED <<kind, job, plans, ready, map, table, rows>>

\* UpdateFilter: plans have come, gone, hit or left their rate or concurrency limit.
\* A queue run that is under way is interrupted and comes again.
SetFilter(n, offered) ==
  /\ kind = "workshop" /\ offered # plans[n] /\ Change
  /\ plans' = [plans EXCEPT ![n] = offered]
  /\ rows' = [rows EXCEPT ![n] = {}]
  /\ Reschedule(IF ready[n] THEN {n} ELSE {})
  /\ UNCHANGED <<kind, job, enabled, ready, map, table>>

\* StickyTable::Init creates the empty table.  A cron queue that is disabled does
\* not connect.
OnConnect(n) ==
  /\ ~ready[n] /\ (kind = "cron" => enabled[n])
  /\ ready' = [ready EXCEPT ![n] = TRUE]
  /\ Reschedule({n})
  /\ UNCHANGED <<kind, job, enabled, plans, map, table, rows, changes>>

\* The temporary table is gone with the connection.
OnDisconnect(n) ==
  /\ ready[n] /\ Change
  /\ ready' = [ready EXCEPT ![n] = FALSE]
  /\ sticky_non_local' = [sticky_non_local EXCEPT ![n] = {}]
  /\ stale' = [stale EXCEPT ![n] = FALSE]
  /\ timer' = [timer EXCEPT ![n] = FALSE]
  /\ failed' = [failed EXCEPT ![n] = FALSE]
  /\ rows' = [rows EXCEPT ![n] = {}]
  /\ UNCHANGED <<kind, job, enabled, plans, map>>

-----------------------------------------------------------------------------
(***************************************************************************)
(* The queue run.                                                          *)
(***************************************************************************)
Selectable(n) ==
  {j \in Jobs : /\ job[j] = "waiting"
                /\ PlanName[j] \in plans[n]
                /\ StickyId[j] \notin sticky_non_local[n]}

\* A Workshop queue selects up to LIMIT rows, in one query for the plans that do not
\* run yet and one for the others, a cron queue one row at a time.
SelectJobs(n) ==
  /\ Idle(n) /\ ready[n] /\ timer[n] /\ enabled[n]
  /\ \E selected \in SUBSET Selectable(n) :
       /\ selected # {}
       /\ kind = "cron" => Cardinality(selected) = 1
       /\ rows' = [rows EXCEPT ![n] = selected]
  /\ UNCHANGED <<kind, job, enabled, plans, ready, map, table, wakeup, changes>>

\* Nothing is left to do.  A Workshop queue runs again after 600 seconds at the
\* latest, unless it knows no plan at all; plans is also empty if each of them is
\* excluded.  A cron queue waits for the next notify.  A disabled queue does not run.
RunEnds(n) ==
  /\ Idle(n) /\ ready[n] /\ timer[n]
  /\ enabled[n] => Selectable(n) = {}
  /\ timer' \in {[timer EXCEPT ![n] = again] : again \in BOOLEAN}
  /\ timer'[n] => enabled[n] /\ kind = "workshop"
  /\ enabled[n] /\ kind = "workshop" /\ plans[n] # {} => timer'[n]
  /\ UNCHANGED <<kind, job, enabled, plans, ready, map, table, failed, rows, changes>>

\* A statement of the run fails and the connection survives: Run and RunClaim leave
\* no timer behind.
RunFails(n) ==
  /\ ready[n] /\ timer[n] /\ enabled[n] /\ Change
  /\ timer' = [timer EXCEPT ![n] = FALSE]
  /\ failed' = [failed EXCEPT ![n] = TRUE]
  /\ rows' = [rows EXCEPT ![n] = {}]
  /\ UNCHANGED <<kind, job, enabled, plans, ready, map, table>>

\* A row is passed over: GetWorkshopPlan cannot load the plan any more, or the INSERT
\* of the id or the claim of a cron job fails and the connection survives.
SkipJob(n, j) ==
  /\ j \in rows[n] /\ Change
  /\ rows' = [rows EXCEPT ![n] = @ \ {j}]
  /\ UNCHANGED <<kind, job, enabled, plans, ready, map, table, wakeup>>

\* CheckWorkshopJob or OnJob refuses the job.  For the second job with this id the
\* unique index refuses the INSERT, which changes nothing.
InsertStickyNonLocal(n, j) ==
  /\ j \in rows[n] /\ ~IsLocal(n, StickyId[j])
  /\ sticky_non_local' = [sticky_non_local EXCEPT ![n] = @ \cup {StickyId[j]}]
  /\ rows' = [rows EXCEPT ![n] = @ \ {j}]
  /\ UNCHANGED <<kind, job, enabled, plans, ready, map, stale, wakeup, changes>>

\* The job is claimed, unless another node has claimed it.
ClaimJob(n, j) ==
  /\ j \in rows[n] /\ IsLocal(n, StickyId[j])
  /\ job' = [job EXCEPT ![j] = IF @ = "waiting" THEN n ELSE @]
  /\ rows' = [rows EXCEPT ![n] = @ \ {j}]
  /\ UNCHANGED <<kind, enabled, plans, ready, map, table, wakeup, changes>>

NodeStep(n) ==
  \/ SwitchQueue(n) \/ OnConnect(n) \/ OnDisconnect(n)
  \/ SelectJobs(n) \/ RunEnds(n) \/ RunFails(n) \/ OnAvahiAllForNow(n)
  \/ \E offered \in SUBSET Plans : SetFilter(n, offered)
  \/ \E m \in Nodes : OnAvahiNewObject(n, m)
  \/ \E m \in Nodes : OnAvahiRemoveObject(n, m)
  \/ \E j \in Jobs : SkipJob(n, j)
  \/ \E j \in Jobs : InsertStickyNonLocal(n, j)
  \/ \E j \in Jobs : ClaimJob(n, j)

Next ==
  \/ OnNotify
  \/ \E j \in Jobs : InsertJob(j)
  \/ \E n \in Nodes : NodeStep(n)

\* A connection is re-established, Zeroconf reports what has changed and ends each
\* batch, and timers fire.
Fairness ==
  \A n \in Nodes :
    /\ WF_vars(OnConnect(n))
    /\ WF_vars(\E m \in Nodes : OnAvahiNewObject(n, m) \/ OnAvahiRemoveObject(n, m))
    /\ WF_vars(OnAvahiAllForNow(n))
    /\ WF_vars(SelectJobs(n) \/ RunEnds(n)
               \/ \E j \in Jobs : InsertStickyNonLocal(n, j) \/ ClaimJob(n, j))

Spec == Init /\ [][Next]_vars /\ Fairness
-----------------------------------------------------------------------------
(***************************************************************************)
(* Properties.                                                             *)
(***************************************************************************)

\* The table never hides a job that belongs to this node: once the changes of a
\* batch are complete and FlushSticky has not failed, every remembered id is one that
\* IsLocal still refuses.
NonLocalSound ==
  \A n \in Nodes : ~changed[n] /\ ~stale[n] =>
    \A id \in sticky_non_local[n] : ~IsLocal(n, id)

\* Every node that takes part has heard of exactly the published services.
Settled == \A n \in Published : nodes[n] = Published

\* While the nodes agree about who takes part, a job is only claimed on the one node
\* with the best score; in particular all jobs with one sticky_id go there.
ClaimedByOwner ==
  [][Settled => \A j \in Jobs, n \in Nodes :
       job[j] = "waiting" /\ job'[j] = n => n = Best(Published, StickyId[j])]_vars

\* What a sticky job needs: some queue stays enabled, and in the end every enabled
\* node offers the plan, for IsLocal chooses the owner without asking who does.
MayRun(j) ==
  /\ \E n \in Nodes : <>[]enabled[n]
  /\ \A n \in Nodes : <>[](enabled[n] => PlanName[j] \in plans[n])

\* What the code leaves to chance: a notify after a queue run that failed (and before
\* each run of a cron queue), another change after a TRUNCATE that failed.
Recovers(n) ==
  /\ []<>(IF kind = "cron" THEN timer[n] \/ ~enabled[n] ELSE ~failed[n])
  /\ []<>~stale[n]

\* A sticky job that may run is claimed in the end, however often ownership, filters
\* and connections have changed before.
StickyJobTaken ==
  (\A n \in Nodes : Recovers(n)) =>
    \A j \in Jobs : MayRun(j) => (job[j] = "waiting" ~> job[j] # "waiting")
=============================================================================
