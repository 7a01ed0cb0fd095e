----------------------------- MODULE CronCluster -----------------------------
(***************************************************************************)
(* The "cronjobs" table and the Cron partitions (CronQueue, CronPartition, *)
(* CronWorkplace) of the nodes that share it.                              *)
(*                                                                         *)
(* A node is single-threaded, but each of its SQL statements is a step of  *)
(* its own here: RunScheduler and RunClaim are interleaved with the        *)
(* statements of the other nodes and of the clients.  Nodes wake each      *)
(* other up with NOTIFY, which the rules of the table send.                *)
(*                                                                         *)
(* Time is abstract.  A next_run is in the future until it is due, a claim *)
(* is held until its node_timeout has passed, and a pending timer may fire *)
(* at any time.                                                            *)
(***************************************************************************)
EXTENDS Integers, FiniteSets

CONSTANTS
  Nodes,
  Jobs,
  Schedules,    \* the schedules: "periodic", "@once", "invalid" (it cannot be parsed)
  NULL,         \* SQL NULL
  Delays,       \* the values of the random delay of a periodic job
  MaxOperators, \* CronWorkplace::max_operators
  SlowJobs,     \* may a process outlive the 5 minutes of its claim?
  MaxEvents     \* bound: faults (crashes, lost connections, statements that fail) and
                \* changes (modifications of jobs, queues enabled or disabled)

\* A row as select_jobs_for_scheduling returned it.  "last" compares its last_run,
\* "current" its schedule, with the present ones.
ScheduleRow == [last    : {"null", "same", "old"},
                current : BOOLEAN,
                delay   : Delays \cup {0, NULL}]

\* A process, numbered to tell those of one job apart.
Process == Jobs \X (1..MaxOperators)

ASSUME CronAssumption ==
  /\ Schedules \subseteq {"periodic", "@once", "invalid"}
  /\ NULL \notin Nodes /\ NULL \notin Delays /\ NULL # 0
  /\ NULL \notin ScheduleRow
  /\ Delays # {} /\ MaxOperators \in Nat \ {0}
  /\ SlowJobs \in BOOLEAN
  /\ MaxEvents \in Nat

VARIABLES
  table,   \* the rows
  node,    \* the state of each node
  faults, changes

vars == <<table, node, faults, changes>>

DelaysOf(j) == IF table[j].schedule = "@once" THEN {0} ELSE Delays

(***************************************************************************)
(* A row.  "inserted" is false for a row that no client has written yet.   *)
(* "silent" is history: the job was enabled when it had a next_run, which  *)
(* no notify has announced since then.  "unheard" is history: it lost its  *)
(* next_run, or was enabled without one, while a node was executing it,    *)
(* and no rule sends a notify for that, nor for the end of the execution.  *)
(* A delay of NULL also stands for one whose delay_range does not match    *)
(* the schedule any more; both make the scheduler roll the dice.           *)
(***************************************************************************)
Row == [inserted  : BOOLEAN,
        enabled   : BOOLEAN,
        schedule  : Schedules \cup {"periodic"},
        next_run  : {"null", "future", "due", "infinity"},
        silent    : BOOLEAN,
        unheard   : BOOLEAN,
        last_run  : BOOLEAN,                    \* has it ever been set?
        delay     : Delays \cup {0, NULL},
        node_name : Nodes \cup {NULL},
        expired   : BOOLEAN]                    \* now() > node_timeout

\* "failed" and "orphaned" are history: which of its runs a statement has ended (since
\* the last such run), and the jobs it has claimed but could not start or finish,
\* because a statement failed on the present connection.
CronNode == [conn            : {"down", "off", "connecting", "ready"},
             enabled_state   : BOOLEAN,
             enabled_admin   : BOOLEAN,
             disabled_full   : BOOLEAN,
             mode            : {"idle", "scheduler", "schedule", "claim", "check", "job"},
             scheduler_timer : BOOLEAN,
             claim_timer     : BOOLEAN,
             notifies        : SUBSET {"cronjobs_modified", "cronjobs_scheduled"},
             rows            : [Jobs -> ScheduleRow \cup {NULL}],
             found           : Jobs \cup {NULL}, \* the row check_pending returned
             running         : SUBSET Process,
             failed          : SUBSET {"scheduler", "claim"},
             orphaned        : SUBSET Jobs]

NoRows == [j \in Jobs |-> NULL]

Free(r) == r.node_name = NULL
Ready(n) == node[n].conn = "ready"
IsEnabledOrFull(s) == s.enabled_state /\ s.enabled_admin
IsEnabled(s) == IsEnabledOrFull(s) /\ ~s.disabled_full

Running(j) == {x \in Nodes \X Process : x[2] \in node[x[1]].running /\ x[2][1] = j}

-----------------------------------------------------------------------------
(***************************************************************************)
(* SQL: the rules that send a NOTIFY, and the updates of more than one     *)
(* row.                                                                    *)
(***************************************************************************)

\* Mutant of Rules: there is no rule finish_cronjob.
MutFinishSilent(old, new, edited) ==
  {c \in {"cronjobs_modified", "cronjobs_scheduled"} :
     /\ new.enabled /\ Free(new)
     /\ \/ c = "cronjobs_modified" /\ (~old.enabled \/ edited)
        \/ /\ c = "cronjobs_scheduled"
           /\ new.next_run \in {"future", "due"} /\ old.next_run # new.next_run}

\* The rules new_cronjob, edit_cronjob and finish_cronjob, and schedule_cronjob.
Rules(old, new, edited) ==
  {c \in {"cronjobs_modified", "cronjobs_scheduled"} :
     /\ new.enabled /\ Free(new)
     /\ \/ /\ c = "cronjobs_modified"
           /\ \/ ~old.enabled \/ edited
              \/ new.next_run = "null" /\ old.next_run # "null"
        \/ /\ c = "cronjobs_scheduled"
           /\ new.next_run \in {"future", "due"} /\ old.next_run # new.next_run}

\* The nodes, given what they are otherwise after the step, hear of an update.
Notified(nodes, tab, edited) ==
  [n \in Nodes |->
     IF nodes[n].conn = "ready"
       THEN [nodes[n] EXCEPT !.notifies =
               @ \cup UNION {Rules(table[j], tab[j], j \in edited) : j \in Jobs}]
       ELSE nodes[n]]

release(r) == [r EXCEPT !.node_name = NULL, !.expired = FALSE, !.next_run = "null",
                        !.silent = FALSE]

\* Mutant of release_stale_where: a connecting node keeps its old claims.
MutNothingStale(r, n) == FALSE

release_stale_where(r, n) == r.node_name = n

expire_jobs_where(r, n) == r.node_name # NULL /\ r.node_name # n /\ r.expired

\* Mutant of claim_job_where: a claimed job can be claimed.
MutClaimTwice(r) == r.enabled

claim_job_where(r) == r.enabled /\ Free(r)

\* Mutant of finish_job_where: the owner of the claim is not compared.
MutFinishUnclaimed(r, n) == TRUE

finish_job_where(r, n) == r.node_name = n

\* Mutant of update_next_run_where: last_run is not compared.
MutAnyLastRun(r, row) == row.current /\ r.enabled /\ r.next_run = "null"

update_next_run_where(r, row) ==
  /\ row.current /\ (row.last = "same" \/ ~r.last_run)
  /\ r.enabled /\ r.next_run = "null"

make_random_delay_where(r, row) == row.current /\ r.enabled /\ r.next_run = "null"

\* The selected rows of all nodes no longer match the present last_run or schedule.
Outdated(nodes, j, finished, edited) ==
  [n \in Nodes |->
     IF nodes[n].rows[j] = NULL THEN nodes[n]
     ELSE [nodes[n] EXCEPT
             !.rows[j].last = IF finished /\ @ = "same" THEN "old" ELSE @,
             !.rows[j].current = @ /\ ~edited]]

-----------------------------------------------------------------------------
(***************************************************************************)
(* Clients and time.                                                       *)
(***************************************************************************)
InsertJob(j, schedule) ==
  /\ ~table[j].inserted
  /\ table' = [table EXCEPT ![j].inserted = TRUE, ![j].enabled = TRUE,
                            ![j].schedule = schedule]
  /\ node' = Notified(node, table', {})
  /\ UNCHANGED <<faults, changes>>

Change ==
  /\ faults + changes < MaxEvents
  /\ changes' = changes + 1

Editable(j) ==
  table[j].inserted /\ Change

SetEnabled(j) ==
  /\ Editable(j)
  /\ table' = [table EXCEPT ![j].enabled = ~@,
                            ![j].silent = @ \/ (~table[j].enabled /\ table[j].next_run # "null"),
                            ![j].unheard = IF table[j].enabled THEN @
                                           ELSE ~Free(table[j]) /\ table[j].next_run = "null"]
  /\ node' = Notified(node, table', {})
  /\ UNCHANGED faults

\* A new schedule, perhaps with another delay_range, perhaps clearing next_run.  A job
\* is not edited from "@once" to another schedule or back.
EditSchedule(j, schedule, delay, clear) ==
  /\ Editable(j) /\ delay \in {table[j].delay, NULL}
  /\ schedule = "@once" <=> table[j].schedule = "@once"
  /\ table' = [table EXCEPT ![j].schedule = schedule, ![j].delay = delay,
                            ![j].next_run = IF clear THEN "null" ELSE @,
                            ![j].silent = @ /\ ~clear,
                            ![j].unheard = /\ ~Free(table[j])
                                           /\ @ \/ (clear /\ table[j].next_run # "null")]
  /\ node' = Notified(Outdated(node, j, FALSE, TRUE), table', {j})
  /\ UNCHANGED faults

NextRunPasses(j) ==
  /\ table[j].next_run = "future"
  /\ table' = [table EXCEPT ![j].next_run = "due"]
  /\ UNCHANGED <<node, faults, changes>>

\* Five minutes after the claim.
NodeTimeoutPasses(j) ==
  /\ ~Free(table[j]) /\ ~table[j].expired
  /\ SlowJobs \/ \A k \in 1..MaxOperators : <<j, k>> \notin node[table[j].node_name].running
  /\ table' = [table EXCEPT ![j].expired = TRUE]
  /\ UNCHANGED <<node, faults, changes>>

ClientStep ==
  \/ \E j \in Jobs, schedule \in Schedules : InsertJob(j, schedule)
  \/ \E j \in Jobs : SetEnabled(j)
  \/ \E j \in Jobs, schedule \in Schedules, delay \in Delays \cup {0, NULL}, clear \in BOOLEAN :
       EditSchedule(j, schedule, delay, clear)
  \/ \E j \in Jobs : NextRunPasses(j)
  \/ \E j \in Jobs : NodeTimeoutPasses(j)

-----------------------------------------------------------------------------
(***************************************************************************)
(* The scheduler: RunScheduler and CalculateNextRun.                       *)
(***************************************************************************)

\* Expire runs at most once a minute.
RunScheduler(n, expire) ==
  LET taken == {j \in Jobs : expire /\ expire_jobs_where(table[j], n)}
  IN /\ Ready(n) /\ node[n].mode = "idle" /\ node[n].scheduler_timer
     /\ table' = [j \in Jobs |-> IF j \in taken THEN release(table[j]) ELSE table[j]]
     /\ node' = Notified([node EXCEPT ![n].scheduler_timer = FALSE, ![n].mode = "scheduler",
                                      ![n].failed = @ \ {"scheduler"}],
                         table', {})
     /\ UNCHANGED <<faults, changes>>

select_jobs_for_scheduling ==
  [j \in Jobs |->
     IF table[j].enabled /\ table[j].next_run = "null"
       THEN [last    |-> IF table[j].last_run THEN "same" ELSE "null",
             current |-> TRUE,
             delay   |-> table[j].delay]
       ELSE NULL]

\* If nothing needs to be scheduled, the scheduler waits for the next notify.
SelectJobsForScheduling(n) ==
  LET rows == select_jobs_for_scheduling
  IN /\ Ready(n) /\ node[n].mode = "scheduler"
     /\ node' = [node EXCEPT ![n].rows = rows,
                             ![n].mode = IF rows = NoRows THEN "idle" ELSE "schedule"]
     /\ UNCHANGED <<table, faults, changes>>

\* The schedule of a selected row can be parsed.  (One that is not current any more
\* loses the race if it can, and is dropped if it cannot.)
Parses(j, row) == row.current => table[j].schedule # "invalid"

\* The constructor of CronSchedule throws: the row is skipped, its next_run stays NULL.
ScheduleFails(n, j) ==
  LET row == node[n].rows[j]
  IN /\ node[n].mode = "schedule" /\ row # NULL /\ ~Parses(j, row)
     /\ node' = [node EXCEPT ![n].rows[j] = NULL]
     /\ UNCHANGED <<table, faults, changes>>

\* The new delay is written even if another scheduler is about to write one.
MakeRandomDelay(n, j, delay) ==
  LET row == node[n].rows[j]
  IN /\ node[n].mode = "schedule" /\ row # NULL /\ Parses(j, row)
     /\ row.delay = NULL /\ delay \in DelaysOf(j)
     /\ IF make_random_delay_where(table[j], row)
          THEN /\ table' = [table EXCEPT ![j].delay = delay]
               /\ node' = [node EXCEPT ![n].rows[j].delay = delay]
          ELSE /\ node' = [node EXCEPT ![n].rows[j] = NULL]   \* LostRace
               /\ UNCHANGED table
     /\ UNCHANGED <<faults, changes>>

\* CronSchedule::Next, as far as the table is concerned: "@once" jobs run now or
\* never again.
Next_run(j, row) ==
  IF table[j].schedule = "periodic" THEN "future" ELSE IF row.last = "null" THEN "due" ELSE "infinity"

UpdateNextRun(n, j) ==
  LET row == node[n].rows[j]
      done == [node EXCEPT ![n].rows[j] = NULL]
  IN /\ node[n].mode = "schedule" /\ row # NULL /\ Parses(j, row) /\ row.delay # NULL
     /\ IF update_next_run_where(table[j], row)
          THEN /\ table' = [table EXCEPT ![j].next_run = Next_run(j, row), ![j].unheard = FALSE]
               /\ node' = Notified(done, table', {})
          ELSE /\ node' = done                                \* LostRace
               /\ UNCHANGED table
     /\ UNCHANGED <<faults, changes>>

\* CalculateNextRun has seen rows, so the scheduler will look again.
EndScheduler(n) ==
  /\ node[n].mode = "schedule" /\ node[n].rows = NoRows
  /\ node' = [node EXCEPT ![n].mode = "idle", ![n].scheduler_timer = TRUE]
  /\ UNCHANGED <<table, faults, changes>>

-----------------------------------------------------------------------------
(***************************************************************************)
(* Claiming: RunClaim, CheckPending and CronPartition::OnJob.              *)
(***************************************************************************)
RunClaim(n) ==
  /\ Ready(n) /\ node[n].mode = "idle" /\ node[n].claim_timer
  /\ node' = [node EXCEPT ![n].claim_timer = FALSE, ![n].failed = @ \ {"claim"},
                          ![n].mode = IF IsEnabled(node[n]) THEN "claim" ELSE "idle"]
  /\ UNCHANGED <<table, faults, changes>>

Pending(j, when) == table[j].enabled /\ Free(table[j]) /\ table[j].next_run = when

\* Without a pending job, no timer is set.  A next_run which is less than a second
\* away counts as due.
FindEarliestPending(n) ==
  /\ node[n].mode = "claim"
  /\ \/ /\ \A j \in Jobs : ~Pending(j, "due") /\ ~Pending(j, "future")
        /\ node' = [node EXCEPT ![n].mode = "idle"]
     \/ /\ \A j \in Jobs : ~Pending(j, "due")
        /\ \E j \in Jobs : Pending(j, "future")
        /\ node' = [node EXCEPT ![n].mode = "idle", ![n].claim_timer = TRUE]
     \/ /\ \E j \in Jobs : Pending(j, "due") \/ Pending(j, "future")
        /\ node' = [node EXCEPT ![n].mode = "check"]
  /\ UNCHANGED <<table, faults, changes>>

\* Mutant of CheckPending: RunClaim ends without ScheduleClaim.
MutNoClaimScheduled(n) ==
  /\ node[n].mode = "check"
  /\ \/ \E j \in Jobs :
          /\ Pending(j, "due")
          /\ node' = [node EXCEPT ![n].mode = "job", ![n].found = j]
     \/ /\ \A j \in Jobs : ~Pending(j, "due")
        /\ node' = [node EXCEPT ![n].mode = "idle"]
  /\ UNCHANGED <<table, faults, changes>>

CheckPending(n) ==
  /\ node[n].mode = "check"
  /\ \/ \E j \in Jobs :
          /\ Pending(j, "due")
          /\ node' = [node EXCEPT ![n].mode = "job", ![n].found = j]
     \/ /\ \A j \in Jobs : ~Pending(j, "due")
        /\ node' = [node EXCEPT ![n].mode = "idle", ![n].claim_timer = TRUE]
  /\ UNCHANGED <<table, faults, changes>>

claim_job(j, n) ==
  [table EXCEPT ![j].node_name = n, ![j].expired = FALSE]

IsFull(processes) == Cardinality(processes) >= MaxOperators

NewProcess(n, j) ==
  <<j, CHOOSE k \in 1..MaxOperators : <<j, k>> \notin node[n].running>>

\* CronQueue::Claim succeeds and CronWorkplace::Start follows.  A full workplace
\* ends the loop of RunClaim.
Claim(n) ==
  LET j == node[n].found
      p == NewProcess(n, j)
      full == IsFull(node[n].running \cup {p})
  IN /\ node[n].mode = "job" /\ claim_job_where(table[j])
     /\ table' = claim_job(j, n)
     /\ node' = [node EXCEPT ![n].running = @ \cup {p}, ![n].found = NULL,
                             ![n].orphaned = @ \ {j},
                             ![n].disabled_full = @ \/ full,
                             ![n].claim_timer = full,
                             ![n].mode = IF full THEN "idle" ELSE "claim"]
     /\ UNCHANGED <<faults, changes>>

\* "Lost race to run job".
ClaimMiss(n) ==
  /\ node[n].mode = "job" /\ ~claim_job_where(table[node[n].found])
  /\ node' = [node EXCEPT ![n].found = NULL, ![n].mode = "claim"]
  /\ UNCHANGED <<table, faults, changes>>

-----------------------------------------------------------------------------
(***************************************************************************)
(* The other handlers.                                                     *)
(***************************************************************************)
\* Mutant of OnNotify: "cronjobs_scheduled" is not handled.
MutScheduledIgnored(n, name) ==
  /\ node[n].mode = "idle" /\ name \in node[n].notifies
  /\ node' = [node EXCEPT ![n].notifies = @ \ {name},
                          ![n].scheduler_timer = @ \/ name = "cronjobs_modified"]
  /\ UNCHANGED <<table, faults, changes>>

OnNotify(n, name) ==
  /\ node[n].mode = "idle" /\ name \in node[n].notifies
  /\ node' = [node EXCEPT ![n].notifies = @ \ {name},
                          ![n].scheduler_timer = @ \/ name = "cronjobs_modified",
                          ![n].claim_timer = @ \/ name = "cronjobs_scheduled"]
  /\ UNCHANGED <<table, faults, changes>>

\* LISTEN, ReleaseStale, and both timers.
OnConnect(n) ==
  LET taken == {j \in Jobs : release_stale_where(table[j], n)}
  IN /\ node[n].conn = "connecting"
     /\ table' = [j \in Jobs |-> IF j \in taken THEN release(table[j]) ELSE table[j]]
     /\ node' = Notified([node EXCEPT ![n].conn = "ready", ![n].scheduler_timer = TRUE,
                                      ![n].claim_timer = TRUE],
                         table', {})
     /\ UNCHANGED <<faults, changes>>

\* What is left of a node when its connection is gone.
Disconnected(s) ==
  [s EXCEPT !.conn = "connecting", !.mode = "idle", !.scheduler_timer = FALSE,
            !.claim_timer = FALSE, !.notifies = {}, !.rows = NoRows, !.found = NULL,
            !.failed = {}, !.orphaned = {}]

Fault ==
  /\ faults + changes < MaxEvents
  /\ faults' = faults + 1

OnDisconnect(n) ==
  /\ Ready(n) /\ Fault
  /\ node' = [node EXCEPT ![n] = Disconnected(@)]
  /\ UNCHANGED <<table, changes>>

\* The connection breaks after claim_job was executed, before its answer arrives or
\* before CronQueue::GetNow: the job is claimed but does not run.
ClaimAnswerLost(n) ==
  LET j == node[n].found
  IN /\ node[n].mode = "job" /\ claim_job_where(table[j]) /\ Fault
     /\ table' = claim_job(j, n)
     /\ node' = [node EXCEPT ![n] = Disconnected(@)]
     /\ UNCHANGED changes

Crash(n) ==
  /\ node[n].conn # "down" /\ Fault
  /\ node' = [node EXCEPT ![n] = [Disconnected(@) EXCEPT !.conn = "down", !.running = {},
                                                         !.disabled_full = FALSE]]
  /\ UNCHANGED <<table, changes>>

(***************************************************************************)
(* Statements that fail although the connection lives.                     *)
(***************************************************************************)
\* RunScheduler and RunClaim end without setting their timer again.  CalculateNextRun
\* skips the row; Claim returns false, and RunClaim goes on.
StatementFails(n) ==
  /\ Fault
  /\ \/ /\ node[n].mode = "scheduler"
        /\ node' = [node EXCEPT ![n].mode = "idle", ![n].failed = @ \cup {"scheduler"}]
     \/ /\ node[n].mode \in {"claim", "check"}
        /\ node' = [node EXCEPT ![n].mode = "idle", ![n].failed = @ \cup {"claim"}]
     \/ \E j \in Jobs :
          /\ node[n].mode = "schedule" /\ node[n].rows[j] # NULL
          /\ node' = [node EXCEPT ![n].rows[j] = NULL]
     \/ /\ node[n].mode = "job"
        /\ node' = [node EXCEPT ![n].mode = "claim", ![n].found = NULL]
  /\ UNCHANGED <<table, changes>>

\* CronQueue::GetNow fails: CronWorkplace::Start throws, and CronPartition::OnJob leaves
\* the claim as it is.
StartFails(n) ==
  LET j == node[n].found
  IN /\ node[n].mode = "job" /\ claim_job_where(table[j]) /\ Fault
     /\ table' = claim_job(j, n)
     /\ node' = [node EXCEPT ![n].mode = "claim", ![n].found = NULL,
                             ![n].orphaned = @ \cup {j}]
     /\ UNCHANGED changes

(***************************************************************************)
(* The end of a process, and the switches of the queue.                    *)
(***************************************************************************)
CheckEnabled(s) ==
  IF IsEnabled(s)
    THEN [s EXCEPT !.conn = IF @ = "off" THEN "connecting" ELSE @,
                   !.claim_timer = @ \/ s.conn = "ready"]
    ELSE [s EXCEPT !.conn = IF @ = "connecting" THEN "off" ELSE @]

\* CronPartition::OnChildProcessExit: EnableFull, if there is a free slot again.
ProcessGone(s, p) ==
  LET t == [s EXCEPT !.running = @ \ {p}]
  IN IF s.disabled_full /\ ~IsFull(t.running)
       THEN CheckEnabled([t EXCEPT !.disabled_full = FALSE])
       ELSE t

\* The process ends, is killed or cannot be started: SetResult, which calls Finish, then
\* CronWorkplace::OnCompletion.  Finish fails without a connection, and may fail with one.
OnCompletion(n, p) ==
  LET j == p[1]
      match == finish_job_where(table[j], n)
      gone == [node EXCEPT ![n] = ProcessGone(@, p)]
  IN /\ node[n].mode = "idle" /\ p \in node[n].running
     /\ \/ /\ Ready(n) /\ match
           /\ table' = [table EXCEPT ![j] = [release(@) EXCEPT !.last_run = TRUE]]
           /\ node' = Notified(Outdated(gone, j, TRUE, FALSE), table', {})
           /\ UNCHANGED faults
        \/ /\ ~Ready(n) \/ ~match
           /\ node' = gone
           /\ UNCHANGED <<table, faults>>
        \/ /\ Ready(n) /\ match /\ Fault
           /\ node' = [gone EXCEPT ![n].orphaned = @ \cup {j}]
           /\ UNCHANGED table
     /\ UNCHANGED changes

\* Instance::Start: enabled_state is loaded; an enabled queue connects.
Restart(n, enabled) ==
  /\ node[n].conn = "down"
  /\ node' = [node EXCEPT ![n].conn = IF enabled THEN "connecting" ELSE "off",
                          ![n].enabled_state = enabled, ![n].enabled_admin = TRUE]
  /\ UNCHANGED <<table, faults, changes>>

Switched(n, s) ==
  /\ node[n].conn # "down" /\ node[n].mode = "idle" /\ Change
  /\ node' = [node EXCEPT ![n] = s]
  /\ UNCHANGED <<table, faults>>

SetStateEnabled(n) ==
  Switched(n, CheckEnabled([node[n] EXCEPT !.enabled_state = ~@]))

EnableAdmin(n) ==
  /\ ~node[n].enabled_admin
  /\ Switched(n, CheckEnabled([node[n] EXCEPT !.enabled_admin = TRUE]))

\* The connection stays, or goes on being made.
DisableAdmin(n) ==
  /\ node[n].enabled_admin
  /\ Switched(n, [node[n] EXCEPT !.enabled_admin = FALSE])

SchedulerStep(n) ==
  \/ \E expire \in BOOLEAN : RunScheduler(n, expire)
  \/ SelectJobsForScheduling(n) \/ EndScheduler(n)
  \/ \E j \in Jobs, delay \in Delays \cup {0} : MakeRandomDelay(n, j, delay)
  \/ \E j \in Jobs : UpdateNextRun(n, j) \/ ScheduleFails(n, j)

ClaimStep(n) ==
  RunClaim(n) \/ FindEarliestPending(n) \/ CheckPending(n) \/ Claim(n) \/ ClaimMiss(n)

NodeStep(n) ==
  \/ SchedulerStep(n) \/ ClaimStep(n)
  \/ \E name \in {"cronjobs_modified", "cronjobs_scheduled"} : OnNotify(n, name)
  \/ \E p \in Process : OnCompletion(n, p)
  \/ OnConnect(n) \/ OnDisconnect(n) \/ ClaimAnswerLost(n) \/ Crash(n)
  \/ StatementFails(n) \/ StartFails(n)
  \/ \E enabled \in BOOLEAN : Restart(n, enabled)
  \/ SetStateEnabled(n) \/ EnableAdmin(n) \/ DisableAdmin(n)

Init ==
  /\ table = [j \in Jobs |->
                [inserted |-> FALSE, enabled |-> FALSE, schedule |-> "periodic",
                 next_run |-> "null", silent |-> FALSE, unheard |-> FALSE,
                 last_run |-> FALSE, delay |-> NULL, node_name |-> NULL, expired |-> FALSE]]
  /\ node = [n \in Nodes |->
               [conn |-> "connecting", enabled_state |-> TRUE, enabled_admin |-> TRUE,
                disabled_full |-> FALSE, mode |-> "idle", scheduler_timer |-> FALSE,
                claim_timer |-> FALSE, notifies |-> {}, rows |-> NoRows, found |-> NULL,
                running |-> {}, failed |-> {}, orphaned |-> {}]]
  /\ faults = 0 /\ changes = 0

Next == ClientStep \/ \E n \in Nodes : NodeStep(n)

Spec == Init /\ [][Next]_vars

-----------------------------------------------------------------------------
(***************************************************************************)
(* Properties.                                                             *)
(***************************************************************************)

\* The claim of a connected node is backed by a process of the job: a claim that nobody
\* works on keeps the job from all nodes.  Neither a crash nor a lost answer leaves
\* such a claim, because connecting releases it.  What does is a statement that fails
\* on the present connection (orphaned): GetNow after the claim, or finish_job.
ReadyNodeRunsItsClaims ==
  \A j \in Jobs, n \in Nodes :
    Ready(n) /\ table[j].node_name = n /\ j \notin node[n].orphaned =>
      \E p \in node[n].running : p[1] = j

\* Unless a node loses its claim to a fault or to the five minute limit, no two
\* processes of a job run at the same time, on whatever nodes.
SingleProcess ==
  ~SlowJobs /\ faults = 0 => \A j \in Jobs : Cardinality(Running(j)) <= 1

\* An "@once" job that has finished is not scheduled again, however many
\* schedulers have seen its row before it was executed.
OnceNotRescheduled ==
  \A j \in Jobs : table[j].schedule = "@once" /\ table[j].last_run =>
    table[j].next_run \in {"null", "infinity"}

\* A job without next_run is seen by the scheduler of every connected node: no
\* scheduler goes to sleep between the update of a row and its notify.  The exceptions:
\* a scheduler whose latest run has failed sets no timer, and a job which has lost its
\* next_run while it was running is not announced (unheard).
SchedulerWakeup ==
  \A j \in Jobs, n \in Nodes :
    /\ table[j].enabled /\ table[j].next_run = "null" /\ ~table[j].unheard
    /\ Ready(n) /\ "scheduler" \notin node[n].failed
    => \/ node[n].scheduler_timer \/ "cronjobs_modified" \in node[n].notifies
       \/ node[n].mode \in {"scheduler", "schedule"}

\* Every connected node which may claim jobs has a claim run ahead of it while a job
\* is pending: "disable the timer, and wait for the next PostgreSQL notify"
\* (FindEarliestPending) relies on that notify.  The exceptions: no such notify is sent
\* for a job which is enabled when it has a next_run already (silent), and a claim run
\* that has failed sets no timer.
ClaimWakeup ==
  \A j \in Jobs, n \in Nodes :
    /\ (Pending(j, "due") \/ Pending(j, "future")) /\ ~table[j].silent
    /\ Ready(n) /\ IsEnabled(node[n]) /\ "claim" \notin node[n].failed
    => \/ node[n].claim_timer \/ "cronjobs_scheduled" \in node[n].notifies
       \/ node[n].mode \in {"claim", "check", "job"}

\* The node which has claimed the job runs a process of it.
ClaimRuns(j) ==
  \E n \in Nodes : table[j].node_name = n /\ \E p \in node[n].running : p[1] = j

PhaseOf(j) ==
  IF ~table[j].inserted THEN "absent"
  ELSE IF Free(table[j]) THEN "idle"
  ELSE IF ClaimRuns(j) THEN "executing" ELSE "lost"

EntryOf(j) == [phase    |-> PhaseOf(j),
               executor |-> table[j].node_name,
               executed |-> table[j].last_run]

LedgerOf == [j \in Jobs |-> EntryOf(j)]

Ledger == INSTANCE CronLedger WITH ledger <- LedgerOf

\* CronCluster implements CronLedger: a node claims only what belongs to no other node,
\* last_run is written only while that node has a process of the job (whichever process
\* of the node stores its result), and a claim without a process never gets one back.
ImplementsLedger == Ledger!Spec

\* Time passes; a run comes to its end, unless its node crashes; a node which has lost its
\* connection connects again.  Every event loop serves, between its other events, each
\* timer that is due, each notify and each process that exits (and processes do exit): none
\* of these stays pending for ever.  Nothing is assumed of crashed nodes.
Fairness ==
  /\ \A j \in Jobs : WF_vars(NextRunPasses(j)) /\ WF_vars(NodeTimeoutPasses(j))
  /\ \A n \in Nodes :
       /\ WF_vars(node[n].mode # "idle" /\ (SchedulerStep(n) \/ ClaimStep(n)))
       /\ WF_vars(OnConnect(n))
       /\ []<>~node[n].scheduler_timer /\ []<>~node[n].claim_timer
       /\ \A name \in {"cronjobs_modified", "cronjobs_scheduled"} :
            []<>(name \notin node[n].notifies)
       /\ \A p \in Process : []<>(p \notin node[n].running)

FairSpec == Spec /\ Fairness

\* A node that keeps serving its queue: it does not stay down, switched off, or asleep
\* after a run that failed.
Serves(n) == node[n].conn # "down" /\ IsEnabledOrFull(node[n]) /\ node[n].failed = {}

\* A periodic job is executed again and again if a node keeps serving, whatever happens to
\* the other one.  The exceptions are changes that nobody is told of, and a claim which
\* stays lost: only a scheduler that runs for another reason releases it.
PeriodicJobsRun ==
  \A j \in Jobs :
    /\ <>[](/\ table[j].enabled /\ table[j].schedule = "periodic"
            /\ ~table[j].silent /\ ~table[j].unheard)
    /\ \E n \in Nodes : <>[]Serves(n)
    => []<>(Running(j) # {}) \/ <>[](PhaseOf(j) = "lost")
=============================================================================
