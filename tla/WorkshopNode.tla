----------------------------- MODULE WorkshopNode -----------------------------
(***************************************************************************)
(* One Workshop node: WorkshopQueue, WorkshopPartition and                 *)
(* WorkshopWorkplace.  The rest of the cluster, the clients, the plan      *)
(* files and the child processes are its environment.                      *)
(*                                                                         *)
(* The daemon has one thread, so no handler runs while a queue run is in   *)
(* progress; the database changes under it nevertheless, which is why a    *)
(* run (BeginRun, one TryRow per row, SelectLowprio, EndRun) is not one    *)
(* step.  The partition is one without sticky jobs.  What stale operators   *)
(* of other nodes do to the table is the subject of WorkshopCluster.       *)
(***************************************************************************)
EXTENDS Integers, FiniteSets

CONSTANTS
  Jobs,         \* the rows of the table; a smaller number is selected first
  Plans,
  PlanOf,       \* the plan of each job
  Concurrency,  \* Plan::concurrency of each plan; 0 means no limit
  RatePlans,    \* the plans with a rate limit
  NotifyPlans,  \* the plans with the setting notify_progress
  MaxOperators, \* WorkshopWorkplace::max_operators
  RowLimit,     \* MAX_JOBS, the LIMIT of select_new_jobs
  PlanFilesChange, \* may plan files come and go?
  MaxDisconnects, \* bound: lost database connections and failed statements
  MaxEvents     \* bound: administrative events, repeated and returned jobs

ASSUME NodeAssumption ==
  /\ Jobs \subseteq Nat /\ IsFiniteSet(Jobs)
  /\ PlanOf \in [Jobs -> Plans]
  /\ Concurrency \in [Plans -> Nat]
  /\ RatePlans \subseteq Plans /\ NotifyPlans \subseteq Plans
  /\ MaxOperators \in Nat \ {0} /\ RowLimit \in Nat \ {0}
  /\ PlanFilesChange \in BOOLEAN
  /\ MaxDisconnects \in Nat /\ MaxEvents \in Nat

VARIABLES
  table,         \* database: what became of each job
  hit,           \* database: plans whose rate limit is reached
  loadable,      \* file system: plans that can be loaded
  available,     \* Library: the plans it believes to be available
  ready,         \* WorkshopQueue::db is connected
  notified,      \* a NOTIFY new_job has not been handled yet
  timer,         \* WorkshopQueue::timer_event
  enabled_state, enabled_admin, disabled_full,
  running,       \* no queue run, or which of its two SELECTs is being worked on
  interrupt,
  rows,          \* the rows of that SELECT which have not been tried yet
  more,          \* a SELECT of this run has returned RowLimit rows
  plans_include, plans_exclude, plans_lowprio,
  rate_limited,  \* WorkshopPartition::rate_limited_plans
  operators,     \* WorkshopWorkplace::operators, as pairs of a job and a number
  progress_plans, progress_timer, \* progress_notify_plans, progress_notify_timer
  refused,       \* history: plans whose jobs the latest run could not examine
  disconnects, events

dbVars == <<table, hit>>
enableVars == <<enabled_state, enabled_admin, disabled_full>>
runVars == <<running, rows, more, refused>>
filterVars == <<plans_include, plans_exclude, plans_lowprio, rate_limited>>
progressVars == <<progress_plans, progress_timer>>
boundVars == <<disconnects, events>>

vars == <<dbVars, loadable, available, ready, notified, timer, enableVars, runVars,
          interrupt, filterVars, operators, progressVars, boundVars>>

(***************************************************************************)
(* In the table a job is "new" (not inserted yet), "waiting" without a     *)
(* scheduled_time, "scheduled" for a later time, "due" because that time   *)
(* has passed, "mine" or "other" while this or another node executes it,   *)
(* or "done".  A job that was put back counts as one without               *)
(* scheduled_time, for which no timer is set.                              *)
(***************************************************************************)
IsEnabled == enabled_state /\ enabled_admin /\ ~disabled_full

PlansOf(ops) == {PlanOf[o[1]] : o \in ops}

\* Mutant of IsFull: one operator too many.
MutFullTooLate(ops) == Cardinality(ops) = MaxOperators + 1

IsFull(ops) == Cardinality(ops) = MaxOperators

GetRunningPlanNames(ops) == PlansOf(ops)

GetFullPlanNames(ops) ==
  {p \in PlansOf(ops) : /\ Concurrency[p] # 0
                        /\ Cardinality({o \in ops : PlanOf[o[1]] = p}) >= Concurrency[p]}

\* The new operator of a job.  After a reconnect a job may have several.
NewOperator(j) ==
  <<j, CHOOSE k \in 1..MaxOperators : <<j, k>> \notin operators>>

\* Mutant of UpdateFilter: a change of plans_exclude goes unnoticed.
MutExcludeUnnoticed(avail, limited, ops, reschedule) ==
  /\ \E expired \in SUBSET limited : rate_limited' = limited \ expired
  /\ plans_include' = avail \ rate_limited'
  /\ plans_exclude' = GetFullPlanNames(ops)
  /\ plans_lowprio' = GetRunningPlanNames(ops)
  /\ LET changed == plans_include' # plans_include
     IN /\ interrupt' = (interrupt \/ (changed /\ running # "no"))
        /\ timer' = IF reschedule \/ (changed /\ running = "no" /\ ready)
                      THEN "soon" ELSE timer

(***************************************************************************)
(* WorkshopPartition::UpdateFilter and WorkshopQueue::SetFilter.  "limited" *)
(* are the entries of rate_limited_plans before the call; some of them may *)
(* have expired.  With reschedule, the caller itself has asked for a run.  *)
(***************************************************************************)
UpdateFilter(avail, limited, ops, reschedule) ==
  /\ \E expired \in SUBSET limited : rate_limited' = limited \ expired
  /\ plans_include' = avail \ rate_limited'
  /\ plans_exclude' = GetFullPlanNames(ops)
  /\ plans_lowprio' = GetRunningPlanNames(ops)
  /\ LET changed == plans_include' # plans_include \/ plans_exclude' # plans_exclude
     IN /\ interrupt' = (interrupt \/ (changed /\ running # "no"))
        /\ timer' = IF reschedule \/ (changed /\ running = "no" /\ ready)
                      THEN "soon" ELSE timer

\* Instance::UpdateLibraryAndFilter.  An unforced update may skip the directory.  A
\* plan that cannot be loaded any more does not count as a modification, a new one
\* that cannot be loaded does.  (See NewPlansReported of PlanLibrary.)
UpdateLibraryAndFilter(force, ops, reschedule) ==
  \E avail \in {available, loadable}, modified \in BOOLEAN :
    /\ force => avail = loadable
    /\ modified => PlanFilesChange
    /\ ~modified => avail \subseteq available
    /\ available' = avail
    /\ UpdateFilter(avail, IF modified THEN {} ELSE rate_limited, ops, reschedule)

-----------------------------------------------------------------------------
(***************************************************************************)
(* The environment.                                                        *)
(***************************************************************************)
NodeVars == <<ready, timer, enableVars, runVars, interrupt, filterVars,
              operators, progressVars>>

\* A client inserts a job; the table's rule sends a NOTIFY.
InsertJob(j, state) ==
  /\ table[j] = "new"
  /\ table' = [table EXCEPT ![j] = state]
  /\ notified' = ready
  /\ UNCHANGED <<hit, loadable, available, NodeVars, boundVars>>

ScheduledTimePasses(j) ==
  /\ table[j] = "scheduled"
  /\ table' = [table EXCEPT ![j] = "due"]
  /\ UNCHANGED <<hit, loadable, available, notified, NodeVars, boundVars>>

OtherNodeClaims(j) ==
  /\ table[j] \in {"waiting", "due"}
  /\ table' = [table EXCEPT ![j] = "other"]
  /\ hit' = hit \cup ({PlanOf[j]} \cap RatePlans)
  /\ UNCHANGED <<loadable, available, notified, NodeVars, boundVars>>

OtherNodeDone(j) ==
  /\ table[j] = "other"
  /\ table' = [table EXCEPT ![j] = "done"]
  /\ UNCHANGED <<hit, loadable, available, notified, NodeVars, boundVars>>

\* Another node puts a job back, with a NOTIFY: again, rollback, release, or because
\* the claim has expired, which may be the claim of this node.
OtherNodeReturns(j, state) ==
  /\ table[j] = "other" \/ (table[j] = "mine" /\ state = "waiting")
  /\ events < MaxEvents
  /\ table' = [table EXCEPT ![j] = state]
  /\ notified' = ready
  /\ events' = events + 1
  /\ UNCHANGED <<hit, loadable, available, NodeVars, disconnects>>

RateIntervalPasses(p) ==
  /\ p \in hit
  /\ hit' = hit \ {p}
  /\ UNCHANGED <<table, loadable, available, notified, NodeVars, boundVars>>

PlanFileChanges(p) ==
  /\ PlanFilesChange /\ events < MaxEvents
  /\ loadable' = IF p \in loadable THEN loadable \ {p} ELSE loadable \cup {p}
  /\ events' = events + 1
  /\ UNCHANGED <<dbVars, available, notified, NodeVars, disconnects>>

\* The time passes for which a plan that could not be loaded is disabled; no handler
\* takes notice of it.
PlanDisableExpires(p) ==
  /\ p \notin available
  /\ available' = available \cup {p}
  /\ UNCHANGED <<dbVars, loadable, notified, NodeVars, boundVars>>

Environment ==
  \/ \E j \in Jobs, state \in {"waiting", "scheduled"} : InsertJob(j, state)
  \/ \E j \in Jobs : ScheduledTimePasses(j)
  \/ \E j \in Jobs : OtherNodeClaims(j)
  \/ \E j \in Jobs : OtherNodeDone(j)
  \/ \E j \in Jobs, state \in {"waiting", "scheduled"} : OtherNodeReturns(j, state)
  \/ \E p \in Plans : RateIntervalPasses(p)
  \/ \E p \in Plans : PlanFileChanges(p)
  \/ \E p \in Plans : PlanDisableExpires(p)

-----------------------------------------------------------------------------
(***************************************************************************)
(* The queue run.                                                          *)
(***************************************************************************)
select_new_jobs(include, exclude) ==
  LET found == {j \in Jobs : /\ table[j] \in {"waiting", "due"}
                             /\ PlanOf[j] \in include /\ PlanOf[j] \notin exclude}
  IN {j \in found : Cardinality({k \in found : k < j}) < RowLimit}

\* WorkshopQueue::OnTimer, Run and Run2 up to the first SELECT.
BeginRun ==
  /\ timer # "none" /\ running = "no"
  /\ timer' = "none"
  /\ IF IsEnabled /\ plans_include # {}
       THEN /\ running' = "first"
            /\ interrupt' = FALSE
            /\ rows' = select_new_jobs(plans_include, plans_exclude \cup plans_lowprio)
            /\ more' = (Cardinality(rows') = RowLimit)
            /\ refused' = {}
       ELSE UNCHANGED <<runVars, interrupt>>
  /\ UNCHANGED <<dbVars, loadable, available, ready, notified, enableVars, filterVars,
                 operators, progressVars, boundVars>>

NextRow(j) ==
  /\ running # "no" /\ IsEnabled /\ ~interrupt
  /\ j \in rows /\ \A k \in rows : j <= k
  /\ rows' = rows \ {j}

\* Library::Get returns nullptr: the plan cannot be loaded, or is still disabled.
PlanMissing(j) ==
  /\ NextRow(j) /\ PlanOf[j] \notin loadable \cap available
  /\ available' = available \ {PlanOf[j]}
  /\ refused' = refused \cup {PlanOf[j]}
  /\ UNCHANGED <<dbVars, loadable, ready, notified, timer, enableVars, running, more,
                 interrupt, filterVars, operators, progressVars, boundVars>>

\* Library::Get returns the plan, which it may have enabled again.
GetWorkshopPlan(j) ==
  /\ PlanOf[j] \in loadable
  /\ available' = available \cup {PlanOf[j]}

\* CheckWorkshopJob refuses the job.  (Its other reason, a full workplace, does not
\* occur while the queue is enabled: see FullFlagExact.)
RateLimitHit(j) ==
  /\ NextRow(j) /\ GetWorkshopPlan(j) /\ ~IsFull(operators)
  /\ PlanOf[j] \in hit
  /\ UpdateFilter(available', rate_limited \cup {PlanOf[j]}, operators, FALSE)
  /\ PlanOf[j] \in rate_limited'
  /\ UNCHANGED <<dbVars, loadable, ready, notified, enableVars, running, more,
                 refused, operators, progressVars, boundVars>>

\* claim_job matches a job that is free, whatever its scheduled_time is by now.
claim_job_where(j) == table[j] \in {"waiting", "due", "scheduled"}

RowPasses(j) ==
  /\ NextRow(j) /\ PlanOf[j] \in loadable /\ ~IsFull(operators) /\ PlanOf[j] \notin hit

ClaimMiss(j) ==
  /\ RowPasses(j) /\ GetWorkshopPlan(j) /\ ~claim_job_where(j)
  /\ UNCHANGED <<dbVars, loadable, ready, notified, timer, enableVars, running,
                 more, refused, interrupt, filterVars, operators, progressVars, boundVars>>

\* The job is claimed and started (StartWorkshopJob).
StartWorkshopJob(j) ==
  /\ RowPasses(j) /\ GetWorkshopPlan(j) /\ claim_job_where(j)
  /\ table' = [table EXCEPT ![j] = "mine"]
  /\ hit' = hit \cup ({PlanOf[j]} \cap RatePlans)
  /\ operators' = operators \cup {NewOperator(j)}
  /\ disabled_full' = (disabled_full \/ IsFull(operators'))
  /\ UpdateFilter(available', rate_limited, operators', FALSE)
  /\ UNCHANGED <<loadable, ready, notified, enabled_state, enabled_admin,
                 running, more, refused, progressVars, boundVars>>

\* Starting fails at once: OnTaskCompletion marks the job done and the operator is
\* gone again before StartWorkshopJob continues.
StartFails(j) ==
  /\ RowPasses(j) /\ claim_job_where(j)
  /\ table' = [table EXCEPT ![j] = "done"]
  /\ hit' = hit \cup ({PlanOf[j]} \cap RatePlans)
  /\ UpdateLibraryAndFilter(FALSE, operators, FALSE)
  /\ UNCHANGED <<loadable, ready, notified, enableVars, running, more, refused, operators,
                 progressVars, boundVars>>

\* The second SELECT of Run2: the plans that are already running.
SelectLowprio ==
  /\ running = "first" /\ rows = {} /\ IsEnabled /\ ~interrupt /\ plans_lowprio # {}
  /\ running' = "second"
  /\ rows' = select_new_jobs(plans_lowprio, plans_exclude)
  /\ more' = (more \/ Cardinality(rows') = RowLimit)
  /\ UNCHANGED <<dbVars, loadable, available, ready, notified, timer, enableVars, refused,
                 interrupt, filterVars, operators, progressVars, boundVars>>

\* Mutant of NextScheduled: a plan which is being executed is not considered.
MutRunningNotScheduled ==
  IF \E j \in Jobs : /\ table[j] \in {"scheduled", "due"}
                     /\ PlanOf[j] \in plans_include \ plans_lowprio
    THEN "scheduled" ELSE "later"

\* The end of Run2.  next_scheduled_job also finds jobs that are due already, but
\* none without a scheduled_time.  "later" is the default of 600 seconds.
NextScheduled ==
  IF \E j \in Jobs : table[j] \in {"scheduled", "due"} /\ PlanOf[j] \in plans_include
    THEN "scheduled" ELSE "later"

EndRun ==
  /\ running # "no"
  /\ \/ rows = {} /\ (running = "second" \/ plans_lowprio = {})
     \/ ~IsEnabled \/ interrupt
  /\ running' = "no" /\ rows' = {} /\ more' = FALSE
  /\ timer' = IF ~IsEnabled THEN timer
              ELSE IF interrupt \/ more THEN "soon" ELSE NextScheduled
  /\ UNCHANGED <<dbVars, loadable, available, ready, notified, enableVars, refused,
                 interrupt, filterVars, operators, progressVars, boundVars>>

\* A statement fails while the connection holds, or MakeJob rejects a row: Run catches
\* the exception, and the timer that Run2 sets at its end is missing.
RunFails ==
  /\ running # "no" /\ disconnects < MaxDisconnects
  /\ running' = "no" /\ rows' = {} /\ more' = FALSE
  /\ refused' = Plans
  /\ disconnects' = disconnects + 1
  /\ UNCHANGED <<dbVars, loadable, available, ready, notified, timer, enableVars,
                 interrupt, filterVars, operators, progressVars, events>>

Run ==
  \/ BeginRun \/ SelectLowprio \/ EndRun
  \/ \E j \in Jobs : PlanMissing(j)
  \/ \E j \in Jobs : RateLimitHit(j)
  \/ \E j \in Jobs : ClaimMiss(j)
  \/ \E j \in Jobs : StartWorkshopJob(j)
  \/ \E j \in Jobs : StartFails(j)

-----------------------------------------------------------------------------
(***************************************************************************)
(* The other handlers of the event loop.                                   *)
(***************************************************************************)
OnNotify ==
  /\ running = "no" /\ notified
  /\ notified' = FALSE
  /\ timer' = "soon"
  /\ UNCHANGED <<dbVars, loadable, available, ready, enableVars, runVars, interrupt,
                 filterVars, operators, progressVars, boundVars>>

\* Mutant of CheckEnabled: becoming enabled does not start a queue run.
MutEnableSilently(state, admin, full) == FALSE

\* Is a queue run asked for by CheckEnabled with these flags?
CheckEnabled(state, admin, full) == state /\ admin /\ ~full /\ ready

\* WorkshopPartition::OnChildProcessExit, after the operator has stored the result.
OperatorGone(o) ==
  /\ running = "no"
  /\ operators' = operators \ {o}
  /\ disabled_full' = (disabled_full /\ IsFull(operators'))
  /\ UpdateLibraryAndFilter(FALSE, operators',
       disabled_full /\ ~IsFull(operators') /\ CheckEnabled(enabled_state, enabled_admin, FALSE))
  /\ UNCHANGED <<loadable, ready, enabled_state, enabled_admin, runVars, progressVars,
                 disconnects>>

\* The result is lost if there is no connection.
JobDone(o) ==
  /\ OperatorGone(o)
  /\ table' = IF ready THEN [table EXCEPT ![o[1]] = "done"] ELSE table
  /\ UNCHANGED <<hit, notified, events>>

\* pg_again_job or pg_rollback_job, and a NOTIFY.  A job that is not claimed, or is
\* done, is not affected.
JobAgain(o, state) ==
  /\ OperatorGone(o) /\ events < MaxEvents
  /\ table' = IF ready /\ table[o[1]] \in {"mine", "other"}
                THEN [table EXCEPT ![o[1]] = state] ELSE table
  /\ notified' = (notified \/ ready)
  /\ events' = events + 1
  /\ UNCHANGED hit

OnRateLimitTimer ==
  /\ running = "no" /\ rate_limited # {}
  /\ UpdateFilter(available, rate_limited, operators, FALSE)
  /\ rate_limited' # rate_limited
  /\ UNCHANGED <<dbVars, loadable, available, ready, notified, enableVars, runVars,
                 operators, progressVars, boundVars>>

\* SIGHUP: reload the plans, then the state file.
OnReload(state) ==
  /\ running = "no" /\ events < MaxEvents
  /\ enabled_state' = state
  /\ UpdateLibraryAndFilter(TRUE, operators,
       state # enabled_state /\ CheckEnabled(state, enabled_admin, disabled_full))
  /\ events' = events + 1
  /\ UNCHANGED <<dbVars, loadable, ready, notified, enabled_admin, disabled_full, runVars,
                 operators, progressVars, disconnects>>

\* The control commands DISABLE_QUEUE and ENABLE_QUEUE, and BeginShutdown.
SetAdmin(admin) ==
  /\ running = "no" /\ events < MaxEvents
  /\ admin # enabled_admin
  /\ enabled_admin' = admin
  /\ timer' = IF admin /\ CheckEnabled(enabled_state, TRUE, disabled_full) THEN "soon" ELSE timer
  /\ events' = events + 1
  /\ UNCHANGED <<dbVars, loadable, available, ready, notified, enabled_state, disabled_full,
                 runVars, interrupt, filterVars, operators, progressVars, disconnects>>

\* WorkshopQueue::SetJobProgress for a plan with notify_progress.
SetJobProgress(p) ==
  /\ running = "no" /\ p \in NotifyPlans \cap PlansOf(operators)
  /\ progress_plans' = progress_plans \cup {p}
  /\ progress_timer' = (progress_timer \/ p \notin progress_plans)
  /\ UNCHANGED <<dbVars, loadable, available, ready, notified, timer, enableVars, runVars,
                 interrupt, filterVars, operators, boundVars>>

\* Mutant of OnProgressNotifyTimer: the plans are not cleared.
MutPlansKept ==
  /\ running = "no" /\ progress_timer
  /\ progress_timer' = FALSE
  /\ UNCHANGED <<dbVars, loadable, available, ready, notified, timer, enableVars, runVars,
                 interrupt, filterVars, operators, progress_plans, boundVars>>

OnProgressNotifyTimer ==
  /\ running = "no" /\ progress_timer
  /\ progress_timer' = FALSE
  /\ progress_plans' = {}
  /\ UNCHANGED <<dbVars, loadable, available, ready, notified, timer, enableVars, runVars,
                 interrupt, filterVars, operators, boundVars>>

\* The connection breaks, possibly in the middle of a queue run.
OnDisconnect ==
  /\ ready /\ disconnects < MaxDisconnects
  /\ ready' = FALSE /\ notified' = FALSE
  /\ timer' = "none" /\ progress_timer' = FALSE
  /\ running' = "no" /\ rows' = {} /\ more' = FALSE
  /\ disconnects' = disconnects + 1
  /\ UNCHANGED <<dbVars, loadable, available, enableVars, refused, interrupt, filterVars,
                 operators, progress_plans, events>>

\* pg_release_jobs puts back all jobs of this node, those with an operator as well.
OnConnect ==
  /\ ~ready
  /\ ready' = TRUE
  /\ table' = [j \in Jobs |-> IF table[j] = "mine" THEN "waiting" ELSE table[j]]
  /\ notified' = (table' # table)
  /\ timer' = "soon"
  /\ UNCHANGED <<hit, loadable, available, enableVars, runVars, interrupt, filterVars,
                 operators, progressVars, boundVars>>

Handler ==
  \/ OnNotify \/ OnRateLimitTimer \/ OnProgressNotifyTimer \/ OnConnect \/ OnDisconnect
  \/ \E o \in operators : JobDone(o)
  \/ \E o \in operators, state \in {"waiting", "scheduled"} : JobAgain(o, state)
  \/ \E state \in BOOLEAN : OnReload(state)
  \/ \E admin \in BOOLEAN : SetAdmin(admin)
  \/ \E p \in Plans : SetJobProgress(p)

\* After Instance::Start: the state is loaded, the library is read and the filter
\* set, the connection is being established.
Init ==
  /\ table = [j \in Jobs |-> "new"]
  /\ hit = {}
  /\ loadable = Plans /\ available = Plans
  /\ ready = FALSE /\ notified = FALSE /\ timer = "none"
  /\ enabled_state \in BOOLEAN /\ enabled_admin = TRUE /\ disabled_full = FALSE
  /\ running = "no" /\ interrupt = FALSE /\ rows = {} /\ more = FALSE
  /\ plans_include = Plans /\ plans_exclude = {} /\ plans_lowprio = {}
  /\ rate_limited = {}
  /\ operators = {}
  /\ progress_plans = {} /\ progress_timer = FALSE
  /\ refused = {}
  /\ disconnects = 0 /\ events = 0

Next == Environment \/ Run \/ RunFails \/ Handler

Spec == Init /\ [][Next]_vars

-----------------------------------------------------------------------------
(***************************************************************************)
(* Properties.                                                             *)
(***************************************************************************)

\* The setting "concurrency" of a plan is never exceeded, although a result set
\* may hold more jobs of the plan than it has free slots: the filter change that
\* a start brings about interrupts the run in time.
ConcurrencyLimit ==
  \A p \in Plans :
    Concurrency[p] # 0 =>
      Cardinality({o \in operators : PlanOf[o[1]] = p}) <= Concurrency[p]

\* disabled_full says exactly whether all operators are in use: if it were set too
\* late the node would be overloaded, if it remained set the queue would stop.
FullFlagExact ==
  /\ disabled_full <=> IsFull(operators)
  /\ Cardinality(operators) <= MaxOperators

\* The job could be started now or at its scheduled_time, as far as the latest
\* queue run could find out.
Eligible(j) ==
  /\ table[j] \in {"waiting", "due", "scheduled"}
  /\ PlanOf[j] \in plans_include \ plans_exclude
  /\ PlanOf[j] \in loadable \ (refused \cup hit)

\* No job is left to the 600 second timer: while an enabled and connected node is
\* between two queue runs and could execute a job, either a run is scheduled for
\* it, or the notification that leads to one is waiting.
PromptWakeup ==
  running = "no" /\ ready /\ IsEnabled /\ (\E j \in Jobs : Eligible(j))
    => timer \in {"soon", "scheduled"} \/ notified

\* While the connection holds, a plan waits in progress_notify_plans only together
\* with the timer that announces its progress.
ProgressNotifyPending == disconnects = 0 /\ progress_plans # {} => progress_timer

\* The event loop runs its timers and handlers, the rate interval and the time
\* until a scheduled job pass, child processes end, connections come back.  A handler
\* is not enabled during a queue run, but the loop serves it between two runs,
\* however quickly they follow each other: hence strong fairness.
Fairness ==
  /\ WF_vars(Run) /\ SF_vars(OnNotify) /\ SF_vars(OnRateLimitTimer) /\ WF_vars(OnConnect)
  /\ SF_vars(\E o \in operators : JobDone(o))
  /\ \A p \in Plans : WF_vars(RateIntervalPasses(p))
  /\ \A j \in Jobs : WF_vars(ScheduledTimePasses(j))

FairSpec == Spec /\ Fairness

\* If the queue stays enabled, no plan file stays broken and the latest run did not
\* end with a failed statement (after which the queue sleeps until an event comes),
\* no job waits for ever.
\* (RowLimit jobs of a plan that cannot be loaded fill every SELECT: they keep the
\* jobs of all other plans waiting until the filter is updated.)
EveryJobTaken ==
  <>[](enabled_state /\ enabled_admin /\ loadable = Plans /\ refused # Plans) =>
    \A j \in Jobs : []<>(table[j] \notin {"waiting", "due", "scheduled"})
=============================================================================
