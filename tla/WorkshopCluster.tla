--------------------------- MODULE WorkshopCluster ---------------------------
(***************************************************************************)
(* The "jobs" table and the Workshop nodes that share it.                  *)
(*                                                                         *)
(* Every node is a single-threaded daemon which talks to one PostgreSQL    *)
(* database.  Each SQL statement commits on its own, so a queue run        *)
(* (WorkshopQueue::Run2) is a sequence of statements between which the     *)
(* other nodes, and the clients of the table, may act: the rows a node has *)
(* selected are stale by the time it tries to claim them.                  *)
(*                                                                         *)
(* Time stamps are kept as the time that is left until them: Tick is the   *)
(* passing of one unit.  0 means "now", a node_timeout of -1 "has passed". *)
(***************************************************************************)
EXTENDS Integers, FiniteSets

CONSTANTS
  Nodes,        \* the Workshop daemons, by node_name
  Jobs,         \* the ids of the rows clients may insert
  TimedJobs,    \* the jobs whose plan has a "timeout" setting
  NULL,         \* SQL NULL
  Timeout,      \* Plan::timeout, in ticks
  MaxLag,       \* how much later than now() of a statement its local timer may be served
  AgainDelay,   \* the delay of the control command "again SECONDS", in ticks
  MaxOperators, \* WorkshopWorkplace::max_operators
  MaxStarts,    \* bound: a job claimed this often is not selected any more
  MaxAgain,     \* bound: how often a job may ask to be executed again
  MaxFaults     \* bound: crashes, lost connections and statements that fail

\* How an execution ends: the kinds of values WorkshopQueue::SetJobDone stores.
ExitStatus == {"exited", "failed", "timedout", "canceled"}

ASSUME ClusterAssumption ==
  /\ TimedJobs \subseteq Jobs
  /\ NULL \notin Nodes /\ NULL \notin Int /\ NULL \notin ExitStatus
  /\ Timeout \in Nat \ {0} /\ AgainDelay \in Nat \ {0} /\ MaxLag \in Nat
  /\ MaxOperators \in Nat \ {0}
  /\ MaxStarts \in Nat /\ MaxAgain \in Nat /\ MaxFaults \in Nat

VARIABLES
  jobs,       \* the table
  conn,       \* per node: its process and its database connection
  rows,       \* per node: selected rows that the queue run still has to try
  operators,  \* per node: WorkshopWorkplace::operators
  starts,     \* history: how often claim_job succeeded for a job
  agains,     \* history: how often a job was given back for another execution
  disturbed,  \* history: jobs that release_jobs or expire_jobs took from a node
  unstored,   \* history: per node, jobs whose end it could not store since it connected
  faults      \* history: the faults so far

vars == <<jobs, conn, rows, operators, starts, agains, disturbed, unstored, faults>>

(***************************************************************************)
(* What a row and an operator consist of.  time_done and exit_status are   *)
(* only ever set together (set_job_done), so exit_status stands for both.  *)
(* "nr" tells the executions of one job apart.  "behind" is history: the   *)
(* latest progress was not stored, but has refreshed the timer.            *)
(***************************************************************************)
Row == [state          : {"new", "live", "reaped"},
        enabled        : BOOLEAN,
        scheduled_time : 0..AgainDelay,
        node_name      : Nodes \cup {NULL},
        node_timeout   : -1..Timeout \cup {NULL},
        exit_status    : ExitStatus \cup {NULL}]

NoTimer == -1

WorkshopOperator ==
  [job : Jobs, nr : Nat, timeout_event : NoTimer..(Timeout + MaxLag), behind : BOOLEAN]

Live(r) == r.state = "live"
Done(r) == r.exit_status # NULL
Free(r) == r.node_name = NULL

IsFull(n) == Cardinality(operators[n]) = MaxOperators

\* Nothing else of a node runs while it works through selected rows.
Idle(n) == conn[n] # "down" /\ rows[n] = {}

Ready(n) == conn[n] = "ready"

(***************************************************************************)
(* The SQL statements, as conditions on a row and as its new value.        *)
(***************************************************************************)
select_new_jobs(r) ==
  Live(r) /\ Free(r) /\ ~Done(r) /\ r.scheduled_time = 0 /\ r.enabled

\* Mutant: trust the selected row.
MutClaimStaleRow(r) == Live(r) /\ r.enabled

claim_job_where(r) == Live(r) /\ Free(r) /\ r.enabled

claim_job(r, n) == [r EXCEPT !.node_name = n, !.node_timeout = Timeout]

set_job_progress(r) ==
  IF Live(r) THEN [r EXCEPT !.node_timeout = Timeout] ELSE r

\* Mutant: a finished job gives up its node.
MutDoneReleases(r, status) ==
  IF Live(r) THEN [r EXCEPT !.exit_status = status, !.node_name = NULL] ELSE r

set_job_done(r, status) ==
  IF Live(r) THEN [r EXCEPT !.exit_status = status] ELSE r

release_jobs_where(r, n) == Live(r) /\ r.node_name = n /\ ~Done(r)

\* Mutant: never expire a job.
MutNeverExpire(r, n) == FALSE

expire_jobs_where(r, n) ==
  /\ Live(r) /\ ~Done(r)
  /\ ~Free(r) /\ r.node_name # n
  /\ r.node_timeout # NULL /\ r.node_timeout < 0

\* The common SET clause of release_jobs, expire_jobs and rollback_job.
release(r) == [r EXCEPT !.node_name = NULL, !.node_timeout = NULL]

again_job_where(r) == Live(r) /\ ~Free(r) /\ ~Done(r)

\* pg_again_job sets a new scheduled_time, pg_rollback_job (no delay) does not.
again_job(r, delay) ==
  IF delay > 0 THEN [release(r) EXCEPT !.scheduled_time = delay] ELSE release(r)

-----------------------------------------------------------------------------
(***************************************************************************)
(* Clients of the table.                                                   *)
(***************************************************************************)
Init ==
  /\ jobs = [j \in Jobs |-> [state |-> "new", enabled |-> TRUE, scheduled_time |-> 0,
                             node_name |-> NULL, node_timeout |-> NULL,
                             exit_status |-> NULL]]
  /\ conn = [n \in Nodes |-> "down"]
  /\ rows = [n \in Nodes |-> {}]
  /\ operators = [n \in Nodes |-> {}]
  /\ starts = [j \in Jobs |-> 0]
  /\ agains = [j \in Jobs |-> 0]
  /\ disturbed = {}
  /\ unstored = [n \in Nodes |-> {}]
  /\ faults = 0

\* scheduled_time is NULL (or has passed), or lies in the future.
InsertJob(j) ==
  /\ jobs[j].state = "new"
  /\ \E delay \in {0, AgainDelay} :
       jobs' = [jobs EXCEPT ![j].state = "live", ![j].scheduled_time = delay]
  /\ UNCHANGED <<conn, rows, operators, starts, agains, disturbed, unstored, faults>>

SetEnabled(j) ==
  /\ Live(jobs[j])
  /\ jobs' = [jobs EXCEPT ![j].enabled = ~@]
  /\ UNCHANGED <<conn, rows, operators, starts, agains, disturbed, unstored, faults>>

-----------------------------------------------------------------------------
(***************************************************************************)
(* The connection.  OnConnect is also what a freshly started daemon does.  *)
(***************************************************************************)
Fault ==
  /\ faults < MaxFaults
  /\ faults' = faults + 1

\* Mutant: connect without releasing the node's old jobs.
MutConnectKeepsJobs(n) ==
  /\ conn[n] # "ready"
  /\ conn' = [conn EXCEPT ![n] = "ready"]
  /\ unstored' = [unstored EXCEPT ![n] = {}]
  /\ UNCHANGED <<jobs, disturbed, rows, operators, starts, agains, faults>>

OnConnect(n) ==
  LET released == {j \in Jobs : release_jobs_where(jobs[j], n)}
  IN /\ conn[n] # "ready"
     /\ conn' = [conn EXCEPT ![n] = "ready"]
     /\ jobs' = [j \in Jobs |-> IF j \in released THEN release(jobs[j]) ELSE jobs[j]]
     /\ disturbed' = disturbed \cup released
     /\ unstored' = [unstored EXCEPT ![n] = {}]
     /\ UNCHANGED <<rows, operators, starts, agains, faults>>

\* The connection breaks.  The operators keep running; a queue run in progress
\* ends with an exception.
OnDisconnect(n) ==
  /\ conn[n] = "ready" /\ Fault
  /\ conn' = [conn EXCEPT ![n] = "lost"]
  /\ rows' = [rows EXCEPT ![n] = {}]
  /\ UNCHANGED <<jobs, operators, starts, agains, disturbed, unstored>>

\* The daemon dies, and its child processes with it.
Crash(n) ==
  /\ conn[n] # "down" /\ Fault
  /\ conn' = [conn EXCEPT ![n] = "down"]
  /\ rows' = [rows EXCEPT ![n] = {}]
  /\ operators' = [operators EXCEPT ![n] = {}]
  /\ unstored' = [unstored EXCEPT ![n] = {}]
  /\ UNCHANGED <<jobs, starts, agains, disturbed>>

-----------------------------------------------------------------------------
(***************************************************************************)
(* The queue run: expire, select, then one claim per row.                  *)
(***************************************************************************)
ExpireJobs(n) ==
  LET expired == {j \in Jobs : expire_jobs_where(jobs[j], n)}
  IN /\ Ready(n) /\ Idle(n) /\ ~IsFull(n)
     /\ expired # {}
     /\ jobs' = [j \in Jobs |-> IF j \in expired THEN release(jobs[j]) ELSE jobs[j]]
     /\ disturbed' = disturbed \cup expired
     /\ UNCHANGED <<conn, rows, operators, starts, agains, unstored, faults>>

SelectNewJobs(n) ==
  /\ Ready(n) /\ Idle(n) /\ ~IsFull(n)
  /\ rows' = [rows EXCEPT ![n] =
                {j \in Jobs : select_new_jobs(jobs[j]) /\ starts[j] < MaxStarts}]
  /\ rows'[n] # {}
  /\ UNCHANGED <<jobs, conn, operators, starts, agains, disturbed, unstored, faults>>

\* ScheduleTimeout: the local timer starts after the statement has been executed, and is
\* served when the event loop gets to it, so that node_timeout passes first.
ScheduleTimeout(j, lag) == IF j \in TimedJobs THEN Timeout + lag ELSE NoTimer

NewOperator(j, lag) ==
  [job |-> j, nr |-> starts[j] + 1, timeout_event |-> ScheduleTimeout(j, lag),
   behind |-> FALSE]

\* The claim succeeds and the job is started.  When that fills the workplace, the
\* queue is disabled and the rest of the rows is dropped.
ClaimJob(n, j, lag) ==
  /\ j \in rows[n] /\ claim_job_where(jobs[j])
  /\ jobs' = [jobs EXCEPT ![j] = claim_job(@, n)]
  /\ starts' = [starts EXCEPT ![j] = @ + 1]
  /\ operators' = [operators EXCEPT ![n] = @ \cup {NewOperator(j, lag)}]
  /\ rows' = [rows EXCEPT ![n] = IF IsFull(n)' THEN {} ELSE @ \ {j}]
  /\ unstored' = [unstored EXCEPT ![n] = @ \ {j}]
  /\ UNCHANGED <<conn, agains, disturbed, faults>>

\* Another node was faster, or the job was disabled: no row was affected.
ClaimMiss(n, j) ==
  /\ j \in rows[n] /\ ~claim_job_where(jobs[j])
  /\ rows' = [rows EXCEPT ![n] = @ \ {j}]
  /\ UNCHANGED <<jobs, conn, operators, starts, agains, disturbed, unstored, faults>>

\* The database commits the claim, but the connection breaks before the answer
\* arrives: the job belongs to a node that does not know it.
ClaimAnswerLost(n, j) ==
  /\ j \in rows[n] /\ claim_job_where(jobs[j]) /\ Fault
  /\ jobs' = [jobs EXCEPT ![j] = claim_job(@, n)]
  /\ starts' = [starts EXCEPT ![j] = @ + 1]
  /\ conn' = [conn EXCEPT ![n] = "lost"]
  /\ rows' = [rows EXCEPT ![n] = {}]
  /\ UNCHANGED <<operators, agains, disturbed, unstored>>

\* A statement of the run fails, but the connection lives: Run2 ends with an exception.
RunFails(n) ==
  /\ rows[n] # {} /\ Fault
  /\ rows' = [rows EXCEPT ![n] = {}]
  /\ UNCHANGED <<jobs, conn, operators, starts, agains, disturbed, unstored>>

-----------------------------------------------------------------------------
(***************************************************************************)
(* The operator.  Its statements fail while the node is disconnected, and  *)
(* may fail when it is not.  CheckError only logs that.                    *)
(***************************************************************************)
Outcome(n, ok) ==
  IF Ready(n) /\ ~ok THEN Fault ELSE (ok => Ready(n)) /\ UNCHANGED faults

RemoveOperators(n, ops) == operators' = [operators EXCEPT ![n] = @ \ ops]

\* The end of an execution was stored, or it is forgotten.
Ended(n, j, ok) ==
  /\ Outcome(n, ok)
  /\ unstored' = IF ok THEN unstored ELSE [unstored EXCEPT ![n] = @ \cup {j}]

SetJobDone(n, j, status, ok) ==
  /\ Ended(n, j, ok)
  /\ jobs' = IF ok THEN [jobs EXCEPT ![j] = set_job_done(@, status)] ELSE jobs

\* Mutant: refresh the local timer only.
MutProgressLocalOnly(n, o, lag, ok) ==
  /\ Idle(n) /\ Outcome(n, ok)
  /\ operators' = [operators EXCEPT ![n] = (@ \ {o}) \cup
       {[o EXCEPT !.timeout_event = ScheduleTimeout(o.job, lag), !.behind = ~ok]}]
  /\ UNCHANGED <<jobs, conn, rows, starts, agains, disturbed, unstored>>

\* Progress refreshes the time stamp in the table and then the local timer, the
\* latter even if the statement has failed.
OnProgress(n, o, lag, ok) ==
  /\ Idle(n) /\ Outcome(n, ok)
  /\ jobs' = IF ok THEN [jobs EXCEPT ![o.job] = set_job_progress(@)] ELSE jobs
  /\ operators' = [operators EXCEPT ![n] = (@ \ {o}) \cup
       {[o EXCEPT !.timeout_event = ScheduleTimeout(o.job, lag), !.behind = ~ok]}]
  /\ UNCHANGED <<conn, rows, starts, agains, disturbed, unstored>>

\* The child process ends, or could not be started.
OnExit(n, o, status, ok) ==
  /\ Idle(n)
  /\ SetJobDone(n, o.job, status, ok)
  /\ RemoveOperators(n, {o})
  /\ UNCHANGED <<conn, rows, starts, agains, disturbed>>

\* Mutant: report the timeout, but leave the process running.
MutTimeoutKeepsOperator(n, o, ok) ==
  /\ Idle(n) /\ o.timeout_event = 0
  /\ SetJobDone(n, o.job, "timedout", ok)
  /\ operators' = [operators EXCEPT ![n] =
                     (@ \ {o}) \cup {[o EXCEPT !.timeout_event = NoTimer]}]
  /\ UNCHANGED <<conn, rows, starts, agains, disturbed>>

OnTimeout(n, o, ok) ==
  /\ Idle(n) /\ o.timeout_event = 0
  /\ SetJobDone(n, o.job, "timedout", ok)
  /\ RemoveOperators(n, {o})
  /\ UNCHANGED <<conn, rows, starts, agains, disturbed>>

\* The child process ends after it has sent the control command "again".
AgainJob(n, o, delay, ok) ==
  LET given == ok /\ again_job_where(jobs[o.job])
  IN /\ Idle(n) /\ agains[o.job] < MaxAgain
     /\ Ended(n, o.job, ok)
     /\ jobs' = IF given THEN [jobs EXCEPT ![o.job] = again_job(@, delay)] ELSE jobs
     /\ agains' = IF given THEN [agains EXCEPT ![o.job] = @ + 1] ELSE agains
     /\ RemoveOperators(n, {o})
     /\ UNCHANGED <<conn, rows, starts, disturbed>>

\* The control command CANCEL_JOB: every operator with this id is disposed.
CancelJob(n, j, ok) ==
  LET canceled == {o \in operators[n] : o.job = j}
  IN /\ Idle(n) /\ canceled # {}
     /\ SetJobDone(n, j, "canceled", ok)
     /\ RemoveOperators(n, canceled)
     /\ UNCHANGED <<conn, rows, starts, agains, disturbed>>

ReapFinishedJobs(n) ==
  \E reaped \in SUBSET {j \in Jobs : Live(jobs[j]) /\ Done(jobs[j])} :
    /\ Ready(n) /\ Idle(n) /\ reaped # {}
    /\ jobs' = [j \in Jobs |-> IF j \in reaped THEN [jobs[j] EXCEPT !.state = "reaped"]
                                               ELSE jobs[j]]
    /\ UNCHANGED <<conn, rows, operators, starts, agains, disturbed, unstored, faults>>

-----------------------------------------------------------------------------
\* One unit of time passes.  How late a timer is served is part of its value (lag).
Passed(t, least) == IF t > least THEN t - 1 ELSE t

Tick ==
  /\ \A n \in Nodes : \A o \in operators[n] : o.timeout_event # 0
  /\ jobs' = [j \in Jobs |->
       [jobs[j] EXCEPT !.scheduled_time = Passed(@, 0),
                       !.node_timeout = IF @ = NULL THEN NULL ELSE Passed(@, -1)]]
  /\ operators' = [n \in Nodes |->
       {[o EXCEPT !.timeout_event = Passed(@, NoTimer)] : o \in operators[n]}]
  /\ UNCHANGED <<conn, rows, starts, agains, disturbed, unstored, faults>>

OperatorStep(n, o, ok) ==
  \/ \E lag \in 0..MaxLag : OnProgress(n, o, lag, ok)
  \/ \E status \in {"exited", "failed"} : OnExit(n, o, status, ok)
  \/ OnTimeout(n, o, ok)
  \/ \E delay \in {0, AgainDelay} : AgainJob(n, o, delay, ok)

NodeStep(n) ==
  \/ OnConnect(n)
  \/ OnDisconnect(n)
  \/ Crash(n)
  \/ ExpireJobs(n)
  \/ SelectNewJobs(n)
  \/ ReapFinishedJobs(n)
  \/ RunFails(n)
  \/ \E j \in Jobs, lag \in 0..MaxLag : ClaimJob(n, j, lag)
  \/ \E j \in Jobs : ClaimMiss(n, j)
  \/ \E j \in Jobs : ClaimAnswerLost(n, j)
  \/ \E j \in Jobs, ok \in BOOLEAN : CancelJob(n, j, ok)
  \/ \E o \in operators[n], ok \in BOOLEAN : OperatorStep(n, o, ok)

ClientStep == \E j \in Jobs : InsertJob(j) \/ SetEnabled(j)

Next == ClientStep \/ Tick \/ \E n \in Nodes : NodeStep(n)

Spec == Init /\ [][Next]_vars
-----------------------------------------------------------------------------
(***************************************************************************)
(* Properties.                                                             *)
(***************************************************************************)

\* Every variable has its type; in particular no time stamp is further away than
\* the interval the code adds to now().
TypeOK ==
  /\ jobs \in [Jobs -> Row]
  /\ conn \in [Nodes -> {"down", "lost", "ready"}]
  /\ rows \in [Nodes -> SUBSET Jobs]
  /\ operators \in [Nodes -> SUBSET WorkshopOperator]
  /\ starts \in [Jobs -> Nat]
  /\ agains \in [Jobs -> Nat]
  /\ disturbed \subseteq Jobs
  /\ unstored \in [Nodes -> SUBSET Jobs]
  /\ faults \in Nat

\* The table says that node n is executing the job, and means this operator.
Executes(n, o) == release_jobs_where(jobs[o.job], n) /\ o.nr = starts[o.job]

\* Executions of one job never overlap, on whatever nodes, unless release_jobs or
\* expire_jobs has taken the job away from a node: claiming stale rows is safe
\* because claim_job checks node_name again.
ExclusiveExecution ==
  \A m, n \in Nodes : \A o \in operators[m], p \in operators[n] :
    o.job = p.job /\ o.job \notin disturbed => m = n /\ o = p

\* A job that was not taken away from a node is executed exactly once, plus once
\* for each "again" of its own process.
StartsAccounted ==
  \A j \in Jobs \ disturbed :
    starts[j] = agains[j] + (IF Free(jobs[j]) THEN 0 ELSE 1)

\* A node that has a database connection executes every job the table says it is
\* executing: no claim is forgotten by a crash, a lost answer or a lost connection,
\* because connecting releases it.  The exception is the end of an execution whose
\* statement has failed on the present connection (unstored): nobody repeats it.
ReadyNodeRunsItsClaims ==
  \A n \in Nodes, j \in Jobs :
    Ready(n) /\ release_jobs_where(jobs[j], n) /\ j \notin unstored[n]
      => \E o \in operators[n] : o.job = j /\ Executes(n, o)

\* A job whose plan has a timeout expires under its running operator by at most MaxLag
\* too early: so long another node may take it although the operator still works on
\* it, and no longer, unless the latest progress could not be stored.
TimerFollowsClaim ==
  \A n \in Nodes : \A o \in operators[n] :
    o.job \in TimedJobs /\ Executes(n, o) /\ ~o.behind
      => o.timeout_event <= jobs[o.job].node_timeout + MaxLag

\* The result of a job that was not taken away from a node is final: nothing
\* overwrites it, and the job is not put back.
ResultIsFinal ==
  [][\A j \in Jobs : Done(jobs[j]) /\ j \notin disturbed
       => jobs'[j].exit_status = jobs[j].exit_status
          /\ jobs'[j].node_name = jobs[j].node_name]_vars

(***************************************************************************)
(* The ledger that WorkshopCluster keeps.  An execution is a process: a    *)
(* claimed row without an operator is a lost execution.                    *)
(***************************************************************************)
HasOperator(j) == \E n \in Nodes : \E o \in operators[n] : o.job = j

PhaseOf(j) ==
  LET r == jobs[j]
  IN CASE r.state = "new"    -> "absent"
       [] r.state = "reaped" -> "removed"
       [] Live(r) /\ Done(r) -> "done"
       [] Live(r) /\ ~Done(r) /\ Free(r) -> "waiting"
       [] Live(r) /\ ~Done(r) /\ ~Free(r) ->
            IF HasOperator(j) THEN "executing" ELSE "lost"

EntryOf(j) ==
  IF j \in disturbed
    THEN [phase |-> "taken", executor |-> NULL, executions |-> 0]
    ELSE [phase |-> PhaseOf(j), executor |-> jobs[j].node_name, executions |-> starts[j]]

LedgerOf == [j \in Jobs |-> EntryOf(j)]

Ledger == INSTANCE JobLedger WITH ledger <- LedgerOf

\* WorkshopCluster implements JobLedger: every execution starts from a waiting job,
\* only the running process of a job leads to its result or puts it back, and what
\* a node has lost cannot be finished by anybody, it can only be taken away.
ImplementsLedger == Ledger!Spec

\* The inductive strengthening of the properties above.
TableShape ==
  \A j \in Jobs :
    /\ jobs[j].state = "new" => Free(jobs[j])
    /\ ~Free(jobs[j]) => jobs[j].node_timeout # NULL
    /\ j \notin disturbed /\ Done(jobs[j]) => ~Free(jobs[j])

OperatorShape ==
  \A n \in Nodes : \A o \in operators[n] :
    /\ o.nr <= starts[o.job]
    /\ o.job \in TimedJobs => 0 <= o.timeout_event
    /\ o.job \notin disturbed => Executes(n, o)

IInv ==
  /\ TypeOK /\ TableShape /\ OperatorShape
  /\ ExclusiveExecution /\ StartsAccounted
  /\ ReadyNodeRunsItsClaims /\ TimerFollowsClaim

\* What the event loops guarantee: timers fire, a daemon that runs reconnects,
\* and a queue run that has work to do comes to its end.  Nothing is assumed of
\* crashed daemons, of clients or of child processes.
Fairness ==
  /\ WF_vars(Tick)
  /\ \A n \in Nodes :
       /\ WF_vars(conn[n] = "lost" /\ OnConnect(n))
       /\ WF_vars(ExpireJobs(n))
       /\ WF_vars(SelectNewJobs(n))
       /\ WF_vars(\E j \in Jobs :
                    ClaimMiss(n, j) \/ \E lag \in 0..MaxLag : ClaimJob(n, j, lag))
       /\ WF_vars(\E o \in operators[n], ok \in BOOLEAN : OnTimeout(n, o, ok))

FairSpec == Spec /\ Fairness

\* As long as one node stays up that does not keep a claim of its own whose end it could
\* not store, an enabled job is again and again either being executed or finished:
\* neither a dead node nor a lost answer keeps it for ever, nor do the claims which
\* other nodes fail to give back.
NoJobStuck ==
  (\E n \in Nodes : <>[](conn[n] # "down" /\ unstored[n] = {}))
    => \A j \in TimedJobs :
         []<>(\/ ~Live(jobs[j]) \/ ~jobs[j].enabled \/ Done(jobs[j]) \/ starts[j] >= MaxStarts
              \/ \E n \in Nodes : \E o \in operators[n] : o.job = j)

=============================================================================
