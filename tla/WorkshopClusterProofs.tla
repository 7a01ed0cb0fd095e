------------------------ MODULE WorkshopClusterProofs ------------------------
(***************************************************************************)
(* Proofs about WorkshopCluster, for every number of nodes and jobs and    *)
(* every value of the timeouts and bounds.                                 *)
(***************************************************************************)
EXTENDS WorkshopCluster, TLAPS

(***************************************************************************)
(* The statements map rows to rows.                                        *)
(***************************************************************************)
\* The bounds of the time stamps contain what the code stores in them.
LEMMA Ranges ==
  /\ Timeout \in -1..Timeout \cup {NULL}
  /\ NULL \in -1..Timeout \cup {NULL}
  /\ \A j \in Jobs, lag \in 0..MaxLag :
       ScheduleTimeout(j, lag) \in NoTimer..(Timeout + MaxLag)
  /\ 0 \in 0..AgainDelay
  /\ AgainDelay \in 0..AgainDelay
  BY ClusterAssumption DEF NoTimer, ScheduleTimeout

\* Every statement of PGQueue.cxx maps a row of the table to a row.
LEMMA RowTypes ==
  ASSUME NEW r \in Row, NEW n \in Nodes
  PROVE  /\ claim_job(r, n) \in Row
         /\ set_job_progress(r) \in Row
         /\ release(r) \in Row
         /\ \A status \in ExitStatus : set_job_done(r, status) \in Row
         /\ \A delay \in {0, AgainDelay} : again_job(r, delay) \in Row
  <1> USE Ranges DEF Row
  <1>1. claim_job(r, n) \in Row
    BY DEF claim_job
  <1>2. set_job_progress(r) \in Row
    BY DEF set_job_progress
  <1>3. release(r) \in Row
    BY DEF release
  <1>4. ASSUME NEW status \in ExitStatus
        PROVE  set_job_done(r, status) \in Row
    BY DEF set_job_done
  <1>5. ASSUME NEW delay \in {0, AgainDelay}
        PROVE  again_job(r, delay) \in Row
    BY <1>3 DEF again_job
  <1> QED
    BY <1>1, <1>2, <1>3, <1>4, <1>5

\* The table and the nodes start with values of their types.
LEMMA TypeInit == Init => TypeOK
  BY Ranges DEF Init, TypeOK, Row

\* A tick keeps every time stamp in its range.
LEMMA PassedTypes ==
  /\ \A t \in 0..AgainDelay : Passed(t, 0) \in 0..AgainDelay
  /\ \A t \in -1..Timeout : Passed(t, -1) \in -1..Timeout
  /\ \A t \in NoTimer..(Timeout + MaxLag) : Passed(t, NoTimer) \in NoTimer..(Timeout + MaxLag)
  BY ClusterAssumption DEF Passed, NoTimer

(***************************************************************************)
(* Type correctness.                                                       *)
(***************************************************************************)
\* Every step keeps the types.
LEMMA TypeStep == TypeOK /\ [Next]_vars => TypeOK'
  <1> SUFFICES ASSUME TypeOK, [Next]_vars
               PROVE  TypeOK'
    OBVIOUS
  <1>1. ASSUME NEW j \in Jobs, InsertJob(j)
        PROVE  TypeOK'
    <2>1. PICK delay \in {0, AgainDelay} :
            jobs' = [jobs EXCEPT ![j].state = "live", ![j].scheduled_time = delay]
      BY <1>1 DEF InsertJob
    <2>2. [[jobs[j] EXCEPT !.state = "live"] EXCEPT !.scheduled_time = delay] \in Row
      <3>1. jobs[j] \in Row
        BY DEF TypeOK
      <3>2. [jobs[j] EXCEPT !.state = "live"] \in Row
        BY <3>1 DEF Row
      <3>3. delay \in 0..AgainDelay
        BY Ranges
      <3> DEFINE r == [jobs[j] EXCEPT !.state = "live"]
      <3>4. r \in Row
        BY <3>2
      <3> HIDE DEF r
      <3>5. [r EXCEPT !.scheduled_time = delay] \in Row
        BY <3>3, <3>4 DEF Row
      <3> QED
        BY <3>5 DEF r
    <2>3. jobs' \in [Jobs -> Row]
      BY <2>1, <2>2 DEF TypeOK
    <2> QED
      BY <1>1, <2>3 DEF InsertJob, TypeOK
  <1>2. ASSUME NEW j \in Jobs, SetEnabled(j)
        PROVE  TypeOK'
    <2>1. [jobs[j] EXCEPT !.enabled = ~@] \in Row
      BY DEF TypeOK, Row
    <2> QED
      BY <1>2, <2>1 DEF SetEnabled, TypeOK
  <1>3. CASE Tick
    <2>1. jobs' \in [Jobs -> Row]
      <3> SUFFICES ASSUME NEW j \in Jobs
                   PROVE  jobs'[j] \in Row
        BY <1>3 DEF Tick
      <3> DEFINE s == Passed(jobs[j].scheduled_time, 0)
                 t == IF jobs[j].node_timeout = NULL
                        THEN NULL ELSE Passed(jobs[j].node_timeout, -1)
      <3>1. s \in 0..AgainDelay /\ t \in -1..Timeout \cup {NULL}
        BY PassedTypes DEF TypeOK, Row
      <3>2. jobs'[j] = [jobs[j] EXCEPT !.scheduled_time = s, !.node_timeout = t]
        BY <1>3 DEF Tick, TypeOK, Row
      <3> HIDE DEF s, t
      <3> QED
        BY <3>1, <3>2 DEF TypeOK, Row
    <2>2. operators' \in [Nodes -> SUBSET WorkshopOperator]
      <3> SUFFICES ASSUME NEW n \in Nodes, NEW o \in operators[n]
                   PROVE  [o EXCEPT !.timeout_event = Passed(@, NoTimer)] \in WorkshopOperator
        BY <1>3 DEF Tick
      <3>1. Passed(o.timeout_event, NoTimer) \in NoTimer..(Timeout + MaxLag)
        BY PassedTypes DEF TypeOK, WorkshopOperator
      <3> QED
        BY <3>1 DEF TypeOK, WorkshopOperator
    <2> QED
      BY <1>3, <2>1, <2>2 DEF Tick, TypeOK
  <1>4. ASSUME NEW n \in Nodes, NodeStep(n)
        PROVE  TypeOK'
    <2>1. CASE OnConnect(n)
      BY <2>1, RowTypes DEF OnConnect, TypeOK
    <2>2. CASE OnDisconnect(n)
      BY <2>2 DEF OnDisconnect, Fault, TypeOK
    <2>3. CASE Crash(n)
      BY <2>3 DEF Crash, Fault, TypeOK
    <2>4. CASE ExpireJobs(n)
      BY <2>4, RowTypes DEF ExpireJobs, TypeOK
    <2>5. CASE SelectNewJobs(n)
      BY <2>5 DEF SelectNewJobs, TypeOK
    <2>6. CASE ReapFinishedJobs(n)
      <3>1. \A j \in Jobs : [jobs[j] EXCEPT !.state = "reaped"] \in Row
        BY DEF TypeOK, Row
      <3> QED
        BY <2>6, <3>1 DEF ReapFinishedJobs, TypeOK
    <2>7. ASSUME NEW j \in Jobs, NEW lag \in 0..MaxLag, ClaimJob(n, j, lag)
          PROVE  TypeOK'
      <3>1. NewOperator(j, lag) \in WorkshopOperator
        BY Ranges DEF NewOperator, WorkshopOperator, TypeOK
      <3>2. claim_job(jobs[j], n) \in Row
        BY RowTypes DEF TypeOK
      <3> QED
        BY <2>7, <3>1, <3>2 DEF ClaimJob, TypeOK
    <2>8. ASSUME NEW j \in Jobs, ClaimMiss(n, j)
          PROVE  TypeOK'
      BY <2>8 DEF ClaimMiss, TypeOK
    <2>9. ASSUME NEW j \in Jobs, ClaimAnswerLost(n, j)
          PROVE  TypeOK'
      <3>1. claim_job(jobs[j], n) \in Row
        BY RowTypes DEF TypeOK
      <3> QED
        BY <2>9, <3>1 DEF ClaimAnswerLost, Fault, TypeOK
    <2>10. ASSUME NEW j \in Jobs, NEW ok \in BOOLEAN, CancelJob(n, j, ok)
           PROVE  TypeOK'
      <3>1. faults' \in Nat /\ unstored' \in [Nodes -> SUBSET Jobs]
        BY <2>10 DEF CancelJob, SetJobDone, Ended, Outcome, Fault, TypeOK
      <3> QED
        BY <2>10, <3>1, RowTypes
        DEF CancelJob, SetJobDone, RemoveOperators, ExitStatus, TypeOK
    <2>11. ASSUME NEW o \in operators[n], NEW ok \in BOOLEAN, OperatorStep(n, o, ok)
           PROVE  TypeOK'
      <3>1. o \in WorkshopOperator /\ o.job \in Jobs
        BY DEF TypeOK, WorkshopOperator
      <3>0. Outcome(n, ok) => faults' \in Nat
        BY DEF Outcome, Fault, TypeOK
      <3>6. Ended(n, o.job, ok) => unstored' \in [Nodes -> SUBSET Jobs]
        BY <3>1 DEF Ended, TypeOK
      <3>2. ASSUME NEW lag \in 0..MaxLag, OnProgress(n, o, lag, ok)
            PROVE  TypeOK'
        <4>1. [o EXCEPT !.timeout_event = ScheduleTimeout(o.job, lag), !.behind = ~ok]
                \in WorkshopOperator
          BY <3>1, Ranges DEF WorkshopOperator
        <4>2. set_job_progress(jobs[o.job]) \in Row
          BY <3>1, RowTypes DEF TypeOK
        <4> QED
          BY <3>0, <3>1, <3>2, <4>1, <4>2 DEF OnProgress, TypeOK
      <3>3. ASSUME NEW status \in {"exited", "failed"}, OnExit(n, o, status, ok)
            PROVE  TypeOK'
        BY <3>0, <3>1, <3>3, <3>6, RowTypes
        DEF OnExit, SetJobDone, Ended, RemoveOperators, ExitStatus, TypeOK
      <3>4. CASE OnTimeout(n, o, ok)
        BY <3>0, <3>1, <3>4, <3>6, RowTypes
        DEF OnTimeout, SetJobDone, Ended, RemoveOperators, ExitStatus, TypeOK
      <3>5. ASSUME NEW delay \in {0, AgainDelay}, AgainJob(n, o, delay, ok)
            PROVE  TypeOK'
        BY <3>0, <3>1, <3>5, <3>6, RowTypes DEF AgainJob, Ended, RemoveOperators, TypeOK
      <3> QED
        BY <2>11, <3>2, <3>3, <3>4, <3>5 DEF OperatorStep
    <2>12. CASE RunFails(n)
      BY <2>12 DEF RunFails, Fault, TypeOK
    <2> QED
      BY <1>4, <2>1, <2>2, <2>3, <2>4, <2>5, <2>6, <2>7, <2>8, <2>9, <2>10, <2>11,
         <2>12
      DEF NodeStep
  <1>5. CASE UNCHANGED vars
    BY <1>5 DEF vars, TypeOK
  <1> QED
    BY <1>1, <1>2, <1>3, <1>4, <1>5 DEF Next, ClientStep

\* Every variable keeps its type; no time stamp lies further away than the
\* interval that the code adds to now().
THEOREM TypeCorrect == Spec => []TypeOK
  BY TypeInit, TypeStep, PTL DEF Spec
(***************************************************************************)
(* The inductive invariant.  Steps that finish a job (an exit, a timeout,  *)
(* a cancellation) share one argument, and so do the steps that take jobs  *)
(* away from a node (connecting, expiring).                                *)
(***************************************************************************)
Props == /\ TableShape /\ OperatorShape
         /\ ExclusiveExecution /\ StartsAccounted
         /\ ReadyNodeRunsItsClaims /\ TimerFollowsClaim

\* SetJobDone, for the exit, the timeout or the cancelation of a job, and the end
\* of its operator preserve the invariant.
LEMMA FinishStep ==
  ASSUME IInv,
         NEW n \in Nodes, NEW j \in Jobs, NEW status \in ExitStatus,
         NEW ops \in SUBSET operators[n], ops # {}, \A o \in ops : o.job = j,
         NEW ok \in BOOLEAN, SetJobDone(n, j, status, ok), RemoveOperators(n, ops),
         UNCHANGED <<conn, rows, starts, agains, disturbed>>
  PROVE  Props'
  <1>1. /\ \A m \in Nodes : operators'[m] \subseteq operators[m]
        /\ \A m \in Nodes : m # n => operators'[m] = operators[m]
        /\ \A o \in operators[n] : o \notin ops => o \in operators'[n]
        /\ \A o \in operators'[n] : o \notin ops
    BY DEF RemoveOperators, IInv, TypeOK
  <1>2. \A k \in Jobs :
          /\ jobs'[k].state = jobs[k].state
          /\ jobs'[k].node_name = jobs[k].node_name
          /\ jobs'[k].node_timeout = jobs[k].node_timeout
          /\ k # j => jobs'[k] = jobs[k]
          /\ Done(jobs[k]) => Done(jobs'[k])
    BY ClusterAssumption DEF SetJobDone, set_job_done, Done, IInv, TypeOK, Row
  <1>3. /\ Live(jobs[j]) => Done(jobs'[j]) \/ j \in unstored'[n]
        /\ \A m \in Nodes : unstored[m] \subseteq unstored'[m]
    BY ClusterAssumption
    DEF SetJobDone, Ended, set_job_done, Done, Live, IInv, TypeOK, Row
  <1>4. \A m \in Nodes : \A o \in operators[m] : o.job \in Jobs
    BY DEF IInv, TypeOK, WorkshopOperator
  <1>5. j \notin disturbed => \A m \in Nodes : \A o \in operators'[m] : o.job # j
    BY <1>1 DEF IInv, ExclusiveExecution
  <1>6. TableShape'
    <2>1. j \notin disturbed => ~Free(jobs[j])
      BY <1>1, ClusterAssumption DEF IInv, OperatorShape, Executes, release_jobs_where, Free
    <2> QED
      BY <1>2, <2>1 DEF IInv, TableShape, Free
  <1>7. OperatorShape'
    BY <1>1, <1>2, <1>4, <1>5 DEF IInv, OperatorShape, Executes, release_jobs_where
  <1>8. ExclusiveExecution'
    BY <1>1 DEF IInv, ExclusiveExecution
  <1>9. StartsAccounted'
    BY <1>2 DEF IInv, StartsAccounted, Free
  <1>10. ReadyNodeRunsItsClaims'
    <2> SUFFICES ASSUME NEW m \in Nodes, NEW k \in Jobs,
                        Ready(m), release_jobs_where(jobs'[k], m), k \notin unstored'[m]
                 PROVE  \E o \in operators'[m] : o.job = k /\ Executes(m, o)'
      BY DEF ReadyNodeRunsItsClaims, Ready
    <2>1. release_jobs_where(jobs[k], m)
      BY <1>2 DEF release_jobs_where, Live
    <2>2. PICK o \in operators[m] : o.job = k /\ Executes(m, o)
      BY <1>3, <2>1 DEF IInv, ReadyNodeRunsItsClaims
    <2>3. o \in operators'[m]
      <3>1. CASE m = n /\ k = j
        BY <1>3, <3>1, <2>1 DEF release_jobs_where
      <3>2. CASE m = n /\ k # j
        BY <1>1, <2>2, <3>2
      <3> QED
        BY <1>1, <3>1, <3>2
    <2> QED
      BY <2>2, <2>3 DEF Executes
  <1>11. TimerFollowsClaim'
    BY <1>1, <1>2, <1>4
    DEF IInv, TimerFollowsClaim, Executes, release_jobs_where, Live, Ready
  <1> QED
    BY <1>6, <1>7, <1>8, <1>9, <1>10, <1>11 DEF Props

\* release_jobs and expire_jobs, which take jobs away from nodes, preserve the
\* invariant.
LEMMA ReleaseStep ==
  ASSUME IInv,
         NEW S \in SUBSET Jobs, \A j \in S : jobs[j].state = "live",
         jobs' = [j \in Jobs |-> IF j \in S THEN release(jobs[j]) ELSE jobs[j]],
         disturbed' = disturbed \cup S,
         \A n \in Nodes : Ready(n)' /\ ~Ready(n)
            => \A j \in Jobs : release_jobs_where(jobs[j], n) => j \in S,
         \A n \in Nodes : ~Ready(n)' \/ unstored'[n] = unstored[n] \/ ~Ready(n),
         UNCHANGED <<operators, starts, agains>>
  PROVE  Props'
  <1>1. /\ \A j \in Jobs : j \notin S => jobs'[j] = jobs[j]
        /\ \A j \in S : /\ Free(jobs'[j]) /\ jobs'[j].state = "live"
                        /\ jobs'[j].exit_status = jobs[j].exit_status
    BY DEF release, Free, IInv, TypeOK, Row
  <1>2. \A m \in Nodes : \A o \in operators[m] : o.job \in Jobs
    BY DEF IInv, TypeOK, WorkshopOperator
  <1>3. \A j \in S, m \in Nodes : ~release_jobs_where(jobs'[j], m)
    BY <1>1, ClusterAssumption DEF release_jobs_where, Free
  <1>4. TableShape'
    BY <1>1 DEF IInv, TableShape
  <1>5. OperatorShape'
    BY <1>1, <1>2 DEF IInv, OperatorShape, Executes
  <1>6. ExclusiveExecution'
    BY DEF IInv, ExclusiveExecution
  <1>7. StartsAccounted'
    BY <1>1 DEF IInv, StartsAccounted
  <1>8. ReadyNodeRunsItsClaims'
    BY <1>1, <1>2, <1>3 DEF IInv, ReadyNodeRunsItsClaims, Executes
  <1>9. TimerFollowsClaim'
    BY <1>1, <1>2, <1>3 DEF IInv, TimerFollowsClaim, Executes
  <1> QED
    BY <1>4, <1>5, <1>6, <1>7, <1>8, <1>9 DEF Props

\* The clock preserves the invariant: the operator's timer outlasts the node_timeout of
\* its row by no more than before.
LEMMA TickStep ==
  ASSUME IInv, Tick
  PROVE  Props'
  <1> DEFINE Aged(o) == [o EXCEPT !.timeout_event = Passed(@, NoTimer)]
  <1>1. \A n \in Nodes : operators'[n] = {Aged(o) : o \in operators[n]}
    BY DEF Tick
  <1>2. \A n \in Nodes : \A o \in operators[n] :
          /\ o.job \in Jobs
          /\ Aged(o).job = o.job /\ Aged(o).nr = o.nr /\ Aged(o).behind = o.behind
          /\ 0 <= o.timeout_event => /\ 0 <= Aged(o).timeout_event
                                     /\ Aged(o).timeout_event = o.timeout_event - 1
    <2> TAKE n \in Nodes
    <2> TAKE o \in operators[n]
    <2>0. o.timeout_event # 0
      BY DEF Tick
    <2>1. o.job \in Jobs /\ o \in WorkshopOperator /\ o.timeout_event \in Int
      BY ClusterAssumption DEF NoTimer, IInv, TypeOK, WorkshopOperator
    <2>2. 0 <= o.timeout_event => Passed(o.timeout_event, NoTimer) = o.timeout_event - 1
      BY <2>0, <2>1 DEF Passed, NoTimer
    <2>3. /\ Aged(o).job = o.job /\ Aged(o).nr = o.nr /\ Aged(o).behind = o.behind
          /\ Aged(o).timeout_event = Passed(o.timeout_event, NoTimer)
      BY <2>1 DEF WorkshopOperator
    <2> QED
      BY <2>0, <2>1, <2>2, <2>3
  <1>3. \A j \in Jobs :
          /\ jobs'[j].state = jobs[j].state
          /\ jobs'[j].node_name = jobs[j].node_name
          /\ jobs'[j].exit_status = jobs[j].exit_status
          /\ (jobs'[j].node_timeout = NULL) = (jobs[j].node_timeout = NULL)
          /\ jobs[j].node_timeout # NULL => jobs[j].node_timeout - 1 <= jobs'[j].node_timeout
          /\ jobs[j].node_timeout # NULL => jobs[j].node_timeout \in Int
          /\ jobs[j].node_timeout # NULL => jobs'[j].node_timeout \in Int
    <2> TAKE j \in Jobs
    <2> DEFINE s == Passed(jobs[j].scheduled_time, 0)
               t == IF jobs[j].node_timeout = NULL
                      THEN NULL ELSE Passed(jobs[j].node_timeout, -1)
    <2>1. jobs'[j] = [jobs[j] EXCEPT !.scheduled_time = s, !.node_timeout = t]
      BY DEF Tick, IInv, TypeOK, Row
    <2>2. jobs[j] \in Row /\ jobs[j].node_timeout \in -1..Timeout \cup {NULL}
      BY DEF IInv, TypeOK, Row
    <2>3. /\ (t = NULL) = (jobs[j].node_timeout = NULL)
          /\ jobs[j].node_timeout # NULL => /\ jobs[j].node_timeout - 1 <= t
                                            /\ jobs[j].node_timeout \in Int /\ t \in Int
      BY <2>2, ClusterAssumption DEF Passed
    <2> HIDE DEF s, t
    <2> QED
      BY <2>1, <2>2, <2>3 DEF Row
  <1> HIDE DEF Aged
  <1>4. UNCHANGED <<conn, starts, agains, disturbed, unstored>>
    BY DEF Tick
  <1>5. \A n \in Nodes : \A o \in operators[n] : Executes(n, Aged(o))' <=> Executes(n, o)
    BY <1>2, <1>3, <1>4 DEF Executes, release_jobs_where, Live, Done
  <1>6. TableShape'
    BY <1>3, <1>4 DEF IInv, TableShape, Free, Done
  <1>7. OperatorShape'
    BY <1>1, <1>2, <1>4, <1>5 DEF IInv, OperatorShape
  <1>8. ExclusiveExecution'
    BY <1>1, <1>2, <1>4 DEF IInv, ExclusiveExecution
  <1>9. StartsAccounted'
    BY <1>3, <1>4 DEF IInv, StartsAccounted, Free
  <1>10. ReadyNodeRunsItsClaims'
    BY <1>1, <1>2, <1>3, <1>4, <1>5
    DEF IInv, ReadyNodeRunsItsClaims, Ready, release_jobs_where, Live, Done
  <1>11. TimerFollowsClaim'
    <2> SUFFICES ASSUME NEW n \in Nodes, NEW o \in operators[n],
                        o.job \in TimedJobs, Executes(n, o), ~o.behind
                 PROVE  Aged(o).timeout_event <= jobs'[o.job].node_timeout + MaxLag
      BY <1>1, <1>2, <1>4, <1>5 DEF TimerFollowsClaim
    <2>1. /\ 0 <= o.timeout_event
          /\ o.timeout_event <= jobs[o.job].node_timeout + MaxLag
      BY DEF IInv, OperatorShape, TimerFollowsClaim
    <2>3. o.timeout_event \in Int
      BY ClusterAssumption DEF IInv, TypeOK, WorkshopOperator, NoTimer
    <2>2. jobs[o.job].node_timeout # NULL
      BY <1>2, ClusterAssumption
      DEF IInv, TableShape, Free, Executes, release_jobs_where
    <2> QED
      BY <1>2, <1>3, <2>1, <2>2, <2>3, ClusterAssumption
  <1> QED
    BY <1>6, <1>7, <1>8, <1>9, <1>10, <1>11 DEF Props

\* A progress report, which refreshes the row (or fails to) and the timer, preserves
\* the invariant.
LEMMA ProgressStep ==
  ASSUME IInv, NEW n \in Nodes, NEW o \in operators[n],
         NEW lag \in 0..MaxLag, NEW ok \in BOOLEAN, OnProgress(n, o, lag, ok)
  PROVE  Props'
  <1> DEFINE q == [o EXCEPT !.timeout_event = ScheduleTimeout(o.job, lag), !.behind = ~ok]
  <1>1. /\ operators'[n] = (operators[n] \ {o}) \cup {q}
        /\ \A m \in Nodes : m # n => operators'[m] = operators[m]
    BY DEF OnProgress, IInv, TypeOK
  <1>2. /\ q.job = o.job /\ q.nr = o.nr /\ o.job \in Jobs
        /\ q.behind = ~ok
        /\ o.job \in TimedJobs => q.timeout_event = Timeout + lag
        /\ \A m \in Nodes : \A x \in operators[m] :
             x.job \in Jobs /\ x.timeout_event \in Int /\ x.timeout_event <= Timeout + MaxLag
    BY ClusterAssumption DEF IInv, TypeOK, WorkshopOperator, NoTimer, ScheduleTimeout
  <1>3. \A j \in Jobs :
          /\ jobs'[j].state = jobs[j].state
          /\ jobs'[j].node_name = jobs[j].node_name
          /\ jobs'[j].exit_status = jobs[j].exit_status
          /\ \/ jobs'[j].node_timeout = jobs[j].node_timeout
             \/ jobs'[j].node_timeout = Timeout
    BY DEF OnProgress, set_job_progress, IInv, TypeOK, Row
  <1>4. ok /\ Live(jobs[o.job]) => jobs'[o.job].node_timeout = Timeout
    BY <1>2 DEF OnProgress, set_job_progress, IInv, TypeOK, Row
  <1>5. UNCHANGED <<conn, starts, agains, disturbed, unstored>>
    BY DEF OnProgress
  <1> HIDE DEF q
  <1>6. TableShape'
    BY <1>3, <1>5, ClusterAssumption DEF IInv, TableShape, Free, Done
  <1>7. OperatorShape'
    BY <1>1, <1>2, <1>3, <1>5, ClusterAssumption
    DEF IInv, OperatorShape, Executes, release_jobs_where, Live, Done
  <1>8. ExclusiveExecution'
    BY <1>1, <1>2, <1>5 DEF IInv, ExclusiveExecution
  <1>9. StartsAccounted'
    BY <1>3, <1>5 DEF IInv, StartsAccounted, Free
  <1>10. ReadyNodeRunsItsClaims'
    <2> SUFFICES ASSUME NEW m \in Nodes, NEW k \in Jobs,
                        Ready(m), release_jobs_where(jobs[k], m), k \notin unstored[m]
                 PROVE  \E x \in operators'[m] : x.job = k /\ x.nr = starts[k]
      BY <1>3, <1>5
      DEF ReadyNodeRunsItsClaims, Ready, Executes, release_jobs_where, Live, Done
    <2>1. PICK x \in operators[m] : x.job = k /\ x.nr = starts[k]
      BY DEF IInv, ReadyNodeRunsItsClaims, Executes
    <2>2. CASE m = n /\ x = o
      BY <1>1, <1>2, <2>1, <2>2
    <2> QED
      BY <1>1, <2>1, <2>2
  <1>11. TimerFollowsClaim'
    <2> SUFFICES ASSUME NEW m \in Nodes, NEW x \in operators'[m],
                        x.job \in TimedJobs, Executes(m, x)', ~x.behind
                 PROVE  x.timeout_event <= jobs'[x.job].node_timeout + MaxLag
      BY DEF TimerFollowsClaim
    <2>1. CASE m = n /\ x = q
      <3>1. jobs'[o.job].node_timeout = Timeout
        BY <1>2, <1>3, <1>4, <2>1 DEF Executes, release_jobs_where, Live
      <3> QED
        BY <1>2, <2>1, <3>1, ClusterAssumption
    <2>2. CASE x \in operators[m]
      <3>1. x.job \in Jobs /\ Executes(m, x)
        BY <1>2, <1>3, <1>5, <2>2 DEF Executes, release_jobs_where, Live, Done
      <3>2. x.timeout_event <= jobs[x.job].node_timeout + MaxLag
        BY <2>2, <3>1 DEF IInv, TimerFollowsClaim
      <3> QED
        BY <1>2, <1>3, <2>2, <3>1, <3>2
    <2> QED
      BY <1>1, <2>1, <2>2
  <1> QED
    BY <1>6, <1>7, <1>8, <1>9, <1>10, <1>11 DEF Props

\* A claim that succeeds, and the operator it starts, preserve the invariant.
LEMMA ClaimStep ==
  ASSUME IInv, NEW n \in Nodes, NEW j \in Jobs, NEW lag \in 0..MaxLag, ClaimJob(n, j, lag)
  PROVE  Props'
  <1> DEFINE q == NewOperator(j, lag)
  <1>1. /\ operators'[n] = operators[n] \cup {q}
        /\ \A m \in Nodes : m # n => operators'[m] = operators[m]
    BY DEF ClaimJob, IInv, TypeOK
  <1>2. /\ q.job = j /\ q.nr = starts[j] + 1
        /\ j \in TimedJobs => q.timeout_event = Timeout + lag
    BY DEF NewOperator, ScheduleTimeout
  <1>3. /\ starts'[j] = starts[j] + 1 /\ starts[j] \in Nat
        /\ \A k \in Jobs : k # j => starts'[k] = starts[k]
    BY DEF ClaimJob, IInv, TypeOK
  <1>4. /\ \A k \in Jobs : k # j => jobs'[k] = jobs[k]
        /\ jobs'[j].state = "live" /\ jobs'[j].node_name = n
        /\ jobs'[j].exit_status = jobs[j].exit_status
        /\ jobs'[j].node_timeout = Timeout
        /\ Live(jobs[j]) /\ Free(jobs[j])
    BY DEF ClaimJob, claim_job_where, claim_job, Live, IInv, TypeOK, Row
  <1>5. \A m \in Nodes : \A o \in operators[m] :
          o.job \in Jobs /\ o.nr \in Nat /\ o.nr <= starts[o.job]
    BY DEF IInv, OperatorShape, TypeOK, WorkshopOperator
  <1>6. /\ UNCHANGED <<conn, agains, disturbed>>
        /\ \A m \in Nodes, k \in Jobs : k # j /\ k \in unstored[m] => k \in unstored'[m]
    BY DEF ClaimJob, IInv, TypeOK
  <1>7. j \notin disturbed =>
          ~Done(jobs[j]) /\ \A m \in Nodes : \A o \in operators[m] : o.job # j
    BY <1>4, ClusterAssumption
    DEF IInv, TableShape, OperatorShape, Executes, release_jobs_where, Free
  <1> HIDE DEF q
  <1>8. TableShape'
    BY <1>4, <1>6, ClusterAssumption DEF IInv, TableShape, Free, Done
  <1>9. OperatorShape'
    <2> SUFFICES ASSUME NEW m \in Nodes, NEW o \in operators'[m]
                 PROVE  /\ o.nr <= starts'[o.job]
                        /\ o.job \in TimedJobs => 0 <= o.timeout_event
                        /\ o.job \notin disturbed => Executes(m, o)'
      BY <1>6 DEF OperatorShape
    <2>1. CASE m = n /\ o = q
      BY <1>2, <1>3, <1>4, <1>7, <2>1, ClusterAssumption
      DEF Executes, release_jobs_where, Live, Done
    <2>2. CASE o \in operators[m]
      BY <1>3, <1>4, <1>5, <1>7, <2>2 DEF IInv, OperatorShape, Executes
    <2> QED
      BY <1>1, <2>1, <2>2
  <1>10. ExclusiveExecution'
    BY <1>1, <1>2, <1>6, <1>7 DEF IInv, ExclusiveExecution
  <1>11. StartsAccounted'
    BY <1>3, <1>4, <1>6, ClusterAssumption DEF IInv, StartsAccounted, Free, TypeOK
  <1>12. ReadyNodeRunsItsClaims'
    <2> SUFFICES ASSUME NEW m \in Nodes, NEW k \in Jobs,
                        Ready(m), release_jobs_where(jobs'[k], m), k \notin unstored'[m]
                 PROVE  \E o \in operators'[m] : o.job = k /\ o.nr = starts'[k]
      BY <1>6 DEF ReadyNodeRunsItsClaims, Ready, Executes
    <2>1. CASE k = j
      BY <1>1, <1>2, <1>3, <1>4, <2>1 DEF release_jobs_where
    <2>2. CASE k # j
      BY <1>1, <1>3, <1>4, <1>6, <2>2 DEF IInv, ReadyNodeRunsItsClaims, Executes
    <2> QED
      BY <2>1, <2>2
  <1>13. TimerFollowsClaim'
    BY <1>1, <1>2, <1>3, <1>4, <1>5, <1>6, ClusterAssumption
    DEF IInv, TimerFollowsClaim, Executes
  <1> QED
    BY <1>8, <1>9, <1>10, <1>11, <1>12, <1>13 DEF Props

\* A claim whose answer is lost leaves the row claimed and the node disconnected;
\* this preserves the invariant.
LEMMA AnswerLostStep ==
  ASSUME IInv, NEW n \in Nodes, NEW j \in Jobs, ClaimAnswerLost(n, j)
  PROVE  Props'
  <1> USE ClusterAssumption DEF IInv, TypeOK, Row, WorkshopOperator, Live, Done, Free,
            ClaimAnswerLost, claim_job_where, claim_job
  <1>1. TableShape'
    BY DEF TableShape
  <1>2. OperatorShape'
    BY DEF OperatorShape, Executes, release_jobs_where
  <1>3. ExclusiveExecution'
    BY DEF ExclusiveExecution
  <1>4. StartsAccounted'
    BY DEF StartsAccounted
  <1>5. ReadyNodeRunsItsClaims'
    BY DEF ReadyNodeRunsItsClaims, Executes, release_jobs_where, Ready
  <1>6. TimerFollowsClaim'
    BY DEF TimerFollowsClaim, OperatorShape, Executes, release_jobs_where, Ready
  <1> QED
    BY <1>1, <1>2, <1>3, <1>4, <1>5, <1>6 DEF Props

\* AgainJob, which puts the job back and ends its operator, preserves the
\* invariant.
LEMMA AgainStep ==
  ASSUME IInv, NEW n \in Nodes, NEW o \in operators[n],
         NEW delay \in {0, AgainDelay}, NEW ok \in BOOLEAN, AgainJob(n, o, delay, ok)
  PROVE  Props'
  <1> DEFINE given == ok /\ again_job_where(jobs[o.job])
  <1>1. /\ operators'[n] = operators[n] \ {o}
        /\ \A m \in Nodes : m # n => operators'[m] = operators[m]
    BY DEF AgainJob, RemoveOperators, IInv, TypeOK
  <1>2. \A m \in Nodes : \A x \in operators[m] : x.job \in Jobs
    BY DEF IInv, TypeOK, WorkshopOperator
  <1>3. /\ \A k \in Jobs : k # o.job \/ ~given => jobs'[k] = jobs[k] /\ agains'[k] = agains[k]
        /\ given => /\ jobs'[o.job].state = jobs[o.job].state
                    /\ Free(jobs'[o.job])
                    /\ jobs'[o.job].exit_status = NULL
                    /\ agains'[o.job] = agains[o.job] + 1
    BY <1>2 DEF AgainJob, again_job_where, again_job, release, Free, Done, IInv, TypeOK, Row
  <1>4. /\ UNCHANGED <<conn, starts, disturbed>>
        /\ \A m \in Nodes : unstored[m] \subseteq unstored'[m]
        /\ ok \/ o.job \in unstored'[n]
    BY <1>2 DEF AgainJob, Ended, IInv, TypeOK
  <1>5. o.job \notin disturbed =>
          /\ ~Free(jobs[o.job])
          /\ \A m \in Nodes : \A x \in operators'[m] : x.job # o.job
    BY <1>1, ClusterAssumption
    DEF IInv, OperatorShape, Executes, release_jobs_where, Free, ExclusiveExecution
  <1>6. given => ~Free(jobs[o.job])
    BY DEF again_job_where
  <1>7. \A m \in Nodes : ok /\ release_jobs_where(jobs[o.job], m) => given
    BY ClusterAssumption DEF release_jobs_where, again_job_where, Free
  <1> HIDE DEF given
  <1>8. TableShape'
    BY <1>2, <1>3, <1>4 DEF IInv, TableShape, Free, Done
  <1>9. OperatorShape'
    <2> SUFFICES ASSUME NEW m \in Nodes, NEW x \in operators'[m]
                 PROVE  /\ x.nr <= starts[x.job]
                        /\ x.job \in TimedJobs => 0 <= x.timeout_event
                        /\ x.job \notin disturbed => Executes(m, x)'
      BY <1>4 DEF OperatorShape
    <2>1. x \in operators[m]
      BY <1>1
    <2> QED
      BY <1>2, <1>3, <1>4, <1>5, <2>1 DEF IInv, OperatorShape, Executes
  <1>10. ExclusiveExecution'
    BY <1>1, <1>4 DEF IInv, ExclusiveExecution
  <1>11. StartsAccounted'
    BY <1>2, <1>3, <1>4, <1>6 DEF IInv, StartsAccounted, TypeOK
  <1>12. ReadyNodeRunsItsClaims'
    <2> SUFFICES ASSUME NEW m \in Nodes, NEW k \in Jobs,
                        Ready(m), release_jobs_where(jobs'[k], m), k \notin unstored'[m]
                 PROVE  \E x \in operators'[m] : x.job = k /\ x.nr = starts[k]
      BY <1>4 DEF ReadyNodeRunsItsClaims, Ready, Executes
    <2>1. k # o.job \/ ~given
      BY <1>3, ClusterAssumption DEF release_jobs_where, Free
    <2>2. PICK x \in operators[m] : x.job = k /\ x.nr = starts[k]
      BY <1>3, <1>4, <2>1 DEF IInv, ReadyNodeRunsItsClaims, Executes
    <2>3. m # n \/ x # o
      BY <1>3, <1>4, <1>7, <2>1, <2>2
    <2> QED
      BY <1>1, <2>2, <2>3
  <1>13. TimerFollowsClaim'
    <2> SUFFICES ASSUME NEW m \in Nodes, NEW x \in operators'[m],
                        x.job \in TimedJobs, Executes(m, x)', ~x.behind
                 PROVE  x.timeout_event <= jobs'[x.job].node_timeout + MaxLag
      BY <1>4 DEF TimerFollowsClaim
    <2>1. x \in operators[m]
      BY <1>1
    <2>2. jobs'[x.job] = jobs[x.job]
      BY <1>2, <1>3, <2>1, ClusterAssumption DEF Executes, release_jobs_where, Free
    <2> QED
      BY <1>4, <2>1, <2>2 DEF IInv, TimerFollowsClaim, Executes
  <1> QED
    BY <1>8, <1>9, <1>10, <1>11, <1>12, <1>13 DEF Props

\* reap_finished_jobs deletes finished rows only, and preserves the invariant.
LEMMA ReapStep ==
  ASSUME IInv, NEW n \in Nodes, ReapFinishedJobs(n)
  PROVE  Props'
  <1>1. PICK S \in SUBSET {j \in Jobs : Live(jobs[j]) /\ Done(jobs[j])} :
          jobs' = [j \in Jobs |-> IF j \in S THEN [jobs[j] EXCEPT !.state = "reaped"]
                                             ELSE jobs[j]]
    BY DEF ReapFinishedJobs
  <1>2. /\ \A j \in Jobs : j \notin S => jobs'[j] = jobs[j]
        /\ \A j \in S : /\ jobs'[j].state = "reaped"
                        /\ jobs'[j].node_name = jobs[j].node_name
                        /\ jobs'[j].node_timeout = jobs[j].node_timeout
                        /\ Done(jobs'[j]) /\ Done(jobs[j])
    BY <1>1 DEF Done, IInv, TypeOK, Row
  <1>3. UNCHANGED <<conn, operators, starts, agains, disturbed, unstored>>
    BY DEF ReapFinishedJobs
  <1>4. \A m \in Nodes, j \in Jobs :
          release_jobs_where(jobs'[j], m) <=> j \notin S /\ release_jobs_where(jobs[j], m)
    BY <1>2 DEF release_jobs_where
  <1>5. \A m \in Nodes : \A o \in operators[m] : o.job \in Jobs
    BY DEF IInv, TypeOK, WorkshopOperator
  <1>6. TableShape'
    BY <1>2, <1>3 DEF IInv, TableShape, Free
  <1>7. OperatorShape'
    BY <1>2, <1>3, <1>4, <1>5 DEF IInv, OperatorShape, Executes, release_jobs_where
  <1>8. ExclusiveExecution'
    BY <1>3 DEF IInv, ExclusiveExecution
  <1>9. StartsAccounted'
    BY <1>2, <1>3 DEF IInv, StartsAccounted, Free
  <1>10. ReadyNodeRunsItsClaims'
    BY <1>2, <1>3, <1>4, <1>5 DEF IInv, ReadyNodeRunsItsClaims, Executes, Ready
  <1>11. TimerFollowsClaim'
    BY <1>2, <1>3, <1>4, <1>5 DEF IInv, TimerFollowsClaim, Executes, Ready
  <1> QED
    BY <1>6, <1>7, <1>8, <1>9, <1>10, <1>11 DEF Props

\* Every step preserves the invariant.
LEMMA PropsStep == IInv /\ [Next]_vars => Props'
  <1> SUFFICES ASSUME IInv, [Next]_vars
               PROVE  Props'
    OBVIOUS
  <1>0. \A m \in Nodes : \A o \in operators[m] : o.job \in Jobs
    BY DEF IInv, TypeOK, WorkshopOperator
  <1>1. ASSUME NEW j \in Jobs, InsertJob(j)
        PROVE  Props'
    <2>1. PICK delay \in {0, AgainDelay} :
            jobs' = [jobs EXCEPT ![j].state = "live", ![j].scheduled_time = delay]
      BY <1>1 DEF InsertJob
    <2>2. /\ \A k \in Jobs : k # j => jobs'[k] = jobs[k]
          /\ jobs[j].state = "new"
          /\ jobs'[j].state = "live"
          /\ jobs'[j].node_name = jobs[j].node_name
          /\ jobs'[j].node_timeout = jobs[j].node_timeout
          /\ jobs'[j].exit_status = jobs[j].exit_status
      BY <1>1, <2>1 DEF InsertJob, IInv, TypeOK, Row
    <2>3. \A m \in Nodes : ~release_jobs_where(jobs[j], m) /\ ~release_jobs_where(jobs'[j], m)
      BY <2>2, ClusterAssumption DEF release_jobs_where, Live, IInv, TableShape, Free
    <2>4. UNCHANGED <<conn, operators, starts, agains, disturbed, unstored>>
      BY <1>1 DEF InsertJob
    <2>5. TableShape'
      BY <2>2, <2>4 DEF IInv, TableShape, Free, Done
    <2>6. OperatorShape'
      BY <1>0, <2>2, <2>3, <2>4 DEF IInv, OperatorShape, Executes
    <2>7. ExclusiveExecution' /\ StartsAccounted'
      BY <2>2, <2>4 DEF IInv, ExclusiveExecution, StartsAccounted, Free
    <2>8. ReadyNodeRunsItsClaims' /\ TimerFollowsClaim'
      BY <1>0, <2>2, <2>3, <2>4
      DEF IInv, ReadyNodeRunsItsClaims, TimerFollowsClaim, Executes, Ready
    <2> QED
      BY <2>5, <2>6, <2>7, <2>8 DEF Props
  <1>2. ASSUME NEW j \in Jobs, SetEnabled(j)
        PROVE  Props'
    <2>1. \A k \in Jobs : /\ jobs'[k].state = jobs[k].state
                          /\ jobs'[k].node_name = jobs[k].node_name
                          /\ jobs'[k].node_timeout = jobs[k].node_timeout
                          /\ jobs'[k].exit_status = jobs[k].exit_status
      BY <1>2 DEF SetEnabled, IInv, TypeOK, Row
    <2>2. UNCHANGED <<conn, operators, starts, agains, disturbed, unstored>>
      BY <1>2 DEF SetEnabled
    <2> QED
      BY <1>0, <2>1, <2>2
      DEF IInv, Props, TableShape, OperatorShape, ExclusiveExecution, StartsAccounted,
          ReadyNodeRunsItsClaims, TimerFollowsClaim, Executes, release_jobs_where,
          Live, Free, Done, Ready
  <1>3. CASE Tick
    BY <1>3, TickStep
  <1>4. ASSUME NEW n \in Nodes, NodeStep(n)
        PROVE  Props'
    <2>1. CASE OnConnect(n)
      <3> DEFINE S == {j \in Jobs : release_jobs_where(jobs[j], n)}
      <3>1. S \in SUBSET Jobs /\ \A j \in S : jobs[j].state = "live"
        BY DEF release_jobs_where, Live
      <3>2. \A m \in Nodes : Ready(m)' /\ ~Ready(m)
              => \A j \in Jobs : release_jobs_where(jobs[j], m) => j \in S
        BY <2>1 DEF OnConnect, Ready, IInv, TypeOK
      <3>3. /\ jobs' = [j \in Jobs |-> IF j \in S THEN release(jobs[j]) ELSE jobs[j]]
            /\ disturbed' = disturbed \cup S
            /\ UNCHANGED <<operators, starts, agains>>
        BY <2>1 DEF OnConnect
      <3>4. \A m \in Nodes : ~Ready(m)' \/ unstored'[m] = unstored[m] \/ ~Ready(m)
        BY <2>1 DEF OnConnect, Ready, IInv, TypeOK
      <3> HIDE DEF S
      <3> QED
        BY <3>1, <3>2, <3>3, <3>4, ReleaseStep
    <2>2. CASE OnDisconnect(n)
      <3>1. UNCHANGED <<jobs, operators, starts, agains, disturbed, unstored>>
        BY <2>2 DEF OnDisconnect
      <3>2. \A m \in Nodes : Ready(m)' => Ready(m)
        BY <2>2 DEF OnDisconnect, Ready, IInv, TypeOK
      <3> QED
        BY <3>1, <3>2
        DEF IInv, Props, TableShape, OperatorShape, ExclusiveExecution, StartsAccounted,
            ReadyNodeRunsItsClaims, TimerFollowsClaim, Executes
    <2>3. CASE Crash(n)
      <3>1. UNCHANGED <<jobs, starts, agains, disturbed>>
        BY <2>3 DEF Crash
      <3>2. /\ \A m \in Nodes : Ready(m)' => m # n /\ Ready(m)
            /\ \A m \in Nodes : m # n => operators'[m] = operators[m]
            /\ \A m \in Nodes : m # n => unstored'[m] = unstored[m]
            /\ operators'[n] = {}
        BY <2>3 DEF Crash, Ready, IInv, TypeOK
      <3> QED
        BY <3>1, <3>2
        DEF IInv, Props, TableShape, OperatorShape, ExclusiveExecution, StartsAccounted,
            ReadyNodeRunsItsClaims, TimerFollowsClaim, Executes
    <2>4. CASE ExpireJobs(n)
      <3> DEFINE S == {j \in Jobs : expire_jobs_where(jobs[j], n)}
      <3>1. S \in SUBSET Jobs /\ \A j \in S : jobs[j].state = "live"
        BY DEF expire_jobs_where, Live
      <3>2. \A m \in Nodes : Ready(m)' => Ready(m)
        BY <2>4 DEF ExpireJobs, Ready
      <3>3. /\ jobs' = [j \in Jobs |-> IF j \in S THEN release(jobs[j]) ELSE jobs[j]]
            /\ disturbed' = disturbed \cup S
            /\ UNCHANGED <<operators, starts, agains>>
        BY <2>4 DEF ExpireJobs
      <3>4. \A m \in Nodes : ~Ready(m)' \/ unstored'[m] = unstored[m] \/ ~Ready(m)
        BY <2>4 DEF ExpireJobs
      <3> HIDE DEF S
      <3> QED
        BY <3>1, <3>2, <3>3, <3>4, ReleaseStep
    <2>5. ASSUME SelectNewJobs(n) \/ RunFails(n) \/ \E j \in Jobs : ClaimMiss(n, j)
          PROVE  Props'
      <3>1. UNCHANGED <<jobs, conn, operators, starts, agains, disturbed, unstored>>
        BY <2>5 DEF SelectNewJobs, RunFails, ClaimMiss
      <3> QED
        BY <3>1
        DEF IInv, Props, TableShape, OperatorShape, ExclusiveExecution, StartsAccounted,
            ReadyNodeRunsItsClaims, TimerFollowsClaim, Executes, Ready
    <2>6. CASE ReapFinishedJobs(n)
      BY <2>6, ReapStep
    <2>7. ASSUME NEW j \in Jobs, NEW lag \in 0..MaxLag, ClaimJob(n, j, lag)
          PROVE  Props'
      BY <2>7, ClaimStep
    <2>8. ASSUME NEW j \in Jobs, ClaimAnswerLost(n, j)
          PROVE  Props'
      BY <2>8, AnswerLostStep
    <2>9. ASSUME NEW j \in Jobs, NEW ok \in BOOLEAN, CancelJob(n, j, ok)
          PROVE  Props'
      <3> DEFINE ops == {o \in operators[n] : o.job = j}
      <3>1. /\ ops \in SUBSET operators[n] /\ ops # {} /\ \A o \in ops : o.job = j
            /\ SetJobDone(n, j, "canceled", ok) /\ RemoveOperators(n, ops)
            /\ UNCHANGED <<conn, rows, starts, agains, disturbed>>
        BY <2>9 DEF CancelJob
      <3>2. "canceled" \in ExitStatus
        BY DEF ExitStatus
      <3> HIDE DEF ops
      <3> QED
        BY <3>1, <3>2, FinishStep
    <2>10. ASSUME NEW o \in operators[n], NEW ok \in BOOLEAN, OperatorStep(n, o, ok)
           PROVE  Props'
      <3>1. ASSUME NEW lag \in 0..MaxLag, OnProgress(n, o, lag, ok)
            PROVE  Props'
        BY <3>1, ProgressStep
      <3>2. ASSUME NEW status \in ExitStatus, SetJobDone(n, o.job, status, ok),
                   RemoveOperators(n, {o}),
                   UNCHANGED <<conn, rows, starts, agains, disturbed>>
            PROVE  Props'
        <4>1. {o} \in SUBSET operators[n] /\ {o} # {} /\ \A x \in {o} : x.job = o.job
          OBVIOUS
        <4> QED
          BY <1>0, <3>2, <4>1, FinishStep
      <3>3. ASSUME NEW status \in {"exited", "failed"}, OnExit(n, o, status, ok)
            PROVE  Props'
        BY <3>2, <3>3 DEF OnExit, ExitStatus
      <3>4. CASE OnTimeout(n, o, ok)
        BY <3>2, <3>4 DEF OnTimeout, ExitStatus
      <3>5. ASSUME NEW delay \in {0, AgainDelay}, AgainJob(n, o, delay, ok)
            PROVE  Props'
        BY <3>5, AgainStep
      <3> QED
        BY <2>10, <3>1, <3>3, <3>4, <3>5 DEF OperatorStep
    <2> QED
      BY <1>4, <2>1, <2>2, <2>3, <2>4, <2>5, <2>6, <2>7, <2>8, <2>9, <2>10 DEF NodeStep
  <1>5. CASE UNCHANGED vars
    BY <1>5
    DEF vars, IInv, Props, TableShape, OperatorShape, ExclusiveExecution, StartsAccounted,
        ReadyNodeRunsItsClaims, TimerFollowsClaim, Executes, Ready
  <1> QED
    BY <1>1, <1>2, <1>3, <1>4, <1>5 DEF Next, ClientStep

\* The invariant holds for an empty table without operators.
LEMMA InvInit == Init => IInv
  BY TypeInit, ClusterAssumption
  DEF Init, IInv, TableShape, OperatorShape, ExclusiveExecution, StartsAccounted,
      ReadyNodeRunsItsClaims, TimerFollowsClaim, release_jobs_where, Live, Free, Done

\* The invariant is inductive.
LEMMA InvStep == IInv /\ [Next]_vars => IInv'
  BY TypeStep, PropsStep DEF IInv, Props

\* The inductive invariant holds in every reachable state.
THEOREM Invariance == Spec => []IInv
  BY InvInit, InvStep, PTL DEF Spec

\* Executions of one job do not overlap anywhere in the cluster, as long as
\* neither release_jobs nor expire_jobs has taken the job from a node.
THEOREM ExclusiveExecutionHolds == Spec => []ExclusiveExecution
  <1>1. IInv => ExclusiveExecution
    BY DEF IInv
  <1> QED
    BY <1>1, Invariance, PTL

\* Such a job is executed exactly once, plus once per "again".
THEOREM StartsAccountedHolds == Spec => []StartsAccounted
  <1>1. IInv => StartsAccounted
    BY DEF IInv
  <1> QED
    BY <1>1, Invariance, PTL

\* A connected node executes every job which the table says it is executing, but for
\* those whose end it has failed to store on the present connection.
THEOREM ReadyNodeRunsItsClaimsHolds == Spec => []ReadyNodeRunsItsClaims
  <1>1. IInv => ReadyNodeRunsItsClaims
    BY DEF IInv
  <1> QED
    BY <1>1, Invariance, PTL

\* The local timer of a plan with a timeout outlasts the job's node_timeout by at most
\* MaxLag, unless the latest progress report could not be stored.
THEOREM TimerFollowsClaimHolds == Spec => []TimerFollowsClaim
  <1>1. IInv => TimerFollowsClaim
    BY DEF IInv
  <1> QED
    BY <1>1, Invariance, PTL

\* The result of a job that was not taken away is never overwritten, and the job
\* is not put back: no late statement of another execution can reach it.
THEOREM ResultIsFinalHolds == Spec => ResultIsFinal
  <1> DEFINE Final == \A j \in Jobs : Done(jobs[j]) /\ j \notin disturbed
                        => jobs'[j].exit_status = jobs[j].exit_status
                           /\ jobs'[j].node_name = jobs[j].node_name
  <1>1. IInv /\ [Next]_vars => Final
    <2> SUFFICES ASSUME IInv, [Next]_vars,
                        NEW j \in Jobs, Done(jobs[j]), j \notin disturbed
                 PROVE  /\ jobs'[j].exit_status = jobs[j].exit_status
                        /\ jobs'[j].node_name = jobs[j].node_name
      OBVIOUS
    <2>1. ~Free(jobs[j]) /\ jobs[j] \in Row
      BY DEF IInv, TableShape, TypeOK
    <2>2. \A n \in Nodes : \A o \in operators[n] : o.job # j /\ o.job \in Jobs
      BY DEF IInv, OperatorShape, Executes, release_jobs_where, TypeOK, WorkshopOperator
    <2>3. jobs \in [Jobs -> Row]
      BY DEF IInv, TypeOK
    <2>4. CASE ClientStep
      BY <2>3, <2>4 DEF ClientStep, InsertJob, SetEnabled, Row
    <2>5. CASE Tick
      BY <2>3, <2>5 DEF Tick, Row
    <2>6. ASSUME NEW n \in Nodes, NodeStep(n)
          PROVE  /\ jobs'[j].exit_status = jobs[j].exit_status
                 /\ jobs'[j].node_name = jobs[j].node_name
      <3>1. CASE OnConnect(n) \/ ExpireJobs(n)
        BY <3>1 DEF OnConnect, ExpireJobs, release_jobs_where, expire_jobs_where
      <3>2. CASE ReapFinishedJobs(n)
        BY <2>1, <3>2 DEF ReapFinishedJobs, Row
      <3>3. CASE \E k \in Jobs :
                   ClaimAnswerLost(n, k) \/ \E lag \in 0..MaxLag : ClaimJob(n, k, lag)
        BY <2>1, <2>3, <3>3 DEF ClaimJob, ClaimAnswerLost, claim_job_where
      <3>4. CASE \/ OnDisconnect(n) \/ Crash(n) \/ SelectNewJobs(n) \/ RunFails(n)
                 \/ \E k \in Jobs : ClaimMiss(n, k)
        BY <3>4 DEF OnDisconnect, Crash, SelectNewJobs, RunFails, ClaimMiss
      <3>5. CASE \E k \in Jobs, ok \in BOOLEAN : CancelJob(n, k, ok)
        BY <2>2, <2>3, <3>5 DEF CancelJob, SetJobDone
      <3>6. CASE \E o \in operators[n], ok \in BOOLEAN : OperatorStep(n, o, ok)
        BY <2>2, <2>3, <3>6
        DEF OperatorStep, OnProgress, OnExit, OnTimeout, AgainJob, SetJobDone
      <3> QED
        BY <2>6, <3>1, <3>2, <3>3, <3>4, <3>5, <3>6 DEF NodeStep
    <2>7. CASE UNCHANGED vars
      BY <2>7 DEF vars
    <2> QED
      BY <2>4, <2>5, <2>6, <2>7 DEF Next
  <1> QED
    BY <1>1, Invariance, PTL DEF Spec, ResultIsFinal

(***************************************************************************)
(* WorkshopCluster implements JobLedger.                                   *)
(***************************************************************************)
\* What the entry of a job is, one line per phase, as the rows and operators
\* determine it.
EntryShape ==
  \A j \in Jobs :
    /\ j \in disturbed => EntryOf(j) = Ledger!TakenEntry
    /\ j \notin disturbed =>
         /\ EntryOf(j) = [phase |-> PhaseOf(j), executor |-> jobs[j].node_name,
                          executions |-> starts[j]]
         /\ jobs[j].state = "new" => PhaseOf(j) = "absent"
         /\ jobs[j].state = "reaped" => PhaseOf(j) = "removed"
         /\ Live(jobs[j]) /\ Done(jobs[j]) => PhaseOf(j) = "done"
         /\ Live(jobs[j]) /\ ~Done(jobs[j]) /\ Free(jobs[j]) => PhaseOf(j) = "waiting"
         /\ Live(jobs[j]) /\ ~Done(jobs[j]) /\ ~Free(jobs[j]) =>
              PhaseOf(j) = IF HasOperator(j) THEN "executing" ELSE "lost"
    /\ EntryOf(j) \in Ledger!Entry

\* The refinement mapping yields ledger entries of the right shape.
LEMMA EntryShapeHolds == TypeOK => EntryShape
  <1> SUFFICES ASSUME TypeOK, NEW j \in Jobs
               PROVE  EntryShape!(j)
    BY DEF EntryShape
  <1>1. /\ jobs[j].state \in {"new", "live", "reaped"}
        /\ jobs[j].node_name \in Nodes \cup {NULL}
        /\ starts[j] \in Nat
    BY DEF TypeOK, Row
  <1>2. /\ jobs[j].state = "new" => PhaseOf(j) = "absent"
        /\ jobs[j].state = "reaped" => PhaseOf(j) = "removed"
        /\ Live(jobs[j]) /\ Done(jobs[j]) => PhaseOf(j) = "done"
        /\ Live(jobs[j]) /\ ~Done(jobs[j]) /\ Free(jobs[j]) => PhaseOf(j) = "waiting"
        /\ Live(jobs[j]) /\ ~Done(jobs[j]) /\ ~Free(jobs[j]) =>
             PhaseOf(j) = IF HasOperator(j) THEN "executing" ELSE "lost"
    BY DEF PhaseOf, Live
  <1>3. PhaseOf(j) \in Ledger!Phase
    BY <1>1, <1>2 DEF Ledger!Phase, Live
  <1> QED
    BY <1>1, <1>2, <1>3 DEF EntryOf, Ledger!TakenEntry, Ledger!Entry, Ledger!Phase

\* An entry does not change when the columns that it shows, the count of starts
\* and the presence of an operator stay as they are.
LEMMA SameEntry ==
  ASSUME TypeOK, TypeOK', NEW j \in Jobs,
         j \in disturbed' <=> j \in disturbed,
         jobs'[j].state = jobs[j].state,
         jobs'[j].node_name = jobs[j].node_name,
         jobs'[j].exit_status = jobs[j].exit_status,
         starts'[j] = starts[j],
         HasOperator(j)' <=> HasOperator(j)
  PROVE  EntryOf(j)' = EntryOf(j)
  <1>1. EntryShape /\ EntryShape'
    BY EntryShapeHolds, PTL
  <1>2. jobs[j].state \in {"new", "live", "reaped"}
    BY DEF TypeOK, Row
  <1> QED
    BY <1>1, <1>2 DEF EntryShape, Live, Done, Free

\* What a step does to the entry of a job: nothing, or one step of the ledger.
EntryMoves(j) ==
  EntryOf(j)' = EntryOf(j) \/ Ledger!EntryStep(EntryOf(j), EntryOf(j)')

\* An undisturbed job with an operator is live, unfinished and claimed.
LEMMA OperatorIsExecution ==
  ASSUME IInv, NEW j \in Jobs, j \notin disturbed, HasOperator(j)
  PROVE  Live(jobs[j]) /\ ~Done(jobs[j]) /\ ~Free(jobs[j])
  BY ClusterAssumption
  DEF HasOperator, IInv, OperatorShape, Executes, release_jobs_where, Free

\* The end of an operator finishes its execution in the ledger when set_job_done
\* reaches the table, and loses it otherwise.
LEMMA FinishMoves ==
  ASSUME IInv, TypeOK',
         NEW n \in Nodes, NEW j \in Jobs, NEW status \in ExitStatus,
         NEW ops \in SUBSET operators[n], ops # {}, \A o \in ops : o.job = j,
         NEW ok \in BOOLEAN, SetJobDone(n, j, status, ok), RemoveOperators(n, ops),
         UNCHANGED <<conn, rows, starts, agains, disturbed>>
  PROVE  \A k \in Jobs : EntryMoves(k)
  <1> TAKE k \in Jobs
  <1>1. TypeOK /\ EntryShape /\ EntryShape'
    BY EntryShapeHolds, PTL DEF IInv
  <1>2. /\ \A m \in Nodes : operators'[m] \subseteq operators[m]
        /\ \A m \in Nodes : m # n => operators'[m] = operators[m]
        /\ \A o \in operators[n] : o \notin ops => o \in operators'[n]
        /\ \A o \in operators'[n] : o \notin ops
    BY <1>1 DEF RemoveOperators, TypeOK
  <1>3. CASE k # j
    <2>1. jobs'[k] = jobs[k]
      BY <1>1, <1>3 DEF SetJobDone, TypeOK
    <2>2. HasOperator(k)' <=> HasOperator(k)
      BY <1>2, <1>3 DEF HasOperator
    <2> QED
      BY <1>1, <2>1, <2>2, SameEntry DEF EntryMoves
  <1>4. CASE k = j /\ j \in disturbed
    BY <1>1, <1>4 DEF EntryShape, EntryMoves
  <1>5. CASE k = j /\ j \notin disturbed
    <2>1. HasOperator(j)
      BY DEF HasOperator
    <2>2. ~HasOperator(j)'
      BY <1>2, <1>5 DEF HasOperator, IInv, ExclusiveExecution
    <2>3. Live(jobs[j]) /\ ~Done(jobs[j]) /\ ~Free(jobs[j])
      BY <1>5, <2>1, OperatorIsExecution
    <2>4. /\ Live(jobs'[j]) /\ ~Free(jobs'[j])
          /\ jobs'[j].node_name = jobs[j].node_name
      BY <1>1, <2>3 DEF SetJobDone, set_job_done, Live, Free, TypeOK, Row
    <2> DEFINE row == [executor |-> jobs[j].node_name, executions |-> starts[j]]
    <2>5. EntryOf(j) = [phase |-> "executing", executor |-> row.executor,
                        executions |-> row.executions]
      BY <1>1, <1>5, <2>1, <2>3 DEF EntryShape
    <2>6. EntryOf(j)' = [phase |-> IF Done(jobs'[j]) THEN "done" ELSE "lost",
                         executor |-> row.executor, executions |-> row.executions]
      BY <1>1, <1>5, <2>2, <2>4 DEF EntryShape
    <2> QED
      BY <1>5, <2>5, <2>6
      DEF EntryMoves, Ledger!EntryStep, Ledger!Finish, Ledger!Lose
  <1> QED
    BY <1>3, <1>4, <1>5

\* release_jobs and expire_jobs take jobs out of the ledger's sight.
LEMMA ReleaseMoves ==
  ASSUME IInv, TypeOK',
         NEW S \in SUBSET Jobs,
         \A j \in S : Live(jobs[j]) /\ ~Done(jobs[j]) /\ ~Free(jobs[j]),
         jobs' = [j \in Jobs |-> IF j \in S THEN release(jobs[j]) ELSE jobs[j]],
         disturbed' = disturbed \cup S,
         UNCHANGED <<operators, starts, agains>>
  PROVE  \A j \in Jobs : EntryMoves(j)
  <1> TAKE j \in Jobs
  <1>1. TypeOK /\ EntryShape /\ EntryShape'
    BY EntryShapeHolds, PTL DEF IInv
  <1>2. CASE j \notin S
    <2>1. HasOperator(j)' <=> HasOperator(j)
      BY DEF HasOperator
    <2> QED
      BY <1>1, <1>2, <2>1, SameEntry DEF EntryMoves
  <1>3. CASE j \in disturbed
    BY <1>1, <1>3 DEF EntryShape, EntryMoves
  <1>4. CASE j \in S /\ j \notin disturbed
    <2>1. EntryOf(j).phase \in {"executing", "lost"}
      BY <1>1, <1>4 DEF EntryShape
    <2>2. EntryOf(j)' = Ledger!TakenEntry
      BY <1>1, <1>4 DEF EntryShape
    <2> QED
      BY <2>1, <2>2 DEF EntryMoves, Ledger!EntryStep, Ledger!Take
  <1> QED
    BY <1>2, <1>3, <1>4

\* A claim starts an execution, whether or not its answer reaches the node.
LEMMA ClaimMoves ==
  ASSUME IInv, TypeOK', NEW n \in Nodes, NEW j \in Jobs,
         ClaimAnswerLost(n, j) \/ \E lag \in 0..MaxLag : ClaimJob(n, j, lag)
  PROVE  \A k \in Jobs : EntryMoves(k)
  <1> TAKE k \in Jobs
  <1>1. TypeOK /\ EntryShape /\ EntryShape'
    BY EntryShapeHolds, PTL DEF IInv
  <1>2. /\ claim_job_where(jobs[j])
        /\ jobs' = [jobs EXCEPT ![j] = claim_job(@, n)]
        /\ starts' = [starts EXCEPT ![j] = @ + 1]
        /\ disturbed' = disturbed
    BY DEF ClaimJob, ClaimAnswerLost
  <1>3. /\ \A m \in Nodes : m # n => operators'[m] = operators[m]
        /\ operators[n] \subseteq operators'[n]
        /\ \A o \in operators'[n] : o \in operators[n] \/ o.job = j
    BY <1>1 DEF ClaimJob, ClaimAnswerLost, NewOperator, TypeOK
  <1>4. CASE k # j
    <2>1. jobs'[k] = jobs[k] /\ starts'[k] = starts[k]
      BY <1>1, <1>2, <1>4 DEF TypeOK
    <2>2. HasOperator(k)' <=> HasOperator(k)
      BY <1>3, <1>4 DEF HasOperator
    <2> QED
      BY <1>1, <1>2, <2>1, <2>2, SameEntry DEF EntryMoves
  <1>5. CASE k = j /\ j \in disturbed
    BY <1>1, <1>2, <1>5 DEF EntryShape, EntryMoves
  <1>6. CASE k = j /\ j \notin disturbed
    <2>1. Live(jobs[j]) /\ ~Done(jobs[j]) /\ Free(jobs[j])
      BY <1>2, <1>6 DEF claim_job_where, IInv, TableShape
    <2>2. /\ Live(jobs'[j]) /\ ~Done(jobs'[j]) /\ jobs'[j].node_name = n
          /\ starts'[j] = starts[j] + 1
      BY <1>1, <1>2, <2>1 DEF claim_job, Live, Done, TypeOK, Row
    <2>3. ~Free(jobs'[j])
      BY <2>2, ClusterAssumption DEF Free
    <2>4. EntryOf(j) = [phase |-> "waiting", executor |-> jobs[j].node_name,
                        executions |-> starts[j]]
      BY <1>1, <1>6, <2>1 DEF EntryShape
    <2>5. EntryOf(j)' = [phase |-> IF HasOperator(j)' THEN "executing" ELSE "lost",
                         executor |-> n, executions |-> starts[j] + 1]
      BY <1>1, <1>2, <1>6, <2>2, <2>3 DEF EntryShape
    <2> QED
      BY <1>6, <2>4, <2>5 DEF EntryMoves, Ledger!EntryStep, Ledger!Start
  <1> QED
    BY <1>4, <1>5, <1>6

\* "again" returns the job when the statement finds it, and loses its execution
\* when it fails.
LEMMA AgainMoves ==
  ASSUME IInv, TypeOK', NEW n \in Nodes, NEW o \in operators[n],
         NEW delay \in {0, AgainDelay}, NEW ok \in BOOLEAN, AgainJob(n, o, delay, ok)
  PROVE  \A k \in Jobs : EntryMoves(k)
  <1> TAKE k \in Jobs
  <1> DEFINE j == o.job
             given == ok /\ again_job_where(jobs[j])
  <1>1. TypeOK /\ EntryShape /\ EntryShape'
    BY EntryShapeHolds, PTL DEF IInv
  <1>2. /\ jobs' = IF given THEN [jobs EXCEPT ![j] = again_job(@, delay)] ELSE jobs
        /\ UNCHANGED <<starts, disturbed>>
    BY DEF AgainJob
  <1>3. j \in Jobs
    BY <1>1 DEF TypeOK, WorkshopOperator
  <1>4. /\ \A m \in Nodes : m # n => operators'[m] = operators[m]
        /\ operators'[n] = operators[n] \ {o}
    BY <1>1 DEF AgainJob, RemoveOperators, TypeOK
  <1>5. CASE k # j
    <2>1. jobs'[k] = jobs[k]
      BY <1>1, <1>2, <1>3, <1>5 DEF TypeOK
    <2>2. HasOperator(k)' <=> HasOperator(k)
      BY <1>4, <1>5 DEF HasOperator
    <2> QED
      BY <1>1, <1>2, <2>1, <2>2, SameEntry DEF EntryMoves
  <1>6. CASE k = j /\ j \in disturbed
    BY <1>1, <1>2, <1>6 DEF EntryShape, EntryMoves
  <1>7. CASE k = j /\ j \notin disturbed
    <2>1. HasOperator(j)
      BY DEF HasOperator
    <2>2. ~HasOperator(j)'
      BY <1>4, <1>7 DEF HasOperator, IInv, ExclusiveExecution
    <2>3. Live(jobs[j]) /\ ~Done(jobs[j]) /\ ~Free(jobs[j])
      BY <1>3, <1>7, <2>1, OperatorIsExecution
    <2>4. EntryOf(j) = [phase |-> "executing", executor |-> jobs[j].node_name,
                        executions |-> starts[j]]
      BY <1>1, <1>3, <1>7, <2>1, <2>3 DEF EntryShape
    <2>5. CASE given
      <3>1. /\ Live(jobs'[j]) /\ ~Done(jobs'[j]) /\ jobs'[j].node_name = NULL
        BY <1>1, <1>2, <1>3, <2>3, <2>5
        DEF again_job, release, Live, Done, TypeOK, Row
      <3>2. EntryOf(j)' = [phase |-> "waiting", executor |-> NULL, executions |-> starts[j]]
        BY <1>1, <1>2, <1>3, <1>7, <3>1 DEF EntryShape, Free
      <3> DEFINE waiting == [EntryOf(j) EXCEPT !.phase = "waiting"]
      <3>3. waiting = [phase |-> "waiting", executor |-> jobs[j].node_name,
                       executions |-> starts[j]]
        BY <2>4
      <3>4. [waiting EXCEPT !.executor = NULL]
              = [phase |-> "waiting", executor |-> NULL, executions |-> starts[j]]
        <4> HIDE DEF waiting
        <4> QED
          BY <3>3
      <3>5. EntryOf(j)' = [EntryOf(j) EXCEPT !.phase = "waiting", !.executor = NULL]
        BY <3>2, <3>4
      <3>6. Ledger!Return(EntryOf(j), EntryOf(j)')
        BY <2>4, <3>5 DEF Ledger!Return
      <3> QED
        BY <1>7, <3>6 DEF EntryMoves, Ledger!EntryStep
    <2>6. CASE ~given
      <3>1. EntryOf(j)' = [phase |-> "lost", executor |-> jobs[j].node_name,
                           executions |-> starts[j]]
        BY <1>1, <1>2, <1>3, <1>7, <2>2, <2>3, <2>6 DEF EntryShape
      <3> QED
        BY <1>7, <2>4, <3>1 DEF EntryMoves, Ledger!EntryStep, Ledger!Lose
    <2> QED
      BY <2>5, <2>6
  <1> QED
    BY <1>5, <1>6, <1>7

\* Every step of the cluster moves every entry by a step of the ledger, or leaves
\* it alone.
LEMMA EveryEntryMoves ==
  ASSUME IInv, TypeOK', Next
  PROVE  \A j \in Jobs : EntryMoves(j)
  <1>1. TypeOK /\ EntryShape /\ EntryShape'
    BY EntryShapeHolds, PTL DEF IInv
  <1>2. \A m \in Nodes : \A o \in operators[m] : o.job \in Jobs
    BY <1>1 DEF TypeOK, WorkshopOperator
  <1>3. ASSUME NEW j \in Jobs, InsertJob(j), NEW k \in Jobs
        PROVE  EntryMoves(k)
    <2>1. /\ \A i \in Jobs : i # j => jobs'[i] = jobs[i]
          /\ jobs[j].state = "new" /\ jobs'[j].state = "live"
          /\ jobs'[j].node_name = jobs[j].node_name
          /\ jobs'[j].exit_status = jobs[j].exit_status
      BY <1>1, <1>3 DEF InsertJob, TypeOK, Row
    <2>2. UNCHANGED <<operators, starts, disturbed>>
      BY <1>3 DEF InsertJob
    <2>3. HasOperator(k)' <=> HasOperator(k)
      BY <2>2 DEF HasOperator
    <2>4. CASE k # j
      BY <1>1, <2>1, <2>2, <2>3, <2>4, SameEntry DEF EntryMoves
    <2>5. CASE k = j /\ j \in disturbed
      BY <1>1, <2>2, <2>5 DEF EntryShape, EntryMoves
    <2>6. CASE k = j /\ j \notin disturbed
      <3>1. Free(jobs[j]) /\ ~Done(jobs[j])
        BY <2>1, <2>6 DEF IInv, TableShape
      <3>2. Live(jobs'[j]) /\ Free(jobs'[j]) /\ ~Done(jobs'[j])
        BY <2>1, <3>1 DEF Live, Free, Done
      <3>3. EntryOf(j) = [phase |-> "absent", executor |-> jobs[j].node_name,
                          executions |-> starts[j]]
        BY <1>1, <2>1, <2>6 DEF EntryShape
      <3>4. EntryOf(j)' = [phase |-> "waiting", executor |-> jobs[j].node_name,
                           executions |-> starts[j]]
        BY <1>1, <2>1, <2>2, <2>6, <3>2 DEF EntryShape
      <3> QED
        BY <2>6, <3>3, <3>4 DEF EntryMoves, Ledger!EntryStep, Ledger!Insert
    <2> QED
      BY <2>4, <2>5, <2>6
  <1>4. ASSUME NEW j \in Jobs, SetEnabled(j), NEW k \in Jobs
        PROVE  EntryMoves(k)
    <2>1. /\ jobs'[k].state = jobs[k].state
          /\ jobs'[k].node_name = jobs[k].node_name
          /\ jobs'[k].exit_status = jobs[k].exit_status
      BY <1>1, <1>4 DEF SetEnabled, TypeOK, Row
    <2>2. UNCHANGED <<operators, starts, disturbed>>
      BY <1>4 DEF SetEnabled
    <2>3. HasOperator(k)' <=> HasOperator(k)
      BY <2>2 DEF HasOperator
    <2> QED
      BY <1>1, <2>1, <2>2, <2>3, SameEntry DEF EntryMoves
  <1>5. ASSUME Tick, NEW k \in Jobs
        PROVE  EntryMoves(k)
    <2>1. /\ jobs'[k].state = jobs[k].state
          /\ jobs'[k].node_name = jobs[k].node_name
          /\ jobs'[k].exit_status = jobs[k].exit_status
      <3> DEFINE s == Passed(jobs[k].scheduled_time, 0)
                 t == IF jobs[k].node_timeout = NULL
                        THEN NULL ELSE Passed(jobs[k].node_timeout, -1)
      <3>1. jobs'[k] = [jobs[k] EXCEPT !.scheduled_time = s, !.node_timeout = t]
        BY <1>5 DEF Tick
      <3> HIDE DEF s, t
      <3> QED
        BY <1>1, <3>1 DEF TypeOK, Row
    <2>2. UNCHANGED <<starts, disturbed>>
      BY <1>5 DEF Tick
    <2>3. HasOperator(k)' <=> HasOperator(k)
      <3> DEFINE Aged(o) == [o EXCEPT !.timeout_event = Passed(@, NoTimer)]
      <3>1. \A n \in Nodes : operators'[n] = {Aged(o) : o \in operators[n]}
        BY <1>5 DEF Tick
      <3>2. \A n \in Nodes : \A o \in operators[n] : Aged(o).job = o.job
        BY <1>1 DEF TypeOK, WorkshopOperator
      <3> HIDE DEF Aged
      <3> QED
        BY <3>1, <3>2 DEF HasOperator
    <2> QED
      BY <1>1, <2>1, <2>2, <2>3, SameEntry DEF EntryMoves
  <1>6. ASSUME NEW n \in Nodes, NodeStep(n)
        PROVE  \A k \in Jobs : EntryMoves(k)
    <2>1. CASE OnConnect(n)
      <3> DEFINE S == {j \in Jobs : release_jobs_where(jobs[j], n)}
      <3>1. \A j \in S : Live(jobs[j]) /\ ~Done(jobs[j]) /\ ~Free(jobs[j])
        BY ClusterAssumption DEF release_jobs_where, Free
      <3>2. /\ S \in SUBSET Jobs
            /\ jobs' = [j \in Jobs |-> IF j \in S THEN release(jobs[j]) ELSE jobs[j]]
            /\ disturbed' = disturbed \cup S
            /\ UNCHANGED <<operators, starts, agains>>
        BY <2>1 DEF OnConnect
      <3> HIDE DEF S
      <3> QED
        BY <3>1, <3>2, ReleaseMoves
    <2>2. CASE ExpireJobs(n)
      <3> DEFINE S == {j \in Jobs : expire_jobs_where(jobs[j], n)}
      <3>1. \A j \in S : Live(jobs[j]) /\ ~Done(jobs[j]) /\ ~Free(jobs[j])
        BY DEF expire_jobs_where
      <3>2. /\ S \in SUBSET Jobs
            /\ jobs' = [j \in Jobs |-> IF j \in S THEN release(jobs[j]) ELSE jobs[j]]
            /\ disturbed' = disturbed \cup S
            /\ UNCHANGED <<operators, starts, agains>>
        BY <2>2 DEF ExpireJobs
      <3> HIDE DEF S
      <3> QED
        BY <3>1, <3>2, ReleaseMoves
    <2>3. ASSUME \/ OnDisconnect(n) \/ SelectNewJobs(n) \/ RunFails(n)
                 \/ \E j \in Jobs : ClaimMiss(n, j),
                 NEW k \in Jobs
          PROVE  EntryMoves(k)
      <3>1. UNCHANGED <<jobs, operators, starts, disturbed>>
        BY <2>3 DEF OnDisconnect, SelectNewJobs, RunFails, ClaimMiss
      <3>2. HasOperator(k)' <=> HasOperator(k)
        BY <3>1 DEF HasOperator
      <3> QED
        BY <1>1, <3>1, <3>2, SameEntry DEF EntryMoves
    <2>4. ASSUME Crash(n), NEW k \in Jobs
          PROVE  EntryMoves(k)
      <3>1. UNCHANGED <<jobs, starts, disturbed>>
        BY <2>4 DEF Crash
      <3>2. \A m \in Nodes : operators'[m] \subseteq operators[m]
        BY <1>1, <2>4 DEF Crash, TypeOK
      <3>3. HasOperator(k)' => HasOperator(k)
        BY <3>2 DEF HasOperator
      <3>4. CASE HasOperator(k) => HasOperator(k)'
        BY <1>1, <3>1, <3>3, <3>4, SameEntry DEF EntryMoves
      <3>5. CASE k \in disturbed
        BY <1>1, <3>1, <3>5 DEF EntryShape, EntryMoves
      <3>6. CASE k \notin disturbed /\ HasOperator(k) /\ ~HasOperator(k)'
        <4>1. Live(jobs[k]) /\ ~Done(jobs[k]) /\ ~Free(jobs[k])
          BY <3>6, OperatorIsExecution
        <4>2. EntryOf(k) = [phase |-> "executing", executor |-> jobs[k].node_name,
                            executions |-> starts[k]]
          BY <1>1, <3>6, <4>1 DEF EntryShape
        <4>3. EntryOf(k)' = [phase |-> "lost", executor |-> jobs[k].node_name,
                             executions |-> starts[k]]
          BY <1>1, <3>1, <3>6, <4>1 DEF EntryShape
        <4> QED
          BY <4>2, <4>3 DEF EntryMoves, Ledger!EntryStep, Ledger!Lose
      <3> QED
        BY <3>4, <3>5, <3>6
    <2>5. ASSUME ReapFinishedJobs(n), NEW k \in Jobs
          PROVE  EntryMoves(k)
      <3>1. UNCHANGED <<operators, starts, disturbed>>
        BY <2>5 DEF ReapFinishedJobs
      <3>2. HasOperator(k)' <=> HasOperator(k)
        BY <3>1 DEF HasOperator
      <3>3. CASE jobs'[k] = jobs[k]
        BY <1>1, <3>1, <3>2, <3>3, SameEntry DEF EntryMoves
      <3>4. CASE k \in disturbed
        BY <1>1, <3>1, <3>4 DEF EntryShape, EntryMoves
      <3>5. CASE k \notin disturbed /\ jobs'[k] # jobs[k]
        <4>1. /\ Live(jobs[k]) /\ Done(jobs[k]) /\ jobs'[k].state = "reaped"
              /\ jobs'[k].node_name = jobs[k].node_name
          BY <1>1, <2>5, <3>5 DEF ReapFinishedJobs, TypeOK, Row
        <4>2. EntryOf(k) = [phase |-> "done", executor |-> jobs[k].node_name,
                            executions |-> starts[k]]
          BY <1>1, <3>5, <4>1 DEF EntryShape
        <4>3. EntryOf(k)' = [phase |-> "removed", executor |-> jobs[k].node_name,
                             executions |-> starts[k]]
          BY <1>1, <3>1, <3>5, <4>1 DEF EntryShape
        <4> QED
          BY <4>2, <4>3 DEF EntryMoves, Ledger!EntryStep, Ledger!Remove
      <3> QED
        BY <3>3, <3>4, <3>5
    <2>6. ASSUME NEW j \in Jobs,
                 ClaimAnswerLost(n, j) \/ \E lag \in 0..MaxLag : ClaimJob(n, j, lag)
          PROVE  \A k \in Jobs : EntryMoves(k)
      BY <2>6, ClaimMoves
    <2>7. ASSUME NEW j \in Jobs, NEW ok \in BOOLEAN, CancelJob(n, j, ok)
          PROVE  \A k \in Jobs : EntryMoves(k)
      <3> DEFINE ops == {o \in operators[n] : o.job = j}
      <3>1. /\ ops \in SUBSET operators[n] /\ ops # {} /\ \A o \in ops : o.job = j
            /\ SetJobDone(n, j, "canceled", ok) /\ RemoveOperators(n, ops)
            /\ UNCHANGED <<conn, rows, starts, agains, disturbed>>
        BY <2>7 DEF CancelJob
      <3>2. "canceled" \in ExitStatus
        BY DEF ExitStatus
      <3> HIDE DEF ops
      <3> QED
        BY <3>1, <3>2, FinishMoves
    <2>8. ASSUME NEW o \in operators[n], NEW ok \in BOOLEAN, OperatorStep(n, o, ok)
          PROVE  \A k \in Jobs : EntryMoves(k)
      <3>1. ASSUME NEW lag \in 0..MaxLag, OnProgress(n, o, lag, ok), NEW k \in Jobs
            PROVE  EntryMoves(k)
        <4>1. /\ jobs'[k].state = jobs[k].state
              /\ jobs'[k].node_name = jobs[k].node_name
              /\ jobs'[k].exit_status = jobs[k].exit_status
          BY <1>1, <1>2, <3>1 DEF OnProgress, set_job_progress, TypeOK, Row
        <4>2. UNCHANGED <<starts, disturbed>>
          BY <3>1 DEF OnProgress
        <4> DEFINE q == [o EXCEPT !.timeout_event = ScheduleTimeout(o.job, lag),
                                  !.behind = ~ok]
        <4>5. q.job = o.job
          BY <1>1 DEF TypeOK, WorkshopOperator
        <4>6. operators' = [operators EXCEPT ![n] = (@ \ {o}) \cup {q}]
          BY <3>1 DEF OnProgress
        <4> HIDE DEF q
        <4>3. PICK p : p.job = o.job /\ operators' = [operators EXCEPT ![n] = (@ \ {o}) \cup {p}]
          BY <4>5, <4>6
        <4>4. HasOperator(k)' <=> HasOperator(k)
          <5>1. \A m \in Nodes : m # n => operators'[m] = operators[m]
            BY <1>1, <4>3 DEF TypeOK
          <5>2. operators'[n] = (operators[n] \ {o}) \cup {p}
            BY <1>1, <4>3 DEF TypeOK
          <5> QED
            BY <4>3, <5>1, <5>2 DEF HasOperator
        <4> QED
          BY <1>1, <4>1, <4>2, <4>4, SameEntry DEF EntryMoves
      <3>2. ASSUME NEW status \in ExitStatus, SetJobDone(n, o.job, status, ok),
                   RemoveOperators(n, {o}),
                   UNCHANGED <<conn, rows, starts, agains, disturbed>>
            PROVE  \A k \in Jobs : EntryMoves(k)
        <4>1. {o} \in SUBSET operators[n] /\ {o} # {} /\ \A x \in {o} : x.job = o.job
          OBVIOUS
        <4> QED
          BY <1>2, <3>2, <4>1, FinishMoves
      <3>3. ASSUME NEW status \in {"exited", "failed"}, OnExit(n, o, status, ok)
            PROVE  \A k \in Jobs : EntryMoves(k)
        BY <3>2, <3>3 DEF OnExit, ExitStatus
      <3>4. CASE OnTimeout(n, o, ok)
        BY <3>2, <3>4 DEF OnTimeout, ExitStatus
      <3>5. ASSUME NEW delay \in {0, AgainDelay}, AgainJob(n, o, delay, ok)
            PROVE  \A k \in Jobs : EntryMoves(k)
        BY <3>5, AgainMoves
      <3> QED
        BY <2>8, <3>1, <3>3, <3>4, <3>5 DEF OperatorStep
    <2> QED
      BY <1>6, <2>1, <2>2, <2>3, <2>4, <2>5, <2>6, <2>7, <2>8 DEF NodeStep
  <1> QED
    BY <1>3, <1>4, <1>5, <1>6 DEF Next, ClientStep

\* WorkshopCluster implements JobLedger, for any number of nodes and jobs: every
\* execution starts from a waiting job, only its own process leads to a result or
\* puts the job back, and what a node has lost can only be taken away.
THEOREM LedgerImplemented == Spec => ImplementsLedger
  <1>1. Init => Ledger!Init
    <2> SUFFICES ASSUME Init, NEW j \in Jobs
                 PROVE  EntryOf(j) = Ledger!NewEntry
      BY DEF Ledger!Init, LedgerOf
    <2>1. EntryShape
      BY TypeInit, EntryShapeHolds
    <2> QED
      BY <2>1 DEF Init, EntryShape, Ledger!NewEntry
  <1>2. IInv /\ IInv' /\ [Next]_vars => [Ledger!Next]_LedgerOf
    <2>1. ASSUME IInv, IInv', Next
          PROVE  Ledger!Next
      <3>1. \A j \in Jobs : EntryMoves(j)
        BY <2>1, EveryEntryMoves DEF IInv
      <3>2. EntryShape'
        BY <2>1, EntryShapeHolds, PTL DEF IInv
      <3>3. /\ \A j \in Jobs : LedgerOf[j] = EntryOf(j) /\ LedgerOf'[j] = EntryOf(j)'
            /\ LedgerOf' \in [Jobs -> Ledger!Entry]
        BY <3>2 DEF LedgerOf, EntryShape
      <3> QED
        BY <3>1, <3>3 DEF EntryMoves, Ledger!Next
    <2>2. CASE UNCHANGED vars
      BY <2>2 DEF vars, LedgerOf, EntryOf, PhaseOf, HasOperator
    <2> QED
      BY <2>1, <2>2
  <1> QED
    BY <1>1, <1>2, Invariance, PTL DEF Spec, ImplementsLedger, Ledger!Spec
=============================================================================
