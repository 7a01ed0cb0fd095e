--------------------------- MODULE InstanceProofs ---------------------------
(***************************************************************************)
(* Proofs about Instance, for any partitions and executions and every      *)
(* concurrency limit.  The last section is about another program, Migrate. *)
(***************************************************************************)
EXTENDS Instance, Migrate, Integers, Sequences, FiniteSetTheorems, TLAPS

TypeOK ==
  /\ relay \in Relay
  /\ started \in BOOLEAN /\ should_exit \in BOOLEAN
  /\ control_servers \in BOOLEAN /\ defer_idle_check \in BOOLEAN
  /\ partitions \subseteq Partitions
  /\ state_file \in [Partitions \ Anonymous -> BOOLEAN]
  /\ enabled_state \in [Partitions -> BOOLEAN]
  /\ enabled_admin \in [Partitions -> BOOLEAN]
  /\ is_published \in [Partitions -> BOOLEAN]
  /\ stage \in [Executions -> Stage]
  /\ results \in [Executions -> Nat]
  /\ mail \in [Executions -> MailState]

\* The exit signal closes the way to every action that could enable a queue again,
\* and the idle check that removes partitions is only pending after it.
ShutdownShape ==
  /\ should_exit => /\ started /\ ~control_servers
                    /\ \A p \in Partitions : ~enabled_admin[p]
  /\ defer_idle_check => should_exit

IInv == TypeOK /\ ShutdownShape /\ PublishedExactly /\ NothingAbandoned

\* The freshly configured daemon satisfies the invariant.
LEMMA InvInit == Init => IInv
  <1> SUFFICES ASSUME Init
               PROVE  IInv
    OBVIOUS
  <1>1. TypeOK
    BY DEF Init, TypeOK, Stage, MailState
  <1>2. ShutdownShape /\ PublishedExactly
    BY DEF Init, ShutdownShape, PublishedExactly, IsEnabledOrFull
  <1>3. NothingAbandoned
    BY DEF Init, NothingAbandoned, Active, ActiveStage
  <1> QED
    BY <1>1, <1>2, <1>3 DEF IInv

\* Steps that only switch queues (reloading the state files, DISABLE_QUEUE and
\* ENABLE_QUEUE) keep the services in line with the queues.
LEMMA SwitchStep ==
  ASSUME IInv, ~should_exit,
         ReloadState \/ \E addressed \in Addressed, value \in BOOLEAN :
                          SetAdmin(addressed, value),
         started' = TRUE,
         UNCHANGED <<relay, should_exit, control_servers, defer_idle_check, partitions,
                     state_file, work>>
  PROVE  IInv'
  <1> USE DEF IInv
  <1>1. PICK touched \in SUBSET Partitions :
          /\ EnableDisableSticky(touched)
          /\ enabled_state' \in [Partitions -> BOOLEAN]
          /\ enabled_admin' \in [Partitions -> BOOLEAN]
          /\ \A p \in Partitions : p \notin touched => /\ enabled_state'[p] = enabled_state[p]
                                                       /\ enabled_admin'[p] = enabled_admin[p]
    <2>1. CASE ReloadState
      <3>1. partitions \ Anonymous \in SUBSET Partitions
        BY DEF TypeOK
      <3>2. \A p \in partitions \ Anonymous : state_file[p] \in BOOLEAN
        BY DEF TypeOK
      <3> QED
        BY <2>1, <3>1, <3>2 DEF ReloadState, TypeOK
    <2>2. ASSUME NEW addressed \in Addressed, NEW value \in BOOLEAN,
                 SetAdmin(addressed, value)
          PROVE  \E touched \in SUBSET Partitions :
                   /\ EnableDisableSticky(touched)
                   /\ enabled_state' \in [Partitions -> BOOLEAN]
                   /\ enabled_admin' \in [Partitions -> BOOLEAN]
                   /\ \A p \in Partitions : p \notin touched =>
                        /\ enabled_state'[p] = enabled_state[p]
                        /\ enabled_admin'[p] = enabled_admin[p]
      <3>1. addressed \in SUBSET Partitions
        BY DEF Addressed, TypeOK
      <3> QED
        BY <2>2, <3>1 DEF SetAdmin, TypeOK
    <2> QED
      BY <2>1, <2>2
  <1>2. is_published' = [p \in Partitions |->
          IF p \in touched \cap Sticky THEN IsEnabledOrFull(p)' ELSE is_published[p]]
    BY <1>1 DEF EnableDisableSticky
  <1>3. \A p \in Partitions : IsEnabledOrFull(p)' \in BOOLEAN
    BY <1>1 DEF IsEnabledOrFull
  <1>4. TypeOK'
    BY <1>1, <1>2, <1>3 DEF TypeOK, work
  <1>5. ShutdownShape'
    BY DEF ShutdownShape
  <1>6. PublishedExactly'
    <2> SUFFICES ASSUME NEW p \in Partitions
                 PROVE  is_published'[p] <=> p \in Sticky /\ IsEnabledOrFull(p)'
      BY DEF PublishedExactly
    <2>1. CASE p \in touched \cap Sticky
      BY <1>2, <2>1
    <2>2. CASE p \in touched /\ p \notin Sticky
      BY <1>2, <2>2 DEF PublishedExactly
    <2>3. CASE p \notin touched
      BY <1>1, <1>2, <2>3 DEF PublishedExactly, IsEnabledOrFull
    <2> QED
      BY <2>1, <2>2, <2>3
  <1>7. NothingAbandoned'
    BY DEF NothingAbandoned, Active, work
  <1> QED
    BY <1>4, <1>5, <1>6, <1>7

\* Executions that end, by themselves or canceled, get exactly one result, and no
\* mail is dropped with them.
LEMMA EndStep ==
  ASSUME IInv, NEW ended \in SUBSET Executions, \A e \in ended : Active(e),
         End(ended, should_exit),
         mail' \in [Executions -> MailState],
         \A e \in Executions : mail'[e] = "dropped" => mail[e] = "dropped",
         UNCHANGED <<relay, started, should_exit, control_servers, partitions, state_file,
                     enabled_state, enabled_admin, is_published>>
  PROVE  IInv'
  <1> USE DEF IInv
  <1>1. /\ stage' = [e \in Executions |-> IF e \in ended THEN "ended" ELSE stage[e]]
        /\ results' = [e \in Executions |->
              IF e \in ended /\ IsCron(e) THEN results[e] + 1 ELSE results[e]]
        /\ defer_idle_check' \in BOOLEAN
        /\ defer_idle_check' => defer_idle_check \/ should_exit
    BY DEF End, Finish, OnPartitionIdle, TypeOK
  <1>2. TypeOK'
    BY <1>1 DEF TypeOK, Stage
  <1>3. ShutdownShape' /\ PublishedExactly'
    BY <1>1 DEF ShutdownShape, PublishedExactly, IsEnabledOrFull
  <1>4. NothingAbandoned'
    <2>1. ASSUME NEW e \in Executions
          PROVE  /\ results'[e] = IF IsCron(e) /\ stage'[e] = "ended" THEN 1 ELSE 0
                 /\ Active(e)' => Active(e)
      BY <1>1, <2>1 DEF NothingAbandoned, Active, ActiveStage
    <2>2. ASSUME should_exit, NEW p \in partitions, IsIdle(p)'
          PROVE  defer_idle_check'
      <3> DEFINE touched == {PartitionOf[e] : e \in ended}
      <3>1. CASE p \in touched
        <4>1. OnPartitionIdle({q \in touched : IsIdle(q)'}, should_exit)
          BY DEF End
        <4>2. p \in {q \in touched : IsIdle(q)'}
          BY <2>2, <3>1
        <4> HIDE DEF touched
        <4> QED
          BY <2>2, <4>1, <4>2 DEF OnPartitionIdle
      <3>2. CASE p \notin touched
        <4>1. \A e \in Executions : PartitionOf[e] = p => stage'[e] = stage[e]
          BY <1>1, <3>2
        <4>2. IsIdle(p)
          BY <2>2, <4>1 DEF IsIdle, ActiveIn, Active
        <4> QED
          BY <2>2, <4>2 DEF End, OnPartitionIdle, NothingAbandoned
      <3> QED
        BY <3>1, <3>2
    <2> QED
      BY <2>1, <2>2 DEF NothingAbandoned
  <1> QED
    BY <1>2, <1>3, <1>4

\* An execution that completes may send a mail; that is all it does to the mails.
LEMMA CompletionStep ==
  ASSUME IInv, NEW e \in Executions, Active(e), OnCompletion(e)
  PROVE  IInv'
  <1>1. Submitted \in MailState /\ Submitted # "dropped"
    BY DEF Submitted, MailState, PendingMail
  <1>2. /\ mail' \in [Executions -> MailState]
        /\ \A x \in Executions : mail'[x] = "dropped" => mail[x] = "dropped"
    BY <1>1 DEF OnCompletion, IInv, TypeOK
  <1>3. End({e}, should_exit) /\ {e} \in SUBSET Executions /\ \A x \in {e} : Active(x)
    BY DEF OnCompletion
  <1>4. UNCHANGED <<relay, started, should_exit, control_servers, partitions, state_file,
                    enabled_state, enabled_admin, is_published>>
    BY DEF OnCompletion
  <1> QED
    BY <1>2, <1>3, <1>4, EndStep

\* CANCEL_JOB and the cancelation by tag end active executions.
LEMMA CancelStep ==
  ASSUME IInv, NEW canceled \in SUBSET Executions, \A e \in canceled : Active(e),
         Cancel(canceled),
         UNCHANGED <<relay, started, should_exit, control_servers, partitions, state_file>>
  PROVE  IInv'
  <1>1. Submitted \in MailState /\ Submitted # "dropped"
    BY DEF Submitted, MailState, PendingMail
  <1>2. /\ mail' \in [Executions -> MailState]
        /\ \A x \in Executions : mail'[x] = "dropped" => mail[x] = "dropped"
    BY <1>1 DEF Cancel, IInv, TypeOK
  <1>3. /\ End(canceled, should_exit)
        /\ UNCHANGED <<relay, started, should_exit, control_servers, partitions, state_file,
                       enabled_state, enabled_admin, is_published>>
    BY DEF Cancel
  <1> QED
    BY <1>2, <1>3, EndStep

\* The exit signal cancels the cron executions, with their results, and keeps every
\* partition that still has work to do.
LEMMA ExitStep ==
  ASSUME IInv, OnExit
  PROVE  IInv'
  <1> USE DEF IInv
  <1> DEFINE canceled == {e \in Executions : IsCron(e) /\ Active(e)}
  <1>1. /\ started /\ should_exit' = TRUE /\ control_servers' = FALSE
        /\ enabled_admin' = [p \in Partitions |-> FALSE]
        /\ is_published' = [p \in Partitions |-> FALSE]
        /\ partitions' = {p \in partitions : ~IsIdle(p)'}
        /\ UNCHANGED <<relay, started, state_file, enabled_state>>
    BY DEF OnExit, RemoveIdlePartitions
  <1>2. /\ stage' = [e \in Executions |-> IF e \in canceled THEN "ended" ELSE stage[e]]
        /\ results' = [e \in Executions |->
              IF e \in canceled /\ IsCron(e) THEN results[e] + 1 ELSE results[e]]
        /\ defer_idle_check' \in BOOLEAN
    BY DEF OnExit, End, Finish, OnPartitionIdle, TypeOK
  <1>3. mail' \in [Executions -> MailState]
    <2>1. Submitted \in MailState
      BY DEF Submitted, MailState, PendingMail
    <2>2. \A m \in MailState, e \in Executions : Dropped(m, e, CronPartitions) \in MailState
      BY DEF Dropped, MailState
    <2>3. PICK sent \in SUBSET Executions :
            mail' = [e \in Executions |->
              Dropped(IF e \in sent THEN Submitted ELSE mail[e], e, CronPartitions)]
      BY DEF OnExit
    <2> QED
      BY <2>1, <2>2, <2>3 DEF TypeOK
  <1>4. TypeOK'
    <2>1. stage' \in [Executions -> Stage]
      BY <1>2 DEF TypeOK, Stage
    <2>2. results' \in [Executions -> Nat]
      BY <1>2 DEF TypeOK
    <2>3. partitions' \subseteq Partitions
      BY <1>1 DEF TypeOK
    <2> QED
      BY <1>1, <1>2, <1>3, <2>1, <2>2, <2>3 DEF TypeOK
  <1>5. ShutdownShape' /\ PublishedExactly'
    BY <1>1, <1>4 DEF TypeOK, ShutdownShape, PublishedExactly
  <1>6. NothingAbandoned'
    <2>1. ASSUME NEW e \in Executions
          PROVE  results'[e] = IF IsCron(e) /\ stage'[e] = "ended" THEN 1 ELSE 0
      BY <1>2, <2>1 DEF NothingAbandoned, Active, ActiveStage
    <2>2. ASSUME NEW e \in Executions, Active(e)'
          PROVE  PartitionOf[e] \in partitions'
      <3>1. Active(e)
        BY <1>2, <2>2 DEF Active, ActiveStage
      <3>2. ~IsIdle(PartitionOf[e])'
        BY <2>2 DEF IsIdle, ActiveIn, Active
      <3> QED
        BY <1>1, <3>1, <3>2 DEF NothingAbandoned
    <2> QED
      BY <1>1, <2>1, <2>2 DEF NothingAbandoned
  <1> QED
    BY <1>4, <1>5, <1>6

\* The deferred idle check removes idle partitions only, and only while exiting.
LEMMA IdleCheckStep ==
  ASSUME IInv, DeferredIdleCheck
  PROVE  IInv'
  <1> USE DEF IInv
  <1>1. /\ should_exit /\ defer_idle_check' = FALSE
        /\ partitions' = {p \in partitions : ~IsIdle(p)'}
        /\ UNCHANGED <<relay, started, should_exit, control_servers, state_file, queues,
                       stage, results>>
    BY DEF DeferredIdleCheck, RemoveIdlePartitions, ShutdownShape
  <1>2. mail' \in [Executions -> MailState]
    <2>1. \A m \in MailState, e \in Executions :
            Dropped(m, e, partitions \ partitions') \in MailState
      BY DEF Dropped, MailState
    <2> QED
      BY <2>1 DEF DeferredIdleCheck, TypeOK
  <1>3. TypeOK' /\ ShutdownShape' /\ PublishedExactly'
    BY <1>1, <1>2 DEF TypeOK, ShutdownShape, PublishedExactly, IsEnabledOrFull, queues
  <1>4. \A e \in Executions : Active(e)' => PartitionOf[e] \in partitions'
    BY <1>1 DEF NothingAbandoned, Active, IsIdle, ActiveIn
  <1> QED
    BY <1>1, <1>3, <1>4 DEF NothingAbandoned

\* Every step preserves the invariant.
LEMMA InvStep == IInv /\ [Next]_vars => IInv'
  <1> SUFFICES ASSUME IInv, [Next]_vars
               PROVE  IInv'
    OBVIOUS
  <1>0. should_exit => started /\ ~control_servers
    BY DEF IInv, ShutdownShape
  <1>1. CASE Start
    BY <1>0, <1>1, SwitchStep DEF Start
  <1>2. CASE OnReload
    BY <1>2, SwitchStep DEF OnReload
  <1>3. CASE OnExit
    BY <1>3, ExitStep
  <1>4. CASE DeferredIdleCheck
    BY <1>4, IdleCheckStep
  <1>5. ASSUME NEW privileged \in BOOLEAN, OnControlPacket(privileged)
        PROVE  IInv'
    <2>1. /\ ~should_exit /\ started' = TRUE
          /\ UNCHANGED <<relay, started, should_exit, control_servers, partitions, state_file>>
      BY <1>0, <1>5 DEF OnControlPacket, IInv, TypeOK
    <2>2. CASE PrivilegedCommand /\ UNCHANGED <<defer_idle_check, work>>
      BY <2>1, <2>2, SwitchStep DEF PrivilegedCommand
    <2>3. CASE Cancel(WithTag)
      <3>1. WithTag \in SUBSET Executions /\ \A e \in WithTag : Active(e)
        BY InstanceAssumption DEF WithTag, Active, ActiveStage
      <3> QED
        BY <2>1, <2>3, <3>1, CancelStep
    <2>4. ASSUME NEW e \in Executions, Active(e), Cancel({e})
          PROVE  IInv'
      <3>1. {e} \in SUBSET Executions /\ \A x \in {e} : Active(x)
        BY <2>4
      <3> QED
        BY <2>1, <2>4, <3>1, CancelStep
    <2> QED
      BY <1>5, <2>2, <2>3, <2>4 DEF OnControlPacket
  <1>6. ASSUME NEW p \in Partitions \ Anonymous, EditStateFile(p)
        PROVE  IInv'
    BY <1>6
    DEF EditStateFile, IInv, TypeOK, ShutdownShape, PublishedExactly, NothingAbandoned,
        IsEnabledOrFull, Active, IsIdle, ActiveIn, queues, work
  <1>7. ASSUME NEW e \in Executions, ExecutionStep(e)
        PROVE  IInv'
    <2>1. CASE StartJob(e)
      <3>1. /\ stage[e] = "new" /\ stage' = [stage EXCEPT ![e] = "translating"]
            /\ PartitionOf[e] \in partitions
            /\ UNCHANGED <<relay, started, should_exit, control_servers, defer_idle_check,
                    partitions, state_file, enabled_state, enabled_admin,
                    is_published, results, mail>>
        BY <2>1 DEF StartJob
      <3>2. ~should_exit
        BY <2>1, InstanceAssumption
        DEF StartJob, IsEnabled, IsEnabledOrFull, IInv, ShutdownShape
      <3> QED
        BY <3>1, <3>2
        DEF IInv, TypeOK, ShutdownShape, PublishedExactly, NothingAbandoned,
            IsEnabledOrFull, Active, ActiveStage, Stage
    <2>2. CASE OnTranslateResponse(e) \/ OnSpawned(e) \/ OnCurlSpawned(e)
      <3>1. PICK from \in ActiveStage, to \in ActiveStage : Advance(e, from, to)
        BY <2>2 DEF OnTranslateResponse, OnSpawned, OnCurlSpawned, ActiveStage
      <3>2. TypeOK' /\ ShutdownShape' /\ PublishedExactly'
        BY <3>1
        DEF Advance, IInv, TypeOK, ShutdownShape, PublishedExactly, IsEnabledOrFull,
            ActiveStage, Stage, queues
      <3>3. /\ \A x \in Executions : Active(x)' <=> Active(x)
            /\ \A x \in Executions : stage'[x] = "ended" <=> stage[x] = "ended"
            /\ UNCHANGED <<should_exit, defer_idle_check, partitions, results, mail>>
        BY <3>1 DEF Advance, Active, ActiveStage, IInv, TypeOK
      <3>4. NothingAbandoned'
        <4>1. \A p : IsIdle(p)' <=> IsIdle(p)
          BY <3>3 DEF IsIdle, ActiveIn
        <4> QED
          BY <3>3, <4>1 DEF IInv, NothingAbandoned
      <3> QED
        BY <3>2, <3>4 DEF IInv
    <2>3. CASE OnChildProcessExit(e) \/ OnSocketReady(e) \/ StartFails(e) \/ OnTimeout(e)
      <3>1. Active(e) /\ OnCompletion(e)
        BY <2>3 DEF OnChildProcessExit, OnSocketReady, StartFails, OnTimeout, Active,
                    ActiveStage
      <3> QED
        BY <3>1, CompletionStep
    <2>4. CASE OnSocketConnectSuccess(e) \/ OnQmqpClientSuccess(e) \/ OnMailError(e)
      <3>1. PICK from, to : to \in MailState \ {"dropped"} /\ MailStep(e, from, to)
        BY <2>4 DEF OnSocketConnectSuccess, OnQmqpClientSuccess, OnMailError, MailState,
                    PendingMail
      <3> QED
        BY <3>1
        DEF MailStep, IInv, TypeOK, ShutdownShape, PublishedExactly, NothingAbandoned,
            IsEnabledOrFull, Active, IsIdle, ActiveIn, queues
    <2> QED
      BY <1>7, <2>1, <2>2, <2>3, <2>4 DEF ExecutionStep
  <1>8. CASE UNCHANGED vars
    BY <1>8
    DEF vars, IInv, TypeOK, ShutdownShape, PublishedExactly, NothingAbandoned,
        IsEnabledOrFull, Active, IsIdle, ActiveIn, queues, work
  <1> QED
    BY <1>1, <1>2, <1>3, <1>4, <1>5, <1>6, <1>7, <1>8 DEF Next

\* The inductive invariant holds in every reachable state.
THEOREM Invariance == Spec => []IInv
  BY InvInit, InvStep, PTL DEF Spec

\* A partition offers its Zeroconf service exactly while its queue is enabled.
THEOREM PublishedExactlyHolds == Spec => []PublishedExactly
  <1>1. IInv => PublishedExactly
    BY DEF IInv
  <1> QED
    BY <1>1, Invariance, PTL

\* However it ends, a cron execution gets one result, an active execution keeps its
\* partition, and before the shutdown neither a partition nor a mail is dropped.
THEOREM NothingAbandonedHolds == Spec => []NothingAbandoned
  <1>1. IInv => NothingAbandoned
    BY DEF IInv
  <1> QED
    BY <1>1, Invariance, PTL

\* After the exit signal nothing is started or published any more.
THEOREM ShutdownQuietHolds == Spec => ShutdownQuiet
  <1> DEFINE Quiet == should_exit =>
               /\ \A e \in Executions : stage[e] = "new" => stage'[e] = "new"
               /\ \A p \in Partitions : ~is_published'[p]
  <1>1. IInv /\ IInv' /\ [Next]_vars => Quiet
    <2> SUFFICES ASSUME IInv, IInv', [Next]_vars, should_exit
                 PROVE  /\ \A e \in Executions : stage[e] = "new" => stage'[e] = "new"
                        /\ \A p \in Partitions : ~is_published'[p]
      OBVIOUS
    <2>1. /\ started /\ ~control_servers
          /\ \A p \in Partitions : ~enabled_admin[p]
          /\ stage \in [Executions -> Stage]
      BY DEF IInv, ShutdownShape, TypeOK
    <2>2. should_exit'
      BY <2>1
      DEF Next, vars, Start, OnReload, OnExit, DeferredIdleCheck, OnControlPacket,
          EditStateFile, ExecutionStep, StartJob, OnTranslateResponse, OnSpawned,
          OnCurlSpawned, Advance, OnChildProcessExit, OnSocketReady, StartFails, OnTimeout,
          OnCompletion, OnSocketConnectSuccess, OnQmqpClientSuccess, OnMailError, MailStep
    <2>3. \A p \in Partitions : ~is_published'[p]
      BY <2>2 DEF IInv, PublishedExactly
    <2>4. ASSUME NEW x \in Executions, stage[x] = "new"
          PROVE  stage'[x] = "new"
      <3>1. CASE Start \/ OnReload \/ OnExit \/ (\E b \in BOOLEAN : OnControlPacket(b))
        BY <2>1, <3>1 DEF Start, OnReload, OnExit, OnControlPacket
      <3>2. CASE DeferredIdleCheck \/ \E p \in Partitions \ Anonymous : EditStateFile(p)
        BY <2>4, <3>2 DEF DeferredIdleCheck, EditStateFile, work
      <3>3. ASSUME NEW e \in Executions, ExecutionStep(e)
            PROVE  stage'[x] = "new"
        <4>1. ~StartJob(e)
          BY <2>1, InstanceAssumption DEF StartJob, IsEnabled, IsEnabledOrFull
        <4>2. CASE OnTranslateResponse(e) \/ OnSpawned(e) \/ OnCurlSpawned(e)
          BY <2>1, <2>4, <4>2 DEF OnTranslateResponse, OnSpawned, OnCurlSpawned, Advance
        <4>3. CASE OnChildProcessExit(e) \/ OnSocketReady(e) \/ StartFails(e) \/ OnTimeout(e)
          BY <2>1, <2>4, <4>3
          DEF OnChildProcessExit, OnSocketReady, StartFails, OnTimeout, Active, ActiveStage,
              OnCompletion, End
        <4>4. CASE OnSocketConnectSuccess(e) \/ OnQmqpClientSuccess(e) \/ OnMailError(e)
          BY <2>4, <4>4
          DEF OnSocketConnectSuccess, OnQmqpClientSuccess, OnMailError, MailStep
        <4> QED
          BY <3>3, <4>1, <4>2, <4>3, <4>4 DEF ExecutionStep
      <3>4. CASE UNCHANGED vars
        BY <2>4, <3>4 DEF vars, work
      <3> QED
        BY <3>1, <3>2, <3>3, <3>4 DEF Next
    <2> QED
      BY <2>3, <2>4
  <1> QED
    BY <1>1, Invariance, PTL DEF Spec, ShutdownQuiet

-----------------------------------------------------------------------------
(***************************************************************************)
(* The slots of the workplaces.                                            *)
(***************************************************************************)

\* A partition, Workshop or cron, never has more executions than its concurrency
\* limit, and its queue is disabled as "full" exactly while it has that many: the
\* executions that a control packet or the exit signal ends together free their slots,
\* too.
SlotsExact ==
  \A p \in Partitions :
    /\ IsFiniteSet(ActiveIn(p)) /\ Cardinality(ActiveIn(p)) <= MaxOperators
    /\ disabled_full[p] <=> IsFull(p)

SlotsOK == disabled_full \in [Partitions -> BOOLEAN] /\ SlotsExact

\* Steps that change neither who is active nor the flags.
LEMMA SlotsSame ==
  ASSUME SlotsOK, UNCHANGED disabled_full, \A e \in Executions : Active(e)' <=> Active(e)
  PROVE  SlotsOK'
  <1>1. \A p : ActiveIn(p)' = ActiveIn(p)
    BY DEF ActiveIn
  <1>2. \A p : IsFull(p)' <=> IsFull(p)
    BY <1>1 DEF IsFull
  <1> QED
    BY <1>1, <1>2 DEF SlotsOK, SlotsExact

\* A start takes a slot that was free.
LEMMA SlotsStart ==
  ASSUME IInv, SlotsOK, NEW e \in Executions, StartJob(e)
  PROVE  SlotsOK'
  <1> DEFINE p == PartitionOf[e]
  <1>0. p \in Partitions
    BY InstanceAssumption
  <1>1. /\ ~disabled_full[p] /\ stage[e] = "new"
        /\ stage' = [stage EXCEPT ![e] = "translating"]
        /\ disabled_full' = [disabled_full EXCEPT ![p] = IsFull(p)']
    BY DEF StartJob, IsEnabled
  <1>2. /\ ActiveIn(p)' = ActiveIn(p) \cup {e} /\ e \notin ActiveIn(p)
        /\ \A q \in Partitions : q # p => ActiveIn(q)' = ActiveIn(q)
    BY <1>1 DEF ActiveIn, Active, ActiveStage, IInv, TypeOK
  <1> HIDE DEF p
  <1>3. IsFiniteSet(ActiveIn(p)) /\ Cardinality(ActiveIn(p)) < MaxOperators
    <2>1. IsFiniteSet(ActiveIn(p)) /\ ~IsFull(p)
      BY <1>0, <1>1 DEF SlotsOK, SlotsExact
    <2>2. Cardinality(ActiveIn(p)) \in Nat
      BY <2>1, FS_CardinalityType
    <2> QED
      BY <2>1, <2>2, InstanceAssumption DEF IsFull
  <1>4. IsFiniteSet(ActiveIn(p)') /\ Cardinality(ActiveIn(p)') <= MaxOperators
    <2>1. /\ IsFiniteSet(ActiveIn(p) \cup {e})
          /\ Cardinality(ActiveIn(p) \cup {e}) = Cardinality(ActiveIn(p)) + 1
          /\ Cardinality(ActiveIn(p)) \in Nat
      BY <1>2, <1>3, FS_AddElement, FS_CardinalityType
    <2> QED
      BY <1>2, <1>3, <2>1, InstanceAssumption
  <1>5. IsFull(p)' \in BOOLEAN
    BY DEF IsFull
  <1>6. disabled_full' \in [Partitions -> BOOLEAN]
    BY <1>1, <1>5 DEF SlotsOK
  <1>7. ASSUME NEW q \in Partitions
        PROVE  /\ IsFiniteSet(ActiveIn(q)') /\ Cardinality(ActiveIn(q)') <= MaxOperators
               /\ disabled_full'[q] <=> IsFull(q)'
    <2>1. CASE q = p
      BY <1>1, <1>4, <1>5, <2>1 DEF SlotsOK
    <2>2. CASE q # p
      <3>1. IsFull(q)' <=> IsFull(q)
        BY <1>2, <2>2 DEF IsFull
      <3> QED
        BY <1>1, <1>2, <2>2, <3>1 DEF SlotsOK, SlotsExact
    <2> QED
      BY <2>1, <2>2
  <1> QED
    BY <1>6, <1>7 DEF SlotsOK, SlotsExact

\* The end of some executions frees their slots.
LEMMA SlotsEnd ==
  ASSUME IInv, SlotsOK, NEW ended \in SUBSET Executions, NEW exiting, End(ended, exiting)
  PROVE  SlotsOK'
  <1> DEFINE touched == {PartitionOf[e] : e \in ended}
  <1>1. /\ stage' = [e \in Executions |-> IF e \in ended THEN "ended" ELSE stage[e]]
        /\ disabled_full' = [p \in Partitions |->
             disabled_full[p] /\ (p \in touched => IsFull(p)')]
    BY DEF End
  <1>2. /\ \A p \in Partitions : ActiveIn(p)' \in SUBSET ActiveIn(p)
        /\ \A p \in Partitions : p \notin touched => ActiveIn(p)' = ActiveIn(p)
    BY <1>1 DEF ActiveIn, Active, ActiveStage
  <1> HIDE DEF touched
  <1>3. ASSUME NEW p \in Partitions
        PROVE  /\ IsFiniteSet(ActiveIn(p)') /\ Cardinality(ActiveIn(p)') <= MaxOperators
               /\ IsFull(p)' => IsFull(p)
    <2>1. IsFiniteSet(ActiveIn(p)) /\ Cardinality(ActiveIn(p)) <= MaxOperators
      BY DEF SlotsOK, SlotsExact
    <2>2. /\ IsFiniteSet(ActiveIn(p)')
          /\ Cardinality(ActiveIn(p)') <= Cardinality(ActiveIn(p))
      BY <1>2, <2>1, FS_Subset
    <2>3. Cardinality(ActiveIn(p)) \in Nat /\ Cardinality(ActiveIn(p)') \in Nat
      BY <2>1, <2>2, FS_CardinalityType
    <2> QED
      BY <2>1, <2>2, <2>3, InstanceAssumption DEF IsFull
  <1>4. disabled_full' \in [Partitions -> BOOLEAN]
    BY <1>1 DEF SlotsOK
  <1>5. ASSUME NEW p \in Partitions
        PROVE  disabled_full'[p] <=> IsFull(p)'
    <2>1. CASE p \in touched
      <3>1. disabled_full'[p] <=> disabled_full[p] /\ IsFull(p)'
        BY <1>1, <2>1
      <3>2. disabled_full[p] <=> IsFull(p)
        BY DEF SlotsOK, SlotsExact
      <3> QED
        BY <1>3, <3>1, <3>2
    <2>2. CASE p \notin touched
      <3>1. disabled_full'[p] <=> disabled_full[p]
        BY <1>1, <2>2
      <3>2. IsFull(p)' <=> IsFull(p)
        BY <1>2, <2>2 DEF IsFull
      <3> QED
        BY <3>1, <3>2 DEF SlotsOK, SlotsExact
    <2> QED
      BY <2>1, <2>2
  <1> QED
    BY <1>3, <1>4, <1>5 DEF SlotsOK, SlotsExact

\* Every step keeps the slots exact.
LEMMA SlotsStep == IInv /\ SlotsOK /\ [Next]_vars => SlotsOK'
  <1> SUFFICES ASSUME IInv, SlotsOK, [Next]_vars
               PROVE  SlotsOK'
    OBVIOUS
  <1>1. CASE Start \/ OnReload
    BY <1>1, SlotsSame DEF Start, OnReload, ReloadState, Active, work
  <1>2. CASE OnExit
    <2>1. {e \in Executions : IsCron(e) /\ Active(e)} \in SUBSET Executions
      OBVIOUS
    <2> QED
      BY <1>2, <2>1, SlotsEnd DEF OnExit
  <1>3. CASE DeferredIdleCheck \/ \E p \in Partitions \ Anonymous : EditStateFile(p)
    BY <1>3, SlotsSame DEF DeferredIdleCheck, EditStateFile, Active, queues, work
  <1>4. ASSUME NEW privileged \in BOOLEAN, OnControlPacket(privileged)
        PROVE  SlotsOK'
    <2>1. CASE PrivilegedCommand /\ UNCHANGED <<defer_idle_check, work>>
      BY <2>1, SlotsSame DEF PrivilegedCommand, SetAdmin, ReloadState, Active, work
    <2>2. CASE Cancel(WithTag)
      <3>1. WithTag \in SUBSET Executions
        BY InstanceAssumption DEF WithTag
      <3> QED
        BY <2>2, <3>1, SlotsEnd DEF Cancel
    <2>3. ASSUME NEW e \in Executions, Cancel({e})
          PROVE  SlotsOK'
      <3>1. {e} \in SUBSET Executions
        OBVIOUS
      <3> QED
        BY <2>3, <3>1, SlotsEnd DEF Cancel
    <2> QED
      BY <1>4, <2>1, <2>2, <2>3 DEF OnControlPacket
  <1>5. ASSUME NEW e \in Executions, ExecutionStep(e)
        PROVE  SlotsOK'
    <2>1. CASE StartJob(e)
      BY <2>1, SlotsStart
    <2>2. CASE OnTranslateResponse(e) \/ OnSpawned(e) \/ OnCurlSpawned(e)
      <3>1. PICK from \in ActiveStage, to \in ActiveStage : Advance(e, from, to)
        BY <2>2 DEF OnTranslateResponse, OnSpawned, OnCurlSpawned, ActiveStage
      <3>2. \A x \in Executions : Active(x)' <=> Active(x)
        BY <3>1 DEF Advance, Active, IInv, TypeOK
      <3> QED
        BY <3>1, <3>2, SlotsSame DEF Advance, queues
    <2>3. CASE OnChildProcessExit(e) \/ OnSocketReady(e) \/ StartFails(e) \/ OnTimeout(e)
      <3>1. OnCompletion(e) /\ {e} \in SUBSET Executions
        BY <2>3 DEF OnChildProcessExit, OnSocketReady, StartFails, OnTimeout
      <3> QED
        BY <3>1, SlotsEnd DEF OnCompletion
    <2>4. CASE OnSocketConnectSuccess(e) \/ OnQmqpClientSuccess(e) \/ OnMailError(e)
      BY <2>4, SlotsSame
      DEF OnSocketConnectSuccess, OnQmqpClientSuccess, OnMailError, MailStep, Active, queues
    <2> QED
      BY <1>5, <2>1, <2>2, <2>3, <2>4 DEF ExecutionStep
  <1>6. CASE UNCHANGED vars
    BY <1>6, SlotsSame DEF vars, Active, queues, work
  <1> QED
    BY <1>1, <1>2, <1>3, <1>4, <1>5, <1>6 DEF Next

\* The concurrency limit and the flag are exact in every reachable state.
THEOREM SlotsExactHolds == Spec => []SlotsExact
  <1>1. Init => SlotsOK
    <2> SUFFICES ASSUME Init PROVE SlotsOK
      OBVIOUS
    <2>1. \A p : ActiveIn(p) = {}
      BY DEF Init, ActiveIn, Active, ActiveStage
    <2>2. IsFiniteSet({}) /\ Cardinality({}) = 0
      BY FS_EmptySet
    <2>3. \A p : /\ IsFiniteSet(ActiveIn(p)) /\ Cardinality(ActiveIn(p)) <= MaxOperators
                /\ ~IsFull(p)
      BY <2>1, <2>2, InstanceAssumption DEF IsFull
    <2>4. /\ disabled_full \in [Partitions -> BOOLEAN]
          /\ \A p \in Partitions : ~disabled_full[p]
      BY DEF Init
    <2> QED
      BY <2>3, <2>4 DEF SlotsOK, SlotsExact
  <1>2. SlotsOK => SlotsExact
    BY DEF SlotsOK
  <1> QED
    BY <1>1, <1>2, SlotsStep, Invariance, PTL DEF Spec

-----------------------------------------------------------------------------
(***************************************************************************)
(* The migration tool, the other program that an administrator runs.  It   *)
(* has no state in common with the daemon.                                 *)
(***************************************************************************)
JobsPart == MigrateWorkshopDatabase
CronPart == MigrateCronDatabase

\* The number of the next statement of MigrateCronDatabase.
CronPc == pc - (IF "jobs" \in tables THEN 17 ELSE 0)

ToolTypeOK ==
  /\ tables \in SUBSET {"jobs", "cronjobs"}
  /\ status \in {"idle", "running", "done", "refused", "failed"}
  /\ pc \in Nat \ {0} /\ pc <= Len(Program) + 1
  /\ converted \in BOOLEAN /\ exposed \in BOOLEAN
  /\ status \in {"done", "refused"} => pc = Len(Program) + 1

\* What the statements before this one have left behind.
JobsMigrated ==
  "jobs" \in tables /\ status # "idle" =>
    \A i \in 1..17 : i < pc =>
      JobsPart[i].adds \subseteq schema /\ JobsPart[i].drops \cap schema = {}

\* Likewise; between the two halves of AddTimeZones, the index and the rules are gone.
CronMigrated ==
  "cronjobs" \in tables /\ status # "idle" =>
    /\ CronPc > 1 => "delay" \in schema
    /\ CronPc > 2 => "cronjobs_scheduled" \notin schema
    /\ CronPc \in 4..8 \/ CronPc > 12 => "cronjobs_scheduled2" \in schema
    /\ CronPc \in 9..12 => "cronjobs_scheduled2" \notin schema
    /\ CronPc \in 5..7 \/ CronPc > 11 => "schedule_cronjob" \in schema
    /\ CronPc \in 8..11 => "schedule_cronjob" \notin schema
    /\ CronPc \in 7..10 => "finish_cronjob" \notin schema
    /\ CronPc \in 6..9 => "timestamptz" \notin schema
    /\ CronPc > 9 => "timestamptz" \in schema
    /\ CronPc = 14 => "cronresults" \in schema
    /\ CronPc > 14 /\ "cronresults" \in schema => "results_timestamptz" \in schema
    /\ CronPc > 15 => "cronresults" \in schema /\ "cronresults_finished" \in schema
    /\ CronPc > 16 => "tz" \in schema
    /\ CronPc > 17 => "cronjobs.sticky_id" \in schema

\* The condition of schedule_cronjob gets lost with the conversion of the time stamps.
InfinityKept ==
  "cronjobs" \in tables /\ status # "idle" =>
    /\ CronPc \in 5..7 => "schedule_infinity" \in schema
    /\ CronPc \in 10..12 => converted = TRUE
    /\ CronPc > 12 /\ converted = FALSE => "schedule_infinity" \in schema

ToolInv == ToolTypeOK /\ JobsMigrated /\ CronMigrated /\ InfinityKept /\ NoStatementFails

\* The parts of a statement.
LEMMA StatementParts ==
  /\ \A x : LET s == Add(x)
           IN s.needs = {} /\ s.clash = {} /\ s.drops = {} /\ s.adds = {x} /\ s.unless = {}
  /\ \A x, y : LET s == Create(x, y)
              IN s.needs = y /\ s.clash = {} /\ s.drops = {} /\ s.adds = {x} /\ s.unless = {}
  /\ \A x : LET s == Drop(x)
           IN s.needs = {} /\ s.clash = {} /\ s.drops = {x} /\ s.adds = {} /\ s.unless = {}
  /\ \A x, y, n : LET s == Unless(x, y, n)
                 IN /\ s.needs = {} /\ s.clash = {} /\ s.drops = {} /\ s.adds = {}
                    /\ s.when = y /\ s.unless = {x} /\ s.skip = n
  BY DEF Add, Create, Drop, Unless, Statement

\* The statements for the table "jobs".
LEMMA JobsStatements ==
  /\ Len(JobsPart) = 17
  /\ JobsPart[1] = Add("log")
  /\ JobsPart[2] = Add("enabled")
  /\ JobsPart[3] = Drop("jobs_sorted")
  /\ JobsPart[4] = Create("jobs_sorted2", {"enabled"})
  /\ JobsPart[5] = Drop("jobs_scheduled")
  /\ JobsPart[6] = Create("jobs_scheduled2", {"enabled"})
  /\ JobsPart[7] = Create("job_enabled", {"enabled"})
  /\ JobsPart[8] = Add("env")
  /\ JobsPart[9] = Add("time_started")
  /\ JobsPart[10] = Create("jobs_rate_limit", {"time_started"})
  /\ JobsPart[11] = Add("cpu_usage")
  /\ JobsPart[12] = Add("stdin")
  /\ JobsPart[13] = Add("time_modified")
  /\ JobsPart[14] = Create("jobs_modified", {"time_modified"})
  /\ JobsPart[15] = Add("account_id")
  /\ JobsPart[16] = Create("jobs_account_modified", {"account_id", "time_modified"})
  /\ JobsPart[17] = Add("sticky_id")
  BY DEF JobsPart, MigrateWorkshopDatabase

JobsNew ==
  {"log", "enabled", "jobs_sorted2", "jobs_scheduled2", "job_enabled", "env",
   "time_started", "jobs_rate_limit", "cpu_usage", "stdin", "time_modified",
   "jobs_modified", "account_id", "jobs_account_modified", "sticky_id"}

\* What a statement needs was added by an earlier one, and nothing is dropped again.
LEMMA JobsOrder ==
  ASSUME NEW i \in 1..17
  PROVE  /\ JobsPart[i].clash = {} /\ JobsPart[i].unless = {}
         /\ JobsPart[i].adds \subseteq JobsNew
         /\ JobsPart[i].drops \subseteq JobsObsolete
         /\ \A x \in JobsPart[i].needs : \E h \in 1..(i - 1) : x \in JobsPart[h].adds
  <1>1. /\ JobsPart[i].clash = {} /\ JobsPart[i].unless = {}
        /\ JobsPart[i].adds \subseteq JobsNew
        /\ JobsPart[i].drops \subseteq JobsObsolete
    BY JobsStatements, StatementParts DEF JobsNew, JobsObsolete
  <1>2. \A x \in JobsPart[i].needs : \E h \in 1..(i - 1) : x \in JobsPart[h].adds
    <2>1. /\ "enabled" \in JobsPart[2].adds /\ "time_started" \in JobsPart[9].adds
          /\ "time_modified" \in JobsPart[13].adds /\ "account_id" \in JobsPart[15].adds
      BY JobsStatements, StatementParts
    <2>2. ASSUME NEW x \in JobsPart[i].needs
          PROVE  \/ x = "enabled" /\ 2 < i
                 \/ x = "time_started" /\ 9 < i
                 \/ x = "time_modified" /\ 13 < i
                 \/ x = "account_id" /\ 15 < i
      BY <2>2, JobsStatements, StatementParts
    <2> QED
      BY <2>1, <2>2
  <1> QED
    BY <1>1, <1>2

\* The statements for the table "cronjobs".
LEMMA CronStatements ==
  /\ Len(CronPart) = 17
  /\ CronPart[1] = Add("delay")
  /\ CronPart[2] = Drop("cronjobs_scheduled")
  /\ CronPart[3] = Add("cronjobs_scheduled2")
  /\ CronPart[4] = Statement({}, {}, {}, ScheduleRule)
  /\ CronPart[5] = Unless("timestamptz", {}, 7)
  /\ CronPart[6] = Drop("finish_cronjob")
  /\ CronPart[7] = Statement({}, {}, ScheduleRule, {})
  /\ CronPart[8] = Statement({"cronjobs_scheduled2"}, {}, {"cronjobs_scheduled2"}, {})
  /\ CronPart[9] = AlterTimestamps
  /\ CronPart[10] = CreateFinishRule
  /\ CronPart[11] = Add("schedule_cronjob")
  /\ CronPart[12] = Statement({}, {"cronjobs_scheduled2"}, {}, {"cronjobs_scheduled2"})
  /\ CronPart[13] = Unless("results_timestamptz", {"cronresults"}, 1)
  /\ CronPart[14] = Create("results_timestamptz", {"cronresults"})
  /\ CronPart[15] = Create("cronresults_finished", {"cronresults"})
  /\ CronPart[16] = Add("tz")
  /\ CronPart[17] = Add("cronjobs.sticky_id")
  <1>1. Len(AddTimeZones) = 7
    BY DEF AddTimeZones
  <1> QED
    BY <1>1 DEF CronPart, MigrateCronDatabase, AddTimeZones

\* Where the elements of a concatenation are.
LEMMA Concatenation ==
  ASSUME NEW S, NEW s \in Seq(S), NEW t \in Seq(S)
  PROVE  /\ Len(s \o t) = Len(s) + Len(t)
         /\ \A i \in 1..Len(s) : (s \o t)[i] = s[i]
         /\ \A i \in 1..Len(t) : (s \o t)[i + Len(s)] = t[i]
  OBVIOUS

\* The program is one part or both.
LEMMA ProgramParts ==
  /\ Len(Program) = (IF "jobs" \in tables THEN 17 ELSE 0)
                         + (IF "cronjobs" \in tables THEN 17 ELSE 0)
  /\ "jobs" \in tables => \A i \in 1..17 : Program[i] = JobsPart[i]
  /\ "cronjobs" \in tables =>
       \A k \in 1..17 :
         Program[k + (IF "jobs" \in tables THEN 17 ELSE 0)] = CronPart[k]
  <1> DEFINE S == {JobsPart[i] : i \in 1..17} \cup {CronPart[i] : i \in 1..17}
  <1>1. JobsPart \in Seq({JobsPart[i] : i \in 1..17}) /\ Len(JobsPart) = 17
    BY DEF JobsPart, MigrateWorkshopDatabase
  <1>2. CronPart \in Seq({CronPart[i] : i \in 1..17})
    BY CronStatements DEF CronPart, MigrateCronDatabase, AddTimeZones
  <1>3. JobsPart \in Seq(S) /\ CronPart \in Seq(S) /\ <<>> \in Seq(S)
    BY <1>1, <1>2
  <1> HIDE DEF S
  <1>4. \A s, t \in Seq(S) :
          /\ Len(s \o t) = Len(s) + Len(t)
          /\ \A i \in 1..Len(s) : (s \o t)[i] = s[i]
          /\ \A i \in 1..Len(t) : (s \o t)[i + Len(s)] = t[i]
    BY Concatenation
  <1>5. Len(JobsPart) = 17 /\ Len(CronPart) = 17 /\ Len(<<>>) = 0
    BY <1>1, CronStatements
  <1>6. CASE "jobs" \in tables /\ "cronjobs" \in tables
    <2>1. Program = JobsPart \o CronPart
      BY <1>6 DEF Program, JobsPart, CronPart
    <2>2. /\ Len(Program) = Len(JobsPart) + Len(CronPart)
          /\ \A i \in 1..Len(JobsPart) : Program[i] = JobsPart[i]
          /\ \A i \in 1..Len(CronPart) : Program[i + Len(JobsPart)] = CronPart[i]
      BY <1>3, <1>4, <2>1, Zenon
    <2> QED
      BY <1>5, <1>6, <2>2
  <1>7. CASE "jobs" \in tables /\ "cronjobs" \notin tables
    <2>1. Program = JobsPart \o <<>>
      BY <1>7 DEF Program, JobsPart
    <2> QED
      BY <1>3, <1>4, <1>5, <1>7, <2>1
  <1>8. CASE "jobs" \notin tables /\ "cronjobs" \in tables
    <2>1. Program = <<>> \o CronPart
      BY <1>8 DEF Program, CronPart
    <2> QED
      BY <1>3, <1>4, <1>5, <1>8, <2>1
  <1>9. CASE "jobs" \notin tables /\ "cronjobs" \notin tables
    BY <1>9 DEF Program
  <1> QED
    BY <1>6, <1>7, <1>8, <1>9

\* The statements for one table leave the other one alone.
LEMMA CronDisjoint ==
  ASSUME NEW k \in 1..17
  PROVE  /\ CronPart[k].adds \cap JobsObsolete = {}
         /\ CronPart[k].drops \cap JobsNew = {}
  <1>1. /\ CronPart[k].adds \cap {"jobs_sorted", "jobs_scheduled"} = {}
        /\ CronPart[k].drops \subseteq
             {"cronjobs_scheduled", "finish_cronjob", "schedule_cronjob", "schedule_infinity",
              "cronjobs_scheduled2"}
    BY CronStatements, StatementParts
    DEF Statement, ScheduleRule, AlterTimestamps, CreateFinishRule
  <1> QED
    BY <1>1 DEF JobsObsolete, JobsNew

\* What the next statement does.
LEMMA ExecuteParts ==
  ASSUME ToolTypeOK, Execute
  PROVE  LET s == Program[pc]
         IN /\ status = "running" /\ pc \in Nat \ {0} /\ pc <= Len(Program)
            /\ UNCHANGED <<tables, exposed>>
            /\ Len(Program)' = Len(Program)
            /\ s.needs \subseteq schema /\ s.clash \cap schema = {} =>
                 /\ schema' = (schema \ s.drops) \cup s.adds
                 /\ pc' = pc + 1 + (IF Skips(s) THEN s.skip ELSE 0)
                 /\ converted' = (converted \/ s = AlterTimestamps)
                 /\ status' = status
            /\ ~(s.needs \subseteq schema /\ s.clash \cap schema = {}) =>
                 status' = "failed" /\ UNCHANGED <<schema, pc, converted>>
  <1>1. UNCHANGED <<tables, exposed>>
    BY DEF Execute
  <1>2. Len(Program)' = Len(Program)
    BY <1>1 DEF Program
  <1> QED
    BY <1>1, <1>2 DEF Execute, ToolTypeOK

\* The flag stays a flag.
LEMMA ConvertedType ==
  ASSUME ToolTypeOK, Execute
  PROVE  converted' \in BOOLEAN
  BY Zenon DEF Execute, ToolTypeOK

\* A statement for the table "jobs" finds what it needs.
LEMMA JobsExecute ==
  ASSUME ToolInv, Execute, "jobs" \in tables, pc <= 17
  PROVE  /\ ToolInv'
         /\ pc \in 1..17
         /\ schema' = (schema \ JobsPart[pc].drops) \cup JobsPart[pc].adds
  <1> DEFINE s == JobsPart[pc]
  <1>0. ToolTypeOK
    BY DEF ToolInv
  <1>a. pc \in 1..17 /\ status = "running" /\ UNCHANGED <<tables, exposed>>
        /\ Len(Program)' = Len(Program)
    BY <1>0, ExecuteParts
  <1>1. \A i \in 1..17 : Program[i] = JobsPart[i]
    BY ProgramParts
  <1>b. Program[pc] = s /\ Len(Program) >= 17
    <2>1. Len(Program) = 17 + (IF "cronjobs" \in tables THEN 17 ELSE 0)
      BY ProgramParts
    <2> QED
      BY <1>a, <1>1, <2>1
  <1>2. \A i \in 1..17 : i < pc =>
          JobsPart[i].adds \subseteq schema /\ JobsPart[i].drops \cap schema = {}
    BY <1>a DEF ToolInv, JobsMigrated
  <1>3. s.needs \subseteq schema /\ s.clash \cap schema = {} /\ s.unless = {}
    <2>1. ASSUME NEW x \in s.needs PROVE x \in schema
      <3>1. PICK h \in 1..(pc - 1) : x \in JobsPart[h].adds
        BY <1>a, <2>1, JobsOrder
      <3>2. h \in 1..17 /\ h < pc
        BY <1>a
      <3>3. JobsPart[h].adds \subseteq schema
        BY <1>2, <3>2
      <3> QED
        BY <3>1, <3>3
    <2>2. s.clash = {} /\ s.unless = {}
      BY <1>a, JobsOrder
    <2> QED
      BY <2>1, <2>2
  <1>4. schema' = (schema \ s.drops) \cup s.adds /\ pc' = pc + 1 /\ status' = status
    <2> HIDE DEF s
    <2>1. ~Skips(s)
      BY <1>3 DEF Skips
    <2> QED
      BY <1>0, <1>a, <1>b, <1>3, <2>1, ExecuteParts
  <1>5. ToolTypeOK'
    <2>1. pc' \in Nat \ {0} /\ pc' <= Len(Program)' + 1
      BY <1>a, <1>b, <1>4
    <2>2. converted' \in BOOLEAN
      BY <1>0, ConvertedType
    <2> QED
      BY <1>0, <1>a, <1>4, <2>1, <2>2 DEF ToolTypeOK
  <1>6. JobsMigrated'
    <2>1. JobsObsolete \cap JobsNew = {}
      BY DEF JobsObsolete, JobsNew
    <2> SUFFICES ASSUME NEW i \in 1..17, i < pc'
                 PROVE  JobsPart[i].adds \subseteq schema' /\ JobsPart[i].drops \cap schema' = {}
      BY DEF JobsMigrated, JobsPart
    <2>2. /\ JobsPart[i].adds \subseteq JobsNew /\ JobsPart[i].drops \subseteq JobsObsolete
          /\ s.adds \subseteq JobsNew /\ s.drops \subseteq JobsObsolete
      BY <1>a, JobsOrder
    <2>3. i < pc \/ i = pc
      BY <1>a, <1>4
    <2> QED
      BY <1>2, <1>4, <2>1, <2>2, <2>3
  <1>7. CronMigrated' /\ InfinityKept'
    <2>1. CronPc' <= 1 /\ CronPc' \in Int
      BY <1>a, <1>4 DEF CronPc
    <2> HIDE DEF s
    <2> QED
      BY <2>1 DEF CronMigrated, InfinityKept
  <1>8. NoStatementFails'
    BY <1>a, <1>4 DEF NoStatementFails
  <1> QED
    BY <1>a, <1>4, <1>5, <1>6, <1>7, <1>8 DEF ToolInv

\* Where the next statement for the table "cronjobs" is.
LEMMA CronPosition ==
  ASSUME ToolTypeOK, Execute, ~("jobs" \in tables /\ pc <= 17)
  PROVE  /\ CronPc \in 1..17 /\ "cronjobs" \in tables
         /\ Program[pc] = CronPart[CronPc]
  <1> DEFINE k == CronPc
             first == IF "jobs" \in tables THEN 17 ELSE 0
  <1>1. pc \in Nat \ {0} /\ pc <= Len(Program)
    BY ExecuteParts
  <1>2. Len(Program) = first + (IF "cronjobs" \in tables THEN 17 ELSE 0)
    BY ProgramParts
  <1>3. k \in 1..17 /\ pc = k + first /\ "cronjobs" \in tables
    BY <1>1, <1>2 DEF CronPc
  <1> QED
    BY <1>3, ProgramParts

\* Without a table cronresults its index cannot be created, and the program ends.
LEMMA CronFails ==
  ASSUME ToolInv, Execute, ~("jobs" \in tables /\ pc <= 17),
         CronPc = 15, "cronresults" \notin schema
  PROVE  /\ ToolInv'
         /\ "cronjobs" \in tables /\ CronPc' = CronPc
         /\ status' = "failed" /\ UNCHANGED <<tables, schema, pc, exposed>>
  <1> DEFINE s == Program[pc]
  <1>0. ToolTypeOK /\ JobsMigrated /\ CronMigrated /\ InfinityKept
    BY DEF ToolInv
  <1>1. "cronjobs" \in tables /\ s = Create("cronresults_finished", {"cronresults"})
    BY <1>0, CronPosition, CronStatements
  <1>2. s.needs = {"cronresults"}
    BY <1>1, StatementParts
  <1>3. /\ status = "running" /\ status' = "failed"
        /\ UNCHANGED <<tables, schema, pc, converted, exposed>>
        /\ Len(Program)' = Len(Program)
    <2> HIDE DEF s
    <2>1. ~(s.needs \subseteq schema)
      BY <1>2
    <2> QED
      BY <1>0, <2>1, ExecuteParts DEF s
  <1>4. CronPc' = CronPc /\ Program' = Program
    BY <1>3 DEF CronPc, Program
  <1>5. ToolTypeOK'
    BY <1>0, <1>3 DEF ToolTypeOK
  <1>6. JobsMigrated'
    BY <1>0, <1>3 DEF JobsMigrated, JobsPart
  <1>7. CronMigrated' /\ InfinityKept'
    BY <1>0, <1>3, <1>4 DEF CronMigrated, InfinityKept
  <1>8. NoStatementFails'
    <2>1. Program'[pc'] = Create("cronresults_finished", {"cronresults"})
      BY <1>1, <1>3, <1>4
    <2> QED
      BY <1>1, <1>3, <2>1 DEF NoStatementFails
  <1> QED
    BY <1>1, <1>3, <1>4, <1>5, <1>6, <1>7, <1>8 DEF ToolInv

\* With that table, a statement for the table "cronjobs" finds what it needs, too, and
\* what stands in the way of the ALTER has been dropped.
LEMMA CronExecute ==
  ASSUME ToolInv, Execute, ~("jobs" \in tables /\ pc <= 17),
         CronPc = 15 => "cronresults" \in schema
  PROVE  /\ ToolInv'
         /\ CronPc \in 1..17 /\ "cronjobs" \in tables
         /\ status' = "running"
         /\ schema' = (schema \ CronPart[CronPc].drops) \cup CronPart[CronPc].adds
         /\ CronPc = 9 => CronPc' = 10
  <1> DEFINE k == CronPc
             s == CronPart[k]
             first == IF "jobs" \in tables THEN 17 ELSE 0
             Done == s.needs \subseteq schema /\ s.clash \cap schema = {}
             jump == IF Skips(s) THEN s.skip ELSE 0
  <1>0. ToolTypeOK
    BY DEF ToolInv
  <1>a. /\ status = "running" /\ pc \in Nat \ {0} /\ pc <= Len(Program)
        /\ UNCHANGED <<tables, exposed>> /\ Len(Program)' = Len(Program)
    BY <1>0, ExecuteParts
  <1>b. Len(Program) = first + (IF "cronjobs" \in tables THEN 17 ELSE 0)
    BY ProgramParts
  <1>c. k \in 1..17 /\ pc = k + first /\ "cronjobs" \in tables /\ first \in {0, 17}
    BY <1>a, <1>b DEF CronPc
  <1>d. Program[pc] = s
    BY <1>0, CronPosition
  <1>2. Done => /\ schema' = (schema \ s.drops) \cup s.adds
                /\ pc' = pc + 1 + jump /\ status' = status
                /\ converted' = (converted \/ s = AlterTimestamps)
    <2> HIDE DEF k, first
    <2> QED
      BY <1>0, <1>d, ExecuteParts
  <1>3. CronPc' = pc' - first
    BY <1>a DEF CronPc
  <1>4. /\ k = 8 => "cronjobs_scheduled2" \in schema
        /\ k = 9 => schema \cap {"finish_cronjob", "schedule_cronjob", "cronjobs_scheduled2"} = {}
        /\ k = 12 => "cronjobs_scheduled2" \notin schema
        /\ k \in {14, 15} => "cronresults" \in schema
    BY <1>a, <1>c DEF ToolInv, CronMigrated
  <1> HIDE DEF k, first
  <1>5. Done /\ jump \in Nat /\ k + 1 + jump <= 18
    <2> USE CronStatements, StatementParts
        DEF Statement, ScheduleRule, AlterTimestamps, CreateFinishRule, Skips
    <2>1. CASE k \in {1, 2, 3, 4, 6, 7, 10, 11, 16, 17}
      <3>1. s.needs = {} /\ s.clash = {} /\ s.unless = {}
        BY <2>1
      <3> QED
        BY <1>c, <3>1
    <2>2. CASE k = 8
      <3>1. s.needs = {"cronjobs_scheduled2"} /\ s.clash = {} /\ s.unless = {}
        BY <2>2
      <3> QED
        BY <1>4, <2>2, <3>1
    <2>3. CASE k = 9
      <3>1. /\ s.needs = {} /\ s.unless = {}
            /\ s.clash = {"finish_cronjob", "schedule_cronjob", "cronjobs_scheduled2"}
        BY <2>3
      <3> QED
        BY <1>4, <2>3, <3>1
    <2>4. CASE k = 12
      <3>1. s.needs = {} /\ s.clash = {"cronjobs_scheduled2"} /\ s.unless = {}
        BY <2>4
      <3> QED
        BY <1>4, <2>4, <3>1
    <2>5. CASE k \in {5, 13}
      <3>1. s.needs = {} /\ s.clash = {} /\ s.skip = (IF k = 5 THEN 7 ELSE 1)
        BY <2>5
      <3> QED
        BY <2>5, <3>1
    <2>6. CASE k \in {14, 15}
      <3>1. s.needs = {"cronresults"} /\ s.clash = {} /\ s.unless = {}
        BY <2>6
      <3> QED
        BY <1>4, <2>6, <3>1
    <2> QED
      BY <1>c, <2>1, <2>2, <2>3, <2>4, <2>5, <2>6
  <1>6. schema' = (schema \ s.drops) \cup s.adds /\ CronPc' = k + 1 + jump /\ status' = status
    BY <1>2, <1>3, <1>5, <1>c
  <1>7. ToolTypeOK'
    <2>1. pc' \in Nat \ {0} /\ pc' <= Len(Program)' + 1
      <3> HIDE DEF Done, jump
      <3> QED
        BY <1>a, <1>b, <1>c, <1>2, <1>5
    <2>2. converted' \in BOOLEAN
      BY <1>0, ConvertedType
    <2> QED
      BY <1>0, <1>a, <1>6, <2>1, <2>2 DEF ToolTypeOK
  <1>8. JobsMigrated'
    <2> SUFFICES ASSUME "jobs" \in tables, NEW i \in 1..17
                 PROVE  JobsPart[i].adds \subseteq schema' /\ JobsPart[i].drops \cap schema' = {}
      BY <1>a DEF JobsMigrated, JobsPart
    <2>0. i < pc
      BY <1>a
    <2>1. JobsPart[i].adds \subseteq schema /\ JobsPart[i].drops \cap schema = {}
      BY <1>a, <2>0 DEF ToolInv, JobsMigrated
    <2>2. /\ JobsPart[i].adds \subseteq JobsNew /\ JobsPart[i].drops \subseteq JobsObsolete
          /\ s.adds \cap JobsObsolete = {} /\ s.drops \cap JobsNew = {}
      BY <1>c, JobsOrder, CronDisjoint
    <2> QED
      BY <1>6, <2>1, <2>2
  <1>9. CronMigrated'
    <2>1. CronMigrated /\ CronPc = k /\ status # "idle" /\ tables' = tables
          /\ "cronjobs" \in tables
      BY <1>a, <1>c DEF ToolInv, k
    <2>2. \A x : x \in schema' <=> (x \in schema /\ x \notin s.drops) \/ x \in s.adds
      BY <1>6
    <2>3. k \notin {5, 13} => CronPc' = k + 1
      <3>1. k \notin {5, 13} => s.unless = {}
        BY <1>c, CronStatements, StatementParts
        DEF Statement, AlterTimestamps, CreateFinishRule
      <3> QED
        BY <1>6, <1>c, <3>1 DEF Skips
    <2>4. k \in {5, 13} =>
            CronPc' = (IF k = 5 THEN IF "timestamptz" \in schema THEN 13 ELSE 6
                                ELSE IF \/ "results_timestamptz" \in schema
                                        \/ "cronresults" \notin schema THEN 15 ELSE 14)
      <3>1. /\ k = 5 => s.when = {} /\ s.unless = {"timestamptz"} /\ s.skip = 7
            /\ k = 13 => s.when = {"cronresults"} /\ s.unless = {"results_timestamptz"}
                        /\ s.skip = 1
        BY CronStatements, StatementParts
      <3> QED
        BY <1>6, <3>1 DEF Skips
    <2> USE DEF CronMigrated
    <2>5. CASE k = 1
      <3>1. s.drops = {} /\ s.adds = {"delay"}
        BY <2>5, CronStatements, StatementParts
        DEF Statement, ScheduleRule, AlterTimestamps, CreateFinishRule
      <3> HIDE DEF s
      <3> QED
        BY <2>1, <2>2, <2>3, <2>5, <3>1
    <2>6. CASE k = 2
      <3>1. s.drops = {"cronjobs_scheduled"} /\ s.adds = {}
        BY <2>6, CronStatements, StatementParts
        DEF Statement, ScheduleRule, AlterTimestamps, CreateFinishRule
      <3> HIDE DEF s
      <3> QED
        BY <2>1, <2>2, <2>3, <2>6, <3>1
    <2>7. CASE k = 3
      <3>1. s.drops = {} /\ s.adds = {"cronjobs_scheduled2"}
        BY <2>7, CronStatements, StatementParts
        DEF Statement, ScheduleRule, AlterTimestamps, CreateFinishRule
      <3> HIDE DEF s
      <3> QED
        BY <2>1, <2>2, <2>3, <2>7, <3>1
    <2>8. CASE k = 4
      <3>1. s.drops = {} /\ s.adds = {"schedule_cronjob", "schedule_infinity"}
        BY <2>8, CronStatements, StatementParts
        DEF Statement, ScheduleRule, AlterTimestamps, CreateFinishRule
      <3> HIDE DEF s
      <3> QED
        BY <2>1, <2>2, <2>3, <2>8, <3>1
    <2>9. CASE k = 5
      <3>1. s.drops = {} /\ s.adds = {}
        BY <2>9, CronStatements, StatementParts
        DEF Statement, ScheduleRule, AlterTimestamps, CreateFinishRule
      <3> HIDE DEF s
      <3> QED
        BY <2>1, <2>2, <2>4, <2>9, <3>1
    <2>10. CASE k = 6
      <3>1. s.drops = {"finish_cronjob"} /\ s.adds = {}
        BY <2>10, CronStatements, StatementParts
        DEF Statement, ScheduleRule, AlterTimestamps, CreateFinishRule
      <3> HIDE DEF s
      <3> QED
        BY <2>1, <2>2, <2>3, <2>10, <3>1
    <2>11. CASE k = 7
      <3>1. s.drops = {"schedule_cronjob", "schedule_infinity"} /\ s.adds = {}
        BY <2>11, CronStatements, StatementParts
        DEF Statement, ScheduleRule, AlterTimestamps, CreateFinishRule
      <3> HIDE DEF s
      <3> QED
        BY <2>1, <2>2, <2>3, <2>11, <3>1
    <2>12. CASE k = 8
      <3>1. s.drops = {"cronjobs_scheduled2"} /\ s.adds = {}
        BY <2>12, CronStatements, StatementParts
        DEF Statement, ScheduleRule, AlterTimestamps, CreateFinishRule
      <3> HIDE DEF s
      <3> QED
        BY <2>1, <2>2, <2>3, <2>12, <3>1
    <2>13. CASE k = 9
      <3>1. s.drops = {} /\ s.adds = {"timestamptz"}
        BY <2>13, CronStatements, StatementParts
        DEF Statement, ScheduleRule, AlterTimestamps, CreateFinishRule
      <3> HIDE DEF s
      <3> QED
        BY <2>1, <2>2, <2>3, <2>13, <3>1
    <2>14. CASE k = 10
      <3>1. s.drops = {} /\ s.adds = {"finish_cronjob"}
        BY <2>14, CronStatements, StatementParts
        DEF Statement, ScheduleRule, AlterTimestamps, CreateFinishRule
      <3> HIDE DEF s
      <3> QED
        BY <2>1, <2>2, <2>3, <2>14, <3>1
    <2>15. CASE k = 11
      <3>1. s.drops = {} /\ s.adds = {"schedule_cronjob"}
        BY <2>15, CronStatements, StatementParts
        DEF Statement, ScheduleRule, AlterTimestamps, CreateFinishRule
      <3> HIDE DEF s
      <3> QED
        BY <2>1, <2>2, <2>3, <2>15, <3>1
    <2>16. CASE k = 12
      <3>1. s.drops = {} /\ s.adds = {"cronjobs_scheduled2"}
        BY <2>16, CronStatements, StatementParts
        DEF Statement, ScheduleRule, AlterTimestamps, CreateFinishRule
      <3> HIDE DEF s
      <3> QED
        BY <2>1, <2>2, <2>3, <2>16, <3>1
    <2>17. CASE k = 13
      <3>1. s.drops = {} /\ s.adds = {}
        BY <2>17, CronStatements, StatementParts
        DEF Statement, ScheduleRule, AlterTimestamps, CreateFinishRule
      <3> HIDE DEF s
      <3> QED
        BY <2>1, <2>2, <2>4, <2>17, <3>1
    <2>18. CASE k = 14
      <3>1. s.drops = {} /\ s.adds = {"results_timestamptz"}
        BY <2>18, CronStatements, StatementParts
        DEF Statement, ScheduleRule, AlterTimestamps, CreateFinishRule
      <3> HIDE DEF s
      <3> QED
        BY <1>4, <2>1, <2>2, <2>3, <2>18, <3>1
    <2>19. CASE k = 15
      <3>1. s.drops = {} /\ s.adds = {"cronresults_finished"}
        BY <2>19, CronStatements, StatementParts
        DEF Statement, ScheduleRule, AlterTimestamps, CreateFinishRule
      <3> HIDE DEF s
      <3> QED
        BY <1>4, <2>1, <2>2, <2>3, <2>19, <3>1
    <2>20. CASE k = 16
      <3>1. s.drops = {} /\ s.adds = {"tz"}
        BY <2>20, CronStatements, StatementParts
        DEF Statement, ScheduleRule, AlterTimestamps, CreateFinishRule
      <3> HIDE DEF s
      <3> QED
        BY <2>1, <2>2, <2>3, <2>20, <3>1
    <2>21. CASE k = 17
      <3>1. s.drops = {} /\ s.adds = {"cronjobs.sticky_id"}
        BY <2>21, CronStatements, StatementParts
        DEF Statement, ScheduleRule, AlterTimestamps, CreateFinishRule
      <3> HIDE DEF s
      <3> QED
        BY <2>1, <2>2, <2>3, <2>21, <3>1
    <2> QED
      BY <1>c, <2>5, <2>6, <2>7, <2>8, <2>9, <2>10, <2>11, <2>12, <2>13,
         <2>14, <2>15, <2>16, <2>17, <2>18, <2>19, <2>20, <2>21
  <1>10. k \notin {5, 13} => CronPc' = k + 1
    <2>1. k \notin {5, 13} => s.unless = {}
      BY <1>c, CronStatements, StatementParts
      DEF Statement, AlterTimestamps, CreateFinishRule
    <2> QED
      BY <1>6, <1>c, <2>1 DEF Skips
  <1>11. InfinityKept'
    <2>1. InfinityKept /\ CronPc = k /\ status # "idle" /\ tables' = tables
          /\ "cronjobs" \in tables /\ converted \in BOOLEAN
      BY <1>0, <1>a, <1>c DEF ToolInv, ToolTypeOK, k
    <2>2. \A x : x \in schema' <=> (x \in schema /\ x \notin s.drops) \/ x \in s.adds
      BY <1>6
    <2>3. /\ k = 4 => "schedule_infinity" \in s.adds
          /\ k # 7 => "schedule_infinity" \notin s.drops
          /\ k = 9 => s = AlterTimestamps
      <3>1. /\ k = 4 => "schedule_infinity" \in s.adds
            /\ k # 7 => "schedule_infinity" \notin s.drops
        BY <1>c, CronStatements, StatementParts
        DEF Statement, ScheduleRule, AlterTimestamps, CreateFinishRule
      <3>2. k = 9 => s = AlterTimestamps
        BY CronStatements
      <3> QED
        BY <3>1, <3>2
    <2>4. converted' = FALSE => converted = FALSE /\ k # 9
      BY <1>2, <1>5, <2>1, <2>3, Zenon
    <2>5. k = 9 \/ converted = TRUE => converted' = TRUE
      BY <1>2, <1>5, <2>1, <2>3, Zenon
    <2>6. /\ k = 5 => CronPc' \in {6, 13}
          /\ k = 13 => CronPc' \in {14, 15}
      <3>1. /\ k = 5 => s.skip = 7
            /\ k = 13 => s.skip = 1
        BY CronStatements, StatementParts
      <3> QED
        BY <1>6, <3>1
    <2> HIDE DEF s, jump, Done
    <2> QED
      BY <1>c, <1>10, <2>1, <2>2, <2>3, <2>4, <2>5, <2>6 DEF InfinityKept
  <1>12. NoStatementFails'
    BY <1>a, <1>6 DEF NoStatementFails
  <1> QED
    <2>1. k = 9 => CronPc' = 10
      BY <1>10
    <2> QED
      BY <1>a, <1>c, <1>6, <1>7, <1>8, <1>9, <1>11, <1>12, <2>1 DEF ToolInv, k

LEMMA ProgramLength == Len(Program) \in Nat
  <1> DEFINE n == (IF "jobs" \in tables THEN 17 ELSE 0) + (IF "cronjobs" \in tables THEN 17 ELSE 0)
  <1>1. n \in Nat
    OBVIOUS
  <1> QED
    BY <1>1, ProgramParts, Zenon

\* The other steps leave the schema alone, and starting again forgets where the
\* statements of the run before it were.
LEMMA ToolStep ==
  ASSUME ToolInv, [MigrateNext]_migrateVars
  PROVE  ToolInv'
  <1>0. ToolTypeOK /\ JobsMigrated /\ CronMigrated /\ InfinityKept /\ NoStatementFails
    BY DEF ToolInv
  <1>a. Len(Program) \in Nat
    BY ProgramLength
  <1>1. CASE StartProgram
    <2>1. /\ status' = "running" /\ pc' = 1 /\ converted' = FALSE
          /\ UNCHANGED <<tables, schema, exposed>>
      BY <1>1 DEF StartProgram
    <2>2. Len(Program)' = Len(Program)
      BY <2>1 DEF Program
    <2>3. ToolTypeOK'
      <3>1. converted' \in BOOLEAN /\ exposed' \in BOOLEAN
        BY <1>0, <2>1, Zenon DEF ToolTypeOK
      <3> QED
        BY <1>0, <1>a, <2>1, <2>2, <3>1 DEF ToolTypeOK
    <2>4. JobsMigrated'
      BY <2>1 DEF JobsMigrated
    <2>5. CronPc' \in {1, -16}
      BY <2>1 DEF CronPc
    <2>6. CronMigrated' /\ InfinityKept' /\ NoStatementFails'
      BY <2>1, <2>5 DEF CronMigrated, InfinityKept, NoStatementFails
    <2> QED
      BY <2>3, <2>4, <2>6 DEF ToolInv
  <1>2. CASE Execute
    BY <1>2, JobsExecute, CronExecute, CronFails
  <1>3. CASE EndProgram
    <2>1. /\ status = "running" /\ pc > Len(Program)
          /\ UNCHANGED <<tables, schema, pc, converted, exposed>>
          /\ status' \in {"done", "refused"}
      BY <1>3 DEF EndProgram
    <2>2. Len(Program)' = Len(Program)
      BY <2>1 DEF Program
    <2>3. ToolTypeOK'
      BY <1>0, <1>a, <2>1, <2>2 DEF ToolTypeOK
    <2>4. JobsMigrated'
      BY <1>0, <2>1 DEF JobsMigrated, JobsPart
    <2>5. CronPc' = CronPc
      BY <2>1 DEF CronPc
    <2>6. CronMigrated' /\ InfinityKept' /\ NoStatementFails'
      BY <1>0, <2>1, <2>5 DEF CronMigrated, InfinityKept, NoStatementFails
    <2> QED
      BY <2>3, <2>4, <2>6 DEF ToolInv
  <1>4. CASE Kill
    <2>1. /\ status' = "idle" /\ UNCHANGED <<tables, schema, pc, converted>>
          /\ exposed' \in BOOLEAN
      BY <1>0, <1>4 DEF Kill, ToolTypeOK
    <2>2. Len(Program)' = Len(Program)
      BY <2>1 DEF Program
    <2>3. ToolTypeOK'
      BY <1>0, <2>1, <2>2 DEF ToolTypeOK
    <2> QED
      BY <2>1, <2>3
      DEF ToolInv, JobsMigrated, CronMigrated, InfinityKept, NoStatementFails
  <1>5. CASE UNCHANGED migrateVars
    <2>1. UNCHANGED <<tables, schema, status, pc, converted, exposed>>
      BY <1>5 DEF migrateVars
    <2>2. Program' = Program /\ CronPc' = CronPc
      BY <2>1 DEF Program, CronPc
    <2>3. ToolTypeOK'
      BY <1>0, <2>1, <2>2 DEF ToolTypeOK
    <2>4. JobsMigrated'
      BY <1>0, <2>1 DEF JobsMigrated, JobsPart
    <2>5. CronMigrated' /\ InfinityKept'
      BY <1>0, <2>1, <2>2 DEF CronMigrated, InfinityKept
    <2>6. NoStatementFails'
      BY <1>0, <2>1, <2>2 DEF NoStatementFails
    <2> QED
      BY <2>3, <2>4, <2>5, <2>6 DEF ToolInv
  <1> QED
    BY <1>1, <1>2, <1>3, <1>4, <1>5 DEF MigrateNext

\* A database with some of the tables, whatever else is in it.
AnySchema ==
  /\ tables \in SUBSET {"jobs", "cronjobs"}
  /\ status = "idle" /\ pc = 1 /\ converted = FALSE /\ exposed = FALSE

LEMMA AnySchemaInv == AnySchema => ToolInv
  <1> SUFFICES ASSUME AnySchema PROVE ToolInv
    OBVIOUS
  <1>1. Len(Program) \in Nat
    BY ProgramLength
  <1>2. ToolTypeOK
    <2>1. tables \in SUBSET {"jobs", "cronjobs"} /\ status = "idle" /\ pc = 1
      BY DEF AnySchema
    <2>2. converted \in BOOLEAN /\ exposed \in BOOLEAN
      BY Zenon DEF AnySchema
    <2>3. pc \in Nat \ {0} /\ pc <= Len(Program) + 1
      BY <1>1, <2>1
    <2> QED
      BY <2>1, <2>2, <2>3 DEF ToolTypeOK
  <1>3. JobsMigrated /\ CronMigrated /\ InfinityKept
    BY Zenon DEF AnySchema, JobsMigrated, CronMigrated, InfinityKept
  <1>4. NoStatementFails
    BY DEF AnySchema, NoStatementFails
  <1> QED
    BY <1>2, <1>3, <1>4 DEF ToolInv

\* No statement of the migration fails but the index on cronresults, and that only if
\* this table is missing (NoStatementFails), whatever the schema is that the program
\* starts from, even one that no release and no run has left: apart from that table,
\* each statement establishes itself what the later ones need.
THEOREM NoStatementFailsFromAnySchema ==
  AnySchema /\ [][MigrateNext]_migrateVars => []NoStatementFails
  <1>1. ToolInv => NoStatementFails
    BY DEF ToolInv
  <1> QED
    BY <1>1, AnySchemaInv, ToolStep, PTL

\* In particular from the schema of every release, and from what runs that were killed
\* have left of it.
THEOREM NoStatementFailsHolds == MigrateSpec => []NoStatementFails
  <1>1. MigrateInit => AnySchema
    BY DEF MigrateInit, AnySchema
  <1> QED
    BY <1>1, NoStatementFailsFromAnySchema, PTL DEF MigrateSpec

\* Whatever a release has added belongs to the current schema.
LEMMA ReleasesKept ==
  /\ \A v \in 0..Len(JobsReleases) : JobsSchema(v) \subseteq JobsSql \cup JobsObsolete
  /\ \A w \in 0..Len(CronReleases) : CronSchema(w) \subseteq CronSql \cup CronObsolete
  <1>1. Len(JobsReleases) = 9 /\ Len(CronReleases) = 9
    BY DEF JobsReleases, CronReleases
  <1>2. ASSUME NEW i \in 1..9 PROVE JobsReleases[i] \subseteq JobsSql
    BY DEF JobsReleases, JobsSql
  <1>3. ASSUME NEW i \in 1..9 PROVE CronReleases[i] \subseteq CronSql
    BY DEF CronReleases, CronSql
  <1>4. ASSUME NEW v \in 0..9
        PROVE  Until(JobsReleases, v) \subseteq JobsSql /\ Until(CronReleases, v) \subseteq CronSql
    BY <1>2, <1>3 DEF Until
  <1>5. CronAlways \subseteq CronSql
    BY DEF CronAlways, CronSql
  <1> QED
    BY <1>1, <1>4, <1>5 DEF JobsSchema, CronSchema

\* Nothing is in the schema but what some release has put there.
Known ==
  schema \subseteq (IF "jobs" \in tables THEN JobsSql \cup JobsObsolete ELSE {})
                   \cup (IF "cronjobs" \in tables THEN CronSql \cup CronObsolete ELSE {})

\* With the new time stamps, the rule finish_cronjob is missing only until the next
\* statement, unless the program was killed there.
RuleKept ==
  "cronjobs" \in tables /\ "timestamptz" \in schema /\ exposed = FALSE =>
    "finish_cronjob" \in schema \/ (status = "running" /\ CronPc = 10)

LEMMA CompleteInit == MigrateInit => Known /\ RuleKept
  <1> SUFFICES ASSUME MigrateInit PROVE Known /\ RuleKept
    OBVIOUS
  <1>1. PICK v \in 0..Len(JobsReleases), w \in 0..Len(CronReleases) :
          schema = (IF "jobs" \in tables THEN JobsSchema(v) ELSE {})
                   \cup (IF "cronjobs" \in tables THEN CronSchema(w) ELSE {})
    BY DEF MigrateInit
  <1>2. /\ JobsSchema(v) \subseteq JobsSql \cup JobsObsolete
        /\ CronSchema(w) \subseteq CronSql \cup CronObsolete
    BY ReleasesKept
  <1>3. "cronjobs" \in tables => "finish_cronjob" \in schema
    BY <1>1 DEF CronSchema, CronAlways
  <1> QED
    BY <1>1, <1>2, <1>3 DEF Known, RuleKept

\* Only the statements of AddTimeZones convert the time stamps and drop the rule.
LEMMA CronRule ==
  ASSUME NEW k \in 1..17
  PROVE  /\ CronPart[k].adds \subseteq CronSql
         /\ "timestamptz" \in CronPart[k].adds => k = 9
         /\ "finish_cronjob" \in CronPart[k].drops => k = 6
         /\ k = 10 => "finish_cronjob" \in CronPart[k].adds
  BY CronStatements, StatementParts
  DEF CronSql, Statement, ScheduleRule, AlterTimestamps, CreateFinishRule

LEMMA CompleteStep ==
  ASSUME ToolInv, Known, RuleKept, [MigrateNext]_migrateVars
  PROVE  Known' /\ RuleKept'
  <1>0. ToolInv'
    BY ToolStep
  <1>1. CASE Execute
    <2>1. status = "running" /\ UNCHANGED <<tables, exposed>>
      BY <1>1, ExecuteParts DEF ToolInv
    <2>2. CASE "jobs" \in tables /\ pc <= 17
      <3>1. pc \in 1..17 /\ schema' = (schema \ JobsPart[pc].drops) \cup JobsPart[pc].adds
        BY <1>1, <2>2, JobsExecute
      <3>2. JobsPart[pc].adds \subseteq JobsNew /\ JobsPart[pc].drops \subseteq JobsObsolete
        BY <3>1, JobsOrder
      <3>3. Known'
        <4>1. JobsNew \subseteq JobsSql
          BY DEF JobsNew, JobsSql
        <4> QED
          BY <2>1, <2>2, <3>1, <3>2, <4>1 DEF Known
      <3>4. "timestamptz" \notin JobsNew /\ "finish_cronjob" \notin JobsObsolete
        BY DEF JobsNew, JobsObsolete
      <3>5. CronPc # 10
        BY <2>2, <3>1 DEF CronPc
      <3>6. RuleKept'
        BY <2>1, <3>1, <3>2, <3>4, <3>5 DEF RuleKept
      <3> QED
        BY <3>3, <3>6
    <2>3. CASE /\ ~("jobs" \in tables /\ pc <= 17)
               /\ CronPc = 15 => "cronresults" \in schema
      <3> DEFINE k == CronPc
      <3>1. /\ k \in 1..17 /\ "cronjobs" \in tables /\ (k = 9 => CronPc' = 10)
            /\ status' = "running"
            /\ schema' = (schema \ CronPart[k].drops) \cup CronPart[k].adds
        BY <1>1, <2>3, CronExecute
      <3>2. /\ CronPart[k].adds \subseteq CronSql
            /\ "timestamptz" \in CronPart[k].adds => k = 9
            /\ "finish_cronjob" \in CronPart[k].drops => k = 6
            /\ k = 10 => "finish_cronjob" \in CronPart[k].adds
        BY <3>1, CronRule
      <3>3. k = 6 => "timestamptz" \notin schema
        BY <2>1, <3>1 DEF ToolInv, CronMigrated
      <3>4. "timestamptz" \in schema /\ exposed = FALSE => "finish_cronjob" \in schema \/ k = 10
        BY <3>1 DEF RuleKept
      <3>5. CASE k = 9
        BY <2>1, <3>1, <3>2, <3>5 DEF Known, RuleKept
      <3>6. CASE k # 9
        <4>1. Known'
          BY <2>1, <3>1, <3>2 DEF Known
        <4>2. RuleKept'
          <5> HIDE DEF k
          <5> QED
            BY <2>1, <3>1, <3>2, <3>3, <3>4, <3>6 DEF RuleKept
        <4> QED
          BY <4>1, <4>2
      <3> QED
        BY <3>5, <3>6
    <2>4. CASE /\ ~("jobs" \in tables /\ pc <= 17)
               /\ CronPc = 15 /\ "cronresults" \notin schema
      <3>1. UNCHANGED <<tables, schema, exposed>>
        BY <1>1, <2>4, CronFails
      <3> QED
        BY <2>4, <3>1 DEF Known, RuleKept
    <2> QED
      BY <2>2, <2>3, <2>4
  <1>2. CASE Kill
    <2>1. /\ status = "running" /\ UNCHANGED <<tables, schema, pc>>
          /\ exposed' = (exposed \/ (pc <= Len(Program) /\ Program[pc] = CreateFinishRule))
      BY <1>2 DEF Kill
    <2>2. "cronjobs" \in tables /\ CronPc = 10 =>
            pc <= Len(Program) /\ Program[pc] = CreateFinishRule
      <3>1. SUFFICES ASSUME "cronjobs" \in tables, CronPc = 10
                     PROVE  pc <= Len(Program) /\ Program[pc] = CreateFinishRule
        OBVIOUS
      <3> DEFINE first == IF "jobs" \in tables THEN 17 ELSE 0
      <3>2. pc \in Nat
        BY DEF ToolInv, ToolTypeOK
      <3>3. pc = 10 + first /\ first \in {0, 17}
        BY <3>1, <3>2 DEF CronPc
      <3>4. Len(Program) = first + 17
        BY <3>1, ProgramParts
      <3>5. \A k \in 1..17 : Program[k + first] = CronPart[k]
        BY <3>1, ProgramParts
      <3> HIDE DEF first
      <3>6. Program[10 + first] = CronPart[10]
        BY <3>5
      <3> QED
        BY <3>3, <3>4, <3>6, CronStatements
    <2>3. Known'
      BY <2>1 DEF Known
    <2>4. RuleKept'
      <3>1. exposed \in BOOLEAN
        BY DEF ToolInv, ToolTypeOK
      <3>2. exposed' = FALSE =>
              /\ exposed = FALSE
              /\ ~(pc <= Len(Program) /\ Program[pc] = CreateFinishRule)
        BY <2>1, <3>1, Zenon
      <3> QED
        BY <2>1, <2>2, <3>2 DEF RuleKept
    <2> QED
      BY <2>3, <2>4
  <1>3. CASE StartProgram \/ EndProgram \/ UNCHANGED migrateVars
    <2>1. UNCHANGED <<tables, schema, exposed>>
      BY <1>3 DEF StartProgram, EndProgram, migrateVars
    <2>2. Known'
      BY <2>1 DEF Known
    <2>3. status = "running" /\ CronPc = 10 /\ "cronjobs" \in tables => ~StartProgram /\ ~EndProgram
      BY ProgramParts DEF StartProgram, EndProgram, CronPc, ToolInv, ToolTypeOK
    <2>4. UNCHANGED migrateVars => CronPc' = CronPc /\ status' = status
      BY DEF migrateVars, CronPc
    <2>5. RuleKept'
      BY <1>3, <2>1, <2>3, <2>4 DEF RuleKept
    <2> QED
      BY <2>2, <2>5
  <1> QED
    BY <1>1, <1>2, <1>3 DEF MigrateNext

LEMMA CompleteAtEnd == ToolInv /\ Known /\ RuleKept => FinishedComplete
  <1> SUFFICES ASSUME ToolInv, Known, RuleKept, status = "done"
               PROVE  /\ schema \subseteq Required
                      /\ Required \ schema \subseteq
                           NeverAdded \cup (IF converted THEN {"schedule_infinity"} ELSE {})
                                      \cup (IF exposed THEN {"finish_cronjob"} ELSE {})
    BY DEF FinishedComplete
  <1>1. JobsSql = JobsNew \cup {"account_id_64"}
    BY DEF JobsNew, JobsSql
  <1>2. pc = Len(Program) + 1 /\ pc \in Nat
    BY DEF ToolInv, ToolTypeOK
  <1>3. "jobs" \in tables => JobsNew \subseteq schema /\ JobsObsolete \cap schema = {}
    <2>1. SUFFICES ASSUME "jobs" \in tables
                   PROVE  JobsNew \subseteq schema /\ JobsObsolete \cap schema = {}
      OBVIOUS
    <2>2. Len(Program) = 17 + (IF "cronjobs" \in tables THEN 17 ELSE 0)
      BY <2>1, ProgramParts
    <2>3. \A i \in 1..17 : JobsPart[i].adds \subseteq schema /\ JobsPart[i].drops \cap schema = {}
      BY <1>2, <2>1, <2>2 DEF ToolInv, JobsMigrated
    <2>4. \A i \in 1..17 : (\A x \in JobsPart[i].adds : x \in schema)
                           /\ (\A x \in JobsPart[i].drops : x \notin schema)
      BY <2>3
    <2>5. ASSUME NEW x \in JobsNew PROVE \E i \in 1..17 : x \in JobsPart[i].adds
      BY JobsStatements, StatementParts DEF JobsNew
    <2>6. ASSUME NEW x \in JobsObsolete PROVE \E i \in 1..17 : x \in JobsPart[i].drops
      BY JobsStatements, StatementParts DEF JobsObsolete
    <2> QED
      BY <2>4, <2>5, <2>6
  <1>4. "cronjobs" \in tables =>
          /\ CronSql \ (NeverAdded \cup {"schedule_infinity", "finish_cronjob"}) \subseteq schema
          /\ "cronjobs_scheduled" \notin schema
          /\ converted = FALSE => "schedule_infinity" \in schema
          /\ exposed = FALSE => "finish_cronjob" \in schema
    <2> SUFFICES ASSUME "cronjobs" \in tables
                 PROVE  /\ CronSql \ (NeverAdded \cup {"schedule_infinity", "finish_cronjob"})
                             \subseteq schema
                        /\ "cronjobs_scheduled" \notin schema
                        /\ converted = FALSE => "schedule_infinity" \in schema
                        /\ exposed = FALSE => "finish_cronjob" \in schema
      OBVIOUS
    <2>1. Len(Program) = (IF "jobs" \in tables THEN 17 ELSE 0) + 17
      BY ProgramParts
    <2>2. CronPc = 18
      BY <1>2, <2>1 DEF CronPc
    <2>3. CronMigrated /\ InfinityKept
      BY DEF ToolInv
    <2>4. CronSql \ (NeverAdded \cup {"schedule_infinity", "finish_cronjob"}) \subseteq schema
      BY <2>2, <2>3 DEF CronMigrated, CronSql, NeverAdded
    <2> QED
      BY <2>2, <2>3, <2>4 DEF CronMigrated, InfinityKept, RuleKept
  <1>5. schema \subseteq Required
    BY <1>3, <1>4 DEF Known, CronObsolete, Required
  <1>6. ASSUME NEW x \in Required \ schema
        PROVE  \/ x \in NeverAdded
               \/ x = "schedule_infinity" /\ converted # FALSE
               \/ x = "finish_cronjob" /\ exposed # FALSE
    <2>1. "account_id_64" \in NeverAdded
      BY DEF NeverAdded
    <2> QED
      BY <1>1, <1>3, <1>4, <2>1 DEF Required
  <1>7. (converted # FALSE => converted = TRUE) /\ (exposed # FALSE => exposed = TRUE)
    BY Zenon DEF ToolInv, ToolTypeOK
  <1> QED
    BY <1>5, <1>6, <1>7

\* A migration that comes to its end leaves the current schema (FinishedComplete),
\* from the schema of every release and however often the program was killed before:
\* no statement adds anything that is not in it (Known), the statements before the end
\* have left what they are for, the condition of schedule_cronjob is lost only by the
\* conversion (InfinityKept), and finish_cronjob only by a kill between the ALTER and
\* CreateFinishRule (RuleKept).
THEOREM FinishedCompleteHolds == MigrateSpec => []FinishedComplete
  <1>1. MigrateInit => ToolInv
    BY AnySchemaInv DEF MigrateInit, AnySchema
  <1> QED
    BY <1>1, CompleteInit, ToolStep, CompleteStep, CompleteAtEnd, PTL DEF MigrateSpec
=============================================================================
