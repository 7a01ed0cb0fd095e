------------------------------ MODULE Instance ------------------------------
(***************************************************************************)
(* One daemon: the Instance, its Workshop and cron partitions with their   *)
(* enable flags and Zeroconf services, the executions that are in progress,*)
(* the notification mails, the control packets and the shutdown.           *)
(*                                                                         *)
(* The daemon is single-threaded: a signal, a packet or the end of an      *)
(* execution is one step, and the question is in which order they come.    *)
(* How a queue finds its jobs is the subject of WorkshopNode and           *)
(* CronCluster; here an enabled queue may start an execution at any time.  *)
(***************************************************************************)
EXTENDS Naturals, FiniteSets

CONSTANTS
  WorkshopPartitions, CronPartitions,
  Anonymous,     \* the cron partitions without a name
  Sticky,        \* the partitions with the option "sticky"
  Executions,    \* the executions that may be started
  PartitionOf,   \* the partition of each execution
  Tagged,        \* executions the translation server gives the child tag
  Notified,      \* executions of cron jobs with a notification address
  Urls,          \* executions of cron jobs whose command is a URL
  MaxOperators   \* the setting "concurrency", which every partition uses

Partitions == WorkshopPartitions \cup CronPartitions

ASSUME InstanceAssumption ==
  /\ WorkshopPartitions \cap CronPartitions = {}
  /\ Anonymous \subseteq CronPartitions /\ Sticky \subseteq Partitions
  /\ PartitionOf \in [Executions -> Partitions]
  /\ Tagged \subseteq Executions /\ Notified \subseteq Executions
  /\ Urls \subseteq {e \in Executions : PartitionOf[e] \in CronPartitions}
  /\ MaxOperators \in Nat \ {0}

VARIABLES
  relay,             \* how the cron partitions are configured to send mails
  started,           \* Instance::Start was called
  should_exit,
  control_servers,   \* are they open?
  defer_idle_check,  \* is it pending?
  partitions,        \* the partitions that have not been removed
  state_file,        \* per partition with a name: what its state file says
  enabled_state, enabled_admin, disabled_full,  \* the flags of each queue
  is_published,      \* StickyManager::is_published
  stage,             \* per execution
  results,           \* history: how often Finish was called for a cron execution
  mail               \* per execution: its notification mail

queues == <<enabled_state, enabled_admin, disabled_full, is_published>>
work == <<stage, results, mail>>
vars == <<relay, started, should_exit, control_servers, defer_idle_check, partitions,
          state_file, queues, work>>

\* use_qrelay, qmqp_server, or neither.
Relay == {"qrelay", "qmqp", "none"}

\* Before the tag of an execution is known ("translating"), the spawner answers
\* ("spawning"), and while its process runs.
ActiveStage == {"translating", "spawning", "running"}
Stage == {"new", "ended"} \cup ActiveStage

\* A mail that was submitted connects to the relay, or sends at once (qrelay).
PendingMail == {"connecting", "sending"}
MailState == {"none", "delivered", "failed", "dropped"} \cup PendingMail

Active(e) == stage[e] \in ActiveStage
IsCron(e) == PartitionOf[e] \in CronPartitions
ActiveIn(p) == {e \in Executions : PartitionOf[e] = p /\ Active(e)}

IsIdle(p) == ActiveIn(p) = {}
IsFull(p) == Cardinality(ActiveIn(p)) >= MaxOperators

IsEnabledOrFull(p) == enabled_state[p] /\ enabled_admin[p]
IsEnabled(p) == IsEnabledOrFull(p) /\ ~disabled_full[p]

Init ==
  /\ relay \in Relay
  /\ started = FALSE /\ should_exit = FALSE
  /\ control_servers = TRUE /\ defer_idle_check = FALSE
  /\ partitions = Partitions
  /\ state_file \in [Partitions \ Anonymous -> BOOLEAN]
  /\ enabled_state = [p \in Partitions |-> FALSE]
  /\ enabled_admin = [p \in Partitions |-> TRUE]
  /\ disabled_full = [p \in Partitions |-> FALSE]
  /\ is_published = [p \in Partitions |-> FALSE]
  /\ stage = [e \in Executions |-> "new"]
  /\ results = [e \in Executions |-> 0]
  /\ mail = [e \in Executions |-> "none"]

-----------------------------------------------------------------------------
(***************************************************************************)
(* Enabling and disabling queues.  Each such call ends with                *)
(* EnableDisableSticky, for the partitions "touched".                      *)
(***************************************************************************)
\* Mutant: withdraw the service while all slots are taken.
MutUnpublishFull(touched) ==
  is_published' = [p \in Partitions |->
    IF p \in touched \cap Sticky THEN IsEnabled(p)' ELSE is_published[p]]

EnableDisableSticky(touched) ==
  is_published' = [p \in Partitions |->
    IF p \in touched \cap Sticky THEN IsEnabledOrFull(p)' ELSE is_published[p]]

\* The state file decides; anonymous cron partitions have none.
ReloadState ==
  LET named == partitions \ Anonymous
  IN /\ enabled_state' = [p \in Partitions |->
          IF p \in named THEN state_file[p] ELSE enabled_state[p]]
     /\ UNCHANGED <<enabled_admin, disabled_full>>
     /\ EnableDisableSticky(named)

Start ==
  /\ ~started
  /\ started' = TRUE
  /\ ReloadState
  /\ UNCHANGED <<relay, should_exit, control_servers, defer_idle_check, partitions,
                 state_file, work>>

\* SIGHUP.
OnReload ==
  /\ started /\ ~should_exit
  /\ ReloadState
  /\ UNCHANGED <<relay, started, should_exit, control_servers, defer_idle_check,
                 partitions, state_file, work>>

\* The administrator edits a state file; the daemon does not notice.
EditStateFile(p) ==
  /\ state_file' = [state_file EXCEPT ![p] = ~@]
  /\ UNCHANGED <<relay, started, should_exit, control_servers, defer_idle_check,
                 partitions, queues, work>>

\* DisableQueue and EnableQueue of the partitions with the name in the packet.
SetAdmin(addressed, value) ==
  /\ enabled_admin' = [p \in Partitions |->
       IF p \in addressed THEN value ELSE enabled_admin[p]]
  /\ UNCHANGED <<enabled_state, disabled_full>>
  /\ EnableDisableSticky(addressed)

-----------------------------------------------------------------------------
(***************************************************************************)
(* Executions.                                                             *)
(***************************************************************************)
\* StartWorkshopJob, OnJob of a cron partition.
StartJob(e) ==
  LET p == PartitionOf[e]
  IN /\ started /\ p \in partitions
     /\ IsEnabled(p) /\ stage[e] = "new"
     /\ stage' = [stage EXCEPT ![e] = "translating"]
     /\ disabled_full' = [disabled_full EXCEPT ![p] = IsFull(p)']
     /\ UNCHANGED <<relay, started, should_exit, control_servers, defer_idle_check,
                    partitions, state_file, enabled_state, enabled_admin,
                    is_published, results, mail>>

\* The spawner starts nothing any more after Shutdown.
Spawns == ~should_exit

Advance(e, from, to) ==
  /\ stage[e] = from
  /\ stage' = [stage EXCEPT ![e] = to]
  /\ UNCHANGED <<relay, started, should_exit, control_servers, defer_idle_check,
                 partitions, state_file, queues, results, mail>>

OnTranslateResponse(e) == Advance(e, "translating", "spawning")

\* The spawner has started the process, or the helper process which fetches a URL.
OnSpawned(e) == e \notin Urls /\ Spawns /\ Advance(e, "spawning", "running")
OnCurlSpawned(e) == e \in Urls /\ Spawns /\ Advance(e, "spawning", "running")

\* Mutant: the deferred check is not scheduled.
MutNoIdleCheck(idle, exiting) == UNCHANGED defer_idle_check

\* The idle_callback of the partitions "idle".
OnPartitionIdle(idle, exiting) ==
  defer_idle_check' = (defer_idle_check \/ (exiting /\ idle # {}))

\* SetResult may send a mail.  The qrelay socket is opened by the spawner; the
\* mail fails at once if the address is malformed or qrelay cannot be reached.
MayMail(e, exiting) ==
  /\ IsCron(e) /\ e \in Notified
  /\ relay = "qmqp" \/ (relay = "qrelay" /\ ~exiting)

Submitted == IF relay = "qrelay" THEN "sending" ELSE "connecting"

\* Mutant: destroy the execution without Cancel().
MutNoResult(ended) == UNCHANGED results

Finish(ended) ==
  results' = [e \in Executions |->
                IF e \in ended /\ IsCron(e) THEN results[e] + 1 ELSE results[e]]

\* The executions "ended" get their results and are destroyed; then
\* OnChildProcessExit is called for their partitions.
End(ended, exiting) ==
  LET touched == {PartitionOf[e] : e \in ended}
  IN /\ stage' = [e \in Executions |-> IF e \in ended THEN "ended" ELSE stage[e]]
     /\ Finish(ended)
     /\ disabled_full' = [p \in Partitions |->
          disabled_full[p] /\ (p \in touched => IsFull(p)')]
     /\ OnPartitionIdle({p \in touched : IsIdle(p)'}, exiting)

\* The execution ends with a result or an error.
OnCompletion(e) ==
  /\ End({e}, should_exit)
  /\ \E sent \in SUBSET {e} :
       /\ sent # {} => MayMail(e, should_exit)
       /\ mail' = [mail EXCEPT ![e] = IF e \in sent THEN Submitted ELSE @]
  /\ UNCHANGED <<relay, started, should_exit, control_servers, partitions, state_file,
                 enabled_state, enabled_admin, is_published>>

OnChildProcessExit(e) == e \notin Urls /\ stage[e] = "running" /\ OnCompletion(e)

\* The answer of the helper process, or the end of the socket if it has died.
OnSocketReady(e) == e \in Urls /\ stage[e] = "running" /\ OnCompletion(e)

\* An exception is thrown: the translation server or the spawner has refused.
StartFails(e) == stage[e] \in {"translating", "spawning"} /\ OnCompletion(e)

OnTimeout(e) == Active(e) /\ OnCompletion(e)

\* CancelJob and CancelTag; cron executions store the result "Canceled".
Cancel(canceled) ==
  /\ canceled # {}
  /\ End(canceled, should_exit)
  /\ \E sent \in SUBSET {e \in canceled : MayMail(e, should_exit)} :
       mail' = [e \in Executions |-> IF e \in sent THEN Submitted ELSE mail[e]]
  /\ UNCHANGED <<enabled_state, enabled_admin, is_published>>

-----------------------------------------------------------------------------
(***************************************************************************)
(* EmailService.                                                           *)
(***************************************************************************)
MailStep(e, from, to) ==
  /\ mail[e] \in from
  /\ mail' = [mail EXCEPT ![e] = to]
  /\ UNCHANGED <<relay, started, should_exit, control_servers, defer_idle_check,
                 partitions, state_file, queues, stage, results>>

OnSocketConnectSuccess(e) == MailStep(e, {"connecting"}, "sending")
OnQmqpClientSuccess(e) == MailStep(e, {"sending"}, "delivered")
OnMailError(e) == MailStep(e, PendingMail, "failed")

\* CancelAll, of the partitions "gone".
Dropped(m, e, gone) ==
  IF m \in PendingMail /\ PartitionOf[e] \in gone THEN "dropped" ELSE m

-----------------------------------------------------------------------------
(***************************************************************************)
(* Control packets.  Some commands are ignored if the client is not on     *)
(* this host ("privileged").  An empty payload addresses every partition,  *)
(* a name those which have it.                                             *)
(***************************************************************************)
Addressed == {partitions} \cup {{p} : p \in partitions \ Anonymous}

PrivilegedCommand ==
  \/ \E addressed \in Addressed, value \in BOOLEAN : SetAdmin(addressed, value)
  \/ ReloadState

\* The executions whose child tag is known and matches.
WithTag == {e \in Tagged : stage[e] \in {"spawning", "running"}}

OnControlPacket(privileged) ==
  /\ started /\ control_servers
  /\ \/ privileged /\ PrivilegedCommand /\ UNCHANGED <<defer_idle_check, work>>
     \/ Cancel(WithTag)
     \/ \E e \in Executions : Active(e) /\ ~IsCron(e) /\ Cancel({e})
  /\ UNCHANGED <<relay, started, should_exit, control_servers, partitions, state_file>>

-----------------------------------------------------------------------------
(***************************************************************************)
(* Shutdown.                                                               *)
(***************************************************************************)
\* Mutant: forget the partitions that still have work to do.
MutRemoveAll(present) == {}

RemoveIdlePartitions(present) == {p \in present : ~IsIdle(p)'}

\* Mutant: go on listening to control packets.
MutControlStaysOpen ==
  LET canceled == {e \in Executions : IsCron(e) /\ Active(e)}
  IN /\ started /\ ~should_exit
     /\ should_exit' = TRUE
     /\ enabled_admin' = [p \in Partitions |-> FALSE]
     /\ is_published' = [p \in Partitions |-> FALSE]
     /\ End(canceled, TRUE)
     /\ \E sent \in SUBSET {e \in canceled : MayMail(e, TRUE)} :
          mail' = [e \in Executions |->
            Dropped(IF e \in sent THEN Submitted ELSE mail[e], e, CronPartitions)]
     /\ partitions' = RemoveIdlePartitions(partitions)
     /\ UNCHANGED <<relay, started, state_file, enabled_state, control_servers>>

\* BeginShutdown of each partition: withdraw the service, disable the queue; cron
\* partitions cancel their executions, and then the mails.
OnExit ==
  LET canceled == {e \in Executions : IsCron(e) /\ Active(e)}
  IN /\ started /\ ~should_exit
     /\ should_exit' = TRUE
     /\ enabled_admin' = [p \in Partitions |-> FALSE]
     /\ is_published' = [p \in Partitions |-> FALSE]
     /\ End(canceled, TRUE)
     /\ \E sent \in SUBSET {e \in canceled : MayMail(e, TRUE)} :
          mail' = [e \in Executions |->
            Dropped(IF e \in sent THEN Submitted ELSE mail[e], e, CronPartitions)]
     /\ partitions' = RemoveIdlePartitions(partitions)
     /\ control_servers' = FALSE
     /\ UNCHANGED <<relay, started, state_file, enabled_state>>

\* The deferred call.  With a partition goes its EmailService.
DeferredIdleCheck ==
  /\ defer_idle_check
  /\ defer_idle_check' = FALSE
  /\ UNCHANGED <<relay, started, should_exit, control_servers, state_file, queues,
                 stage, results>>
  /\ partitions' = RemoveIdlePartitions(partitions)
  /\ mail' = [e \in Executions |-> Dropped(mail[e], e, partitions \ partitions')]

ExecutionStep(e) ==
  \/ StartJob(e) \/ OnTranslateResponse(e) \/ OnSpawned(e) \/ OnCurlSpawned(e)
  \/ OnChildProcessExit(e) \/ OnSocketReady(e) \/ StartFails(e) \/ OnTimeout(e)
  \/ OnSocketConnectSuccess(e) \/ OnQmqpClientSuccess(e) \/ OnMailError(e)

Next ==
  \/ Start \/ OnReload \/ OnExit \/ DeferredIdleCheck
  \/ \E privileged \in BOOLEAN : OnControlPacket(privileged)
  \/ \E p \in Partitions \ Anonymous : EditStateFile(p)
  \/ \E e \in Executions : ExecutionStep(e)

\* The event loop runs what has been deferred.  Nothing is assumed of processes,
\* of the relay, of signals or of control clients.
Spec == Init /\ [][Next]_vars /\ WF_vars(DeferredIdleCheck)
-----------------------------------------------------------------------------
(***************************************************************************)
(* Properties.                                                             *)
(***************************************************************************)

\* A partition offers its Zeroconf service exactly while its queue is enabled: a
\* node that is merely busy still owns its sticky jobs, and a disabled one or one
\* that shuts down (the publisher is destroyed then) does not.
PublishedExactly ==
  \A p \in Partitions :
    is_published[p] <=> p \in Sticky /\ IsEnabledOrFull(p) /\ ~should_exit

\* Nothing is abandoned: a cron execution has one result when it has ended and none
\* before, however it ends; the partition of an active execution exists; as long as
\* the daemon is not told to exit no partition goes, and no mail with it; and after
\* that no partition is left idle without a check pending that will remove it.
NothingAbandoned ==
  /\ \A e \in Executions :
       /\ results[e] = IF IsCron(e) /\ stage[e] = "ended" THEN 1 ELSE 0
       /\ Active(e) => PartitionOf[e] \in partitions
       /\ ~should_exit => mail[e] # "dropped"
  /\ ~should_exit => partitions = Partitions
  /\ should_exit => \A p \in partitions : IsIdle(p) => defer_idle_check

\* Once the daemon has been told to exit, no execution is started and no service is
\* published, whatever arrives and whatever ends.
ShutdownQuiet ==
  [][should_exit => /\ \A e \in Executions : stage[e] = "new" => stage'[e] = "new"
                    /\ \A p \in Partitions : ~is_published'[p]]_vars

\* The shutdown ends: every partition is removed, unless one of its executions never
\* ends; the last execution to end is enough to bring that about.
ShutdownEnds ==
  \A p \in Partitions :
    <>should_exit => <>(p \notin partitions) \/ <>[]~IsIdle(p)
=============================================================================
