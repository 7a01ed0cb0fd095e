----------------------------- MODULE JobOperator -----------------------------
(***************************************************************************)
(* One WorkshopOperator: the coroutine that starts the process of a job,   *)
(* the control channel through which that process sends commands, and the  *)
(* four ways in which the operator comes to its end.                       *)
(*                                                                         *)
(* Operator and process run concurrently.  The process writes datagrams to *)
(* a SEQPACKET socket and may exit before they are read; its exit and the  *)
(* datagrams reach the event loop separately.  A "spawn" command is        *)
(* answered by a coroutine that waits for the translation server and the   *)
(* spawner; until then the socket is disabled.  No reply is certain to be  *)
(* delivered: the socket does not block, its buffer may be full, and the   *)
(* process may be gone.                                                    *)
(***************************************************************************)
EXTENDS Integers, Sequences, FiniteSetsExt

CONSTANTS
  Plans,     \* the plans to consider
  MaxDelay,  \* the largest parameter of "again"; without parameter it is 0
  MaxSent    \* bound: the number of commands a process sends

Plan == [translate : BOOLEAN, control_channel : BOOLEAN, allow_spawn : BOOLEAN,
         translation_server : BOOLEAN,    \* is one configured?
         timeout : BOOLEAN,               \* is parsed_timeout positive?
         patient : BOOLEAN]               \* see MaySend

ASSUME OperatorAssumption ==
  /\ Plans \subseteq Plan
  /\ MaxDelay \in Nat /\ MaxSent \in Nat

VARIABLES
  plan,      \* the plan of this job, and the manners of its program
  phase,     \* where the coroutine Start2 waits; "running" when it has ended
  process,   \* the process
  peer,      \* its end of the control socket is open
  channel,   \* control_channel: none, its socket enabled, or disabled
  queue,     \* datagrams that have not been received yet
  task,      \* where the coroutine OnSpawn waits
  request,   \* the position, among the commands sent, of the one it will answer
  again,     \* the member "again"
  exited,    \* the member "exited"
  children,  \* the number of processes in the list "children"
  unread,    \* replies the process has not read yet
  sent, replies, lost, envs, unstored, results
             \* history: commands sent; positions of the requests answered, in the order
             \* of the replies, and of those whose reply was given up; number of
             \* environment variables stored and not stored; results stored

vars == <<plan, phase, process, peer, channel, queue, task, request, again, exited,
          children, unread, sent, replies, lost, envs, unstored, results>>

Command ==
  {[cmd |-> c, arg |-> 0] : c \in {"progress", "setenv", "version", "spawn", "malformed"}}
    \cup {[cmd |-> "again", arg |-> d] : d \in 0..(MaxDelay + 1)}

NoAgain == -1

\* A larger parameter is malformed.
IsAgain(c) == c.cmd = "again" /\ c.arg <= MaxDelay

IsRequest(c) == c.cmd \in {"version", "spawn"}

\* The positions of the requests among the first n commands.
Requests(commands, n) == {i \in 1..n : IsRequest(commands[i])}

RequestCount(commands) == Cardinality(Requests(commands, Len(commands)))

\* The number of commands received.
Handled == Len(sent) - Len(queue)

Waiting == {"translate", "enqueue", "spawn"}

Operating == phase \in Waiting \cup {"running"}

-----------------------------------------------------------------------------
(***************************************************************************)
(* The process.  A patient one reads the reply to a request before it does *)
(* anything else with the socket; another one goes on writing.             *)
(***************************************************************************)
ownVars == <<phase, channel, task, request, again, exited, children, lost, envs,
             unstored, results>>

MaySend == plan.patient => RequestCount(sent) = Len(replies) - unread

ProcessStarts ==
  /\ process = "starting"
  /\ process' = "alive"
  /\ UNCHANGED <<plan, peer, queue, unread, sent, replies, ownVars>>

Send(c) ==
  /\ process = "alive" /\ peer /\ MaySend /\ Len(sent) < MaxSent
  /\ sent' = Append(sent, c)
  /\ queue' = Append(queue, c)
  /\ UNCHANGED <<plan, process, peer, unread, replies, ownVars>>

ReadReplies ==
  /\ process = "alive" /\ unread > 0
  /\ unread' = 0
  /\ UNCHANGED <<plan, process, peer, queue, sent, replies, ownVars>>

CloseSocket ==
  /\ process = "alive" /\ peer
  /\ peer' = FALSE
  /\ UNCHANGED <<plan, process, queue, unread, sent, replies, ownVars>>

\* The socket remains open if another process has inherited it.
Exit(inherited) ==
  /\ process = "alive"
  /\ process' = "dead"
  /\ peer' = (peer /\ inherited)
  /\ UNCHANGED <<plan, queue, unread, sent, replies, ownVars>>

-----------------------------------------------------------------------------
(***************************************************************************)
(* The end of the operator: its result is stored, then the workplace       *)
(* deletes it.  The destructor ends the process, the processes in          *)
(* "children", and both coroutines with the process they may wait for.     *)
(***************************************************************************)
kept == <<plan, request, again, exited, unread, sent, replies, lost, envs, unstored>>

Gone(end) ==
  /\ phase' = end /\ process' = "none" /\ peer' = FALSE
  /\ channel' = "none" /\ queue' = <<>> /\ task' = "none" /\ children' = 0

Dispose(result) == results' = Append(results, result) /\ Gone("gone") /\ UNCHANGED kept

\* The whole daemon dies; what becomes of the job is the subject of WorkshopCluster.
Abort == Gone("aborted") /\ UNCHANGED <<kept, results>>

Done(status) == [kind |-> status, arg |-> 0]

\* Mutant of OnTaskCompletion: the error is logged only.
MutErrorNotStored == Gone("gone") /\ UNCHANGED <<kept, results>>

\* OnTaskCompletion with an error.
OnTaskCompletion == Dispose(Done("error"))

\* Does not depend on what the operator is doing.
Cancel == Operating /\ Dispose(Done("canceled"))

OnTimeout == Operating /\ plan.timeout /\ Dispose(Done("timeout"))

-----------------------------------------------------------------------------
(***************************************************************************)
(* Starting the process: Start and Start2.                                 *)
(***************************************************************************)
starting == <<kept, peer, channel, queue, task, children, results>>

Start ==
  /\ phase = "new"
  /\ IF plan.translate /\ ~plan.translation_server
       THEN OnTaskCompletion
       ELSE /\ phase' = IF plan.translate THEN "translate" ELSE "enqueue"
            /\ UNCHANGED <<process, starting>>

TranslateSpawn ==
  /\ phase = "translate"
  /\ \/ phase' = "enqueue" /\ UNCHANGED <<process, starting>>
     \/ OnTaskCompletion

InitControl ==
  /\ peer' = plan.control_channel
  /\ channel' = IF plan.control_channel THEN "enabled" ELSE "none"

\* PrepareChildProcess and what else builds the description of the process refuse an
\* answer of the translation server, or too many arguments or variables.
PrepareFails == OnTaskCompletion

\* InitControl, PrepareChildProcess, then SpawnChildProcess.
EnqueueSpawner ==
  /\ phase = "enqueue"
  /\ \/ /\ phase' = "spawn" /\ process' = "starting"
        /\ InitControl
        /\ UNCHANGED <<kept, queue, task, children, results>>
     \/ PrepareFails

\* The process may have started, written to the socket and ended already.
WaitSpawnCompletion ==
  /\ phase = "spawn"
  /\ \/ /\ process # "starting"
        /\ phase' = "running"
        /\ UNCHANGED <<process, starting>>
     \/ process = "starting" /\ OnTaskCompletion

-----------------------------------------------------------------------------
(***************************************************************************)
(* The control channel.  The socket is served by the event loop while the  *)
(* process runs, and once more, whether it is enabled or not, by the       *)
(* ReceiveAll of OnChildProcessExit: phase "exiting".                      *)
(***************************************************************************)
controlled == <<plan, phase, process, exited, sent, results>>

Delivered(i) ==
  /\ peer
  /\ replies' = Append(replies, i) /\ unread' = unread + 1
  /\ UNCHANGED lost

Undelivered(i) == lost' = lost \cup {i} /\ UNCHANGED <<replies, unread>>

\* "version": the result of WriteNoWait is ignored.
WriteNoWait(i) ==
  /\ Delivered(i) \/ Undelivered(i)
  /\ queue' = Tail(queue)
  /\ UNCHANGED <<peer, channel, task, request>>

\* The reply of OnSpawn, then OnTaskFinished: if it cannot be sent the socket is
\* closed, which loses what is queued.
SendMessage(i, rest) ==
  /\ task' = "none" /\ UNCHANGED request
  /\ \/ Delivered(i) /\ channel' = "enabled" /\ queue' = rest /\ UNCHANGED peer
     \/ Undelivered(i) /\ channel' = "none" /\ queue' = <<>> /\ peer' = FALSE

CanSpawn == plan.allow_spawn /\ plan.translation_server /\ ~exited

\* Mutant of OnSpawn: the socket stays enabled.
MutSpawnInBackground(i) ==
  \/ /\ CanSpawn
     /\ task' = "translate" /\ request' = i
     /\ queue' = Tail(queue) /\ UNCHANGED <<peer, channel, replies, unread, lost>>
  \/ ~CanSpawn /\ SendMessage(i, Tail(queue))

\* OnControlSpawn either fails at once or waits for the translation server.
OnSpawn(i) ==
  \/ /\ CanSpawn
     /\ task' = "translate" /\ channel' = "disabled" /\ request' = i
     /\ queue' = Tail(queue) /\ UNCHANGED <<peer, replies, unread, lost>>
  \/ ~CanSpawn /\ SendMessage(i, Tail(queue))

\* The statement may fail, which is logged.
OnControlSetEnv ==
  \/ envs' = envs + 1 /\ UNCHANGED unstored
  \/ unstored' = unstored + 1 /\ UNCHANGED envs

\* OnUdpDatagram and OnControl with the command c at position i.  "progress" refreshes
\* the two timeouts, which are the subject of WorkshopCluster; a malformed command is
\* logged.
Dispatch(c, i) ==
  /\ again' = IF IsAgain(c) THEN c.arg ELSE again
  /\ IF c.cmd = "setenv" THEN OnControlSetEnv ELSE UNCHANGED <<envs, unstored>>
  /\ \/ c.cmd = "spawn" /\ OnSpawn(i)
     \/ c.cmd = "version" /\ WriteNoWait(i)
     \/ /\ ~IsRequest(c)
        /\ queue' = Tail(queue)
        /\ UNCHANGED <<peer, channel, task, request, replies, unread, lost>>
  /\ UNCHANGED <<controlled, children>>

\* Two cases that the code does not provide for.  While a coroutine is suspended,
\* assert(!task) fails if the build has assertions; otherwise a second "spawn" replaces
\* it.  And a "spawn" that fails at once with a reply that cannot be sent leads to a
\* look at the member "task" of a server that has just been destroyed: the value may
\* end the call as if nothing had happened, or the process may not survive it.
MayAbort(c) == task # "none" \/ (c.cmd = "spawn" /\ ~CanSpawn)

\* The kernel reports that replies were not read before anything that is queued.
Reset == ~peer /\ unread > 0

Receiving ==
  /\ IF phase = "exiting" THEN channel # "none" ELSE channel = "enabled"
  /\ queue # <<>> /\ ~Reset

OnControl ==
  /\ Receiving
  /\ \/ Dispatch(Head(queue), Handled + 1)
     \/ MayAbort(Head(queue)) /\ Abort

\* OnControlClosed and OnControlPermanentError.
OnControlClosed ==
  /\ phase # "exiting" /\ channel = "enabled" /\ ~peer /\ (queue = <<>> \/ Reset)
  /\ channel' = "none" /\ queue' = <<>>
  /\ UNCHANGED <<controlled, peer, task, request, again, children, unread, replies, lost,
                 envs, unstored>>

\* OnControlSpawn gets its answers; DoSpawn starts a process.
TaskResumes ==
  /\ phase # "exiting" /\ task \in {"translate", "enqueue"}
  /\ task' = IF task = "translate" THEN "enqueue" ELSE "spawn"
  /\ UNCHANGED <<controlled, peer, channel, queue, request, again, children, unread,
                 replies, lost, envs, unstored>>

\* Mutant of OnTaskFinished: the socket remains disabled.
MutNotEnabled(spawned) ==
  /\ phase # "exiting" /\ task # "none" /\ (spawned => task = "spawn")
  /\ children' = IF spawned THEN children + 1 ELSE children
  /\ task' = "none"
  /\ Delivered(request) \/ Undelivered(request)
  /\ UNCHANGED <<controlled, peer, channel, queue, request, again, envs, unstored>>

\* A new process, or an error at any stage.
OnTaskFinished(spawned) ==
  /\ phase # "exiting" /\ task # "none" /\ (spawned => task = "spawn")
  /\ children' = IF spawned THEN children + 1 ELSE children
  /\ SendMessage(request, queue)
  /\ UNCHANGED <<controlled, again, envs, unstored>>

-----------------------------------------------------------------------------
(***************************************************************************)
(* The exit of the process, one call of OnChildProcessExit: datagrams that *)
(* are left in the socket are received (OnControl), then the result is     *)
(* stored.  No other step of the operator comes between.                   *)
(***************************************************************************)

\* A suspended coroutine is not resumed any more.
OnChildProcessExit ==
  /\ phase = "running" /\ process = "dead"
  /\ exited' = TRUE /\ phase' = "exiting"
  /\ lost' = IF task = "none" THEN lost ELSE lost \cup {request}
  /\ UNCHANGED <<plan, process, peer, channel, queue, task, request, again, children,
                 unread, sent, replies, envs, unstored, results>>

\* Mutant of AllReceived: what is queued when the process exits is dropped.
MutReceiveNothing == TRUE

\* ReceiveAll has come to its end, or has failed; failures are ignored.
AllReceived == channel = "none" \/ queue = <<>> \/ Reset

StoreResult ==
  /\ phase = "exiting" /\ AllReceived
  /\ Dispose(IF again >= 0 THEN [kind |-> "again", arg |-> again] ELSE Done("exited"))

-----------------------------------------------------------------------------
Init ==
  /\ plan \in Plans
  /\ phase = "new" /\ process = "none" /\ peer = FALSE
  /\ channel = "none" /\ queue = <<>> /\ task = "none" /\ request = 0
  /\ again = NoAgain /\ exited = FALSE /\ children = 0 /\ unread = 0
  /\ sent = <<>> /\ replies = <<>> /\ lost = {} /\ envs = 0 /\ unstored = 0
  /\ results = <<>>

ProcessStep ==
  \/ ProcessStarts \/ ReadReplies \/ CloseSocket
  \/ \E c \in Command : Send(c)
  \/ \E inherited \in BOOLEAN : Exit(inherited)

OperatorStep ==
  \/ Start \/ TranslateSpawn \/ EnqueueSpawner \/ WaitSpawnCompletion
  \/ OnControl \/ OnControlClosed \/ TaskResumes
  \/ \E spawned \in BOOLEAN : OnTaskFinished(spawned)
  \/ OnChildProcessExit \/ StoreResult \/ Cancel \/ OnTimeout

Next == ProcessStep \/ OperatorStep

Spec == Init /\ [][Next]_vars

\* The event loop serves its sockets; translation server and spawner answer.
Fairness ==
  /\ WF_vars(Start \/ TranslateSpawn \/ EnqueueSpawner \/ WaitSpawnCompletion)
  /\ WF_vars(OnControl \/ OnControlClosed)
  /\ WF_vars(TaskResumes \/ \E spawned \in BOOLEAN : OnTaskFinished(spawned))
  /\ WF_vars(OnChildProcessExit \/ StoreResult)

FairSpec == Spec /\ Fairness

-----------------------------------------------------------------------------
(***************************************************************************)
(* Properties.                                                             *)
(***************************************************************************)

\* However an operator ends, at whatever point of starting, running or spawning, it
\* has stored exactly one result for its job: the job is neither forgotten nor
\* finished twice.
OneResult == Len(results) = (IF phase = "gone" THEN 1 ELSE 0)

\* The latest "again" among the commands.
LastAgain(commands) ==
  LET I == {i \in DOMAIN commands : IsAgain(commands[i])}
  IN IF I = {} THEN NoAgain ELSE commands[Max(I)].arg

SetEnvs(commands) == {i \in DOMAIN commands : commands[i].cmd = "setenv"}

\* The commands of a patient process are never lost, although it may exit before
\* they are received and although a reply to it may not be delivered: when its exit is
\* handled, the latest "again" decides about the result, and all its environment
\* variables have been passed to the database (where the statement may fail) before the
\* job is put back.
CommandsHonoured ==
  phase = "gone" /\ exited /\ plan.patient /\ plan.control_channel =>
    LET delay == LastAgain(sent)
    IN /\ results[1] = IF delay >= 0 THEN [kind |-> "again", arg |-> delay]
                                     ELSE Done("exited")
       /\ envs + unstored = Cardinality(SetEnvs(sent))

Answered(i) == \E k \in DOMAIN replies : replies[k] = i

\* The requests of a process are answered in the order in which they were sent, also if
\* it does not wait for replies: no request is answered twice, and a reply comes after
\* the replies to all earlier requests, except those which could not be delivered and a
\* "spawn" that was still waiting when the process exited.  In particular "version"
\* does not overtake a "spawn" that takes time.
RepliesInOrder ==
  \A k \in DOMAIN replies :
    /\ replies[k] \in Requests(sent, Len(sent))
    /\ \A h \in 1..(k - 1) : replies[h] < replies[k]
    /\ \A i \in Requests(sent, replies[k]) :
         i \in lost \/ \E h \in 1..k : replies[h] = i

\* Every request is answered, unless sending the reply fails, or the channel is closed
\* or the operator ends first: after each "spawn" the socket is enabled again.
RequestsAnswered ==
  \A i \in 1..MaxSent :
    i \in Requests(sent, Len(sent)) ~> (Answered(i) \/ i \in lost \/ channel = "none")
=============================================================================
