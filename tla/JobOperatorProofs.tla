-------------------------- MODULE JobOperatorProofs --------------------------
(***************************************************************************)
(* Proofs about JobOperator, for all plans, any number of commands and     *)
(* every largest delay.                                                    *)
(***************************************************************************)
EXTENDS JobOperator, FiniteSetTheorems, WellFoundedInduction, TLAPS

Result ==
  [kind : {"again", "exited", "error", "canceled", "timeout"}, arg : Int]

Ended == phase \in {"gone", "aborted"}

TypeOK ==
  /\ plan \in Plan
  /\ phase \in Waiting \cup {"new", "running", "exiting", "gone", "aborted"}
  /\ process \in {"none", "starting", "alive", "dead"}
  /\ peer \in BOOLEAN /\ exited \in BOOLEAN
  /\ channel \in {"none", "enabled", "disabled"}
  /\ task \in {"none", "translate", "enqueue", "spawn"}
  /\ queue \in Seq(Command) /\ sent \in Seq(Command)
  /\ replies \in Seq(Nat) /\ lost \in SUBSET Nat /\ request \in Nat
  /\ again \in Int /\ children \in Nat /\ unread \in Nat /\ envs \in Nat /\ unstored \in Nat
  /\ results \in Seq(Result)

\* What exists in which phase.  The socket is disabled exactly while a coroutine
\* OnSpawn waits, and the process cannot write into a channel that is closed.
Lifecycle ==
  /\ phase \in {"new", "translate", "enqueue"} =>
       /\ queue = <<>> /\ sent = <<>> /\ replies = <<>> /\ unread = 0
       /\ again = NoAgain /\ envs = 0 /\ unstored = 0
  /\ phase \notin {"spawn", "running", "exiting"} => process = "none" /\ channel = "none"
  /\ exited => phase = "exiting" \/ Ended
  /\ phase = "exiting" => exited /\ process = "dead"
  /\ peer => channel # "none"
  /\ task # "none" <=> channel = "disabled"

Suspended == IF task = "none" THEN 0 ELSE 1

\* The queue is what remains of the commands sent, and there are not more replies than
\* requests received.
ChannelShape ==
  channel # "none" =>
    /\ Handled >= 0
    /\ \A i \in 1..Len(queue) : queue[i] = sent[Handled + i]
    /\ Len(replies) + Suspended <= Cardinality(Requests(sent, Handled))

\* Each request received was answered, or its reply was given up, or it is the one that
\* a suspended coroutine belongs to: the latest command received, until the process
\* exits.
RequestsDealtWith ==
  channel # "none" =>
    /\ \A i \in Requests(sent, Handled) :
         i \in lost \/ Answered(i) \/ (task # "none" /\ i = request)
    /\ \A k \in DOMAIN replies :
         replies[k] <= Handled /\ (task # "none" /\ phase # "exiting" => replies[k] < Handled)
    /\ task # "none" =>
         IF phase = "exiting" THEN request \in lost
         ELSE request = Handled /\ request \in Requests(sent, Handled)

\* A patient process has at most one request whose reply it has not read, and that is
\* the last command it has sent.
PatientShape ==
  /\ Len(replies) <= RequestCount(sent)
  /\ plan.patient =>
       \/ RequestCount(sent) = Len(replies) - unread
       \/ /\ RequestCount(sent) = Len(replies) - unread + 1
          /\ Len(sent) > 0 /\ IsRequest(sent[Len(sent)])

\* The delay that the first n commands ask for.
AgainAfter(delay, commands, n) ==
  \/ delay = NoAgain /\ \A i \in 1..n : ~IsAgain(commands[i])
  \/ \E i \in 1..n : /\ IsAgain(commands[i]) /\ delay = commands[i].arg
                     /\ \A h \in (i + 1)..n : ~IsAgain(commands[h])

\* The positions of the commands of some kinds among the first n.
Positions(commands, n, kinds) == {i \in 1..n : commands[i].cmd \in kinds}

AppliedTo(n) ==
  /\ AgainAfter(again, sent, n)
  /\ envs + unstored = Cardinality(Positions(sent, n, {"setenv"}))

\* The commands that have left the queue were applied; when the channel of a patient
\* process is closed, none was lost.
Applied ==
  ~Ended =>
    /\ channel # "none" => AppliedTo(Handled)
    /\ channel = "none" /\ plan.patient => AppliedTo(Len(sent))

IInv ==
  /\ TypeOK /\ Lifecycle /\ OneResult /\ ChannelShape /\ RequestsDealtWith
  /\ RepliesInOrder /\ PatientShape /\ Applied /\ CommandsHonoured

-----------------------------------------------------------------------------
(***************************************************************************)
(* Commands and their positions.                                           *)
(***************************************************************************)

\* The parameter of a command is a number.
LEMMA CommandFields ==
  ASSUME NEW c \in Command
  PROVE  c.arg \in Nat
  <1>1. CASE \E k \in {"progress", "setenv", "version", "spawn", "malformed"} :
               c = [cmd |-> k, arg |-> 0]
    BY <1>1
  <1>2. CASE \E d \in 0..(MaxDelay + 1) : c = [cmd |-> "again", arg |-> d]
    <2>1. PICK d \in 0..(MaxDelay + 1) : c = [cmd |-> "again", arg |-> d]
      BY <1>2
    <2>2. c.arg = d /\ d \in Nat
      BY <2>1, OperatorAssumption
    <2> QED
      BY <2>2
  <1> QED
    BY <1>1, <1>2 DEF Command

\* Requests are commands of two kinds.
LEMMA RequestsArePositions ==
  \A s, n : Requests(s, n) = Positions(s, n, {"version", "spawn"})
  BY DEF Requests, Positions, IsRequest

\* What CommandsHonoured counts.
LEMMA SetEnvsArePositions ==
  ASSUME NEW s \in Seq(Command)
  PROVE  SetEnvs(s) = Positions(s, Len(s), {"setenv"})
  BY DEF SetEnvs, Positions

\* There are finitely many positions, and none before the first command.
LEMMA PositionsFinite ==
  ASSUME NEW s, NEW n \in Int, NEW kinds
  PROVE  /\ IsFiniteSet(Positions(s, n, kinds))
         /\ Cardinality(Positions(s, n, kinds)) \in Nat
         /\ n <= 0 => Cardinality(Positions(s, n, kinds)) = 0
  <1>1. IsFiniteSet(1..n)
    BY FS_Interval
  <1>2. Positions(s, n, kinds) \in SUBSET (1..n)
    BY DEF Positions
  <1>3. IsFiniteSet(Positions(s, n, kinds))
    BY <1>1, <1>2, FS_Subset
  <1>4. ASSUME n <= 0 PROVE Positions(s, n, kinds) = {}
    BY <1>4 DEF Positions
  <1> QED
    BY <1>3, <1>4, FS_CardinalityType, FS_EmptySet

\* One more command.
LEMMA PositionsNext ==
  ASSUME NEW s, NEW n \in Nat, NEW kinds
  PROVE  Cardinality(Positions(s, n + 1, kinds)) =
           Cardinality(Positions(s, n, kinds)) + (IF s[n + 1].cmd \in kinds THEN 1 ELSE 0)
  <1> DEFINE P == Positions(s, n, kinds)
  <1>1. IsFiniteSet(P) /\ Cardinality(P) \in Nat
    BY PositionsFinite
  <1>2. n + 1 \notin P
    BY DEF Positions
  <1>3. CASE s[n + 1].cmd \in kinds
    <2>1. Positions(s, n + 1, kinds) = P \cup {n + 1}
      BY <1>3 DEF Positions
    <2> QED
      BY <1>1, <1>2, <1>3, <2>1, FS_AddElement
  <1>4. CASE s[n + 1].cmd \notin kinds
    <2>1. Positions(s, n + 1, kinds) = P
      BY <1>4 DEF Positions
    <2> QED
      BY <1>1, <1>4, <2>1
  <1> QED
    BY <1>3, <1>4

\* Later commands do not reduce the number, and one of these kinds increases it.
LEMMA PositionsGrow ==
  ASSUME NEW s, NEW m \in Nat, NEW n \in Nat, m <= n, NEW kinds
  PROVE  /\ Cardinality(Positions(s, m, kinds)) <= Cardinality(Positions(s, n, kinds))
         /\ \A i \in (m + 1)..n : s[i].cmd \in kinds =>
              Cardinality(Positions(s, m, kinds)) < Cardinality(Positions(s, n, kinds))
  <1> DEFINE P == Positions(s, m, kinds)
             Q == Positions(s, n, kinds)
  <1>1. /\ IsFiniteSet(P) /\ Cardinality(P) \in Nat
        /\ IsFiniteSet(Q) /\ Cardinality(Q) \in Nat
    BY PositionsFinite
  <1>2. P \in SUBSET Q
    BY DEF Positions
  <1>3. Cardinality(P) <= Cardinality(Q) /\ (Cardinality(Q) = Cardinality(P) => Q = P)
    BY <1>1, <1>2, FS_Subset
  <1>4. ASSUME NEW i \in (m + 1)..n, s[i].cmd \in kinds PROVE i \in Q /\ i \notin P
    BY <1>4 DEF Positions
  <1> HIDE DEF P, Q
  <1>5. ASSUME NEW i \in (m + 1)..n, s[i].cmd \in kinds
        PROVE  Cardinality(P) < Cardinality(Q)
    <2>1. P # Q
      BY <1>4, <1>5
    <2> QED
      BY <1>1, <1>3, <2>1
  <1> QED
    BY <1>3, <1>5 DEF P, Q

\* Sending a command does not change the positions of those before it.
LEMMA PositionsAppend ==
  ASSUME NEW s \in Seq(Command), NEW c \in Command, NEW n \in Int, n <= Len(s), NEW kinds
  PROVE  Positions(Append(s, c), n, kinds) = Positions(s, n, kinds)
  <1>1. \A i \in 1..n : Append(s, c)[i] = s[i]
    OBVIOUS
  <1> QED
    BY <1>1 DEF Positions

\* A set of numbers has a least one.
LEMMA LeastOf ==
  ASSUME NEW n \in Nat, NEW T \in SUBSET (1..n), T # {}
  PROVE  Min(T) \in T /\ \A y \in T : Min(T) <= y
  <1> DEFINE R == {p \in Nat \X Nat : p[1] < p[2]}
  <1>1. R = OpToRel(<, Nat)
    BY DEF OpToRel
  <1>2. IsWellFoundedOn(R, Nat)
    BY <1>1, NatLessThanWellFounded
  <1>3. PICK x \in T : \A y \in T : <<y, x>> \notin R
    <2>1. T \in SUBSET Nat
      OBVIOUS
    <2> HIDE DEF R
    <2> QED
      BY <1>2, <2>1, WFMin
  <1>4. ASSUME NEW y \in T PROVE x <= y
    <2>1. <<y, x>> \notin R
      BY <1>3
    <2> QED
      BY <2>1
  <1>5. Min(T) \in T /\ \A y \in T : Min(T) <= y
    BY <1>4 DEF Min
  <1> QED
    BY <1>5

\* A bounded set of numbers has a greatest one.
LEMMA GreatestOf ==
  ASSUME NEW n \in Nat, NEW T \in SUBSET (1..n), T # {}
  PROVE  Max(T) \in T /\ \A y \in T : y <= Max(T)
  <1> DEFINE Gaps == {k \in 1..n : n + 1 - k \in T}
  <1>1. \A t \in T : n + 1 - t \in Gaps
    OBVIOUS
  <1>2. Gaps \in SUBSET (1..n) /\ Gaps # {}
    BY <1>1
  <1>3. \A k \in Gaps : n + 1 - k \in T
    OBVIOUS
  <1> HIDE DEF Gaps
  <1>4. PICK k \in Gaps : \A h \in Gaps : k <= h
    BY <1>2, LeastOf
  <1>5. n + 1 - k \in T /\ \A y \in T : y <= n + 1 - k
    BY <1>1, <1>2, <1>3, <1>4
  <1>6. \E x \in T : \A y \in T : x >= y
    BY <1>5
  <1>7. Max(T) \in T /\ \A y \in T : Max(T) >= y
    BY <1>6 DEF Max
  <1> QED
    BY <1>7

\* What all commands ask for is what the last one of them does.
LEMMA AgainIsLast ==
  ASSUME NEW s \in Seq(Command), NEW delay, AgainAfter(delay, s, Len(s))
  PROVE  delay = LastAgain(s)
  <1> DEFINE I == {i \in DOMAIN s : IsAgain(s[i])}
  <1>1. CASE I = {}
    BY <1>1 DEF AgainAfter, LastAgain
  <1>2. CASE I # {}
    <2>1. I \in SUBSET (1..Len(s)) /\ \A i \in 1..Len(s) : i \in I <=> IsAgain(s[i])
      OBVIOUS
    <2>3. LastAgain(s) = s[Max(I)].arg
      BY <1>2 DEF LastAgain
    <2>4. PICK i \in 1..Len(s) : /\ IsAgain(s[i]) /\ delay = s[i].arg
                                 /\ \A h \in (i + 1)..Len(s) : ~IsAgain(s[h])
      BY <1>2 DEF AgainAfter
    <2> HIDE DEF I
    <2>2. PICK m \in I : m = Max(I) /\ \A y \in I : y <= m
      <3>1. Len(s) \in Nat
        OBVIOUS
      <3> QED
        BY <1>2, <2>1, <3>1, GreatestOf
    <2>5. i \in I /\ m \in 1..Len(s) /\ IsAgain(s[m])
      BY <2>1, <2>2, <2>4
    <2>6. i = m
      BY <2>2, <2>4, <2>5
    <2> QED
      BY <2>2, <2>3, <2>4, <2>6
  <1> QED
    BY <1>1, <1>2

\* One more command is applied.
LEMMA AgainNext ==
  ASSUME NEW s, NEW n \in Nat, NEW delay, AgainAfter(delay, s, n)
  PROVE  AgainAfter(IF IsAgain(s[n + 1]) THEN s[n + 1].arg ELSE delay, s, n + 1)
  <1>1. CASE IsAgain(s[n + 1])
    <2>1. n + 1 \in 1..(n + 1) /\ \A h \in (n + 1 + 1)..(n + 1) : ~IsAgain(s[h])
      OBVIOUS
    <2> QED
      BY <1>1, <2>1 DEF AgainAfter
  <1>2. CASE ~IsAgain(s[n + 1])
    BY <1>2 DEF AgainAfter
  <1> QED
    BY <1>1, <1>2

\* Sending a command does not change what those before it ask for.
LEMMA AgainAppend ==
  ASSUME NEW s \in Seq(Command), NEW c \in Command, NEW n \in Int, n <= Len(s),
         NEW delay, AgainAfter(delay, s, n)
  PROVE  AgainAfter(delay, Append(s, c), n)
  <1>1. \A i \in 1..n : Append(s, c)[i] = s[i]
    OBVIOUS
  <1> HIDE DEF IsAgain
  <1> QED
    BY <1>1 DEF AgainAfter

-----------------------------------------------------------------------------
(***************************************************************************)
(* The steps.                                                              *)
(***************************************************************************)

\* A new operator satisfies the invariant.
LEMMA InvInit == Init => IInv
  <1> SUFFICES ASSUME Init
               PROVE  IInv
    OBVIOUS
  <1>1. TypeOK
    <2>1. queue \in Seq(Command) /\ sent \in Seq(Command) /\ replies \in Seq(Nat)
      BY DEF Init
    <2>2. results \in Seq(Result)
      BY DEF Init
    <2>3. /\ again \in Int /\ children \in Nat /\ unread \in Nat /\ envs \in Nat
          /\ unstored \in Nat /\ request \in Nat /\ lost \in SUBSET Nat
      BY DEF Init, NoAgain
    <2>4. peer \in BOOLEAN /\ exited \in BOOLEAN /\ plan \in Plan
      BY OperatorAssumption, Zenon DEF Init
    <2> QED
      BY <2>1, <2>2, <2>3, <2>4 DEF Init, TypeOK
  <1>2. Lifecycle /\ OneResult /\ ChannelShape /\ RequestsDealtWith
    BY DEF Init, Lifecycle, Ended, OneResult, ChannelShape, RequestsDealtWith
  <1>3. RepliesInOrder /\ CommandsHonoured
    BY DEF Init, RepliesInOrder, CommandsHonoured
  <1>4. PatientShape
    <2>1. Cardinality(Positions(sent, Len(sent), {"version", "spawn"})) = 0
      BY PositionsFinite DEF Init
    <2> QED
      BY <2>1, RequestsArePositions DEF Init, PatientShape, RequestCount
  <1>5. Applied
    <2>1. Cardinality(Positions(sent, Len(sent), {"setenv"})) = 0
      BY PositionsFinite DEF Init
    <2>2. AgainAfter(again, sent, Len(sent))
      BY DEF Init, AgainAfter
    <2> QED
      BY <2>1, <2>2 DEF Init, Applied, AppliedTo
  <1> QED
    BY <1>1, <1>2, <1>3, <1>4, <1>5 DEF IInv

commands == <<plan, queue, request, again, unread, sent, replies, lost, envs, unstored>>

\* Steps that neither send nor handle a command.
LEMMA QuietStep ==
  ASSUME IInv, UNCHANGED commands, channel' = channel, results' = results,
         task' = task \/ (task # "none" /\ task' # "none"),
         peer' => peer, ~Ended, ~Ended', phase # "exiting", phase' # "exiting",
         TypeOK', Lifecycle'
  PROVE  IInv'
  <1> USE DEF IInv, commands
  <1>1. OneResult' /\ CommandsHonoured'
    BY DEF OneResult, CommandsHonoured, Ended
  <1>2. ChannelShape'
    BY DEF ChannelShape, Handled, Suspended, Requests
  <1>3. RequestsDealtWith'
    BY DEF RequestsDealtWith, Handled, Answered, Requests
  <1>4. RepliesInOrder'
    BY DEF RepliesInOrder, Requests
  <1>5. PatientShape'
    BY DEF PatientShape, RequestCount, Requests
  <1>6. Applied'
    BY DEF Applied, AppliedTo, Handled
  <1> QED
    BY <1>1, <1>2, <1>3, <1>4, <1>5, <1>6

\* Once the channel is gone and no command is handled, what is said about the channel
\* holds, and what is said about the replies remains.
LEMMA ClosedShapes ==
  ASSUME IInv, channel' = "none", UNCHANGED <<plan, unread, sent, replies, lost>>
  PROVE  ChannelShape' /\ RequestsDealtWith' /\ RepliesInOrder' /\ PatientShape'
  <1>1. ChannelShape' /\ RequestsDealtWith'
    BY DEF ChannelShape, RequestsDealtWith
  <1>2. RepliesInOrder'
    BY DEF IInv, RepliesInOrder, Requests
  <1>3. PatientShape'
    BY DEF IInv, PatientShape, RequestCount, Requests
  <1> QED
    BY <1>1, <1>2, <1>3

\* The operator stores a result and is deleted.
LEMMA DisposeStep ==
  ASSUME IInv, ~Ended, NEW r \in Result, Dispose(r), (CommandsHonoured)'
  PROVE  IInv'
  <1> USE DEF IInv, Gone, Dispose, kept
  <1>1. TypeOK'
    <2>1. queue' \in Seq(Command) /\ sent' \in Seq(Command) /\ replies' \in Seq(Nat)
      BY DEF TypeOK
    <2>2. results' \in Seq(Result)
      BY DEF TypeOK
    <2>3. peer' \in BOOLEAN /\ exited' \in BOOLEAN /\ plan' \in Plan
      BY Zenon DEF TypeOK
    <2> QED
      BY <2>1, <2>2, <2>3 DEF TypeOK
  <1>2. Lifecycle' /\ OneResult' /\ Applied'
    BY DEF TypeOK, Lifecycle, OneResult, Applied, Ended
  <1> QED
    BY <1>1, <1>2, ClosedShapes

\* The daemon dies.
LEMMA AbortStep ==
  ASSUME IInv, ~Ended, Abort
  PROVE  IInv'
  <1> USE DEF IInv, Gone, Abort, kept
  <1>1. TypeOK'
    <2>1. queue' \in Seq(Command) /\ sent' \in Seq(Command) /\ replies' \in Seq(Nat)
      BY DEF TypeOK
    <2>2. peer' \in BOOLEAN /\ exited' \in BOOLEAN /\ plan' \in Plan
      BY Zenon DEF TypeOK
    <2> QED
      BY <2>1, <2>2 DEF TypeOK
  <1>2. Lifecycle' /\ OneResult' /\ Applied' /\ CommandsHonoured'
    BY DEF TypeOK, Lifecycle, OneResult, Applied, Ended, CommandsHonoured
  <1> QED
    BY <1>1, <1>2, ClosedShapes

\* An error, a cancelation or the timeout ends the operator before its process has.
LEMMA ErrorStep ==
  ASSUME IInv, ~Ended, phase # "exiting", OnTaskCompletion \/ Cancel \/ OnTimeout
  PROVE  IInv'
  <1>1. Done("error") \in Result /\ Done("canceled") \in Result /\ Done("timeout") \in Result
    BY DEF Done, Result
  <1>2. PICK r \in Result : Dispose(r)
    BY <1>1 DEF OnTaskCompletion, Cancel, OnTimeout
  <1>3. ~exited'
    BY <1>2 DEF Dispose, kept, IInv, Lifecycle, TypeOK
  <1>4. CommandsHonoured'
    BY <1>3 DEF CommandsHonoured
  <1> QED
    BY <1>2, <1>4, DisposeStep

\* A process without commands is started, with or without a channel.
LEMMA EnqueueStep ==
  ASSUME IInv, EnqueueSpawner
  PROVE  IInv'
  <1>1. CASE PrepareFails
    BY <1>1, ErrorStep DEF EnqueueSpawner, PrepareFails, Ended
  <1>2. CASE /\ phase = "enqueue" /\ phase' = "spawn" /\ process' = "starting" /\ InitControl
             /\ UNCHANGED <<kept, queue, task, children, results>>
    <2> USE <1>2 DEF IInv, InitControl, kept
    <2>1. /\ queue = <<>> /\ sent = <<>> /\ replies = <<>> /\ unread = 0 /\ unstored = 0
          /\ again = NoAgain /\ envs = 0 /\ channel = "none" /\ task = "none" /\ ~exited
      BY DEF Lifecycle, TypeOK, Ended
    <2>2. TypeOK'
      BY DEF TypeOK, Waiting, Plan
    <2>3. Lifecycle' /\ OneResult' /\ RepliesInOrder' /\ CommandsHonoured'
      BY <2>1 DEF Lifecycle, OneResult, RepliesInOrder, CommandsHonoured, Ended
    <2>4. \A kinds : Cardinality(Positions(sent', 0, kinds)) = 0
      BY PositionsFinite DEF Positions
    <2>5. Len(sent') = 0 /\ Len(queue') = 0 /\ Handled' = 0
      BY <2>1 DEF Handled
    <2>6. Cardinality(Requests(sent', Handled')) = 0 /\ RequestCount(sent') = 0
      BY <2>4, <2>5, RequestsArePositions DEF RequestCount
    <2>7. ChannelShape' /\ PatientShape'
      BY <2>1, <2>5, <2>6 DEF ChannelShape, Suspended, PatientShape
    <2>8. AgainAfter(again', sent', 0)
      BY <2>1 DEF AgainAfter
    <2>9. Applied'
      BY <2>1, <2>4, <2>5, <2>8 DEF Applied, AppliedTo
    <2>10. RequestsDealtWith'
      BY <2>1, <2>5 DEF RequestsDealtWith, Requests
    <2> QED
      BY <2>2, <2>3, <2>7, <2>9, <2>10
  <1> QED
    BY <1>1, <1>2 DEF EnqueueSpawner

\* PositionsGrow and PositionsNext for requests.
LEMMA RequestsGrow ==
  ASSUME NEW s, NEW m \in Nat, NEW n \in Nat, m <= n
  PROVE  /\ Cardinality(Requests(s, m)) \in Nat
         /\ Cardinality(Requests(s, m)) <= Cardinality(Requests(s, n))
         /\ \A i \in (m + 1)..n : IsRequest(s[i]) =>
              Cardinality(Requests(s, m)) < Cardinality(Requests(s, n))
  <1> DEFINE K == {"version", "spawn"}
  <1>1. /\ Requests(s, m) = Positions(s, m, K) /\ Requests(s, n) = Positions(s, n, K)
        /\ \A i : IsRequest(s[i]) <=> s[i].cmd \in K
    BY RequestsArePositions DEF IsRequest
  <1> HIDE DEF K
  <1>2. Cardinality(Positions(s, m, K)) \in Nat
    BY PositionsFinite
  <1>3. /\ Cardinality(Positions(s, m, K)) <= Cardinality(Positions(s, n, K))
        /\ \A i \in (m + 1)..n : s[i].cmd \in K =>
             Cardinality(Positions(s, m, K)) < Cardinality(Positions(s, n, K))
    BY PositionsGrow
  <1> QED
    BY <1>1, <1>2, <1>3

\* One more command may be one more request.
LEMMA RequestsNext ==
  ASSUME NEW s, NEW n \in Nat
  PROVE  Cardinality(Requests(s, n + 1)) =
           Cardinality(Requests(s, n)) + (IF IsRequest(s[n + 1]) THEN 1 ELSE 0)
  <1> DEFINE K == {"version", "spawn"}
  <1>1. /\ Requests(s, n) = Positions(s, n, K)
        /\ Requests(s, n + 1) = Positions(s, n + 1, K)
        /\ IsRequest(s[n + 1]) <=> s[n + 1].cmd \in K
    BY RequestsArePositions DEF IsRequest
  <1> HIDE DEF K
  <1>2. Cardinality(Positions(s, n + 1, K)) =
          Cardinality(Positions(s, n, K)) + (IF s[n + 1].cmd \in K THEN 1 ELSE 0)
    BY PositionsNext
  <1> QED
    BY <1>1, <1>2

\* Nothing is behind a request of a patient process, neither while it is being
\* executed nor while its reply is unread.
LEMMA PatientQueue ==
  ASSUME IInv, plan.patient, channel # "none"
  PROVE  /\ unread > 0 \/ task # "none" => Len(queue) = 0
         /\ \A i \in 1..Len(queue) : IsRequest(queue[i]) => i = Len(queue)
  <1> DEFINE R(n) == Cardinality(Requests(sent, n))
             S == Len(sent)
             H == Handled
  <1>1. /\ S \in Nat /\ H \in Nat /\ H <= S /\ Len(queue) \in Nat /\ H = S - Len(queue)
        /\ Len(replies) \in Nat /\ unread \in Nat
    BY DEF IInv, TypeOK, ChannelShape, Handled
  <1>2. /\ R(H) \in Nat /\ R(S) \in Nat /\ R(H) <= R(S)
        /\ \A i \in (H + 1)..S : IsRequest(sent[i]) => R(H) < R(S)
    BY <1>1, RequestsGrow
  <1>3. Len(replies) + Suspended <= R(H) /\ Suspended \in Nat /\ (task # "none" => Suspended = 1)
    BY DEF IInv, ChannelShape, Suspended
  <1>4. \/ R(S) = Len(replies) - unread
        \/ R(S) = Len(replies) - unread + 1 /\ S > 0 /\ IsRequest(sent[S])
    BY DEF IInv, PatientShape, RequestCount
  <1>5. ASSUME NEW i \in 1..Len(queue), IsRequest(queue[i])
        PROVE  H + i \in Nat /\ H + i \in (H + 1)..S /\ IsRequest(sent[H + i])
    BY <1>1, <1>5 DEF IInv, ChannelShape
  <1> HIDE DEF R, S, H
  <1>6. ASSUME unread > 0 \/ task # "none" PROVE H = S
    <2>1. IsRequest(sent[S]) /\ R(S) <= R(H)
      BY <1>1, <1>2, <1>3, <1>4, <1>6
    <2>2. ~(S \in (H + 1)..S)
      BY <1>2, <2>1
    <2> QED
      BY <1>1, <2>2
  <1>7. ASSUME NEW i \in 1..Len(queue), IsRequest(queue[i]) PROVE i = Len(queue)
    <2>1. R(H) < R(S)
      BY <1>2, <1>5, <1>7
    <2>2. IsRequest(sent[S]) /\ R(S) <= R(H) + 1
      BY <1>1, <1>2, <1>3, <1>4, <2>1
    <2>3. SUFFICES ASSUME H + i < S PROVE FALSE
      BY <1>1, <1>5, <1>7
    <2>4. H + i \in Nat /\ H + i \in (H + 1)..(H + i) /\ S \in (H + i + 1)..S
      BY <1>1, <2>3
    <2>5. R(H) < R(H + i) /\ R(H + i) < R(S) /\ R(H + i) \in Nat
      BY <1>1, <1>5, <1>7, <2>2, <2>3, <2>4, RequestsGrow DEF R
    <2> QED
      BY <1>2, <2>2, <2>5
  <1> QED
    BY <1>1, <1>6, <1>7

\* The process sends a command.
LEMMA SendStep ==
  ASSUME IInv, NEW c \in Command, Send(c)
  PROVE  IInv'
  <1> USE DEF Send, ownVars
  <1>1. /\ channel # "none" /\ ~Ended /\ phase \in {"spawn", "running"} /\ ~exited
        /\ sent \in Seq(Command) /\ queue \in Seq(Command) /\ replies \in Seq(Nat)
        /\ Len(sent) \in Nat /\ Len(queue) \in Nat /\ Handled \in Nat /\ Handled <= Len(sent)
    BY DEF IInv, TypeOK, Lifecycle, ChannelShape, Handled, Ended
  <1>2. /\ sent' = Append(sent, c) /\ queue' = Append(queue, c)
        /\ Len(sent') = Len(sent) + 1 /\ Len(queue') = Len(queue) + 1
    BY <1>1
  <1>3. Handled' = Handled
    BY <1>1, <1>2 DEF Handled
  <1>4. TypeOK' /\ Lifecycle' /\ OneResult' /\ CommandsHonoured'
    BY <1>1, <1>2 DEF IInv, TypeOK, Lifecycle, OneResult, CommandsHonoured, Ended
  <1>5. \A n \in Int : n <= Len(sent) =>
          \A kinds : Positions(sent', n, kinds) = Positions(sent, n, kinds)
    BY <1>1, <1>2, PositionsAppend
  <1>6. \A n \in Int : n <= Len(sent) => Requests(sent', n) = Requests(sent, n)
    BY <1>5, RequestsArePositions
  <1>7. \A i \in 1..Len(sent) : sent'[i] = sent[i]
    BY <1>1, <1>2
  <1>8. sent'[Len(sent) + 1] = c
    BY <1>1, <1>2
  <1>9. ChannelShape'
    <2>1. ASSUME NEW i \in 1..(Len(queue) + 1) PROVE queue'[i] = sent'[Handled + i]
      <3>1. CASE i = Len(queue) + 1
        BY <1>1, <1>2, <1>8, <3>1 DEF Handled
      <3>2. CASE i \in 1..Len(queue)
        BY <1>1, <1>2, <1>7, <3>2 DEF IInv, ChannelShape, Handled
      <3>3. i = Len(queue) + 1 \/ i \in 1..Len(queue)
        BY <1>1
      <3> QED
        BY <3>1, <3>2, <3>3
    <2>2. Cardinality(Requests(sent', Handled)) = Cardinality(Requests(sent, Handled))
      BY <1>1, <1>6
    <2> QED
      BY <1>1, <1>2, <1>3, <2>1, <2>2 DEF IInv, ChannelShape, Suspended
  <1>10. Requests(sent', Handled) = Requests(sent, Handled)
    BY <1>1, <1>6
  <1>11. RequestsDealtWith'
    BY <1>1, <1>3, <1>10 DEF IInv, RequestsDealtWith, Answered
  <1>12. RepliesInOrder'
    <2>1. ASSUME NEW k \in DOMAIN replies
          PROVE  /\ replies[k] \in Requests(sent', Len(sent'))
                 /\ Requests(sent', replies[k]) = Requests(sent, replies[k])
      <3>1. replies[k] \in 1..Len(sent) /\ IsRequest(sent[replies[k]])
        BY DEF IInv, RepliesInOrder, Requests
      <3> QED
        BY <1>1, <1>2, <1>6, <1>7, <3>1 DEF Requests
    <2> QED
      BY <2>1 DEF IInv, RepliesInOrder
  <1>13. PatientShape'
    <2>1. RequestCount(sent') = RequestCount(sent) + (IF IsRequest(c) THEN 1 ELSE 0)
      <3> DEFINE s == Append(sent, c)
      <3>1. s[Len(sent) + 1] = c /\ sent' = s
        BY <1>1
      <3> HIDE DEF s
      <3>2. Cardinality(Requests(s, Len(sent) + 1)) =
              Cardinality(Requests(s, Len(sent))) + (IF IsRequest(c) THEN 1 ELSE 0)
        BY <1>1, <3>1, RequestsNext
      <3>3. Requests(s, Len(sent)) = Requests(sent, Len(sent))
        BY <1>1, <1>6, <3>1
      <3> QED
        BY <1>2, <3>1, <3>2, <3>3 DEF RequestCount
    <2>2. RequestCount(sent) \in Nat /\ Len(replies) \in Nat /\ unread \in Nat
      BY <1>1, RequestsGrow DEF IInv, TypeOK, RequestCount
    <2> QED
      BY <1>1, <1>2, <1>8, <2>1, <2>2 DEF IInv, PatientShape, MaySend
  <1>14. Applied'
    <2>1. AgainAfter(again, sent', Handled)
      BY <1>1, <1>2, AgainAppend DEF IInv, Applied, AppliedTo
    <2>2. envs + unstored = Cardinality(Positions(sent', Handled, {"setenv"}))
      BY <1>1, <1>5 DEF IInv, Applied, AppliedTo
    <2> QED
      BY <1>1, <1>3, <2>1, <2>2 DEF Applied, AppliedTo
  <1> QED
    BY <1>4, <1>9, <1>11, <1>12, <1>13, <1>14 DEF IInv

\* The process reads the replies it has got.
LEMMA ReadStep ==
  ASSUME IInv, ReadReplies
  PROVE  IInv'
  <1> USE DEF ReadReplies, ownVars
  <1>1. phase \in {"spawn", "running"} /\ ~exited
    BY DEF IInv, TypeOK, Lifecycle, Ended
  <1>2. TypeOK'
    BY DEF IInv, TypeOK
  <1>3. Lifecycle' /\ OneResult' /\ CommandsHonoured'
    BY <1>1 DEF IInv, Lifecycle, OneResult, CommandsHonoured, Ended
  <1>4. ChannelShape' /\ RequestsDealtWith'
    BY DEF IInv, ChannelShape, RequestsDealtWith, Handled, Suspended, Answered
  <1>5. RepliesInOrder' /\ Applied'
    BY DEF IInv, RepliesInOrder, Applied, AppliedTo, Handled, Ended
  <1>6. PatientShape'
    <2>1. /\ RequestCount(sent) \in Nat /\ Len(replies) <= RequestCount(sent)
          /\ Len(replies) \in Nat /\ unread \in Nat
      BY RequestsGrow DEF IInv, TypeOK, PatientShape, RequestCount
    <2> QED
      BY <2>1 DEF IInv, PatientShape
  <1> QED
    BY <1>2, <1>3, <1>4, <1>5, <1>6 DEF IInv

\* What a reply, delivered or given up, leaves of the replies before it.
LEMMA ReplyCounts ==
  ASSUME TypeOK, NEW i \in Nat, Delivered(i) \/ Undelivered(i)
  PROVE  /\ replies' \in Seq(Nat) /\ unread' \in Nat /\ lost' \in SUBSET Nat
         /\ Len(replies') \in Nat /\ Len(replies') <= Len(replies) + 1
         /\ Len(replies') - unread' = Len(replies) - unread
         /\ \A h : h \in lost \/ Answered(h) => h \in lost' \/ Answered(h)'
         /\ i \in lost' \/ Answered(i)'
         /\ \A k \in DOMAIN replies' :
              replies'[k] = i \/ (k \in DOMAIN replies /\ replies'[k] = replies[k])
  <1>1. replies \in Seq(Nat) /\ unread \in Nat /\ Len(replies) \in Nat /\ lost \in SUBSET Nat
    BY DEF TypeOK
  <1>2. CASE Undelivered(i)
    BY <1>1, <1>2 DEF Undelivered, Answered
  <1>3. CASE Delivered(i)
    <2>1. /\ replies' = Append(replies, i) /\ replies' \in Seq(Nat)
          /\ Len(replies') = Len(replies) + 1 /\ unread' = unread + 1 /\ lost' = lost
      BY <1>1, <1>3 DEF Delivered
    <2>2. \A k \in 1..Len(replies) : replies'[k] = replies[k]
      BY <1>1, <2>1
    <2>3. replies'[Len(replies) + 1] = i
      BY <1>1, <2>1
    <2>4. DOMAIN replies = 1..Len(replies) /\ DOMAIN replies' = 1..(Len(replies) + 1)
      BY <1>1, <2>1
    <2>5. Answered(i)'
      BY <1>1, <2>3, <2>4 DEF Answered
    <2>6. \A h : Answered(h) => Answered(h)'
      BY <1>1, <2>2, <2>4 DEF Answered
    <2>7. \A k \in DOMAIN replies' :
            replies'[k] = i \/ (k \in DOMAIN replies /\ replies'[k] = replies[k])
      BY <1>1, <2>2, <2>3, <2>4
    <2>8. /\ unread' \in Nat /\ lost' \in SUBSET Nat /\ Len(replies') \in Nat
          /\ Len(replies') <= Len(replies) + 1
          /\ Len(replies') - unread' = Len(replies) - unread
      BY <1>1, <2>1
    <2>9. \A h : h \in lost \/ Answered(h) => h \in lost' \/ Answered(h)'
      BY <2>1, <2>6, Zenon
    <2> QED
      BY <2>1, <2>5, <2>7, <2>8, <2>9, Zenon
  <1> QED
    BY <1>2, <1>3

\* The reply to the request that is next in turn.
LEMMA ReplyInTurn ==
  ASSUME TypeOK, RepliesInOrder, sent' = sent,
         NEW i \in Requests(sent, Len(sent)), Delivered(i) \/ Undelivered(i),
         \A k \in DOMAIN replies : replies[k] < i,
         \A h \in Requests(sent, i) : h = i \/ h \in lost \/ Answered(h)
  PROVE  RepliesInOrder'
  <1>1. replies \in Seq(Nat) /\ Len(replies) \in Nat
    BY DEF TypeOK
  <1>2. CASE Undelivered(i)
    BY <1>2 DEF Undelivered, RepliesInOrder
  <1>3. CASE Delivered(i)
    <2>1. replies' = Append(replies, i) /\ lost' = lost
      BY <1>3 DEF Delivered
    <2>2. i \in Nat
      BY DEF TypeOK, Requests
    <2>3. \A k \in 1..Len(replies) : replies'[k] = replies[k]
      BY <1>1, <2>1, <2>2
    <2>4. replies'[Len(replies) + 1] = i
      BY <1>1, <2>1, <2>2
    <2>5. DOMAIN replies = 1..Len(replies) /\ DOMAIN replies' = 1..(Len(replies) + 1)
      BY <1>1, <2>1, <2>2
    <2>6. ASSUME NEW k \in 1..Len(replies)
          PROVE  /\ replies'[k] \in Requests(sent, Len(sent))
                 /\ \A h \in 1..(k - 1) : replies'[h] < replies'[k]
                 /\ \A h \in Requests(sent, replies'[k]) :
                      h \in lost \/ \E m \in 1..k : replies'[m] = h
      <3>1. \A h \in 1..k : h \in 1..Len(replies) /\ replies'[h] = replies[h]
        BY <1>1, <2>3
      <3>2. \A h \in 1..(k - 1) : h \in 1..k
        BY <1>1
      <3>3. k \in DOMAIN replies /\ replies'[k] = replies[k]
        BY <2>3, <2>5
      <3> QED
        BY <3>1, <3>2, <3>3 DEF RepliesInOrder
    <2>7. ASSUME NEW h \in Requests(sent, i)
          PROVE  h \in lost \/ \E m \in 1..(Len(replies) + 1) : replies'[m] = h
      <3>1. CASE h = i
        BY <1>1, <2>4, <3>1
      <3>2. CASE Answered(h)
        <4>1. PICK m \in 1..Len(replies) : replies[m] = h
          BY <2>5, <3>2 DEF Answered
        <4>2. m \in 1..(Len(replies) + 1) /\ replies'[m] = h
          BY <1>1, <2>3, <4>1
        <4> QED
          BY <4>2
      <3> QED
        BY <3>1, <3>2
    <2>8. \A h \in 1..Len(replies) : replies'[h] < i
      BY <2>3, <2>5
    <2>9. ASSUME NEW k \in 1..(Len(replies) + 1)
          PROVE  /\ replies'[k] \in Requests(sent, Len(sent))
                 /\ \A h \in 1..(k - 1) : replies'[h] < replies'[k]
                 /\ \A h \in Requests(sent, replies'[k]) :
                      h \in lost \/ \E m \in 1..k : replies'[m] = h
      <3>1. CASE k = Len(replies) + 1
        <4>1. k - 1 = Len(replies)
          BY <1>1, <3>1
        <4> QED
          BY <2>4, <2>7, <2>8, <3>1, <4>1
      <3>2. CASE k \in 1..Len(replies)
        BY <2>6, <3>2
      <3> QED
        BY <1>1, <3>1, <3>2
    <2> QED
      BY <2>1, <2>5, <2>9 DEF RepliesInOrder
  <1> QED
    BY <1>2, <1>3

\* The channel is closed, which loses nothing a patient process has sent.
LEMMA ClosedStep ==
  ASSUME IInv, OnControlClosed
  PROVE  IInv'
  <1> USE DEF OnControlClosed, controlled
  <1>1. /\ task = "none" /\ phase \in {"spawn", "running"} /\ ~exited /\ ~Ended
        /\ Len(sent) \in Nat /\ Len(queue) \in Nat
    BY DEF IInv, TypeOK, Lifecycle, Ended
  <1>2. TypeOK'
    <2>1. queue' \in Seq(Command)
      OBVIOUS
    <2> QED
      BY <2>1 DEF IInv, TypeOK
  <1>3. Lifecycle' /\ OneResult' /\ CommandsHonoured'
    BY <1>1 DEF IInv, Lifecycle, OneResult, CommandsHonoured, Ended
  <1>4. Applied'
    <2>1. plan.patient => Len(queue) = 0
      BY <1>1, PatientQueue DEF Reset
    <2>2. Len(queue) = 0 => Handled = Len(sent)
      BY <1>1 DEF Handled
    <2> QED
      BY <1>1, <2>1, <2>2 DEF IInv, Applied, AppliedTo
  <1> QED
    BY <1>2, <1>3, <1>4, ClosedShapes DEF IInv

\* SendMessage: the reply of a coroutine, suspended or not, to the request i, which is
\* the latest command received.  A channel that is closed because the reply cannot be
\* delivered has an empty queue if the process was patient.
LEMMA SendMessageStep ==
  ASSUME IInv, channel # "none", ~Ended,
         UNCHANGED <<plan, phase, process, exited, sent, results>>, again' \in Int,
         envs' \in Nat, unstored' \in Nat, children' \in Nat,
         NEW i \in Requests(sent, Len(sent)), NEW rest \in Seq(Command), SendMessage(i, rest),
         i = Len(sent) - Len(rest), \A k \in 1..Len(rest) : rest[k] = sent[i + k],
         \A k \in DOMAIN replies : replies[k] < i,
         \A h \in Requests(sent, i) : h = i \/ h \in lost \/ Answered(h),
         Len(replies) + 1 <= Cardinality(Requests(sent, i)),
         AgainAfter(again', sent, i),
         envs' + unstored' = Cardinality(Positions(sent, i, {"setenv"})),
         plan.patient => Len(rest) = 0
  PROVE  IInv'
  <1>1. /\ Delivered(i) \/ Undelivered(i)
        /\ task' = "none" /\ request' = request
    BY DEF SendMessage
  <1>2. /\ i \in Nat /\ i <= Len(sent) /\ i \in 1..Len(sent)
        /\ Len(sent) \in Nat /\ Len(rest) \in Nat /\ Len(replies) \in Nat
        /\ request \in Nat
    BY DEF IInv, TypeOK, Requests
  <1>3. /\ replies' \in Seq(Nat) /\ unread' \in Nat /\ lost' \in SUBSET Nat
        /\ Len(replies') \in Nat /\ Len(replies') <= Len(replies) + 1
        /\ Len(replies') - unread' = Len(replies) - unread
        /\ \A h : h \in lost \/ Answered(h) => h \in lost' \/ Answered(h)'
        /\ i \in lost' \/ Answered(i)'
        /\ \A k \in DOMAIN replies' :
             replies'[k] = i \/ (k \in DOMAIN replies /\ replies'[k] = replies[k])
    <2>1. TypeOK
      BY DEF IInv
    <2> QED
      BY <1>1, <1>2, <2>1, ReplyCounts
  <1>4. \/ channel' = "enabled" /\ queue' = rest /\ peer' = peer
        \/ channel' = "none" /\ queue' = <<>> /\ peer' = FALSE
    BY DEF SendMessage
  <1>5. TypeOK'
    <2>1. queue' \in Seq(Command) /\ channel' \in {"none", "enabled"}
      <3>1. <<>> \in Seq(Command)
        OBVIOUS
      <3> QED
        BY <1>4, <3>1, Zenon
    <2>2. peer' \in BOOLEAN /\ exited' \in BOOLEAN /\ plan' \in Plan
      BY <1>4, Zenon DEF IInv, TypeOK
    <2> QED
      BY <1>1, <1>2, <1>3, <2>1, <2>2 DEF IInv, TypeOK
  <1>6. Lifecycle' /\ OneResult' /\ CommandsHonoured'
    BY <1>1, <1>4 DEF IInv, TypeOK, Lifecycle, Ended, OneResult, CommandsHonoured
  <1>7. RepliesInOrder'
    BY <1>1, ReplyInTurn DEF IInv
  <1>8. Cardinality(Requests(sent, i)) <= RequestCount(sent) /\ RequestCount(sent) \in Nat
        /\ Cardinality(Requests(sent, i)) \in Nat
    BY <1>2, RequestsGrow DEF RequestCount
  <1>9. PatientShape'
    <2>1. sent' = sent /\ plan' = plan /\ RequestCount(sent)' = RequestCount(sent)
      BY DEF RequestCount, Requests
    <2>2. Len(replies') <= RequestCount(sent)
      <3>1. Len(replies) + 1 <= Cardinality(Requests(sent, i))
        OBVIOUS
      <3>2. \A k, l, m, n \in Nat : k <= l + 1 /\ l + 1 <= m /\ m <= n => k <= n
        OBVIOUS
      <3>3. /\ Len(replies') \in Nat /\ Len(replies) \in Nat
            /\ Len(replies') <= Len(replies) + 1
        BY <1>2, <1>3, Zenon
      <3> QED
        BY <1>8, <3>1, <3>2, <3>3, Zenon
    <2>3. PatientShape /\ Len(replies') - unread' = Len(replies) - unread
      BY <1>3 DEF IInv
    <2> QED
      BY <2>1, <2>2, <2>3 DEF PatientShape
  <1>10. Applied'
    <2>1. CASE channel' = "enabled" /\ queue' = rest
      <3>1. Handled' = i
        BY <1>2, <2>1 DEF Handled
      <3> QED
        BY <2>1, <3>1 DEF Applied, AppliedTo
    <2>2. CASE channel' = "none"
      <3>1. plan.patient => i = Len(sent)
        BY <1>2
      <3> QED
        BY <2>2, <3>1 DEF Applied, AppliedTo
    <2> QED
      BY <1>4, <2>1, <2>2
  <1>11. ChannelShape' /\ RequestsDealtWith'
    <2>1. CASE channel' = "none"
      BY <2>1 DEF ChannelShape, RequestsDealtWith
    <2>2. CASE channel' = "enabled" /\ queue' = rest
      <3>1. Handled' = i /\ Suspended' = 0
        BY <1>1, <1>2, <2>2 DEF Handled, Suspended
      <3>2. ChannelShape'
        <4>1. /\ Cardinality(Requests(sent', Handled')) = Cardinality(Requests(sent, i))
              /\ \A k \in 1..Len(queue') : queue'[k] = sent'[Handled' + k]
          BY <2>2, <3>1
        <4>2. Handled' >= 0 /\ Len(replies') + Suspended' <= Cardinality(Requests(sent, i))
          BY <1>2, <1>3, <1>8, <3>1
        <4> QED
          BY <4>1, <4>2 DEF ChannelShape
      <3>3. ASSUME NEW h \in Requests(sent, i) PROVE h \in lost' \/ Answered(h)'
        BY <1>3, Zenon
      <3>4. ASSUME NEW k \in DOMAIN replies' PROVE replies'[k] <= i
        <4>1. CASE replies'[k] = i
          BY <1>2, <4>1
        <4>2. CASE k \in DOMAIN replies /\ replies'[k] = replies[k]
          <5>1. replies[k] < i /\ replies[k] \in Nat
            BY <4>2 DEF IInv, TypeOK
          <5> QED
            BY <1>2, <4>2, <5>1
        <4> QED
          BY <1>3, <4>1, <4>2
      <3> QED
        BY <1>1, <3>1, <3>2, <3>3, <3>4 DEF RequestsDealtWith
    <2> QED
      BY <1>4, <2>1, <2>2
  <1> QED
    BY <1>5, <1>6, <1>7, <1>9, <1>10, <1>11 DEF IInv

\* The coroutine of a "spawn" command ends: its reply is next in turn.
LEMMA TaskFinishedStep ==
  ASSUME IInv, NEW spawned \in BOOLEAN, OnTaskFinished(spawned)
  PROVE  IInv'
  <1> USE DEF OnTaskFinished, controlled
  <1>1. /\ channel = "disabled" /\ phase \in {"spawn", "running"} /\ ~exited /\ ~Ended
        /\ Len(sent) \in Nat /\ Len(queue) \in Nat /\ Len(replies) \in Nat
        /\ queue \in Seq(Command) /\ replies \in Seq(Nat)
    BY DEF IInv, TypeOK, Lifecycle, Ended
  <1>2. /\ request = Handled /\ request \in Requests(sent, Handled) /\ request \in Nat
        /\ \A h \in Requests(sent, request) : h = request \/ h \in lost \/ Answered(h)
        /\ \A k \in DOMAIN replies : replies[k] < request
    BY <1>1 DEF IInv, RequestsDealtWith, TypeOK
  <1>3. Handled = Len(sent) - Len(queue) /\ \A i \in 1..Len(queue) : queue[i] = sent[Handled + i]
    BY <1>1 DEF IInv, ChannelShape, Handled
  <1>4. request \in Requests(sent, Len(sent))
    BY <1>1, <1>2, <1>3 DEF Requests
  <1>5. Len(replies) + 1 <= Cardinality(Requests(sent, request))
    BY <1>1, <1>2 DEF IInv, ChannelShape, Suspended
  <1>6. /\ AgainAfter(again', sent, request)
        /\ envs' + unstored' = Cardinality(Positions(sent, request, {"setenv"}))
    BY <1>1, <1>2 DEF IInv, Applied, AppliedTo
  <1>7. plan.patient => Len(queue) = 0
    BY <1>1, PatientQueue
  <1>8. children' \in Nat /\ again' \in Int /\ envs' \in Nat /\ unstored' \in Nat
    BY DEF IInv, TypeOK
  <1>9. SendMessage(request, queue) /\ UNCHANGED <<plan, phase, process, exited, sent, results>>
    OBVIOUS
  <1>10. PICK i \in Nat : i = request
    BY <1>2
  <1>11. PICK rest \in Seq(Command) : rest = queue
    BY <1>1
  <1>12. /\ i \in Requests(sent, Len(sent)) /\ SendMessage(i, rest)
         /\ i = Len(sent) - Len(rest) /\ \A k \in 1..Len(rest) : rest[k] = sent[i + k]
    BY <1>2, <1>3, <1>4, <1>9, <1>10, <1>11
  <1>13. /\ \A k \in DOMAIN replies : replies[k] < i
         /\ \A h \in Requests(sent, i) : h = i \/ h \in lost \/ Answered(h)
    BY <1>2, <1>10
  <1>14. /\ Len(replies) + 1 <= Cardinality(Requests(sent, i)) /\ AgainAfter(again', sent, i)
         /\ envs' + unstored' = Cardinality(Positions(sent, i, {"setenv"}))
         /\ plan.patient => Len(rest) = 0
    BY <1>5, <1>6, <1>7, <1>10, <1>11
  <1> QED
    BY <1>1, <1>8, <1>9, <1>12, <1>13, <1>14, SendMessageStep

\* A datagram is received: the next command is applied, and a request is answered or
\* suspends the channel.
LEMMA OnControlStep ==
  ASSUME IInv, Receiving, Dispatch(Head(queue), Handled + 1)
  PROVE  IInv'
  <1>0. PICK n \in Nat : n = Handled + 1
    <2>1. channel # "none"
      BY DEF Receiving
    <2>2. Handled \in Int /\ Handled >= 0
      BY <2>1 DEF IInv, ChannelShape, Handled, TypeOK
    <2>3. Handled + 1 \in Nat
      BY <2>2
    <2> QED
      BY <2>3
  <1> DEFINE c == Head(queue)
             R(m) == Cardinality(Requests(sent, m))
  <1>1. /\ channel # "none" /\ phase \in {"spawn", "running", "exiting"} /\ ~Ended
        /\ (task # "none" => phase = "exiting")
        /\ queue \in Seq(Command) /\ queue # <<>> /\ Len(queue) \in Nat /\ Len(queue) > 0
        /\ sent \in Seq(Command) /\ Len(sent) \in Nat
        /\ replies \in Seq(Nat) /\ Len(replies) \in Nat
    BY DEF IInv, TypeOK, Lifecycle, Receiving, Ended
  <1>2. /\ Handled \in Nat /\ Handled = Len(sent) - Len(queue)
        /\ n \in 1..Len(sent) /\ n \in Nat
        /\ Len(replies) + Suspended <= R(Handled) /\ Suspended \in {0, 1}
        /\ \A i \in 1..Len(queue) : queue[i] = sent[Handled + i]
    BY <1>0, <1>1 DEF IInv, ChannelShape, Handled, Suspended
  <1>3. c = queue[1] /\ c \in Command /\ c = sent[n]
    BY <1>0, <1>1, <1>2
  <1>4. /\ Tail(queue) \in Seq(Command) /\ Len(Tail(queue)) = Len(queue) - 1
        /\ n = Len(sent) - Len(Tail(queue))
        /\ \A i \in 1..Len(Tail(queue)) : Tail(queue)[i] = sent[n + i]
    <2>1. /\ Tail(queue) \in Seq(Command) /\ Len(Tail(queue)) = Len(queue) - 1
          /\ \A i \in 1..Len(Tail(queue)) : Tail(queue)[i] = queue[i + 1]
      BY <1>1
    <2>2. ASSUME NEW i \in 1..(Len(queue) - 1) PROVE queue[i + 1] = sent[n + i]
      <3>1. i + 1 \in 1..Len(queue) /\ Handled + (i + 1) = n + i
        BY <1>0, <1>1, <1>2
      <3> QED
        BY <1>2, <3>1
    <2> QED
      BY <1>0, <1>1, <1>2, <2>1, <2>2
  <1>5. /\ UNCHANGED <<plan, phase, process, exited, sent, results, children>>
        /\ again' = (IF IsAgain(c) THEN c.arg ELSE again)
        /\ \/ c.cmd = "setenv" /\ envs' = envs + 1 /\ unstored' = unstored
           \/ c.cmd = "setenv" /\ unstored' = unstored + 1 /\ envs' = envs
           \/ c.cmd # "setenv" /\ UNCHANGED <<envs, unstored>>
    BY DEF Dispatch, controlled, OnControlSetEnv
  <1>6. \/ c.cmd = "spawn" /\ OnSpawn(n)
        \/ c.cmd = "version" /\ WriteNoWait(n)
        \/ /\ ~IsRequest(c) /\ queue' = Tail(queue)
           /\ UNCHANGED <<peer, channel, task, request, replies, unread, lost>>
    BY <1>0 DEF Dispatch
  <1>7. /\ R(Handled) \in Nat /\ R(n) = R(Handled) + (IF IsRequest(c) THEN 1 ELSE 0)
        /\ R(n) <= RequestCount(sent) /\ RequestCount(sent) \in Nat
    <2>1. R(n) = R(Handled) + (IF IsRequest(sent[n]) THEN 1 ELSE 0)
      BY <1>0, <1>2, RequestsNext
    <2>2. R(Handled) \in Nat
      BY <1>2, RequestsGrow
    <2>3. R(n) <= RequestCount(sent) /\ RequestCount(sent) \in Nat
      BY <1>1, <1>2, RequestsGrow DEF RequestCount
    <2> QED
      BY <1>3, <2>1, <2>2, <2>3
  <1>8. /\ envs \in Nat /\ unstored \in Nat /\ again' \in Int /\ envs' \in Nat
        /\ unstored' \in Nat /\ children' \in Nat
    BY <1>3, <1>5, CommandFields DEF IInv, TypeOK
  <1>9. /\ AgainAfter(again', sent, n)
        /\ envs' + unstored' = Cardinality(Positions(sent, n, {"setenv"}))
    <2>1. AgainAfter(again, sent, Handled)
      BY <1>1 DEF IInv, Applied, AppliedTo
    <2>2. AgainAfter(IF IsAgain(c) THEN c.arg ELSE again, sent, n)
      BY <1>0, <1>2, <1>3, <2>1, AgainNext
    <2>3. Cardinality(Positions(sent, n, {"setenv"})) =
            Cardinality(Positions(sent, Handled, {"setenv"})) + (IF c.cmd = "setenv" THEN 1 ELSE 0)
      <3>1. \A kinds :
              Cardinality(Positions(sent, Handled + 1, kinds)) =
                Cardinality(Positions(sent, Handled, kinds))
                  + (IF sent[Handled + 1].cmd \in kinds THEN 1 ELSE 0)
        BY <1>2, PositionsNext
      <3>2. c.cmd \in {"setenv"} <=> c.cmd = "setenv"
        OBVIOUS
      <3> QED
        BY <1>0, <1>3, <3>1, <3>2
    <2>4. envs + unstored = Cardinality(Positions(sent, Handled, {"setenv"}))
      BY <1>1 DEF IInv, Applied, AppliedTo
    <2>5. envs' + unstored' = envs + unstored + (IF c.cmd = "setenv" THEN 1 ELSE 0)
      <3>1. CASE c.cmd = "setenv" /\ envs' = envs + 1 /\ unstored' = unstored
        BY <1>8, <3>1
      <3>2. CASE c.cmd = "setenv" /\ unstored' = unstored + 1 /\ envs' = envs
        BY <1>8, <3>2
      <3>3. CASE c.cmd # "setenv" /\ UNCHANGED <<envs, unstored>>
        BY <1>8, <3>3
      <3> QED
        BY <1>5, <3>1, <3>2, <3>3
    <2> QED
      BY <1>5, <1>8, <2>2, <2>3, <2>4, <2>5
  <1>10. \A h \in Requests(sent, n) : h = n \/ h \in lost \/ Answered(h)
    <2>0. \A h \in Int : h \in 1..n /\ h # n => h \in 1..Handled
      <3>1. Handled \in Int
        BY <1>2
      <3> QED
        BY <1>0, <3>1
    <2>1. ASSUME NEW h \in Requests(sent, n), h # n PROVE h \in Requests(sent, Handled)
      <3>1. h \in 1..n /\ IsRequest(sent[h])
        BY <2>1 DEF Requests
      <3>2. h \in 1..Handled
        BY <2>0, <2>1, <3>1
      <3> QED
        BY <3>1, <3>2 DEF Requests
    <2>2. \A h \in Requests(sent, Handled) : h \in lost \/ Answered(h)
      BY <1>1 DEF IInv, RequestsDealtWith
    <2> QED
      BY <2>1, <2>2
  <1>11. \A k \in DOMAIN replies : replies[k] < n /\ replies[k] \in Nat
    <2>1. ASSUME NEW k \in DOMAIN replies PROVE replies[k] < n /\ replies[k] \in Nat
      <3>1. replies[k] <= Handled /\ replies[k] \in Nat
        BY <1>1, <2>1 DEF IInv, RequestsDealtWith
      <3> QED
        BY <1>0, <1>2, <3>1
    <2> QED
      BY <2>1
  <1>12. ASSUME plan.patient, IsRequest(c) PROVE Len(Tail(queue)) = 0
    <2>1. \A i \in 1..Len(queue) : IsRequest(queue[i]) => i = Len(queue)
      BY <1>1, <1>12, PatientQueue
    <2>2. 1 \in 1..Len(queue) /\ IsRequest(queue[1])
      BY <1>1, <1>3, <1>12
    <2>3. Len(queue) = 1
      BY <2>1, <2>2
    <2>4. Len(Tail(queue)) = Len(queue) - 1
      BY <1>4
    <2> HIDE DEF c
    <2> QED
      BY <2>3, <2>4
  <1>13. IsRequest(c) => n \in Requests(sent, Len(sent)) /\ n \in Requests(sent, n)
    BY <1>1, <1>2, <1>3 DEF Requests
  <1> HIDE DEF c, R
  <1>14. OneResult' /\ CommandsHonoured'
    BY <1>1, <1>5 DEF IInv, OneResult, CommandsHonoured, Ended
  <1>15. CASE ~IsRequest(c) /\ queue' = Tail(queue)
              /\ UNCHANGED <<peer, channel, task, request, replies, unread, lost>>
    <2>1. Handled' = n /\ Suspended' = Suspended
      BY <1>0, <1>1, <1>4, <1>5, <1>15 DEF Handled, Suspended
    <2>2. TypeOK' /\ Lifecycle'
      BY <1>1, <1>4, <1>5, <1>8, <1>15 DEF IInv, TypeOK, Lifecycle, Ended
    <2>3. RepliesInOrder' /\ PatientShape'
      BY <1>5, <1>15 DEF IInv, RepliesInOrder, PatientShape
    <2>4. R(n) = R(Handled) /\ Cardinality(Requests(sent', Handled')) = R(n)
      BY <1>5, <1>7, <1>15, <2>1 DEF R
    <2>5. ChannelShape'
      BY <1>1, <1>2, <1>4, <1>5, <1>7, <1>15, <2>1, <2>4 DEF ChannelShape
    <2>6. n \notin Requests(sent, n)
      BY <1>3, <1>15 DEF Requests
    <2>7. RequestsDealtWith'
      <3>1. \A h \in Requests(sent, n) : h \in lost' \/ Answered(h)'
        BY <1>10, <1>15, <2>6 DEF Answered
      <3>2. \A k \in DOMAIN replies' : replies'[k] <= n
        BY <1>11, <1>15
      <3>3. task' # "none" => phase' = "exiting" /\ request' \in lost'
        BY <1>1, <1>5, <1>15 DEF IInv, RequestsDealtWith
      <3> QED
        BY <1>5, <2>1, <3>1, <3>2, <3>3 DEF RequestsDealtWith
    <2>8. Applied'
      BY <1>1, <1>5, <1>9, <1>15, <2>1 DEF Applied, AppliedTo
    <2> QED
      BY <1>14, <2>2, <2>3, <2>5, <2>7, <2>8 DEF IInv
  <1>16. CASE c.cmd = "version" /\ WriteNoWait(n)
    <2>1. IsRequest(c) /\ (Delivered(n) \/ Undelivered(n)) /\ queue' = Tail(queue)
          /\ UNCHANGED <<peer, channel, task, request>>
      BY <1>16 DEF WriteNoWait, IsRequest
    <2>2. /\ replies' \in Seq(Nat) /\ unread' \in Nat /\ lost' \in SUBSET Nat
          /\ Len(replies') \in Nat /\ Len(replies') <= Len(replies) + 1
          /\ Len(replies') - unread' = Len(replies) - unread
          /\ \A h : h \in lost \/ Answered(h) => h \in lost' \/ Answered(h)'
          /\ n \in lost' \/ Answered(n)'
          /\ \A k \in DOMAIN replies' :
               replies'[k] = n \/ (k \in DOMAIN replies /\ replies'[k] = replies[k])
      <3>1. TypeOK
        BY DEF IInv
      <3> QED
        BY <1>2, <2>1, <3>1, ReplyCounts
    <2>3. Handled' = n /\ Suspended' = Suspended
      BY <1>0, <1>1, <1>4, <1>5, <2>1 DEF Handled, Suspended
    <2>4. TypeOK' /\ Lifecycle'
      BY <1>1, <1>4, <1>5, <1>8, <2>1, <2>2 DEF IInv, TypeOK, Lifecycle, Ended
    <2>5. RepliesInOrder'
      <3>1. n \in Requests(sent, Len(sent)) /\ sent' = sent /\ TypeOK /\ RepliesInOrder
        BY <1>5, <1>13, <2>1 DEF IInv
      <3> QED
        BY <1>10, <1>11, <2>1, <3>1, ReplyInTurn
    <2>6. R(n) = R(Handled) + 1 /\ Cardinality(Requests(sent', Handled')) = R(n)
      BY <1>5, <1>7, <2>1, <2>3 DEF R
    <2>7. ChannelShape'
      <3>1. /\ Handled' >= 0
            /\ Len(replies') + Suspended' <= Cardinality(Requests(sent', Handled'))
        BY <1>1, <1>2, <1>7, <2>2, <2>3, <2>6
      <3>2. \A k \in 1..Len(queue') : queue'[k] = sent'[Handled' + k]
        BY <1>4, <1>5, <2>1, <2>3
      <3> QED
        BY <3>1, <3>2 DEF ChannelShape
    <2>8. PatientShape'
      BY <1>1, <1>2, <1>5, <1>7, <2>2, <2>6 DEF IInv, PatientShape
    <2>9. RequestsDealtWith'
      <3>1. \A h \in Requests(sent, n) : h \in lost' \/ Answered(h)'
        BY <1>10, <2>2, Zenon
      <3>2. ASSUME NEW k \in DOMAIN replies' PROVE replies'[k] <= n
        <4>1. CASE replies'[k] = n
          BY <1>2, <4>1
        <4>2. CASE k \in DOMAIN replies /\ replies'[k] = replies[k]
          BY <1>2, <1>11, <4>2
        <4> QED
          BY <2>2, <4>1, <4>2
      <3>3. lost \in SUBSET lost'
        BY <2>1 DEF Delivered, Undelivered
      <3>4. task' # "none" => phase' = "exiting" /\ request' \in lost'
        BY <1>1, <1>5, <2>1, <3>3 DEF IInv, RequestsDealtWith
      <3> QED
        BY <1>5, <2>3, <3>1, <3>2, <3>4 DEF RequestsDealtWith
    <2>10. Applied'
      BY <1>1, <1>5, <1>9, <2>1, <2>3 DEF Applied, AppliedTo
    <2> QED
      BY <1>14, <2>4, <2>5, <2>7, <2>8, <2>9, <2>10 DEF IInv
  <1>17. CASE c.cmd = "spawn" /\ SendMessage(n, Tail(queue))
    <2>1. IsRequest(c)
      BY <1>17 DEF IsRequest
    <2>2. n \in Requests(sent, Len(sent)) /\ (plan.patient => Len(Tail(queue)) = 0)
      BY <1>12, <1>13, <2>1
    <2>3. Len(replies) + 1 <= Cardinality(Requests(sent, n))
      BY <1>1, <1>2, <1>7, <2>1 DEF R
    <2>4. \A k \in DOMAIN replies : replies[k] < n
      BY <1>11
    <2> QED
      BY <1>1, <1>4, <1>5, <1>8, <1>9, <1>10, <1>17, <2>2, <2>3, <2>4, SendMessageStep
  <1>18. CASE /\ c.cmd = "spawn" /\ ~exited
              /\ task' = "translate" /\ channel' = "disabled" /\ request' = n
              /\ queue' = Tail(queue) /\ UNCHANGED <<peer, replies, unread, lost>>
    <2>1. phase # "exiting" /\ task = "none" /\ Suspended = 0
      BY <1>1, <1>18 DEF IInv, Lifecycle, Suspended
    <2>2. Handled' = n /\ Suspended' = 1 /\ IsRequest(c)
      BY <1>0, <1>1, <1>4, <1>5, <1>18 DEF Handled, Suspended, IsRequest
    <2>3. TypeOK' /\ Lifecycle'
      BY <1>1, <1>2, <1>4, <1>5, <1>8, <1>18, <2>1 DEF IInv, TypeOK, Lifecycle, Ended
    <2>4. RepliesInOrder' /\ PatientShape'
      BY <1>5, <1>18 DEF IInv, RepliesInOrder, PatientShape
    <2>5. R(n) = R(Handled) + 1 /\ Cardinality(Requests(sent', Handled')) = R(n)
      BY <1>5, <1>7, <2>2 DEF R
    <2>6. ChannelShape'
      BY <1>1, <1>2, <1>4, <1>5, <1>7, <1>18, <2>1, <2>2, <2>5 DEF ChannelShape
    <2>7. RequestsDealtWith'
      <3>1. \A h \in Requests(sent, n) : h \in lost' \/ Answered(h)' \/ h = request'
        BY <1>10, <1>18 DEF Answered
      <3>2. \A k \in DOMAIN replies' : replies'[k] <= n /\ replies'[k] < n
        BY <1>2, <1>11, <1>18
      <3>3. request' = n /\ request' \in Requests(sent, n)
        BY <1>13, <1>18, <2>2
      <3> QED
        BY <1>5, <1>18, <2>1, <2>2, <3>1, <3>2, <3>3 DEF RequestsDealtWith
    <2>8. Applied'
      BY <1>1, <1>5, <1>9, <1>18, <2>2 DEF Applied, AppliedTo
    <2> QED
      BY <1>14, <2>3, <2>4, <2>6, <2>7, <2>8 DEF IInv
  <1> QED
    BY <1>6, <1>15, <1>16, <1>17, <1>18 DEF OnSpawn, CanSpawn

\* The exit of the process: the coroutine of a "spawn" is given up.
LEMMA ExitStep ==
  ASSUME IInv, OnChildProcessExit
  PROVE  IInv'
  <1> USE DEF OnChildProcessExit
  <1>1. lost \in SUBSET lost' /\ lost' \in SUBSET Nat /\ (task # "none" => request \in lost')
    BY DEF IInv, TypeOK
  <1>2. TypeOK' /\ Lifecycle' /\ OneResult' /\ CommandsHonoured'
    BY <1>1 DEF IInv, TypeOK, Lifecycle, Ended, OneResult, CommandsHonoured
  <1>3. ChannelShape'
    BY DEF IInv, ChannelShape, Handled, Suspended
  <1>4. RequestsDealtWith'
    BY <1>1 DEF IInv, RequestsDealtWith, Handled, Answered
  <1>5. RepliesInOrder'
    BY <1>1 DEF IInv, RepliesInOrder
  <1>6. PatientShape'
    BY DEF IInv, PatientShape
  <1>7. Applied'
    BY DEF IInv, Applied, AppliedTo, Handled, Ended
  <1> QED
    BY <1>2, <1>3, <1>4, <1>5, <1>6, <1>7 DEF IInv

\* After the final ReceiveAll the commands of a patient process have been applied; the
\* result is stored and the operator deleted.
LEMMA StoreStep ==
  ASSUME IInv, StoreResult
  PROVE  IInv'
  <1> DEFINE r == IF again >= 0 THEN [kind |-> "again", arg |-> again] ELSE Done("exited")
  <1>1. /\ phase = "exiting" /\ ~Ended /\ Dispose(r) /\ again \in Int
        /\ channel = "none" \/ queue = <<>> \/ Reset
        /\ sent \in Seq(Command) /\ Len(sent) \in Nat
        /\ results \in Seq(Result) /\ Len(results) = 0
    BY DEF StoreResult, AllReceived, Ended, IInv, TypeOK, OneResult
  <1>2. r \in Result
    BY <1>1 DEF Done, Result
  <1>3. plan.patient => AppliedTo(Len(sent))
    <2>1. CASE channel = "none"
      BY <1>1, <2>1 DEF IInv, Applied
    <2>2. ASSUME channel # "none", plan.patient PROVE Handled = Len(sent) /\ AppliedTo(Handled)
      <3>1. Len(queue) = 0
        BY <1>1, <2>2, PatientQueue DEF Reset
      <3> QED
        BY <1>1, <2>2, <3>1 DEF IInv, Applied, Handled
    <2>3. ASSUME channel # "none", plan.patient PROVE AppliedTo(Len(sent))
      BY <2>2, <2>3
    <2> QED
      BY <2>1, <2>3
  <1>4. ASSUME plan.patient
        PROVE  again = LastAgain(sent) /\ envs + unstored = Cardinality(SetEnvs(sent))
    BY <1>1, <1>3, <1>4, AgainIsLast, SetEnvsArePositions DEF AppliedTo
  <1>5. results' = <<r>> /\ UNCHANGED <<plan, sent, envs, unstored>>
    BY <1>1, <1>2 DEF Dispose, kept
  <1>6. CommandsHonoured'
    <2>1. results'[1] = r
      BY <1>2, <1>5
    <2> QED
      BY <1>4, <1>5, <2>1 DEF CommandsHonoured
  <1> HIDE DEF r
  <1> QED
    BY <1>1, <1>2, <1>6, DisposeStep

\* Every step of the operator and of its process preserves the invariant.
LEMMA InvStep == IInv /\ [Next]_vars => IInv'
  <1> SUFFICES ASSUME IInv, [Next]_vars
               PROVE  IInv'
    OBVIOUS
  <1>1. CASE UNCHANGED vars
    BY <1>1 DEF vars, IInv, TypeOK, Lifecycle, Ended, OneResult, ChannelShape,
                RequestsDealtWith, RepliesInOrder, PatientShape, Applied, CommandsHonoured,
                Handled, Suspended, AppliedTo, Answered
  <1>2. CASE ProcessStarts
    <2>1. TypeOK' /\ Lifecycle' /\ ~Ended /\ ~Ended' /\ phase # "exiting"
      BY <1>2 DEF ProcessStarts, ownVars, IInv, TypeOK, Lifecycle, Ended
    <2> QED
      BY <1>2, <2>1, QuietStep DEF ProcessStarts, ownVars, commands
  <1>3. CASE CloseSocket
    <2>1. TypeOK' /\ Lifecycle' /\ ~Ended /\ ~Ended' /\ phase # "exiting"
      BY <1>3 DEF CloseSocket, ownVars, IInv, TypeOK, Lifecycle, Ended
    <2> QED
      BY <1>3, <2>1, QuietStep DEF CloseSocket, ownVars, commands
  <1>4. ASSUME NEW inherited \in BOOLEAN, Exit(inherited) PROVE IInv'
    <2>1. TypeOK' /\ Lifecycle' /\ ~Ended /\ ~Ended' /\ phase # "exiting" /\ (peer' => peer)
      BY <1>4 DEF Exit, ownVars, IInv, TypeOK, Lifecycle, Ended
    <2> QED
      BY <1>4, <2>1, QuietStep DEF Exit, ownVars, commands
  <1>5. CASE TaskResumes
    <2>1. TypeOK' /\ Lifecycle' /\ ~Ended /\ ~Ended' /\ phase # "exiting"
      BY <1>5 DEF TaskResumes, controlled, IInv, TypeOK, Lifecycle, Ended
    <2> QED
      BY <1>5, <2>1, QuietStep DEF TaskResumes, controlled, commands
  <1>6. CASE (Start \/ TranslateSpawn \/ WaitSpawnCompletion) /\ phase' # "gone"
    <2>1. UNCHANGED <<process, starting>> /\ phase \in {"new", "translate", "spawn"}
          /\ phase' \in {"translate", "enqueue", "running"}
      BY <1>6 DEF Start, TranslateSpawn, WaitSpawnCompletion, OnTaskCompletion, Dispose, Gone
    <2>2. TypeOK' /\ Lifecycle' /\ ~Ended /\ ~Ended'
      BY <1>6, <2>1 DEF Start, TranslateSpawn, WaitSpawnCompletion, OnTaskCompletion, Dispose,
                  Gone, starting, kept, IInv, TypeOK, Lifecycle, Waiting, Ended
    <2> QED
      BY <2>1, <2>2, QuietStep DEF starting, kept, commands
  <1>7. CASE (Start \/ TranslateSpawn \/ WaitSpawnCompletion) /\ phase' = "gone"
    <2>1. OnTaskCompletion /\ ~Ended /\ phase # "exiting"
      BY <1>7 DEF Start, TranslateSpawn, WaitSpawnCompletion, Ended
    <2> QED
      BY <2>1, ErrorStep
  <1>8. CASE Cancel \/ OnTimeout
    <2>1. ~Ended /\ phase # "exiting"
      BY <1>8 DEF Cancel, OnTimeout, Operating, Waiting, Ended
    <2> QED
      BY <1>8, <2>1, ErrorStep
  <1>9. CASE ReadReplies
    BY <1>9, ReadStep
  <1>10. ASSUME NEW c \in Command, Send(c) PROVE IInv'
    BY <1>10, SendStep
  <1>11. CASE EnqueueSpawner
    BY <1>11, EnqueueStep
  <1>12. CASE OnControl
    <2>1. Receiving /\ ~Ended
      BY <1>12 DEF OnControl, Receiving, Ended, IInv, Lifecycle
    <2> QED
      BY <1>12, <2>1, OnControlStep, AbortStep DEF OnControl
  <1>13. CASE OnControlClosed
    BY <1>13, ClosedStep
  <1>14. ASSUME NEW spawned \in BOOLEAN, OnTaskFinished(spawned) PROVE IInv'
    BY <1>14, TaskFinishedStep
  <1>15. CASE OnChildProcessExit
    BY <1>15, ExitStep
  <1>16. CASE StoreResult
    BY <1>16, StoreStep
  <1>17. CASE Start \/ TranslateSpawn \/ WaitSpawnCompletion
    BY <1>6, <1>7, <1>17
  <1> QED
    BY <1>1, <1>2, <1>3, <1>4, <1>5, <1>8, <1>9, <1>10, <1>11, <1>12, <1>13, <1>14, <1>15,
       <1>16, <1>17 DEF Next, ProcessStep, OperatorStep

\* The inductive invariant holds in every reachable state.
THEOREM Invariance == Spec => []IInv
  BY InvInit, InvStep, PTL DEF Spec

\* However the operator ends (OnChildProcessExit, OnTimeout, Cancel, OnTaskCompletion),
\* its job gets exactly one result.
THEOREM OneResultHolds == Spec => []OneResult
  <1>1. IInv => OneResult
    BY DEF IInv
  <1> QED
    BY <1>1, Invariance, PTL

\* Whatever a patient process has sent through its control channel is applied when its
\* exit is handled: the last "again" decides, and every "setenv" is passed on.
THEOREM CommandsHonouredHolds == Spec => []CommandsHonoured
  <1>1. IInv => CommandsHonoured
    BY DEF IInv
  <1> QED
    BY <1>1, Invariance, PTL

\* The control channel answers requests in the order of their arrival, although "spawn"
\* is answered by a coroutine, replies may be undeliverable, and the final ReceiveAll
\* answers while a coroutine is suspended.
THEOREM RepliesInOrderHolds == Spec => []RepliesInOrder
  <1>1. IInv => RepliesInOrder
    BY DEF IInv
  <1> QED
    BY <1>1, Invariance, PTL
=============================================================================
