-------------------------- MODULE CronClusterProofs --------------------------
(***************************************************************************)
(* Proofs about CronCluster, for any nodes and jobs, all schedules and     *)
(* delays, every number of slots and all values of the bounds.             *)
(***************************************************************************)
EXTENDS CronCluster, FiniteSetTheorems, TLAPS

TypeOK ==
  /\ table \in [Jobs -> Row]
  /\ node \in [Nodes -> CronNode]
  /\ faults \in Nat /\ changes \in Nat

Claiming == {"claim", "check", "job"}

\* What a node knows about itself: its workplace is marked full exactly when it is,
\* a claim run has a free slot, and only a connected node is inside of a run.
NodeShape(s) ==
  /\ IsFiniteSet(s.running)
  /\ s.disabled_full <=> IsFull(s.running)
  /\ s.mode \in Claiming => ~s.disabled_full
  /\ s.mode # "idle" => s.conn = "ready"
  /\ s.mode = "job" => s.found \in Jobs

\* A row nobody has written is blank, and what OnceNotRescheduled says of a row.
RowShape(r) ==
  /\ ~r.inserted => /\ ~r.enabled /\ ~r.last_run
                    /\ r.next_run = "null" /\ r.node_name = NULL
  /\ r.schedule = "@once" /\ r.last_run => r.next_run \in {"null", "infinity"}

\* The switches of a queue, and what is known of its failures.
SameRest(s, t) ==
  /\ t.enabled_state = s.enabled_state /\ t.enabled_admin = s.enabled_admin
  /\ t.failed = s.failed /\ t.orphaned = s.orphaned

\* Only notifies and rows, which other nodes and clients change, may differ.
SameNode(s, t) ==
  /\ t.conn = s.conn /\ t.disabled_full = s.disabled_full
  /\ t.mode = s.mode /\ t.scheduler_timer = s.scheduler_timer
  /\ t.claim_timer = s.claim_timer /\ t.found = s.found /\ t.running = s.running
  /\ SameRest(s, t)

\* The shape of a node does not depend on what others may change.
LEMMA SameNodeShape ==
  ASSUME NEW s, NEW t, SameNode(s, t), NodeShape(s)
  PROVE  NodeShape(t)
  BY DEF SameNode, NodeShape, SameRest

\* Sending notifies changes nothing else, and every connected node gets all of them.
LEMMA NotifiedKeeps ==
  ASSUME NEW nodes \in [Nodes -> CronNode], NEW tab, NEW edited
  PROVE  /\ Notified(nodes, tab, edited) \in [Nodes -> CronNode]
         /\ \A m \in Nodes :
              /\ SameNode(nodes[m], Notified(nodes, tab, edited)[m])
              /\ nodes[m].notifies \subseteq Notified(nodes, tab, edited)[m].notifies
              /\ nodes[m].conn = "ready" =>
                   \A j \in Jobs : Rules(table[j], tab[j], j \in edited)
                                     \subseteq Notified(nodes, tab, edited)[m].notifies
  <1> DEFINE all == UNION {Rules(table[j], tab[j], j \in edited) : j \in Jobs}
             res == Notified(nodes, tab, edited)
  <1>1. all \in SUBSET {"cronjobs_modified", "cronjobs_scheduled"}
    BY DEF Rules
  <1>2. \A j \in Jobs : Rules(table[j], tab[j], j \in edited) \subseteq all
    OBVIOUS
  <1>3. res = [m \in Nodes |-> IF nodes[m].conn = "ready"
                  THEN [nodes[m] EXCEPT !.notifies = @ \cup all] ELSE nodes[m]]
    BY DEF Notified
  <1> HIDE DEF all, res
  <1>4. ASSUME NEW m \in Nodes
        PROVE  /\ res[m] \in CronNode /\ SameNode(nodes[m], res[m])
               /\ nodes[m].notifies \subseteq res[m].notifies
               /\ nodes[m].conn = "ready" => all \subseteq res[m].notifies
    <2>1. CASE nodes[m].conn = "ready"
      <3>1. res[m] = [nodes[m] EXCEPT !.notifies = @ \cup all]
        BY <1>3, <2>1
      <3> QED
        BY <1>1, <3>1 DEF CronNode, SameNode, SameRest
    <2>2. CASE nodes[m].conn # "ready"
      BY <1>3, <2>2 DEF CronNode, SameNode, SameRest
    <2> QED
      BY <2>1, <2>2
  <1>5. res \in [Nodes -> CronNode]
    BY <1>3, <1>4
  <1> QED
    BY <1>2, <1>4, <1>5 DEF res

\* Marking selected rows as outdated changes nothing but the rows.
LEMMA OutdatedKeeps ==
  ASSUME NEW nodes \in [Nodes -> CronNode], NEW j \in Jobs,
         NEW finished \in BOOLEAN, NEW edited \in BOOLEAN
  PROVE  /\ Outdated(nodes, j, finished, edited) \in [Nodes -> CronNode]
         /\ \A m \in Nodes :
              /\ SameNode(nodes[m], Outdated(nodes, j, finished, edited)[m])
              /\ Outdated(nodes, j, finished, edited)[m].notifies = nodes[m].notifies
  <1> DEFINE res == Outdated(nodes, j, finished, edited)
  <1>1. ASSUME NEW m \in Nodes
        PROVE  /\ res[m] \in CronNode /\ SameNode(nodes[m], res[m])
               /\ res[m].notifies = nodes[m].notifies
    <2>1. CASE nodes[m].rows[j] = NULL
      BY <2>1 DEF Outdated, CronNode, SameNode, SameRest
    <2>2. CASE nodes[m].rows[j] # NULL
      <3> DEFINE row == nodes[m].rows[j]
                 new == [row EXCEPT !.last = IF finished /\ @ = "same" THEN "old" ELSE @,
                                    !.current = @ /\ ~edited]
                 rows == [nodes[m].rows EXCEPT ![j] = new]
      <3>1. row \in ScheduleRow
        BY <2>2 DEF CronNode
      <3>2. new \in ScheduleRow
        BY <3>1 DEF ScheduleRow
      <3>3. rows \in [Jobs -> ScheduleRow \cup {NULL}]
        BY <3>2 DEF CronNode
      <3>4. res[m] = [nodes[m] EXCEPT !.rows = rows]
        BY <2>2 DEF Outdated, CronNode
      <3> HIDE DEF res, row, new, rows
      <3>5. nodes[m] \in CronNode
        OBVIOUS
      <3>6. res[m] \in CronNode /\ res[m].notifies = nodes[m].notifies
        BY <3>3, <3>4, <3>5 DEF CronNode
      <3>7. SameNode(nodes[m], res[m])
        BY <3>4, <3>5 DEF CronNode, SameNode, SameRest
      <3> QED
        BY <3>6, <3>7
    <2> QED
      BY <2>1, <2>2
  <1>2. res \in [Nodes -> CronNode]
    BY <1>1 DEF Outdated
  <1> QED
    BY <1>1, <1>2

\* A claim run that has not filled the workplace finds a number for its process.
LEMMA NewProcessExists ==
  ASSUME TypeOK, NEW n \in Nodes, NEW j \in Jobs, NodeShape(node[n]),
         ~node[n].disabled_full
  PROVE  /\ NewProcess(n, j) \in Process \ node[n].running
         /\ NewProcess(n, j)[1] = j
  <1> DEFINE slots == 1..MaxOperators
             run == node[n].running
             f == [k \in slots |-> <<j, k>>]
  <1>1. \E k \in slots : <<j, k>> \notin run
    <2> SUFFICES ASSUME \A k \in slots : <<j, k>> \in run
                 PROVE  FALSE
      OBVIOUS
    <2>1. f \in Injection(slots, run)
      BY DEF Injection, IsInjective
    <2>2. IsFiniteSet(run) /\ ~(Cardinality(run) >= MaxOperators)
      BY DEF NodeShape, IsFull
    <2>3. IsFiniteSet(slots) /\ Cardinality(slots) = MaxOperators
      BY CronAssumption, FS_Interval
    <2>4. Cardinality(slots) <= Cardinality(run)
      <3> HIDE DEF slots, run, f
      <3> QED
        BY <2>1, <2>2, FS_Injection
    <2>5. Cardinality(run) \in Nat
      BY <2>2, FS_CardinalityType
    <2> QED
      BY <2>2, <2>3, <2>4, <2>5, CronAssumption
  <1> DEFINE k == CHOOSE i \in slots : <<j, i>> \notin run
  <1>2. k \in slots /\ <<j, k>> \notin run
    BY <1>1
  <1>3. NewProcess(n, j) = <<j, k>>
    BY DEF NewProcess
  <1> HIDE DEF k, run
  <1> QED
    BY <1>2, <1>3 DEF Process, run

NodesOK == \A n \in Nodes : NodeShape(node[n])

RowsOK == \A j \in Jobs : RowShape(table[j])

ClaimsOK == ReadyNodeRunsItsClaims

\* As long as nothing has failed, a process runs under the claim that was made for it.
Exclusive ==
  ~SlowJobs /\ faults = 0 =>
    /\ \A n \in Nodes : node[n].conn # "ready" => node[n].running = {}
    /\ \A n \in Nodes, p \in Process : p \in node[n].running =>
         /\ table[p[1]].node_name = n /\ ~table[p[1]].expired
         /\ \A q \in node[n].running : q[1] = p[1] => q = p

NeedsScheduler(r) == r.enabled /\ r.next_run = "null" /\ ~r.unheard

SchedulerAwake(s) ==
  \/ "scheduler" \in s.failed
  \/ s.scheduler_timer \/ "cronjobs_modified" \in s.notifies
  \/ s.mode \in {"scheduler", "schedule"}

\* SchedulerWakeup in terms of a row and a node.
SchedulerInv ==
  \A j \in Jobs, n \in Nodes :
    NeedsScheduler(table[j]) /\ Ready(n) => SchedulerAwake(node[n])

NeedsClaim(r) == r.enabled /\ Free(r) /\ r.next_run \in {"due", "future"} /\ ~r.silent

ClaimAwake(s) ==
  \/ "claim" \in s.failed
  \/ s.claim_timer \/ "cronjobs_scheduled" \in s.notifies \/ s.mode \in Claiming

MayClaim(s) == s.conn = "ready" /\ IsEnabled(s)

\* ClaimWakeup in terms of a row and a node.
ClaimInv ==
  \A j \in Jobs, n \in Nodes :
    NeedsClaim(table[j]) /\ MayClaim(node[n]) => ClaimAwake(node[n])

IInv == TypeOK /\ NodesOK /\ RowsOK /\ ClaimsOK /\ Exclusive /\ SchedulerInv /\ ClaimInv

\* A workplace without processes has a free slot.
LEMMA NothingIsNotFull == IsFiniteSet({}) /\ ~IsFull({})
  <1>1. IsFiniteSet({}) /\ Cardinality({}) = 0
    BY FS_EmptySet
  <1> QED
    BY <1>1, CronAssumption DEF IsFull

\* The empty table and the nodes before their first connection satisfy the invariant.
LEMMA InvInit == Init => IInv
  <1> SUFFICES ASSUME Init
               PROVE  IInv
    OBVIOUS
  <1>1. TypeOK
    <2>1. table \in [Jobs -> Row]
      BY DEF Init, Row
    <2>2. NoRows \in [Jobs -> ScheduleRow \cup {NULL}]
      BY DEF NoRows
    <2>3. node \in [Nodes -> CronNode]
      BY <2>2 DEF Init, CronNode
    <2> QED
      BY <2>1, <2>3 DEF Init, TypeOK
  <1>2. NodesOK
    <2>1. IsFiniteSet({}) /\ ~IsFull({})
      BY NothingIsNotFull
    <2> QED
      BY <2>1 DEF Init, NodesOK, NodeShape, Claiming
  <1>3. RowsOK
    BY DEF Init, RowsOK, RowShape
  <1>4. ClaimsOK /\ Exclusive /\ SchedulerInv /\ ClaimInv
    BY DEF Init, ClaimsOK, ReadyNodeRunsItsClaims, Exclusive, SchedulerInv, ClaimInv, Ready,
           NeedsScheduler, NeedsClaim
  <1> QED
    BY <1>1, <1>2, <1>3, <1>4 DEF IInv

\* A step that moves neither claims nor processes.
LEMMA ClaimsKept ==
  ASSUME TypeOK, ClaimsOK, Exclusive, faults' \in {faults, faults + 1},
         \A j \in Jobs : /\ table'[j].node_name = table[j].node_name
                         /\ table'[j].expired = table[j].expired,
         \A n \in Nodes : /\ node'[n].conn = "ready" <=> node[n].conn = "ready"
                          /\ node'[n].running = node[n].running
                          /\ node'[n].orphaned = node[n].orphaned
  PROVE  ClaimsOK' /\ Exclusive'
  <1>1. ClaimsOK'
    BY DEF ClaimsOK, ReadyNodeRunsItsClaims, Ready
  <1>2. Exclusive'
    BY DEF Exclusive, Process, TypeOK
  <1> QED
    BY <1>1, <1>2

\* A step that changes one row, but not its claim, and tells the nodes what the row
\* needs.
LEMMA RowStep ==
  ASSUME IInv, NEW j \in Jobs, NEW r \in Row, RowShape(r),
         table' = [table EXCEPT ![j] = r],
         r.node_name = table[j].node_name, r.expired = table[j].expired,
         faults' \in {faults, faults + 1}, changes' \in Nat,
         node' \in [Nodes -> CronNode],
         \A m \in Nodes : /\ SameNode(node[m], node'[m])
                          /\ node[m].notifies \subseteq node'[m].notifies,
         \A m \in Nodes : NeedsScheduler(r) /\ Ready(m) =>
           NeedsScheduler(table[j]) \/ "cronjobs_modified" \in node'[m].notifies,
         \A m \in Nodes : NeedsClaim(r) /\ Ready(m) =>
           NeedsClaim(table[j]) \/ "cronjobs_scheduled" \in node'[m].notifies
  PROVE  IInv'
  <1> USE DEF IInv
  <1>0. \A i \in Jobs : table'[i] = IF i = j THEN r ELSE table[i]
    BY DEF TypeOK
  <1>1. TypeOK'
    BY DEF TypeOK
  <1>2. NodesOK'
    BY DEF NodesOK, NodeShape, SameNode, SameRest
  <1>3. RowsOK'
    BY <1>0 DEF RowsOK
  <1>4. ClaimsOK' /\ Exclusive'
    <2>1. \A i \in Jobs : /\ table'[i].node_name = table[i].node_name
                          /\ table'[i].expired = table[i].expired
      BY <1>0
    <2>2. \A n \in Nodes : /\ node'[n].conn = "ready" <=> node[n].conn = "ready"
                           /\ node'[n].running = node[n].running
                           /\ node'[n].orphaned = node[n].orphaned
      BY DEF SameNode, SameRest
    <2> QED
      BY <2>1, <2>2, ClaimsKept
  <1>5. SchedulerInv'
    <2> SUFFICES ASSUME NEW i \in Jobs, NEW m \in Nodes,
                        NeedsScheduler(table'[i]), node'[m].conn = "ready"
                 PROVE  SchedulerAwake(node'[m])
      BY DEF SchedulerInv, Ready
    <2>1. Ready(m)
      BY DEF Ready, SameNode, SameRest
    <2>2. SchedulerAwake(node[m]) => SchedulerAwake(node'[m])
      BY DEF SchedulerAwake, SameNode, SameRest
    <2>3. CASE NeedsScheduler(table[i])
      BY <2>1, <2>2, <2>3 DEF SchedulerInv
    <2>4. CASE ~NeedsScheduler(table[i])
      BY <1>0, <2>1, <2>4 DEF SchedulerAwake, SameRest
    <2> QED
      BY <2>3, <2>4
  <1>6. ClaimInv'
    <2> SUFFICES ASSUME NEW i \in Jobs, NEW m \in Nodes,
                        NeedsClaim(table'[i]), MayClaim(node'[m])
                 PROVE  ClaimAwake(node'[m])
      BY DEF ClaimInv
    <2>1. Ready(m) /\ MayClaim(node[m])
      BY DEF Ready, SameNode, MayClaim, SameRest, IsEnabled, IsEnabledOrFull
    <2>2. ClaimAwake(node[m]) => ClaimAwake(node'[m])
      BY DEF ClaimAwake, SameNode, SameRest
    <2>3. CASE NeedsClaim(table[i])
      BY <2>1, <2>2, <2>3 DEF ClaimInv
    <2>4. CASE ~NeedsClaim(table[i])
      BY <1>0, <2>1, <2>4 DEF ClaimAwake, SameRest
    <2> QED
      BY <2>3, <2>4
  <1> QED
    BY <1>1, <1>2, <1>3, <1>4, <1>5, <1>6

\* A step of one node that moves neither claims nor processes, and does not go to sleep
\* while there is something to do.
LEMMA LocalStep ==
  ASSUME IInv, NEW n \in Nodes, NEW s \in CronNode, NodeShape(s),
         node' = [node EXCEPT ![n] = s],
         table' = table, faults' \in {faults, faults + 1}, changes' \in Nat,
         s.conn = "ready" <=> node[n].conn = "ready", s.running = node[n].running,
         s.orphaned = node[n].orphaned,
         ASSUME NEW j \in Jobs, NeedsScheduler(table[j]), Ready(n), SchedulerAwake(node[n])
         PROVE  SchedulerAwake(s),
         ASSUME NEW j \in Jobs, NeedsClaim(table[j]), MayClaim(s),
                MayClaim(node[n]) => ClaimAwake(node[n])
         PROVE  ClaimAwake(s)
  PROVE  IInv'
  <1> USE DEF IInv
  <1>0. \A m \in Nodes : node'[m] = IF m = n THEN s ELSE node[m]
    BY DEF TypeOK
  <1>1. TypeOK'
    BY DEF TypeOK
  <1>2. NodesOK'
    BY <1>0 DEF NodesOK
  <1>3. RowsOK'
    BY DEF RowsOK
  <1>4. ClaimsOK' /\ Exclusive'
    <2>1. \A m \in Nodes : /\ node'[m].conn = "ready" <=> node[m].conn = "ready"
                           /\ node'[m].running = node[m].running
                           /\ node'[m].orphaned = node[m].orphaned
      BY <1>0
    <2> QED
      BY <2>1, ClaimsKept
  <1>5. SchedulerInv'
    BY <1>0 DEF SchedulerInv, Ready
  <1>6. ClaimInv'
    BY <1>0 DEF ClaimInv
  <1> QED
    BY <1>1, <1>2, <1>3, <1>4, <1>5, <1>6

\* The clients and the passing of next_run.
LEMMA InsertStep ==
  ASSUME IInv, NEW j \in Jobs, NEW schedule \in Schedules, InsertJob(j, schedule)
  PROVE  IInv'
  <1> USE DEF IInv
  <1> DEFINE r == [table[j] EXCEPT !.inserted = TRUE, !.enabled = TRUE, !.schedule = schedule]
  <1>1. table' = [table EXCEPT ![j] = r]
    BY DEF InsertJob, TypeOK
  <1>2. /\ r \in Row /\ RowShape(r)
        /\ r.node_name = table[j].node_name /\ r.expired = table[j].expired
    BY DEF InsertJob, TypeOK, Row, RowsOK, RowShape
  <1>3. NeedsScheduler(r) => "cronjobs_modified" \in Rules(table[j], r, j \in {})
    BY DEF InsertJob, RowsOK, RowShape, Rules, NeedsScheduler, Free, TypeOK, Row
  <1>4. ~NeedsClaim(r)
    BY DEF InsertJob, RowsOK, RowShape, NeedsClaim, TypeOK, Row
  <1>5. node' = Notified(node, table', {}) /\ table'[j] = r
    BY <1>1 DEF InsertJob, TypeOK
  <1> HIDE DEF r
  <1>6. /\ node' \in [Nodes -> CronNode]
        /\ \A m \in Nodes : /\ SameNode(node[m], node'[m])
                            /\ node[m].notifies \subseteq node'[m].notifies
                            /\ node[m].conn = "ready" =>
                                 Rules(table[j], r, j \in {}) \subseteq node'[m].notifies
    BY <1>5, NotifiedKeeps DEF TypeOK
  <1>7. faults' = faults /\ changes' \in Nat
    BY DEF InsertJob, TypeOK
  <1> QED
    BY <1>1, <1>2, <1>3, <1>4, <1>6, <1>7, RowStep DEF Ready

\* A client enables or disables a job.
LEMMA SetEnabledStep ==
  ASSUME IInv, NEW j \in Jobs, SetEnabled(j)
  PROVE  IInv'
  <1> USE DEF IInv
  <1> DEFINE si == table[j].silent \/ (~table[j].enabled /\ table[j].next_run # "null")
             un == IF table[j].enabled THEN table[j].unheard
                   ELSE ~Free(table[j]) /\ table[j].next_run = "null"
             r == [table[j] EXCEPT !.enabled = ~@, !.silent = si, !.unheard = un]
  <1>0. /\ table[j] \in Row /\ RowShape(table[j]) /\ table[j].inserted
        /\ si \in BOOLEAN /\ un \in BOOLEAN
    BY DEF SetEnabled, Editable, TypeOK, Row, RowsOK
  <1>1. table' = [table EXCEPT ![j] = r]
    BY DEF SetEnabled, TypeOK
  <1>2. /\ r \in Row /\ RowShape(r)
        /\ r.node_name = table[j].node_name /\ r.expired = table[j].expired
    <2> HIDE DEF si, un
    <2> QED
      BY <1>0 DEF Row, RowShape
  <1>3. NeedsScheduler(r) => "cronjobs_modified" \in Rules(table[j], r, j \in {})
    BY DEF SetEnabled, Editable, Rules, NeedsScheduler, Free, TypeOK, Row
  <1>4. ~NeedsClaim(r)
    BY DEF NeedsClaim, TypeOK, Row
  <1>5. node' = Notified(node, table', {}) /\ table'[j] = r
    BY <1>1 DEF SetEnabled, TypeOK
  <1> HIDE DEF r
  <1>6. /\ node' \in [Nodes -> CronNode]
        /\ \A m \in Nodes : /\ SameNode(node[m], node'[m])
                            /\ node[m].notifies \subseteq node'[m].notifies
                            /\ node[m].conn = "ready" =>
                                 Rules(table[j], r, j \in {}) \subseteq node'[m].notifies
    BY <1>5, NotifiedKeeps DEF TypeOK
  <1>7. faults' = faults /\ changes' \in Nat
    BY DEF SetEnabled, Editable, Change, TypeOK
  <1> QED
    BY <1>1, <1>2, <1>3, <1>4, <1>6, <1>7, RowStep DEF Ready

\* A client edits the schedule, which makes a rule notify every scheduler.
LEMMA EditScheduleStep ==
  ASSUME IInv, NEW j \in Jobs, NEW schedule \in Schedules, NEW delay \in Delays \cup {0, NULL},
         NEW clear \in BOOLEAN, EditSchedule(j, schedule, delay, clear)
  PROVE  IInv'
  <1> USE DEF IInv
  <1> DEFINE r == [table[j] EXCEPT !.schedule = schedule, !.delay = delay,
                     !.next_run = IF clear THEN "null" ELSE @, !.silent = @ /\ ~clear,
                     !.unheard = /\ ~Free(table[j])
                                 /\ @ \/ (clear /\ table[j].next_run # "null")]
             out == Outdated(node, j, FALSE, TRUE)
  <1>1. table' = [table EXCEPT ![j] = r]
    BY DEF EditSchedule, TypeOK
  <1>2. /\ r \in Row /\ RowShape(r)
        /\ r.node_name = table[j].node_name /\ r.expired = table[j].expired
    BY DEF EditSchedule, Editable, TypeOK, Row, RowsOK, RowShape
  <1>3. NeedsScheduler(r) => \/ NeedsScheduler(table[j])
                             \/ "cronjobs_modified" \in Rules(table[j], r, j \in {j})
    BY DEF EditSchedule, Editable, Rules, NeedsScheduler, Free, TypeOK, Row
  <1>4. NeedsClaim(r) => NeedsClaim(table[j])
    BY DEF NeedsClaim, TypeOK, Row, Free
  <1>5. node' = Notified(out, table', {j}) /\ table'[j] = r
    BY <1>1 DEF EditSchedule, TypeOK
  <1>6. /\ out \in [Nodes -> CronNode]
        /\ \A m \in Nodes : SameNode(node[m], out[m]) /\ out[m].notifies = node[m].notifies
    BY OutdatedKeeps DEF TypeOK
  <1> HIDE DEF r, out
  <1>7. /\ node' \in [Nodes -> CronNode]
        /\ \A m \in Nodes : /\ SameNode(out[m], node'[m])
                            /\ out[m].notifies \subseteq node'[m].notifies
                            /\ out[m].conn = "ready" =>
                                 Rules(table[j], r, j \in {j}) \subseteq node'[m].notifies
    BY <1>5, <1>6, NotifiedKeeps
  <1>8. \A m \in Nodes : /\ SameNode(node[m], node'[m])
                         /\ node[m].notifies \subseteq node'[m].notifies
                         /\ node[m].conn = "ready" =>
                              Rules(table[j], r, j \in {j}) \subseteq node'[m].notifies
    BY <1>6, <1>7 DEF SameNode, SameRest
  <1>9. faults' = faults /\ changes' \in Nat
    BY DEF EditSchedule, Editable, Change, TypeOK
  <1> QED
    BY <1>1, <1>2, <1>3, <1>4, <1>7, <1>8, <1>9, RowStep DEF Ready

\* Time passes: a job that was scheduled is due.
LEMMA NextRunPassesStep ==
  ASSUME IInv, NEW j \in Jobs, NextRunPasses(j)
  PROVE  IInv'
  <1> USE DEF IInv
  <1> DEFINE r == [table[j] EXCEPT !.next_run = "due"]
  <1>1. table' = [table EXCEPT ![j] = r]
    BY DEF NextRunPasses, TypeOK
  <1>2. /\ r \in Row /\ RowShape(r)
        /\ r.node_name = table[j].node_name /\ r.expired = table[j].expired
    BY DEF NextRunPasses, TypeOK, Row, RowsOK, RowShape
  <1>3. ~NeedsScheduler(r) /\ (NeedsClaim(r) => NeedsClaim(table[j]))
    BY DEF NextRunPasses, NeedsScheduler, NeedsClaim, Free, TypeOK, Row
  <1> HIDE DEF r
  <1>4. /\ node' \in [Nodes -> CronNode]
        /\ \A m \in Nodes : /\ SameNode(node[m], node'[m])
                            /\ node[m].notifies \subseteq node'[m].notifies
    BY DEF NextRunPasses, TypeOK, SameNode, SameRest
  <1>5. faults' = faults /\ changes' \in Nat
    BY DEF NextRunPasses, TypeOK
  <1> QED
    BY <1>1, <1>2, <1>3, <1>4, <1>5, RowStep

\* A scheduler that forgets or rewrites a row it has selected.
LEMMA SelectedRow ==
  ASSUME TypeOK, NEW n \in Nodes, NEW j \in Jobs, NEW v \in ScheduleRow \cup {NULL}
  PROVE  /\ [node EXCEPT ![n].rows[j] = v] \in [Nodes -> CronNode]
         /\ \A m \in Nodes : /\ SameNode(node[m], [node EXCEPT ![n].rows[j] = v][m])
                             /\ [node EXCEPT ![n].rows[j] = v][m].notifies = node[m].notifies
  <1> DEFINE rows == [node[n].rows EXCEPT ![j] = v]
             s == [node[n] EXCEPT !.rows = rows]
             res == [node EXCEPT ![n].rows[j] = v]
  <1>1. res = [node EXCEPT ![n] = s]
    BY DEF TypeOK
  <1>2. rows \in [Jobs -> ScheduleRow \cup {NULL}]
    BY DEF TypeOK, CronNode
  <1> HIDE DEF rows
  <1>3. s \in CronNode /\ SameNode(node[n], s) /\ s.notifies = node[n].notifies
    <2>1. node[n] \in CronNode
      BY DEF TypeOK
    <2> QED
      BY <1>2, <2>1 DEF CronNode, SameNode, SameRest
  <1> HIDE DEF s, res
  <1>4. res \in [Nodes -> CronNode]
    BY <1>1, <1>3 DEF TypeOK
  <1>5. \A m \in Nodes : SameNode(node[m], res[m]) /\ res[m].notifies = node[m].notifies
    BY <1>1, <1>3 DEF TypeOK, SameNode, SameRest
  <1> QED
    BY <1>4, <1>5 DEF res

\* A row the scheduler has not changed.
LEMMA RowUntouched ==
  ASSUME IInv, NEW j \in Jobs, table' = table,
         faults' \in {faults, faults + 1}, changes' = changes,
         node' \in [Nodes -> CronNode],
         \A m \in Nodes : /\ SameNode(node[m], node'[m])
                          /\ node[m].notifies \subseteq node'[m].notifies
  PROVE  IInv'
  <1>1. table[j] \in Row /\ RowShape(table[j]) /\ changes' \in Nat
    BY DEF IInv, TypeOK, RowsOK
  <1>2. table' = [table EXCEPT ![j] = table[j]]
    BY DEF IInv, TypeOK
  <1> QED
    BY <1>1, <1>2, RowStep

\* The scheduler skips a row whose schedule cannot be parsed.
LEMMA ScheduleFailsStep ==
  ASSUME IInv, NEW n \in Nodes, NEW j \in Jobs, ScheduleFails(n, j)
  PROVE  IInv'
  <1>1. node' = [node EXCEPT ![n].rows[j] = NULL]
    BY DEF ScheduleFails
  <1>2. /\ node' \in [Nodes -> CronNode]
        /\ \A m \in Nodes : /\ SameNode(node[m], node'[m])
                            /\ node[m].notifies \subseteq node'[m].notifies
    BY <1>1, SelectedRow DEF IInv
  <1> QED
    BY <1>2, RowUntouched DEF ScheduleFails

\* The scheduler stores a delay.
LEMMA MakeRandomDelayStep ==
  ASSUME IInv, NEW n \in Nodes, NEW j \in Jobs, NEW delay \in Delays \cup {0},
         MakeRandomDelay(n, j, delay)
  PROVE  IInv'
  <1> USE DEF IInv
  <1>0. faults' = faults /\ changes' = changes
    BY DEF MakeRandomDelay
  <1>1. CASE make_random_delay_where(table[j], node[n].rows[j])
    <2> DEFINE r == [table[j] EXCEPT !.delay = delay]
               v == [node[n].rows[j] EXCEPT !.delay = delay]
    <2>1. table' = [table EXCEPT ![j] = r]
      BY <1>1 DEF MakeRandomDelay, TypeOK
    <2>2. /\ r \in Row /\ RowShape(r)
          /\ r.node_name = table[j].node_name /\ r.expired = table[j].expired
          /\ NeedsScheduler(r) => NeedsScheduler(table[j])
          /\ NeedsClaim(r) => NeedsClaim(table[j])
      BY DEF TypeOK, Row, RowsOK, RowShape, NeedsScheduler, NeedsClaim, Free
    <2>3. node[n].rows[j] \in ScheduleRow
      BY DEF MakeRandomDelay, TypeOK, CronNode
    <2>4. v \in ScheduleRow \cup {NULL}
      BY <2>3 DEF ScheduleRow
    <2>5. node' = [node EXCEPT ![n].rows[j] = v]
      BY <1>1 DEF MakeRandomDelay, TypeOK
    <2> HIDE DEF r, v
    <2>6. /\ node' \in [Nodes -> CronNode]
          /\ \A m \in Nodes : /\ SameNode(node[m], node'[m])
                              /\ node[m].notifies \subseteq node'[m].notifies
      BY <2>4, <2>5, SelectedRow
    <2>7. changes' \in Nat
      BY <1>0 DEF TypeOK
    <2> QED
      BY <1>0, <2>1, <2>2, <2>6, <2>7, RowStep
  <1>2. CASE ~make_random_delay_where(table[j], node[n].rows[j])
    <2>1. node' = [node EXCEPT ![n].rows[j] = NULL] /\ table' = table
      BY <1>2 DEF MakeRandomDelay
    <2>2. /\ node' \in [Nodes -> CronNode]
          /\ \A m \in Nodes : /\ SameNode(node[m], node'[m])
                              /\ node[m].notifies \subseteq node'[m].notifies
      BY <2>1, SelectedRow
    <2> QED
      BY <1>0, <2>1, <2>2, RowUntouched
  <1> QED
    BY <1>1, <1>2

\* The scheduler stores next_run, which makes a rule notify every node.
LEMMA UpdateNextRunStep ==
  ASSUME IInv, NEW n \in Nodes, NEW j \in Jobs, UpdateNextRun(n, j)
  PROVE  IInv'
  <1> USE DEF IInv
  <1> DEFINE row == node[n].rows[j]
             done == [node EXCEPT ![n].rows[j] = NULL]
  <1>0. faults' = faults /\ changes' = changes
    BY DEF UpdateNextRun
  <1>1. /\ done \in [Nodes -> CronNode]
        /\ \A m \in Nodes : SameNode(node[m], done[m]) /\ done[m].notifies = node[m].notifies
    BY SelectedRow
  <1>2. CASE update_next_run_where(table[j], row)
    <2> DEFINE r == [table[j] EXCEPT !.next_run = Next_run(j, row), !.unheard = FALSE]
    <2>1. table' = [table EXCEPT ![j] = r]
      BY <1>2 DEF UpdateNextRun, TypeOK
    <2>2. row \in ScheduleRow
      BY DEF UpdateNextRun, TypeOK, CronNode
    <2>3. Next_run(j, row) \in {"future", "due", "infinity"}
      BY DEF Next_run
    <2>4. table[j].schedule = "@once" /\ table[j].last_run => Next_run(j, row) = "infinity"
      BY <1>2, <2>2 DEF update_next_run_where, Next_run, ScheduleRow
    <2>5. table[j] \in Row /\ table[j].enabled /\ table[j].next_run = "null"
      BY <1>2 DEF update_next_run_where, TypeOK
    <2>6. /\ r \in Row /\ RowShape(r)
          /\ r.node_name = table[j].node_name /\ r.expired = table[j].expired
          /\ ~NeedsScheduler(r)
      BY <2>3, <2>4, <2>5 DEF Row, RowsOK, RowShape, NeedsScheduler
    <2>7. NeedsClaim(r) => "cronjobs_scheduled" \in Rules(table[j], r, j \in {})
      BY <2>3, <2>5 DEF Row, NeedsClaim, Rules, Free
    <2>8. node' = Notified(done, table', {}) /\ table'[j] = r
      BY <1>2, <2>1 DEF UpdateNextRun, TypeOK
    <2> HIDE DEF r, done
    <2>9. /\ node' \in [Nodes -> CronNode]
          /\ \A m \in Nodes : /\ SameNode(done[m], node'[m])
                              /\ done[m].notifies \subseteq node'[m].notifies
                              /\ done[m].conn = "ready" =>
                                   Rules(table[j], r, j \in {}) \subseteq node'[m].notifies
      BY <1>1, <2>8, NotifiedKeeps
    <2>10. \A m \in Nodes : /\ SameNode(node[m], node'[m])
                            /\ node[m].notifies \subseteq node'[m].notifies
                            /\ node[m].conn = "ready" =>
                                 Rules(table[j], r, j \in {}) \subseteq node'[m].notifies
      BY <1>1, <2>9 DEF SameNode, SameRest
    <2>11. changes' \in Nat
      BY <1>0 DEF TypeOK
    <2> QED
      BY <1>0, <2>1, <2>6, <2>7, <2>9, <2>10, <2>11, RowStep DEF Ready
  <1>3. CASE ~update_next_run_where(table[j], row)
    <2>1. node' = done /\ table' = table
      BY <1>3 DEF UpdateNextRun
    <2> HIDE DEF done
    <2> QED
      BY <1>0, <1>1, <2>1, RowUntouched
  <1> QED
    BY <1>2, <1>3

\* The steps of a run, and notifies: the node moves on, or sets a timer, or has found
\* that there is nothing to do.
LEMMA SelectStep ==
  ASSUME IInv, NEW n \in Nodes, SelectJobsForScheduling(n)
  PROVE  IInv'
  <1> USE DEF IInv
  <1> DEFINE rows == select_jobs_for_scheduling
             s == [node[n] EXCEPT !.rows = rows,
                                  !.mode = IF rows = NoRows THEN "idle" ELSE "schedule"]
  <1>0. node[n] \in CronNode /\ NodeShape(node[n])
    BY DEF TypeOK, NodesOK
  <1>1. node' = [node EXCEPT ![n] = s]
    BY DEF SelectJobsForScheduling, TypeOK
  <1>2. rows \in [Jobs -> ScheduleRow \cup {NULL}]
    BY DEF select_jobs_for_scheduling, ScheduleRow, TypeOK, Row
  <1>3. ASSUME NEW j \in Jobs, NeedsScheduler(table[j])
        PROVE  rows # NoRows
    <2>1. rows[j] \in ScheduleRow
      BY <1>3 DEF select_jobs_for_scheduling, ScheduleRow, NeedsScheduler, TypeOK, Row
    <2> QED
      BY <2>1, CronAssumption DEF NoRows
  <1>4. Ready(n) /\ node[n].mode = "scheduler"
    BY DEF SelectJobsForScheduling
  <1> HIDE DEF rows
  <1>5. /\ s \in CronNode /\ s.conn = node[n].conn /\ s.running = node[n].running
        /\ s.found = node[n].found /\ s.notifies = node[n].notifies
        /\ s.claim_timer = node[n].claim_timer /\ s.disabled_full = node[n].disabled_full
        /\ SameRest(node[n], s)
        /\ s.mode = IF rows = NoRows THEN "idle" ELSE "schedule"
    BY <1>0, <1>2 DEF CronNode, SameRest
  <1> HIDE DEF s
  <1>6. NodeShape(s)
    BY <1>0, <1>4, <1>5 DEF NodeShape, Claiming, Ready
  <1>7. ASSUME NEW j \in Jobs, NeedsScheduler(table[j]), Ready(n), SchedulerAwake(node[n])
        PROVE  SchedulerAwake(s)
    BY <1>3, <1>5, <1>7 DEF SchedulerAwake, SameRest
  <1>8. ASSUME NEW j \in Jobs, NeedsClaim(table[j]), MayClaim(s),
               MayClaim(node[n]) => ClaimAwake(node[n])
        PROVE  ClaimAwake(s)
    BY <1>4, <1>5, <1>8 DEF ClaimAwake, MayClaim, Claiming, IsEnabled, IsEnabledOrFull, SameRest
  <1>9. table' = table /\ faults' = faults /\ changes' \in Nat
    BY DEF SelectJobsForScheduling, TypeOK
  <1> QED
    BY <1>1, <1>5, <1>6, <1>7, <1>8, <1>9, LocalStep DEF SameRest

\* The other steps, which leave the selected rows, the workplace and the table alone.
LEMMA TimerStep ==
  ASSUME IInv, NEW n \in Nodes, NEW s \in CronNode, node' = [node EXCEPT ![n] = s],
         table' = table, faults' \in {faults, faults + 1}, changes' \in Nat,
         s.running = node[n].running, s.disabled_full = node[n].disabled_full,
         s.orphaned = node[n].orphaned,
         s.conn = "ready" <=> node[n].conn = "ready",
         s.mode # "idle" => s.conn = "ready", s.mode = "job" => s.found \in Jobs,
         s.mode \in Claiming => ~node[n].disabled_full,
         \A j \in Jobs : NeedsScheduler(table[j]) /\ Ready(n) /\ SchedulerAwake(node[n]) =>
                           SchedulerAwake(s),
         \A j \in Jobs : NeedsClaim(table[j]) /\ MayClaim(s)
                           /\ (MayClaim(node[n]) => ClaimAwake(node[n])) => ClaimAwake(s)
  PROVE  IInv'
  <1>1. NodeShape(s)
    BY DEF IInv, NodesOK, NodeShape
  <1> QED
    BY <1>1, LocalStep DEF SameRest

\* The scheduler ends when no row is left.
LEMMA EndSchedulerStep ==
  ASSUME IInv, NEW n \in Nodes, EndScheduler(n)
  PROVE  IInv'
  <1> DEFINE s == [node[n] EXCEPT !.mode = "idle", !.scheduler_timer = TRUE]
  <1>0. node[n] \in CronNode /\ NodeShape(node[n]) /\ changes' \in Nat
    BY DEF IInv, TypeOK, NodesOK, EndScheduler
  <1>1. node' = [node EXCEPT ![n] = s]
    BY DEF IInv, EndScheduler, TypeOK
  <1>2. /\ s \in CronNode /\ s.mode = "idle" /\ s.scheduler_timer = TRUE
        /\ s.claim_timer = node[n].claim_timer /\ s.notifies = node[n].notifies
        /\ s.conn = node[n].conn /\ SameRest(node[n], s)
        /\ s.running = node[n].running /\ s.disabled_full = node[n].disabled_full
    BY <1>0 DEF CronNode, SameRest
  <1> HIDE DEF s
  <1>3. table' = table /\ faults' = faults /\ node[n].mode = "schedule"
    BY DEF EndScheduler
  <1>4. SchedulerAwake(s) /\ "idle" \notin Claiming
    BY <1>2 DEF SchedulerAwake, Claiming, SameRest
  <1>5. MayClaim(s) /\ (MayClaim(node[n]) => ClaimAwake(node[n])) => ClaimAwake(s)
    BY <1>2, <1>3 DEF MayClaim, ClaimAwake, Claiming, IsEnabled, IsEnabledOrFull, SameRest
  <1> QED
    BY <1>0, <1>1, <1>2, <1>3, <1>4, <1>5, TimerStep DEF SameRest

\* The claim timer fires.
LEMMA RunClaimStep ==
  ASSUME IInv, NEW n \in Nodes, RunClaim(n)
  PROVE  IInv'
  <1> DEFINE s == [node[n] EXCEPT !.claim_timer = FALSE, !.failed = @ \ {"claim"},
                                  !.mode = IF IsEnabled(node[n]) THEN "claim" ELSE "idle"]
  <1>0. node[n] \in CronNode /\ NodeShape(node[n]) /\ changes' \in Nat
    BY DEF IInv, TypeOK, NodesOK, RunClaim
  <1>1. node' = [node EXCEPT ![n] = s]
    BY DEF IInv, RunClaim, TypeOK
  <1>2. /\ s \in CronNode /\ s.scheduler_timer = node[n].scheduler_timer
        /\ s.mode = (IF IsEnabled(node[n]) THEN "claim" ELSE "idle")
        /\ s.notifies = node[n].notifies /\ s.conn = node[n].conn
        /\ s.enabled_state = node[n].enabled_state /\ s.enabled_admin = node[n].enabled_admin
        /\ s.failed = node[n].failed \ {"claim"} /\ s.orphaned = node[n].orphaned
        /\ s.running = node[n].running /\ s.disabled_full = node[n].disabled_full
    BY <1>0 DEF CronNode
  <1> HIDE DEF s
  <1>3. table' = table /\ faults' = faults /\ node[n].mode = "idle" /\ Ready(n)
    BY DEF RunClaim
  <1>4. SchedulerAwake(node[n]) => SchedulerAwake(s)
    BY <1>2, <1>3 DEF SchedulerAwake, SameRest
  <1>5. MayClaim(s) => ClaimAwake(s)
    BY <1>2, <1>3 DEF MayClaim, ClaimAwake, Claiming, IsEnabled, IsEnabledOrFull, SameRest
  <1>6. s.mode \in Claiming => ~node[n].disabled_full
    BY <1>2 DEF Claiming, IsEnabled
  <1>7. s.mode # "idle" => s.conn = "ready"
    BY <1>2, <1>3 DEF Ready
  <1> QED
    BY <1>0, <1>1, <1>2, <1>3, <1>4, <1>5, <1>6, <1>7, TimerStep DEF SameRest

\* FindEarliestPending clears no timer unless no job is pending.
LEMMA FindEarliestStep ==
  ASSUME IInv, NEW n \in Nodes, FindEarliestPending(n)
  PROVE  IInv'
  <1>0. /\ node[n] \in CronNode /\ NodeShape(node[n]) /\ changes' \in Nat
        /\ node[n].mode = "claim" /\ table' = table /\ faults' = faults
    BY DEF IInv, TypeOK, NodesOK, FindEarliestPending
  <1>1. Ready(n) /\ ~node[n].disabled_full
    BY <1>0 DEF NodeShape, Ready, Claiming
  <1>2. PICK mode \in {"idle", "check"}, timer \in BOOLEAN :
          /\ node' = [node EXCEPT ![n] = [node[n] EXCEPT !.mode = mode, !.claim_timer = timer]]
          /\ mode = "check" \/ timer \/ \A j \in Jobs : ~NeedsClaim(table[j])
    <2>1. CASE /\ \A j \in Jobs : ~Pending(j, "due") /\ ~Pending(j, "future")
               /\ node' = [node EXCEPT ![n].mode = "idle"]
      <3>1. \A j \in Jobs : ~NeedsClaim(table[j])
        BY <2>1 DEF Pending, NeedsClaim
      <3>2. node' = [node EXCEPT ![n] = [node[n] EXCEPT !.mode = "idle",
                                                        !.claim_timer = node[n].claim_timer]]
        BY <1>0, <2>1 DEF IInv, TypeOK, CronNode
      <3>3. node[n].claim_timer \in BOOLEAN
        BY <1>0 DEF CronNode
      <3> QED
        BY <3>1, <3>2, <3>3
    <2>2. CASE node' = [node EXCEPT ![n].mode = "idle", ![n].claim_timer = TRUE]
      <3>1. node' = [node EXCEPT ![n] = [node[n] EXCEPT !.mode = "idle", !.claim_timer = TRUE]]
        BY <1>0, <2>2 DEF IInv, TypeOK
      <3> QED
        BY <3>1
    <2>3. CASE node' = [node EXCEPT ![n].mode = "check"]
      <3>1. node' = [node EXCEPT ![n] = [node[n] EXCEPT !.mode = "check",
                                                        !.claim_timer = node[n].claim_timer]]
        BY <1>0, <2>3 DEF IInv, TypeOK, CronNode
      <3>2. node[n].claim_timer \in BOOLEAN
        BY <1>0 DEF CronNode
      <3> QED
        BY <3>1, <3>2
    <2> QED
      BY <2>1, <2>2, <2>3 DEF FindEarliestPending
  <1> DEFINE s == [node[n] EXCEPT !.mode = mode, !.claim_timer = timer]
  <1>3. /\ s \in CronNode /\ s.mode = mode /\ s.claim_timer = timer
        /\ s.scheduler_timer = node[n].scheduler_timer /\ s.notifies = node[n].notifies
        /\ s.conn = node[n].conn /\ SameRest(node[n], s)
        /\ s.running = node[n].running /\ s.disabled_full = node[n].disabled_full
    BY <1>0 DEF CronNode, SameRest
  <1>4. node' = [node EXCEPT ![n] = s]
    BY <1>2
  <1> HIDE DEF s
  <1>5. SchedulerAwake(node[n]) => SchedulerAwake(s)
    BY <1>0, <1>3 DEF SchedulerAwake, SameRest
  <1>6. \A j \in Jobs : NeedsClaim(table[j]) => ClaimAwake(s)
    BY <1>2, <1>3 DEF ClaimAwake, Claiming, SameRest
  <1> QED
    BY <1>0, <1>1, <1>3, <1>4, <1>5, <1>6, TimerStep DEF Ready, SameRest

\* The claim run takes up a job or puts its timer away.
LEMMA CheckPendingStep ==
  ASSUME IInv, NEW n \in Nodes, CheckPending(n)
  PROVE  IInv'
  <1>0. /\ node[n] \in CronNode /\ NodeShape(node[n]) /\ changes' \in Nat
        /\ node[n].mode = "check" /\ table' = table /\ faults' = faults
    BY DEF IInv, TypeOK, NodesOK, CheckPending
  <1>1. Ready(n) /\ ~node[n].disabled_full
    BY <1>0 DEF NodeShape, Ready, Claiming
  <1>2. CASE \E j \in Jobs : node' = [node EXCEPT ![n].mode = "job", ![n].found = j]
    <2>1. PICK i \in Jobs : node' = [node EXCEPT ![n].mode = "job", ![n].found = i]
      BY <1>2
    <2> DEFINE s == [node[n] EXCEPT !.mode = "job", !.found = i]
    <2>2. /\ s \in CronNode /\ s.mode = "job" /\ s.found = i
          /\ s.scheduler_timer = node[n].scheduler_timer /\ s.notifies = node[n].notifies
          /\ s.conn = node[n].conn /\ SameRest(node[n], s)
          /\ s.running = node[n].running /\ s.disabled_full = node[n].disabled_full
      BY <1>0 DEF CronNode, SameRest
    <2>3. node' = [node EXCEPT ![n] = s]
      BY <2>1 DEF IInv, TypeOK
    <2> HIDE DEF s
    <2>4. SchedulerAwake(node[n]) => SchedulerAwake(s)
      BY <1>0, <2>2 DEF SchedulerAwake, SameRest
    <2>5. ClaimAwake(s)
      BY <2>2 DEF ClaimAwake, Claiming, SameRest
    <2> QED
      BY <1>0, <1>1, <2>2, <2>3, <2>4, <2>5, TimerStep DEF Ready, SameRest
  <1>3. CASE node' = [node EXCEPT ![n].mode = "idle", ![n].claim_timer = TRUE]
    <2> DEFINE s == [node[n] EXCEPT !.mode = "idle", !.claim_timer = TRUE]
    <2>2. /\ s \in CronNode /\ s.mode = "idle" /\ s.claim_timer
          /\ s.scheduler_timer = node[n].scheduler_timer /\ s.notifies = node[n].notifies
          /\ s.conn = node[n].conn /\ SameRest(node[n], s)
          /\ s.running = node[n].running /\ s.disabled_full = node[n].disabled_full
      BY <1>0 DEF CronNode, SameRest
    <2>3. node' = [node EXCEPT ![n] = s]
      BY <1>3 DEF IInv, TypeOK
    <2> HIDE DEF s
    <2>4. SchedulerAwake(node[n]) => SchedulerAwake(s)
      BY <1>0, <2>2 DEF SchedulerAwake, SameRest
    <2>5. ClaimAwake(s)
      BY <2>2 DEF ClaimAwake, Claiming, SameRest
    <2> QED
      BY <1>0, <1>1, <2>2, <2>3, <2>4, <2>5, TimerStep DEF Ready, SameRest
  <1> QED
    BY <1>2, <1>3 DEF CheckPending

\* Another node was faster.
LEMMA ClaimMissStep ==
  ASSUME IInv, NEW n \in Nodes, ClaimMiss(n)
  PROVE  IInv'
  <1> DEFINE s == [node[n] EXCEPT !.found = NULL, !.mode = "claim"]
  <1>0. /\ node[n] \in CronNode /\ NodeShape(node[n]) /\ changes' \in Nat
        /\ node[n].mode = "job" /\ table' = table /\ faults' = faults
    BY DEF IInv, TypeOK, NodesOK, ClaimMiss
  <1>1. Ready(n) /\ ~node[n].disabled_full
    BY <1>0 DEF NodeShape, Ready, Claiming
  <1>2. /\ s \in CronNode /\ s.mode = "claim"
        /\ s.scheduler_timer = node[n].scheduler_timer /\ s.notifies = node[n].notifies
        /\ s.conn = node[n].conn /\ SameRest(node[n], s)
        /\ s.running = node[n].running /\ s.disabled_full = node[n].disabled_full
    BY <1>0 DEF CronNode, SameRest
  <1>3. node' = [node EXCEPT ![n] = s]
    BY DEF ClaimMiss, IInv, TypeOK
  <1> HIDE DEF s
  <1>4. SchedulerAwake(node[n]) => SchedulerAwake(s)
    BY <1>0, <1>2 DEF SchedulerAwake, SameRest
  <1>5. ClaimAwake(s)
    BY <1>2 DEF ClaimAwake, Claiming, SameRest
  <1> QED
    BY <1>0, <1>1, <1>2, <1>3, <1>4, <1>5, TimerStep DEF Ready, SameRest

\* A notify becomes a timer.
LEMMA OnNotifyStep ==
  ASSUME IInv, NEW n \in Nodes, NEW name \in {"cronjobs_modified", "cronjobs_scheduled"},
         OnNotify(n, name)
  PROVE  IInv'
  <1> DEFINE s == [node[n] EXCEPT !.notifies = @ \ {name},
                          !.scheduler_timer = @ \/ name = "cronjobs_modified",
                          !.claim_timer = @ \/ name = "cronjobs_scheduled"]
  <1>0. /\ node[n] \in CronNode /\ NodeShape(node[n]) /\ changes' \in Nat
        /\ node[n].mode = "idle" /\ table' = table /\ faults' = faults
    BY DEF IInv, TypeOK, NodesOK, OnNotify
  <1>1. /\ s \in CronNode /\ s.mode = "idle"
        /\ s.scheduler_timer = (node[n].scheduler_timer \/ name = "cronjobs_modified")
        /\ s.claim_timer = (node[n].claim_timer \/ name = "cronjobs_scheduled")
        /\ s.notifies = node[n].notifies \ {name}
        /\ s.conn = node[n].conn /\ SameRest(node[n], s)
        /\ s.running = node[n].running /\ s.disabled_full = node[n].disabled_full
    BY <1>0 DEF CronNode, SameRest
  <1>2. node' = [node EXCEPT ![n] = s]
    BY DEF OnNotify, IInv, TypeOK
  <1> HIDE DEF s
  <1>3. SchedulerAwake(node[n]) => SchedulerAwake(s)
    BY <1>0, <1>1 DEF SchedulerAwake, SameRest
  <1>4. MayClaim(s) /\ (MayClaim(node[n]) => ClaimAwake(node[n])) => ClaimAwake(s)
    BY <1>0, <1>1 DEF ClaimAwake, Claiming, MayClaim, IsEnabled, IsEnabledOrFull, SameRest
  <1>5. "idle" \notin Claiming
    BY DEF Claiming
  <1> QED
    BY <1>0, <1>1, <1>2, <1>3, <1>4, <1>5, TimerStep DEF SameRest

\* The restart of a daemon.
LEMMA RestartStep ==
  ASSUME IInv, NEW n \in Nodes, NEW enabled \in BOOLEAN, Restart(n, enabled)
  PROVE  IInv'
  <1> DEFINE s == [node[n] EXCEPT !.conn = IF enabled THEN "connecting" ELSE "off",
                                  !.enabled_state = enabled, !.enabled_admin = TRUE]
  <1>0. /\ node[n] \in CronNode /\ NodeShape(node[n]) /\ changes' \in Nat
        /\ node[n].conn = "down" /\ table' = table /\ faults' = faults
    BY DEF IInv, TypeOK, NodesOK, Restart
  <1>1. node[n].mode = "idle"
    BY <1>0 DEF NodeShape
  <1>2. /\ s \in CronNode /\ s.mode = "idle" /\ s.conn # "ready"
        /\ s.orphaned = node[n].orphaned
        /\ s.running = node[n].running /\ s.disabled_full = node[n].disabled_full
    BY <1>0, <1>1 DEF CronNode
  <1>3. node' = [node EXCEPT ![n] = s]
    BY DEF Restart, IInv, TypeOK
  <1> HIDE DEF s
  <1>4. ~MayClaim(s) /\ ~Ready(n) /\ "idle" \notin Claiming
    BY <1>0, <1>2 DEF MayClaim, Ready, Claiming, IsEnabled, IsEnabledOrFull, SameRest
  <1> QED
    BY <1>0, <1>2, <1>3, <1>4, TimerStep DEF SameRest

\* An enabled queue connects or looks for jobs; the other fields stay.
LEMMA CheckEnabledKeeps ==
  ASSUME NEW s \in CronNode
  PROVE  /\ CheckEnabled(s) \in CronNode
         /\ CheckEnabled(s).conn = "ready" <=> s.conn = "ready"
         /\ CheckEnabled(s).mode = s.mode /\ CheckEnabled(s).running = s.running
         /\ CheckEnabled(s).disabled_full = s.disabled_full
         /\ CheckEnabled(s).scheduler_timer = s.scheduler_timer
         /\ CheckEnabled(s).notifies = s.notifies /\ SameRest(s, CheckEnabled(s))
         /\ s.claim_timer => CheckEnabled(s).claim_timer
         /\ MayClaim(CheckEnabled(s)) => CheckEnabled(s).claim_timer
  <1> DEFINE t == CheckEnabled(s)
  <1>1. CASE IsEnabled(s)
    <2> DEFINE c == IF s.conn = "off" THEN "connecting" ELSE s.conn
               k == s.claim_timer \/ s.conn = "ready"
    <2>1. t = [s EXCEPT !.conn = c, !.claim_timer = k]
      BY <1>1 DEF CheckEnabled, CronNode
    <2>2. /\ c \in {"down", "off", "connecting", "ready"} /\ k \in BOOLEAN
          /\ c = "ready" <=> s.conn = "ready"
          /\ s.claim_timer => k
          /\ c = "ready" => k
      BY DEF CronNode
    <2> HIDE DEF c, k, t
    <2>3. /\ t \in CronNode /\ t.conn = c /\ t.claim_timer = k /\ t.mode = s.mode
          /\ t.running = s.running /\ t.disabled_full = s.disabled_full
          /\ t.scheduler_timer = s.scheduler_timer /\ t.notifies = s.notifies
          /\ SameRest(s, t)
      BY <2>1, <2>2 DEF CronNode, SameRest
    <2> QED
      BY <2>2, <2>3 DEF MayClaim, t, IsEnabled, IsEnabledOrFull, SameRest
  <1>2. CASE ~IsEnabled(s)
    <2> DEFINE c == IF s.conn = "connecting" THEN "off" ELSE s.conn
    <2>1. t = [s EXCEPT !.conn = c]
      BY <1>2 DEF CheckEnabled, CronNode
    <2>2. /\ c \in {"down", "off", "connecting", "ready"}
          /\ c = "ready" <=> s.conn = "ready"
      BY DEF CronNode
    <2> HIDE DEF c, t
    <2>3. /\ t \in CronNode /\ t.conn = c /\ t.claim_timer = s.claim_timer /\ t.mode = s.mode
          /\ t.running = s.running /\ t.disabled_full = s.disabled_full
          /\ t.scheduler_timer = s.scheduler_timer /\ t.notifies = s.notifies
          /\ SameRest(s, t)
      BY <2>1, <2>2 DEF CronNode, SameRest
    <2>4. ~MayClaim(t)
      BY <1>2, <2>3 DEF MayClaim, IsEnabled, IsEnabledOrFull, SameRest
    <2> QED
      BY <2>2, <2>3, <2>4 DEF t
  <1> QED
    BY <1>1, <1>2

\* Administrators switch the queue.
LEMMA SwitchStep ==
  ASSUME IInv, NEW n \in Nodes, SetStateEnabled(n) \/ EnableAdmin(n) \/ DisableAdmin(n)
  PROVE  IInv'
  <1>0. /\ node[n] \in CronNode /\ NodeShape(node[n]) /\ changes' \in Nat
        /\ node[n].mode = "idle" /\ table' = table /\ faults' = faults
    BY DEF IInv, TypeOK, NodesOK, SetStateEnabled, EnableAdmin, DisableAdmin, Switched, Change
  <1>1. PICK s \in CronNode :
          /\ node' = [node EXCEPT ![n] = s]
          /\ s.conn = "ready" <=> node[n].conn = "ready"
          /\ s.mode = node[n].mode /\ s.running = node[n].running
          /\ s.disabled_full = node[n].disabled_full
          /\ s.scheduler_timer = node[n].scheduler_timer /\ s.notifies = node[n].notifies
          /\ s.failed = node[n].failed /\ s.orphaned = node[n].orphaned
          /\ MayClaim(s) => s.claim_timer
    <2>1. ASSUME NEW t \in CronNode, node' = [node EXCEPT ![n] = CheckEnabled(t)],
                 t.conn = node[n].conn, t.mode = node[n].mode, t.running = node[n].running,
                 t.disabled_full = node[n].disabled_full,
                 t.scheduler_timer = node[n].scheduler_timer, t.notifies = node[n].notifies,
                 t.failed = node[n].failed, t.orphaned = node[n].orphaned
          PROVE  \E s \in CronNode :
                   /\ node' = [node EXCEPT ![n] = s]
                   /\ s.conn = "ready" <=> node[n].conn = "ready"
                   /\ s.mode = node[n].mode /\ s.running = node[n].running
                   /\ s.disabled_full = node[n].disabled_full
                   /\ s.scheduler_timer = node[n].scheduler_timer
                   /\ s.notifies = node[n].notifies
                   /\ s.failed = node[n].failed /\ s.orphaned = node[n].orphaned
                   /\ MayClaim(s) => s.claim_timer
      <3> DEFINE s == CheckEnabled(t)
      <3>1. /\ s \in CronNode /\ node' = [node EXCEPT ![n] = s]
            /\ s.conn = "ready" <=> node[n].conn = "ready"
            /\ s.mode = node[n].mode /\ s.running = node[n].running
            /\ s.disabled_full = node[n].disabled_full
            /\ s.scheduler_timer = node[n].scheduler_timer /\ s.notifies = node[n].notifies
            /\ s.failed = node[n].failed /\ s.orphaned = node[n].orphaned
            /\ MayClaim(s) => s.claim_timer
        BY <2>1, CheckEnabledKeeps DEF SameRest
      <3> HIDE DEF s
      <3> QED
        BY <3>1
    <2>2. CASE SetStateEnabled(n)
      <3> DEFINE t == [node[n] EXCEPT !.enabled_state = ~@]
      <3>1. node' = [node EXCEPT ![n] = CheckEnabled(t)]
        BY <2>2 DEF SetStateEnabled, Switched
      <3>2. /\ t \in CronNode /\ t.conn = node[n].conn /\ t.mode = node[n].mode
            /\ t.running = node[n].running /\ t.disabled_full = node[n].disabled_full
            /\ t.scheduler_timer = node[n].scheduler_timer /\ t.notifies = node[n].notifies
            /\ t.failed = node[n].failed /\ t.orphaned = node[n].orphaned
        BY <1>0 DEF CronNode
      <3> HIDE DEF t
      <3> QED
        BY <2>1, <3>1, <3>2
    <2>3. CASE EnableAdmin(n)
      <3> DEFINE t == [node[n] EXCEPT !.enabled_admin = TRUE]
      <3>1. node' = [node EXCEPT ![n] = CheckEnabled(t)]
        BY <2>3 DEF EnableAdmin, Switched
      <3>2. /\ t \in CronNode /\ t.conn = node[n].conn /\ t.mode = node[n].mode
            /\ t.running = node[n].running /\ t.disabled_full = node[n].disabled_full
            /\ t.scheduler_timer = node[n].scheduler_timer /\ t.notifies = node[n].notifies
            /\ t.failed = node[n].failed /\ t.orphaned = node[n].orphaned
        BY <1>0 DEF CronNode
      <3> HIDE DEF t
      <3> QED
        BY <2>1, <3>1, <3>2
    <2>4. CASE DisableAdmin(n)
      <3> DEFINE t == [node[n] EXCEPT !.enabled_admin = FALSE]
      <3>1. node' = [node EXCEPT ![n] = t]
        BY <2>4 DEF DisableAdmin, Switched
      <3>2. /\ t \in CronNode /\ t.conn = node[n].conn /\ t.mode = node[n].mode
            /\ t.running = node[n].running /\ t.disabled_full = node[n].disabled_full
            /\ t.scheduler_timer = node[n].scheduler_timer /\ t.notifies = node[n].notifies
            /\ t.failed = node[n].failed /\ t.orphaned = node[n].orphaned
            /\ t.enabled_admin = FALSE
        BY <1>0 DEF CronNode
      <3> HIDE DEF t
      <3>3. ~MayClaim(t)
        BY <3>2 DEF MayClaim, IsEnabled, IsEnabledOrFull, SameRest
      <3> QED
        BY <3>1, <3>2, <3>3
    <2> QED
      BY <2>2, <2>3, <2>4
  <1>2. SchedulerAwake(node[n]) => SchedulerAwake(s)
    BY <1>1 DEF SchedulerAwake, SameRest
  <1>3. MayClaim(s) => ClaimAwake(s)
    BY <1>1 DEF ClaimAwake, SameRest
  <1>4. "idle" \notin Claiming
    BY DEF Claiming
  <1> QED
    BY <1>0, <1>1, <1>2, <1>3, <1>4, TimerStep DEF SameRest

\* A statement fails on a connection that lives, and the run ends without a timer, or
\* goes on without the job.
LEMMA StatementFailsStep ==
  ASSUME IInv, NEW n \in Nodes, StatementFails(n)
  PROVE  IInv'
  <1>0. /\ node[n] \in CronNode /\ NodeShape(node[n]) /\ changes' = changes
        /\ table' = table /\ faults' = faults + 1 /\ changes' \in Nat
    BY DEF IInv, TypeOK, NodesOK, StatementFails, Fault
  <1>1. CASE /\ node[n].mode = "scheduler"
             /\ node' = [node EXCEPT ![n].mode = "idle", ![n].failed = @ \cup {"scheduler"}]
    <2> DEFINE s == [node[n] EXCEPT !.mode = "idle", !.failed = @ \cup {"scheduler"}]
    <2>1. node' = [node EXCEPT ![n] = s]
      BY <1>1 DEF IInv, TypeOK
    <2>2. /\ s \in CronNode /\ s.mode = "idle" /\ s.failed = node[n].failed \cup {"scheduler"}
          /\ s.claim_timer = node[n].claim_timer /\ s.notifies = node[n].notifies
          /\ s.conn = node[n].conn /\ s.enabled_state = node[n].enabled_state
          /\ s.enabled_admin = node[n].enabled_admin /\ s.orphaned = node[n].orphaned
          /\ s.running = node[n].running /\ s.disabled_full = node[n].disabled_full
      BY <1>0 DEF CronNode
    <2> HIDE DEF s
    <2>3. SchedulerAwake(s) /\ "idle" \notin Claiming
      BY <2>2 DEF SchedulerAwake, Claiming, SameRest
    <2>4. MayClaim(s) /\ (MayClaim(node[n]) => ClaimAwake(node[n])) => ClaimAwake(s)
      BY <1>1, <2>2 DEF MayClaim, IsEnabled, IsEnabledOrFull, ClaimAwake, Claiming, SameRest
    <2> QED
      BY <1>0, <2>1, <2>2, <2>3, <2>4, TimerStep DEF SameRest
  <1>2. CASE /\ node[n].mode \in {"claim", "check"}
             /\ node' = [node EXCEPT ![n].mode = "idle", ![n].failed = @ \cup {"claim"}]
    <2> DEFINE s == [node[n] EXCEPT !.mode = "idle", !.failed = @ \cup {"claim"}]
    <2>1. node' = [node EXCEPT ![n] = s]
      BY <1>2 DEF IInv, TypeOK
    <2>2. /\ s \in CronNode /\ s.mode = "idle" /\ s.failed = node[n].failed \cup {"claim"}
          /\ s.scheduler_timer = node[n].scheduler_timer /\ s.notifies = node[n].notifies
          /\ s.conn = node[n].conn /\ s.orphaned = node[n].orphaned
          /\ s.running = node[n].running /\ s.disabled_full = node[n].disabled_full
      BY <1>0 DEF CronNode
    <2> HIDE DEF s
    <2>3. (SchedulerAwake(node[n]) => SchedulerAwake(s)) /\ "idle" \notin Claiming
      BY <1>2, <2>2 DEF SchedulerAwake, Claiming, SameRest
    <2>4. ClaimAwake(s)
      BY <2>2 DEF ClaimAwake, SameRest
    <2> QED
      BY <1>0, <2>1, <2>2, <2>3, <2>4, TimerStep DEF SameRest
  <1>3. ASSUME NEW j \in Jobs, node' = [node EXCEPT ![n].rows[j] = NULL]
        PROVE  IInv'
    <2>1. /\ node' \in [Nodes -> CronNode]
          /\ \A m \in Nodes : /\ SameNode(node[m], node'[m])
                              /\ node[m].notifies \subseteq node'[m].notifies
      BY <1>3, SelectedRow DEF IInv
    <2> QED
      BY <1>0, <2>1, RowUntouched
  <1>4. CASE /\ node[n].mode = "job"
             /\ node' = [node EXCEPT ![n].mode = "claim", ![n].found = NULL]
    <2> DEFINE s == [node[n] EXCEPT !.mode = "claim", !.found = NULL]
    <2>1. node' = [node EXCEPT ![n] = s]
      BY <1>4 DEF IInv, TypeOK
    <2>2. /\ s \in CronNode /\ s.mode = "claim" /\ s.failed = node[n].failed
          /\ s.scheduler_timer = node[n].scheduler_timer /\ s.notifies = node[n].notifies
          /\ s.conn = node[n].conn /\ s.orphaned = node[n].orphaned
          /\ s.running = node[n].running /\ s.disabled_full = node[n].disabled_full
      BY <1>0 DEF CronNode
    <2> HIDE DEF s
    <2>3. /\ SchedulerAwake(node[n]) => SchedulerAwake(s)
          /\ ~node[n].disabled_full /\ s.conn = "ready"
      BY <1>0, <1>4, <2>2 DEF SchedulerAwake, Claiming, NodeShape, SameRest
    <2>4. ClaimAwake(s)
      BY <2>2 DEF ClaimAwake, Claiming, SameRest
    <2> QED
      BY <1>0, <2>1, <2>2, <2>3, <2>4, TimerStep DEF SameRest
  <1> QED
    BY <1>1, <1>2, <1>3, <1>4 DEF StatementFails

\* A node loses its connection, or everything.  A claim may have been made for it.
LEMMA LostStep ==
  ASSUME IInv, NEW n \in Nodes, NEW s \in CronNode, NodeShape(s), s.conn # "ready",
         node' = [node EXCEPT ![n] = s],
         table' \in [Jobs -> Row],
         \A j \in Jobs :
           /\ RowShape(table'[j])
           /\ table'[j].node_name \in {table[j].node_name, n}
           /\ NeedsScheduler(table'[j]) => NeedsScheduler(table[j])
           /\ NeedsClaim(table'[j]) => NeedsClaim(table[j]),
         faults' = faults + 1, UNCHANGED changes
  PROVE  IInv'
  <1> USE DEF IInv
  <1>0. \A m \in Nodes : node'[m] = IF m = n THEN s ELSE node[m]
    BY DEF TypeOK
  <1>1. TypeOK'
    BY DEF TypeOK
  <1>2. NodesOK'
    BY <1>0 DEF NodesOK
  <1>3. RowsOK'
    BY DEF RowsOK
  <1>4. ClaimsOK'
    BY <1>0 DEF ClaimsOK, ReadyNodeRunsItsClaims, Ready
  <1>5. Exclusive'
    BY DEF Exclusive, TypeOK
  <1>6. SchedulerInv'
    BY <1>0 DEF SchedulerInv, Ready
  <1>7. ClaimInv'
    BY <1>0 DEF ClaimInv, MayClaim, IsEnabled, IsEnabledOrFull, SameRest
  <1> QED
    BY <1>1, <1>2, <1>3, <1>4, <1>5, <1>6, <1>7

\* Losing the connection ends the run and drops timers and notifies.
LEMMA DisconnectedShape ==
  ASSUME NEW s \in CronNode, NodeShape(s)
  PROVE  /\ Disconnected(s) \in CronNode /\ NodeShape(Disconnected(s))
         /\ Disconnected(s).conn = "connecting" /\ Disconnected(s).mode = "idle"
         /\ Disconnected(s).running = s.running
  <1> DEFINE t == Disconnected(s)
  <1>1. NoRows \in [Jobs -> ScheduleRow \cup {NULL}]
    BY DEF NoRows
  <1>2. t \in CronNode
    BY <1>1 DEF CronNode, Disconnected
  <1>3. /\ t.conn = "connecting" /\ t.mode = "idle" /\ t.running = s.running
        /\ t.disabled_full = s.disabled_full
    BY DEF CronNode, Disconnected
  <1> HIDE DEF t
  <1>4. NodeShape(t)
    BY <1>3 DEF NodeShape, Claiming
  <1> QED
    BY <1>2, <1>3, <1>4 DEF t

\* A fault only concerns a node that is no longer connected afterwards.
LEMMA FaultStep ==
  ASSUME IInv, NEW n \in Nodes, OnDisconnect(n) \/ ClaimAnswerLost(n) \/ Crash(n)
  PROVE  IInv'
  <1> USE DEF IInv
  <1>0. /\ node[n] \in CronNode /\ NodeShape(node[n])
        /\ faults' = faults + 1 /\ UNCHANGED changes
    BY DEF TypeOK, NodesOK, OnDisconnect, ClaimAnswerLost, Crash, Fault
  <1>1. /\ Disconnected(node[n]) \in CronNode /\ NodeShape(Disconnected(node[n]))
        /\ Disconnected(node[n]).conn = "connecting" /\ Disconnected(node[n]).mode = "idle"
    BY <1>0, DisconnectedShape
  <1>2. CASE OnDisconnect(n)
    BY <1>0, <1>1, <1>2, LostStep DEF OnDisconnect, TypeOK, RowsOK
  <1>3. CASE ClaimAnswerLost(n)
    <2> DEFINE j == node[n].found
               r == [table[j] EXCEPT !.node_name = n, !.expired = FALSE]
    <2>1. node[n].mode = "job" /\ claim_job_where(table[j]) /\ table' = claim_job(j, n)
      BY <1>3 DEF ClaimAnswerLost
    <2>2. j \in Jobs /\ table[j] \in Row
      BY <1>0, <2>1 DEF NodeShape, TypeOK
    <2>3. table' = [table EXCEPT ![j] = r]
      BY <2>1, <2>2 DEF claim_job, TypeOK
    <2>4. /\ r \in Row /\ RowShape(r) /\ r.node_name = n /\ ~NeedsClaim(r)
          /\ NeedsScheduler(r) => NeedsScheduler(table[j])
      BY <2>1, <2>2, CronAssumption DEF Row, RowShape, RowsOK, claim_job_where, NeedsClaim,
           NeedsScheduler, Free
    <2> HIDE DEF j, r
    <2>5. /\ table' \in [Jobs -> Row]
          /\ \A i \in Jobs : table'[i] = IF i = j THEN r ELSE table[i]
      BY <2>2, <2>3, <2>4 DEF TypeOK
    <2>6. \A i \in Jobs :
            /\ RowShape(table'[i])
            /\ table'[i].node_name \in {table[i].node_name, n}
            /\ NeedsScheduler(table'[i]) => NeedsScheduler(table[i])
            /\ NeedsClaim(table'[i]) => NeedsClaim(table[i])
      BY <2>4, <2>5 DEF RowsOK
    <2>7. node' = [node EXCEPT ![n] = Disconnected(node[n])]
      BY <1>3 DEF ClaimAnswerLost
    <2> QED
      BY <1>0, <1>1, <2>5, <2>6, <2>7, LostStep
  <1>4. CASE Crash(n)
    <2> DEFINE d == Disconnected(node[n])
               s == [d EXCEPT !.conn = "down", !.running = {}, !.disabled_full = FALSE]
    <2>1. node' = [node EXCEPT ![n] = s] /\ table' = table
      BY <1>4 DEF Crash
    <2>2. d \in CronNode /\ d.mode = "idle"
      BY <1>1
    <2> HIDE DEF d
    <2>3. /\ s \in CronNode /\ s.conn = "down" /\ s.running = {} /\ s.disabled_full = FALSE
          /\ s.mode = "idle"
      BY <2>2 DEF CronNode
    <2> HIDE DEF s
    <2>4. NodeShape(s)
      BY <2>3, NothingIsNotFull DEF NodeShape, Claiming
    <2> QED
      BY <1>0, <2>1, <2>3, <2>4, LostStep DEF TypeOK, RowsOK
  <1> QED
    BY <1>2, <1>3, <1>4

\* A claim expires, which none of a running process does without SlowJobs.
LEMMA NodeTimeoutStep ==
  ASSUME IInv, NEW j \in Jobs, NodeTimeoutPasses(j)
  PROVE  IInv'
  <1> USE DEF IInv
  <1> DEFINE r == [table[j] EXCEPT !.expired = TRUE]
  <1>1. table' = [table EXCEPT ![j] = r]
    BY DEF NodeTimeoutPasses, TypeOK
  <1>2. /\ r \in Row /\ RowShape(r) /\ r.node_name = table[j].node_name
        /\ NeedsScheduler(r) => NeedsScheduler(table[j])
        /\ NeedsClaim(r) => NeedsClaim(table[j])
    BY DEF TypeOK, Row, RowsOK, RowShape, NeedsScheduler, NeedsClaim, Free
  <1> HIDE DEF r
  <1>3. \A i \in Jobs : table'[i] = IF i = j THEN r ELSE table[i]
    BY <1>1 DEF TypeOK
  <1>4. UNCHANGED <<node, faults, changes>>
    BY DEF NodeTimeoutPasses
  <1>5. TypeOK' /\ NodesOK' /\ RowsOK'
    BY <1>1, <1>2, <1>3, <1>4 DEF TypeOK, NodesOK, RowsOK
  <1>6. ClaimsOK'
    BY <1>2, <1>3, <1>4 DEF ClaimsOK, ReadyNodeRunsItsClaims, Ready
  <1>7. Exclusive'
    <2> SUFFICES ASSUME ~SlowJobs, faults = 0
                 PROVE  Exclusive'
      BY <1>4 DEF Exclusive
    <2>1. ASSUME NEW m \in Nodes, NEW p \in Process, p \in node[m].running
          PROVE  p[1] # j
      <3> SUFFICES ASSUME p[1] = j
                   PROVE  FALSE
        OBVIOUS
      <3>1. PICK k \in 1..MaxOperators : p = <<j, k>>
        BY DEF Process
      <3>2. table[j].node_name = m
        BY <2>1 DEF Exclusive
      <3> QED
        BY <2>1, <3>1, <3>2 DEF NodeTimeoutPasses
    <2>2. \A p \in Process : p[1] \in Jobs
      BY DEF Process
    <2> QED
      BY <1>3, <1>4, <2>1, <2>2 DEF Exclusive
  <1>8. SchedulerInv' /\ ClaimInv'
    BY <1>2, <1>3, <1>4 DEF SchedulerInv, ClaimInv, Ready
  <1> QED
    BY <1>5, <1>6, <1>7, <1>8

\* A released row needs the scheduler, and says so.
LEMMA ReleasedRow ==
  ASSUME NEW r \in Row, RowShape(r)
  PROVE  /\ release(r) \in Row /\ RowShape(release(r))
         /\ release(r).node_name = NULL /\ ~NeedsClaim(release(r))
         /\ NeedsScheduler(release(r)) =>
              NeedsScheduler(r) \/ "cronjobs_modified" \in Rules(r, release(r), FALSE)
  BY DEF Row, RowShape, release, NeedsClaim, NeedsScheduler, Rules, Free

\* A node takes claims away, which no process needs any more.
LEMMA ReleaseStep ==
  ASSUME IInv, NEW n \in Nodes, NEW s \in CronNode, NodeShape(s), s.conn = "ready",
         NEW taken \in SUBSET Jobs,
         table' = [j \in Jobs |-> IF j \in taken THEN release(table[j]) ELSE table[j]],
         node' = Notified([node EXCEPT ![n] = s], table', {}),
         UNCHANGED <<faults, changes>>,
         s.running = node[n].running, s.orphaned = node[n].orphaned, SchedulerAwake(s),
         MayClaim(s) /\ (MayClaim(node[n]) => ClaimAwake(node[n])) => ClaimAwake(s),
         ~Ready(n) => \A j \in Jobs : table[j].node_name = n => j \in taken,
         ~SlowJobs /\ faults = 0 =>
           \A m \in Nodes, p \in Process : p \in node[m].running => p[1] \notin taken
  PROVE  IInv'
  <1> USE DEF IInv
  <1> DEFINE mid == [node EXCEPT ![n] = s]
  <1>1. mid \in [Nodes -> CronNode] /\ \A m \in Nodes : mid[m] = IF m = n THEN s ELSE node[m]
    BY DEF TypeOK
  <1> HIDE DEF mid
  <1>2. /\ node' \in [Nodes -> CronNode]
        /\ \A m \in Nodes :
              /\ SameNode(mid[m], node'[m])
              /\ mid[m].notifies \subseteq node'[m].notifies
              /\ mid[m].conn = "ready" =>
                   \A j \in Jobs : Rules(table[j], table'[j], j \in {}) \subseteq node'[m].notifies
    BY <1>1, NotifiedKeeps DEF mid
  <1>3. \A j \in Jobs : /\ table[j] \in Row /\ RowShape(table[j])
                        /\ table'[j] = IF j \in taken THEN release(table[j]) ELSE table[j]
    BY DEF TypeOK, RowsOK
  <1>4. TypeOK'
    <2>1. table' \in [Jobs -> Row]
      BY <1>3, ReleasedRow
    <2> QED
      BY <1>2, <2>1 DEF TypeOK
  <1>5. NodesOK'
    <2> SUFFICES ASSUME NEW m \in Nodes
                 PROVE  NodeShape(node'[m])
      BY DEF NodesOK
    <2>1. NodeShape(mid[m]) /\ SameNode(mid[m], node'[m])
      BY <1>1, <1>2 DEF NodesOK
    <2> QED
      BY <2>1, SameNodeShape
  <1>6. RowsOK'
    BY <1>3, ReleasedRow DEF RowsOK
  <1>7. \A m \in Nodes : /\ node'[m].running = node[m].running
                         /\ node'[m].orphaned = node[m].orphaned
    <2>1. \A m \in Nodes : /\ node'[m].running = mid[m].running
                           /\ node'[m].orphaned = mid[m].orphaned
      BY <1>2 DEF SameNode, SameRest
    <2> QED
      BY <1>1, <2>1
  <1>8. \A m \in Nodes : m # n => (node'[m].conn = node[m].conn)
    BY <1>1, <1>2 DEF SameNode, SameRest
  <1>9. \A j \in Jobs : j \in taken => table'[j].node_name = NULL
    BY <1>3, ReleasedRow
  <1>10. ClaimsOK'
    <2>1. ASSUME NEW j \in Jobs, NEW m \in Nodes, node'[m].conn = "ready",
                 table'[j].node_name = m, j \notin node'[m].orphaned
          PROVE  \E p \in node'[m].running : p[1] = j
      <3>1. j \notin taken
        BY <1>9, <2>1, CronAssumption
      <3>2. table[j].node_name = m
        BY <1>3, <2>1, <3>1
      <3>3. Ready(m)
        BY <1>8, <2>1, <3>1, <3>2 DEF Ready
      <3> QED
        BY <1>7, <2>1, <3>2, <3>3 DEF ClaimsOK, ReadyNodeRunsItsClaims
    <2> QED
      BY <2>1 DEF ClaimsOK, ReadyNodeRunsItsClaims, Ready
  <1>11. Exclusive'
    <2> SUFFICES ASSUME ~SlowJobs, faults = 0
                 PROVE  Exclusive'
      BY DEF Exclusive
    <2>1. \A p \in Process : p[1] \in Jobs
      BY DEF Process
    <2>2. \A m \in Nodes : node'[m].conn # "ready" => node'[m].running = {}
      <3>1. node'[n].conn = mid[n].conn /\ mid[n].conn = "ready"
        BY <1>1, <1>2 DEF SameNode
      <3>2. \A m \in Nodes : node[m].conn # "ready" => node[m].running = {}
        BY DEF Exclusive
      <3> QED
        BY <1>7, <1>8, <3>1, <3>2
    <2>3. \A m \in Nodes, p \in Process : p \in node'[m].running =>
            /\ table'[p[1]].node_name = m /\ ~table'[p[1]].expired
            /\ \A q \in node'[m].running : q[1] = p[1] => q = p
      <3> SUFFICES ASSUME NEW m \in Nodes, NEW p \in Process, p \in node'[m].running
                   PROVE  /\ table'[p[1]].node_name = m /\ ~table'[p[1]].expired
                          /\ \A q \in node'[m].running : q[1] = p[1] => q = p
        OBVIOUS
      <3>0. p \in node[m].running
        BY <1>7
      <3>1. p[1] \notin taken
        BY <3>0
      <3>2. table'[p[1]] = table[p[1]] /\ node'[m].running = node[m].running
        BY <1>3, <1>7, <2>1, <3>1
      <3>3. /\ table[p[1]].node_name = m /\ ~table[p[1]].expired
            /\ \A q \in node[m].running : q[1] = p[1] => q = p
        BY <3>0 DEF Exclusive
      <3> QED
        BY <3>2, <3>3
    <2> QED
      BY <2>2, <2>3 DEF Exclusive
  <1>12. SchedulerInv'
    <2> SUFFICES ASSUME NEW j \in Jobs, NEW m \in Nodes,
                        NeedsScheduler(table'[j]), node'[m].conn = "ready"
                 PROVE  SchedulerAwake(node'[m])
      BY DEF SchedulerInv, Ready
    <2>1. SchedulerAwake(mid[m]) => SchedulerAwake(node'[m])
      BY <1>2 DEF SchedulerAwake, SameNode, SameRest
    <2>2. CASE m = n
      BY <1>1, <2>1, <2>2
    <2>3. CASE m # n /\ NeedsScheduler(table[j])
      BY <1>1, <1>8, <2>1, <2>3 DEF SchedulerInv, Ready
    <2>4. CASE m # n /\ ~NeedsScheduler(table[j])
      <3>1. "cronjobs_modified" \in Rules(table[j], table'[j], FALSE)
        BY <1>3, <2>4, ReleasedRow
      <3>2. (j \in {}) = FALSE
        OBVIOUS
      <3>3. mid[m].conn = "ready"
        BY <1>2 DEF SameNode, SameRest
      <3> QED
        BY <1>2, <3>1, <3>2, <3>3 DEF SchedulerAwake, SameRest
    <2> QED
      BY <2>2, <2>3, <2>4
  <1>13. ClaimInv'
    <2> SUFFICES ASSUME NEW j \in Jobs, NEW m \in Nodes,
                        NeedsClaim(table'[j]), MayClaim(node'[m])
                 PROVE  ClaimAwake(node'[m])
      BY DEF ClaimInv
    <2>1. NeedsClaim(table[j])
      BY <1>3, ReleasedRow
    <2>2. /\ ClaimAwake(mid[m]) => ClaimAwake(node'[m])
          /\ MayClaim(mid[m])
      BY <1>2 DEF ClaimAwake, SameNode, MayClaim, SameRest, IsEnabled, IsEnabledOrFull
    <2> QED
      BY <1>1, <2>1, <2>2 DEF ClaimInv
  <1> QED
    BY <1>4, <1>5, <1>6, <1>10, <1>11, <1>12, <1>13

\* The scheduler begins by releasing claims that are stale or have expired.
LEMMA RunSchedulerStep ==
  ASSUME IInv, NEW n \in Nodes, NEW expire \in BOOLEAN, RunScheduler(n, expire)
  PROVE  IInv'
  <1> DEFINE taken == {j \in Jobs : expire /\ expire_jobs_where(table[j], n)}
             s == [node[n] EXCEPT !.scheduler_timer = FALSE, !.mode = "scheduler",
                                  !.failed = @ \ {"scheduler"}]
  <1>0. /\ node[n] \in CronNode /\ NodeShape(node[n])
        /\ Ready(n) /\ node[n].mode = "idle" /\ UNCHANGED <<faults, changes>>
    BY DEF IInv, TypeOK, NodesOK, RunScheduler
  <1>1. [node EXCEPT ![n].scheduler_timer = FALSE, ![n].mode = "scheduler",
                     ![n].failed = @ \ {"scheduler"}]
          = [node EXCEPT ![n] = s]
    BY DEF IInv, TypeOK
  <1>2. /\ s \in CronNode /\ s.mode = "scheduler" /\ s.claim_timer = node[n].claim_timer
        /\ s.notifies = node[n].notifies /\ s.conn = node[n].conn
        /\ s.enabled_state = node[n].enabled_state /\ s.enabled_admin = node[n].enabled_admin
        /\ s.failed = node[n].failed \ {"scheduler"} /\ s.orphaned = node[n].orphaned
        /\ s.running = node[n].running /\ s.disabled_full = node[n].disabled_full
    BY <1>0 DEF CronNode
  <1>3. ~SlowJobs /\ faults = 0 =>
          \A m \in Nodes, p \in Process : p \in node[m].running => p[1] \notin taken
    BY DEF IInv, Exclusive, expire_jobs_where, Process
  <1>4. /\ table' = [j \in Jobs |-> IF j \in taken THEN release(table[j]) ELSE table[j]]
        /\ node' = Notified([node EXCEPT ![n] = s], table', {})
        /\ taken \in SUBSET Jobs
    BY <1>1 DEF RunScheduler
  <1> HIDE DEF s, taken
  <1>5. NodeShape(s) /\ s.conn = "ready"
    BY <1>0, <1>2 DEF NodeShape, Claiming, Ready
  <1>6. SchedulerAwake(s)
    BY <1>2 DEF SchedulerAwake, SameRest
  <1>7. MayClaim(s) /\ (MayClaim(node[n]) => ClaimAwake(node[n])) => ClaimAwake(s)
    BY <1>0, <1>2 DEF MayClaim, ClaimAwake, Claiming, IsEnabled, IsEnabledOrFull, SameRest
  <1> QED
    BY <1>0, <1>2, <1>3, <1>4, <1>5, <1>6, <1>7, ReleaseStep

\* A node that connects releases its claims, and starts with both timers.
LEMMA OnConnectStep ==
  ASSUME IInv, NEW n \in Nodes, OnConnect(n)
  PROVE  IInv'
  <1> DEFINE taken == {j \in Jobs : release_stale_where(table[j], n)}
             s == [node[n] EXCEPT !.conn = "ready", !.scheduler_timer = TRUE,
                                  !.claim_timer = TRUE]
  <1>0. /\ node[n] \in CronNode /\ NodeShape(node[n])
        /\ node[n].conn = "connecting" /\ UNCHANGED <<faults, changes>>
    BY DEF IInv, TypeOK, NodesOK, OnConnect
  <1>1. [node EXCEPT ![n].conn = "ready", ![n].scheduler_timer = TRUE, ![n].claim_timer = TRUE]
          = [node EXCEPT ![n] = s]
    BY DEF IInv, TypeOK
  <1>2. /\ s \in CronNode /\ s.mode = node[n].mode /\ s.claim_timer /\ s.scheduler_timer
        /\ s.conn = "ready" /\ s.found = node[n].found /\ s.orphaned = node[n].orphaned
        /\ s.running = node[n].running /\ s.disabled_full = node[n].disabled_full
    BY <1>0 DEF CronNode
  <1>3. ~SlowJobs /\ faults = 0 =>
          \A m \in Nodes, p \in Process : p \in node[m].running => p[1] \notin taken
    BY <1>0 DEF IInv, Exclusive, release_stale_where, Process
  <1>4. /\ table' = [j \in Jobs |-> IF j \in taken THEN release(table[j]) ELSE table[j]]
        /\ node' = Notified([node EXCEPT ![n] = s], table', {})
        /\ taken \in SUBSET Jobs
        /\ \A j \in Jobs : table[j].node_name = n => j \in taken
    BY <1>1 DEF OnConnect, release_stale_where
  <1> HIDE DEF s, taken
  <1>5. NodeShape(s)
    BY <1>0, <1>2 DEF NodeShape, Claiming
  <1>6. SchedulerAwake(s) /\ ClaimAwake(s)
    BY <1>2 DEF SchedulerAwake, ClaimAwake, SameRest
  <1> QED
    BY <1>0, <1>2, <1>3, <1>4, <1>5, <1>6, ReleaseStep

\* The workplace after a process was added or removed.
LEMMA ProcessAdded ==
  ASSUME NEW S, IsFiniteSet(S), NEW p
  PROVE  IsFiniteSet(S \cup {p})
  BY FS_AddElement

\* A workplace is not filled by the end of a process.
LEMMA ProcessRemoved ==
  ASSUME NEW S, IsFiniteSet(S), NEW p
  PROVE  IsFiniteSet(S \ {p}) /\ (IsFull(S \ {p}) => IsFull(S))
  <1>1. /\ IsFiniteSet(S \ {p}) /\ Cardinality(S) \in Nat
        /\ Cardinality(S \ {p}) = IF p \in S THEN Cardinality(S) - 1 ELSE Cardinality(S)
    BY FS_RemoveElement, FS_CardinalityType
  <1> QED
    BY <1>1, CronAssumption DEF IsFull

\* A job is claimed and its process started.
LEMMA ClaimTaken ==
  ASSUME IInv, NEW n \in Nodes, Claim(n)
  PROVE  IInv'
  <1> USE DEF IInv
  <1> DEFINE j == node[n].found
             p == NewProcess(n, j)
             full == IsFull(node[n].running \cup {p})
             run == node[n].running \cup {p}
             r == [table[j] EXCEPT !.node_name = n, !.expired = FALSE]
             s == [node[n] EXCEPT !.running = run, !.found = NULL, !.orphaned = @ \ {j},
                                  !.disabled_full = @ \/ full, !.claim_timer = full,
                                  !.mode = IF full THEN "idle" ELSE "claim"]
  <1>0. /\ node[n] \in CronNode /\ NodeShape(node[n])
        /\ node[n].mode = "job" /\ UNCHANGED <<faults, changes>>
        /\ claim_job_where(table[j])
    BY DEF TypeOK, NodesOK, Claim
  <1>1. j \in Jobs /\ node[n].conn = "ready" /\ ~node[n].disabled_full /\ table[j] \in Row
    BY <1>0 DEF NodeShape, Claiming, TypeOK
  <1>2. p \in Process /\ p \notin node[n].running /\ p[1] = j
    BY <1>0, <1>1, NewProcessExists
  <1>3. /\ table' = [table EXCEPT ![j] = r]
        /\ node' = [node EXCEPT ![n] = s]
    <2>1. table' = [table EXCEPT ![j].node_name = n, ![j].expired = FALSE]
      BY DEF Claim, claim_job
    <2>3. node' = [node EXCEPT ![n].running = @ \cup {p}, ![n].found = NULL,
                             ![n].orphaned = @ \ {j},
                             ![n].disabled_full = @ \/ full,
                             ![n].claim_timer = full,
                             ![n].mode = IF full THEN "idle" ELSE "claim"]
      BY DEF Claim
    <2> HIDE DEF j, p, full
    <2> QED
      BY <2>1, <2>3, <1>1, <1>0 DEF TypeOK
  <1>4. full \in BOOLEAN /\ (full <=> IsFull(run)) /\ run \in SUBSET Process /\ IsFiniteSet(run)
    <2>1. IsFiniteSet(node[n].running) /\ node[n].running \in SUBSET Process
      BY <1>0 DEF NodeShape, CronNode
    <2> HIDE DEF p
    <2>2. IsFiniteSet(run)
      BY <2>1, ProcessAdded
    <2>3. full \in BOOLEAN
      BY DEF IsFull
    <2>4. run \in SUBSET Process
      BY <1>2, <2>1
    <2> QED
      BY <2>2, <2>3, <2>4
  <1>5. /\ r \in Row /\ RowShape(r) /\ r.node_name = n /\ ~NeedsClaim(r) /\ ~r.expired
        /\ NeedsScheduler(r) => NeedsScheduler(table[j])
    <2> HIDE DEF j
    <2> QED
      BY <1>0, <1>1, CronAssumption DEF Row, RowShape, RowsOK, claim_job_where, NeedsClaim,
         NeedsScheduler, Free
  <1> HIDE DEF j, p, full, r, run
  <1>6. /\ s \in CronNode /\ s.running = run /\ s.disabled_full = full /\ s.claim_timer = full
        /\ s.mode = (IF full THEN "idle" ELSE "claim") /\ s.conn = "ready"
        /\ s.scheduler_timer = node[n].scheduler_timer /\ s.notifies = node[n].notifies
        /\ s.failed = node[n].failed /\ s.orphaned = node[n].orphaned \ {j}
    BY <1>0, <1>1, <1>4 DEF CronNode
  <1> HIDE DEF s
  <1>7. /\ NodeShape(s) /\ (SchedulerAwake(node[n]) => SchedulerAwake(s))
        /\ ClaimAwake(s)
    BY <1>0, <1>4, <1>6 DEF NodeShape, Claiming, SchedulerAwake, ClaimAwake, SameRest
  <1>8. /\ \A m \in Nodes : node'[m] = IF m = n THEN s ELSE node[m]
        /\ \A i \in Jobs : table'[i] = IF i = j THEN r ELSE table[i]
    BY <1>1, <1>3 DEF TypeOK
  <1>9. TypeOK'
    <2>1. table' \in [Jobs -> Row] /\ node' \in [Nodes -> CronNode]
      BY <1>1, <1>3, <1>5, <1>6 DEF TypeOK
    <2> QED
      BY <1>0, <2>1 DEF TypeOK
  <1>10. NodesOK' /\ RowsOK'
    BY <1>5, <1>7, <1>8 DEF NodesOK, RowsOK
  <1>11. ClaimsOK'
    <2>1. ASSUME NEW i \in Jobs, NEW m \in Nodes, node'[m].conn = "ready",
                 table'[i].node_name = m, i \notin node'[m].orphaned
          PROVE  \E q \in node'[m].running : q[1] = i
      <3>1. CASE i = j
        <4>1. m = n /\ p \in node'[m].running
          BY <1>5, <1>6, <1>8, <2>1, <3>1 DEF run
        <4> QED
          BY <1>2, <3>1, <4>1
      <3>2. CASE i # j
        <4>1. table[i].node_name = m /\ i \notin node[m].orphaned
          BY <1>6, <1>8, <2>1, <3>2
        <4>2. node[m].conn = "ready" /\ node[m].running \subseteq node'[m].running
          BY <1>1, <1>6, <1>8, <2>1 DEF run
        <4>3. \E q \in node[m].running : q[1] = i
          BY <4>1, <4>2 DEF ClaimsOK, ReadyNodeRunsItsClaims, Ready
        <4> QED
          BY <4>2, <4>3
      <3> QED
        BY <3>1, <3>2
    <2> QED
      BY <2>1 DEF ClaimsOK, ReadyNodeRunsItsClaims, Ready
  <1>12. Exclusive'
    <2> SUFFICES ASSUME ~SlowJobs, faults = 0
                 PROVE  Exclusive'
      BY <1>0 DEF Exclusive
    <2>1. \A m \in Nodes : node'[m].conn # "ready" => node'[m].running = {}
      BY <1>6, <1>8 DEF Exclusive
    <2>2. ASSUME NEW m \in Nodes, NEW q \in Process, q \in node[m].running
          PROVE  q[1] # j
      BY <1>0, <2>2, CronAssumption DEF Exclusive, claim_job_where, Free
    <2>3. \A m \in Nodes : node[m].running \subseteq Process
      BY DEF TypeOK, CronNode
    <2>4. ASSUME NEW m \in Nodes, NEW q \in Process, q \in node'[m].running
          PROVE  /\ table'[q[1]].node_name = m /\ ~table'[q[1]].expired
                 /\ \A o \in node'[m].running : o[1] = q[1] => o = q
      <3>1. q[1] \in Jobs
        BY DEF Process
      <3>2. CASE q \in node[m].running
        <4>1. /\ table[q[1]].node_name = m /\ ~table[q[1]].expired
              /\ \A o \in node[m].running : o[1] = q[1] => o = q
          BY <3>2 DEF Exclusive
        <4>2. q[1] # j
          BY <2>2, <3>2
        <4> QED
          BY <1>2, <1>6, <1>8, <3>1, <4>1, <4>2 DEF run
      <3>3. CASE q \notin node[m].running
        <4>1. m = n /\ q = p
          BY <1>6, <1>8, <2>4, <3>3 DEF run
        <4>2. \A o \in node'[m].running : o = p \/ o \in node[m].running
          BY <1>6, <1>8, <4>1 DEF run
        <4> QED
          BY <1>1, <1>2, <1>5, <1>8, <2>2, <2>3, <4>1, <4>2
      <3> QED
        BY <3>2, <3>3
    <2> QED
      BY <2>1, <2>4 DEF Exclusive
  <1>13. SchedulerInv'
    BY <1>1, <1>5, <1>7, <1>8 DEF SchedulerInv, Ready
  <1>14. ClaimInv'
    BY <1>5, <1>7, <1>8 DEF ClaimInv
  <1> QED
    BY <1>9, <1>10, <1>11, <1>12, <1>13, <1>14

\* The job is claimed, but GetNow fails: nobody works on it.
LEMMA StartFailsStep ==
  ASSUME IInv, NEW n \in Nodes, StartFails(n)
  PROVE  IInv'
  <1> USE DEF IInv
  <1>0. /\ node[n] \in CronNode /\ NodeShape(node[n]) /\ node[n].mode = "job"
        /\ faults' = faults + 1 /\ changes' = changes
    BY DEF TypeOK, NodesOK, StartFails, Fault
  <1>1. PICK j \in Jobs : j = node[n].found /\ table[j] \in Row /\ claim_job_where(table[j])
    BY <1>0 DEF StartFails, NodeShape, TypeOK
  <1> DEFINE r == [table[j] EXCEPT !.node_name = n, !.expired = FALSE]
             s == [node[n] EXCEPT !.mode = "claim", !.found = NULL, !.orphaned = @ \cup {j}]
  <1>2. table' = [table EXCEPT ![j] = r] /\ node' = [node EXCEPT ![n] = s]
    BY <1>1 DEF StartFails, claim_job, TypeOK
  <1>3. /\ r \in Row /\ RowShape(r) /\ r.node_name = n /\ ~NeedsClaim(r)
        /\ NeedsScheduler(r) => NeedsScheduler(table[j])
    BY <1>1, CronAssumption DEF Row, RowShape, RowsOK, claim_job_where, NeedsClaim,
       NeedsScheduler, Free
  <1>4. /\ s \in CronNode /\ s.mode = "claim" /\ s.orphaned = node[n].orphaned \cup {j}
        /\ s.conn = node[n].conn /\ s.running = node[n].running /\ s.failed = node[n].failed
        /\ s.scheduler_timer = node[n].scheduler_timer /\ s.notifies = node[n].notifies
        /\ s.disabled_full = node[n].disabled_full
    BY <1>0, <1>1 DEF CronNode
  <1> HIDE DEF r, s
  <1>5. /\ NodeShape(s) /\ (SchedulerAwake(node[n]) => SchedulerAwake(s)) /\ ClaimAwake(s)
    BY <1>0, <1>4 DEF NodeShape, Claiming, SchedulerAwake, ClaimAwake, SameRest
  <1>6. /\ \A m \in Nodes : node'[m] = IF m = n THEN s ELSE node[m]
        /\ \A i \in Jobs : table'[i] = IF i = j THEN r ELSE table[i]
    BY <1>1, <1>2 DEF TypeOK
  <1>7. TypeOK'
    BY <1>0, <1>1, <1>2, <1>3, <1>4 DEF TypeOK
  <1>8. NodesOK' /\ RowsOK'
    BY <1>3, <1>5, <1>6 DEF NodesOK, RowsOK
  <1>9. ClaimsOK'
    BY <1>3, <1>4, <1>6 DEF ClaimsOK, ReadyNodeRunsItsClaims, Ready
  <1>10. Exclusive'
    BY <1>0 DEF Exclusive, TypeOK
  <1>11. SchedulerInv'
    BY <1>3, <1>4, <1>5, <1>6 DEF SchedulerInv, Ready
  <1>12. ClaimInv'
    BY <1>3, <1>5, <1>6 DEF ClaimInv
  <1> QED
    BY <1>7, <1>8, <1>9, <1>10, <1>11, <1>12

\* A workplace that was full looks for work when a process ends.
LEMMA WorkplaceAfter ==
  ASSUME NEW s \in CronNode, NodeShape(s), NEW p \in s.running, s.mode = "idle"
  PROVE  LET t == ProcessGone(s, p)
         IN /\ t \in CronNode /\ NodeShape(t) /\ t.running = s.running \ {p}
            /\ t.conn = "ready" <=> s.conn = "ready"
            /\ t.orphaned = s.orphaned
            /\ SchedulerAwake(s) => SchedulerAwake(t)
            /\ MayClaim(t) /\ (MayClaim(s) => ClaimAwake(s)) => ClaimAwake(t)
  <1> DEFINE t == ProcessGone(s, p)
             run == s.running \ {p}
             u == [s EXCEPT !.running = run]
             w == [u EXCEPT !.disabled_full = FALSE]
  <1>1. /\ run \in SUBSET Process /\ IsFiniteSet(run)
        /\ IsFull(run) => IsFull(s.running)
        /\ s.disabled_full <=> IsFull(s.running)
    BY ProcessRemoved DEF NodeShape, CronNode
  <1>2. t = IF s.disabled_full /\ ~IsFull(u.running) THEN CheckEnabled(w) ELSE u
    BY DEF ProcessGone
  <1> HIDE DEF run, t
  <1>3. /\ u \in CronNode /\ u.running = run /\ u.disabled_full = s.disabled_full
        /\ u.conn = s.conn /\ u.mode = "idle" /\ u.scheduler_timer = s.scheduler_timer
        /\ u.claim_timer = s.claim_timer /\ u.notifies = s.notifies /\ SameRest(s, u)
    BY <1>1 DEF CronNode, SameRest
  <1> HIDE DEF u
  <1>4. /\ w \in CronNode /\ w.running = run /\ w.disabled_full = FALSE
        /\ w.conn = s.conn /\ w.mode = "idle" /\ w.scheduler_timer = s.scheduler_timer
        /\ w.claim_timer = s.claim_timer /\ w.notifies = s.notifies /\ SameRest(s, w)
    BY <1>3 DEF CronNode, SameRest
  <1> HIDE DEF w
  <1>5. CASE s.disabled_full /\ ~IsFull(run)
    <2>1. t = CheckEnabled(w)
      BY <1>2, <1>3, <1>5
    <2>2. /\ t \in CronNode /\ t.running = run /\ t.disabled_full = FALSE
          /\ t.conn = "ready" <=> s.conn = "ready"
          /\ t.mode = "idle" /\ t.scheduler_timer = s.scheduler_timer
          /\ t.notifies = s.notifies /\ t.failed = s.failed /\ t.orphaned = s.orphaned
          /\ MayClaim(t) => t.claim_timer
      BY <1>4, <2>1, CheckEnabledKeeps DEF SameRest
    <2>3. NodeShape(t)
      BY <1>1, <1>5, <2>2 DEF NodeShape, Claiming
    <2> QED
      BY <2>2, <2>3 DEF SchedulerAwake, ClaimAwake, t, run, SameRest
  <1>6. CASE ~(s.disabled_full /\ ~IsFull(run))
    <2>1. t = u
      BY <1>2, <1>3, <1>6
    <2>2. NodeShape(t)
      BY <1>1, <1>3, <1>6, <2>1 DEF NodeShape, Claiming
    <2>3. /\ SchedulerAwake(s) => SchedulerAwake(t)
          /\ MayClaim(t) => MayClaim(s)
          /\ ClaimAwake(s) => ClaimAwake(t)
      BY <1>3, <2>1 DEF SchedulerAwake, ClaimAwake, Claiming, MayClaim, IsEnabled,
         IsEnabledOrFull, SameRest
    <2> QED
      BY <1>3, <2>1, <2>2, <2>3 DEF SameRest, t, run
  <1> QED
    BY <1>5, <1>6

\* The nodes when p has ended on n, before its result is stored.
WithoutProcess(n, p) == [node EXCEPT ![n] = ProcessGone(@, p)]

\* The end of a process concerns its own node.
LEMMA WithoutProcessNodes ==
  ASSUME IInv, NEW n \in Nodes, NEW p \in node[n].running, node[n].mode = "idle"
  PROVE  LET next == WithoutProcess(n, p)
         IN /\ next \in [Nodes -> CronNode]
            /\ \A m \in Nodes : m # n => next[m] = node[m]
            /\ NodeShape(next[n]) /\ next[n].running = node[n].running \ {p}
            /\ next[n].conn = "ready" <=> node[n].conn = "ready"
            /\ next[n].orphaned = node[n].orphaned
            /\ SchedulerAwake(node[n]) => SchedulerAwake(next[n])
            /\ MayClaim(next[n]) /\ (MayClaim(node[n]) => ClaimAwake(node[n])) =>
                 ClaimAwake(next[n])
  <1> DEFINE next == WithoutProcess(n, p)
             s == ProcessGone(node[n], p)
  <1>1. node[n] \in CronNode /\ NodeShape(node[n])
    BY DEF IInv, TypeOK, NodesOK
  <1>2. /\ s \in CronNode /\ NodeShape(s) /\ s.running = node[n].running \ {p}
        /\ s.conn = "ready" <=> node[n].conn = "ready"
        /\ s.orphaned = node[n].orphaned
        /\ SchedulerAwake(node[n]) => SchedulerAwake(s)
        /\ MayClaim(s) /\ (MayClaim(node[n]) => ClaimAwake(node[n])) => ClaimAwake(s)
    BY <1>1, WorkplaceAfter
  <1>3. next = [node EXCEPT ![n] = s]
    BY DEF WithoutProcess, IInv, TypeOK
  <1> HIDE DEF next, s
  <1>4. next \in [Nodes -> CronNode] /\ \A m \in Nodes : next[m] = IF m = n THEN s ELSE node[m]
    BY <1>2, <1>3 DEF IInv, TypeOK
  <1> QED
    BY <1>2, <1>4 DEF next

\* Without the claim, or if its result cannot be stored, nothing but the process is gone.
LEMMA CompletionLost ==
  ASSUME IInv, NEW n \in Nodes, NEW p \in Process, p \in node[n].running,
         node[n].mode = "idle", table' = table, changes' = changes,
         \/ ~Ready(n) \/ ~finish_job_where(table[p[1]], n)
         \/ p[1] \in node'[n].orphaned,
         \/ node' = WithoutProcess(n, p) /\ faults' = faults
            /\ (~Ready(n) \/ ~finish_job_where(table[p[1]], n))
         \/ node' = [WithoutProcess(n, p) EXCEPT ![n].orphaned = @ \cup {p[1]}]
            /\ faults' = faults + 1
  PROVE  IInv'
  <1> USE DEF IInv
  <1> DEFINE next == WithoutProcess(n, p)
  <1>0. /\ next \in [Nodes -> CronNode]
        /\ \A m \in Nodes : m # n => next[m] = node[m]
        /\ NodeShape(next[n]) /\ next[n].running = node[n].running \ {p}
        /\ next[n].conn = "ready" <=> node[n].conn = "ready"
        /\ next[n].orphaned = node[n].orphaned
        /\ SchedulerAwake(node[n]) => SchedulerAwake(next[n])
        /\ MayClaim(next[n]) /\ (MayClaim(node[n]) => ClaimAwake(node[n])) =>
             ClaimAwake(next[n])
    BY WithoutProcessNodes
  <1>1. /\ node' \in [Nodes -> CronNode]
        /\ \A m \in Nodes : m # n => node'[m] = node[m]
        /\ NodeShape(node'[n]) /\ node'[n].running = node[n].running \ {p}
        /\ node'[n].conn = "ready" <=> node[n].conn = "ready"
        /\ node[n].orphaned \subseteq node'[n].orphaned
        /\ SchedulerAwake(node[n]) => SchedulerAwake(node'[n])
        /\ MayClaim(node'[n]) /\ (MayClaim(node[n]) => ClaimAwake(node[n])) =>
             ClaimAwake(node'[n])
    <2> HIDE DEF next
    <2>1. CASE node' = next
      BY <1>0, <2>1
    <2>2. CASE node' = [next EXCEPT ![n].orphaned = @ \cup {p[1]}]
      <3> DEFINE s == [next[n] EXCEPT !.orphaned = @ \cup {p[1]}]
      <3>1. p[1] \in Jobs /\ node' = [next EXCEPT ![n] = s]
        BY <1>0, <2>2 DEF Process
      <3>5. next[n] \in CronNode /\ next[n].orphaned \cup {p[1]} \in SUBSET Jobs
        BY <1>0, <3>1 DEF CronNode
      <3>2. /\ s \in CronNode /\ s.orphaned = next[n].orphaned \cup {p[1]}
            /\ s.running = next[n].running /\ s.conn = next[n].conn /\ s.mode = next[n].mode
            /\ s.disabled_full = next[n].disabled_full /\ s.found = next[n].found
            /\ s.scheduler_timer = next[n].scheduler_timer /\ s.notifies = next[n].notifies
            /\ s.claim_timer = next[n].claim_timer /\ s.failed = next[n].failed
            /\ s.enabled_state = next[n].enabled_state
            /\ s.enabled_admin = next[n].enabled_admin
        BY <3>5 DEF CronNode
      <3> HIDE DEF s
      <3>3. /\ NodeShape(s) /\ (SchedulerAwake(next[n]) => SchedulerAwake(s))
            /\ MayClaim(s) => MayClaim(next[n])
            /\ ClaimAwake(next[n]) => ClaimAwake(s)
        BY <1>0, <3>2 DEF NodeShape, SchedulerAwake, ClaimAwake, MayClaim, IsEnabled,
           IsEnabledOrFull, SameRest
      <3>4. /\ node' \in [Nodes -> CronNode] /\ node'[n] = s
            /\ \A m \in Nodes : m # n => node'[m] = next[m]
        BY <1>0, <3>1, <3>2
      <3> QED
        BY <1>0, <3>2, <3>3, <3>4
    <2> QED
      BY <2>1, <2>2 DEF next
  <1> HIDE DEF next
  <1>2. TypeOK' /\ RowsOK'
    BY <1>1 DEF TypeOK, RowsOK
  <1>3. NodesOK'
    BY <1>1 DEF NodesOK
  <1>4. ClaimsOK'
    <2>1. ASSUME NEW j \in Jobs, NEW m \in Nodes, node'[m].conn = "ready",
                 table[j].node_name = m, j \notin node'[m].orphaned
          PROVE  \E q \in node'[m].running : q[1] = j
      <3>1. Ready(m) /\ j \notin node[m].orphaned
        BY <1>1, <2>1 DEF Ready
      <3>2. PICK q \in node[m].running : q[1] = j
        BY <2>1, <3>1 DEF ClaimsOK, ReadyNodeRunsItsClaims
      <3>3. m = n => q # p
        BY <2>1, <3>1, <3>2 DEF finish_job_where
      <3> QED
        BY <1>1, <3>2, <3>3
    <2> QED
      BY <2>1 DEF ClaimsOK, ReadyNodeRunsItsClaims, Ready
  <1>5. Exclusive'
    <2> SUFFICES ASSUME ~SlowJobs, faults' = 0
                 PROVE  FALSE
      BY DEF Exclusive
    <2>1. faults = 0 /\ (~Ready(n) \/ ~finish_job_where(table[p[1]], n))
      BY DEF TypeOK
    <2> QED
      BY <2>1 DEF Exclusive, finish_job_where, Ready
  <1>6. SchedulerInv'
    BY <1>1 DEF SchedulerInv, Ready
  <1>7. ClaimInv'
    BY <1>1 DEF ClaimInv
  <1> QED
    BY <1>2, <1>3, <1>4, <1>5, <1>6, <1>7

\* The result is stored and the claim is released with the process.
LEMMA CompletionStored ==
  ASSUME IInv, NEW n \in Nodes, NEW p \in Process, p \in node[n].running,
         node[n].mode = "idle", Ready(n), finish_job_where(table[p[1]], n),
         table' = [table EXCEPT ![p[1]] = [release(@) EXCEPT !.last_run = TRUE]],
         node' = Notified(Outdated(WithoutProcess(n, p), p[1], TRUE, FALSE), table', {}),
         UNCHANGED <<faults, changes>>
  PROVE  IInv'
  <1> USE DEF IInv
  <1> DEFINE j == p[1]
             next == WithoutProcess(n, p)
             out == Outdated(next, j, TRUE, FALSE)
             r == [release(table[j]) EXCEPT !.last_run = TRUE]
  <1>1. /\ next \in [Nodes -> CronNode]
        /\ \A m \in Nodes : m # n => next[m] = node[m]
        /\ NodeShape(next[n]) /\ next[n].running = node[n].running \ {p}
        /\ next[n].conn = "ready" <=> node[n].conn = "ready"
        /\ next[n].orphaned = node[n].orphaned
        /\ SchedulerAwake(node[n]) => SchedulerAwake(next[n])
        /\ MayClaim(next[n]) /\ (MayClaim(node[n]) => ClaimAwake(node[n])) =>
             ClaimAwake(next[n])
    BY WithoutProcessNodes
  <1>2. j \in Jobs /\ table[j] \in Row /\ RowShape(table[j]) /\ table[j].node_name = n
    BY DEF Process, TypeOK, RowsOK, finish_job_where
  <1>0. table' = [table EXCEPT ![j] = r] /\ node' = Notified(out, table', {})
    BY <1>2 DEF TypeOK
  <1> HIDE DEF next
  <1>3. /\ out \in [Nodes -> CronNode]
        /\ \A m \in Nodes : SameNode(next[m], out[m]) /\ out[m].notifies = next[m].notifies
    BY <1>1, <1>2, OutdatedKeeps
  <1> HIDE DEF out, j
  <1>4. /\ r \in Row /\ RowShape(r) /\ r.node_name = NULL /\ ~NeedsClaim(r)
        /\ NeedsScheduler(r) =>
             NeedsScheduler(table[j]) \/ "cronjobs_modified" \in Rules(table[j], r, j \in {})
    BY <1>2, CronAssumption DEF Row, RowShape, release, NeedsClaim, NeedsScheduler, Rules, Free
  <1> HIDE DEF r
  <1>5. \A i \in Jobs : table'[i] = IF i = j THEN r ELSE table[i]
    BY <1>0, <1>2 DEF TypeOK
  <1>6. /\ node' \in [Nodes -> CronNode]
        /\ \A m \in Nodes : /\ SameNode(out[m], node'[m])
                            /\ out[m].notifies \subseteq node'[m].notifies
                            /\ out[m].conn = "ready" =>
                                 Rules(table[j], r, j \in {}) \subseteq node'[m].notifies
    <2> DEFINE tab == table'
    <2>1. node' = Notified(out, tab, {}) /\ tab[j] = r
      BY <1>0, <1>2, <1>5
    <2> HIDE DEF tab
    <2>2. /\ Notified(out, tab, {}) \in [Nodes -> CronNode]
          /\ \A m \in Nodes :
               /\ SameNode(out[m], Notified(out, tab, {})[m])
               /\ out[m].notifies \subseteq Notified(out, tab, {})[m].notifies
               /\ out[m].conn = "ready" =>
                    \A i \in Jobs : Rules(table[i], tab[i], i \in {})
                                      \subseteq Notified(out, tab, {})[m].notifies
      BY <1>3, NotifiedKeeps
    <2> QED
      BY <1>2, <2>1, <2>2
  <1>7. ASSUME NEW m \in Nodes
        PROVE  /\ SameNode(next[m], node'[m])
               /\ next[m].notifies \subseteq node'[m].notifies
               /\ next[m].conn = "ready" =>
                    Rules(table[j], r, j \in {}) \subseteq node'[m].notifies
    <2>1. SameNode(next[m], out[m]) /\ out[m].notifies = next[m].notifies
      BY <1>3
    <2>2. /\ SameNode(out[m], node'[m]) /\ out[m].notifies \subseteq node'[m].notifies
          /\ out[m].conn = "ready" =>
               Rules(table[j], r, j \in {}) \subseteq node'[m].notifies
      BY <1>6
    <2>3. SameNode(next[m], node'[m]) /\ out[m].conn = next[m].conn
      BY <2>1, <2>2 DEF SameNode, SameRest
    <2> QED
      BY <2>1, <2>2, <2>3
  <1>8. \A m \in Nodes :
          /\ node'[m].conn = "ready" <=> node[m].conn = "ready"
          /\ node'[m].orphaned = node[m].orphaned
          /\ node'[m].running = IF m = n THEN node[n].running \ {p} ELSE node[m].running
    <2>1. \A m \in Nodes : /\ node'[m].conn = next[m].conn
                           /\ node'[m].orphaned = next[m].orphaned
                           /\ node'[m].running = next[m].running
      BY <1>7 DEF SameNode, SameRest
    <2> QED
      BY <1>1, <2>1
  <1>9. TypeOK'
    <2>1. table' \in [Jobs -> Row]
      BY <1>0, <1>4 DEF TypeOK
    <2> QED
      BY <1>6, <2>1 DEF TypeOK
  <1>10. NodesOK'
    <2> SUFFICES ASSUME NEW m \in Nodes
                 PROVE  NodeShape(node'[m])
      BY DEF NodesOK
    <2>1. NodeShape(next[m]) /\ SameNode(next[m], node'[m])
      BY <1>1, <1>7 DEF NodesOK
    <2> QED
      BY <2>1, SameNodeShape
  <1>11. RowsOK'
    BY <1>4, <1>5 DEF RowsOK
  <1>12. ClaimsOK'
    <2>1. ASSUME NEW i \in Jobs, NEW m \in Nodes, node'[m].conn = "ready",
                 table'[i].node_name = m, i \notin node'[m].orphaned
          PROVE  \E q \in node'[m].running : q[1] = i
      <3>1. i # j
        BY <1>4, <1>5, <2>1, CronAssumption
      <3>2. table[i].node_name = m /\ Ready(m) /\ i \notin node[m].orphaned
        BY <1>5, <1>8, <2>1, <3>1 DEF Ready
      <3>3. PICK q \in node[m].running : q[1] = i
        BY <3>2 DEF ClaimsOK, ReadyNodeRunsItsClaims
      <3>4. q # p
        BY <3>1, <3>3 DEF j
      <3> QED
        BY <1>8, <3>3, <3>4
    <2> QED
      BY <2>1 DEF ClaimsOK, ReadyNodeRunsItsClaims, Ready
  <1>13. Exclusive'
    <2> SUFFICES ASSUME ~SlowJobs, faults = 0
                 PROVE  Exclusive'
      BY DEF Exclusive
    <2>1. \A m \in Nodes : node'[m].conn # "ready" => node'[m].running = {}
      BY <1>8 DEF Exclusive
    <2>2. ASSUME NEW m \in Nodes, NEW q \in Process, q \in node'[m].running
          PROVE  /\ table'[q[1]].node_name = m /\ ~table'[q[1]].expired
                 /\ \A o \in node'[m].running : o[1] = q[1] => o = q
      <3>1. q[1] \in Jobs /\ q \in node[m].running /\ ~(m = n /\ q = p)
        BY <1>8, <2>2 DEF Process
      <3>2. /\ table[q[1]].node_name = m /\ ~table[q[1]].expired
            /\ \A o \in node[m].running : o[1] = q[1] => o = q
        BY <3>1 DEF Exclusive
      <3>3. q[1] # j
        BY <1>2, <3>1, <3>2 DEF j
      <3>4. node'[m].running \subseteq node[m].running
        BY <1>8
      <3> QED
        BY <1>5, <3>1, <3>2, <3>3, <3>4
    <2> QED
      BY <2>1, <2>2 DEF Exclusive
  <1>14. SchedulerInv'
    <2> SUFFICES ASSUME NEW i \in Jobs, NEW m \in Nodes,
                        NeedsScheduler(table'[i]), node'[m].conn = "ready"
                 PROVE  SchedulerAwake(node'[m])
      BY DEF SchedulerInv, Ready
    <2>1. SchedulerAwake(next[m]) => SchedulerAwake(node'[m])
      BY <1>7 DEF SchedulerAwake, SameNode, SameRest
    <2>2. CASE NeedsScheduler(table[i])
      BY <1>1, <1>8, <2>1, <2>2 DEF SchedulerInv, Ready
    <2>3. CASE ~NeedsScheduler(table[i])
      <3>1. "cronjobs_modified" \in Rules(table[j], r, j \in {})
        BY <1>4, <1>5, <2>3
      <3>2. next[m].conn = "ready"
        BY <1>7 DEF SameNode, SameRest
      <3> QED
        BY <1>7, <3>1, <3>2 DEF SchedulerAwake, SameRest
    <2> QED
      BY <2>2, <2>3
  <1>15. ClaimInv'
    <2> SUFFICES ASSUME NEW i \in Jobs, NEW m \in Nodes,
                        NeedsClaim(table'[i]), MayClaim(node'[m])
                 PROVE  ClaimAwake(node'[m])
      BY DEF ClaimInv
    <2>1. NeedsClaim(table[i])
      BY <1>4, <1>5
    <2>2. MayClaim(next[m]) /\ (ClaimAwake(next[m]) => ClaimAwake(node'[m]))
      BY <1>7 DEF ClaimAwake, SameNode, MayClaim, SameRest, IsEnabled, IsEnabledOrFull
    <2> QED
      BY <1>1, <2>1, <2>2 DEF ClaimInv
  <1> QED
    BY <1>9, <1>10, <1>11, <1>12, <1>13, <1>14, <1>15

\* The three outcomes of SetResult.
LEMMA CompletionStep ==
  ASSUME IInv, NEW n \in Nodes, NEW p \in Process, OnCompletion(n, p)
  PROVE  IInv'
  <1> USE DEF IInv
  <1> DEFINE gone == [node EXCEPT ![n] = ProcessGone(@, p)]
  <1>0. /\ node[n].mode = "idle" /\ p \in node[n].running /\ changes' = changes
        /\ gone = WithoutProcess(n, p) /\ p[1] \in Jobs
    BY DEF OnCompletion, WithoutProcess, Process
  <1> HIDE DEF gone
  <1>1. CASE /\ Ready(n) /\ finish_job_where(table[p[1]], n)
             /\ table' = [table EXCEPT ![p[1]] = [release(@) EXCEPT !.last_run = TRUE]]
             /\ node' = Notified(Outdated(gone, p[1], TRUE, FALSE), table', {})
             /\ UNCHANGED faults
    BY <1>0, <1>1, CompletionStored
  <1>2. CASE /\ ~Ready(n) \/ ~finish_job_where(table[p[1]], n)
             /\ node' = gone /\ UNCHANGED <<table, faults>>
    BY <1>0, <1>2, CompletionLost
  <1>3. CASE /\ Ready(n) /\ finish_job_where(table[p[1]], n) /\ Fault
             /\ node' = [gone EXCEPT ![n].orphaned = @ \cup {p[1]}] /\ UNCHANGED table
    <2>1. gone \in [Nodes -> CronNode]
      BY <1>0, WithoutProcessNodes
    <2>2. p[1] \in node'[n].orphaned /\ faults' = faults + 1
      BY <1>3, <2>1 DEF Fault, CronNode
    <2> QED
      BY <1>0, <1>3, <2>2, CompletionLost
  <1> QED
    BY <1>1, <1>2, <1>3 DEF OnCompletion, gone

\* Every step, and stuttering, preserves the invariant.
LEMMA InvStep == IInv /\ [Next]_vars => IInv'
  <1> SUFFICES ASSUME IInv, [Next]_vars
               PROVE  IInv'
    OBVIOUS
  <1>1. CASE ClientStep
    BY <1>1, InsertStep, SetEnabledStep, EditScheduleStep, NextRunPassesStep, NodeTimeoutStep
       DEF ClientStep
  <1>2. ASSUME NEW n \in Nodes, SchedulerStep(n)
        PROVE  IInv'
    BY <1>2, RunSchedulerStep, SelectStep, EndSchedulerStep, MakeRandomDelayStep,
       UpdateNextRunStep, ScheduleFailsStep DEF SchedulerStep
  <1>3. ASSUME NEW n \in Nodes, ClaimStep(n)
        PROVE  IInv'
    BY <1>3, RunClaimStep, FindEarliestStep, CheckPendingStep, ClaimTaken, ClaimMissStep
       DEF ClaimStep
  <1>4. ASSUME NEW n \in Nodes, NEW p \in Process, OnCompletion(n, p)
        PROVE  IInv'
    BY <1>4, CompletionStep
  <1>5. ASSUME NEW n \in Nodes, NodeStep(n)
        PROVE  IInv'
    BY <1>2, <1>3, <1>4, <1>5, OnNotifyStep, OnConnectStep, FaultStep, RestartStep,
       SwitchStep, StatementFailsStep, StartFailsStep DEF NodeStep
  <1>6. CASE UNCHANGED vars
    BY <1>6 DEF vars, IInv, TypeOK, NodesOK, RowsOK, ClaimsOK, ReadyNodeRunsItsClaims, Ready,
       Exclusive, SchedulerInv, ClaimInv
  <1> QED
    BY <1>1, <1>5, <1>6 DEF Next

\* The table, the nodes and their workplaces keep their shape, and IInv holds, in every
\* reachable state.
THEOREM Invariance == Spec => []IInv
  BY InvInit, InvStep, PTL DEF Spec

\* A connected node runs a process of every job it has claimed (CronQueue::Claim,
\* ReleaseStale and Finish), whoever edits the table and whatever fails, except for the
\* claims whose GetNow or finish_job has failed on the present connection.
THEOREM ReadyNodeRunsItsClaimsHolds == Spec => []ReadyNodeRunsItsClaims
  <1>1. IInv => ReadyNodeRunsItsClaims
    BY DEF IInv, ClaimsOK
  <1> QED
    BY <1>1, Invariance, PTL

\* Until a fault, and if no process outlives its claim, two processes of a job never
\* overlap (claim_job, expire_jobs and finish_job).
THEOREM SingleProcessHolds == Spec => []SingleProcess
  <1>1. ASSUME IInv, ~SlowJobs, faults = 0, NEW j \in Jobs
        PROVE  Cardinality(Running(j)) <= 1
    <2>1. ASSUME NEW x \in Running(j), NEW y \in Running(j)
          PROVE  x = y
      <3>1. /\ x \in Nodes \X Process /\ x[2] \in node[x[1]].running /\ x[2][1] = j
            /\ y \in Nodes \X Process /\ y[2] \in node[y[1]].running /\ y[2][1] = j
        BY DEF Running
      <3>2. PICK n \in Nodes, p \in Process : x = <<n, p>>
        BY <3>1
      <3>3. PICK m \in Nodes, q \in Process : y = <<m, q>>
        BY <3>1
      <3>4. n = m /\ p = q
        BY <1>1, <3>1, <3>2, <3>3 DEF IInv, Exclusive
      <3> QED
        BY <3>2, <3>3, <3>4
    <2>2. CASE Running(j) = {}
      BY <2>2, FS_EmptySet
    <2>3. CASE Running(j) # {}
      <3>1. PICK x \in Running(j) : TRUE
        BY <2>3
      <3>2. Running(j) = {x}
        BY <2>1, <3>1
      <3> QED
        BY <3>2, FS_Singleton
    <2> QED
      BY <2>2, <2>3
  <1>2. IInv => SingleProcess
    BY <1>1 DEF SingleProcess
  <1> QED
    BY <1>2, Invariance, PTL

\* No scheduler, however stale its rows are, schedules a finished "@once" job
\* (update_next_run compares last_run).
THEOREM OnceNotRescheduledHolds == Spec => []OnceNotRescheduled
  <1>1. IInv => OnceNotRescheduled
    BY DEF IInv, RowsOK, RowShape, OnceNotRescheduled
  <1> QED
    BY <1>1, Invariance, PTL

\* Every scheduler that has not failed hears of a job without next_run (the rules of the
\* table, ScheduleScheduler and OnNotify), at whatever point of its cycle a client has
\* edited the job, unless it has lost its next_run while it was running.
THEOREM SchedulerWakeupHolds == Spec => []SchedulerWakeup
  <1>1. IInv => SchedulerWakeup
    BY DEF IInv, SchedulerInv, SchedulerWakeup, NeedsScheduler, SchedulerAwake, SameRest
  <1> QED
    BY <1>1, Invariance, PTL

\* Every node that may claim jobs hears of a pending job, unless it was enabled with a
\* next_run, or the node's latest claim run has failed (RunClaim, OnNotify, CheckEnabled
\* and OnCompletion).
THEOREM ClaimWakeupHolds == Spec => []ClaimWakeup
  <1>1. IInv => ClaimWakeup
    BY DEF IInv, ClaimInv, ClaimWakeup, NeedsClaim, MayClaim, ClaimAwake, Claiming, Pending,
       Ready, IsEnabled, IsEnabledOrFull, SameRest
  <1> QED
    BY <1>1, Invariance, PTL

-----------------------------------------------------------------------------
(***************************************************************************)
(* CronCluster implements CronLedger.                                      *)
(***************************************************************************)

EntryMoves(j) ==
  EntryOf(j)' = EntryOf(j) \/ Ledger!EntryStep(EntryOf(j), EntryOf(j)')

\* The step moves neither claims nor processes, and stores no result.
Unmoved ==
  /\ \A n \in Nodes : node'[n].running = node[n].running
  /\ \A j \in Jobs : /\ table'[j].inserted = table[j].inserted
                     /\ table'[j].node_name = table[j].node_name
                     /\ table'[j].last_run = table[j].last_run

\* An entry depends on the claim, on the processes of its owner and on last_run.
LEMMA SameEntry ==
  ASSUME NEW j \in Jobs,
         table'[j].inserted = table[j].inserted,
         table'[j].node_name = table[j].node_name,
         table'[j].last_run = table[j].last_run,
         \A n \in Nodes : (\E p \in node'[n].running : p[1] = j) <=>
                            (\E p \in node[n].running : p[1] = j)
  PROVE  EntryMoves(j)
  <1>1. ClaimRuns(j)' <=> ClaimRuns(j)
    BY DEF ClaimRuns
  <1>2. PhaseOf(j)' = PhaseOf(j)
    BY <1>1 DEF PhaseOf, Free
  <1> QED
    BY <1>2 DEF EntryMoves, EntryOf

\* Such a step is none of the ledger's.
LEMMA UnmovedStep ==
  ASSUME Unmoved
  PROVE  \A j \in Jobs : EntryMoves(j)
  BY SameEntry DEF Unmoved

\* Rows are released.
LEMMA TakeStep ==
  ASSUME TypeOK, RowsOK, NEW taken \in SUBSET Jobs,
         \A j \in taken : ~Free(table[j]),
         table' = [j \in Jobs |-> IF j \in taken THEN release(table[j]) ELSE table[j]],
         \A n \in Nodes : node'[n].running = node[n].running
  PROVE  \A j \in Jobs : EntryMoves(j)
  <1>0. \A j \in Jobs : j \notin taken => table'[j] = table[j]
    OBVIOUS
  <1>1. ASSUME NEW j \in taken
        PROVE  /\ table'[j].inserted /\ table'[j].node_name = NULL
               /\ table'[j].last_run = table[j].last_run /\ table[j].inserted
    <2>1. table[j] \in Row /\ RowShape(table[j]) /\ table'[j] = release(table[j])
      BY DEF TypeOK, RowsOK
    <2>2. table[j].inserted
      BY <1>1, <2>1 DEF RowShape, Free, Row
    <2> QED
      BY <2>1, <2>2 DEF release, Row
  <1>3. ASSUME NEW j \in taken PROVE EntryMoves(j)
    <2>0. /\ table'[j].inserted /\ table'[j].node_name = NULL
          /\ table'[j].last_run = table[j].last_run /\ table[j].inserted
      BY <1>1, <1>3
    <2>1. PhaseOf(j) \in {"executing", "lost"} /\ PhaseOf(j)' = "idle"
      BY <2>0, <1>3 DEF PhaseOf, Free
    <2>2. Ledger!Take(EntryOf(j), EntryOf(j)')
      BY <2>0, <2>1 DEF Ledger!Take, EntryOf
    <2> QED
      BY <2>2 DEF EntryMoves, Ledger!EntryStep
  <1>4. ASSUME NEW j \in Jobs, j \notin taken PROVE EntryMoves(j)
    BY <1>0, <1>4, SameEntry
  <1> QED
    BY <1>3, <1>4

\* A client writes a new row.
LEMMA InsertLedger ==
  ASSUME IInv, NEW j \in Jobs, NEW schedule \in Schedules, InsertJob(j, schedule)
  PROVE  \A i \in Jobs : EntryMoves(i)
  <1>0. TypeOK /\ RowsOK
    BY DEF IInv
  <1>1. \A n \in Nodes : node'[n].running = node[n].running
    BY <1>0, NotifiedKeeps DEF InsertJob, SameNode, TypeOK
  <1>2. /\ \A i \in Jobs : i # j => table'[i] = table[i]
        /\ table'[j].inserted /\ table'[j].node_name = table[j].node_name
        /\ table'[j].last_run = table[j].last_run
        /\ ~table[j].inserted
    BY <1>0 DEF InsertJob, TypeOK, Row
  <1>4. EntryMoves(j)
    <2>1. table[j].node_name = NULL
      BY <1>0, <1>2 DEF RowsOK, RowShape
    <2>2. PhaseOf(j) = "absent" /\ PhaseOf(j)' = "idle"
      BY <1>2, <2>1 DEF PhaseOf, Free
    <2> QED
      BY <1>2, <2>2 DEF EntryMoves, EntryOf, Ledger!EntryStep, Ledger!Insert
  <1>5. ASSUME NEW i \in Jobs, i # j PROVE EntryMoves(i)
    BY <1>1, <1>2, <1>5, SameEntry
  <1> QED
    BY <1>4, <1>5

\* The other statements of clients and schedulers leave the claims alone.
LEMMA RowsUnmoved ==
  ASSUME TypeOK, NEW j \in Jobs,
         \/ SetEnabled(j) \/ NextRunPasses(j) \/ NodeTimeoutPasses(j)
         \/ \E schedule \in Schedules, delay \in Delays \cup {0, NULL}, clear \in BOOLEAN :
              EditSchedule(j, schedule, delay, clear)
         \/ \E n \in Nodes, delay \in Delays \cup {0} : MakeRandomDelay(n, j, delay)
         \/ \E n \in Nodes : UpdateNextRun(n, j)
  PROVE  Unmoved
  <1>1. CASE SetEnabled(j)
    <2>1. \A n \in Nodes : node'[n].running = node[n].running
      BY <1>1, NotifiedKeeps DEF SetEnabled, SameNode, TypeOK
    <2> QED
      BY <1>1, <2>1 DEF SetEnabled, TypeOK, Row, Unmoved
  <1>2. CASE NextRunPasses(j)
    BY <1>2 DEF NextRunPasses, TypeOK, Row, Unmoved
  <1>3. CASE NodeTimeoutPasses(j)
    BY <1>3 DEF NodeTimeoutPasses, TypeOK, Row, Unmoved
  <1>4. ASSUME NEW schedule \in Schedules, NEW delay \in Delays \cup {0, NULL},
               NEW clear \in BOOLEAN, EditSchedule(j, schedule, delay, clear)
        PROVE  Unmoved
    <2> DEFINE out == Outdated(node, j, FALSE, TRUE)
    <2>1. out \in [Nodes -> CronNode] /\ \A n \in Nodes : SameNode(node[n], out[n])
      BY OutdatedKeeps DEF TypeOK
    <2>2. node' = Notified(out, table', {j})
      BY <1>4 DEF EditSchedule
    <2> HIDE DEF out
    <2>3. \A n \in Nodes : node'[n].running = node[n].running
      BY <2>1, <2>2, NotifiedKeeps DEF SameNode
    <2>4. \A i \in Jobs : /\ table'[i].inserted = table[i].inserted
                          /\ table'[i].node_name = table[i].node_name
                          /\ table'[i].last_run = table[i].last_run
      BY <1>4 DEF EditSchedule, TypeOK, Row
    <2> QED
      BY <2>3, <2>4 DEF Unmoved
  <1>5. ASSUME NEW n \in Nodes, NEW delay \in Delays \cup {0}, MakeRandomDelay(n, j, delay)
        PROVE  Unmoved
    <2>1. PICK v \in ScheduleRow \cup {NULL} : node' = [node EXCEPT ![n].rows[j] = v]
      <3>1. node[n].rows[j] \in ScheduleRow
        BY <1>5 DEF MakeRandomDelay, TypeOK, CronNode
      <3> DEFINE v == [node[n].rows[j] EXCEPT !.delay = delay]
      <3>2. v \in ScheduleRow
        BY <3>1 DEF ScheduleRow
      <3>3. node' = [node EXCEPT ![n].rows[j] = v] \/ node' = [node EXCEPT ![n].rows[j] = NULL]
        BY <1>5 DEF MakeRandomDelay, TypeOK
      <3> HIDE DEF v
      <3> QED
        BY <3>2, <3>3
    <2>2. \A m \in Nodes : node'[m].running = node[m].running
      BY <2>1, SelectedRow DEF SameNode
    <2>3. \A i \in Jobs : /\ table'[i].inserted = table[i].inserted
                          /\ table'[i].node_name = table[i].node_name
                          /\ table'[i].last_run = table[i].last_run
      BY <1>5 DEF MakeRandomDelay, TypeOK, Row
    <2> QED
      BY <2>2, <2>3 DEF Unmoved
  <1>6. ASSUME NEW n \in Nodes, UpdateNextRun(n, j)
        PROVE  Unmoved
    <2> DEFINE done == [node EXCEPT ![n].rows[j] = NULL]
    <2>1. done \in [Nodes -> CronNode] /\ \A m \in Nodes : done[m].running = node[m].running
      BY SelectedRow DEF SameNode
    <2>2. node' = Notified(done, table', {}) \/ node' = done
      BY <1>6 DEF UpdateNextRun
    <2> HIDE DEF done
    <2>3. \A m \in Nodes : node'[m].running = node[m].running
      BY <2>1, <2>2, NotifiedKeeps DEF SameNode
    <2> QED
      BY <1>6, <2>3 DEF UpdateNextRun, TypeOK, Row, Unmoved
  <1> QED
    BY <1>1, <1>2, <1>3, <1>4, <1>5, <1>6

\* So do the steps inside of a node.
LEMMA NodeUnmoved ==
  ASSUME TypeOK, NEW n \in Nodes,
         \/ SelectJobsForScheduling(n) \/ EndScheduler(n) \/ \E j \in Jobs : ScheduleFails(n, j)
         \/ RunClaim(n) \/ FindEarliestPending(n) \/ CheckPending(n) \/ ClaimMiss(n)
         \/ \E name \in {"cronjobs_modified", "cronjobs_scheduled"} : OnNotify(n, name)
         \/ OnDisconnect(n) \/ StatementFails(n)
         \/ \E enabled \in BOOLEAN : Restart(n, enabled)
         \/ SetStateEnabled(n) \/ EnableAdmin(n) \/ DisableAdmin(n)
  PROVE  Unmoved
  <1>1. table' = table
    BY DEF SelectJobsForScheduling, EndScheduler, ScheduleFails, RunClaim, FindEarliestPending,
       CheckPending, ClaimMiss, OnNotify, OnDisconnect, StatementFails, Restart,
       SetStateEnabled, EnableAdmin, DisableAdmin, Switched
  <1>2. \A m \in Nodes : node'[m].running = node[m].running
    <2>3. CASE \E j \in Jobs : ScheduleFails(n, j)
      <3>1. PICK j \in Jobs : node' = [node EXCEPT ![n].rows[j] = NULL]
        BY <2>3 DEF ScheduleFails
      <3> QED
        BY <3>1, SelectedRow DEF SameNode
    <2>4. CASE RunClaim(n)
      <3> DEFINE mode == IF IsEnabled(node[n]) THEN "claim" ELSE "idle"
      <3>1. node' = [node EXCEPT ![n].claim_timer = FALSE, ![n].failed = @ \ {"claim"},
                                 ![n].mode = mode]
        BY <2>4 DEF RunClaim
      <3> HIDE DEF mode
      <3> QED
        BY <3>1 DEF TypeOK, CronNode
    <2> USE DEF TypeOK, CronNode
    <2>1. CASE SelectJobsForScheduling(n)
      BY <2>1 DEF SelectJobsForScheduling
    <2>2. CASE EndScheduler(n)
      BY <2>2 DEF EndScheduler
    <2>5. CASE FindEarliestPending(n)
      <3>1. \/ node' = [node EXCEPT ![n].mode = "idle"]
            \/ node' = [node EXCEPT ![n].mode = "idle", ![n].claim_timer = TRUE]
            \/ node' = [node EXCEPT ![n].mode = "check"]
        BY <2>5 DEF FindEarliestPending
      <3> QED
        BY <3>1
    <2>6. CASE CheckPending(n)
      <3>1. \/ \E j \in Jobs : node' = [node EXCEPT ![n].mode = "job", ![n].found = j]
            \/ node' = [node EXCEPT ![n].mode = "idle", ![n].claim_timer = TRUE]
        BY <2>6 DEF CheckPending
      <3> QED
        BY <3>1
    <2>7. CASE ClaimMiss(n)
      BY <2>7 DEF ClaimMiss
    <2>8. CASE \E name \in {"cronjobs_modified", "cronjobs_scheduled"} : OnNotify(n, name)
      BY <2>8 DEF OnNotify
    <2>9. CASE OnDisconnect(n)
      BY <2>9 DEF OnDisconnect, Disconnected
    <2>10. CASE StatementFails(n)
      BY <2>10 DEF StatementFails
    <2>11. ASSUME NEW enabled \in BOOLEAN, Restart(n, enabled)
           PROVE  \A m \in Nodes : node'[m].running = node[m].running
      BY <2>11 DEF Restart
    <2>12. CASE SetStateEnabled(n)
      BY <2>12 DEF SetStateEnabled, Switched, CheckEnabled
    <2>13. CASE EnableAdmin(n)
      BY <2>13 DEF EnableAdmin, Switched, CheckEnabled
    <2>14. CASE DisableAdmin(n)
      BY <2>14 DEF DisableAdmin, Switched
    <2> QED
      BY <2>1, <2>2, <2>3, <2>4, <2>5, <2>6, <2>7, <2>8, <2>9, <2>10, <2>11, <2>12,
         <2>13, <2>14
  <1> QED
    BY <1>1, <1>2 DEF Unmoved

\* A job is claimed.  The node starts a process, or it does not learn of the claim, or it
\* fails to start the process; an older process of the job may still run there.
LEMMA ClaimLedger ==
  ASSUME IInv, NEW n \in Nodes, Claim(n) \/ ClaimAnswerLost(n) \/ StartFails(n)
  PROVE  \A i \in Jobs : EntryMoves(i)
  <1>0. TypeOK /\ NodesOK /\ RowsOK
    BY DEF IInv
  <1>1. PICK j \in Jobs :
          /\ j = node[n].found /\ node[n] \in CronNode /\ NodeShape(node[n])
          /\ ~node[n].disabled_full /\ table[j] \in Row /\ claim_job_where(table[j])
          /\ table' = claim_job(j, n)
    BY <1>0 DEF Claim, ClaimAnswerLost, StartFails, NodesOK, NodeShape, Claiming, TypeOK
  <1>2. PICK p \in Process : p = NewProcess(n, j) /\ p[1] = j
    BY <1>0, <1>1, NewProcessExists
  <1>3. table[j].inserted /\ table[j].node_name = NULL
    BY <1>0, <1>1 DEF claim_job_where, Free, RowsOK, RowShape
  <1>4. /\ \A i \in Jobs : i # j => table'[i] = table[i]
        /\ table'[j].inserted /\ table'[j].node_name = n
        /\ table'[j].last_run = table[j].last_run
    BY <1>0, <1>1, <1>3 DEF claim_job, TypeOK, Row
  <1>5. \A m \in Nodes : node[m].running \subseteq node'[m].running
                         /\ node'[m].running \subseteq node[m].running \cup {p}
    <2>1. CASE Claim(n)
      BY <1>0, <1>1, <1>2, <2>1 DEF Claim, TypeOK, CronNode
    <2>2. CASE ClaimAnswerLost(n)
      BY <1>0, <1>1, <2>2 DEF ClaimAnswerLost, Disconnected, TypeOK, CronNode
    <2>3. CASE StartFails(n)
      BY <1>0, <1>1, <2>3 DEF StartFails, TypeOK, CronNode
    <2> QED
      BY <2>1, <2>2, <2>3
  <1>6. EntryMoves(j)
    <2>1. PhaseOf(j) = "idle" /\ PhaseOf(j)' \in {"executing", "lost"}
      BY <1>3, <1>4, CronAssumption DEF PhaseOf, Free
    <2>2. Ledger!Start(EntryOf(j), EntryOf(j)')
      BY <1>4, <2>1 DEF Ledger!Start, EntryOf
    <2> QED
      BY <2>2 DEF EntryMoves, Ledger!EntryStep
  <1>7. ASSUME NEW i \in Jobs, i # j PROVE EntryMoves(i)
    <2>1. \A m \in Nodes : (\E q \in node'[m].running : q[1] = i) <=>
                             (\E q \in node[m].running : q[1] = i)
      BY <1>2, <1>5, <1>7
    <2> QED
      BY <1>4, <1>7, <2>1, SameEntry
  <1> QED
    BY <1>6, <1>7

\* Processes end, and the table does not learn of it: theirs are lost executions.
LEMMA LoseStep ==
  ASSUME RowsOK, table' = table,
         \A m \in Nodes : node'[m].running \subseteq node[m].running
  PROVE  \A j \in Jobs : EntryMoves(j)
  <1> SUFFICES ASSUME NEW j \in Jobs
               PROVE  EntryMoves(j)
    OBVIOUS
  <1>0. ClaimRuns(j)' => ClaimRuns(j)
    BY DEF ClaimRuns
  <1>1. CASE ClaimRuns(j) /\ ~ClaimRuns(j)'
    <2>1. table[j].node_name # NULL /\ table[j].inserted
      BY <1>1, CronAssumption DEF ClaimRuns, RowsOK, RowShape
    <2>2. PhaseOf(j) = "executing" /\ PhaseOf(j)' = "lost"
      BY <1>1, <2>1 DEF PhaseOf, Free
    <2>3. Ledger!Lose(EntryOf(j), EntryOf(j)')
      BY <2>2 DEF Ledger!Lose, EntryOf
    <2> QED
      BY <2>3 DEF EntryMoves, Ledger!EntryStep
  <1>2. CASE ~(ClaimRuns(j) /\ ~ClaimRuns(j)')
    <2>1. PhaseOf(j)' = PhaseOf(j)
      BY <1>0, <1>2 DEF PhaseOf, Free
    <2> QED
      BY <2>1 DEF EntryMoves, EntryOf
  <1> QED
    BY <1>1, <1>2

\* A result is stored.  The process that ends need not be the one the claim was made
\* for: an older process of the same node will do.
LEMMA FinishLedger ==
  ASSUME IInv, NEW n \in Nodes, NEW p \in Process, p \in node[n].running,
         node[n].mode = "idle", Ready(n), finish_job_where(table[p[1]], n),
         table' = [table EXCEPT ![p[1]] = [release(@) EXCEPT !.last_run = TRUE]],
         node' = Notified(Outdated(WithoutProcess(n, p), p[1], TRUE, FALSE), table', {})
  PROVE  \A i \in Jobs : EntryMoves(i)
  <1> DEFINE j == p[1]
             next == WithoutProcess(n, p)
             out == Outdated(next, j, TRUE, FALSE)
             r == [release(table[j]) EXCEPT !.last_run = TRUE]
  <1>0. TypeOK /\ RowsOK /\ NodesOK
    BY DEF IInv
  <1>2. /\ next \in [Nodes -> CronNode]
        /\ \A m \in Nodes : m # n => next[m] = node[m]
        /\ next[n].running = node[n].running \ {p}
    BY WithoutProcessNodes
  <1>3. j \in Jobs /\ table[j] \in Row /\ RowShape(table[j]) /\ table[j].node_name = n
    BY <1>0 DEF Process, TypeOK, RowsOK, finish_job_where
  <1>1. table' = [table EXCEPT ![j] = r] /\ node' = Notified(out, table', {})
    BY <1>0, <1>3 DEF TypeOK
  <1>4. r.inserted = table[j].inserted /\ r.node_name = NULL /\ r.last_run = TRUE
    BY <1>3 DEF release, Row
  <1>5. table[j].inserted
    BY <1>3, CronAssumption DEF RowShape, Row
  <1> HIDE DEF next, r
  <1>6. out \in [Nodes -> CronNode] /\ \A m \in Nodes : SameNode(next[m], out[m])
    BY <1>2, <1>3, OutdatedKeeps
  <1> HIDE DEF out, j
  <1>7. \A m \in Nodes : node'[m].running = next[m].running
    <2> DEFINE tab == table'
    <2>1. node' = Notified(out, tab, {})
      BY <1>1
    <2> HIDE DEF tab
    <2>2. \A m \in Nodes : SameNode(out[m], node'[m])
      BY <1>6, <2>1, NotifiedKeeps
    <2> QED
      BY <1>6, <2>2 DEF SameNode
  <1>8. \A i \in Jobs : table'[i] = IF i = j THEN r ELSE table[i]
    BY <1>0, <1>1, <1>3 DEF TypeOK
  <1>10. EntryMoves(j)
    <2>1. ClaimRuns(j)
      BY <1>3 DEF ClaimRuns, j
    <2>2. PhaseOf(j) = "executing" /\ PhaseOf(j)' = "idle"
      BY <1>3, <1>4, <1>5, <1>8, <2>1, CronAssumption DEF PhaseOf, Free
    <2>3. Ledger!Finish(EntryOf(j), EntryOf(j)')
      BY <1>3, <1>4, <1>8, <2>2 DEF Ledger!Finish, EntryOf
    <2> QED
      BY <2>3 DEF EntryMoves, Ledger!EntryStep
  <1>11. ASSUME NEW i \in Jobs, i # j PROVE EntryMoves(i)
    <2>1. \A m \in Nodes : (\E q \in node'[m].running : q[1] = i) <=>
                             (\E q \in node[m].running : q[1] = i)
      BY <1>2, <1>7, <1>11 DEF j
    <2> QED
      BY <1>8, <1>11, <2>1, SameEntry
  <1> QED
    BY <1>10, <1>11

\* The three outcomes of SetResult, in the ledger.
LEMMA CompletionLedger ==
  ASSUME IInv, NEW n \in Nodes, NEW p \in Process, OnCompletion(n, p)
  PROVE  \A j \in Jobs : EntryMoves(j)
  <1> DEFINE gone == [node EXCEPT ![n] = ProcessGone(@, p)]
  <1>0. /\ node[n].mode = "idle" /\ p \in node[n].running
        /\ gone = WithoutProcess(n, p) /\ RowsOK
    BY DEF OnCompletion, WithoutProcess, IInv
  <1> HIDE DEF gone
  <1>1. /\ gone \in [Nodes -> CronNode]
        /\ \A m \in Nodes : gone[m].running \subseteq node[m].running
    BY <1>0, WithoutProcessNodes
  <1>2. CASE /\ Ready(n) /\ finish_job_where(table[p[1]], n)
             /\ table' = [table EXCEPT ![p[1]] = [release(@) EXCEPT !.last_run = TRUE]]
             /\ node' = Notified(Outdated(gone, p[1], TRUE, FALSE), table', {})
    BY <1>0, <1>2, FinishLedger
  <1>3. CASE node' = gone /\ UNCHANGED table
    BY <1>0, <1>1, <1>3, LoseStep
  <1>4. CASE node' = [gone EXCEPT ![n].orphaned = @ \cup {p[1]}] /\ UNCHANGED table
    <2>1. \A m \in Nodes : node'[m].running \subseteq node[m].running
      BY <1>1, <1>4 DEF CronNode
    <2> QED
      BY <1>0, <1>4, <2>1, LoseStep
  <1> QED
    BY <1>2, <1>3, <1>4 DEF OnCompletion, gone

\* Every step is one of the ledger.
LEMMA LedgerStep ==
  ASSUME IInv, [Next]_vars
  PROVE  \A j \in Jobs : EntryMoves(j)
  <1>0. TypeOK /\ NodesOK /\ RowsOK
    BY DEF IInv
  <1>1. CASE UNCHANGED vars
    BY <1>1, UnmovedStep DEF vars, Unmoved
  <1>2. CASE ClientStep
    BY <1>0, <1>2, InsertLedger, RowsUnmoved, UnmovedStep DEF ClientStep
  <1>3. ASSUME NEW n \in Nodes, NEW expire \in BOOLEAN, RunScheduler(n, expire)
        PROVE  \A j \in Jobs : EntryMoves(j)
    <2> DEFINE taken == {j \in Jobs : expire /\ expire_jobs_where(table[j], n)}
               next == [node EXCEPT ![n].scheduler_timer = FALSE, ![n].mode = "scheduler",
                                    ![n].failed = @ \ {"scheduler"}]
    <2>1. next \in [Nodes -> CronNode] /\ \A m \in Nodes : next[m].running = node[m].running
      <3> DEFINE s == [node[n] EXCEPT !.scheduler_timer = FALSE, !.mode = "scheduler",
                                      !.failed = @ \ {"scheduler"}]
      <3>1. node[n] \in CronNode /\ next = [node EXCEPT ![n] = s]
        BY <1>0 DEF TypeOK
      <3>2. s \in CronNode /\ s.running = node[n].running
        BY <3>1 DEF CronNode
      <3> HIDE DEF s, next
      <3> QED
        BY <1>0, <3>1, <3>2 DEF TypeOK
    <2>2. /\ table' = [j \in Jobs |-> IF j \in taken THEN release(table[j]) ELSE table[j]]
          /\ node' = Notified(next, table', {})
      BY <1>3 DEF RunScheduler
    <2>3. taken \in SUBSET Jobs /\ \A j \in taken : ~Free(table[j])
      BY DEF expire_jobs_where, Free
    <2> HIDE DEF taken, next
    <2>4. \A m \in Nodes : node'[m].running = node[m].running
      BY <2>1, <2>2, NotifiedKeeps DEF SameNode
    <2> QED
      BY <1>0, <2>2, <2>3, <2>4, TakeStep
  <1>4. ASSUME NEW n \in Nodes, OnConnect(n)
        PROVE  \A j \in Jobs : EntryMoves(j)
    <2> DEFINE taken == {j \in Jobs : release_stale_where(table[j], n)}
               next == [node EXCEPT ![n].conn = "ready", ![n].scheduler_timer = TRUE,
                                    ![n].claim_timer = TRUE]
    <2>1. next \in [Nodes -> CronNode] /\ \A m \in Nodes : next[m].running = node[m].running
      <3> DEFINE s == [node[n] EXCEPT !.conn = "ready", !.scheduler_timer = TRUE,
                                      !.claim_timer = TRUE]
      <3>1. node[n] \in CronNode /\ next = [node EXCEPT ![n] = s]
        BY <1>0 DEF TypeOK
      <3>2. s \in CronNode /\ s.running = node[n].running
        BY <3>1 DEF CronNode
      <3> HIDE DEF s, next
      <3> QED
        BY <1>0, <3>1, <3>2 DEF TypeOK
    <2>2. /\ table' = [j \in Jobs |-> IF j \in taken THEN release(table[j]) ELSE table[j]]
          /\ node' = Notified(next, table', {})
      BY <1>4 DEF OnConnect
    <2>3. taken \in SUBSET Jobs /\ \A j \in taken : ~Free(table[j])
      BY CronAssumption DEF release_stale_where, Free
    <2> HIDE DEF taken, next
    <2>4. \A m \in Nodes : node'[m].running = node[m].running
      BY <2>1, <2>2, NotifiedKeeps DEF SameNode
    <2> QED
      BY <1>0, <2>2, <2>3, <2>4, TakeStep
  <1>5. ASSUME NEW n \in Nodes, SchedulerStep(n)
        PROVE  \A j \in Jobs : EntryMoves(j)
    BY <1>0, <1>3, <1>5, NodeUnmoved, RowsUnmoved, UnmovedStep DEF SchedulerStep
  <1>6. ASSUME NEW n \in Nodes, ClaimStep(n)
        PROVE  \A j \in Jobs : EntryMoves(j)
    BY <1>0, <1>6, ClaimLedger, NodeUnmoved, UnmovedStep DEF ClaimStep
  <1>8. ASSUME NEW n \in Nodes, Crash(n)
        PROVE  \A j \in Jobs : EntryMoves(j)
    <2>1. \A m \in Nodes : node'[m].running \subseteq node[m].running
      BY <1>0, <1>8 DEF Crash, Disconnected, TypeOK, CronNode
    <2>2. table' = table
      BY <1>8 DEF Crash
    <2> QED
      BY <1>0, <2>1, <2>2, LoseStep
  <1>9. ASSUME NEW n \in Nodes, NodeStep(n)
        PROVE  \A j \in Jobs : EntryMoves(j)
    BY <1>0, <1>4, <1>5, <1>6, <1>8, <1>9, ClaimLedger, CompletionLedger, NodeUnmoved,
       UnmovedStep DEF NodeStep
  <1> QED
    BY <1>1, <1>2, <1>9 DEF Next

\* CronCluster implements CronLedger, for any number of nodes, jobs and slots, however
\* long processes take and whatever clients edit: claim_job, finish_job, release_stale
\* and expire_jobs hand a job from one node to the next, and last_run is written only
\* under the claim of a process that runs.
THEOREM LedgerImplemented == Spec => ImplementsLedger
  <1>1. Init => Ledger!Init
    <2> SUFFICES ASSUME Init PROVE Ledger!Init
      OBVIOUS
    <2>1. \A j \in Jobs : EntryOf(j) = Ledger!NewEntry
      BY DEF Init, EntryOf, PhaseOf, Ledger!NewEntry
    <2> QED
      BY <2>1 DEF Init, Ledger!Init, LedgerOf
  <1>2. IInv /\ [Next]_vars => [Ledger!Next]_LedgerOf
    <2> SUFFICES ASSUME IInv, [Next]_vars
                 PROVE  Ledger!Next
      OBVIOUS
    <2>1. \A j \in Jobs : EntryMoves(j)
      BY LedgerStep
    <2>2. /\ \A j \in Jobs : LedgerOf[j] = EntryOf(j) /\ LedgerOf'[j] = EntryOf(j)'
          /\ DOMAIN LedgerOf' = Jobs
      BY DEF LedgerOf
    <2> QED
      BY <2>1, <2>2 DEF EntryMoves, Ledger!Next
  <1> QED
    BY <1>1, <1>2, Invariance, PTL DEF Spec, ImplementsLedger, Ledger!Spec
=============================================================================
