-------------------------- MODULE StickinessProofs --------------------------
(***************************************************************************)
(* Proofs about Stickiness, for any set of nodes, jobs and ids, any scores *)
(* and any number of changes.  No assumption says that there are finitely  *)
(* many nodes: what counts is that a node has only heard of finitely many. *)
(***************************************************************************)
EXTENDS Stickiness, FiniteSetTheorems, WellFoundedInduction, TLAPS

TypeOK ==
  /\ job \in [Jobs -> {"absent", "waiting"} \cup Nodes]
  /\ enabled \in [Nodes -> BOOLEAN]
  /\ ready \in [Nodes -> BOOLEAN]
  /\ nodes \in [Nodes -> SUBSET Nodes]
  /\ plans \in [Nodes -> SUBSET Plans]
  /\ stale \in [Nodes -> BOOLEAN]
  /\ changed \in [Nodes -> BOOLEAN]
  /\ sticky_non_local \in [Nodes -> SUBSET Ids]
  /\ rows \in [Nodes -> SUBSET Jobs]

\* A queue run needs an enabled queue and a connection, and the temporary table
\* lives no longer than the connection: the flush that a disconnected node skips is
\* one it does not need.
RunShape ==
  \A n \in Nodes :
    /\ rows[n] # {} => enabled[n] /\ ready[n]
    /\ ~ready[n] => sticky_non_local[n] = {}
    /\ IsFiniteSet(nodes[n])

IInv == TypeOK /\ RunShape /\ NonLocalSound

\* The daemons start without connection, services or rows.
LEMMA InvInit == Init => IInv
  <1> SUFFICES ASSUME Init PROVE IInv
    OBVIOUS
  <1>1. plans \in [Nodes -> SUBSET Plans]
    <2>1. CASE kind = "workshop"
      BY <2>1 DEF Init
    <2>2. CASE kind # "workshop"
      BY <2>2 DEF Init
    <2> QED
      BY <2>1, <2>2
  <1> QED
    BY <1>1, FS_EmptySet DEF Init, IInv, TypeOK, RunShape, NonLocalSound

\* One more or one fewer service is still a finite number of services.
LEMMA HeardOfFinitely ==
  ASSUME TypeOK, RunShape, NEW n \in Nodes, NEW m \in Nodes,
         OnAvahiNewObject(n, m) \/ OnAvahiRemoveObject(n, m)
  PROVE  \A l \in Nodes : IsFiniteSet(nodes'[l])
  <1>1. IsFiniteSet(nodes[n] \cup {m}) /\ IsFiniteSet(nodes[n] \ {m})
    BY FS_AddElement, FS_RemoveElement DEF RunShape
  <1> QED
    BY <1>1 DEF OnAvahiNewObject, OnAvahiRemoveObject, RunShape, TypeOK

\* Every step preserves the invariant.
LEMMA InvStep == IInv /\ [Next]_vars => IInv'
  <1> SUFFICES ASSUME IInv, [Next]_vars
               PROVE  IInv'
    OBVIOUS
  <1> USE DEF IInv
  <1>1. ASSUME OnNotify \/ \E j \in Jobs : InsertJob(j)
        PROVE  IInv'
    BY <1>1
    DEF OnNotify, InsertJob, map, table, TypeOK, RunShape, NonLocalSound, IsLocal
  <1>2. ASSUME NEW n \in Nodes, NodeStep(n)
        PROVE  IInv'
    <2>1. CASE SwitchQueue(n) \/ RunEnds(n)
      BY <2>1
      DEF SwitchQueue, RunEnds, Idle, map, table, TypeOK, RunShape, NonLocalSound, IsLocal
    <2>2. CASE OnConnect(n)
      BY <2>2 DEF OnConnect, map, table, TypeOK, RunShape, NonLocalSound, IsLocal
    <2>3. CASE OnDisconnect(n)
      BY <2>3 DEF OnDisconnect, map, TypeOK, RunShape, NonLocalSound, IsLocal
    <2>4. CASE SelectJobs(n)
      <3>1. PICK selected \in SUBSET Selectable(n) : rows' = [rows EXCEPT ![n] = selected]
        BY <2>4 DEF SelectJobs
      <3>2. selected \subseteq Jobs
        BY DEF Selectable
      <3> QED
        BY <2>4, <3>1, <3>2
        DEF SelectJobs, map, table, TypeOK, RunShape, NonLocalSound, IsLocal
    <2>5. CASE OnAvahiAllForNow(n)
      <3>1. sticky_non_local'[n] = {} \/ stale'[n]
        BY <2>5 DEF OnAvahiAllForNow, FlushSticky, table, TypeOK, RunShape
      <3>2. TypeOK' /\ RunShape'
        BY <2>5 DEF OnAvahiAllForNow, FlushSticky, table, TypeOK, RunShape
      <3>3. \A m \in Nodes \ {n} : /\ sticky_non_local'[m] = sticky_non_local[m]
                                   /\ stale'[m] = stale[m]
                                   /\ changed'[m] = changed[m]
        BY <2>5 DEF OnAvahiAllForNow, FlushSticky, table, TypeOK
      <3>4. nodes' = nodes
        BY <2>5 DEF OnAvahiAllForNow
      <3>5. NonLocalSound'
        BY <3>1, <3>3, <3>4 DEF NonLocalSound, IsLocal
      <3> QED
        BY <3>2, <3>5
    <2>6. ASSUME NEW m \in Nodes, OnAvahiNewObject(n, m) \/ OnAvahiRemoveObject(n, m)
          PROVE  IInv'
      <3>1. TypeOK'
        <4>1. nodes[n] \cup {m} \in SUBSET Nodes /\ nodes[n] \ {m} \in SUBSET Nodes
          BY DEF TypeOK
        <4>2. PICK S \in SUBSET Nodes : nodes' = [nodes EXCEPT ![n] = S]
          BY <2>6, <4>1 DEF OnAvahiNewObject, OnAvahiRemoveObject
        <4>3. /\ changed' = [changed EXCEPT ![n] = TRUE]
              /\ UNCHANGED <<job, enabled, plans, ready, sticky_non_local, stale, rows>>
          BY <2>6 DEF OnAvahiNewObject, OnAvahiRemoveObject, table
        <4> QED
          BY <4>2, <4>3 DEF TypeOK
      <3>2. RunShape'
        BY <2>6, HeardOfFinitely
        DEF OnAvahiNewObject, OnAvahiRemoveObject, table, TypeOK, RunShape
      <3>3. NonLocalSound'
        BY <2>6
        DEF OnAvahiNewObject, OnAvahiRemoveObject, table, TypeOK, NonLocalSound, IsLocal
      <3> QED
        BY <3>1, <3>2, <3>3
    <2>7. ASSUME NEW j \in Jobs, InsertStickyNonLocal(n, j)
          PROVE  IInv'
      <3>1. StickyId[j] \in Ids
        BY StickinessAssumption
      <3>2. TypeOK' /\ RunShape'
        BY <2>7, <3>1 DEF InsertStickyNonLocal, map, TypeOK, RunShape
      <3>3. NonLocalSound'
        BY <2>7 DEF InsertStickyNonLocal, map, TypeOK, NonLocalSound, IsLocal
      <3> QED
        BY <3>2, <3>3
    <2>8. ASSUME NEW j \in Jobs, ClaimJob(n, j) \/ SkipJob(n, j)
          PROVE  IInv'
      BY <2>8 DEF ClaimJob, SkipJob, map, table, TypeOK, RunShape, NonLocalSound, IsLocal
    <2>9. ASSUME NEW offered \in SUBSET Plans, SetFilter(n, offered)
          PROVE  IInv'
      BY <2>9 DEF SetFilter, map, table, TypeOK, RunShape, NonLocalSound, IsLocal
    <2>10. CASE RunFails(n)
      BY <2>10 DEF RunFails, map, table, TypeOK, RunShape, NonLocalSound, IsLocal
    <2> QED
      BY <1>2, <2>1, <2>2, <2>3, <2>4, <2>5, <2>6, <2>7, <2>8, <2>9, <2>10 DEF NodeStep
  <1>3. CASE UNCHANGED vars
    BY <1>3 DEF vars, map, table, TypeOK, RunShape, NonLocalSound, IsLocal
  <1> QED
    BY <1>1, <1>2, <1>3 DEF Next

\* The inductive invariant holds in every reachable state.
THEOREM Invariance == Spec => []IInv
  BY InvInit, InvStep, PTL DEF Spec

\* The temporary table sticky_non_local never hides a job that IsLocal would accept,
\* once a batch of Zeroconf changes is complete and its flush has not failed.
THEOREM NonLocalSoundHolds == Spec => []NonLocalSound
  <1>1. IInv => NonLocalSound
    BY DEF IInv
  <1> QED
    BY <1>1, Invariance, PTL

\* A node that has heard of exactly the published services, its own among them,
\* regards an id as local only if it is the rendezvous choice.
LEMMA LocalIsBest ==
  ASSUME NEW n \in Nodes, NEW id \in Ids,
         IsFiniteSet(nodes[n]), nodes[n] = Published, n \in Published, IsLocal(n, id)
  PROVE  n = Best(Published, id)
  <1>1. CASE Cardinality(nodes[n]) <= 1
    <2>1. Cardinality(nodes[n]) = 0 \/ Cardinality(nodes[n]) = 1
      BY <1>1, FS_CardinalityType
    <2>2. PICK m : nodes[n] = {m}
      BY <2>1, FS_EmptySet, FS_Singleton
    <2>3. Published = {n}
      BY <2>2
    <2>4. Score[id][n] \in Nat
      BY StickinessAssumption
    <2>5. Best({n}, id) = n
      BY <2>4 DEF Best
    <2> QED
      BY <2>3, <2>5
  <1>2. CASE ~(Cardinality(nodes[n]) <= 1)
    BY <1>2 DEF IsLocal
  <1> QED
    BY <1>1, <1>2

\* While all nodes agree about who takes part, a job with a sticky_id is only ever
\* claimed on the node with the best score, whatever stale rows the nodes hold.
THEOREM ClaimedByOwnerHolds == Spec => ClaimedByOwner
  <1> DEFINE Owner == Settled => \A j \in Jobs, n \in Nodes :
               job[j] = "waiting" /\ job'[j] = n => n = Best(Published, StickyId[j])
  <1>1. IInv /\ [Next]_vars => Owner
    <2> SUFFICES ASSUME IInv, [Next]_vars, Settled,
                        NEW j \in Jobs, NEW n \in Nodes, job[j] = "waiting", job'[j] = n
                 PROVE  n = Best(Published, StickyId[j])
      OBVIOUS
    <2>1. n # "waiting"
      BY StickinessAssumption
    <2>2. PICK m \in Nodes, k \in Jobs : ClaimJob(m, k)
      BY <2>1
      DEF Next, vars, NodeStep, OnNotify, InsertJob, SwitchQueue, OnConnect,
          OnDisconnect, SelectJobs, RunEnds, OnAvahiAllForNow, OnAvahiNewObject,
          OnAvahiRemoveObject, InsertStickyNonLocal, SetFilter, RunFails, SkipJob, IInv,
          TypeOK
    <2>3. m = n /\ k = j
      BY <2>1, <2>2 DEF ClaimJob, IInv, TypeOK
    <2>4. IsLocal(n, StickyId[j]) /\ n \in Published
      BY <2>2, <2>3 DEF ClaimJob, Published, IInv, RunShape
    <2>5. IsFiniteSet(nodes[n]) /\ nodes[n] = Published /\ StickyId[j] \in Ids
      BY <2>4, StickinessAssumption DEF IInv, RunShape, Settled
    <2> QED
      BY <2>4, <2>5, LocalIsBest
  <1> QED
    BY <1>1, Invariance, PTL DEF Spec, ClaimedByOwner

-----------------------------------------------------------------------------
(***************************************************************************)
(* The owner of an id.                                                     *)
(***************************************************************************)

\* A set of natural numbers which is not empty has a least element.
LEMMA LeastNumber ==
  ASSUME NEW T \in SUBSET Nat, T # {}
  PROVE  \E x \in T : \A y \in T : x <= y
  <1> DEFINE R == {p \in Nat \X Nat : p[1] < p[2]}
  <1>1. R = OpToRel(<, Nat)
    BY DEF OpToRel
  <1>2. IsWellFoundedOn(R, Nat)
    BY <1>1, NatLessThanWellFounded
  <1>3. PICK x \in T : \A y \in T : <<y, x>> \notin R
    <2> HIDE DEF R
    <2> QED
      BY <1>2, WFMin
  <1>4. ASSUME NEW y \in T PROVE x <= y
    <2>1. <<y, x>> \notin R
      BY <1>3
    <2>2. x \in Nat /\ y \in Nat
      OBVIOUS
    <2>3. ~(y < x)
      BY <2>1, <2>2
    <2> QED
      BY <2>2, <2>3
  <1> QED
    BY <1>4

IsBest(m, members, id) == m \in members /\ \A l \in members : Score[id][l] <= Score[id][m]

\* Finitely many nodes have a best one: a smallest set without one would have a smaller
\* set without one.
LEMMA BestExists ==
  ASSUME NEW id \in Ids, NEW S \in SUBSET Nodes, IsFiniteSet(S), S # {}
  PROVE  \E m : IsBest(m, S, id)
  <1> DEFINE Bad == {T \in SUBSET Nodes : IsFiniteSet(T) /\ T # {} /\ \A m : ~IsBest(m, T, id)}
             Sizes == {Cardinality(T) : T \in Bad}
  <1> SUFFICES ASSUME S \in Bad PROVE FALSE
    OBVIOUS
  <1>1. Sizes \in SUBSET Nat /\ Sizes # {}
    BY FS_CardinalityType
  <1>2. PICK least \in Sizes : \A size \in Sizes : least <= size
    <2> HIDE DEF Sizes
    <2> QED
      BY <1>1, LeastNumber
  <1>3. PICK T \in Bad : Cardinality(T) = least
    BY <1>2
  <1>4. PICK x : x \in T
    BY <1>3
  <1> DEFINE U == T \ {x}
  <1>5. IsFiniteSet(U) /\ Cardinality(U) = least - 1 /\ least \in Nat
    BY <1>1, <1>3, <1>4, FS_RemoveElement
  <1>6. U \notin Bad
    BY <1>2, <1>5
  <1>7. \A m \in T : Score[id][m] \in Nat
    BY StickinessAssumption
  <1>8. CASE U = {}
    <2>1. IsBest(x, T, id)
      BY <1>4, <1>7, <1>8 DEF IsBest
    <2> QED
      BY <2>1
  <1>9. CASE U # {}
    <2>1. PICK m : IsBest(m, U, id)
      BY <1>5, <1>6, <1>9
    <2>2. IsBest(m, T, id) \/ IsBest(x, T, id)
      BY <1>4, <1>7, <2>1 DEF IsBest
    <2> QED
      BY <2>2
  <1> QED
    BY <1>8, <1>9

\* It is the rendezvous choice, and there is no other.
LEMMA BestIsBest ==
  ASSUME NEW id \in Ids, NEW S \in SUBSET Nodes, IsFiniteSet(S), S # {}
  PROVE  /\ IsBest(Best(S, id), S, id)
         /\ \A m : IsBest(m, S, id) => m = Best(S, id)
  <1>1. PICK m \in S : \A l \in S : Score[id][l] <= Score[id][m]
    BY BestExists DEF IsBest
  <1>2. IsBest(Best(S, id), S, id)
    BY <1>1 DEF Best, IsBest
  <1>3. ASSUME NEW k, IsBest(k, S, id)
        PROVE  k = Best(S, id)
    <2> DEFINE b == Best(S, id)
    <2>1. k \in Nodes /\ b \in Nodes
      BY <1>2, <1>3 DEF IsBest
    <2>2. Score[id][k] <= Score[id][b] /\ Score[id][b] <= Score[id][k]
      BY <1>2, <1>3 DEF IsBest
    <2> HIDE DEF b
    <2>3. Score[id][k] \in Nat /\ Score[id][b] \in Nat
      BY <2>1, StickinessAssumption
    <2>4. Score[id][k] = Score[id][b]
      BY <2>2, <2>3
    <2>5. k = b
      BY <2>1, <2>4, StickinessAssumption
    <2> QED
      BY <2>5 DEF b
  <1> QED
    BY <1>2, <1>3

\* While all nodes agree about who takes part, every id has one owner: exactly one of
\* the nodes regards its jobs as local, and its temporary table does not hide them if
\* the last flush has not failed.  So IsLocal and the table never refuse a job
\* everywhere; what remains is that the owner may not have the plan.
SettledOwner ==
  Settled /\ Published # {} =>
    \A id \in Ids :
      /\ Best(Published, id) \in Published
      /\ \A n \in Published :
           /\ IsLocal(n, id) <=> n = Best(Published, id)
           /\ n = Best(Published, id) /\ ~changed[n] /\ ~stale[n] =>
                id \notin sticky_non_local[n]

\* SettledOwner holds in every reachable state.
THEOREM SettledOwnerHolds == Spec => []SettledOwner
  <1>1. IInv => SettledOwner
    <2> SUFFICES ASSUME IInv, Settled, Published # {}, NEW id \in Ids
                 PROVE  /\ Best(Published, id) \in Published
                        /\ \A n \in Published :
                             /\ IsLocal(n, id) <=> n = Best(Published, id)
                             /\ n = Best(Published, id) /\ ~changed[n] /\ ~stale[n] =>
                                  id \notin sticky_non_local[n]
      BY DEF SettledOwner
    <2>1. Published \in SUBSET Nodes
      BY DEF Published
    <2>2. \A n \in Published : nodes[n] = Published /\ IsFiniteSet(nodes[n])
      BY <2>1 DEF Settled, IInv, RunShape
    <2>3. IsFiniteSet(Published)
      BY <2>2
    <2>4. IsBest(Best(Published, id), Published, id)
      BY <2>1, <2>3, BestIsBest
    <2>5. Best(Published, id) \in Published
      BY <2>4 DEF IsBest
    <2>6. ASSUME NEW n \in Published, IsLocal(n, id)
          PROVE  n = Best(Published, id)
      BY <2>1, <2>2, <2>6, LocalIsBest
    <2>7. ASSUME NEW n \in Published, n = Best(Published, id)
          PROVE  IsLocal(n, id)
      BY <2>2, <2>7 DEF IsLocal
    <2>8. ASSUME NEW n \in Published, n = Best(Published, id), ~changed[n], ~stale[n]
          PROVE  id \notin sticky_non_local[n]
      BY <2>1, <2>7, <2>8 DEF IInv, NonLocalSound
    <2> QED
      BY <2>5, <2>6, <2>7, <2>8
  <1> QED
    BY <1>1, Invariance, PTL
=============================================================================
