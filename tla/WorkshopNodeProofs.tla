-------------------------- MODULE WorkshopNodeProofs --------------------------
(***************************************************************************)
(* Proofs about WorkshopNode, for any finite table and any plans with      *)
(* their limits, every size of the workplace and of a result set, and all  *)
(* values of the bounds.                                                   *)
(***************************************************************************)
EXTENDS WorkshopNode, FiniteSetTheorems, WellFoundedInduction, TLAPS

Operator == Jobs \X (1..MaxOperators)

JobState == {"new", "waiting", "scheduled", "due", "mine", "other", "done"}

TypeOK ==
  /\ table \in [Jobs -> JobState] /\ hit \subseteq Plans
  /\ loadable \subseteq Plans /\ available \subseteq Plans
  /\ ready \in BOOLEAN /\ notified \in BOOLEAN
  /\ timer \in {"none", "soon", "scheduled", "later"}
  /\ enabled_state \in BOOLEAN /\ enabled_admin \in BOOLEAN /\ disabled_full \in BOOLEAN
  /\ running \in {"no", "first", "second"} /\ interrupt \in BOOLEAN
  /\ rows \subseteq Jobs /\ more \in BOOLEAN
  /\ plans_include \subseteq Plans /\ plans_exclude \subseteq Plans
  /\ plans_lowprio \subseteq Plans /\ rate_limited \subseteq Plans
  /\ operators \subseteq Operator
  /\ progress_plans \subseteq Plans /\ progress_timer \in BOOLEAN
  /\ refused \subseteq Plans
  /\ disconnects \in Nat /\ events \in Nat

\* The filter of the queue is the one that belongs to the operators of the workplace.
FilterCurrent ==
  /\ plans_exclude = GetFullPlanNames(operators)
  /\ plans_lowprio = PlansOf(operators)

\* While a run goes on, no row of its result set belongs to a plan that is full.
RowsStartable ==
  running # "no" /\ ~interrupt => \A j \in rows : PlanOf[j] \notin plans_exclude

\* Only a connected queue has something to do.
Connected ==
  /\ timer # "none" => ready
  /\ notified => ready
  /\ running # "no" => ready

\* The plan of the job passes the filter, and the latest run was able to examine it.
Admitted(j) == PlanOf[j] \in (plans_include \ plans_exclude) \ refused

\* PromptWakeup without what the node cannot know, the rate limits and plan files.
IdleWakeup ==
  running = "no" /\ ready /\ IsEnabled =>
    \A j \in Jobs : table[j] \in {"waiting", "due", "scheduled"} /\ Admitted(j)
                      => timer \in {"soon", "scheduled"} \/ notified

\* A run which is not going to be repeated has every waiting job ahead of it, in the
\* current or in the second result set, unless it is going to be notified of it.
RunComplete ==
  running # "no" /\ IsEnabled /\ ~interrupt /\ ~more =>
    \A j \in Jobs : table[j] = "waiting" /\ Admitted(j)
                      => \/ j \in rows \/ notified
                         \/ running = "first" /\ PlanOf[j] \in plans_lowprio

IInv ==
  /\ TypeOK /\ FilterCurrent /\ RowsStartable /\ FullFlagExact /\ ConcurrencyLimit
  /\ Connected /\ IdleWakeup /\ RunComplete /\ ProgressNotifyPending

-----------------------------------------------------------------------------
(***************************************************************************)
(* Sets of numbers, and the LIMIT of a SELECT.                             *)
(***************************************************************************)

\* A set of natural numbers which is not empty has a least element.
LEMMA LeastNumber ==
  ASSUME NEW T \in SUBSET Nat, T # {}
  PROVE  \E x \in T : \A y \in T : x <= y
  <1> DEFINE R == {p \in Nat \X Nat : p[1] < p[2]}
  <1>1. R = OpToRel(<, Nat)
    BY DEF OpToRel
  <1>2. IsWellFoundedOn(R, Nat)
    BY <1>1, NatLessThanWellFounded
  <1>3. PICK x \in T : \A y \in T : <<y, x>> \notin R
    <2> HIDE DEF R
    <2> QED
      BY <1>2, WFMin
  <1>4. ASSUME NEW y \in T PROVE x <= y
    <2>1. <<y, x>> \notin R
      BY <1>3
    <2>2. x \in Nat /\ y \in Nat
      OBVIOUS
    <2>3. ~(y < x)
      BY <2>1, <2>2
    <2> QED
      BY <2>2, <2>3
  <1> QED
    BY <1>4

\* A bounded one has a greatest element, too.
LEMMA GreatestNumber ==
  ASSUME NEW T \in SUBSET Nat, T # {}, NEW b \in Nat, \A y \in T : y < b
  PROVE  \E x \in T : \A y \in T : y <= x
  <1> DEFINE Bounds == {n \in Nat : \A y \in T : y < n}
  <1>1. b \in Bounds
    OBVIOUS
  <1>2. PICK n \in Bounds : \A m \in Bounds : n <= m
    BY <1>1, LeastNumber
  <1>3. n # 0
    <2>1. PICK y \in T : TRUE
      OBVIOUS
    <2>2. y \in Nat /\ n \in Nat /\ y < n
      OBVIOUS
    <2> QED
      BY <2>2
  <1>4. n - 1 \in Nat /\ n - 1 \notin Bounds
    BY <1>2, <1>3
  <1>5. PICK x \in T : ~(x < n - 1)
    BY <1>4
  <1>6. \A y \in T : y <= x
    BY <1>2, <1>5
  <1> QED
    BY <1>6

\* A SELECT that returns fewer rows than its LIMIT has returned all of them.
LEMMA FewerThanLimit ==
  ASSUME NEW found \in SUBSET Nat, IsFiniteSet(found), NEW limit \in Nat \ {0},
         Cardinality({j \in found : Cardinality({k \in found : k < j}) < limit}) # limit
  PROVE  {j \in found : Cardinality({k \in found : k < j}) < limit} = found
  <1> DEFINE Below(j) == {k \in found : k < j}
             selected == {j \in found : Cardinality(Below(j)) < limit}
             left == found \ selected
  <1>1. SUFFICES ASSUME left # {} PROVE FALSE
    OBVIOUS
  <1>2. PICK j \in left : \A k \in left : j <= k
    <2>1. left \in SUBSET Nat
      OBVIOUS
    <2> HIDE DEF left
    <2> QED
      BY <1>1, <2>1, LeastNumber
  <1>3. ASSUME NEW k \in found
        PROVE  IsFiniteSet(Below(k)) /\ Cardinality(Below(k)) \in Nat
    BY FS_Subset, FS_CardinalityType
  <1>4. ~(Cardinality(Below(j)) < limit)
    BY <1>2
  <1>5. selected = Below(j)
    <2>1. ASSUME NEW k \in selected PROVE k \in Below(j)
      <3>1. SUFFICES ASSUME ~(k < j) PROVE FALSE
        OBVIOUS
      <3>2. Below(j) \subseteq Below(k)
        <4>1. j \in Nat /\ k \in Nat
          OBVIOUS
        <4>2. ASSUME NEW i \in found, i < j PROVE i < k
          BY <3>1, <4>1, <4>2
        <4> QED
          BY <4>2
      <3>3. Cardinality(Below(j)) <= Cardinality(Below(k))
        BY <1>3, <3>2, FS_Subset
      <3>4. Cardinality(Below(k)) < limit
        BY <2>1
      <3> HIDE DEF Below
      <3> QED
        BY <1>3, <1>4, <3>3, <3>4
    <2>2. ASSUME NEW k \in Below(j) PROVE k \in selected
      <3>1. k \notin left
        BY <1>2
      <3> QED
        BY <3>1
    <2> QED
      BY <2>1, <2>2
  <1>6. Below(j) # {}
    <2>1. SUFFICES ASSUME Below(j) = {} PROVE FALSE
      OBVIOUS
    <2>2. Cardinality(Below(j)) = 0
      BY <2>1, FS_EmptySet
    <2> HIDE DEF Below
    <2> QED
      BY <1>4, <2>2
  <1>7. PICK m \in Below(j) : \A k \in Below(j) : k <= m
    <2>1. Below(j) \in SUBSET Nat /\ j \in Nat /\ \A k \in Below(j) : k < j
      OBVIOUS
    <2> HIDE DEF Below
    <2> QED
      BY <1>6, <2>1, GreatestNumber
  <1>8. Below(j) = Below(m) \cup {m} /\ m \notin Below(m)
    <2>1. m \in found /\ m \in Nat /\ j \in Nat /\ m < j
      OBVIOUS
    <2>2. ASSUME NEW i \in found PROVE i < j <=> i < m \/ i = m
      <3>1. i \in Nat
        OBVIOUS
      <3>2. i < j => i <= m
        BY <1>7
      <3> QED
        BY <2>1, <3>1, <3>2
    <2>3. m \notin Below(m)
      BY <2>1
    <2>4. Below(j) \subseteq Below(m) \cup {m}
      BY <2>2
    <2>5. Below(m) \cup {m} \subseteq Below(j)
      BY <2>1, <2>2
    <2> HIDE DEF Below
    <2> QED
      BY <2>3, <2>4, <2>5
  <1>9. Cardinality(Below(m) \cup {m}) = Cardinality(Below(m)) + 1
    <2>1. IsFiniteSet(Below(m))
      BY <1>3
    <2> HIDE DEF Below
    <2> QED
      BY <1>8, <2>1, FS_AddElement
  <1>10. Cardinality(Below(m)) < limit
    <2>1. m \in selected
      BY <1>5
    <2> QED
      BY <2>1
  <1>11. Cardinality(Below(m)) \in Nat
    BY <1>3
  <1>12. Cardinality(selected) = limit
    <2> HIDE DEF Below, selected
    <2> QED
      BY <1>4, <1>5, <1>8, <1>9, <1>10, <1>11
  <1> QED
    BY <1>12

\* What a SELECT returns, and that it is complete unless it has reached the LIMIT.
LEMMA Selected ==
  ASSUME NEW include, NEW exclude
  PROVE  /\ select_new_jobs(include, exclude) \subseteq Jobs
         /\ \A j \in select_new_jobs(include, exclude) :
              PlanOf[j] \in include /\ PlanOf[j] \notin exclude
         /\ Cardinality(select_new_jobs(include, exclude)) # RowLimit =>
              \A j \in Jobs : /\ table[j] = "waiting"
                              /\ PlanOf[j] \in include /\ PlanOf[j] \notin exclude
                              => j \in select_new_jobs(include, exclude)
  <1> DEFINE found == {j \in Jobs : /\ table[j] \in {"waiting", "due"}
                                    /\ PlanOf[j] \in include /\ PlanOf[j] \notin exclude}
             sel == {j \in found : Cardinality({k \in found : k < j}) < RowLimit}
  <1>1. select_new_jobs(include, exclude) = sel
    BY DEF select_new_jobs
  <1>2. found \in SUBSET Nat /\ IsFiniteSet(found) /\ RowLimit \in Nat \ {0}
    BY NodeAssumption, FS_Subset
  <1>3. Cardinality(sel) # RowLimit => sel = found
    <2> HIDE DEF found
    <2> QED
      BY <1>2, FewerThanLimit
  <1>4. sel \subseteq found
    OBVIOUS
  <1>5. \A j \in found : j \in Jobs /\ PlanOf[j] \in include /\ PlanOf[j] \notin exclude
    OBVIOUS
  <1>6. \A j \in Jobs : table[j] = "waiting" /\ PlanOf[j] \in include /\ PlanOf[j] \notin exclude
                          => j \in found
    OBVIOUS
  <1> HIDE DEF found, sel
  <1> QED
    BY <1>1, <1>3, <1>4, <1>5, <1>6

-----------------------------------------------------------------------------
(***************************************************************************)
(* Operators and the filter.                                               *)
(***************************************************************************)

\* Only finitely many operators are possible.
LEMMA OperatorsFinite ==
  ASSUME NEW ops \in SUBSET Operator
  PROVE  IsFiniteSet(ops) /\ Cardinality(ops) \in Nat
  <1>1. IsFiniteSet(1..MaxOperators) /\ IsFiniteSet(Jobs)
    BY NodeAssumption, FS_Interval
  <1>2. IsFiniteSet(Operator)
    BY <1>1, FS_Product DEF Operator
  <1> QED
    BY <1>2, FS_Subset, FS_CardinalityType

\* The plans of a list of operators are plans.
LEMMA PlansOfType ==
  ASSUME NEW ops \in SUBSET Operator
  PROVE  PlansOf(ops) \subseteq Plans /\ GetFullPlanNames(ops) \subseteq Plans
  <1>1. ASSUME NEW o \in ops PROVE PlanOf[o[1]] \in Plans
    BY NodeAssumption DEF Operator
  <1> QED
    BY <1>1 DEF PlansOf, GetFullPlanNames

\* A workplace which is not full has a number for a new operator.
LEMMA NewOperatorExists ==
  ASSUME NEW j \in Jobs, operators \subseteq Operator, ~IsFull(operators),
         Cardinality(operators) <= MaxOperators
  PROVE  /\ NewOperator(j) \in Operator \ operators
         /\ NewOperator(j)[1] = j
  <1> DEFINE slots == 1..MaxOperators
             f == [k \in slots |-> <<j, k>>]
  <1>1. \E k \in slots : <<j, k>> \notin operators
    <2> SUFFICES ASSUME \A k \in slots : <<j, k>> \in operators
                 PROVE  FALSE
      OBVIOUS
    <2>1. f \in Injection(slots, operators)
      BY DEF Injection, IsInjective
    <2>2. IsFiniteSet(operators) /\ Cardinality(operators) \in Nat
      BY OperatorsFinite
    <2>3. IsFiniteSet(slots) /\ Cardinality(slots) = MaxOperators
      BY NodeAssumption, FS_Interval
    <2>4. Cardinality(slots) <= Cardinality(operators)
      <3> HIDE DEF slots, f
      <3> QED
        BY <2>1, <2>2, FS_Injection
    <2> QED
      BY <2>2, <2>3, <2>4, NodeAssumption DEF IsFull
  <1> DEFINE k == CHOOSE i \in slots : <<j, i>> \notin operators
  <1>2. k \in slots /\ <<j, k>> \notin operators
    BY <1>1
  <1>3. NewOperator(j) = <<j, k>>
    BY DEF NewOperator
  <1> HIDE DEF k
  <1> QED
    BY <1>2, <1>3 DEF Operator

\* What SetFilter leaves behind: the filter of the operators, a run that is interrupted
\* if its filter is not the current one, and a timer if the idle queue has a new filter.
FilterSet(ops, reschedule) ==
  /\ rate_limited' \subseteq Plans /\ plans_include' \subseteq Plans
  /\ plans_exclude' = GetFullPlanNames(ops) /\ plans_lowprio' = PlansOf(ops)
  /\ interrupt' \in BOOLEAN
  /\ (timer' = "soon" /\ (reschedule \/ ready)) \/ timer' = timer
  /\ reschedule => timer' = "soon"
  /\ interrupt => interrupt'
  /\ \/ plans_include' = plans_include /\ plans_exclude' = plans_exclude
     \/ running # "no" /\ interrupt'
     \/ running = "no" /\ (ready => timer' = "soon")

\* UpdateFilter sets the filter that belongs to the operators.
LEMMA UpdateFilterStep ==
  ASSUME TypeOK, NEW avail \in SUBSET Plans, NEW limited \in SUBSET Plans,
         NEW ops, NEW reschedule \in BOOLEAN,
         UpdateFilter(avail, limited, ops, reschedule)
  PROVE  FilterSet(ops, reschedule)
  <1>1. rate_limited' \subseteq Plans /\ plans_include' \subseteq Plans
    BY DEF UpdateFilter
  <1>2. plans_exclude' = GetFullPlanNames(ops) /\ plans_lowprio' = PlansOf(ops)
    BY DEF UpdateFilter, GetRunningPlanNames
  <1>3. PICK changed \in BOOLEAN :
          /\ ~changed => plans_include' = plans_include /\ plans_exclude' = plans_exclude
          /\ interrupt' = (interrupt \/ (changed /\ running # "no"))
          /\ timer' = IF reschedule \/ (changed /\ running = "no" /\ ready)
                        THEN "soon" ELSE timer
    BY DEF UpdateFilter
  <1>4. interrupt \in BOOLEAN /\ ready \in BOOLEAN
    BY DEF TypeOK
  <1> QED
    BY <1>1, <1>2, <1>3, <1>4 DEF FilterSet

\* So does UpdateLibraryAndFilter, with the plans that are available.
LEMMA UpdateLibraryStep ==
  ASSUME TypeOK, NEW force \in BOOLEAN, NEW ops, NEW reschedule \in BOOLEAN,
         UpdateLibraryAndFilter(force, ops, reschedule)
  PROVE  FilterSet(ops, reschedule) /\ available' \subseteq Plans
  <1>1. PICK avail \in {available, loadable}, modified \in BOOLEAN :
          /\ available' = avail
          /\ UpdateFilter(avail, IF modified THEN {} ELSE rate_limited, ops, reschedule)
    BY DEF UpdateLibraryAndFilter
  <1>2. avail \in SUBSET Plans /\ (IF modified THEN {} ELSE rate_limited) \in SUBSET Plans
    BY DEF TypeOK
  <1> QED
    BY <1>1, <1>2, UpdateFilterStep

\* The actions that update the filter, in terms of what they find.
LEMMA RateLimitFilter ==
  ASSUME TypeOK, NEW j \in Jobs, RateLimitHit(j)
  PROVE  /\ FilterSet(operators, FALSE) /\ available' \subseteq Plans
         /\ PlanOf[j] \notin plans_include'
  <1>1. PlanOf[j] \in Plans
    BY NodeAssumption
  <1>2. available' = available \cup {PlanOf[j]}
    BY DEF RateLimitHit, GetWorkshopPlan
  <1>3. UpdateFilter(available \cup {PlanOf[j]}, rate_limited \cup {PlanOf[j]}, operators, FALSE)
    BY <1>2 DEF RateLimitHit, UpdateFilter
  <1>4. /\ available \cup {PlanOf[j]} \in SUBSET Plans
        /\ rate_limited \cup {PlanOf[j]} \in SUBSET Plans
    BY <1>1 DEF TypeOK
  <1>5. FilterSet(operators, FALSE)
    BY <1>3, <1>4, UpdateFilterStep
  <1>6. PlanOf[j] \notin plans_include'
    BY DEF RateLimitHit, UpdateFilter
  <1> QED
    BY <1>2, <1>4, <1>5, <1>6

\* The handlers that call UpdateFilter: starting a job.
LEMMA StartFilter ==
  ASSUME TypeOK, NEW j \in Jobs, StartWorkshopJob(j)
  PROVE  /\ FilterSet(operators \cup {NewOperator(j)}, FALSE)
         /\ available' \subseteq Plans
  <1>1. available' = available \cup {PlanOf[j]} /\ operators' = operators \cup {NewOperator(j)}
    BY DEF StartWorkshopJob, GetWorkshopPlan
  <1>2. UpdateFilter(available \cup {PlanOf[j]}, rate_limited,
                     operators \cup {NewOperator(j)}, FALSE)
    BY <1>1 DEF StartWorkshopJob, UpdateFilter
  <1>3. available \cup {PlanOf[j]} \in SUBSET Plans /\ rate_limited \in SUBSET Plans
    BY NodeAssumption DEF TypeOK
  <1> QED
    BY <1>1, <1>2, <1>3, UpdateFilterStep

\* Does the workplace become available when this operator ends?
Reenabled(o) ==
  disabled_full /\ ~IsFull(operators \ {o}) /\ CheckEnabled(enabled_state, enabled_admin, FALSE)

\* The end of an operator.
LEMMA OperatorGoneFilter ==
  ASSUME TypeOK, NEW o \in operators, OperatorGone(o)
  PROVE  FilterSet(operators \ {o}, Reenabled(o)) /\ available' \subseteq Plans
  <1>1. operators' = operators \ {o}
    BY DEF OperatorGone
  <1>2. UpdateLibraryAndFilter(FALSE, operators \ {o}, Reenabled(o))
    BY <1>1 DEF OperatorGone, UpdateLibraryAndFilter, UpdateFilter, Reenabled
  <1>3. Reenabled(o) \in BOOLEAN
    BY DEF Reenabled
  <1> QED
    BY <1>2, <1>3, UpdateLibraryStep

\* Reloading the plan library.
LEMMA ReloadFilter ==
  ASSUME TypeOK, NEW state \in BOOLEAN, OnReload(state)
  PROVE  /\ FilterSet(operators,
              state # enabled_state /\ CheckEnabled(state, enabled_admin, disabled_full))
         /\ available' \subseteq Plans
  BY UpdateLibraryStep DEF OnReload

\* The end of a rate limit.
LEMMA RateTimerFilter ==
  ASSUME TypeOK, OnRateLimitTimer
  PROVE  FilterSet(operators, FALSE)
  BY UpdateFilterStep DEF OnRateLimitTimer, TypeOK

\* A plan that turns out not to be loadable.
LEMMA StartFailsFilter ==
  ASSUME TypeOK, NEW j \in Jobs, StartFails(j)
  PROVE  FilterSet(operators, FALSE) /\ available' \subseteq Plans
  BY UpdateLibraryStep DEF StartFails

\* A filter consists of plans.
LEMMA FilterSetType ==
  ASSUME TypeOK, NEW ops \in SUBSET Operator, NEW reschedule, FilterSet(ops, reschedule)
  PROVE  /\ plans_include' \subseteq Plans /\ plans_exclude' \subseteq Plans
         /\ plans_lowprio' \subseteq Plans /\ rate_limited' \subseteq Plans
         /\ interrupt' \in BOOLEAN /\ timer' \in {"none", "soon", "scheduled", "later"}
  BY PlansOfType DEF FilterSet, TypeOK

-----------------------------------------------------------------------------
(***************************************************************************)
(* Types.                                                                  *)
(***************************************************************************)
LEMMA EnvironmentType ==
  ASSUME TypeOK, Environment
  PROVE  TypeOK'
  <1> USE NodeAssumption
  <1> USE DEF TypeOK, JobState, NodeVars, dbVars, enableVars, runVars, filterVars,
              progressVars, boundVars
  <1>1. CASE \E j \in Jobs, state \in {"waiting", "scheduled"} : InsertJob(j, state)
    BY <1>1 DEF InsertJob
  <1>2. CASE \E j \in Jobs : ScheduledTimePasses(j)
    BY <1>2 DEF ScheduledTimePasses
  <1>3. CASE \E j \in Jobs : OtherNodeClaims(j)
    BY <1>3 DEF OtherNodeClaims
  <1>4. CASE \E j \in Jobs : OtherNodeDone(j)
    BY <1>4 DEF OtherNodeDone
  <1>5. CASE \E j \in Jobs, state \in {"waiting", "scheduled"} : OtherNodeReturns(j, state)
    BY <1>5 DEF OtherNodeReturns
  <1>6. CASE \E p \in Plans : RateIntervalPasses(p)
    BY <1>6 DEF RateIntervalPasses
  <1>7. CASE \E p \in Plans : PlanFileChanges(p)
    BY <1>7 DEF PlanFileChanges
  <1>8. CASE \E p \in Plans : PlanDisableExpires(p)
    BY <1>8 DEF PlanDisableExpires
  <1> QED
    BY <1>1, <1>2, <1>3, <1>4, <1>5, <1>6, <1>7, <1>8 DEF Environment

\* The steps of a queue run keep the types.
LEMMA RunType ==
  ASSUME TypeOK, FullFlagExact, Run \/ RunFails
  PROVE  TypeOK'
  <1> USE NodeAssumption
  <1> USE DEF TypeOK, JobState, dbVars, enableVars, runVars, filterVars, progressVars,
              boundVars
  <1>1. CASE BeginRun
    <2>1. CASE IsEnabled /\ plans_include # {}
      <3>1. rows' = select_new_jobs(plans_include, plans_exclude \cup plans_lowprio)
        BY <1>1, <2>1 DEF BeginRun
      <3>2. rows' \subseteq Jobs
        BY <3>1, Selected
      <3> QED
        BY <1>1, <2>1, <3>2 DEF BeginRun
    <2>2. CASE ~(IsEnabled /\ plans_include # {})
      BY <1>1, <2>2 DEF BeginRun
    <2> QED
      BY <2>1, <2>2
  <1>2. CASE SelectLowprio
    BY <1>2, Selected DEF SelectLowprio
  <1>3. CASE EndRun
    BY <1>3 DEF EndRun, NextScheduled
  <1>4. CASE \E j \in Jobs : PlanMissing(j)
    BY <1>4 DEF PlanMissing, NextRow
  <1>5. ASSUME NEW j \in Jobs, RateLimitHit(j) PROVE TypeOK'
    <2>1. FilterSet(operators, FALSE) /\ available' \subseteq Plans
      BY <1>5, RateLimitFilter
    <2>2. operators \in SUBSET Operator
      OBVIOUS
    <2> QED
      BY <1>5, <2>1, <2>2, FilterSetType DEF RateLimitHit, NextRow
  <1>6. CASE \E j \in Jobs : ClaimMiss(j)
    BY <1>6 DEF ClaimMiss, RowPasses, GetWorkshopPlan, NextRow
  <1>7. ASSUME NEW j \in Jobs, StartWorkshopJob(j) PROVE TypeOK'
    <2> DEFINE ops == operators \cup {NewOperator(j)}
    <2>1. FilterSet(ops, FALSE) /\ available' \subseteq Plans
      BY <1>7, StartFilter
    <2>2. ops \in SUBSET Operator /\ operators' = ops
      BY <1>7, NewOperatorExists DEF StartWorkshopJob, RowPasses, FullFlagExact
    <2> HIDE DEF ops
    <2>3. disabled_full' \in BOOLEAN
      BY <1>7 DEF StartWorkshopJob, IsFull
    <2>4. hit' \subseteq Plans /\ table' \in [Jobs -> JobState] /\ rows' \subseteq Jobs
      BY <1>7 DEF StartWorkshopJob, RowPasses, NextRow
    <2> QED
      BY <1>7, <2>1, <2>2, <2>3, <2>4, FilterSetType DEF StartWorkshopJob
  <1>8. ASSUME NEW j \in Jobs, StartFails(j) PROVE TypeOK'
    <2>1. FilterSet(operators, FALSE) /\ available' \subseteq Plans
      BY <1>8, StartFailsFilter
    <2>2. operators \in SUBSET Operator
      OBVIOUS
    <2> QED
      BY <1>8, <2>1, <2>2, FilterSetType DEF StartFails, RowPasses, NextRow
  <1>9. CASE RunFails
    <2>1. disconnects' \in Nat
      BY <1>9 DEF RunFails
    <2>2. more' \in BOOLEAN /\ rows' \subseteq Jobs /\ refused' \subseteq Plans
      BY <1>9 DEF RunFails
    <2>3. /\ running' = "no"
          /\ UNCHANGED <<dbVars, loadable, available, ready, notified, timer, enableVars,
                         interrupt, filterVars, operators, progressVars, events>>
      BY <1>9 DEF RunFails
    <2> QED
      BY <2>1, <2>2, <2>3
  <1> QED
    BY <1>1, <1>2, <1>3, <1>4, <1>5, <1>6, <1>7, <1>8, <1>9 DEF Run

\* So do the handlers.
LEMMA HandlerType ==
  ASSUME TypeOK, Handler
  PROVE  TypeOK'
  <1> USE NodeAssumption
  <1> USE DEF TypeOK, JobState, dbVars, enableVars, runVars, filterVars, progressVars,
              boundVars
  <1>1. CASE OnNotify
    BY <1>1 DEF OnNotify
  <1>2. CASE OnRateLimitTimer
    <2>1. FilterSet(operators, FALSE) /\ operators \in SUBSET Operator
      BY <1>2, RateTimerFilter
    <2> QED
      BY <1>2, <2>1, FilterSetType DEF OnRateLimitTimer
  <1>3. CASE OnProgressNotifyTimer
    BY <1>3 DEF OnProgressNotifyTimer
  <1>4. CASE OnConnect
    BY <1>4 DEF OnConnect
  <1>5. CASE OnDisconnect
    <2>1. disconnects' \in Nat
      BY <1>5 DEF OnDisconnect
    <2>3. /\ more' \in BOOLEAN /\ ready' \in BOOLEAN
          /\ notified' \in BOOLEAN /\ progress_timer' \in BOOLEAN
      BY <1>5 DEF OnDisconnect
    <2>2. /\ running' = "no" /\ timer' = "none" /\ rows' \subseteq Jobs
          /\ UNCHANGED <<dbVars, loadable, available, enableVars, refused, interrupt,
                         filterVars, operators, progress_plans, events>>
      BY <1>5 DEF OnDisconnect
    <2> QED
      BY <2>1, <2>2, <2>3
  <1>6. ASSUME NEW o \in operators, OperatorGone(o),
               table' \in [Jobs -> JobState], notified' \in BOOLEAN, events' \in Nat,
               hit' = hit
        PROVE  TypeOK'
    <2> DEFINE ops == operators \ {o}
    <2>1. FilterSet(ops, Reenabled(o)) /\ available' \subseteq Plans
      BY <1>6, OperatorGoneFilter
    <2>2. ops \in SUBSET Operator /\ operators' = ops
      BY <1>6 DEF OperatorGone
    <2> HIDE DEF ops
    <2>3. disabled_full' \in BOOLEAN
      BY <1>6 DEF OperatorGone, IsFull
    <2> QED
      BY <1>6, <2>1, <2>2, <2>3, FilterSetType DEF OperatorGone
  <1>7. ASSUME NEW o \in operators, JobDone(o) PROVE TypeOK'
    BY <1>6, <1>7 DEF JobDone
  <1>8. ASSUME NEW o \in operators, NEW state \in {"waiting", "scheduled"}, JobAgain(o, state)
        PROVE  TypeOK'
    <2>1. table' \in [Jobs -> JobState]
      BY <1>8 DEF JobAgain
    <2>2. notified' \in BOOLEAN /\ events' \in Nat
      BY <1>8 DEF JobAgain
    <2>3. OperatorGone(o) /\ hit' = hit
      BY <1>8 DEF JobAgain
    <2> HIDE DEF TypeOK, JobState
    <2> QED
      BY <1>6, <2>1, <2>2, <2>3
  <1>9. ASSUME NEW state \in BOOLEAN, OnReload(state) PROVE TypeOK'
    <2> DEFINE reschedule == /\ state # enabled_state
                             /\ CheckEnabled(state, enabled_admin, disabled_full)
    <2>1. /\ FilterSet(operators, reschedule) /\ available' \subseteq Plans
          /\ operators \in SUBSET Operator
      BY <1>9, ReloadFilter
    <2> HIDE DEF reschedule
    <2> QED
      BY <1>9, <2>1, FilterSetType DEF OnReload
  <1>10. CASE \E admin \in BOOLEAN : SetAdmin(admin)
    <2>1. events' \in Nat /\ enabled_admin' \in BOOLEAN
      BY <1>10 DEF SetAdmin
    <2>2. timer' \in {"none", "soon", "scheduled", "later"}
      BY <1>10 DEF SetAdmin
    <2> QED
      BY <1>10, <2>1, <2>2 DEF SetAdmin
  <1>11. CASE \E p \in Plans : SetJobProgress(p)
    BY <1>11 DEF SetJobProgress
  <1> QED
    BY <1>1, <1>2, <1>3, <1>4, <1>5, <1>7, <1>8, <1>9, <1>10, <1>11 DEF Handler

\* Every step keeps the types.
LEMMA TypeStep ==
  ASSUME TypeOK, FullFlagExact, [Next]_vars
  PROVE  TypeOK'
  <1>1. CASE UNCHANGED vars
    BY <1>1 DEF TypeOK, vars, dbVars, enableVars, runVars, filterVars, progressVars, boundVars
  <1> QED
    BY <1>1, EnvironmentType, RunType, HandlerType DEF Next

-----------------------------------------------------------------------------
(***************************************************************************)
(* What the steps do to the workplace.                                     *)
(***************************************************************************)

\* A step starts an operator with a row of the run, ends one, or leaves them alone.
Unaffected == UNCHANGED <<operators, disabled_full>>

Started(j) ==
  /\ running # "no" /\ ~interrupt /\ ~disabled_full /\ j \in rows
  /\ ~IsFull(operators)
  /\ operators' = operators \cup {NewOperator(j)}
  /\ disabled_full' = (disabled_full \/ IsFull(operators'))

Ended(o) ==
  /\ operators' = operators \ {o}
  /\ disabled_full' = (disabled_full /\ IsFull(operators'))

\* These are all the ways in which the list of operators changes.
LEMMA WorkplaceStep ==
  ASSUME [Next]_vars
  PROVE  \/ Unaffected
         \/ \E j \in Jobs : Started(j)
         \/ \E o \in operators : Ended(o)
  <1> USE DEF Unaffected, NodeVars, enableVars
  <1>1. CASE UNCHANGED vars
    BY <1>1 DEF vars
  <1>2. CASE Environment
    BY <1>2 DEF Environment, InsertJob, ScheduledTimePasses, OtherNodeClaims, OtherNodeDone,
                OtherNodeReturns, RateIntervalPasses, PlanFileChanges, PlanDisableExpires
  <1>3. CASE RunFails
    BY <1>3 DEF RunFails
  <1>4. CASE Run
    <2>1. ASSUME NEW j \in Jobs, StartWorkshopJob(j) PROVE Started(j)
      BY <2>1 DEF StartWorkshopJob, RowPasses, NextRow, IsEnabled, Started
    <2>2. CASE BeginRun \/ SelectLowprio \/ EndRun
      BY <2>2 DEF BeginRun, SelectLowprio, EndRun
    <2>3. CASE \E j \in Jobs : PlanMissing(j) \/ RateLimitHit(j) \/ ClaimMiss(j)
                                 \/ StartFails(j)
      BY <2>3 DEF PlanMissing, RateLimitHit, ClaimMiss, StartFails
    <2> QED
      BY <1>4, <2>1, <2>2, <2>3 DEF Run
  <1>5. CASE Handler
    <2>1. ASSUME NEW o \in operators, OperatorGone(o) PROVE Ended(o)
      BY <2>1 DEF OperatorGone, Ended
    <2>2. CASE OnNotify \/ OnRateLimitTimer \/ OnProgressNotifyTimer
      BY <2>2 DEF OnNotify, OnRateLimitTimer, OnProgressNotifyTimer
    <2>3. CASE OnConnect \/ OnDisconnect
      BY <2>3 DEF OnConnect, OnDisconnect
    <2>4. CASE \/ \E state \in BOOLEAN : OnReload(state)
               \/ \E admin \in BOOLEAN : SetAdmin(admin)
               \/ \E p \in Plans : SetJobProgress(p)
      BY <2>4 DEF OnReload, SetAdmin, SetJobProgress
    <2> QED
      BY <1>5, <2>1, <2>2, <2>3, <2>4 DEF Handler, JobDone, JobAgain
  <1> QED
    BY <1>1, <1>2, <1>3, <1>4, <1>5 DEF Next

\* disabled_full stays exact.
LEMMA FullFlagStep ==
  ASSUME TypeOK, FullFlagExact, [Next]_vars
  PROVE  FullFlagExact'
  <1>1. IsFiniteSet(operators) /\ Cardinality(operators) \in Nat
    BY OperatorsFinite DEF TypeOK
  <1>2. CASE Unaffected
    BY <1>2 DEF Unaffected, FullFlagExact, IsFull
  <1>3. ASSUME NEW j \in Jobs, Started(j) PROVE FullFlagExact'
    <2>1. NewOperator(j) \in Operator \ operators
      BY <1>3, NewOperatorExists DEF Started, TypeOK, FullFlagExact
    <2>2. Cardinality(operators \cup {NewOperator(j)}) = Cardinality(operators) + 1
      BY <1>1, <2>1, FS_AddElement
    <2>3. Cardinality(operators') = Cardinality(operators) + 1
      BY <1>3, <2>2 DEF Started
    <2>4. Cardinality(operators) <= MaxOperators /\ Cardinality(operators) # MaxOperators
      BY <1>3 DEF Started, FullFlagExact, IsFull
    <2>5. Cardinality(operators') <= MaxOperators
      BY <1>1, <2>3, <2>4, NodeAssumption
    <2>6. disabled_full' <=> IsFull(operators')
      BY <1>3 DEF Started
    <2> QED
      BY <2>5, <2>6 DEF FullFlagExact, IsFull
  <1>4. ASSUME NEW o \in operators, Ended(o) PROVE FullFlagExact'
    <2>1. Cardinality(operators \ {o}) = Cardinality(operators) - 1
      BY <1>1, FS_RemoveElement
    <2>2. Cardinality(operators') = Cardinality(operators) - 1
      BY <1>4, <2>1 DEF Ended
    <2>3. Cardinality(operators) <= MaxOperators
      BY DEF FullFlagExact
    <2>4. Cardinality(operators') <= MaxOperators /\ Cardinality(operators') # MaxOperators
      BY <1>1, <2>2, <2>3, NodeAssumption
    <2>5. ~IsFull(operators')
      BY <2>4 DEF IsFull
    <2>6. disabled_full' <=> IsFull(operators')
      BY <1>4, <2>5 DEF Ended
    <2> QED
      BY <2>4, <2>6 DEF FullFlagExact, IsFull
  <1> QED
    BY <1>2, <1>3, <1>4, WorkplaceStep

\* No plan gets more operators than its setting allows.
LEMMA ConcurrencyStep ==
  ASSUME TypeOK, FilterCurrent, RowsStartable, FullFlagExact, ConcurrencyLimit, [Next]_vars
  PROVE  ConcurrencyLimit'
  <1> DEFINE Of(p, ops) == {o \in ops : PlanOf[o[1]] = p}
  <1> SUFFICES ASSUME NEW p \in Plans, Concurrency[p] # 0
               PROVE  Cardinality(Of(p, operators')) <= Concurrency[p]
    BY DEF ConcurrencyLimit
  <1>1. Concurrency[p] \in Nat
    BY NodeAssumption
  <1>2. Cardinality(Of(p, operators)) <= Concurrency[p]
    BY DEF ConcurrencyLimit
  <1>3. IsFiniteSet(Of(p, operators)) /\ Cardinality(Of(p, operators)) \in Nat
    <2>1. Of(p, operators) \in SUBSET Operator
      BY DEF TypeOK
    <2> QED
      BY <2>1, OperatorsFinite
  <1>4. CASE Unaffected
    BY <1>2, <1>4 DEF Unaffected
  <1>5. ASSUME NEW j \in Jobs, Started(j), PlanOf[j] # p
        PROVE  Cardinality(Of(p, operators')) <= Concurrency[p]
    <2>1. NewOperator(j)[1] = j
      BY <1>5, NewOperatorExists DEF Started, TypeOK, FullFlagExact
    <2>2. Of(p, operators') = Of(p, operators)
      BY <1>5, <2>1 DEF Started
    <2> QED
      BY <1>2, <2>2
  <1>6. ASSUME NEW j \in Jobs, Started(j), PlanOf[j] = p
        PROVE  Cardinality(Of(p, operators')) <= Concurrency[p]
    <2>1. NewOperator(j)[1] = j /\ NewOperator(j) \notin operators
      BY <1>6, NewOperatorExists DEF Started, TypeOK, FullFlagExact
    <2>2. Of(p, operators') = Of(p, operators) \cup {NewOperator(j)}
      BY <1>6, <2>1 DEF Started
    <2>3. NewOperator(j) \notin Of(p, operators)
      BY <2>1
    <2>4. p \notin GetFullPlanNames(operators)
      BY <1>6 DEF Started, RowsStartable, FilterCurrent
    <2>5. Cardinality(Of(p, operators)) < Concurrency[p]
      <3>1. CASE p \in PlansOf(operators)
        <4>1. ~(Cardinality(Of(p, operators)) >= Concurrency[p])
          BY <2>4, <3>1 DEF GetFullPlanNames
        <4> HIDE DEF Of
        <4> QED
          BY <1>1, <1>3, <4>1
      <3>2. CASE p \notin PlansOf(operators)
        <4>1. Of(p, operators) = {}
          BY <3>2 DEF PlansOf
        <4>2. Cardinality(Of(p, operators)) = 0
          BY <4>1, FS_EmptySet
        <4> HIDE DEF Of
        <4> QED
          BY <1>1, <4>2
      <3> QED
        BY <3>1, <3>2
    <2> HIDE DEF Of
    <2>6. Cardinality(Of(p, operators) \cup {NewOperator(j)}) = Cardinality(Of(p, operators)) + 1
      BY <1>3, <2>3, FS_AddElement
    <2>7. Cardinality(Of(p, operators)) + 1 <= Concurrency[p]
      BY <1>1, <1>3, <2>5
    <2> QED
      BY <2>2, <2>6, <2>7
  <1>7. ASSUME NEW o \in operators, Ended(o)
        PROVE  Cardinality(Of(p, operators')) <= Concurrency[p]
    <2>1. Of(p, operators') \subseteq Of(p, operators)
      BY <1>7 DEF Ended
    <2> HIDE DEF Of
    <2>2. /\ Cardinality(Of(p, operators')) <= Cardinality(Of(p, operators))
          /\ Cardinality(Of(p, operators')) \in Nat
      BY <1>3, <2>1, FS_Subset, FS_CardinalityType
    <2> QED
      BY <1>1, <1>2, <1>3, <2>2
  <1> QED
    BY <1>4, <1>5, <1>6, <1>7, WorkplaceStep

-----------------------------------------------------------------------------
(***************************************************************************)
(* What the steps do to the queue.                                         *)
(***************************************************************************)
Queue ==
  /\ FilterCurrent /\ RowsStartable /\ Connected /\ IdleWakeup /\ RunComplete
  /\ ProgressNotifyPending

Free == {"waiting", "due", "scheduled"}

\* The environment announces every job that becomes available.
Announced ==
  /\ UNCHANGED <<NodeVars, disconnects>>
  /\ (notified' <=> notified) \/ (notified' <=> ready)
  /\ \A j \in Jobs :
       /\ table'[j] \in Free => table[j] \in Free \/ (notified' <=> ready)
       /\ table'[j] = "waiting" => table[j] = "waiting" \/ (notified' <=> ready)

\* Whatever clients, other nodes and clocks do is announced.
LEMMA EnvironmentAnnounces ==
  ASSUME TypeOK, Environment
  PROVE  Announced
  <1> USE DEF TypeOK, Announced, Free, boundVars
  <1>1. ASSUME NEW j \in Jobs, NEW state, InsertJob(j, state) PROVE Announced
    BY <1>1 DEF InsertJob
  <1>2. ASSUME NEW j \in Jobs, ScheduledTimePasses(j) PROVE Announced
    BY <1>2 DEF ScheduledTimePasses
  <1>3. ASSUME NEW j \in Jobs, OtherNodeClaims(j) PROVE Announced
    BY <1>3 DEF OtherNodeClaims
  <1>4. ASSUME NEW j \in Jobs, OtherNodeDone(j) PROVE Announced
    BY <1>4 DEF OtherNodeDone
  <1>5. ASSUME NEW j \in Jobs, NEW state, OtherNodeReturns(j, state) PROVE Announced
    BY <1>5 DEF OtherNodeReturns
  <1>6. ASSUME NEW p \in Plans, RateIntervalPasses(p) PROVE Announced
    BY <1>6 DEF RateIntervalPasses
  <1>7. ASSUME NEW p \in Plans, PlanFileChanges(p) PROVE Announced
    BY <1>7 DEF PlanFileChanges, dbVars
  <1>8. ASSUME NEW p \in Plans, PlanDisableExpires(p) PROVE Announced
    BY <1>8 DEF PlanDisableExpires, dbVars
  <1> HIDE DEF Announced
  <1> QED
    BY <1>1, <1>2, <1>3, <1>4, <1>5, <1>6, <1>7, <1>8 DEF Environment

\* What the environment does is seen by the queue.
LEMMA EnvironmentQueue ==
  ASSUME TypeOK, Queue, Environment
  PROVE  Queue'
  <1> USE DEF Queue
  <1>1. Announced
    BY EnvironmentAnnounces
  <1>2. UNCHANGED <<NodeVars, disconnects>>
    BY <1>1 DEF Announced
  <1>3. /\ UNCHANGED <<ready, timer, running, rows, more, refused, interrupt, operators>>
        /\ UNCHANGED <<enabled_state, enabled_admin, disabled_full>>
        /\ UNCHANGED <<plans_include, plans_exclude, plans_lowprio>>
        /\ UNCHANGED <<progress_plans, progress_timer, disconnects>>
    BY <1>2 DEF NodeVars, enableVars, runVars, filterVars, progressVars
  <1>4. notified => notified'
    BY <1>1 DEF Announced, Connected, TypeOK
  <1>5. FilterCurrent'
    BY <1>3 DEF FilterCurrent, GetFullPlanNames, PlansOf
  <1>6. RowsStartable' /\ ProgressNotifyPending'
    BY <1>3 DEF RowsStartable, ProgressNotifyPending
  <1>7. Connected'
    BY <1>1, <1>3 DEF Connected, Announced
  <1>8. IdleWakeup'
    <2> SUFFICES ASSUME running = "no", ready, IsEnabled,
                        NEW j \in Jobs, table'[j] \in Free, Admitted(j)
                 PROVE  timer \in {"soon", "scheduled"} \/ notified'
      BY <1>3 DEF IdleWakeup, Admitted, IsEnabled, Free
    <2>1. table[j] \in Free \/ notified'
      BY <1>1 DEF Announced
    <2> QED
      BY <1>4, <2>1 DEF IdleWakeup, Free
  <1>9. RunComplete'
    <2> SUFFICES ASSUME running # "no", IsEnabled, ~interrupt, ~more,
                        NEW j \in Jobs, table'[j] = "waiting", Admitted(j)
                 PROVE  \/ j \in rows \/ notified'
                        \/ running = "first" /\ PlanOf[j] \in plans_lowprio
      BY <1>3 DEF RunComplete, Admitted, IsEnabled
    <2>1. table[j] = "waiting" \/ notified'
      BY <1>1 DEF Announced, Connected
    <2> QED
      BY <1>4, <2>1 DEF RunComplete
  <1> QED
    BY <1>5, <1>6, <1>7, <1>8, <1>9

\* The steps which begin and end a run.
LEMMA BeginRunQueue ==
  ASSUME TypeOK, Queue, BeginRun
  PROVE  Queue'
  <1> USE DEF Queue
  <1>1. /\ UNCHANGED <<table, ready, notified, operators, disconnects>>
        /\ UNCHANGED <<enabled_state, enabled_admin, disabled_full>>
        /\ UNCHANGED <<plans_include, plans_exclude, plans_lowprio>>
        /\ UNCHANGED <<progress_plans, progress_timer>>
        /\ timer' = "none" /\ timer # "none" /\ running = "no"
    BY DEF BeginRun, dbVars, enableVars, filterVars, progressVars, boundVars
  <1>2. FilterCurrent'
    BY <1>1 DEF FilterCurrent, GetFullPlanNames, PlansOf
  <1>3. ProgressNotifyPending' /\ Connected'
    BY <1>1 DEF ProgressNotifyPending, Connected
  <1>4. CASE IsEnabled /\ plans_include # {}
    <2> DEFINE sel == select_new_jobs(plans_include, plans_exclude \cup plans_lowprio)
    <2>1. /\ running' = "first" /\ rows' = sel /\ refused' = {}
          /\ more' = (Cardinality(rows') = RowLimit)
      BY <1>4 DEF BeginRun
    <2>2. /\ \A j \in sel : PlanOf[j] \notin plans_exclude
          /\ Cardinality(sel) # RowLimit =>
               \A j \in Jobs : /\ table[j] = "waiting" /\ PlanOf[j] \in plans_include
                               /\ PlanOf[j] \notin plans_exclude \cup plans_lowprio
                               => j \in sel
      BY Selected
    <2> HIDE DEF sel
    <2>3. RowsStartable'
      BY <1>1, <2>1, <2>2 DEF RowsStartable
    <2>4. IdleWakeup'
      BY <2>1 DEF IdleWakeup
    <2>5. RunComplete'
      BY <1>1, <2>1, <2>2 DEF RunComplete, Admitted
    <2> QED
      BY <1>2, <1>3, <2>3, <2>4, <2>5
  <1>5. CASE ~(IsEnabled /\ plans_include # {})
    <2>1. UNCHANGED <<running, rows, more, refused, interrupt>>
      BY <1>5 DEF BeginRun, runVars
    <2>2. RowsStartable' /\ RunComplete'
      BY <1>1, <2>1 DEF RowsStartable, RunComplete
    <2>3. IdleWakeup'
      BY <1>1, <1>5, <2>1 DEF IdleWakeup, IsEnabled, Admitted
    <2> QED
      BY <1>2, <1>3, <2>2, <2>3
  <1> QED
    BY <1>4, <1>5

\* The second SELECT covers the plans that the first one left out.
LEMMA SelectLowprioQueue ==
  ASSUME TypeOK, Queue, SelectLowprio
  PROVE  Queue'
  <1> USE DEF Queue
  <1> DEFINE sel == select_new_jobs(plans_lowprio, plans_exclude)
  <1>1. /\ UNCHANGED <<table, ready, notified, timer, operators, interrupt, refused>>
        /\ UNCHANGED <<enabled_state, enabled_admin, disabled_full>>
        /\ UNCHANGED <<plans_include, plans_exclude, plans_lowprio>>
        /\ UNCHANGED <<progress_plans, progress_timer, disconnects>>
        /\ running = "first" /\ rows = {} /\ running' = "second" /\ rows' = sel
        /\ more' = (more \/ Cardinality(rows') = RowLimit)
    BY DEF SelectLowprio, dbVars, enableVars, filterVars, progressVars, boundVars
  <1>2. /\ \A j \in sel : PlanOf[j] \notin plans_exclude
        /\ Cardinality(sel) # RowLimit =>
             \A j \in Jobs : /\ table[j] = "waiting"
                             /\ PlanOf[j] \in plans_lowprio /\ PlanOf[j] \notin plans_exclude
                             => j \in sel
    BY Selected
  <1> HIDE DEF sel
  <1>3. FilterCurrent'
    BY <1>1 DEF FilterCurrent, GetFullPlanNames, PlansOf
  <1>4. ProgressNotifyPending' /\ Connected' /\ IdleWakeup'
    BY <1>1 DEF ProgressNotifyPending, Connected, IdleWakeup
  <1>5. RowsStartable'
    BY <1>1, <1>2 DEF RowsStartable
  <1>6. RunComplete'
    <2> SUFFICES ASSUME IsEnabled, ~interrupt, ~more', NEW j \in Jobs,
                        table[j] = "waiting", Admitted(j)
                 PROVE  j \in sel \/ notified
      BY <1>1 DEF RunComplete, Admitted, IsEnabled
    <2>1. ~more /\ Cardinality(sel) # RowLimit
      BY <1>1
    <2>2. notified \/ PlanOf[j] \in plans_lowprio
      BY <1>1, <2>1 DEF RunComplete
    <2> QED
      BY <1>2, <2>1, <2>2 DEF Admitted
  <1> QED
    BY <1>3, <1>4, <1>5, <1>6

\* A run that ends leaves a timer if it was not complete.
LEMMA EndRunQueue ==
  ASSUME TypeOK, Queue, EndRun \/ RunFails
  PROVE  Queue'
  <1> USE DEF Queue
  <1>1. /\ UNCHANGED <<table, ready, notified, operators, interrupt>>
        /\ UNCHANGED <<enabled_state, enabled_admin, disabled_full>>
        /\ UNCHANGED <<plans_include, plans_exclude, plans_lowprio>>
        /\ UNCHANGED <<progress_plans, progress_timer>>
        /\ running # "no" /\ running' = "no"
    BY DEF EndRun, RunFails, dbVars, enableVars, filterVars, progressVars, boundVars
  <1>2. FilterCurrent'
    BY <1>1 DEF FilterCurrent, GetFullPlanNames, PlansOf
  <1>3. RowsStartable' /\ RunComplete'
    BY <1>1 DEF RowsStartable, RunComplete
  <1>4. Connected'
    BY <1>1 DEF Connected, EndRun, RunFails
  <1>5. ProgressNotifyPending'
    <2>1. disconnects' = 0 => disconnects = 0
      BY DEF EndRun, RunFails, boundVars, TypeOK
    <2> QED
      BY <1>1, <2>1 DEF ProgressNotifyPending
  <1>6. CASE RunFails
    <2>1. \A j \in Jobs : ~Admitted(j)'
      BY <1>6, NodeAssumption DEF RunFails, Admitted
    <2> QED
      BY <1>2, <1>3, <1>4, <1>5, <2>1 DEF IdleWakeup
  <1>7. CASE EndRun
    <2>1. refused' = refused
      BY <1>7 DEF EndRun
    <2> SUFFICES ASSUME IsEnabled, NEW j \in Jobs, table[j] \in Free, Admitted(j)
                 PROVE  timer' \in {"soon", "scheduled"} \/ notified
      BY <1>1, <1>2, <1>3, <1>4, <1>5, <2>1 DEF IdleWakeup, Admitted, IsEnabled, Free
    <2>2. CASE interrupt \/ more
      BY <1>7, <2>2 DEF EndRun
    <2>3. CASE ~(interrupt \/ more) /\ table[j] # "waiting"
      BY <1>7, <2>3 DEF EndRun, NextScheduled, Admitted, Free
    <2>4. CASE ~(interrupt \/ more) /\ table[j] = "waiting"
      <3>1. rows = {} /\ (running = "second" \/ plans_lowprio = {})
        BY <1>7, <2>4 DEF EndRun
      <3> QED
        BY <1>1, <2>4, <3>1 DEF RunComplete
    <2> QED
      BY <2>2, <2>3, <2>4
  <1> QED
    BY <1>6, <1>7

-----------------------------------------------------------------------------
(***************************************************************************)
(* The steps of a run: it takes a row, deals with the job, and goes on with *)
(* the same filter or is interrupted.                                      *)
(***************************************************************************)
Worked(j) ==
  /\ running # "no" /\ running' = running /\ rows' = rows \ {j} /\ more' = more
  /\ ready' = ready /\ notified' = notified /\ interrupt' \in BOOLEAN
  /\ UNCHANGED <<enabled_state, enabled_admin, progress_plans, progress_timer, disconnects>>
  /\ disabled_full => disabled_full'
  /\ \A k \in Jobs : table'[k] = "waiting" => table[k] = "waiting"
  /\ refused \subseteq refused'
  /\ plans_lowprio \subseteq plans_lowprio'
  /\ interrupt => interrupt'
  /\ interrupt' \/ (plans_include' = plans_include /\ plans_exclude' = plans_exclude)
  /\ table'[j] # "waiting" \/ PlanOf[j] \notin plans_include' \/ PlanOf[j] \in refused'

\* A row that was worked on is of no further concern to the run.
LEMMA WorkedQueue ==
  ASSUME TypeOK, Queue, NEW j \in Jobs, Worked(j), FilterCurrent',
         timer' = timer \/ timer' = "soon"
  PROVE  Queue'
  <1> USE DEF Queue
  <1>1. Connected' /\ ProgressNotifyPending' /\ IdleWakeup'
    BY DEF Worked, Connected, ProgressNotifyPending, IdleWakeup
  <1>2. RowsStartable'
    BY DEF Worked, RowsStartable
  <1>3. RunComplete'
    <2> SUFFICES ASSUME IsEnabled', ~interrupt', ~more',
                        NEW k \in Jobs, table'[k] = "waiting", Admitted(k)'
                 PROVE  \/ k \in rows' \/ notified'
                        \/ running' = "first" /\ PlanOf[k] \in plans_lowprio'
      BY DEF RunComplete
    <2>1. IsEnabled /\ ~interrupt /\ ~more /\ running # "no"
      BY DEF Worked, IsEnabled
    <2>2. /\ plans_include' = plans_include /\ plans_exclude' = plans_exclude
          /\ Admitted(k) /\ k # j
      BY DEF Worked, Admitted
    <2>3. table[k] = "waiting"
      BY DEF Worked
    <2>4. k \in rows \/ notified \/ (running = "first" /\ PlanOf[k] \in plans_lowprio)
      BY <2>1, <2>2, <2>3 DEF RunComplete
    <2> QED
      BY <2>2, <2>4 DEF Worked
  <1> QED
    BY <1>1, <1>2, <1>3

\* During a run, a filter that belongs to the same or to more operators.
LEMMA FilterDuringRun ==
  ASSUME FilterCurrent, running # "no",
         NEW ops, operators \subseteq ops, FilterSet(ops, FALSE), operators' = ops
  PROVE  /\ FilterCurrent' /\ plans_lowprio \subseteq plans_lowprio'
         /\ interrupt' \in BOOLEAN /\ (interrupt => interrupt')
         /\ interrupt' \/ (plans_include' = plans_include /\ plans_exclude' = plans_exclude)
         /\ timer' = timer \/ timer' = "soon"
  <1>1. plans_exclude' = GetFullPlanNames(ops) /\ plans_lowprio' = PlansOf(ops)
    BY DEF FilterSet
  <1>2. FilterCurrent'
    BY <1>1 DEF FilterCurrent, GetFullPlanNames, PlansOf
  <1>3. PlansOf(operators) \subseteq PlansOf(ops)
    BY DEF PlansOf
  <1> QED
    BY <1>1, <1>2, <1>3 DEF FilterSet, FilterCurrent

\* Each way of handling a row is such a step.
LEMMA RowQueue ==
  ASSUME TypeOK, Queue, NEW j \in Jobs,
         \/ PlanMissing(j) \/ RateLimitHit(j) \/ ClaimMiss(j)
         \/ StartWorkshopJob(j) \/ StartFails(j)
  PROVE  Queue'
  <1> USE DEF dbVars, enableVars, filterVars, progressVars, boundVars
  <1>1. FilterCurrent
    BY DEF Queue
  <1>2. CASE PlanMissing(j)
    <2>1. Worked(j)
      BY <1>2 DEF PlanMissing, NextRow, Worked, TypeOK
    <2>2. FilterCurrent' /\ timer' = timer
      BY <1>1, <1>2 DEF PlanMissing, FilterCurrent, GetFullPlanNames, PlansOf
    <2> QED
      BY <2>1, <2>2, WorkedQueue
  <1>3. CASE RateLimitHit(j)
    <2>1. FilterSet(operators, FALSE) /\ PlanOf[j] \notin plans_include'
      BY <1>3, RateLimitFilter
    <2>2. running # "no" /\ operators' = operators
      BY <1>3 DEF RateLimitHit, NextRow
    <2>3. /\ FilterCurrent' /\ plans_lowprio \subseteq plans_lowprio'
          /\ interrupt' \in BOOLEAN /\ (interrupt => interrupt')
          /\ interrupt' \/ (plans_include' = plans_include /\ plans_exclude' = plans_exclude)
          /\ timer' = timer \/ timer' = "soon"
      BY <1>1, <2>1, <2>2, FilterDuringRun
    <2>4. Worked(j)
      BY <1>3, <2>1, <2>3 DEF RateLimitHit, NextRow, Worked
    <2> QED
      BY <2>3, <2>4, WorkedQueue
  <1>4. CASE ClaimMiss(j)
    <2>1. Worked(j)
      BY <1>4 DEF ClaimMiss, RowPasses, claim_job_where, NextRow, Worked, TypeOK
    <2>2. FilterCurrent' /\ timer' = timer
      BY <1>1, <1>4 DEF ClaimMiss, FilterCurrent, GetFullPlanNames, PlansOf
    <2> QED
      BY <2>1, <2>2, WorkedQueue
  <1>5. CASE StartWorkshopJob(j)
    <2> DEFINE ops == operators \cup {NewOperator(j)}
    <2>1. FilterSet(ops, FALSE)
      BY <1>5, StartFilter
    <2>2. running # "no" /\ operators' = ops /\ operators \subseteq ops
      BY <1>5 DEF StartWorkshopJob, RowPasses, NextRow
    <2> HIDE DEF ops
    <2>3. /\ FilterCurrent' /\ plans_lowprio \subseteq plans_lowprio'
          /\ interrupt' \in BOOLEAN /\ (interrupt => interrupt')
          /\ interrupt' \/ (plans_include' = plans_include /\ plans_exclude' = plans_exclude)
          /\ timer' = timer \/ timer' = "soon"
      BY <1>1, <2>1, <2>2, FilterDuringRun
    <2>4. table'[j] = "mine" /\ \A k \in Jobs : table'[k] = "waiting" => table[k] = "waiting"
      BY <1>5 DEF StartWorkshopJob, TypeOK
    <2>5. Worked(j)
      BY <1>5, <2>3, <2>4 DEF StartWorkshopJob, RowPasses, NextRow, Worked
    <2> QED
      BY <2>3, <2>5, WorkedQueue
  <1>6. CASE StartFails(j)
    <2>1. FilterSet(operators, FALSE)
      BY <1>6, StartFailsFilter
    <2>2. running # "no" /\ operators' = operators
      BY <1>6 DEF StartFails, RowPasses, NextRow
    <2>3. /\ FilterCurrent' /\ plans_lowprio \subseteq plans_lowprio'
          /\ interrupt' \in BOOLEAN /\ (interrupt => interrupt')
          /\ interrupt' \/ (plans_include' = plans_include /\ plans_exclude' = plans_exclude)
          /\ timer' = timer \/ timer' = "soon"
      BY <1>1, <2>1, <2>2, FilterDuringRun
    <2>4. table'[j] = "done" /\ \A k \in Jobs : table'[k] = "waiting" => table[k] = "waiting"
      BY <1>6 DEF StartFails, TypeOK
    <2>5. Worked(j)
      BY <1>6, <2>3, <2>4 DEF StartFails, RowPasses, NextRow, Worked
    <2> QED
      BY <2>3, <2>5, WorkedQueue
  <1> QED
    BY <1>2, <1>3, <1>4, <1>5, <1>6

-----------------------------------------------------------------------------
(***************************************************************************)
(* The handlers between two runs: an idle queue which becomes enabled, gets *)
(* a new filter or puts a job back is going to start a run.                *)
(***************************************************************************)
Idle ==
  /\ running = "no" /\ running' = "no" /\ ready' = ready /\ refused' = refused
  /\ disconnects' = disconnects
  /\ notified => notified' \/ timer' = "soon"
  /\ notified' => ready
  /\ timer' = timer \/ (timer' = "soon" /\ ready)
  /\ ready /\ IsEnabled' /\ ~IsEnabled => timer' = "soon"
  /\ \/ plans_include' = plans_include /\ plans_exclude' = plans_exclude
     \/ ready => timer' = "soon"
  /\ \A j \in Jobs : ready /\ table'[j] \in Free => table[j] \in Free \/ notified'

\* A handler between two runs schedules one if it makes work for it.
LEMMA IdleQueue ==
  ASSUME Queue, Idle, FilterCurrent', ProgressNotifyPending'
  PROVE  Queue'
  <1> USE DEF Queue
  <1>1. RowsStartable' /\ RunComplete'
    BY DEF Idle, RowsStartable, RunComplete
  <1>2. Connected'
    BY DEF Idle, Connected
  <1>3. IdleWakeup'
    <2> SUFFICES ASSUME ready, IsEnabled', NEW j \in Jobs, table'[j] \in Free, Admitted(j)',
                        timer' # "soon"
                 PROVE  timer' \in {"soon", "scheduled"} \/ notified'
      BY DEF IdleWakeup, Idle, Free
    <2>1. IsEnabled /\ Admitted(j) /\ timer' = timer
      BY DEF Idle, Admitted
    <2>2. table[j] \in Free \/ notified'
      BY DEF Idle
    <2>3. notified => notified'
      BY DEF Idle
    <2> QED
      BY <2>1, <2>2, <2>3 DEF IdleWakeup, Idle, Free
  <1> QED
    BY <1>1, <1>2, <1>3

\* The end of an operator frees a slot, or makes its job available again.
LEMMA OperatorGoneQueue ==
  ASSUME TypeOK, FullFlagExact, FullFlagExact', Queue, NEW o \in operators, OperatorGone(o),
         notified => notified', notified' => ready,
         \A j \in Jobs : ready /\ table'[j] \in Free => table[j] \in Free \/ notified'
  PROVE  Queue'
  <1> DEFINE ops == operators \ {o}
  <1>1. FilterSet(ops, Reenabled(o)) /\ operators' = ops
    BY OperatorGoneFilter DEF OperatorGone
  <1>2. FilterCurrent'
    BY <1>1 DEF FilterSet, FilterCurrent, GetFullPlanNames, PlansOf
  <1>3. ready /\ IsEnabled' /\ ~IsEnabled => timer' = "soon"
    BY <1>1 DEF OperatorGone, FilterSet, Reenabled, IsEnabled, CheckEnabled, FullFlagExact
  <1>4. UNCHANGED <<running, refused, ready, disconnects, progress_plans, progress_timer>>
        /\ running = "no"
    BY DEF OperatorGone, runVars, progressVars
  <1>5. Reenabled(o) => ready
    BY DEF Reenabled, CheckEnabled
  <1> HIDE DEF ops
  <1>6. Idle
    BY <1>1, <1>3, <1>4, <1>5 DEF FilterSet, Idle
  <1>7. ProgressNotifyPending'
    BY <1>4 DEF Queue, ProgressNotifyPending
  <1> QED
    BY <1>2, <1>6, <1>7, IdleQueue

\* Each handler is such a step.
LEMMA HandlerQueue ==
  ASSUME TypeOK, FullFlagExact, FullFlagExact', Queue, Handler
  PROVE  Queue'
  <1> USE DEF dbVars, enableVars, runVars, filterVars, progressVars, boundVars
  <1>1. FilterCurrent /\ ProgressNotifyPending /\ Connected
    BY DEF Queue
  <1>2. CASE OnNotify
    <2>1. Idle
      BY <1>1, <1>2 DEF OnNotify, Idle, Connected, IsEnabled
    <2>2. FilterCurrent' /\ ProgressNotifyPending'
      BY <1>1, <1>2 DEF OnNotify, FilterCurrent, ProgressNotifyPending, GetFullPlanNames, PlansOf
    <2> QED
      BY <2>1, <2>2, IdleQueue
  <1>3. CASE OnRateLimitTimer
    <2>1. FilterSet(operators, FALSE) /\ operators' = operators
      BY <1>3, RateTimerFilter DEF OnRateLimitTimer
    <2>2. FilterCurrent' /\ ProgressNotifyPending'
      BY <1>1, <1>3, <2>1 DEF OnRateLimitTimer, FilterSet, FilterCurrent, ProgressNotifyPending,
                              GetFullPlanNames, PlansOf
    <2>3. Idle
      BY <1>1, <1>3, <2>1 DEF OnRateLimitTimer, FilterSet, Idle, IsEnabled, Connected
    <2> QED
      BY <2>2, <2>3, IdleQueue
  <1>4. CASE OnProgressNotifyTimer
    <2>1. Idle
      BY <1>1, <1>4 DEF OnProgressNotifyTimer, Idle, IsEnabled, Connected
    <2>2. FilterCurrent' /\ ProgressNotifyPending'
      BY <1>1, <1>4 DEF OnProgressNotifyTimer, FilterCurrent, ProgressNotifyPending,
                        GetFullPlanNames, PlansOf
    <2> QED
      BY <2>1, <2>2, IdleQueue
  <1>5. CASE \E p \in Plans : SetJobProgress(p)
    <2>1. Idle
      BY <1>1, <1>5 DEF SetJobProgress, Idle, IsEnabled, Connected
    <2>2. FilterCurrent' /\ ProgressNotifyPending'
      BY <1>1, <1>5 DEF SetJobProgress, FilterCurrent, ProgressNotifyPending,
                        GetFullPlanNames, PlansOf
    <2> QED
      BY <2>1, <2>2, IdleQueue
  <1>6. CASE \E admin \in BOOLEAN : SetAdmin(admin)
    <2>1. Idle
      BY <1>1, <1>6 DEF SetAdmin, Idle, IsEnabled, Connected, CheckEnabled
    <2>2. FilterCurrent' /\ ProgressNotifyPending'
      BY <1>1, <1>6 DEF SetAdmin, FilterCurrent, ProgressNotifyPending,
                        GetFullPlanNames, PlansOf
    <2> QED
      BY <2>1, <2>2, IdleQueue
  <1>7. ASSUME NEW state \in BOOLEAN, OnReload(state) PROVE Queue'
    <2> DEFINE reschedule == /\ state # enabled_state
                             /\ CheckEnabled(state, enabled_admin, disabled_full)
    <2>1. FilterSet(operators, reschedule) /\ operators' = operators
      BY <1>7, ReloadFilter DEF OnReload
    <2>2. ready /\ IsEnabled' /\ ~IsEnabled => reschedule
      BY <1>7 DEF OnReload, IsEnabled, CheckEnabled, TypeOK
    <2>3. reschedule => ready
      BY DEF CheckEnabled
    <2> HIDE DEF reschedule
    <2>4. FilterCurrent' /\ ProgressNotifyPending'
      BY <1>1, <1>7, <2>1 DEF OnReload, FilterSet, FilterCurrent, ProgressNotifyPending,
                              GetFullPlanNames, PlansOf
    <2>5. Idle
      BY <1>1, <1>7, <2>1, <2>2, <2>3 DEF OnReload, FilterSet, Idle, Connected
    <2> QED
      BY <2>4, <2>5, IdleQueue
  <1>8. ASSUME NEW o \in operators, JobDone(o) PROVE Queue'
    <2>1. OperatorGone(o) /\ (notified => notified') /\ (notified' => ready)
      BY <1>1, <1>8 DEF JobDone, Connected
    <2>2. \A j \in Jobs : table'[j] \in Free => table[j] \in Free
      BY <1>8 DEF JobDone, TypeOK, Free
    <2> QED
      BY <2>1, <2>2, OperatorGoneQueue
  <1>9. ASSUME NEW o \in operators, NEW state \in {"waiting", "scheduled"}, JobAgain(o, state)
        PROVE  Queue'
    <2>1. OperatorGone(o) /\ (notified => notified') /\ (notified' => ready)
      BY <1>1, <1>9 DEF JobAgain, Connected
    <2>2. ready => notified'
      BY <1>9 DEF JobAgain
    <2> QED
      BY <2>1, <2>2, OperatorGoneQueue
  <1>10. CASE OnDisconnect
    <2>1. FilterCurrent'
      BY <1>1, <1>10 DEF OnDisconnect, FilterCurrent, GetFullPlanNames, PlansOf
    <2>2. disconnects' # 0
      BY <1>10 DEF OnDisconnect, TypeOK
    <2> QED
      BY <1>10, <2>1, <2>2 DEF OnDisconnect, Queue, RowsStartable, Connected, IdleWakeup,
                               RunComplete, ProgressNotifyPending
  <1>11. CASE OnConnect
    <2>1. FilterCurrent' /\ ProgressNotifyPending'
      BY <1>1, <1>11 DEF OnConnect, FilterCurrent, ProgressNotifyPending,
                         GetFullPlanNames, PlansOf
    <2>2. running' = "no"
      BY <1>1, <1>11 DEF OnConnect, Connected
    <2> QED
      BY <1>11, <2>1, <2>2 DEF OnConnect, Queue, RowsStartable, Connected, IdleWakeup,
                               RunComplete
  <1> QED
    BY <1>2, <1>3, <1>4, <1>5, <1>6, <1>7, <1>8, <1>9, <1>10, <1>11 DEF Handler

-----------------------------------------------------------------------------
\* Every step preserves what concerns the queue.
LEMMA QueueStep ==
  ASSUME TypeOK, FullFlagExact, FullFlagExact', Queue, [Next]_vars
  PROVE  Queue'
  <1>1. CASE UNCHANGED vars
    BY <1>1 DEF Queue, FilterCurrent, RowsStartable, Connected, IdleWakeup, RunComplete,
       ProgressNotifyPending, Admitted, IsEnabled, GetFullPlanNames, PlansOf,
       vars, dbVars, enableVars, runVars, filterVars, progressVars, boundVars
  <1>2. CASE Run
    BY <1>2, BeginRunQueue, SelectLowprioQueue, EndRunQueue, RowQueue DEF Run
  <1> QED
    BY <1>1, <1>2, EnvironmentQueue, EndRunQueue, HandlerQueue DEF Next

\* A daemon that has just started satisfies the invariant.
LEMMA Initially ==
  ASSUME Init
  PROVE  IInv
  <1> USE NodeAssumption DEF Init
  <1>1. TypeOK
    BY DEF TypeOK, JobState
  <1>2. FilterCurrent
    BY DEF FilterCurrent, GetFullPlanNames, PlansOf
  <1>3. RowsStartable /\ Connected /\ IdleWakeup /\ RunComplete /\ ProgressNotifyPending
    BY DEF RowsStartable, Connected, IdleWakeup, RunComplete, ProgressNotifyPending
  <1>4. Cardinality(operators) = 0
    BY FS_EmptySet
  <1>5. FullFlagExact
    BY <1>4 DEF FullFlagExact, IsFull
  <1>6. ConcurrencyLimit
    <2> SUFFICES ASSUME NEW p \in Plans
                 PROVE  Cardinality({o \in operators : PlanOf[o[1]] = p}) <= Concurrency[p]
      BY DEF ConcurrencyLimit
    <2>1. {o \in operators : PlanOf[o[1]] = p} = {}
      OBVIOUS
    <2>2. Cardinality({o \in operators : PlanOf[o[1]] = p}) = 0
      BY <2>1, FS_EmptySet
    <2>3. Concurrency[p] \in Nat
      OBVIOUS
    <2> QED
      BY <2>2, <2>3
  <1> QED
    BY <1>1, <1>2, <1>3, <1>5, <1>6 DEF IInv

\* The inductive invariant: the filter and disabled_full always agree with the workplace,
\* and no job that the node may take is without something that leads to a queue run.
THEOREM Invariance == Spec => []IInv
  <1>1. Init => IInv
    BY Initially
  <1>2. IInv /\ [Next]_vars => IInv'
    <2> SUFFICES ASSUME IInv, [Next]_vars PROVE IInv'
      OBVIOUS
    <2>1. TypeOK'
      BY TypeStep DEF IInv
    <2>2. FullFlagExact'
      BY FullFlagStep DEF IInv
    <2>3. ConcurrencyLimit'
      BY ConcurrencyStep DEF IInv
    <2>4. Queue'
      BY <2>2, QueueStep DEF IInv, Queue
    <2> QED
      BY <2>1, <2>2, <2>3, <2>4 DEF IInv, Queue
  <1> QED
    BY <1>1, <1>2, PTL DEF Spec

\* No plan ever has more processes on the node than its setting "concurrency" allows,
\* however many of its jobs a result set holds.
THEOREM ConcurrencyLimitHolds == Spec => []ConcurrencyLimit
  <1>1. IInv => ConcurrencyLimit
    BY DEF IInv
  <1> QED
    BY <1>1, Invariance, PTL

\* Exactly while all operators are in use the workplace is marked as full, and there are
\* never more than max_operators of them.
THEOREM FullFlagExactHolds == Spec => []FullFlagExact
  <1>1. IInv => FullFlagExact
    BY DEF IInv
  <1> QED
    BY <1>1, Invariance, PTL

\* No job that an enabled node could execute is left to the 600 second timer.
THEOREM PromptWakeupHolds == Spec => []PromptWakeup
  <1>1. IInv => PromptWakeup
    BY DEF IInv, IdleWakeup, PromptWakeup, Eligible, Admitted
  <1> QED
    BY <1>1, Invariance, PTL

\* While the connection holds, progress that has been noted is going to be announced.
THEOREM ProgressNotifyPendingHolds == Spec => []ProgressNotifyPending
  <1>1. IInv => ProgressNotifyPending
    BY DEF IInv
  <1> QED
    BY <1>1, Invariance, PTL
=============================================================================
