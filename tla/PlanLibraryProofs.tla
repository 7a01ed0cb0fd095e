-------------------------- MODULE PlanLibraryProofs --------------------------
(***************************************************************************)
(* Proofs about PlanLibrary, for any set of plans and any number of        *)
(* changes and errors.                                                     *)
(***************************************************************************)
EXTENDS PlanLibrary, TLAPS

UpdatingPlan == pc \in {"check", "load", "validate"}

TypeOK ==
  /\ file \in [Plans -> File]
  /\ exe \in [Plans -> {"present", "missing", "inaccessible"}]
  /\ dir_mtime \in Nat /\ mtime \in Nat /\ new_mtime \in Nat
  /\ plans \in [Plans -> PlanEntry \cup {NULL}]
  /\ pc \in {"idle", "list", "next", "check", "load", "validate", "return"}
  /\ name \in Plans \cup {NULL}
  /\ todo \subseteq Plans /\ before \subseteq Plans
  /\ modified \in BOOLEAN /\ was_available \in BOOLEAN
  /\ since \in Nat \cup {NULL}
  /\ errors \in Nat /\ edits \in Nat

\* No time stamp lies in the future, and a plan is not older than the mtime that is
\* kept beside it.
Stamps ==
  /\ dir_mtime <= edits /\ mtime <= edits /\ new_mtime <= edits
  /\ \A p \in Plans : file[p].version <= edits
  /\ \A p \in Known : /\ plans[p].mtime <= file[p].version
                      /\ plans[p].plan # NULL => plans[p].plan >= plans[p].mtime

\* Which call is in progress, and on which entries it works.
CallShape ==
  /\ pc \in {"idle", "list", "next"} => since = NULL
  /\ pc = "return" => since # NULL
  /\ UpdatingPlan \/ pc = "return" => name \in Known
  /\ (pc = "next" \/ UpdatingPlan) /\ Scanning => todo \subseteq Known

\* While the entries are being updated, the directory is the one that was listed
\* unless its mtime has changed meanwhile; between two scans likewise.
ListFresh ==
  /\ (pc = "next" \/ UpdatingPlan) /\ Scanning /\ new_mtime = dir_mtime => Known = Listed
  /\ (pc = "idle" \/ ~Scanning) /\ mtime = dir_mtime /\ errors = 0 => Known = Listed

\* Get has checked the file after it was called.
GetShape ==
  ~Scanning => /\ UpdatingPlan => since <= file[name].version
               /\ pc \in {"load", "validate"} => since <= plans[name].mtime
               /\ pc = "return" /\ Result # NULL => Result >= since

\* As long as Update has nothing to report, only the entry that is being updated may
\* have become available.
ReportShape ==
  Scanning =>
    /\ pc = "list" => Available \subseteq before
    /\ pc = "next" /\ ~modified => Available \subseteq before
    /\ UpdatingPlan /\ ~modified => /\ Available \subseteq before \cup {name}
                                    /\ was_available => name \in before
    /\ pc = "check" => (was_available <=> IsAvailable(plans[name]))

IInv == TypeOK /\ Stamps /\ CallShape /\ ListFresh /\ GetShape /\ ReportShape

\* The library starts empty, with an mtime that no directory has.
LEMMA InvInit == Init => IInv
  <1> SUFFICES ASSUME Init
               PROVE  IInv
    OBVIOUS
  <1>1. TypeOK
    <2>1. \A k \in {"absent", "valid"}, v \in {1} : [kind |-> k, version |-> v] \in File
      BY DEF File
    <2>2. file \in [Plans -> File]
      BY <2>1 DEF Init
    <2> QED
      BY <2>2 DEF Init, TypeOK
  <1>2. Stamps
    BY LibraryAssumption DEF Init, Stamps, Known
  <1>3. CallShape /\ ListFresh /\ GetShape /\ ReportShape
    BY DEF Init, CallShape, ListFresh, GetShape, ReportShape, Scanning, UpdatingPlan
  <1> QED
    BY <1>1, <1>2, <1>3 DEF IInv

\* Changing a file leaves every plan as it is, and an unchanged mtime of the
\* directory means an unchanged list of names.
LEMMA EditFileStep ==
  ASSUME IInv, NEW p \in Plans, NEW kind \in {"absent", "special", "broken", "valid"},
         NEW renamed \in BOOLEAN, EditFile(p, kind, renamed)
  PROVE  IInv'
  <1> USE DEF IInv
  <1>1. /\ edits' = edits + 1
        /\ file' = [file EXCEPT ![p] = [kind |-> kind, version |-> edits + 1]]
        /\ UNCHANGED <<exe, plans, mtime, pc, name, todo, new_mtime, modified,
                       was_available, before, since, errors>>
    BY DEF EditFile, libraryVars
  <1>2. /\ dir_mtime' = edits + 1 \/ (dir_mtime' = dir_mtime /\ Listed' = Listed)
    BY DEF EditFile, Listed, TypeOK
  <1>3. /\ file' \in [Plans -> File]
        /\ \A q \in Plans : /\ file[q].version \in Nat
                            /\ file'[q].version <= edits + 1
                            /\ file[q].version <= file'[q].version
    <2>1. [kind |-> kind, version |-> edits + 1] \in File
      BY DEF TypeOK, File
    <2>2. \A q \in Plans : file[q] \in File /\ file[q].version \in Nat
      BY DEF TypeOK, File
    <2> QED
      BY <1>1, <2>1, <2>2 DEF TypeOK, Stamps
  <1>4. TypeOK'
    BY <1>1, <1>2, <1>3 DEF TypeOK
  <1>5. /\ Known' = Known /\ (Scanning' <=> Scanning) /\ (UpdatingPlan' <=> UpdatingPlan)
        /\ Available' = Available /\ Result' = Result
    BY <1>1 DEF Known, Scanning, UpdatingPlan, Available, Result
  <1>6. Stamps'
    <2>1. dir_mtime' <= edits' /\ mtime' <= edits' /\ new_mtime' <= edits'
      BY <1>1, <1>2 DEF Stamps, TypeOK
    <2>2. ASSUME NEW q \in Known
          PROVE  /\ plans'[q].mtime <= file'[q].version
                 /\ plans'[q].plan # NULL => plans'[q].plan >= plans'[q].mtime
      <3>1. q \in Plans /\ plans[q].mtime \in Nat
        BY DEF Known, TypeOK, PlanEntry
      <3>2. file'[q].version \in Nat
        BY <1>3, <3>1 DEF File
      <3> QED
        BY <1>1, <1>3, <3>1, <3>2 DEF Stamps
    <2> QED
      BY <1>1, <1>3, <1>5, <2>1, <2>2 DEF Stamps
  <1>7. CallShape' /\ ReportShape'
    BY <1>1, <1>5 DEF CallShape, ReportShape
  <1>8. ListFresh'
    BY <1>1, <1>2, <1>5 DEF ListFresh, Stamps, TypeOK
  <1>9. GetShape'
    <2>1. UpdatingPlan => name \in Plans
      BY DEF CallShape, Known
    <2>2. ~Scanning => since \in Nat
      BY DEF TypeOK, Scanning
    <2>3. \A q \in Plans : file'[q].version \in Nat
      BY <1>3 DEF File
    <2> QED
      BY <1>1, <1>3, <1>5, <2>1, <2>2, <2>3 DEF GetShape
  <1> QED
    BY <1>4, <1>6, <1>7, <1>8, <1>9

\* What the three steps of UpdatePlan may make of the entry, and what comes next.
\* The mtime of the entry is that of the file which was checked, its plan is that file
\* or a later one, and an entry that has become available is reported.
Outcome(e) ==
  /\ plans' = [plans EXCEPT ![name] = e]
  /\ e.mtime <= file[name].version
  /\ e.plan # NULL => e.plan >= e.mtime
  /\ \/ /\ pc = "check" /\ pc' \in {"load", "validate"}
        /\ e.mtime = file[name].version /\ modified' = modified
     \/ /\ pc = "load" /\ pc' = "validate"
        /\ e.mtime = plans[name].mtime /\ modified' = modified
     \/ /\ pc' = IF Scanning THEN "next" ELSE "return"
        /\ modified' \in BOOLEAN /\ (modified => modified')
        /\ ~Scanning /\ IsAvailable(e) /\ e.plan # NULL => since <= e.plan
        /\ Scanning /\ ~modified' /\ IsAvailable(e) => was_available

\* Every step of UpdatePlan has such an outcome.
LEMMA UpdatedEntry ==
  ASSUME IInv, UpdatePlan
  PROVE  \E e \in PlanEntry : Outcome(e)
  <1> DEFINE old == plans[name]
             f == file[name]
  <1> USE DEF IInv
  <1>1. /\ name \in Plans /\ UpdatingPlan
        /\ old \in PlanEntry /\ old # NULL
        /\ f \in File /\ f.version \in Nat
        /\ exe[name] \in {"present", "missing", "inaccessible"}
        /\ modified \in BOOLEAN /\ was_available \in BOOLEAN
    BY DEF UpdatePlan, CheckPlanModified, LoadPlan, ValidatePlan, UpdatingPlan, CallShape,
           Known, TypeOK, File
  <1>2. /\ old.mtime <= f.version
        /\ old.plan # NULL => old.plan >= old.mtime
    BY <1>1 DEF Stamps, Known
  <1>3. ~Scanning => since \in Nat
    BY DEF Scanning, TypeOK
  <1>4. old.mtime \in Nat /\ old.plan \in Nat \cup {NULL}
    BY <1>1 DEF PlanEntry
  <1>5. CASE CheckPlanModified
    <2>1. CASE f.kind = "absent" /\ PlanUpdated(Clear(old), FALSE)
      <3> DEFINE e == Clear(old)
      <3>1. /\ e \in PlanEntry /\ e.plan = NULL /\ e.mtime = 0
            /\ IsAvailable(e) => IsAvailable(old)
        BY <1>1 DEF Clear, PlanEntry, IsAvailable
      <3>2. Scanning /\ IsAvailable(e) => was_available
        BY <1>5, <3>1 DEF CheckPlanModified, ReportShape
      <3>3. /\ plans' = [plans EXCEPT ![name] = e]
            /\ pc' = IF Scanning THEN "next" ELSE "return"
            /\ modified' = modified
        BY <1>1, <2>1 DEF PlanUpdated
      <3> HIDE DEF e
      <3>0. Outcome(e)
        BY <1>1, <3>1, <3>2, <3>3 DEF Outcome
      <3> QED
        BY <3>0, <3>1
    <2>2. CASE f.kind = "special" /\ PlanUpdated(Disable(Clear(old)), was_available)
      <3> DEFINE e == Disable(Clear(old))
      <3>1. /\ e \in PlanEntry /\ e.plan = NULL /\ e.mtime = 0 /\ ~IsAvailable(e)
        BY <1>1 DEF Clear, Disable, PlanEntry, IsAvailable
      <3>2. /\ plans' = [plans EXCEPT ![name] = e]
            /\ pc' = IF Scanning THEN "next" ELSE "return"
            /\ modified' \in BOOLEAN /\ (modified => modified')
        BY <1>1, <2>2 DEF PlanUpdated
      <3> HIDE DEF e
      <3>0. Outcome(e)
        BY <1>1, <3>1, <3>2 DEF Outcome
      <3> QED
        BY <3>0, <3>1
    <2> DEFINE e == Modified(old, f)
    <2>3. /\ e \in PlanEntry /\ e.mtime = f.version
          /\ e.plan # NULL => e.plan >= e.mtime
      BY <1>1, <1>2, LibraryAssumption DEF Modified, PlanEntry
    <2>4. CASE e.disabled /\ PlanUpdated(e, was_available)
      <3>1. ~IsAvailable(e)
        BY <2>4 DEF IsAvailable
      <3>2. /\ plans' = [plans EXCEPT ![name] = e]
            /\ pc' = IF Scanning THEN "next" ELSE "return"
            /\ modified' \in BOOLEAN /\ (modified => modified')
        BY <1>1, <2>4 DEF PlanUpdated
      <3> HIDE DEF e
      <3>0. Outcome(e)
        BY <1>1, <2>3, <3>1, <3>2 DEF Outcome
      <3> QED
        BY <3>0, <2>3
    <2>5. CASE /\ plans' = [plans EXCEPT ![name] = e]
               /\ pc' = IF e.plan = NULL THEN "load" ELSE "validate"
               /\ UNCHANGED modified
      <3>1. pc = "check"
        BY <1>5 DEF CheckPlanModified
      <3> HIDE DEF e
      <3>0. Outcome(e)
        BY <1>1, <2>3, <2>5, <3>1 DEF Outcome
      <3> QED
        BY <3>0, <2>3
    <2> QED
      BY <1>5, <2>1, <2>2, <2>4, <2>5 DEF CheckPlanModified
  <1>6. CASE LoadPlan
    <2>1. CASE PlanUpdated(Disable(old), FALSE)
      <3> DEFINE e == Disable(old)
      <3>1. /\ e \in PlanEntry /\ e.plan = old.plan /\ e.mtime = old.mtime /\ ~IsAvailable(e)
        BY <1>1 DEF Disable, PlanEntry, IsAvailable
      <3>2. /\ plans' = [plans EXCEPT ![name] = e]
            /\ pc' = IF Scanning THEN "next" ELSE "return"
            /\ modified' = modified
        BY <1>1, <2>1 DEF PlanUpdated
      <3> HIDE DEF e
      <3>0. Outcome(e)
        BY <1>1, <1>2, <3>1, <3>2 DEF Outcome
      <3> QED
        BY <3>0, <3>1
    <2>2. CASE /\ plans' = [plans EXCEPT ![name].plan = f.version]
               /\ pc' = "validate" /\ UNCHANGED modified
      <3> DEFINE e == [old EXCEPT !.plan = f.version]
      <3>1. e \in PlanEntry /\ e.plan = f.version /\ e.mtime = old.mtime
        BY <1>1 DEF PlanEntry
      <3>2. plans' = [plans EXCEPT ![name] = e]
        BY <2>2
      <3>3. pc = "load"
        BY <1>6 DEF LoadPlan
      <3> HIDE DEF e
      <3>0. Outcome(e)
        BY <1>1, <1>2, <1>4, <2>2, <3>1, <3>2, <3>3 DEF Outcome
      <3> QED
        BY <3>0, <3>1
    <2> QED
      BY <1>6, <2>1, <2>2 DEF LoadPlan
  <1>7. CASE ValidatePlan
    <2> DEFINE e == Validated(old, exe[name])
    <2>1. /\ e \in PlanEntry /\ e.plan = old.plan /\ e.mtime = old.mtime
          /\ IsAvailable(e) => exe[name] = "present"
      BY <1>1 DEF Validated, Disable, PlanEntry, IsAvailable
    <2>2. /\ plans' = [plans EXCEPT ![name] = e]
          /\ pc' = IF Scanning THEN "next" ELSE "return"
          /\ modified' = (modified \/ (Scanning /\ (exe[name] = "present") # was_available))
      BY <1>7 DEF ValidatePlan, PlanUpdated
    <2>3. ~Scanning => since <= old.mtime
      BY <1>7 DEF ValidatePlan, GetShape
    <2>4. modified' \in BOOLEAN /\ (modified => modified')
      BY <1>1, <2>2
    <2>5. Scanning /\ ~modified' /\ IsAvailable(e) => was_available
      BY <1>1, <2>1, <2>2
    <2>6. ~Scanning /\ e.plan # NULL => since <= e.plan
      BY <1>2, <1>3, <1>4, <2>1, <2>3
    <2> HIDE DEF e
    <2>0. Outcome(e)
      BY <1>1, <1>2, <2>1, <2>2, <2>4, <2>5, <2>6 DEF Outcome
    <2> QED
      BY <2>0, <2>1
  <1> QED
    BY <1>5, <1>6, <1>7 DEF UpdatePlan

\* The steps of UpdatePlan preserve the invariant.
LEMMA UpdatePlanStep ==
  ASSUME IInv, UpdatePlan
  PROVE  IInv'
  <1> USE DEF IInv
  <1>1. PICK e \in PlanEntry : Outcome(e)
    BY UpdatedEntry
  <1>2. UNCHANGED <<fileVars, mtime, name, todo, new_mtime, was_available, before, since,
                    errors>>
    <2>1. CASE CheckPlanModified
      BY <2>1 DEF CheckPlanModified, PlanUpdated
    <2>2. CASE LoadPlan
      BY <2>2 DEF LoadPlan, PlanUpdated
    <2>3. CASE ValidatePlan
      BY <2>3 DEF ValidatePlan, PlanUpdated
    <2> QED
      BY <2>1, <2>2, <2>3 DEF UpdatePlan
  <1>3. /\ UpdatingPlan /\ name \in Plans /\ plans[name] # NULL
        /\ pc' \in {"load", "validate", "next", "return"}
        /\ modified' \in BOOLEAN /\ (modified => modified')
    <2>1. UpdatingPlan
      BY DEF UpdatePlan, CheckPlanModified, LoadPlan, ValidatePlan, UpdatingPlan
    <2>2. name \in Plans /\ plans[name] # NULL
      BY <2>1 DEF CallShape, Known
    <2> QED
      BY <1>1, <2>1, <2>2 DEF Outcome, TypeOK
  <1>4. /\ plans' \in [Plans -> PlanEntry \cup {NULL}]
        /\ plans'[name] = e /\ e # NULL
        /\ \A p \in Plans : p # name => plans'[p] = plans[p]
    BY <1>1, <1>3, LibraryAssumption DEF Outcome, TypeOK
  <1>5. Known' = Known /\ Listed' = Listed
    BY <1>2, <1>3, <1>4 DEF Known, Listed, fileVars
  <1>6. TypeOK'
    BY <1>2, <1>3, <1>4 DEF TypeOK, fileVars
  <1>7. Stamps'
    BY <1>1, <1>2, <1>4, <1>5 DEF Outcome, Stamps, Known, fileVars
  <1>8. /\ Scanning' <=> Scanning
        /\ pc' = "next" => Scanning
        /\ pc' = "return" => ~Scanning
    BY <1>1, <1>2, <1>3 DEF Outcome, Scanning
  <1>9. CallShape'
    BY <1>2, <1>3, <1>5, <1>8 DEF CallShape, UpdatingPlan, Scanning, Known
  <1>10. ListFresh'
    BY <1>2, <1>3, <1>5, <1>8 DEF ListFresh, UpdatingPlan, fileVars
  <1>11. GetShape'
    <2> SUFFICES ASSUME ~Scanning
                 PROVE  /\ UpdatingPlan' => since <= file[name].version
                        /\ pc' \in {"load", "validate"} => since <= e.mtime
                        /\ pc' = "return" /\ Result' # NULL => Result' >= since
      BY <1>2, <1>4, <1>8 DEF GetShape, fileVars
    <2>1. since <= file[name].version
      BY <1>3 DEF GetShape
    <2>2. pc' \in {"load", "validate"} => since <= e.mtime
      BY <1>1, <2>1 DEF Outcome, GetShape
    <2>3. Result' = IF IsAvailable(e) THEN e.plan ELSE NULL
      BY <1>2, <1>4 DEF Result
    <2>4. pc' = "return" /\ Result' # NULL => since <= e.plan /\ Result' = e.plan
      BY <1>1, <2>3 DEF Outcome
    <2>5. since \in Nat /\ (Result' # NULL => Result' \in Nat)
      BY <2>3 DEF TypeOK, Scanning, PlanEntry
    <2> QED
      BY <2>1, <2>2, <2>4, <2>5
  <1>12. ReportShape'
    <2> SUFFICES ASSUME Scanning
                 PROVE  /\ pc' = "next" /\ ~modified' => Available' \subseteq before
                        /\ UpdatingPlan' /\ ~modified' => /\ Available' \subseteq before \cup {name}
                                                          /\ was_available => name \in before
      BY <1>2, <1>3, <1>8 DEF ReportShape
    <2>1. \A p \in Plans : p # name => (p \in Available' <=> p \in Available)
      BY <1>4 DEF Available
    <2>2. name \in Available' => IsAvailable(e)
      BY <1>4 DEF Available
    <2>3. Available \subseteq Plans /\ Available' \subseteq Plans
      BY DEF Available
    <2>4. ~modified' => /\ Available \subseteq before \cup {name}
                        /\ was_available => name \in before
      BY <1>3 DEF ReportShape
    <2>5. pc' = "next" /\ ~modified' /\ IsAvailable(e) => was_available
      BY <1>1 DEF Outcome
    <2> QED
      BY <2>1, <2>2, <2>3, <2>4, <2>5
  <1> QED
    BY <1>6, <1>7, <1>9, <1>10, <1>11, <1>12

\* Reading the directory: the entries are those of the names it contains.
LEMMA ListStep ==
  ASSUME IInv, ListPlans
  PROVE  IInv'
  <1> USE DEF IInv
  <1>1. /\ pc = "list" /\ pc' = "next" /\ Scanning /\ Scanning'
        /\ todo' = Listed /\ modified' = (Listed # Known)
        /\ UNCHANGED <<fileVars, mtime, name, new_mtime, was_available, before, since,
                       errors>>
    BY DEF ListPlans, CallShape, Scanning
  <1>2. \A p \in Plans : plans'[p] = IF p \notin Listed THEN NULL
                           ELSE IF plans[p] = NULL THEN NewEntry ELSE plans[p]
    BY DEF ListPlans
  <1>3. /\ NewEntry \in PlanEntry /\ NewEntry # NULL
        /\ NewEntry.plan = NULL /\ NewEntry.mtime = 0
    <2>1. /\ NewEntry \in PlanEntry
          /\ NewEntry.plan = NULL /\ NewEntry.mtime = 0
      BY DEF NewEntry, PlanEntry
    <2> QED
      BY <2>1, LibraryAssumption
  <1>4. plans' \in [Plans -> PlanEntry \cup {NULL}]
    BY <1>2, <1>3 DEF ListPlans, TypeOK
  <1>5. Listed' = Listed /\ Known' = Listed
    BY <1>1, <1>2, <1>3 DEF Known, Listed, fileVars
  <1>6. TypeOK'
    BY <1>1, <1>4 DEF TypeOK, Listed, fileVars
  <1>7. Stamps'
    <2>1. \A p \in Plans : file[p].version \in Nat
      BY DEF TypeOK, File
    <2>2. ASSUME NEW p \in Known'
          PROVE  /\ plans'[p].mtime <= file'[p].version
                 /\ plans'[p].plan # NULL => plans'[p].plan >= plans'[p].mtime
      <3>1. CASE plans[p] = NULL
        BY <1>1, <1>2, <1>3, <2>1, <2>2, <3>1 DEF Known, fileVars
      <3>2. CASE plans[p] # NULL
        BY <1>1, <1>2, <2>2, <3>2 DEF Known, Stamps, fileVars
      <3> QED
        BY <3>1, <3>2
    <2> QED
      BY <1>1, <2>2 DEF Stamps, fileVars
  <1>8. CallShape' /\ ListFresh' /\ GetShape'
    BY <1>1, <1>5 DEF CallShape, ListFresh, GetShape, UpdatingPlan, Scanning
  <1>9. ReportShape'
    <2>1. ASSUME ~modified'
          PROVE  Available' \subseteq before
      <3>1. \A p \in Plans : plans'[p] = plans[p]
        BY <1>1, <1>2, <2>1 DEF Known
      <3>2. Available' = Available
        BY <3>1 DEF Available
      <3> QED
        BY <1>1, <3>2 DEF ReportShape
    <2> QED
      BY <1>1, <2>1 DEF ReportShape, UpdatingPlan
  <1> QED
    BY <1>6, <1>7, <1>8, <1>9

\* Every step preserves the invariant.
LEMMA InvStep == IInv /\ [Next]_vars => IInv'
  <1> SUFFICES ASSUME IInv, [Next]_vars
               PROVE  IInv'
    OBVIOUS
  <1> USE DEF IInv
  <1>1. ASSUME NEW p \in Plans, NEW kind \in {"absent", "special", "broken", "valid"},
               NEW renamed \in BOOLEAN, EditFile(p, kind, renamed)
        PROVE  IInv'
    BY <1>1, EditFileStep
  <1>2. ASSUME NEW p \in Plans, NEW state \in {"present", "missing", "inaccessible"},
               EditExecutable(p, state)
        PROVE  IInv'
    <2>1. /\ edits' = edits + 1 /\ exe' = [exe EXCEPT ![p] = state]
          /\ UNCHANGED <<file, dir_mtime, plans, mtime, pc, name, todo, new_mtime, modified,
                         was_available, before, since, errors>>
      BY <1>2 DEF EditExecutable, libraryVars
    <2>2. TypeOK'
      BY <2>1 DEF TypeOK
    <2>3. Stamps'
      <3>1. \A q \in Plans : file[q].version \in Nat
        BY DEF TypeOK, File
      <3> QED
        BY <2>1, <3>1 DEF Stamps, Known, TypeOK
    <2>4. CallShape' /\ ListFresh' /\ GetShape' /\ ReportShape'
      BY <2>1 DEF CallShape, ListFresh, GetShape, ReportShape, UpdatingPlan, Scanning,
                  Known, Listed, Available, Result
    <2> QED
      BY <2>2, <2>3, <2>4
  <1>3. ASSUME NEW p \in Plans, DisableExpires(p)
        PROVE  IInv'
    <2>1. /\ pc = "idle" /\ plans[p] \in PlanEntry /\ plans[p] # NULL
          /\ plans' = [plans EXCEPT ![p] = [plans[p] EXCEPT !.disabled = FALSE]]
          /\ UNCHANGED <<fileVars, libraryVars>>
      BY <1>3 DEF DisableExpires, TypeOK
    <2> DEFINE e == [plans[p] EXCEPT !.disabled = FALSE]
    <2>2. /\ e \in PlanEntry /\ e # NULL
          /\ e.plan = plans[p].plan /\ e.mtime = plans[p].mtime
      BY <2>1, LibraryAssumption DEF PlanEntry
    <2> HIDE DEF e
    <2>3. /\ plans' \in [Plans -> PlanEntry \cup {NULL}] /\ plans'[p] = e
          /\ \A q \in Plans : q # p => plans'[q] = plans[q]
      BY <2>1, <2>2 DEF TypeOK, e
    <2>4. Known' = Known /\ Listed' = Listed
      BY <2>1, <2>2, <2>3 DEF Known, Listed, fileVars
    <2>5. TypeOK'
      BY <2>1, <2>3 DEF TypeOK, fileVars, libraryVars
    <2>6. Stamps'
      BY <2>1, <2>2, <2>3, <2>4 DEF Stamps, Known, fileVars, libraryVars
    <2>7. CallShape' /\ ListFresh' /\ GetShape' /\ ReportShape'
      BY <2>1, <2>4 DEF CallShape, ListFresh, GetShape, ReportShape, UpdatingPlan, Scanning,
                        fileVars, libraryVars
    <2> QED
      BY <2>5, <2>6, <2>7
  <1>4. ASSUME NEW force \in BOOLEAN, NEW due \in BOOLEAN, Update(force, due)
        PROVE  IInv'
    BY <1>4
    DEF Update, TypeOK, Stamps, CallShape, ListFresh, GetShape, ReportShape, UpdatingPlan,
        Scanning, Known, Listed, Available, fileVars
  <1>5. ASSUME NEW p \in Plans, Get(p)
        PROVE  IInv'
    <2>1. /\ pc = "idle" /\ pc' = "check" /\ plans[p] # NULL /\ name' = p
          /\ since' = file[p].version /\ was_available' = IsAvailable(plans[p])
          /\ UNCHANGED <<fileVars, plans, mtime, todo, new_mtime, modified, before, errors>>
      BY <1>5 DEF Get
    <2>2. file[p].version \in Nat /\ since' # NULL /\ was_available' \in BOOLEAN
      BY <2>1, LibraryAssumption DEF TypeOK, File, IsAvailable
    <2>3. TypeOK'
      BY <2>1, <2>2 DEF TypeOK, fileVars
    <2>4. Stamps'
      BY <2>1 DEF Stamps, Known, fileVars
    <2>5. Known' = Known /\ Listed' = Listed /\ p \in Known
      BY <2>1 DEF Known, Listed, fileVars
    <2>6. CallShape' /\ ListFresh' /\ ReportShape'
      BY <2>1, <2>2, <2>5 DEF CallShape, ListFresh, ReportShape, UpdatingPlan, Scanning,
                              fileVars
    <2>7. GetShape'
      BY <2>1, <2>2 DEF GetShape, UpdatingPlan, fileVars
    <2> QED
      BY <2>3, <2>4, <2>6, <2>7
  <1>6. CASE ListPlans
    BY <1>6, ListStep
  <1>7. CASE ListFails
    <2>1. /\ pc = "list" /\ pc' = "idle" /\ name' = NULL /\ new_mtime' = 0
          /\ modified' = FALSE /\ was_available' = FALSE /\ before' = {}
          /\ plans' = [p \in Plans |-> NULL] /\ errors' = errors + 1
          /\ UNCHANGED <<fileVars, mtime, todo, since>>
      BY <1>7 DEF ListFails, LocalsGone
    <2>2. TypeOK'
      <3>1. plans' \in [Plans -> PlanEntry \cup {NULL}]
        BY <2>1
      <3>2. errors' \in Nat
        BY <2>1 DEF TypeOK
      <3> QED
        BY <2>1, <3>1, <3>2 DEF TypeOK, fileVars
    <2>3. Stamps'
      BY <2>1 DEF TypeOK, Stamps, Known, fileVars
    <2>4. since = NULL /\ errors' # 0
      BY <2>1 DEF CallShape, TypeOK
    <2> QED
      BY <2>1, <2>2, <2>3, <2>4
      DEF CallShape, ListFresh, GetShape, ReportShape, UpdatingPlan, Scanning
  <1>8. CASE UpdateEnds
    <2>1. /\ pc = "next" /\ pc' = "idle" /\ name' = NULL /\ new_mtime' = 0
          /\ modified' = FALSE /\ was_available' = FALSE /\ before' = {}
          /\ mtime' = new_mtime
          /\ UNCHANGED <<fileVars, plans, todo, since, errors>>
      BY <1>8 DEF UpdateEnds, LocalsGone
    <2>2. TypeOK'
      BY <2>1 DEF TypeOK, fileVars
    <2>3. Stamps'
      BY <2>1 DEF TypeOK, Stamps, Known, fileVars
    <2> QED
      BY <2>1, <2>2, <2>3
      DEF CallShape, ListFresh, GetShape, ReportShape, UpdatingPlan, Scanning, Known, Listed,
          fileVars
  <1>9. ASSUME NEW p \in Plans, NextPlan(p)
        PROVE  IInv'
    <2>1. /\ pc = "next" /\ pc' = "check" /\ p \in todo /\ name' = p /\ todo' = todo \ {p}
          /\ was_available' = IsAvailable(plans[p])
          /\ UNCHANGED <<fileVars, plans, mtime, new_mtime, modified, before, since, errors>>
      BY <1>9 DEF NextPlan
    <2>2. since = NULL /\ p \in Known /\ Known' = Known /\ Listed' = Listed
      BY <2>1 DEF CallShape, Scanning, Known, Listed, fileVars
    <2>3. was_available' \in BOOLEAN
      BY <2>1 DEF IsAvailable
    <2>4. TypeOK' /\ Stamps'
      BY <2>1, <2>3 DEF TypeOK, Stamps, Known, fileVars
    <2>5. CallShape' /\ ListFresh' /\ GetShape'
      BY <2>1, <2>2 DEF CallShape, ListFresh, GetShape, UpdatingPlan, Scanning, fileVars
    <2>6. ReportShape'
      <3>1. Available' = Available /\ (was_available' <=> p \in Available)
        BY <2>1 DEF Available
      <3> QED
        BY <2>1, <2>2, <3>1 DEF ReportShape, UpdatingPlan, Scanning
    <2> QED
      BY <2>4, <2>5, <2>6
  <1>10. CASE UpdatePlan
    BY <1>10, UpdatePlanStep
  <1>11. CASE GetReturns
    <2>1. /\ pc = "return" /\ pc' = "idle" /\ name' = NULL /\ new_mtime' = 0
          /\ modified' = FALSE /\ was_available' = FALSE /\ before' = {} /\ since' = NULL
          /\ UNCHANGED <<fileVars, plans, mtime, todo, errors>>
      BY <1>11 DEF GetReturns, LocalsGone
    <2>2. TypeOK'
      BY <2>1 DEF TypeOK, fileVars
    <2>3. Stamps'
      BY <2>1 DEF TypeOK, Stamps, Known, fileVars
    <2>4. ~Scanning
      BY <2>1 DEF CallShape, Scanning
    <2> QED
      BY <2>1, <2>2, <2>3, <2>4
      DEF CallShape, ListFresh, GetShape, ReportShape, UpdatingPlan, Scanning, Known, Listed,
          fileVars
  <1>12. CASE UNCHANGED vars
    BY <1>12
    DEF vars, fileVars, TypeOK, Stamps, CallShape, ListFresh, GetShape, ReportShape,
        UpdatingPlan, Scanning, Known, Listed, Available, Result
  <1> QED
    BY <1>1, <1>2, <1>3, <1>4, <1>5, <1>6, <1>7, <1>8, <1>9, <1>10, <1>11, <1>12
    DEF Next, Environment, Call, UpdatePlans

\* The inductive invariant holds in every reachable state.
THEOREM Invariance == Spec => []IInv
  BY InvInit, InvStep, PTL DEF Spec

\* An Update that is skipped because the mtime of the directory is the known one would
\* have found no other names.
THEOREM DirectoryFreshHolds == Spec => []DirectoryFresh
  <1>1. IInv => DirectoryFresh
    BY DEF IInv, ListFresh, DirectoryFresh
  <1> QED
    BY <1>1, Invariance, PTL

\* Get never returns a plan that is older than its file was when Get was called.
THEOREM GetFreshHolds == Spec => []GetFresh
  <1>1. IInv => GetFresh
    BY DEF IInv, CallShape, GetShape, GetFresh, Scanning
  <1> QED
    BY <1>1, Invariance, PTL

\* An Update that reports no change has made no plan available.
THEOREM NewPlansReportedHolds == Spec => NewPlansReported
  <1>1. IInv => (UpdateEnds /\ ~modified => Available \subseteq before)
    BY DEF IInv, CallShape, ReportShape, UpdateEnds, Scanning
  <1> QED
    BY <1>1, Invariance, PTL DEF Spec, NewPlansReported
=============================================================================
