----------------------------- MODULE PlanLibrary -----------------------------
(***************************************************************************)
(* A Library: the plans which a node knows, loaded from a directory.       *)
(*                                                                         *)
(* Administrators change the directory and the executables at any time,    *)
(* also between two system calls of the library, so that each of them is a *)
(* step of its own: stat the directory, list it, and for each plan file    *)
(* stat, load, and stat its executable.  No lock helps, only the order of  *)
(* these calls.                                                            *)
(*                                                                         *)
(* An mtime is the number of the change that set it; 0 is the empty one.   *)
(* Time is abstract: a plan that is disabled, for 60 or for 600 seconds,   *)
(* is so until DisableExpires, which does not happen during a call.        *)
(***************************************************************************)
EXTENDS Integers, FiniteSets

CONSTANTS
  Plans,     \* the file names
  NULL,      \* nullptr, or no entry
  MaxEdits,  \* bound: changes in the file system
  MaxErrors  \* bound: failures to list the directory

PlanEntry == [plan : Nat \cup {NULL}, mtime : Nat, deinstalled : BOOLEAN, disabled : BOOLEAN]

ASSUME LibraryAssumption ==
  /\ NULL \notin Plans /\ NULL \notin Nat /\ NULL \notin PlanEntry
  /\ MaxEdits \in Nat /\ MaxErrors \in Nat

VARIABLES
  file,      \* file system: each plan file
  exe,       \* file system: what stat says of the executable of each plan; that of a
             \* plan with the setting "translate" is always present
  dir_mtime, \* file system: the mtime of the directory
  plans,     \* Library::plans
  mtime,     \* Library::mtime
  pc,        \* the next system call
  name,      \* the plan whose entry is being updated
  todo,      \* the names which UpdatePlans still has to read
  new_mtime, modified, was_available,  \* local variables
  before,    \* history: the plans that were available when the call began
  since,     \* history: the content of the file when Get was called
  errors, edits

fileVars == <<file, exe, dir_mtime, edits>>
vars == <<fileVars, plans, mtime, pc, name, todo, new_mtime, modified, was_available,
          before, since, errors>>

\* A file's "version" is its mtime, and stands for its content as well.
File == [kind : {"absent", "special", "broken", "valid"}, version : Nat]

NewEntry == [plan |-> NULL, mtime |-> 0, deinstalled |-> FALSE, disabled |-> FALSE]

Clear(e) == [e EXCEPT !.plan = NULL, !.mtime = 0]
Disable(e) == [e EXCEPT !.disabled = TRUE]
IsAvailable(e) == e # NULL /\ ~e.deinstalled /\ ~e.disabled

Available == {p \in Plans : IsAvailable(plans[p])}
Known == {p \in Plans : plans[p] # NULL}
Listed == {p \in Plans : file[p].kind # "absent"}

-----------------------------------------------------------------------------
(***************************************************************************)
(* The environment.                                                        *)
(***************************************************************************)
libraryVars == <<mtime, pc, name, todo, new_mtime, modified, was_available, before,
                 since, errors>>

\* Creating, deleting and renaming a file sets the mtime of its directory, writing to
\* it does not.
EditFile(p, kind, renamed) ==
  /\ edits < MaxEdits
  /\ kind # "absent" \/ file[p].kind # "absent"
  /\ file' = [file EXCEPT ![p] = [kind |-> kind, version |-> edits + 1]]
  /\ dir_mtime' = IF renamed \/ kind = "absent" \/ file[p].kind = "absent"
                    THEN edits + 1 ELSE dir_mtime
  /\ edits' = edits + 1
  /\ UNCHANGED <<exe, plans, libraryVars>>

EditExecutable(p, state) ==
  /\ edits < MaxEdits /\ exe[p] # state
  /\ exe' = [exe EXCEPT ![p] = state]
  /\ edits' = edits + 1
  /\ UNCHANGED <<file, dir_mtime, plans, libraryVars>>

DisableExpires(p) ==
  /\ pc = "idle" /\ plans[p] # NULL /\ plans[p].disabled
  /\ plans' = [plans EXCEPT ![p].disabled = FALSE]
  /\ UNCHANGED <<fileVars, libraryVars>>

-----------------------------------------------------------------------------
(***************************************************************************)
(* Library::Update.  "due" says that next_plans_check has been reached.    *)
(***************************************************************************)
Update(force, due) ==
  /\ pc = "idle"
  /\ force \/ due \/ dir_mtime # mtime
  /\ pc' = "list" /\ new_mtime' = dir_mtime /\ modified' = FALSE
  /\ before' = Available
  /\ UNCHANGED <<fileVars, plans, mtime, name, todo, was_available, since, errors>>

\* Update or Get returns.
LocalsGone ==
  /\ pc' = "idle" /\ name' = NULL
  /\ new_mtime' = 0 /\ modified' = FALSE /\ was_available' = FALSE /\ before' = {}

\* UpdatePlans reads the directory, keeps the entries of the names it finds, adds
\* those that are new and forgets the others.
ListPlans ==
  /\ pc = "list"
  /\ plans' = [p \in Plans |-> IF p \notin Listed THEN NULL
                               ELSE IF plans[p] = NULL THEN NewEntry ELSE plans[p]]
  /\ modified' = (Listed # Known)
  /\ todo' = Listed
  /\ pc' = "next"
  /\ UNCHANGED <<fileVars, mtime, name, new_mtime, was_available, before, since, errors>>

\* OpenDirectory throws, after the old entries have been moved away.
ListFails ==
  /\ pc = "list" /\ errors < MaxErrors
  /\ plans' = [p \in Plans |-> NULL]
  /\ errors' = errors + 1
  /\ LocalsGone
  /\ UNCHANGED <<fileVars, mtime, todo, since>>

NextPlan(p) ==
  /\ pc = "next" /\ p \in todo
  /\ name' = p /\ todo' = todo \ {p}
  /\ was_available' = IsAvailable(plans[p])
  /\ pc' = "check"
  /\ UNCHANGED <<fileVars, plans, mtime, new_mtime, modified, before, since, errors>>

\* Mutant of UpdateEnds: the mtime is that of the directory after the scan.
MutMtimeAfterScan ==
  /\ pc = "next" /\ todo = {}
  /\ mtime' = dir_mtime
  /\ LocalsGone
  /\ UNCHANGED <<fileVars, plans, todo, since, errors>>

UpdateEnds ==
  /\ pc = "next" /\ todo = {}
  /\ mtime' = new_mtime
  /\ LocalsGone
  /\ UNCHANGED <<fileVars, plans, todo, since, errors>>

-----------------------------------------------------------------------------
(***************************************************************************)
(* Library::UpdatePlan, for Update and for Get.                            *)
(***************************************************************************)
Scanning == since = NULL

\* The caller goes on; was "changed" returned?
PlanUpdated(entry, changed) ==
  /\ plans' = [plans EXCEPT ![name] = entry]
  /\ modified' = (modified \/ (Scanning /\ changed))
  /\ pc' = IF Scanning THEN "next" ELSE "return"
  /\ UNCHANGED <<fileVars, mtime, name, todo, new_mtime, was_available, before, since,
                 errors>>

\* Mutant of Modified: the old plan is kept although its file has another mtime.
MutPlanKept(e, f) == IF f.version = e.mtime THEN e ELSE
  [e EXCEPT !.mtime = f.version, !.disabled = FALSE]

Modified(e, f) == IF f.version = e.mtime THEN e ELSE
  [e EXCEPT !.plan = NULL, !.mtime = f.version, !.disabled = FALSE]

CheckPlanModified ==
  LET f == file[name]
      e == Modified(plans[name], f)
  IN /\ pc = "check"
     /\ \/ /\ f.kind = "absent"
           /\ PlanUpdated(Clear(plans[name]), FALSE)
        \/ /\ f.kind = "special"
           /\ PlanUpdated(Disable(Clear(plans[name])), was_available)
        \/ /\ f.kind \in {"broken", "valid"} /\ e.disabled
           /\ PlanUpdated(e, was_available)
        \/ /\ f.kind \in {"broken", "valid"} /\ ~e.disabled
           /\ plans' = [plans EXCEPT ![name] = e]
           /\ pc' = IF e.plan = NULL THEN "load" ELSE "validate"
           /\ UNCHANGED <<fileVars, mtime, name, todo, new_mtime, modified, was_available,
                          before, since, errors>>

\* The file may be another one than the one that was checked.
LoadPlan ==
  LET f == file[name]
  IN /\ pc = "load"
     /\ \/ /\ f.kind # "valid"
           /\ PlanUpdated(Disable(plans[name]), FALSE)
        \/ /\ f.kind = "valid"
           /\ plans' = [plans EXCEPT ![name].plan = f.version]
           /\ pc' = "validate"
           /\ UNCHANGED <<fileVars, mtime, name, todo, new_mtime, modified, was_available,
                          before, since, errors>>

\* Mutant of Validated: a program that is installed again goes unnoticed.
MutNeverReinstalled(e, state) ==
  IF state = "missing" THEN [e EXCEPT !.deinstalled = TRUE]
  ELSE IF state = "inaccessible" THEN Disable(e) ELSE e

Validated(e, state) ==
  IF state = "missing" THEN [e EXCEPT !.deinstalled = TRUE]
  ELSE IF state = "inaccessible" THEN Disable(e)
  ELSE [e EXCEPT !.deinstalled = FALSE]

\* Mutant of ValidatePlan: only plans that become unavailable are reported.
MutOnlyLossReported ==
  /\ pc = "validate"
  /\ PlanUpdated(Validated(plans[name], exe[name]), exe[name] # "present" /\ was_available)

ValidatePlan ==
  /\ pc = "validate"
  /\ PlanUpdated(Validated(plans[name], exe[name]), (exe[name] = "present") # was_available)

-----------------------------------------------------------------------------
(***************************************************************************)
(* Library::Get, and its result.                                           *)
(***************************************************************************)
Get(p) ==
  /\ pc = "idle" /\ plans[p] # NULL
  /\ name' = p /\ since' = file[p].version
  /\ was_available' = IsAvailable(plans[p])
  /\ pc' = "check"
  /\ UNCHANGED <<fileVars, plans, mtime, todo, new_mtime, modified, before, errors>>

Result == IF IsAvailable(plans[name]) THEN plans[name].plan ELSE NULL

GetReturns ==
  /\ pc = "return"
  /\ since' = NULL
  /\ LocalsGone
  /\ UNCHANGED <<fileVars, plans, mtime, todo, errors>>

-----------------------------------------------------------------------------
\* A directory whose files have been there for long.
Init ==
  /\ file \in [Plans -> {[kind |-> k, version |-> v] : k \in {"absent", "valid"}, v \in {1}}]
  /\ exe = [p \in Plans |-> "present"]
  /\ dir_mtime = 1
  /\ plans = [p \in Plans |-> NULL] /\ mtime = 0
  /\ pc = "idle" /\ name = NULL /\ todo = {}
  /\ new_mtime = 0 /\ modified = FALSE /\ was_available = FALSE
  /\ before = {} /\ since = NULL
  /\ errors = 0 /\ edits = 1

Environment ==
  \/ \E p \in Plans, kind \in {"absent", "special", "broken", "valid"}, renamed \in BOOLEAN :
       EditFile(p, kind, renamed)
  \/ \E p \in Plans, state \in {"present", "missing", "inaccessible"} : EditExecutable(p, state)
  \/ \E p \in Plans : DisableExpires(p)

UpdatePlan == CheckPlanModified \/ LoadPlan \/ ValidatePlan

UpdatePlans == ListPlans \/ ListFails \/ UpdateEnds \/ \E p \in Plans : NextPlan(p)

Call ==
  \/ \E force, due \in BOOLEAN : Update(force, due)
  \/ \E p \in Plans : Get(p)

Next == Environment \/ Call \/ UpdatePlans \/ UpdatePlan \/ GetReturns

Spec == Init /\ [][Next]_vars

\* A call comes to its end, and the time passes for which plans are disabled.  That
\* there is a next call of Update is not assumed.
Fairness ==
  /\ WF_vars(UpdatePlans \/ UpdatePlan \/ GetReturns)
  /\ \A p \in Plans : SF_vars(DisableExpires(p))

FairSpec == Spec /\ Fairness

-----------------------------------------------------------------------------
(***************************************************************************)
(* Properties.                                                             *)
(***************************************************************************)

\* As long as no attempt to read the directory has failed: when its mtime has not
\* changed, an unforced Update may skip it, because the library knows exactly the files
\* which are there.
DirectoryFresh ==
  pc = "idle" /\ mtime = dir_mtime /\ errors = 0 => Known = Listed

\* Get does not return a plan that is older than the file at the time of the call,
\* although the file may change between the stat() and the open() of any UpdatePlan:
\* a stale plan never hides behind the mtime of the present file.
GetFresh == pc = "return" /\ Result # NULL => Result >= since

\* An Update that returns false has not made any plan available: a plan which enters the
\* filter anew never meets a rate limit from before, because UpdateFilter forgets the
\* limits when Update has returned true.  Nothing of that kind holds for a plan that was
\* edited and has been available all the time: its modification is not reported.
NewPlansReported ==
  [][UpdateEnds /\ ~modified => Available \subseteq before]_vars

\* Update is called by OnChildProcessExit of a job, by a reload and at the start only:
\* on a node without jobs there may be no further call.
UpdateRepeated == []<><<\E force, due \in BOOLEAN : Update(force, due)>>_vars

\* If Update is called again and again, and does not fail for ever, a plan that stays
\* installed is offered in the end, whatever has been wrong with it: that it was
\* forgotten because the directory could not be read, disabled or deinstalled.
InstalledPlanOffered ==
  UpdateRepeated =>
  \A p \in Plans :
    <>[](file[p].kind = "valid" /\ exe[p] = "present")
      => <>[](IsAvailable(plans[p]) /\ plans[p].plan = file[p].version)
=============================================================================
