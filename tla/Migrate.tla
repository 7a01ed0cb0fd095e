------------------------------- MODULE Migrate -------------------------------
(***************************************************************************)
(* cm4all-workshop-migrate: it brings the schema of an older release up to *)
(* date, one statement after the other.  There is no transaction: if the   *)
(* program is killed, what it has done so far stays, and the next run      *)
(* starts from there.                                                      *)
(*                                                                         *)
(* The schema is the set of its elements that differ between releases: the *)
(* table cronresults, columns, indexes, rules, the conversion of time      *)
(* stamps to ones with a time zone ("timestamptz" for cronjobs,            *)
(* "results_timestamptz"), and the width of jobs.account_id.               *)
(***************************************************************************)
EXTENDS Naturals, Sequences

VARIABLES
  tables,   \* which of the two tables main() looks for the database has
  schema,
  status,   \* "idle", "running", "done", "refused", "failed" (at a statement)
  pc,       \* the next statement
  converted, \* history: this run has converted the time stamps of cronjobs
  exposed   \* history: killed between the ALTER and the rule finish_cronjob

migrateVars == <<tables, schema, status, pc, converted, exposed>>

-----------------------------------------------------------------------------
(***************************************************************************)
(* A statement fails if something it refers to is missing ("needs")        *)
(* or something that must not exist does ("clash").  If "unless" exists or *)
(* "when" does not, the next "skip" statements are left out.               *)
(***************************************************************************)
Statement(needs, clash, drops, adds) ==
  [needs |-> needs, clash |-> clash, drops |-> drops, adds |-> adds,
   when |-> {}, unless |-> {}, skip |-> 0]

\* IF NOT EXISTS and IF EXISTS, CREATE OR REPLACE
Add(x) == Statement({}, {}, {}, {x})
Create(x, needs) == Statement(needs, {}, {}, {x})
Drop(x) == Statement({}, {}, {x}, {})

\* The type of a column is looked up, and the next n statements depend on it.  For a
\* table that does not exist, GetColumnType finds no type.
Unless(x, table, n) ==
  [needs |-> {}, clash |-> {}, drops |-> {}, adds |-> {},
   when |-> table, unless |-> {x}, skip |-> n]

MigrateWorkshopDatabase ==
  << Add("log"),
     Add("enabled"),
     Drop("jobs_sorted"),    Create("jobs_sorted2", {"enabled"}),
     Drop("jobs_scheduled"), Create("jobs_scheduled2", {"enabled"}),
     Create("job_enabled", {"enabled"}),
     Add("env"),
     Add("time_started"),    Create("jobs_rate_limit", {"time_started"}),
     Add("cpu_usage"),
     Add("stdin"),
     Add("time_modified"),   Create("jobs_modified", {"time_modified"}),
     Add("account_id"),      Create("jobs_account_modified", {"account_id", "time_modified"}),
     Add("sticky_id") >>

ScheduleRule == {"schedule_cronjob", "schedule_infinity"}

\* PostgreSQL refuses to change the type of a column a rule refers to, and cannot
\* keep the index because of the literal 'infinity' in its condition.
AlterTimestamps ==
  Statement({}, {"finish_cronjob", "schedule_cronjob", "cronjobs_scheduled2"},
            {}, {"timestamptz"})

CreateFinishRule == Add("finish_cronjob")

\* Mutant: the index is not created again.
MutIndexForgotten ==
  << Drop("finish_cronjob"),
     Statement({}, {}, ScheduleRule, {}),
     Statement({"cronjobs_scheduled2"}, {}, {"cronjobs_scheduled2"}, {}),
     AlterTimestamps,
     CreateFinishRule,
     Add("schedule_cronjob") >>

\* Mutant: the rule that needs no change is kept.
MutRuleKept ==
  << Statement({}, {}, ScheduleRule, {}),
     Statement({"cronjobs_scheduled2"}, {}, {"cronjobs_scheduled2"}, {}),
     AlterTimestamps,
     CreateFinishRule,
     Add("schedule_cronjob"),
     Statement({}, {"cronjobs_scheduled2"}, {}, {"cronjobs_scheduled2"}) >>

\* The new schedule_cronjob lacks the condition about 'infinity'.
AddTimeZones ==
  << Drop("finish_cronjob"),
     Statement({}, {}, ScheduleRule, {}),
     Statement({"cronjobs_scheduled2"}, {}, {"cronjobs_scheduled2"}, {}),
     AlterTimestamps,
     CreateFinishRule,
     Add("schedule_cronjob"),
     Statement({}, {"cronjobs_scheduled2"}, {}, {"cronjobs_scheduled2"}) >>

MigrateCronDatabase ==
  << Add("delay"),
     Drop("cronjobs_scheduled"), Add("cronjobs_scheduled2"),
     Statement({}, {}, {}, ScheduleRule),
     Unless("timestamptz", {}, Len(AddTimeZones)) >>
  \o AddTimeZones \o
  << Unless("results_timestamptz", {"cronresults"}, 1),
     Create("results_timestamptz", {"cronresults"}),
     Create("cronresults_finished", {"cronresults"}),
     Add("tz"),
     Add("cronjobs.sticky_id") >>

Program == (IF "jobs" \in tables THEN MigrateWorkshopDatabase ELSE <<>>)
           \o (IF "cronjobs" \in tables THEN MigrateCronDatabase ELSE <<>>)

-----------------------------------------------------------------------------
(***************************************************************************)
(* The releases before this one, and what each of them has added according *)
(* to the changelog and to the comments in the program.  The first entries *)
(* for cron are from 2.0.4, 2.0.5 and 2.0.9, before there was this tool.   *)
(***************************************************************************)
JobsReleases ==
  << {"log"}, {"enabled", "jobs_sorted2", "jobs_scheduled2", "job_enabled"}, {"env"},
     {"time_started", "jobs_rate_limit"}, {"cpu_usage"}, {"stdin"}, {"time_modified"},
     {"jobs_modified", "account_id", "account_id_64", "jobs_account_modified"},
     {"sticky_id"} >>

CronReleases ==
  << {"cronresults"}, {"cronresults.log"}, {"notification"}, {"delay"},
     {"cronjobs_scheduled2", "schedule_infinity"}, {"timestamptz", "results_timestamptz"},
     {"tz"}, {"cronresults_finished"}, {"cronjobs.sticky_id"} >>

JobsObsolete == {"jobs_sorted", "jobs_scheduled"}
CronObsolete == {"cronjobs_scheduled"}
CronAlways == {"finish_cronjob", "schedule_cronjob"}

Until(releases, v) == UNION {releases[i] : i \in 1..v}

JobsSchema(v) == Until(JobsReleases, v) \cup (IF v < 2 THEN JobsObsolete ELSE {})
CronSchema(w) ==
  CronAlways \cup Until(CronReleases, w) \cup (IF w < 5 THEN CronObsolete ELSE {})

MigrateInit ==
  /\ tables \in SUBSET {"jobs", "cronjobs"}
  /\ \E v \in 0..Len(JobsReleases), w \in 0..Len(CronReleases) :
       schema = (IF "jobs" \in tables THEN JobsSchema(v) ELSE {})
                \cup (IF "cronjobs" \in tables THEN CronSchema(w) ELSE {})
  /\ status = "idle" /\ pc = 1 /\ converted = FALSE /\ exposed = FALSE

\* The administrator runs the program, maybe not for the first time.
StartProgram ==
  /\ status # "running"
  /\ status' = "running" /\ pc' = 1 /\ converted' = FALSE
  /\ UNCHANGED <<tables, schema, exposed>>

\* The condition before the next statements does not hold.
Skips(s) == s.unless # {} /\ (s.unless \subseteq schema \/ ~(s.when \subseteq schema))

Execute ==
  LET s == Program[pc]
  IN /\ status = "running" /\ pc <= Len(Program)
     /\ IF s.needs \subseteq schema /\ s.clash \cap schema = {}
          THEN /\ schema' = (schema \ s.drops) \cup s.adds
               /\ pc' = pc + 1 + (IF Skips(s) THEN s.skip ELSE 0)
               /\ converted' = (converted \/ s = AlterTimestamps)
               /\ UNCHANGED status
          ELSE status' = "failed" /\ UNCHANGED <<schema, pc, converted>>
     /\ UNCHANGED <<tables, exposed>>

\* Without a table: "not a Workshop/Cron database".
EndProgram ==
  /\ status = "running" /\ pc > Len(Program)
  /\ status' = IF tables = {} THEN "refused" ELSE "done"
  /\ UNCHANGED <<tables, schema, pc, converted, exposed>>

\* The program is killed, or loses its connection.
Kill ==
  /\ status = "running"
  /\ status' = "idle"
  /\ exposed' = (exposed \/ (pc <= Len(Program) /\ Program[pc] = CreateFinishRule))
  /\ UNCHANGED <<tables, schema, pc, converted>>

MigrateNext == StartProgram \/ Execute \/ EndProgram \/ Kill

MigrateSpec == MigrateInit /\ [][MigrateNext]_migrateVars
-----------------------------------------------------------------------------
(***************************************************************************)
(* Properties.                                                             *)
(***************************************************************************)

\* If there is a table cronresults, no statement fails, whichever release the schema
\* comes from, and wherever earlier runs were killed: the order of the statements,
\* IF [NOT] EXISTS and the DROPs before the ALTER are sufficient.  Without that table,
\* which is as old as 2.0.4, main() does not notice, and the CREATE INDEX fails.
NoStatementFails ==
  status = "failed" =>
    /\ "cronjobs" \in tables /\ "cronresults" \notin schema
    /\ Program[pc] = Create("cronresults_finished", {"cronresults"})

\* What sql/*.sql create today, of the elements that some release has added.
JobsSql ==
  {"account_id", "account_id_64", "sticky_id", "time_modified", "enabled", "env", "stdin",
   "time_started", "cpu_usage", "log", "jobs_sorted2", "jobs_scheduled2", "jobs_modified",
   "jobs_account_modified", "jobs_rate_limit", "job_enabled"}
CronSql ==
  {"cronjobs.sticky_id", "tz", "notification", "delay", "timestamptz",
   "cronjobs_scheduled2", "finish_cronjob", "schedule_cronjob", "schedule_infinity",
   "cronresults", "results_timestamptz", "cronresults.log", "cronresults_finished"}

Required ==
  (IF "jobs" \in tables THEN JobsSql ELSE {})
  \cup (IF "cronjobs" \in tables THEN CronSql ELSE {})

\* No statement adds these: two columns older than the program, and jobs.account_id,
\* which it creates half as wide as jobs.sql does.
NeverAdded == {"cronresults.log", "notification", "account_id_64"}

\* A run that comes to its end leaves the current schema, with nothing missing and
\* nothing obsolete.  Three exceptions: what no statement adds; the condition of
\* schedule_cronjob, if this run has converted the time stamps; and finish_cronjob, the
\* rule that wakes the scheduler, which is gone for good if an earlier run was killed
\* just before it would have created that rule again.
FinishedComplete ==
  status = "done" =>
    /\ schema \subseteq Required
    /\ Required \ schema \subseteq
         NeverAdded \cup (IF converted THEN {"schedule_infinity"} ELSE {})
                    \cup (IF exposed THEN {"finish_cronjob"} ELSE {})
=============================================================================
