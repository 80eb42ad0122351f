---------------------------- MODULE DbHousekeeping ----------------------------
(***************************************************************************)
(* Database housekeeping, src/dags/oscar_db_housekeeping_cleanup.py, over  *)
(* a database that the other services go on using, and next to the older   *)
(* daily DAGs that clean two of its tables, too.                           *)
(*                                                                         *)
(* A behaviour is about one family of rows: the families share no table,   *)
(* and their cleanup tasks only meet in the report.  One step is one       *)
(* statement sent to the database, so that the services, the older DAG and *)
(* the death of a worker come in between.  What a transaction has deleted  *)
(* is gone with its commit.  Child rows (stages, labels, annotations) are  *)
(* deleted before their parents in the same transaction: they matter here  *)
(* as locks only.  The clock counts half days: a cutoff lies at noon as    *)
(* well as at midnight, and one family deletes by whole days.              *)
(***************************************************************************)
EXTENDS Integers, FiniteSets, FiniteSetsExt

CONSTANTS Row,            \* rows that are there, or come to be
          Families,       \* the families to look at, of Family
          Retention,      \* days that the settings can ask to keep
          OlderRetention, \* days that the older DAG keeps
          BatchSize,      \* rows of a batch (1000 or more in the code)
          MaxIterations,  \* batches of a try (100 or more in the code)
          MaxTries,       \* tries of a cleanup task (4 in the code)
          First, Last,    \* bound: the half days a behaviour lasts
          MaxFaults,      \* bound: tries that fail
          OlderRuns       \* bound: transactions of the older DAG

Family == {"task_history", "alert_history", "notification_audit",
           "ticketing_audit", "user_audit", "alert_audit"}

ASSUME SizesAssumption ==
  /\ BatchSize \in Nat \ {0}
  /\ MaxIterations \in Nat \ {0}
  /\ MaxTries \in Nat \ {0}
  /\ First \in Nat
  /\ Last \in Nat
  /\ First <= Last
  /\ MaxFaults \in Nat
  /\ OlderRuns \in Nat

ASSUME PolicyAssumption ==
  /\ Families \subseteq Family
  /\ Retention \subseteq Nat \ {0}
  /\ OlderRetention \in Nat \ {0}

ASSUME RowAssumption == IsFiniteSet(Row)

Off == 0                  \* the policy of a family that is not cleaned
Policy == Retention \cup {Off}
NoResult == -1            \* nothing in the XCom of the cleanup task
NoReport == [status |-> "none", rows |-> 0]

VARIABLES
  family,   \* the family the behaviour is about
  now,      \* half days
  policy,   \* settings: days to keep, or Off
  state,    \* row: what its status column says
  made,     \* row: created_at, of an episode last_occurrence
  ended,    \* row: resolved_at of an episode
  summary,  \* days that have a row in the summary table
  pc,       \* housekeeping: where the DAG run stands
  snapshot, \* housekeeping: the policy as loaded
  task,     \* housekeeping: how the cleanup task ended
  tries,    \* housekeeping: tries of it that failed
  cutoff,   \* try: when its retention begins
  day,      \* try: the day being deleted, for user_audit
  batches,  \* try: batches begun (of the day, for user_audit)
  held,     \* try: the rows that the open transaction deletes
  count,    \* try: rows deleted, as far as the task has counted
  result,   \* housekeeping: rows deleted, as pushed to XCom and reported
  report,   \* worklog: what the metadata say of the last run
  run,      \* Airflow: how the last run ended
  removed,  \* history: rows that this run has deleted
  faults,   \* bound: tries that failed so far
  opc,      \* older DAG: where its transaction stands
  oids,     \* older DAG: the ids it has selected
  olds      \* bound: its transactions so far

rows  == <<state, made, ended, summary>>
dag   == <<snapshot, task, tries, result, report, run>>
try   == <<cutoff, day, batches, count>>
older == <<opc, oids, olds>>
vars  == <<family, now, policy, rows, pc, dag, try, held, removed, faults, older>>

-----------------------------------------------------------------------------
(* The families                                                            *)

HalfDays(n) == 2 * n
Day(t) == t \div 2

\* Tables with a status column; the rows of the other two are as they are.
HasStatus == {"task_history", "alert_history", "notification_audit",
              "ticketing_audit"}

\* Tables with children, that a batch selects and locks first.  The older DAGs
\* clean the same two.
HasKids == {"task_history", "alert_history"}

\* Tables that triggers summarise by day.
HasSummary == {"notification_audit", "ticketing_audit", "user_audit"}

Present(r) == state[r] \in {"open", "closed"}

\* The row is an alert: an episode that is resolved and may open again.
IsEpisode == family = "alert_history"

\* The column that the retention goes by.
When(r) == IF IsEpisode THEN ended[r] ELSE made[r]

\* The row counts as eligible before the first batch.
Eligible(r, cut) == state[r] = "closed" /\ When(r) < cut

\* The row is one to delete.  User audit goes by whole days.
Retired(r, cut) ==
  /\ state[r] = "closed"
  /\ IF family = "user_audit" THEN Day(made[r]) < Day(cut) ELSE When(r) < cut

\* ... LIMIT: as many of the rows as a batch takes.
Batch(from) ==
  {b \in SUBSET from : \/ b = from /\ Cardinality(b) <= BatchSize
                       \/ Cardinality(b) = BatchSize}

\* ... ORDER BY created_at, id LIMIT: the oldest.
OldestBatch(from) ==
  {b \in Batch(from) : \A r \in b, s \in from \ b : When(r) <= When(s)}

-----------------------------------------------------------------------------
\* Rows of any age, and summaries of the days they are from.
Init ==
  /\ family \in Families
  /\ now = First
  /\ policy \in Policy
  /\ state \in [Row -> {"absent", "closed"}
                        \cup (IF family \in HasStatus THEN {"open"} ELSE {})]
  /\ made \in [Row -> 0 .. First]
  /\ \A r \in Row : state[r] = "absent" => made[r] = 0
  /\ ended = [r \in Row |-> IF IsEpisode /\ state[r] = "closed" THEN made[r] ELSE 0]
  /\ summary = IF family \in HasSummary
                 THEN {Day(made[r]) : r \in {s \in Row : Present(s)}} ELSE {}
  /\ pc = "idle"
  /\ snapshot = Off
  /\ task = "none"
  /\ tries = 0
  /\ cutoff = 0
  /\ day = 0
  /\ batches = 0
  /\ held = {}
  /\ count = 0
  /\ result = NoResult
  /\ report = NoReport
  /\ run = "none"
  /\ removed = 0
  /\ faults = 0
  /\ opc = "idle"
  /\ oids = {}
  /\ olds = 0

-----------------------------------------------------------------------------
(* The services that use the tables, and the settings                      *)

\* Mutant: the batch is selected without FOR UPDATE.
LockedOnceDeleted == {"deleted"}

\* Where a run stands when the rows of its batch are locked: from the moment
\* that it selects them (FOR UPDATE).
LockedFrom == {"claimed", "kids deleted", "deleted"}

\* A row that an open transaction has locked: that of housekeeping, or the
\* older DAG's, which locks what it has deleted.
Locked(r) ==
  \/ pc \in LockedFrom /\ r \in held
  \/ opc = "deleted" /\ r \in oids

OthersUnchanged == UNCHANGED <<family, pc, dag, try, held, removed, faults, older>>

\* A task, an alert, a notification, a ticket or an action of a user.
Insert(r) ==
  /\ state[r] = "absent"
  /\ state' = [state EXCEPT ![r] = IF family \in HasStatus THEN "open" ELSE "closed"]
  /\ made' = [made EXCEPT ![r] = now]
  /\ summary' = IF family \in HasSummary THEN summary \cup {Day(now)} ELSE summary
  /\ UNCHANGED <<ended, now, policy>>
  /\ OthersUnchanged

\* A row gets a terminal status, an episode is resolved.
Close(r) ==
  /\ state[r] = "open"
  /\ ~Locked(r)
  /\ state' = [state EXCEPT ![r] = "closed"]
  /\ ended' = [ended EXCEPT ![r] = IF IsEpisode THEN now ELSE 0]
  /\ UNCHANGED <<made, summary, now, policy>>
  /\ OthersUnchanged

\* An alert occurs again, and its resolved episode is reopened.
Reopen(r) ==
  /\ IsEpisode
  /\ state[r] = "closed"
  /\ ~Locked(r)
  /\ state' = [state EXCEPT ![r] = "open"]
  /\ made' = [made EXCEPT ![r] = now]
  /\ ended' = [ended EXCEPT ![r] = 0]
  /\ UNCHANGED <<summary, now, policy>>
  /\ OthersUnchanged

\* Somebody changes the settings of the family.
SetPolicy ==
  /\ policy' \in Policy
  /\ UNCHANGED <<now, rows>>
  /\ OthersUnchanged

Tick ==
  /\ now < Last
  /\ now' = now + 1
  /\ UNCHANGED <<policy, rows>>
  /\ OthersUnchanged

-----------------------------------------------------------------------------
(* The DAG run around the cleanup task                                     *)

WorldUnchanged == UNCHANGED <<family, now, policy, older>>

\* create_worklog, with which a run starts, goes on without one if it must.
CreateWorklog ==
  /\ pc = "idle"
  /\ pc' = "policy"
  /\ run' = "none"
  /\ UNCHANGED <<rows, snapshot, task, tries, result, report, try, held, removed,
                 faults>>
  /\ WorldUnchanged

\* load_housekeeping_policy: one snapshot for the whole run.  It is tried
\* once; without it the cleanup task is not started.
LoadPolicy ==
  /\ pc = "policy"
  /\ \/ /\ snapshot' = policy
        /\ pc' = "begin"
        /\ UNCHANGED <<task, faults>>
     \/ /\ faults < MaxFaults
        /\ faults' = faults + 1
        /\ task' = "upstream_failed"
        /\ pc' = "close"
        /\ UNCHANGED snapshot
  /\ UNCHANGED <<rows, tries, result, report, run, try, held, removed>>
  /\ WorldUnchanged

\* The cleanup task returns, having pushed n.
Returns(n) ==
  /\ task' = "success"
  /\ result' = n
  /\ pc' = "close"
  /\ UNCHANGED <<snapshot, tries, report, run>>

\* What build_task_report makes of the cleanup task.
ReportOf ==
  CASE task # "success" -> [status |-> "error", rows |-> 0]
    [] task = "success" /\ result = NoResult -> [status |-> "skipped", rows |-> 0]
    [] OTHER -> [status |-> "completed", rows |-> result]

\* close_worklog runs whatever became of the cleanup.  The report goes to the
\* worklog, if there is one and it takes it.
CloseWorklog ==
  /\ pc = "close"
  /\ report' \in {ReportOf, NoReport}
  /\ pc' = "enforce"
  /\ UNCHANGED <<rows, snapshot, task, tries, result, run, try, held, removed,
                 faults>>
  /\ WorldUnchanged

\* enforce_housekeeping_result keeps the run red when the cleanup failed.  The
\* next run starts from nothing.
Enforce ==
  /\ pc = "enforce"
  /\ run' = IF task = "success" THEN "success" ELSE "failed"
  /\ pc' = "idle"
  /\ snapshot' = Off
  /\ task' = "none"
  /\ tries' = 0
  /\ result' = NoResult
  /\ report' = NoReport
  /\ removed' = 0
  /\ UNCHANGED <<rows, try, held, faults>>
  /\ WorldUnchanged

-----------------------------------------------------------------------------
(* A try of the cleanup task                                               *)

\* What a try of these returns at once when it finds nothing to delete.
EarlyReturn == {"task_history", "notification_audit", "ticketing_audit"}

\* What a try keeps for itself goes with it.
TryEnds == cutoff' = 0 /\ day' = 0 /\ batches' = 0 /\ count' = 0

\* policy_for and the count of what is to delete.  The cutoff of a try, and
\* what it counts, is its own.  Three of the tasks return at once if there
\* is nothing, without pushing that.
BeginTry ==
  LET cut == now - HalfDays(snapshot)
      none == \A r \in Row : ~Eligible(r, cut)
  IN  /\ pc = "begin"
      /\ \/ /\ \/ snapshot = Off
               \/ none /\ family \in EarlyReturn
            /\ Returns(NoResult)
            /\ UNCHANGED try
         \/ /\ snapshot # Off /\ none /\ family = "user_audit"
            /\ Returns(0)
            /\ UNCHANGED try
         \/ /\ snapshot # Off
            /\ ~none \/ family \in {"alert_history", "alert_audit"}
            /\ cutoff' = cut
            /\ day' = IF family = "user_audit"
                       THEN Min({Day(made[r]) : r \in {s \in Row : Present(s)}})
                       ELSE 0
            /\ pc' = "loop"
            /\ UNCHANGED <<batches, count, dag>>
      /\ UNCHANGED <<rows, held, removed, faults>>
      /\ WorldUnchanged

TryUnchanged == UNCHANGED <<rows, dag, removed, faults>> /\ WorldUnchanged

\* Mutant: the loop is left with its last batch still to be done.
MayGoOnButLast == batches + 1 < MaxIterations

\* There are batches left to a try.
MayGoOn == batches < MaxIterations

\* The loop is left when its batches are used up, or its time: not before the
\* first batch.
LeaveLoop ==
  /\ pc = "loop"
  /\ \/ ~MayGoOn
     \/ count > 0 /\ family # "alert_audit"
  /\ pc' = "summary"
  /\ UNCHANGED <<try, held>>
  /\ TryUnchanged

\* SELECT ... FOR UPDATE SKIP LOCKED: the oldest rows that are retired and
\* that nobody else holds, and holds them.
ClaimBatch ==
  LET free == {r \in Row : Retired(r, cutoff) /\ ~Locked(r)}
  IN  /\ pc = "loop"
      /\ MayGoOn
      /\ batches' = batches + 1
      /\ held' \in OldestBatch(free)
      /\ pc' = IF held' = {} THEN "summary" ELSE "claimed"
      /\ UNCHANGED <<cutoff, day, count>>
      /\ TryUnchanged

\* The older DAG has the children of a row that is to be deleted.
KidsLocked == opc = "kids deleted" /\ held \cap oids # {}

DeleteKids ==
  /\ pc = "claimed"
  /\ ~KidsLocked
  /\ pc' = "kids deleted"
  /\ UNCHANGED <<try, held>>
  /\ TryUnchanged

DeleteRows ==
  /\ pc = "kids deleted"
  /\ count' = count + Cardinality(held)
  /\ pc' = "deleted"
  /\ UNCHANGED <<cutoff, day, batches, held>>
  /\ TryUnchanged

\* DELETE ... LIMIT: tables without children need no selection first.
DeleteBatch ==
  LET free == {r \in Row : Retired(r, cutoff)}
  IN  /\ pc = "loop"
      /\ MayGoOn
      /\ batches' = batches + 1
      /\ held' \in IF family = "alert_audit" THEN Batch(free) ELSE OldestBatch(free)
      /\ count' = count + Cardinality(held')
      /\ pc' = IF held' = {} THEN "summary" ELSE "deleted"
      /\ UNCHANGED <<cutoff, day>>
      /\ TryUnchanged

\* User audit: the rows of one day, and then of the next.  The days are over
\* at the day of the cutoff, or when the time is.
DeleteOfDay ==
  LET ofDay == {r \in Row : Present(r) /\ Day(made[r]) = day}
  IN  /\ pc = "loop"
      /\ day < Day(cutoff)
      /\ batches' = batches + 1
      /\ held' \in Batch(ofDay)
      /\ count' = count + Cardinality(held')
      /\ pc' = "deleted"
      /\ UNCHANGED <<cutoff, day>>
      /\ TryUnchanged

LeaveDays ==
  /\ pc = "loop"
  /\ \/ day >= Day(cutoff)
     \/ batches = 0 /\ count > 0
  /\ pc' = "summary"
  /\ UNCHANGED <<try, held>>
  /\ TryUnchanged

\* What the transaction deleted is gone.
Gone(these) ==
  /\ state' = [r \in Row |-> IF r \in these /\ Present(r) THEN "gone" ELSE state[r]]
  /\ UNCHANGED <<made, ended, summary>>

\* Committed batches stay deleted, whatever becomes of the try.
Commit ==
  /\ pc = "deleted"
  /\ Gone(held)
  /\ removed' = removed + Cardinality(held)
  /\ held' = {}
  /\ LET short == Cardinality(held) < BatchSize
         nextDay == family = "user_audit" /\ (short \/ batches = MaxIterations)
     IN  /\ day' = IF nextDay THEN day + 1 ELSE day
         /\ batches' = IF nextDay THEN 0 ELSE batches
         /\ pc' = IF family = "alert_audit" /\ short THEN "summary" ELSE "loop"
  /\ UNCHANGED <<cutoff, count, dag, faults>>
  /\ WorldUnchanged

\* Mutant: every summary before the cutoff goes.
DropAllSummaries(cut) == {d \in summary : d < Day(cut)}

\* Days before the cutoff's of which no row is left, whatever its status.
DropSummaries(cut) ==
  {d \in summary : d < Day(cut) /\ \A r \in Row : Present(r) => Day(made[r]) # d}

\* Families whose report adds the summaries to the rows deleted.
ReportsSummaries == {"notification_audit", "ticketing_audit"}

\* The summary table, where there is one, in a transaction of its own.
CleanSummary ==
  LET dropped == DropSummaries(cutoff)
      n == IF family \in ReportsSummaries THEN Cardinality(dropped) ELSE 0
  IN  /\ pc = "summary"
      /\ summary' = summary \ dropped
      /\ count' = count + n
      /\ removed' = removed + n
      /\ pc' = "push"
      /\ UNCHANGED <<state, made, ended, dag, cutoff, day, batches, held, faults>>
      /\ WorldUnchanged

\* The result is pushed last, after a table was optimized, which takes long.
PushResult ==
  /\ pc = "push"
  /\ Returns(count)
  /\ TryEnds
  /\ UNCHANGED <<rows, held, removed, faults>>
  /\ WorldUnchanged

\* Mutant: a batch that fails is rolled back and the loop goes on.
RollbackAndGoOn ==
  /\ held' = {}
  /\ pc' = "loop"
  /\ UNCHANGED <<rows, dag, try, removed>>
  /\ WorldUnchanged

\* The transaction is rolled back, and Airflow tries the task again.
Rollback ==
  /\ held' = {}
  /\ TryEnds
  /\ \/ /\ tries + 1 < MaxTries
        /\ tries' = tries + 1
        /\ pc' = "begin"
        /\ UNCHANGED task
     \/ /\ tries + 1 = MaxTries
        /\ tries' = tries + 1
        /\ task' = "failed"
        /\ pc' = "close"
  /\ UNCHANGED <<rows, snapshot, result, report, run, removed>>
  /\ WorldUnchanged

Trying == {"begin", "loop", "claimed", "kids deleted", "deleted", "summary", "push"}

\* The database cannot be reached, a statement fails, the task is killed.
Fail ==
  /\ pc \in Trying
  /\ faults < MaxFaults
  /\ faults' = faults + 1
  /\ Rollback

\* The two DAGs wait for one another: the older one has the children of a row
\* that is claimed.  The database rolls one of them back.
LoseDeadlock == pc = "claimed" /\ KidsLocked /\ Rollback /\ UNCHANGED faults

-----------------------------------------------------------------------------
(* The cleanup tasks                                                       *)

CleanTaskHistory ==
  /\ family = "task_history"
  /\ \/ BeginTry \/ ClaimBatch \/ DeleteKids \/ DeleteRows \/ Commit
     \/ LeaveLoop \/ CleanSummary \/ PushResult
     \/ Fail \/ LoseDeadlock

CleanAlertHistoryRecords ==
  /\ family = "alert_history"
  /\ \/ BeginTry \/ ClaimBatch \/ DeleteKids \/ DeleteRows \/ Commit
     \/ LeaveLoop \/ CleanSummary \/ PushResult
     \/ Fail \/ LoseDeadlock

CleanNotificationAuditHistory ==
  /\ family = "notification_audit"
  /\ \/ BeginTry \/ DeleteBatch \/ Commit \/ LeaveLoop \/ CleanSummary \/ PushResult
     \/ Fail

CleanTicketingAuditHistory ==
  /\ family = "ticketing_audit"
  /\ \/ BeginTry \/ DeleteBatch \/ Commit \/ LeaveLoop \/ CleanSummary \/ PushResult
     \/ Fail

CleanUserAuditHistory ==
  /\ family = "user_audit"
  /\ \/ BeginTry \/ DeleteOfDay \/ Commit \/ LeaveDays \/ CleanSummary \/ PushResult
     \/ Fail

CleanAlertAudit ==
  /\ family = "alert_audit"
  /\ \/ BeginTry \/ DeleteBatch \/ Commit \/ LeaveLoop \/ CleanSummary \/ PushResult
     \/ Fail

Housekeep ==
  \/ CreateWorklog \/ LoadPolicy
  \/ CleanTaskHistory \/ CleanAlertHistoryRecords
  \/ CleanNotificationAuditHistory \/ CleanTicketingAuditHistory
  \/ CleanUserAuditHistory \/ CleanAlertAudit
  \/ CloseWorklog \/ Enforce

-----------------------------------------------------------------------------
(* The older DAGs, clean_task_history and clean_alert_history              *)

HousekeepingUnchanged ==
  UNCHANGED <<family, now, policy, pc, dag, try, held, removed, faults>>

\* A SELECT without a lock, by age alone.
OlderSelect ==
  /\ family \in HasKids
  /\ opc = "idle"
  /\ olds < OlderRuns
  /\ olds' = olds + 1
  /\ oids' \in Batch({r \in Row : /\ Present(r)
                                  /\ made[r] < now - HalfDays(OlderRetention)})
  /\ oids' # {}
  /\ opc' = "selected"
  /\ UNCHANGED rows
  /\ HousekeepingUnchanged

\* The children of the rows selected, once nobody else has deleted them.
OlderDeleteKids ==
  /\ opc = "selected"
  /\ pc \notin {"kids deleted", "deleted"} \/ held \cap oids = {}
  /\ opc' = "kids deleted"
  /\ UNCHANGED <<oids, olds, rows>>
  /\ HousekeepingUnchanged

\* The rows, by their ids; the loop is left if none is there any more.
OlderDeleteRows ==
  /\ opc = "kids deleted"
  /\ held \cap oids = {}
  /\ opc' = IF \E r \in oids : Present(r) THEN "deleted" ELSE "rollback"
  /\ UNCHANGED <<oids, olds, rows>>
  /\ HousekeepingUnchanged

OlderCommit ==
  /\ opc = "deleted"
  /\ Gone(oids)
  /\ opc' = "idle"
  /\ oids' = {}
  /\ UNCHANGED olds
  /\ HousekeepingUnchanged

\* An error, a deadlock that it loses, or the connection that is closed.
OlderRollback ==
  /\ opc # "idle"
  /\ opc' = "idle"
  /\ oids' = {}
  /\ UNCHANGED <<olds, rows>>
  /\ HousekeepingUnchanged

Older ==
  \/ OlderSelect \/ OlderDeleteKids \/ OlderDeleteRows \/ OlderCommit
  \/ OlderRollback

Next ==
  \/ Housekeep
  \/ Older
  \/ \E r \in Row : Insert(r) \/ Close(r) \/ Reopen(r)
  \/ SetPolicy
  \/ Tick

Spec == Init /\ [][Next]_vars

\* Airflow starts the DAG every day and runs the tasks that can run.  A
\* database transaction ends.
FairSpec == Spec /\ WF_vars(Housekeep) /\ WF_vars(Older)

-----------------------------------------------------------------------------
(* Properties                                                              *)

\* Every variable keeps the values that the code can give it.
TypeOK ==
  /\ family \in Families
  /\ now \in First .. Last
  /\ policy \in Policy /\ snapshot \in Policy
  /\ state \in [Row -> {"absent", "open", "closed", "gone"}]
  /\ made \in [Row -> 0 .. now] /\ ended \in [Row -> 0 .. now]
  /\ summary \subseteq Int
  /\ pc \in {"idle", "policy", "close", "enforce"} \cup Trying
  /\ task \in {"none", "success", "failed", "upstream_failed"}
  /\ tries \in 0 .. MaxTries
  /\ cutoff \in Int /\ day \in Int
  /\ batches \in Nat
  /\ held \subseteq Row
  /\ count \in Nat /\ removed \in Nat
  /\ result \in Nat \cup {NoResult}
  /\ report \in [status : {"none", "error", "skipped", "completed"}, rows : Nat \cup {NoResult}]
  /\ run \in {"none", "success", "failed"}
  /\ faults \in 0 .. MaxFaults
  /\ opc \in {"idle", "selected", "kids deleted", "deleted", "rollback"}
  /\ oids \subseteq Row
  /\ olds \in 0 .. OlderRuns

\* A step of housekeeping takes no row but a closed one that is as old, at that
\* moment, as the policy of the run asks for: whatever the services do to the
\* row after it was selected.
RetiredOnly ==
  [][UNCHANGED older =>
       \A r \in Row : state[r] # "gone" /\ state'[r] = "gone" =>
         /\ snapshot # Off
         /\ Retired(r, now - HalfDays(snapshot))]_vars

\* The day of a row that is still there is still summarised: the summaries go
\* by the day and the rows by the hour, by status and by batches.
SummariesKept ==
  family \in HasSummary =>
    \A r \in Row : Present(r) => Day(made[r]) \in summary

\* What the worklog says was deleted was deleted, though batches of failed
\* tries may have been, too; and only those if it says "skipped".
ReportIsTrue ==
  pc = "enforce" =>
    /\ report.status = "completed" =>
         /\ report.rows <= removed
         /\ tries = 0 => report.rows = removed
    /\ report.status = "skipped" /\ tries = 0 => removed = 0

\* A row that the policy retires goes, unless the policy or the row changes
\* first, through every failed try, used-up batch and row that others lock.
RetiredGoes ==
  \A r \in Row :
    LET Due == policy # Off /\ Retired(r, now - HalfDays(policy))
    IN  Due ~> ~Due

\* oscar_housekeeping_config.py, lines 120-121: "Only episodes with resolved_at
\* before the cutoff are eligible. Open or unresolved episodes remain even if
\* their first occurrence is old."
OpenEpisodesStay ==
  [][\A r \in Row : IsEpisode /\ state[r] = "open" => state'[r] # "gone"]_vars
=============================================================================
