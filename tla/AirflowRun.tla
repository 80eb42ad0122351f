------------------------------ MODULE AirflowRun ------------------------------
(***************************************************************************)
(* The tasks of an Airflow DAG run, as the access-management flows use     *)
(* them.  Each task pulls the record activity_data that an earlier one     *)
(* pushed, works on it, and pushes it on.  A task that returns is a        *)
(* success, whether or not its result says so; one that raises is tried    *)
(* again, MaxTries times in all, from an empty XCom.  The DAG files are    *)
(* not in the repository: a task runs after the one whose XCom it pulls.   *)
(***************************************************************************)
EXTENDS Integers

CONSTANTS Run,       \* DAG runs
          Task,      \* the tasks of a run
          NoData,    \* what an XCom has when nothing was pushed
          MaxTries,  \* how often Airflow tries a task
          Faults     \* what can fail; "worklog" among others

VARIABLES task,      \* how the tasks of a run ended
          tries,     \* tries used by a task that has not ended
          xcom       \* activity_data as pushed by a task

-----------------------------------------------------------------------------
(* How a try of a task ends                                                *)

\* The task returns, after pushing d (NoData: it pushed nothing).
Returns(f, t, d) ==
  /\ task' = [task EXCEPT ![f][t] = "success"]
  /\ tries' = [tries EXCEPT ![f][t] = 0]
  /\ xcom' = [xcom EXCEPT ![f][t] = d]

\* Mutant: a task that raises is always tried again.
RaisesForever(f, t, d) ==
  /\ tries' = [tries EXCEPT ![f][t] = @ + 1]
  /\ UNCHANGED <<task, xcom>>

\* The task raises, after pushing d.  Airflow clears the XCom of a task when
\* it tries it again, and leaves that of the last try.
Raises(f, t, d) ==
  \/ /\ tries[f][t] + 1 < MaxTries
     /\ tries' = [tries EXCEPT ![f][t] = @ + 1]
     /\ UNCHANGED <<task, xcom>>
  \/ /\ tries[f][t] + 1 = MaxTries
     /\ tries' = [tries EXCEPT ![f][t] = 0]
     /\ task' = [task EXCEPT ![f][t] = "failed"]
     /\ xcom' = [xcom EXCEPT ![f][t] = d]

\* How a task tells that it failed, having pushed d: it raises, or it returns
\* as if nothing had happened.
Fails(f, t, d, how) ==
  \/ how = "raise" /\ Raises(f, t, d)
  \/ how = "return" /\ Returns(f, t, d)

\* An entry that the worklog refuses is an exception, anywhere in a task.
Breaks(f, t) == "worklog" \in Faults /\ Raises(f, t, NoData)

-----------------------------------------------------------------------------
(* How a task begins                                                       *)

\* A task can start: it has not ended and the one it follows succeeded.
Follows(f, t, u) == task[f][t] = "none" /\ task[f][u] = "success"

\* Almost every task begins so: without a worklog it returns, and without
\* the data of the task it follows it raises.
Opens(f, t, u) ==
  \/ "worklog" \in Faults /\ Returns(f, t, NoData)
  \/ xcom[f][u] = NoData /\ Raises(f, t, NoData)

\* Some return when they miss that data, too.
Stops(f, t, u) ==
  /\ "worklog" \in Faults \/ xcom[f][u] = NoData
  /\ Returns(f, t, NoData)

\* Otherwise it goes on with what that task pushed.
Given(f, u) == xcom[f][u] # NoData

SomeTaskFailed(f) == \E t \in Task : task[f][t] = "failed"

\* A task of the run is green although it pushed nothing; t of `silent' never
\* push anything.
DataLost(f, silent) ==
  \E t \in Task \ silent : task[f][t] = "success" /\ xcom[f][t] = NoData
===============================================================================
