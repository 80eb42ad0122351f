------------------------------ MODULE AccessFlows ------------------------------
(***************************************************************************)
(* Any of the five service-request flows, over the tables and services they *)
(* share.  A behaviour is of one kind: the email that updates a request     *)
(* starts a run of the same flow, and runs of different kinds have no row   *)
(* in common.                                                               *)
(***************************************************************************)
EXTENDS PasswordResetFlow, NewUserFlow, NewServiceFlow, UserModifyFlow,
        OtherRequestFlow

CONSTANT Kinds     \* the flows to look at, of FlowKind

FlowKind == {"reset", "new user", "new service", "modify", "other"}

ASSUME KindsAssumption == Kinds \subseteq FlowKind

VARIABLE kind      \* the flow that the runs belong to

FlowsInit == Init /\ kind \in Kinds

Step(f) ==
  /\ \/ kind = "reset" /\ ResetStep(f)
     \/ kind = "new user" /\ NewUserStep(f)
     \/ kind = "new service" /\ NewServiceStep(f)
     \/ kind = "modify" /\ ModifyStep(f)
     \/ kind = "other" /\ OtherStep(f)
  /\ UNCHANGED kind

Next == \E f \in Run : Step(f)

Spec == FlowsInit /\ [][Next]_<<vars, kind>>

\* Airflow schedules every task that can run.
FairSpec == Spec /\ \A f \in Run : WF_<<vars, kind>>(Step(f))

-----------------------------------------------------------------------------
\* The status that announces an SR.
Submitted == IF kind = "other" THEN "Completed" ELSE "SR Submitted"

\* A row that says so tracks a service request which exists and was created
\* for it, also when several runs work on the request and emails about it give
\* other numbers.
TrackedIsReal ==
  \A q \in Request :
    status[q] = Submitted =>
      /\ srNo[q] # {}
      /\ \A n \in srNo[q] : n \in srs /\ about[n.run] = q

\* A mail about an outcome follows the update that records it, also when tasks
\* are retried after doing half of their work.  In three of the flows a failed
\* update is returned and passed over, so that only the failure of the SR,
\* which is raised everywhere, is recorded whenever it is told.
ToldIsWritten ==
  ToldAfterWriting(IF kind \in {"reset", "other"} THEN DOMAIN Verdict
                                                  ELSE {"sr_failed"})

\* An SR is announced only with the request's data in its work info, which is
\* what its approver decides on: in the flows that raise when that fails.
AnnouncedIsNoted ==
  kind \in {"reset", "other"} =>
    \A m \in mails : m.kind \in {"submitted", "filed"} => m.sr \subseteq noted

\* The number that the table tracks is the one the requester and the approvers
\* are told, also when the creation of the SR was retried: a run may have
\* created several.
ToldIsTracked ==
  \A m \in mails, w \in written :
    m.run = w.run /\ m.kind \in {"submitted", "filed"} =>
      (w.status = Verdict[m.kind] => m.sr = w.sr)

\* A new account is completed without an SR only when its requester was told
\* that the user exists.
CompletedIsTold ==
  kind = "new user" =>
    \A w \in written :
      w.status = "Completed" =>
        \E m \in mails : m.run = w.run /\ m.kind = "blocked"

\* When the creation of the SR of a password reset has failed for good, its
\* result says so: that is what
\* sr_creation_failed_activity_update_user_password_reset expects.
FailureIsPushed ==
  \A f \in Run :
    kind = "reset" /\ task[f]["sr_creation"] = "failed" =>
      xcom[f]["sr_creation"] \in [ad : AdAnswer, sr : {Failed}]

\* Every run of these flows ends with its verdict in the table, or with a
\* failed task for an operator to see: none goes green and forgets its
\* request, unless one of its tasks had no worklog and returned without its
\* data.
NoneForgotten ==
  kind \in {"reset", "other"} =>
    \A f \in Run :
      <>(SomeTaskFailed(f) \/ WroteVerdict(f) \/ DataLost(f, {"branch"}))
===============================================================================
