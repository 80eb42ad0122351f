---------------------------- MODULE AccessRequest ----------------------------
(***************************************************************************)
(* What the access-management flows share: the activity table, the service *)
(* requests (SR) of the ticket system, the mails to the requester, and the *)
(* Airflow runs that work on them.                                         *)
(*                                                                         *)
(* Each member of Run is one DAG run, started by one email, with the task  *)
(* semantics of AirflowRun.  Its tasks are the functions of                *)
(* src/plugins/helpers/access_management_*; they hand one record,          *)
(* activity_data, from task to task through XCom.                          *)
(*                                                                         *)
(* This module holds that machinery, the first task (the activity tracker) *)
(* and the shapes most of the tasks have; a module per flow adds its tasks *)
(***************************************************************************)
EXTENDS Integers, FiniteSets

CONSTANTS Run,       \* DAG runs
          Request,   \* process ids
          Named,     \* Named[f]: the request that f's email names, if any
          SrGiven,   \* SR numbers that emails may give
          MaxTries,  \* how often Airflow tries a task
          Faults     \* what can fail: "worklog", "db", "service"

NoRequest == "no request"

\* A service request is known by the try that created it.
SR == [run : Run, try : 1 .. MaxTries]
SrOf(f, n) == {[run |-> f, try |-> n]}

\* A number that none of them has: emails are written by people.
Foreign == [run |-> "elsewhere", try |-> 0]

ASSUME NamedAssumption == Named \in [Run -> Request \cup {NoRequest}]
ASSUME SrGivenAssumption == SrGiven \subseteq SR \cup {Foreign}
ASSUME TriesAssumption == MaxTries \in Nat \ {0}
ASSUME FaultsAssumption == Faults \subseteq {"worklog", "db", "service"}

\* What the tasks do, in any of the flows.
Task == {"intake", "fetch", "ad_connect", "branch",
         "sr_creation", "sr_worklog", "activity_update", "approver", "sr_mail",
         "blocked_status", "blocked_mail", "ad_error_status", "ad_error_mail",
         "sr_failed_status", "sr_failed_mail",
         "name_check", "name_mail",            \* of a new service account
         "missing_status", "missing_mail"}     \* of a role to be removed

\* activity_data: the keys that later tasks depend on.  "sr" is the
\* sr_creation_result: the number of the SR (that is, the try), or else:
NoResult  == 0     \* there is no such key
Failed    == -1    \* {'status': 'Failed', ...}
NotesOnly == -2    \* {'notes': ...}

\* "ad" is what the AD script answered: "blocked" and "missing" complete the
\* request without an SR.  A service account gets there "unnamed" if it has
\* no valid name.
AdAnswer == {"clear", "blocked", "missing", "error"}
Data == [ad : AdAnswer \cup {"not asked", "unnamed"}, sr : -2 .. MaxTries]
Begun == [ad |-> "not asked", sr |-> NoResult]
NoData == [ad |-> "no data", sr |-> NoResult]

\* What a mail of this kind says of the request.
Verdict == [submitted |-> "SR Submitted",
            filed     |-> "Completed",
            blocked   |-> "Completed",
            missing   |-> "Completed",
            ad_error  |-> "Error in check AD process",
            sr_failed |-> "Error in ITSM Process"]

\* One more mail asks for another name, and has no verdict.
MailKind == DOMAIN Verdict \cup {"name"}

\* u_status.
Status == {"absent", "Data Inserted", "Data updated"}
            \cup {Verdict[k] : k \in DOMAIN Verdict}

VARIABLES
  status,   \* activity table: u_status
  srNo,     \* activity table: u_sr_no, empty or one number
  srs,      \* ticket system: the service requests there are
  noted,    \* ticket system: those with their work info
  mails,    \* what requesters were told
  task,     \* Airflow: how the tasks of a run ended
  tries,    \* Airflow: tries used by a task that has not ended
  xcom,     \* Airflow: activity_data as pushed by a task
  about,    \* process_id in activity_data: the request of a run
  written   \* history: what the runs wrote to the rows of their requests

row   == <<status, srNo, written>>
world == <<srs, noted, mails>>
flow  == <<task, tries, xcom>>
vars  == <<row, world, flow, about>>

\* The service_request_number of an email about an account to be disabled: of
\* any SR there is, or of none.
EmailedSr == {{}} \cup {{n} : n \in SrGiven \cap (srs \cup {Foreign})}

\* A request that an email names may be there already.
Init ==
  /\ status \in [Request -> {"absent", "Data updated"}]
  /\ \A q \in Request : (\A f \in Run : Named[f] # q) => status[q] = "absent"
  /\ srs = {}
  /\ srNo \in [Request -> EmailedSr]
  /\ \A q \in Request : status[q] = "absent" => srNo[q] = {}
  /\ noted = {}
  /\ mails = {}
  /\ task = [f \in Run |-> [t \in Task |-> "none"]]
  /\ tries = [f \in Run |-> [t \in Task |-> 0]]
  /\ xcom = [f \in Run |-> [t \in Task |-> NoData]]
  /\ about = [f \in Run |-> NoRequest]
  /\ written = {}

-----------------------------------------------------------------------------
INSTANCE AirflowRun

\* The branch of the flow that the answer of the AD script leads to.
Branched(f, t, way) ==
  /\ Follows(f, t, "branch")
  /\ xcom[f]["ad_connect"].ad = way

\* SELECT ... WHERE u_identifier = process_id finds the row.
HasRow(f) == about[f] # NoRequest /\ status[about[f]] # "absent"

\* UPDATE ... WHERE u_identifier = process_id: without such a row it changes
\* nothing, and succeeds.
SetRow(f, s, n) ==
  LET q == about[f]
  IN  /\ status' = [status EXCEPT ![q] = IF @ = "absent" THEN @ ELSE s]
      /\ srNo' = [srNo EXCEPT ![q] = IF status[q] = "absent" THEN @ ELSE n]
      /\ written' = written \cup {[run |-> f, status |-> s, sr |-> n]}

\* A task early in the flow reads the row of the request.
ReadsFrom(f, t, u) ==
  \/ /\ ~Given(f, u) \/ ~HasRow(f) \/ "db" \in Faults
     /\ Raises(f, t, NoData)
  \/ /\ Given(f, u) /\ HasRow(f)
     /\ Returns(f, t, xcom[f][u])
  \/ Breaks(f, t)

Reads(f, t) == ReadsFrom(f, t, "intake")

\* The answer of the AD script, also an error it reports, goes to the branch;
\* no answer at all is raised, to be tried again later.
Asks(f, t, answers) ==
  \/ Opens(f, t, "fetch")
  \/ /\ Given(f, "fetch")
     /\ \/ \E a \in answers : Returns(f, t, [xcom[f]["fetch"] EXCEPT !.ad = a])
        \/ "service" \in Faults /\ Raises(f, t, NoData)
        \/ Breaks(f, t)

\* Task t, given d, sets the status of the row, and its SR number to n.  The
\* update, done or not, may be reported to have failed, and the worklog can
\* fail before it, after it, or on that report.
Updates(f, t, d, s, n, how) ==
  \/ SetRow(f, s, n) /\ Returns(f, t, d)
  \/ /\ SetRow(f, s, n) \/ UNCHANGED row
     /\ \/ Faults \cap {"db", "worklog"} # {} /\ Fails(f, t, d, how)
        \/ Breaks(f, t)

\* Task t, given d, creates an SR in the ticket system, which may have done so
\* although the call failed, or the task after it.  Most flows push such a
\* failure and return; what stays in the XCom of a task that raises is what
\* it pushed before the call, with the result `left'.
Creates(f, t, d, left) ==
  LET n == tries[f][t] + 1
      new == srs' = srs \cup SrOf(f, n)
  IN  \/ new /\ Returns(f, t, [d EXCEPT !.sr = n])
      \/ /\ new \/ UNCHANGED srs
         /\ \/ /\ Faults \cap {"service", "worklog"} # {}
               /\ Returns(f, t, [d EXCEPT !.sr = Failed])
            \/ "worklog" \in Faults /\ Raises(f, t, [d EXCEPT !.sr = left])

\* Task t, given d, writes the request's data to the work info of the SR.  A
\* result without a number is a KeyError.
WorkInfo(f, t, d, how) ==
  \/ d.sr <= 0 /\ Raises(f, t, NoData) /\ UNCHANGED noted
  \/ /\ d.sr > 0
     /\ \/ noted' = noted \cup SrOf(f, d.sr) /\ Returns(f, t, d)
        \/ /\ noted' = noted \cup SrOf(f, d.sr) \/ UNCHANGED noted
           /\ \/ /\ Faults \cap {"service", "worklog"} # {}
                 /\ Fails(f, t, d, how)
              \/ Breaks(f, t)

\* Task t, given d, sends a mail.  It may fail also after the notifier took it.
Sends(f, t, d, kind, n, how) ==
  LET sent == mails' = mails \cup {[run |-> f, kind |-> kind, sr |-> n]}
  IN  \/ sent /\ Returns(f, t, d)
      \/ /\ sent \/ UNCHANGED mails
         /\ \/ Faults \cap {"service", "worklog"} # {} /\ Fails(f, t, d, how)
            \/ Breaks(f, t)

\* Almost all of these tasks raise when they cannot.
Mails(f, t, d, kind, n) == Sends(f, t, d, kind, n, "raise")

-----------------------------------------------------------------------------
(* The activity tracker, first task of every run                           *)

\* _handle_new_request: a new row, with the number that the email gives, under
\* a process id that nobody has used (the time to the millisecond: that no two
\* emails share one is assumed); later emails may name it.
NewRequest(f) ==
  /\ Named[f] = NoRequest
  /\ \E q \in Request :
       /\ status[q] = "absent"
       /\ \A g \in Run : Named[g] = q => task[g]["intake"] = "none"
       /\ about' = [about EXCEPT ![f] = q]
       /\ status' = [status EXCEPT ![q] = "Data Inserted"]
       /\ \E n \in EmailedSr : srNo' = [srNo EXCEPT ![q] = n]
  /\ UNCHANGED written

\* The fields that an email for request q has, with an SR number or without.
TakesSr(q) ==
  \E n \in EmailedSr :
    srNo' = [srNo EXCEPT ![q] = IF n = {} \/ status[q] = "absent" THEN @ ELSE n]

\* Mutant: only the fields are set, not the status.
UpdateFieldsOnly(f) ==
  /\ Named[f] # NoRequest
  /\ about' = [about EXCEPT ![f] = Named[f]]
  /\ TakesSr(Named[f])
  /\ UNCHANGED <<status, written>>

\* _handle_update_request: the fields the email has, and the status, of the
\* row it names, whatever has become of that request.
UpdateRequest(f) ==
  LET q == Named[f]
  IN  /\ q # NoRequest
      /\ about' = [about EXCEPT ![f] = q]
      /\ status' = [status EXCEPT ![q] = IF @ = "absent" THEN @ ELSE "Data updated"]
      /\ TakesSr(q)
      /\ UNCHANGED written

\* update_or_create_request_activity: whatever goes wrong it returns without
\* pushing anything, the row written or not, and raises only if the worklog
\* refuses to take the failure.
Intake(f) ==
  /\ task[f]["intake"] = "none"
  /\ \/ /\ NewRequest(f) \/ UpdateRequest(f)
        /\ \/ Returns(f, "intake", Begun)
           \/ /\ Faults \cap {"db", "worklog"} # {}
              /\ Returns(f, "intake", NoData)
           \/ Breaks(f, "intake")
     \/ /\ Returns(f, "intake", NoData) \/ Breaks(f, "intake")
        /\ UNCHANGED <<row, about>>
  /\ UNCHANGED world

\* The branch operator reads the answer of the AD script from the XCom.
Branch(f) ==
  /\ Follows(f, "branch", "ad_connect")
  /\ \/ Given(f, "ad_connect") /\ Returns(f, "branch", NoData)
     \/ ~Given(f, "ad_connect") /\ Raises(f, "branch", NoData)
  /\ UNCHANGED <<row, world, about>>

-----------------------------------------------------------------------------
(* Properties the flows share                                              *)

RowOK ==
  /\ status \in [Request -> Status]
  /\ srNo \in [Request -> SUBSET (SR \cup {Foreign})]
  /\ \A w \in written : w.run \in Run

WorldOK ==
  /\ srs \subseteq SR
  /\ noted \subseteq srs
  /\ mails \subseteq [run : Run, sr : SUBSET SR, kind : MailKind]

FlowOK ==
  /\ task \in [Run -> [Task -> {"none", "success", "failed"}]]
  /\ tries \in [Run -> [Task -> 0 .. MaxTries]]
  /\ xcom \in [Run -> [Task -> Data \cup {NoData}]]

\* Also: no work info without its SR, and no try after the last one.
TypeOK ==
  /\ RowOK
  /\ WorldOK
  /\ FlowOK
  /\ about \in [Run -> Request \cup {NoRequest}]

\* Mails of these kinds tell what their run has written to the table before.
ToldAfterWriting(kinds) ==
  \A m \in mails :
    m.kind \in kinds =>
      \E w \in written : /\ w.run = m.run
                         /\ w.status = Verdict[m.kind]
                         /\ m.sr = {} \/ w.sr = m.sr

\* A run tells its requester one thing, about one SR, however often its tasks
\* are tried and whichever of its branches they belong to.
OneVerdictTold == \A m, n \in mails : m.run = n.run => m = n

WroteVerdict(f) == \E w \in written : w.run = f
=============================================================================
