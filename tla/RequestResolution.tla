-------------------------- MODULE RequestResolution --------------------------
(***************************************************************************)
(* What the DAG runs that resolve an access request share, from            *)
(* src/plugins/helpers/access_management_req_resolv_*.  After its service  *)
(* request (SR) is submitted, a request is looked at again and again, by a *)
(* run of its own each time, until the SR has a work order (WO): that run  *)
(* has an AD script do what was asked, records and tells the result, and   *)
(* closes the WO.                                                          *)
(*                                                                         *)
(* All the state is that of one request.  The tasks have the semantics of  *)
(* AirflowRun; activity_data goes from task to task in the XCom under the  *)
(* key 'activity_data_request_resolve'.                                    *)
(***************************************************************************)
EXTENDS Integers, FiniteSets

CONSTANTS Runs,      \* how often the request is looked at
          MaxTries,  \* how often Airflow tries a task
          Faults     \* what can fail: "worklog", "db", "service", "itsm"

ASSUME RunsAssumption == Runs \in Nat \ {0}
ASSUME TriesAssumption == MaxTries \in Nat \ {0}
ASSUME FaultsAssumption == Faults \subseteq {"worklog", "db", "service", "itsm"}

Run == 1 .. Runs

\* What the tasks do, in any of the flows.
Task == {"check", "check_wo", "approved", "adid", "fetch", "ad_process",
         "rs_update", "notify", "shift", "fo_mail",
         "wo_comment", "wo_status", "user_list",
         "comment_err_status", "comment_err_mail",
         "status_err_status", "status_err_mail",
         "ad_mail", "ad_status", "decrypt_status", "decrypt_mail",
         "fetch_waiting", "approver", "follow_up_mail", "follow_up",
         "handover_mail", "handover",
         "cancel_status", "cancel_mail", "wo_fail_status", "wo_fail_mail"}

\* A password, or whatever the AD script did, is known by the try of
\* ad_process that had it done.
NoPw == [run |-> 0, try |-> 0]
Pw == [run : Run, try : 1 .. MaxTries]

\* What becomes of a request while it waits, by how long ago its row was
\* updated: less than one, two, three days, or longer.
Age == 0 .. 3

\* activity_data: the keys that later tasks depend on.
\*   flag, emails  flag_update_date, and the follow-up mails the remarks tell of
\*   wo            flag_wo
\*   ad, pw        how the AD script ended, and ad_new_password
\*   last          the result of the task before, where the next one needs it
Data == [flag : 0 .. 2, emails : 0 .. Runs * MaxTries,
         wo : {"unknown", "false", "true", "cancel", "errored"},
         ad : {"not asked", "finished", "garbled", "unfinished"},
         pw : Pw \cup {NoPw},
         last : {"none", "found", "not found", "created", "updated", "failed",
                 "comment remarks", "status remarks"}]
NoData == [ad |-> "no data"]

\* What a mail of this kind says of the request.
Verdict == [account  |-> {"Completed"},
            fo       |-> {"Completed"},
            garbled  |-> {"Error in Process", "Error in Decryption"},
            itsm     |-> {"Error in ITSM Process"},
            errored  |-> {"Error in ITSM Process"},
            rejected |-> {"SR approval Rejected."}]
MailKind == DOMAIN Verdict \cup {"ad_error", "follow_up", "handover"}

Status == {"SR Submitted", "SR Approved", "Error in AD Process"}
            \cup UNION {Verdict[k] : k \in DOMAIN Verdict}

VARIABLES
  status,   \* activity table: u_status
  emails,   \* activity table: how often u_remarks has the word Email
  age,      \* activity table: how long ago updated_on was at the last look
  applied,  \* AD: what the script has done
  output,   \* AD: the output file of the script, named for the request
  noted,    \* ticket system: the WO has the comment
  closed,   \* ticket system: the password in the closed WO, or NoPw
  users,    \* user list: the new user is in it
  mails,    \* who was told what
  task,     \* Airflow: how the tasks of a run ended
  tries,    \* Airflow: tries used by a task that has not ended
  xcom,     \* Airflow: activity_data as pushed by a task
  written   \* history: what the runs wrote to the row; "reminded" is a remark

row   == <<status, emails, written>>
ad    == <<applied, output>>
itsm  == <<noted, closed, users>>
flow  == <<task, tries, xcom>>
vars  == <<row, age, ad, itsm, mails, flow>>

Init ==
  /\ status = "SR Submitted"
  /\ emails = 0
  /\ age = 0
  /\ applied = {}
  /\ output = NoPw
  /\ noted = FALSE
  /\ closed = NoPw
  /\ users = FALSE
  /\ mails = {}
  /\ task = [f \in Run |-> [t \in Task |-> "none"]]
  /\ tries = [f \in Run |-> [t \in Task |-> 0]]
  /\ xcom = [f \in Run |-> [t \in Task |-> NoData]]
  /\ written = {}

-----------------------------------------------------------------------------
INSTANCE AirflowRun

\* A branch of the DAG that depends on what the task before it pushed.
Branched(f, t, u, key, value) ==
  /\ Follows(f, t, u)
  /\ Given(f, u)
  /\ xcom[f][u][key] = value

\* These tasks have no worklog to open and raise without their data.
Needs(f, t, u) == (~Given(f, u) \/ "worklog" \in Faults) /\ Raises(f, t, NoData)

\* A task that reads the row of the request, and hands d on.
Reads(f, t, u, d) ==
  \/ Needs(f, t, u)
  \/ "db" \in Faults /\ Raises(f, t, NoData)
  \/ Given(f, u) /\ Returns(f, t, d)

\* UPDATE ... WHERE u_identifier = ..., with the status s, the password p, and
\* n follow-up mails in the remarks.
SetRow(f, s, p, n) ==
  /\ status' = s
  /\ emails' = n
  /\ written' = written \cup {[run |-> f, status |-> s, pw |-> p]}

\* Task t updates the row and pushes d, or `lost' when that fails: the update,
\* done or not, may be reported to have failed, and the worklog can fail before
\* it, after it, or on that report.
Updates(f, t, s, p, n, d, lost, how) ==
  \/ SetRow(f, s, p, n) /\ Returns(f, t, d)
  \/ /\ SetRow(f, s, p, n) \/ UNCHANGED row
     /\ \/ Faults \cap {"db", "worklog"} # {} /\ Fails(f, t, lost, how)
        \/ Breaks(f, t)

\* Task t, given d, sends a mail.  It may fail also after the notifier took it.
Sends(f, t, d, kind, how) ==
  LET sent == mails' = mails \cup {[run |-> f, kind |-> kind, pw |-> d.pw]}
  IN  \/ sent /\ Returns(f, t, d)
      \/ /\ sent \/ UNCHANGED mails
         /\ \/ Faults \cap {"service", "worklog"} # {} /\ Fails(f, t, d, how)
            \/ Breaks(f, t)

\* The mail task after u: with no address to send to (where it looks at that)
\* it goes on without.
MailsOn(f, t, u, kind, looks) ==
  \/ Opens(f, t, u) /\ UNCHANGED mails
  \/ /\ Given(f, u)
     /\ \/ Sends(f, t, xcom[f][u], kind, "raise")
        \/ looks /\ Returns(f, t, xcom[f][u]) /\ UNCHANGED mails

Mails(f, t, u, kind) == MailsOn(f, t, u, kind, FALSE)

-----------------------------------------------------------------------------
(* The tasks of every run                                                  *)

\* Reads the row: how long ago it was updated and the follow-up mails its
\* remarks tell of say what is due.
Due(a, n) ==
  CASE a = 1 /\ n < 1 -> 1
    [] a = 2 /\ n < 2 -> 1
    [] a = 3 /\ n >= 2 -> 2
    [] OTHER -> 0

\* Time matters to no other task: a is how long ago the row is now.
Check(f, a) ==
  /\ task[f]["check"] = "none"
  /\ age' = a
  /\ \/ Faults \cap {"db", "worklog"} # {} /\ Raises(f, "check", NoData)
     \/ Returns(f, "check",
                [flag |-> Due(a, emails), emails |-> emails, wo |-> "unknown",
                 ad |-> "not asked", pw |-> NoPw, last |-> "none"])
  /\ UNCHANGED <<row, ad, itsm, mails>>

\* Asks the ticket system for the SR and its WO, `answer' being what it has
\* to tell.  Any failure becomes the flag 'errored', and is never retried.
CheckWo(f, answer) ==
  LET t == "check_wo"
      d == xcom[f]["check"]
  IN  /\ Follows(f, t, "check")
      /\ \/ Needs(f, t, "check")
         \/ /\ Given(f, "check")
            /\ \/ Returns(f, t, [d EXCEPT !.wo = answer])
               \/ "itsm" \in Faults /\ Returns(f, t, [d EXCEPT !.wo = "errored"])
      /\ UNCHANGED <<row, age, ad, itsm, mails>>

\* The WO could not be looked up.
WoFailStatus(f) ==
  LET t == "wo_fail_status"
      d == xcom[f]["check_wo"]
  IN  /\ Branched(f, t, "check_wo", "wo", "errored")
      /\ \/ Opens(f, t, "check_wo") /\ UNCHANGED row
         \/ Updates(f, t, "Error in ITSM Process", NoPw, 0, d, d, "raise")
      /\ UNCHANGED <<age, ad, itsm, mails>>

WoFailMail(f) ==
  /\ Follows(f, "wo_fail_mail", "wo_fail_status")
  /\ MailsOn(f, "wo_fail_mail", "wo_fail_status", "errored", TRUE)
  /\ UNCHANGED <<row, age, ad, itsm>>

-----------------------------------------------------------------------------
(* The values of the variables                                             *)

TypeOK ==
  /\ status \in Status
  /\ emails \in 0 .. Runs * MaxTries
  /\ age \in Age
  /\ applied \subseteq Pw
  /\ output \in Pw \cup {NoPw}
  /\ noted \in BOOLEAN /\ users \in BOOLEAN
  /\ closed \in Pw \cup {NoPw}
  /\ mails \subseteq [run : Run, kind : MailKind, pw : Pw \cup {NoPw}]
  /\ task \in [Run -> [Task -> {"none", "success", "failed"}]]
  /\ tries \in [Run -> [Task -> 0 .. MaxTries]]
  /\ xcom \in [Run -> [Task -> Data \cup {NoData}]]
  /\ written \subseteq [run : Run, status : Status \cup {"reminded"},
                        pw : Pw \cup {NoPw}]
=============================================================================
