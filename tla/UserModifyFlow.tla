---------------------------- MODULE UserModifyFlow ----------------------------
(***************************************************************************)
(* The service-request flow of a user account's modification,              *)
(* src/plugins/helpers/                                                    *)
(* access_management_sr_helper_user_account_modify_flow.py.  The AD script *)
(* may say that the user has the role to be added ("blocked") or has not   *)
(* the one to be removed ("missing").                                      *)
(***************************************************************************)
EXTENDS AccessRequest

ModifyFetchActivity(f) ==
  /\ Follows(f, "fetch", "intake")
  /\ Reads(f, "fetch")
  /\ UNCHANGED <<row, world, about>>

ModifyAdConnect(f) ==
  /\ Follows(f, "ad_connect", "fetch")
  /\ Asks(f, "ad_connect", AdAnswer)
  /\ UNCHANGED <<row, world, about>>

\* No row, or a request without a manager, is raised.  What is pushed before
\* the call has no result.
ModifySrCreation(f) ==
  LET t == "sr_creation"
      d == xcom[f]["ad_connect"]
  IN  /\ Branched(f, t, "clear")
      /\ \/ /\ Opens(f, t, "ad_connect") \/ Raises(f, t, NoData)
            /\ UNCHANGED srs
         \/ HasRow(f) /\ Creates(f, t, d, NoResult)
      /\ UNCHANGED <<row, noted, mails, about>>

ModifySrWorklog(f) ==
  LET t == "sr_worklog"
      d == xcom[f]["sr_creation"]
  IN  /\ Follows(f, t, "sr_creation")
      /\ \/ /\ Opens(f, t, "sr_creation") \/ Breaks(f, t)
            /\ UNCHANGED noted
         \/ Given(f, "sr_creation") /\ WorkInfo(f, t, d, "return")
      /\ UNCHANGED <<row, srs, mails, about>>

ModifyActivityUpdate(f) ==
  LET t == "activity_update"
      d == xcom[f]["sr_worklog"]
  IN  /\ Follows(f, t, "sr_worklog")
      /\ \/ Stops(f, t, "sr_worklog") /\ UNCHANGED row
         \/ /\ Given(f, "sr_worklog")
            /\ Updates(f, t, d, "SR Submitted", SrOf(f, d.sr), "return")
      /\ UNCHANGED <<world, about>>

\* Approvers that are not found are pushed as such; a query that has another
\* shape than expected is raised.
ModifyFetchApprover(f) ==
  LET t == "approver"
      d == xcom[f]["activity_update"]
  IN  /\ Follows(f, t, "activity_update")
      /\ \/ Stops(f, t, "activity_update")
         \/ /\ Given(f, "activity_update")
            /\ Returns(f, t, d) \/ Raises(f, t, NoData)
         \/ Breaks(f, t)
      /\ UNCHANGED <<row, world, about>>

ModifySrMail(f) ==
  LET t == "sr_mail"
      d == xcom[f]["approver"]
  IN  /\ Follows(f, t, "approver")
      /\ \/ Opens(f, t, "approver") /\ UNCHANGED mails
         \/ Given(f, "approver") /\ Mails(f, t, d, "submitted", SrOf(f, d.sr))
      /\ UNCHANGED <<row, srs, noted, about>>

-----------------------------------------------------------------------------
(* The role to be added is there: the request is completed                 *)

ModifyExistingStatus(f) ==
  LET t == "blocked_status"
      d == xcom[f]["ad_connect"]
  IN  /\ Branched(f, t, "blocked")
      /\ \/ Stops(f, t, "ad_connect") /\ UNCHANGED row
         \/ Updates(f, t, d, "Completed", srNo[about[f]], "return")
      /\ UNCHANGED <<world, about>>

ModifyExistingMail(f) ==
  LET t == "blocked_mail"
      d == xcom[f]["blocked_status"]
  IN  /\ Follows(f, t, "blocked_status")
      /\ \/ Opens(f, t, "blocked_status") /\ UNCHANGED mails
         \/ Given(f, "blocked_status") /\ Mails(f, t, d, "blocked", {})
      /\ UNCHANGED <<row, srs, noted, about>>

(* The role to be removed is not there.  Both tasks pull the data from no   *)
(* task by name, which in Airflow 3 means from themselves: the first then   *)
(* returns and the second raises, with nothing written and nobody told.     *)

ModifyNonExistingStatus(f) ==
  /\ Branched(f, "missing_status", "missing")
  /\ Stops(f, "missing_status", "missing_status")
  /\ UNCHANGED <<row, world, about>>

ModifyNonExistingMail(f) ==
  /\ Follows(f, "missing_mail", "missing_status")
  /\ Opens(f, "missing_mail", "missing_mail")
  /\ UNCHANGED <<row, world, about>>

(* The AD script failed                                                    *)

ModifyAdErrorStatus(f) ==
  LET t == "ad_error_status"
      d == xcom[f]["ad_connect"]
  IN  /\ Branched(f, t, "error")
      /\ \/ Stops(f, t, "ad_connect") /\ UNCHANGED row
         \/ Updates(f, t, d, "Error in check AD process", srNo[about[f]], "return")
      /\ UNCHANGED <<world, about>>

ModifyAdErrorMail(f) ==
  LET t == "ad_error_mail"
      d == xcom[f]["ad_error_status"]
  IN  /\ Follows(f, t, "ad_error_status")
      /\ \/ Opens(f, t, "ad_error_status") /\ UNCHANGED mails
         \/ Given(f, "ad_error_status") /\ Mails(f, t, d, "ad_error", {})
      /\ UNCHANGED <<row, srs, noted, about>>

(* The creation of the SR failed                                           *)

\* Without a result this is a KeyError.
ModifySrFailedStatus(f) ==
  LET t == "sr_failed_status"
      d == xcom[f]["sr_creation"]
  IN  /\ task[f][t] = "none"
      /\ task[f]["sr_creation"] = "failed" \/ d.sr = Failed
      /\ \/ /\ \/ Opens(f, t, "sr_creation")
               \/ d.sr = NoResult /\ Raises(f, t, NoData)
            /\ UNCHANGED row
         \/ /\ d.sr = Failed
            /\ Updates(f, t, d, "Error in ITSM Process", srNo[about[f]], "raise")
      /\ UNCHANGED <<world, about>>

\* It pulls the data from a task group of another flow, where there never are
\* any.
ModifySrFailedMail(f) ==
  /\ Follows(f, "sr_failed_mail", "sr_failed_status")
  /\ Opens(f, "sr_failed_mail", "sr_failed_mail")
  /\ UNCHANGED <<row, world, about>>

-----------------------------------------------------------------------------
ModifyStep(f) ==
  \/ Intake(f) \/ ModifyFetchActivity(f) \/ ModifyAdConnect(f) \/ Branch(f)
  \/ ModifySrCreation(f) \/ ModifySrWorklog(f) \/ ModifyActivityUpdate(f)
  \/ ModifyFetchApprover(f)
  \/ ModifySrMail(f)
  \/ ModifyExistingStatus(f) \/ ModifyExistingMail(f)
  \/ ModifyNonExistingStatus(f) \/ ModifyNonExistingMail(f)
  \/ ModifyAdErrorStatus(f) \/ ModifyAdErrorMail(f)
  \/ ModifySrFailedStatus(f) \/ ModifySrFailedMail(f)
=============================================================================
