---------------------------- MODULE NewServiceFlow ----------------------------
(***************************************************************************)
(* The service-request flow of a new service account, src/plugins/helpers/ *)
(* access_management_sr_helper_new_service_acc_flow.py.  The account must  *)
(* have a valid name, or its requester is asked for another one; then the  *)
(* AD script says whether the account exists ("blocked").  Up to the mail, *)
(* the tasks on the way of the SR return when they fail.                   *)
(***************************************************************************)
EXTENDS AccessRequest

\* The name gets its prefix, in the row.  Whatever is wrong with it, or with
\* the database, is pushed for the branch to the name mail.
NewServiceNameCheck(f) ==
  LET t == "name_check"
      d == xcom[f]["intake"]
  IN  /\ Follows(f, t, "intake")
      /\ \/ ~Given(f, "intake") /\ Raises(f, t, NoData)
         \/ /\ Given(f, "intake") /\ HasRow(f)
            /\ Returns(f, t, d)
         \/ /\ Given(f, "intake")
            /\ \/ Returns(f, t, [d EXCEPT !.ad = "unnamed"])
               \/ Breaks(f, t)
      /\ UNCHANGED <<row, world, about>>

\* The requester is asked for another name: no row is returned, a mail that
\* cannot be sent is raised.
NewServiceNameMail(f) ==
  LET t == "name_mail"
      d == xcom[f]["name_check"]
  IN  /\ Follows(f, t, "name_check")
      /\ d.ad = "unnamed"
      /\ \/ /\ \/ Opens(f, t, "name_check")
               \/ Returns(f, t, d) /\ (~HasRow(f) \/ "db" \in Faults)
            /\ UNCHANGED mails
         \/ HasRow(f) /\ Mails(f, t, d, "name", {})
      /\ UNCHANGED <<row, srs, noted, about>>

NewServiceFetchActivity(f) ==
  /\ Follows(f, "fetch", "name_check")
  /\ xcom[f]["name_check"].ad # "unnamed"
  /\ ReadsFrom(f, "fetch", "name_check")
  /\ UNCHANGED <<row, world, about>>

\* Asks whether there is such an account already.
NewServiceAdConnect(f) ==
  /\ Follows(f, "ad_connect", "fetch")
  /\ Asks(f, "ad_connect", {"clear", "blocked", "error"})
  /\ UNCHANGED <<row, world, about>>

\* A missing row is a failed result, too; a request without a manager raises
\* after the notes were pushed.
NewServiceSrCreation(f) ==
  LET t == "sr_creation"
      d == xcom[f]["ad_connect"]
  IN  /\ Branched(f, t, "clear")
      /\ \/ /\ \/ Opens(f, t, "ad_connect") \/ Breaks(f, t)
               \/ /\ ~HasRow(f) \/ "db" \in Faults
                  /\ Returns(f, t, [d EXCEPT !.sr = Failed])
               \/ HasRow(f) /\ Raises(f, t, [d EXCEPT !.sr = NotesOnly])
            /\ UNCHANGED srs
         \/ HasRow(f) /\ Creates(f, t, d, NotesOnly)
      /\ UNCHANGED <<row, noted, mails, about>>

NewServiceSrWorklog(f) ==
  LET t == "sr_worklog"
      d == xcom[f]["sr_creation"]
  IN  /\ Follows(f, t, "sr_creation")
      /\ \/ /\ Opens(f, t, "sr_creation") \/ Breaks(f, t)
            /\ UNCHANGED noted
         \/ Given(f, "sr_creation") /\ WorkInfo(f, t, d, "return")
      /\ UNCHANGED <<row, srs, mails, about>>

NewServiceActivityUpdate(f) ==
  LET t == "activity_update"
      d == xcom[f]["sr_worklog"]
  IN  /\ Follows(f, t, "sr_worklog")
      /\ \/ Opens(f, t, "sr_worklog") /\ UNCHANGED row
         \/ /\ Given(f, "sr_worklog")
            /\ Updates(f, t, d, "SR Submitted", SrOf(f, d.sr), "return")
      /\ UNCHANGED <<world, about>>

\* Approvers that are not found are pushed as such, and the flow goes on.
NewServiceFetchApprover(f) ==
  LET t == "approver"
      d == xcom[f]["activity_update"]
  IN  /\ Follows(f, t, "activity_update")
      /\ \/ Opens(f, t, "activity_update")
         \/ Given(f, "activity_update") /\ Returns(f, t, d)
         \/ Breaks(f, t)
      /\ UNCHANGED <<row, world, about>>

\* Without its template, and when the notifier fails, this mail returns.
NewServiceSrMail(f) ==
  LET t == "sr_mail"
      d == xcom[f]["approver"]
  IN  /\ Follows(f, t, "approver")
      /\ \/ /\ Stops(f, t, "approver") \/ Returns(f, t, NoData)
            /\ UNCHANGED mails
         \/ /\ Given(f, "approver")
            /\ Sends(f, t, d, "submitted", SrOf(f, d.sr), "return")
      /\ UNCHANGED <<row, srs, noted, about>>

-----------------------------------------------------------------------------
(* The account exists: the request is completed                            *)

NewServiceExistingStatus(f) ==
  LET t == "blocked_status"
      d == xcom[f]["ad_connect"]
  IN  /\ Branched(f, t, "blocked")
      /\ \/ Opens(f, t, "ad_connect") /\ UNCHANGED row
         \/ Updates(f, t, d, "Completed", srNo[about[f]], "return")
      /\ UNCHANGED <<world, about>>

NewServiceExistingMail(f) ==
  LET t == "blocked_mail"
      d == xcom[f]["blocked_status"]
  IN  /\ Follows(f, t, "blocked_status")
      /\ \/ Opens(f, t, "blocked_status") /\ UNCHANGED mails
         \/ Given(f, "blocked_status") /\ Mails(f, t, d, "blocked", {})
      /\ UNCHANGED <<row, srs, noted, about>>

(* The AD script failed.  This task pulls the data from itself, where there *)
(* never are any: it does not get as far as its update, nor its mail.       *)

NewServiceAdErrorStatus(f) ==
  /\ Branched(f, "ad_error_status", "error")
  /\ Opens(f, "ad_error_status", "ad_error_status")
  /\ UNCHANGED <<row, world, about>>

NewServiceAdErrorMail(f) ==
  /\ Follows(f, "ad_error_mail", "ad_error_status")
  /\ Opens(f, "ad_error_mail", "ad_error_status")
  /\ UNCHANGED <<row, world, about>>

(* The creation of the SR failed                                           *)

NewServiceSrFailedStatus(f) ==
  LET t == "sr_failed_status"
      d == xcom[f]["sr_creation"]
  IN  /\ task[f][t] = "none"
      /\ task[f]["sr_creation"] = "failed" \/ d.sr = Failed
      /\ \/ Opens(f, t, "sr_creation") /\ UNCHANGED row
         \/ /\ Given(f, "sr_creation")
            /\ Updates(f, t, d, "Error in ITSM Process", srNo[about[f]], "raise")
      /\ UNCHANGED <<world, about>>

NewServiceSrFailedMail(f) ==
  LET t == "sr_failed_mail"
      d == xcom[f]["sr_failed_status"]
  IN  /\ Follows(f, t, "sr_failed_status")
      /\ \/ Opens(f, t, "sr_failed_status") /\ UNCHANGED mails
         \/ Given(f, "sr_failed_status") /\ Mails(f, t, d, "sr_failed", {})
      /\ UNCHANGED <<row, srs, noted, about>>

-----------------------------------------------------------------------------
NewServiceStep(f) ==
  \/ Intake(f) \/ NewServiceNameCheck(f) \/ NewServiceNameMail(f)
  \/ NewServiceFetchActivity(f) \/ NewServiceAdConnect(f) \/ Branch(f)
  \/ NewServiceSrCreation(f) \/ NewServiceSrWorklog(f)
  \/ NewServiceActivityUpdate(f) \/ NewServiceFetchApprover(f)
  \/ NewServiceSrMail(f)
  \/ NewServiceExistingStatus(f) \/ NewServiceExistingMail(f)
  \/ NewServiceAdErrorStatus(f) \/ NewServiceAdErrorMail(f)
  \/ NewServiceSrFailedStatus(f) \/ NewServiceSrFailedMail(f)
=============================================================================
