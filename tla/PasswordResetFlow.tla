-------------------------- MODULE PasswordResetFlow --------------------------
(***************************************************************************)
(* The service-request flow of a password reset, src/plugins/helpers/      *)
(* access_management_sr_helper_password_reset_flow.py: the AD script says  *)
(* whether the account is active; if so an SR is created, given its work   *)
(* info, recorded and announced.  Every task of this flow raises when it   *)
(* fails, so that none goes on after one that did not do its work.         *)
(***************************************************************************)
EXTENDS AccessRequest

ResetFetchActivity(f) ==
  /\ Follows(f, "fetch", "intake")
  /\ Reads(f, "fetch")
  /\ UNCHANGED <<row, world, about>>

\* Asks whether the account is active.
ResetAdConnect(f) ==
  /\ Follows(f, "ad_connect", "fetch")
  /\ Asks(f, "ad_connect", {"clear", "blocked", "error"})
  /\ UNCHANGED <<row, world, about>>

\* The ticket system may have created the SR although the call, or the task
\* after it, failed.  The handlers set a key of sr_creation_result before
\* they create it (462, 477): that raises, and what stays in the XCom is the
\* data as it was pushed before the call, without a result.
ResetSrCreation(f) ==
  LET t == "sr_creation"
      d == xcom[f]["ad_connect"]
      n == tries[f][t] + 1
  IN  /\ Branched(f, t, "clear")
      /\ \/ Opens(f, t, "ad_connect") /\ UNCHANGED srs
         \/ /\ ~HasRow(f) \/ "db" \in Faults
            /\ Raises(f, t, NoData)
            /\ UNCHANGED srs
         \/ Breaks(f, t) /\ UNCHANGED srs
         \/ /\ HasRow(f)
            /\ \/ srs' = srs \cup SrOf(f, n) /\ Returns(f, t, [d EXCEPT !.sr = n])
               \/ /\ srs' = srs \cup SrOf(f, n) \/ UNCHANGED srs
                  /\ Faults \cap {"service", "worklog"} # {}
                  /\ Raises(f, t, d)
      /\ UNCHANGED <<row, noted, mails, about>>

\* Mutant: a failure to write the work info is reported and passed over.
ResetSrWorklogLenient(f) ==
  LET t == "sr_worklog"
      d == xcom[f]["sr_creation"]
  IN  /\ Follows(f, t, "sr_creation")
      /\ \/ Opens(f, t, "sr_creation") /\ UNCHANGED noted
         \/ /\ Given(f, "sr_creation")
            /\ d.sr > 0
            /\ noted' = noted \cup SrOf(f, d.sr) \/ UNCHANGED noted
            /\ Returns(f, t, d)
      /\ UNCHANGED <<row, srs, mails, about>>

\* The request's data become the work info of the SR.
ResetSrWorklog(f) ==
  LET t == "sr_worklog"
      d == xcom[f]["sr_creation"]
  IN  /\ Follows(f, t, "sr_creation")
      /\ \/ Opens(f, t, "sr_creation") /\ UNCHANGED noted
         \/ Breaks(f, t) /\ UNCHANGED noted
         \/ /\ Given(f, "sr_creation")
            /\ \/ d.sr <= 0 /\ Raises(f, t, NoData) /\ UNCHANGED noted
               \/ /\ d.sr > 0
                  /\ \/ noted' = noted \cup SrOf(f, d.sr) /\ Returns(f, t, d)
                     \/ /\ noted' = noted \cup SrOf(f, d.sr) \/ UNCHANGED noted
                        /\ Faults \cap {"service", "worklog"} # {}
                        /\ Raises(f, t, d)
      /\ UNCHANGED <<row, srs, mails, about>>

\* Mutant: the row is updated whatever became of the SR.
ResetActivityUpdateAnyway(f) ==
  LET t == "activity_update"
      d == xcom[f]["ad_connect"]
  IN  /\ Follows(f, t, "sr_worklog")
      /\ Updates(f, t, d, "SR Submitted", SrOf(f, 1), "raise")
      /\ UNCHANGED <<world, about>>

\* Mutant: a failed update is reported and passed over.
ResetActivityUpdateLenient(f) ==
  LET t == "activity_update"
      d == xcom[f]["sr_worklog"]
  IN  /\ Follows(f, t, "sr_worklog")
      /\ \/ Opens(f, t, "sr_worklog") /\ UNCHANGED row
         \/ /\ Given(f, "sr_worklog")
            /\ Updates(f, t, d, "SR Submitted", SrOf(f, d.sr), "return")
      /\ UNCHANGED <<world, about>>

ResetActivityUpdate(f) ==
  LET t == "activity_update"
      d == xcom[f]["sr_worklog"]
  IN  /\ Follows(f, t, "sr_worklog")
      /\ \/ Opens(f, t, "sr_worklog") /\ UNCHANGED row
         \/ /\ Given(f, "sr_worklog")
            /\ Updates(f, t, d, "SR Submitted", SrOf(f, d.sr), "raise")
      /\ UNCHANGED <<world, about>>

ResetSrMail(f) ==
  LET t == "sr_mail"
      d == xcom[f]["activity_update"]
  IN  /\ Follows(f, t, "activity_update")
      /\ \/ Opens(f, t, "activity_update") /\ UNCHANGED mails
         \/ /\ Given(f, "activity_update")
            /\ Mails(f, t, d, "submitted", SrOf(f, d.sr))
      /\ UNCHANGED <<row, srs, noted, about>>

-----------------------------------------------------------------------------
(* The account is inactive: the request is completed                       *)

ResetInactiveStatus(f) ==
  LET t == "blocked_status"
      d == xcom[f]["ad_connect"]
  IN  /\ Branched(f, t, "blocked")
      /\ \/ Opens(f, t, "ad_connect") /\ UNCHANGED row
         \/ Updates(f, t, d, "Completed", srNo[about[f]], "raise")
      /\ UNCHANGED <<world, about>>

ResetInactiveMail(f) ==
  LET t == "blocked_mail"
      d == xcom[f]["blocked_status"]
  IN  /\ Follows(f, t, "blocked_status")
      /\ \/ Opens(f, t, "blocked_status") /\ UNCHANGED mails
         \/ /\ Given(f, "blocked_status")
            /\ Mails(f, t, d, "blocked", {})
      /\ UNCHANGED <<row, srs, noted, about>>

(* The AD script failed                                                    *)

ResetAdErrorStatus(f) ==
  LET t == "ad_error_status"
      d == xcom[f]["ad_connect"]
  IN  /\ Branched(f, t, "error")
      /\ \/ Opens(f, t, "ad_connect") /\ UNCHANGED row
         \/ Updates(f, t, d, "Error in check AD process", srNo[about[f]], "raise")
      /\ UNCHANGED <<world, about>>

ResetAdErrorMail(f) ==
  LET t == "ad_error_mail"
      d == xcom[f]["ad_error_status"]
  IN  /\ Follows(f, t, "ad_error_status")
      /\ \/ Opens(f, t, "ad_error_status") /\ UNCHANGED mails
         \/ /\ Given(f, "ad_error_status")
            /\ Mails(f, t, d, "ad_error", {})
      /\ UNCHANGED <<row, srs, noted, about>>

(* The creation of the SR failed for good                                  *)

ResetSrFailedStatus(f) ==
  LET t == "sr_failed_status"
      d == xcom[f]["sr_creation"]
  IN  /\ task[f][t] = "none"
      /\ task[f]["sr_creation"] = "failed"
      /\ \/ Opens(f, t, "sr_creation") /\ UNCHANGED row
         \/ /\ Given(f, "sr_creation")
            /\ \/ d.sr = NoResult /\ Raises(f, t, NoData) /\ UNCHANGED row
               \/ /\ d.sr # NoResult
                  /\ Updates(f, t, d, "Error in ITSM Process", srNo[about[f]],
                             "raise")
      /\ UNCHANGED <<world, about>>

ResetSrFailedMail(f) ==
  LET t == "sr_failed_mail"
      d == xcom[f]["sr_failed_status"]
  IN  /\ Follows(f, t, "sr_failed_status")
      /\ \/ Opens(f, t, "sr_failed_status") /\ UNCHANGED mails
         \/ /\ Given(f, "sr_failed_status")
            /\ Mails(f, t, d, "sr_failed", {})
      /\ UNCHANGED <<row, srs, noted, about>>

-----------------------------------------------------------------------------
ResetStep(f) ==
  \/ Intake(f) \/ ResetFetchActivity(f) \/ ResetAdConnect(f) \/ Branch(f)
  \/ ResetSrCreation(f) \/ ResetSrWorklog(f) \/ ResetActivityUpdate(f)
  \/ ResetSrMail(f)
  \/ ResetInactiveStatus(f) \/ ResetInactiveMail(f)
  \/ ResetAdErrorStatus(f) \/ ResetAdErrorMail(f)
  \/ ResetSrFailedStatus(f) \/ ResetSrFailedMail(f)
=============================================================================
