--------------------------- MODULE ApprovedRequest ---------------------------
(***************************************************************************)
(* The shapes of the tasks that work on a request whose service request    *)
(* has its work order (WO).  The four flows, a module each, have the same  *)
(* functions under other names, and differ in which of them they have.     *)
(***************************************************************************)
EXTENDS RequestResolution

\* update_activity_data_wo_approved: returns whatever goes wrong.
Approved(f) ==
  LET t == "approved"
      d == xcom[f]["check_wo"]
  IN  /\ Branched(f, t, "check_wo", "wo", "true")
      /\ \/ Stops(f, t, "check_wo") /\ UNCHANGED row
         \/ Updates(f, t, "SR Approved", NoPw, emails, d, d, "return")
      /\ UNCHANGED <<age, ad, itsm, mails>>

Fetches(f, t, u) ==
  /\ Follows(f, t, u)
  /\ Reads(f, t, u, xcom[f][u])
  /\ UNCHANGED <<row, age, ad, itsm, mails>>

\* Mutant: takes the first status the output file has, finished or not.
ScriptHasty(f, t, p, d, answers) ==
  \/ "service" \in Faults /\ Raises(f, t, NoData) /\ UNCHANGED ad
  \/ /\ Returns(f, t, [d EXCEPT !.ad = "finished", !.pw = p])
     /\ applied' = applied \cup {p} \/ UNCHANGED applied
     /\ UNCHANGED output

\* AD_ProcessHook.execute_process runs the script and reads its output file,
\* six times at most.  If it cannot (no connection, no JSON) there are no data:
\* the task raises and runs the script again, the script having done its work
\* or not, and the file being left or not.  The script that a later try runs
\* may not have written its own output yet when the old one is read.  It ends
\* with one of `answers', the password in it may be garbled.
Script(f, t, p, d, answers) ==
  \/ /\ "service" \in Faults
     /\ \/ UNCHANGED ad
        \/ applied' = applied \cup {p} /\ output' \in {output, p}
     /\ Raises(f, t, NoData)
  \/ /\ applied' = applied \cup {p}
     /\ \E a \in answers :
          Returns(f, t, [d EXCEPT !.ad = a, !.pw = p])
     /\ \/ output' = NoPw
        \/ "service" \in Faults /\ output' = p
  \/ /\ output # NoPw
     /\ applied' = applied \cup {p} \/ UNCHANGED applied
     /\ Returns(f, t, [d EXCEPT !.ad = "finished", !.pw = output])
     /\ output' = NoPw
  \/ /\ applied' = applied \cup {p} \/ UNCHANGED applied
     /\ Returns(f, t, [d EXCEPT !.ad = "unfinished"])
     /\ output' = NoPw

RunsScript(f, answers) ==
  LET t == "ad_process"
      p == [run |-> f, try |-> tries[f][t] + 1]
  IN  /\ Follows(f, t, "fetch")
      /\ \/ Opens(f, t, "fetch") /\ UNCHANGED ad
         \/ Given(f, "fetch") /\ Script(f, t, p, xcom[f]["fetch"], answers)
         \/ /\ Breaks(f, t)
            /\ \/ UNCHANGED ad
               \/ applied' = applied \cup {p} /\ output' \in {output, NoPw}
      /\ UNCHANGED <<row, age, itsm, mails>>

\* Mutant: a failed update is reported and passed over.
CompletesLenient(f) ==
  LET t == "rs_update"
      d == xcom[f]["ad_process"]
  IN  /\ Branched(f, t, "ad_process", "ad", "finished")
      /\ Updates(f, t, "Completed", d.pw, 0, d, d, "return")
      /\ UNCHANGED <<age, ad, itsm, mails>>

\* The row is completed as soon as the script is done, before the WO is.
Completes(f) ==
  LET t == "rs_update"
      d == xcom[f]["ad_process"]
  IN  /\ Branched(f, t, "ad_process", "ad", "finished")
      /\ \/ Needs(f, t, "ad_process") /\ UNCHANGED row
         \/ Updates(f, t, "Completed", d.pw, 0, d, d, "raise")
      /\ UNCHANGED <<age, ad, itsm, mails>>

\* Mails the requester; without an address it goes on.
Tells(f, u) ==
  /\ Follows(f, "notify", u)
  /\ MailsOn(f, "notify", u, "account", TRUE)
  /\ UNCHANGED <<row, age, ad, itsm>>

\* Who of the FO is on shift.
LooksUpShift(f, u) ==
  LET t == "shift"
  IN  /\ Follows(f, t, u)
      /\ \/ Opens(f, t, u)
         \/ /\ Given(f, u)
            /\ \/ \E l \in {"found", "not found"} :
                    Returns(f, t, [xcom[f][u] EXCEPT !.last = l])
               \/ /\ Faults \cap {"db", "worklog"} # {}
                  /\ Raises(f, t, [xcom[f][u] EXCEPT !.last = "failed"])
      /\ UNCHANGED <<row, age, ad, itsm, mails>>

\* Mails those on shift, if there are any.
TellsShift(f) ==
  LET t == "fo_mail"
      d == xcom[f]["shift"]
  IN  /\ Follows(f, t, "shift")
      /\ \/ Opens(f, t, "shift") /\ UNCHANGED mails
         \/ /\ Given(f, "shift")
            /\ \/ d.last = "found" /\ Sends(f, t, d, "fo", "raise")
               \/ Returns(f, t, d) /\ UNCHANGED mails
      /\ UNCHANGED <<row, age, ad, itsm>>

\* Mutant: a failure is not told from a success.
CommentsAnyway(f, u) ==
  /\ Follows(f, "wo_comment", u)
  /\ Given(f, u)
  /\ noted' \in {TRUE, noted}
  /\ Returns(f, "wo_comment", [xcom[f][u] EXCEPT !.last = "created"])
  /\ UNCHANGED <<row, age, ad, closed, users, mails>>

\* Writes the comment of the WO; a failure is pushed and returned.
Comments(f, u) ==
  LET t == "wo_comment"
      d == xcom[f][u]
  IN  /\ Follows(f, t, u)
      /\ \/ Stops(f, t, u) /\ UNCHANGED noted
         \/ /\ Given(f, u)
            /\ \/ noted' = TRUE /\ Returns(f, t, [d EXCEPT !.last = "created"])
               \/ /\ noted' = TRUE \/ UNCHANGED noted
                  /\ \/ /\ Faults \cap {"itsm", "worklog"} # {}
                        /\ Returns(f, t, [d EXCEPT !.last = "failed"])
                     \/ Breaks(f, t)
      /\ UNCHANGED <<row, age, ad, closed, users, mails>>

\* Closes the WO, with the password in its details.  It returns without its
\* data if the ticket system does not find the WO.
Closes(f) ==
  LET t == "wo_status"
      d == xcom[f]["wo_comment"]
  IN  /\ Branched(f, t, "wo_comment", "last", "created")
      /\ \/ Stops(f, t, "wo_comment") /\ UNCHANGED closed
         \/ closed' = d.pw /\ Returns(f, t, [d EXCEPT !.last = "updated"])
         \/ "itsm" \in Faults /\ Returns(f, t, NoData) /\ UNCHANGED closed
         \/ /\ closed' = d.pw \/ UNCHANGED closed
            /\ \/ /\ Faults \cap {"itsm", "worklog"} # {}
                  /\ Returns(f, t, [d EXCEPT !.last = "failed"])
               \/ Breaks(f, t)
      /\ UNCHANGED <<row, age, ad, noted, users, mails>>

-----------------------------------------------------------------------------
(* What failed                                                             *)

\* The comment or the closing of the WO failed: the row, completed before, gets
\* an error.  The task never raises; a failed update leaves no remarks.
RecordsError(f, t, u, remarks) ==
  LET d == xcom[f][u]
  IN  /\ Branched(f, t, u, "last", "failed")
      /\ \/ Stops(f, t, u) /\ UNCHANGED row
         \/ /\ SetRow(f, "Error in ITSM Process", NoPw, 0)
            /\ Returns(f, t, [d EXCEPT !.last = remarks])
         \/ /\ SetRow(f, "Error in ITSM Process", NoPw, 0) \/ UNCHANGED row
            /\ \/ Faults \cap {"db", "worklog"} # {} /\ Returns(f, t, d)
               \/ "worklog" \in Faults /\ Returns(f, t, NoData)
      /\ UNCHANGED <<age, ad, itsm, mails>>

\* Mutant: without remarks there is nothing to tell.
TellsErrorLenient(f, t, u, wanted) ==
  LET d == xcom[f][u]
  IN  /\ Follows(f, t, u)
      /\ Given(f, u)
      /\ \/ d.last \notin wanted /\ Returns(f, t, d) /\ UNCHANGED mails
         \/ d.last \in wanted /\ Sends(f, t, d, "itsm", "raise")
      /\ UNCHANGED <<row, age, ad, itsm>>

\* The mail about it wants the remarks of the closing, also the one that
\* follows the comment: without that key it raises.  `wanted' is what it can
\* be sent with.
TellsError(f, t, u, wanted) ==
  LET d == xcom[f][u]
  IN  /\ Follows(f, t, u)
      /\ \/ Opens(f, t, u) /\ UNCHANGED mails
         \/ /\ Given(f, u)
            /\ \/ /\ d.last \notin wanted
                  /\ Raises(f, t, NoData)
                  /\ UNCHANGED mails
               \/ d.last \in wanted /\ Sends(f, t, d, "itsm", "raise")
      /\ UNCHANGED <<row, age, ad, itsm>>

\* The AD script did not finish: the requester is told, then the row, and a
\* failure of that is returned.
TellsAdError(f) ==
  /\ Branched(f, "ad_mail", "ad_process", "ad", "unfinished")
  /\ \/ Mails(f, "ad_mail", "ad_process", "ad_error")
     \/ Raises(f, "ad_mail", NoData) /\ UNCHANGED mails   \* no address
  /\ UNCHANGED <<row, age, ad, itsm>>

RecordsAdError(f) ==
  LET t == "ad_status"
      d == xcom[f]["ad_mail"]
  IN  /\ Follows(f, t, "ad_mail")
      /\ \/ Stops(f, t, "ad_mail") /\ UNCHANGED row
         \/ /\ Given(f, "ad_mail")
            /\ Updates(f, t, "Error in AD Process", NoPw, 0, d, d, "return")
      /\ UNCHANGED <<age, ad, itsm, mails>>

\* The password that the script answered cannot be decoded.
RecordsGarbled(f, s) ==
  LET t == "decrypt_status"
      d == xcom[f]["ad_process"]
  IN  /\ Branched(f, t, "ad_process", "ad", "garbled")
      /\ \/ Needs(f, t, "ad_process") /\ UNCHANGED row
         \/ Updates(f, t, s, d.pw, 0, d, d, "raise")
      /\ UNCHANGED <<age, ad, itsm, mails>>

TellsGarbled(f) ==
  LET t == "decrypt_mail"
      u == "decrypt_status"
  IN  /\ Follows(f, t, u)
      /\ \/ Needs(f, t, u) /\ UNCHANGED mails
         \/ Given(f, u) /\ Sends(f, t, xcom[f][u], "garbled", "raise")
      /\ UNCHANGED <<row, age, ad, itsm>>
=============================================================================
