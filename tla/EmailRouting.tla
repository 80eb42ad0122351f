----------------------------- MODULE EmailRouting -----------------------------
(***************************************************************************)
(* How an email becomes an alert, a report or a maintenance window:        *)
(* route_email_request.py opens a worklog, has the rules name a workflow,  *)
(* triggers it and logs the answer.  That workflow runs by itself          *)
(* meanwhile, and it is the one that closes the worklog of the router:     *)
(*                                                                         *)
(*   process_email_alerts, process_email_attachments      write to it too; *)
(*   process_maintenance_request, process_metrics_report_request   have a  *)
(*   worklog of their own and only tell the outcome in that of the router. *)
(*                                                                         *)
(* A worklog is known by the email and the try of the router that opened   *)
(* it, and so is the workflow run that this try triggered.                 *)
(***************************************************************************)
EXTENDS Integers, FiniteSets

CONSTANTS Email,
          MaxTries,  \* how often Airflow tries a task
          Faults     \* what can fail: "worklog", "rules", "trigger", "alert"

\* What the rules can name: one of the three kinds of workflow.
Workflow == {"alerts", "attachments", "reports"}

ASSUME RoutingTriesAssumption == MaxTries \in Nat \ {0}
ASSUME RoutingFaultsAssumption ==
  Faults \subseteq {"worklog", "rules", "trigger", "alert"}

Log == [email : Email, try : 1 .. MaxTries]

VARIABLES
  at,        \* where the router is with an email
  tries,     \* tries of the router that are over
  worklog,   \* status of the worklogs
  label,     \* the workflow that a try of the router triggered
  entries,   \* what the worklogs say, as far as it matters
  down,      \* where the triggered workflows are
  downTries, \* tries of these that are over
  alerts     \* worklogs whose workflow has sent its alert

router     == <<at, tries>>
downstream == <<label, down, downTries, alerts>>
vars       == <<router, worklog, entries, downstream>>

Init ==
  /\ at = [e \in Email |-> "waiting"]
  /\ tries = [e \in Email |-> 0]
  /\ worklog = [w \in Log |-> "none"]
  /\ label = [w \in Log |-> "none"]
  /\ entries = [w \in Log |-> {}]
  /\ down = [w \in Log |-> "none"]
  /\ downTries = [w \in Log |-> 0]
  /\ alerts = {}

-----------------------------------------------------------------------------
(* WorkLogHook                                                             *)

\* Mutant: the status is not asked for.
IsTaken(w) == TRUE

\* add_entry asks for the status before it posts.  Only Respond can find the
\* worklog closed in between, and takes two steps.
IsOpen(w) == worklog[w] = "open"

AddEntry(w, x) ==
  /\ IsOpen(w)
  /\ entries' = [entries EXCEPT ![w] = @ \cup {x}]
  /\ UNCHANGED worklog

\* An entry that ends in an exception: the worklog is closed, or it fails.
RefusesEntry(w) ==
  /\ worklog[w] = "closed" \/ "worklog" \in Faults
  /\ UNCHANGED <<worklog, entries>>

\* It may also be taken, and the answer lost.
FailsToAdd(w, x) ==
  \/ RefusesEntry(w)
  \/ "worklog" \in Faults /\ AddEntry(w, x)

\* Mutant: closed whether or not it took the entry.
AddLastAndCloseAnyway(w, x) ==
  /\ IsOpen(w)
  /\ entries' = [entries EXCEPT ![w] = @ \cup {x}] \/ UNCHANGED entries
  /\ worklog' = [worklog EXCEPT ![w] = "closed"]

\* A last entry, then close_worklog.
AddLastAndClose(w, x) ==
  /\ IsOpen(w)
  /\ entries' = [entries EXCEPT ![w] = @ \cup {x}]
  /\ worklog' = [worklog EXCEPT ![w] = "closed"]

\* The same two calls, one of which ends in an exception, after it was done
\* or not.
FailsToClose(w, x) ==
  \/ FailsToAdd(w, x)
  \/ "worklog" \in Faults /\ AddLastAndClose(w, x)

-----------------------------------------------------------------------------
(* route_email_request                                                     *)

Current(e) == [email |-> e, try |-> tries[e] + 1]

RouterEnds(e) ==
  /\ at' = [at EXCEPT ![e] = "done"]
  /\ UNCHANGED tries

\* Mutant: always.
RouterRaisesForever(e) ==
  /\ tries' = [tries EXCEPT ![e] = @ + 1]
  /\ at' = [at EXCEPT ![e] = "waiting"]

\* Airflow runs the task again, from the beginning.
RouterRaises(e) ==
  /\ tries' = [tries EXCEPT ![e] = @ + 1]
  /\ at' = [at EXCEPT ![e] = IF tries[e] + 1 < MaxTries THEN "waiting"
                                                        ELSE "failed"]

\* A new worklog, and the email as its first entries.
Receive(e) ==
  LET created == worklog' = [worklog EXCEPT ![Current(e)] = "open"]
  IN  /\ at[e] = "waiting"
      /\ \/ created /\ at' = [at EXCEPT ![e] = "received"] /\ UNCHANGED tries
         \/ /\ "worklog" \in Faults
            /\ created \/ UNCHANGED worklog
            /\ RouterRaises(e)
      /\ UNCHANGED <<entries, downstream>>

\* The rules apply, but name neither a task nor a workflow.
StopHere(e) ==
  /\ at[e] = "received"
  /\ \/ AddEntry(Current(e), "outcome") /\ RouterEnds(e)
     \/ FailsToAdd(Current(e), "outcome") /\ RouterRaises(e)
  /\ UNCHANGED downstream

\* The rules do not apply.
TurnAway(e) ==
  /\ at[e] = "received"
  /\ \/ AddLastAndClose(Current(e), "outcome") /\ RouterEnds(e)
     \/ FailsToClose(Current(e), "outcome") /\ RouterRaises(e)
  /\ UNCHANGED downstream

\* A workflow is triggered, or a task that is none of this code; or neither
\* is; or it is, and the answer is lost.
Trigger(e) ==
  LET w == Current(e)
      started == \/ /\ down' = [down EXCEPT ![w] = "started"]
                    /\ \E x \in Workflow : label' = [label EXCEPT ![w] = x]
                 \/ UNCHANGED <<label, down>>
  IN  /\ at[e] = "received"
      /\ started
      /\ \/ at' = [at EXCEPT ![e] = "answered"] /\ UNCHANGED tries
         \/ "trigger" \in Faults /\ RouterRaises(e)
      /\ UNCHANGED <<worklog, entries, downTries, alerts>>

RulesFail(e) ==
  /\ at[e] = "received"
  /\ "rules" \in Faults
  /\ RouterRaises(e)
  /\ UNCHANGED <<worklog, entries, downstream>>

\* The answer is to be logged, if the workflow has not closed the worklog yet.
Respond(e) ==
  LET w == Current(e)
  IN  /\ at[e] = "answered"
      /\ \/ IsOpen(w) /\ at' = [at EXCEPT ![e] = "asked"] /\ UNCHANGED tries
         \/ /\ ~ IsOpen(w) \/ "worklog" \in Faults
            /\ RouterRaises(e)
      /\ UNCHANGED <<worklog, entries, downstream>>

\* If it has by now, it is up to the service, which is not here, to refuse it.
PostResponse(e) ==
  LET w == Current(e)
      posted == entries' = [entries EXCEPT ![w] = @ \cup {"response"}]
  IN  /\ at[e] = "asked"
      /\ \/ posted /\ RouterEnds(e)
         \/ /\ ~ IsOpen(w) \/ "worklog" \in Faults
            /\ posted \/ UNCHANGED entries
            /\ RouterRaises(e)
      /\ UNCHANGED <<worklog, downstream>>

-----------------------------------------------------------------------------
(* process_email_alerts and process_email_attachments                      *)

\* Mutant: tried again without counting.
DownRaisesForever(w) ==
  /\ down' = [down EXCEPT ![w] = "started"]
  /\ UNCHANGED downTries

DownRaises(w) ==
  /\ downTries' = [downTries EXCEPT ![w] = @ + 1]
  /\ down' = [down EXCEPT ![w] = IF downTries[w] + 1 < MaxTries THEN "started"
                                                               ELSE "failed"]

\* An entry that fails, or rules that cannot be asked.
CannotWrite(w) ==
  /\ \/ FailsToAdd(w, "no alert")
     \/ "rules" \in Faults /\ UNCHANGED <<worklog, entries>>
  /\ DownRaises(w)

\* The email goes to the worklog once more; then alert rules apply to it.
EvaluateAlert(w) ==
  /\ down[w] = "started"
  /\ label[w] = "alerts"
  /\ \/ /\ IsOpen(w)
        /\ down' = [down EXCEPT ![w] = "passed"]
        /\ UNCHANGED <<worklog, entries, downTries>>
     \/ /\ AddEntry(w, "no alert")
        /\ down' = [down EXCEPT ![w] = "written"]
        /\ UNCHANGED downTries
     \/ CannotWrite(w)
  /\ UNCHANGED <<router, label, alerts>>

\* What an attachment holds, or why it cannot be read, is told in the worklog;
\* only the worklog itself can make this fail.
WriteAttachments(w) ==
  /\ down[w] = "started"
  /\ label[w] = "attachments"
  /\ \/ /\ AddEntry(w, "outcome")
        /\ down' = [down EXCEPT ![w] = "written"]
        /\ UNCHANGED downTries
     \/ FailsToAdd(w, "outcome") /\ DownRaises(w)
  /\ UNCHANGED <<router, label, alerts>>

\* Mutant: what the handler of the exception means to do.
SendAlertLenient(w) ==
  /\ down[w] = "passed"
  /\ \/ alerts' = alerts \cup {w} /\ AddEntry(w, "outcome")
     \/ "alert" \in Faults /\ AddEntry(w, "error") /\ UNCHANGED alerts
  /\ down' = [down EXCEPT ![w] = "written"]
  /\ UNCHANGED <<router, label, downTries>>

\* When the alert cannot be sent, or the entry on it not written, the handler
\* calls error(..., exc_info=True), which WorkLogHook does not take.
SendAlert(w) ==
  /\ down[w] = "passed"
  /\ \/ /\ alerts' = alerts \cup {w}
        /\ AddEntry(w, "outcome")
        /\ down' = [down EXCEPT ![w] = "written"]
        /\ UNCHANGED downTries
     \/ /\ \/ /\ "alert" \in Faults
              /\ alerts' = alerts \cup {w} \/ UNCHANGED alerts
              /\ UNCHANGED <<worklog, entries>>
           \/ FailsToAdd(w, "outcome") /\ alerts' = alerts \cup {w}
        /\ DownRaises(w)
  /\ UNCHANGED <<router, label>>

\* Only process_email_alerts has a last entry to add.
Finish(w) ==
  LET x == IF label[w] = "alerts" THEN "finished" ELSE "outcome"
  IN  /\ down[w] = "written"
      /\ \/ /\ AddLastAndClose(w, x)
            /\ down' = [down EXCEPT ![w] = "done"]
            /\ UNCHANGED downTries
         \/ FailsToClose(w, x) /\ DownRaises(w)
      /\ UNCHANGED <<router, label, alerts>>

-----------------------------------------------------------------------------
(* process_maintenance_request and process_metrics_report_request          *)

\* Whatever becomes of the request, the run ends by telling the outcome in
\* the worklog of the router and closing it; it passes over a failure.
Report(w) ==
  /\ down[w] = "started"
  /\ label[w] = "reports"
  /\ AddLastAndClose(w, "outcome") \/ FailsToClose(w, "outcome")
  /\ down' = [down EXCEPT ![w] = "done"]
  /\ UNCHANGED <<router, label, downTries, alerts>>

-----------------------------------------------------------------------------
Route(e) ==
  \/ Receive(e) \/ RulesFail(e) \/ StopHere(e) \/ TurnAway(e)
  \/ Trigger(e) \/ Respond(e) \/ PostResponse(e)

Work(w) ==
  \/ EvaluateAlert(w) \/ WriteAttachments(w) \/ SendAlert(w) \/ Finish(w) \/ Report(w)

Next == (\E e \in Email : Route(e)) \/ (\E w \in Log : Work(w))

Spec == Init /\ [][Next]_vars

\* Airflow schedules every run.
FairSpec ==
  /\ Spec
  /\ \A e \in Email : WF_vars(Route(e))
  /\ \A w \in Log : WF_vars(Work(w))

-----------------------------------------------------------------------------
TypeOK ==
  /\ at \in [Email -> {"waiting", "received", "answered", "asked", "done", "failed"}]
  /\ tries \in [Email -> 0 .. MaxTries]
  /\ worklog \in [Log -> {"none", "open", "closed"}]
  /\ label \in [Log -> Workflow \cup {"none"}]
  /\ entries \in [Log -> SUBSET {"response", "outcome", "no alert", "error", "finished"}]
  /\ down \in [Log -> {"none", "started", "passed", "written", "done", "failed"}]
  /\ downTries \in [Log -> 0 .. MaxTries]
  /\ alerts \subseteq Log

\* Who reads a closed worklog learns what became of the email: router and
\* workflows write that before they close it, also when entries are refused.
ClosedTellsOutcome ==
  \A w \in Log : worklog[w] = "closed" => entries[w] \cap {"outcome", "no alert"} # {}

\* All that a closed worklog may still be given is the answer of the trigger:
\* no retried workflow, and no router, tells of a second outcome.
OnlyAnswerIsLate ==
  [][\A w \in Log :
       worklog[w] = "closed" => entries'[w] \subseteq entries[w] \cup {"response"}]_vars

\* A green run of process_email_alerts has sent its alert, or said that none
\* of the alert rules applies: no failure to send is passed over.
GreenIsSent ==
  \A w \in Log :
    label[w] = "alerts" /\ down[w] = "done" =>
      w \in alerts \/ "no alert" \in entries[w]

\* Every email is worked on, turned away, or left with a failed task; above
\* all, no router and no workflow waits for the other.
EveryEmailEnds ==
  \A e \in Email :
    <>(/\ at[e] \in {"done", "failed"}
       /\ \A w \in Log : w.email = e => down[w] \in {"none", "done", "failed"})

\* The answer of a triggered workflow is logged to the worklog, says the
\* docstring of process_email_request: only with a faulty worklog could the
\* router fail after its trigger was answered.
AnswerIsLogged ==
  [][\A e \in Email :
       at[e] \in {"answered", "asked"} /\ at'[e] \notin {"answered", "asked"} =>
         "response" \in entries'[Current(e)]]_vars
=============================================================================
