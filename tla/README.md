# OSCAR workflows in TLA+

Specifications of the workflows in this repository: Airflow 3 DAGs and the
helpers and hooks they are made of. They answer emails, route alerts, carry
access requests through a ticket system and Active Directory (AD), work on
tickets by themselves, call people, switch maintenance on and off, and keep the
database small. What is hard about all of them is the same: a task is
retried from its start after half of its work was done, calls of other services
are done and reported failed, the worklog that every task writes to may refuse
an entry anywhere, and several runs work on one row, ticket or worklog.

`PROJECT.json` lists the components, the runs, the lines each definition stands
for, the hazards of the code and the theorems. Paths below are under `src/`.

## The system

| part | source | state | operations |
|---|---|---|---|
| Email routing | `dags/route_email_request.py` | a worklog per try | open, ask the rules, trigger a workflow, log its answer |
| Email workflows | `dags/process_email_alerts.py`, `process_email_attachments.py`, the ends of `process_maintenance_request.py` and `process_metrics_report_request.py` | the router's worklog | send the alert, tell the outcome, close |
| Activity tracker | `plugins/helpers/access_management_activity_track_helper.py` | the activity table | insert a request, or update the one an email names |
| Service request (SR) flows | `access_management_sr_helper_*_flow.py`, five of them | a row of the table, an SR and its work info, mails | ask AD, create the SR, write work info, record the number, tell requester and approvers; a branch for each thing that fails |
| Request resolution | `access_management_req_resolv_*.py`, four flows and the common part | row, remarks, AD account, work order (WO), user list, mails | look whether the SR has its WO, remind, hand over; run the AD script, record and mail the result, comment on and close the WO |
| Ticket automation executor | `ticket_automation_executor.py`, `ticket_automation.py` | automation store: status, plan, context, effect ledger, receipts | scan tickets, pin a plan and a context, apply its actions once, answer the requester |
| AD hook | `plugins/hooks/ad_process_hook.py` | the script's output file | run, look at the file, delete it |
| Worklog hook | `plugins/hooks/worklog_hook.py` | worklog | add an entry (two requests), close |
| Maintenance and rule caches | `process_maintenance_request.py`, `warm_rule_cache.py`, `cache_hook.py` | suppressions, a tracker with a lifetime, the rule cache of each worker | enable, disable, warm |
| Autocaller | `trigger_autocaller_for_pulled_alerts.py`, `process_alert_initiate_autocaller.py` | alerts in Netcool and who acknowledged them | read, acknowledge, trigger a workflow per alert, mail |
| Housekeeping | `oscar_db_housekeeping_cleanup.py`, `oscar_housekeeping_config.py` and the older history DAGs | rows of six families, their summaries by day, the policy | load the policy, delete in batches, clean the summaries, report |
| The rest | monitoring, recovery, metrics, chat, email extraction, HTTP hooks | none between runs | |

How they interact. An email reaches the router, which triggers a workflow and
hands it the id of its own worklog: from there on the two run side by side, and
the workflow closes the worklog. Access emails start an SR flow, whose first
task is the tracker; the tasks hand one record, `activity_data`, from each to
the next by XCom. The resolver's runs find the rows that a flow left in "SR
Submitted" and take them through a WO. The DAG files of the access flows and of
the executor are not in the repository, so that how often they run, and whether
two runs overlap, is open: overlap is allowed wherever the code does not exclude
it. The executor shares with other executions of itself a store with
conditional writes. A maintenance run calls an API and starts a workflow that
has the caches of its workers warmed, and two runs on one change request (CR)
know of one another by a key in Redis only. Runs of the autocaller share
Netcool. Housekeeping shares its tables with all the services that write to
them, and two of them with older DAGs that have not been taken away.

What makes each part correct:

- router and workflows: a closed worklog tells what became of the email; a
  green run has sent its alert; every email ends; a second try does not tell of
  a second outcome;
- SR flows: a requester hears one verdict, which is in the table; the SR the
  table tracks exists, belongs to the request and is the one announced; no
  request is forgotten without a failed task;
- resolver: what is mailed was recorded; a request is completed with what AD
  has; a WO is closed for a completed request only; reminders are counted
  before a handover;
- executor: every effect takes place once, for one target and one plan, in
  order; the ledger is true; an answer to the requester is true; every ticket
  is finished;
- maintenance: after a disable no worker that was warmed goes on suppressing,
  and no failure but those the code gives up on loses the warming;
- autocaller: a green run has called for every alert that it took away from the
  later ones; two runs call for one alert only if both had read it, or its number is padded;
- housekeeping: what is deleted is retired, when it is deleted; summaries stay
  as long as their rows; the report is true; what is to go goes.

## Modules

| module | models |
|---|---|
| `AirflowRun` | how a task begins, returns, raises, is retried, and what that does to its XCom |
| `AccessRequest` | table, SRs, mails and the tracker, and the shapes that most tasks of the SR flows have |
| `PasswordResetFlow`, `NewUserFlow`, `NewServiceFlow`, `UserModifyFlow`, `OtherRequestFlow` | one action per function of the flow |
| `AccessFlows` | extends the five flows, whose actions begin with `Reset`, `NewUser`, `NewService`, `Modify` and `Other`; a request's kind says which of them it takes, and the properties are here |
| `RequestResolution` | row, AD, ticket system and mails of a request after its SR; the tasks of every run |
| `ApprovedRequest` | the shapes of the tasks that work on a request with a WO, among them the AD script |
| `ResolveReset`, `ResolveNewUser`, `ResolveNewService`, `ResolveUserModify` | which of those tasks a flow has, and in which order |
| `ResolveWaiting` | reminders, handover, rejection |
| `ResolveFlows` | extends all of these likewise, with the ticket system's answer, the runs that look at a request as long as its row says submitted, and the properties |
| `RequestLifecycle` | what the resolver promises of a request, seen from the table, AD and the work order: the abstract specification it implements |
| `EmailRouting` | the router, the three kinds of workflows it triggers, and the worklog they share |
| `TicketExecutor` | `run_once`, in steps of one call each |
| `EffectLedger` | what the executor promises of its effects: the abstract specification it implements |
| `MaintenanceMode` | the runs that enable and disable, the tracker, the warming and the caches |
| `Autocaller` | the trigger DAG's runs over Netcool, and one of the workflows they start |
| `DbHousekeeping` | the daily run on one family of rows, the services that use them, and the older DAGs |
| `MCAccessFlows`, `MCResolveFlows`, `MCAutocaller`, `MCTicketExecutor` | constants of the runs, of the resolver how often a request is looked at |
| `*Proofs` | the theorems |

### State and actions

*Airflow.* `task[f][t]` is how a task of run `f` ended, `tries[f][t]` how many
tries it has used, `xcom[f][t]` what it pushed. One try of a task is one step,
except where another process can get in between: a task in these flows is the
only one of its run, makes at most one change that another run can see (a row,
an SR, a mail), and reads the row at its start or not at all. `Returns` and
`Raises` are the two ends of a try; `Raises` empties the XCom unless it was the
last try. Most failures in the code are caught, written to the worklog and
raised, or returned; `how` in `Updates`, `Sends` and `WorkInfo` says which.
`Breaks` is a worklog entry that fails, which may happen before the change, or
after it. Every change is therefore done or not, and reported either way: this
is what makes retries interesting. Where a task pulls from a name nothing was
pushed under, or reads a key that is not there, its action raises as the code
does.

*SR flows.* An SR is the pair of the run and the try that created it: a retry
creates another. `written` is a history variable: what each run has written to
the row of its request, whoever wrote later. An email about an account to be
disabled may give the number of an SR, which the tracker writes to the row:
`EmailedSr` has that of any SR there is, and `Foreign`, which is of none.

*Resolver.* A password is named for the try of `ad_process` that had it made.
`output` is the script's output file, which is named for the request, so that a
later try can meet that of an earlier one. `age` is the number of days since
the row was updated, as far as the code tells them apart; it grows between
runs. `emails` is how often the remarks have the word the code counts. `wo` is
what the ticket system tells of the WO: nothing yet, that it is there, or that the
approvers have rejected the request; they decide once, between any two runs. A run
starts while the row says "SR Submitted", and then only (`Starts`). It says so
until somebody answers, and also when the update to "SR Approved" was lost, which
`ac_update_request_approved` returns and does not raise: a run that goes on,
changes AD and fails before it has recorded that leaves the request to the next
one, which has the script run again. A run starts when the one before it has ended
(`Ended`, `Current`), or at any time for the kinds in `Overlapping`.

*Router.* A worklog, and the workflow run triggered with it, are known by the
email and the try of the router. `RefusesEntry`, `FailsToAdd` and
`FailsToClose` are what the hook does with a closed worklog or a faulty
service. `Respond` and `PostResponse` are the two requests of one `add_entry`;
the other writers share a worklog with nobody when they write, and need one
step.

*Executor.* One step is one call of the store or of a service with the local
code up to the next. `Abort` is an exception that leaves `run_once`, or the
death of the worker, anywhere; `Edit` an operator who makes a ticket ineligible
or changes it. A recipe is its plans: whether one looks up a context, and which
actions it has. The store's conditional writes (`insert if absent`) are taken
from how the executor uses them.

*Maintenance.* A run is one email. Its steps are its calls: the API, the
trigger, the three of the tracker. `Break` is an entry that the worklog
refuses, `Die` the death of the worker, after which the run is tried again or
not. `warming` has a workflow for each try that triggered one, for a workflow
goes on when its run does not. `cache[w]` is what a worker suppresses: it loads
the rules of the moment, by itself (`Load`) or because a call of the warming
reached it (`WarmCall`). Time is abstracted: a window ends and a tracker expires
at any moment. `stopped`, `owed`, `excused` and `reached` are history variables;
`excused` collects the CRs for which the code gives up: overlapping runs, calls
that fail, a tracker that expired.

*Autocaller.* The SELECT, the UPDATE with its commit, and the push are steps of
their own, between which alerts arrive, other runs read and the task fails. An
acknowledgement goes by ticket number and so covers alerts that were never read;
it misses the row of a number with blanks around it (`padded`), since the code
strips what it reads and compares the stripped number (`WithNumber`), and every
run calls such an alert again. The workflows share nothing; `watched` is any one
of them.

*Housekeeping.* A behaviour is about one family, chosen at first. One step is
one statement sent to the database; `held` is what the open transaction deletes,
locked from the moment that the code locks it (`FOR UPDATE`, or the DELETE
itself). The two histories select and lock a batch first; the notification and
ticketing audits delete one, like them the oldest rows; user audit goes day by day,
and alert audit has no order. `Retired`, `Eligible`, `OldestBatch` and `DeleteOfDay`
say how they differ. The clock counts half days,
since a cutoff has an hour and a summary has not. The services insert, close and
reopen rows between any two statements; a deadlock between the two DAGs is
resolved by the database, against either.

## Runs

| run | shows |
|---|---|
| `executor_overlap` | two executions on one ticket, one of them cut short, with two plans, two contexts and a two-action plan: effects once, one target, one plan, in order, ledger true, `EffectLedger` implemented |
| `executor_scan` | one execution at a time over two tickets on two pages, switches changed between executions and every branch of the outputs: complete is applied, finished stays, and with fairness a ticket taken up is finished |
| `routing_faults` | one email, everything failing, two tries each: the properties of `EmailRouting` |
| `access_faults` | one request in each flow, everything failing, two tries |
| `access_overlap` | a new request, and an email that updates it while its run is under way or another that exists, with SR numbers of their own: what a row announces is real |
| `resolve_faults` | a request of each kind, up to three runs, everything failing, two tries; runs that wait for the requester overlap, and a request that modifies a user is taken up again after work that was not recorded: the properties of `ResolveFlows`, `RequestLifecycle` implemented |
| `maintenance` | three emails on one CR, overlapping, failing, their workers dying: a warmed worker is fresh, the warming is not lost |
| `autocaller` | two overlapping runs over two alerts of one ticket or two: a green run has called, and no alert is called by two runs unless both had read it or its number is padded |
| `housekeeping` | each family with its batches, a failed try, changing rows and settings, and an older DAG: only what is retired goes, summaries stay, the report is true, and with fairness what is retired goes |

These find no error. The remaining three, `access_sr_failure`, `routing_answer`
and `housekeeping_open`, show disagreements (below).

*Bounds.* `MaxTries = 2` is the `retries: 1` of the repository's DAGs, and what it
takes for a task to be tried after half of its work; the theorems hold for any
number. `access_overlap` has two requests, for a run to work on one whose row
another is about, or on one of its own; the emails give no number, a foreign one
(`Foreign`) or that of the first SR of the new request (`SrGiven`). One request is
enough in the other access runs, whose properties are about what one run does.
Three runs of the resolver are what a handover takes: two reminders and the
handover itself. `Looks` bounds the runs of a kind by what they are told: a
request of the kind `awaiting` is looked at three times; one in `Twice`, which is
the kind `modify`, three times without a WO and twice with one or rejected, which
is what it takes to work on it again; the other flows, whose tasks are of the same
shapes, once. The theorems are about any `Looks`. Only the runs of the kind
`awaiting` overlap (`OverlapAssumption`): two at a time that work on one WO are
left out, and whether there can be such is up to a DAG that is not in the
repository. Two executions are what it takes for every race of the executor, which
are between two holders of one ticket; more are covered by the theorems.
`MaxAborts` is 1: an abort restarts an execution from any point. `MaxReadFailures`
is 1 or 2 (3 in the code), enough for a count that is reset and for one that ends
the execution. `NTickets = 2` with `PageSize = 1` has a second page, an end of the
list and a ticket left behind. `Runs * MaxTries` bounds the count of reminders and
is never reached. `executor_scan` has a rule for the lookup, one for one of two
outcomes of the action and none for the other, and a plan that does nothing, so
that every branch of the outputs is taken.

Three emails on one CR are an enable, a disable and one more of either, which is
what it takes for a disable to meet the tracker of another enable; CRs share
nothing, and one worker is enough since the properties are about each worker.
`MaxFaults = 2` allows a death and a failed call after it. Two alerts, with one
ticket or two and padded numbers or not, and two runs have every race of the
autocaller: a third alert or run meets the same ones. Its alerts, tickets and runs
are interchangeable, and only invariants are checked, so TLC uses their symmetry.
In housekeeping `BatchSize = 1` and `MaxIterations = 1` make two rows two batches
and leave the second to the next day or the next try; the half days 2 to 4 are a
day on either side of a retention of one day, with a cutoff at noon and at
midnight; `MaxFaults = 1` with `MaxTries = 2` has a failed try and the one after
it; the older DAG deletes one batch. What none of these bounds touch is proved for
any values (below).

In the access, resolver, routing, maintenance and autocaller runs deadlock is not
checked: they end when every task has.

*Fairness.* Airflow schedules each task that can run, so weak fairness of each
run's step (`FairSpec`); of the resolver, whose runs follow one another and come to
an end, of any step. A try that fails for good ends its task, so nothing is
assumed of the services. The executor has weak fairness of each execution's
step: its scheduler starts it again and again. It also has strong fairness of a
lookup that finds something: one that is tried again and again is answered some
time; without it a ticket can be retried for ever, which is what the code does.
Housekeeping has weak fairness of the DAG, which Airflow starts every day and
whose tasks it runs, and of the older DAG's transaction: a transaction ends, by
commit or rollback. Nothing is assumed of the services, the settings or the clock,
which is why `RetiredGoes` says that a retired row goes or ceases to be one.
No liveness is claimed of requests that wait, since what looks at them is not
in the repository.

*Mutants.* Each property of a passing run comes with an operator, named and
explained next to the definition it replaces, that changes the code as a
plausible slip would; the property fails with it.

### Disagreements

- `access_sr_failure`. When the SR of a password reset cannot be created, both
  handlers (`access_management_sr_helper_password_reset_flow.py:462`, `477`)
  write to a key that does not exist yet. The failed result the next task
  expects is never pushed, and the row never says "Error in ITSM Process".
- `routing_answer`. A workflow that is done before the router logs its answer
  (`route_email_request.py:143`) has closed the worklog: the answer is logged
  nowhere, and the retry routes the email again.
- `housekeeping_open`. The settings (`oscar_housekeeping_config.py:120-121`) say
  that an open episode remains however old it is. `clean_alert_history`, the
  older DAG with a daily schedule, selects by `last_occurrence` alone
  (`oscar_alerthistory_maintenance.py:198`) and deletes it.

Others were met while reading. The models have the behaviour, and no run is made
of them:

- When the AD script fails for a new service account, the task that records it
  (`access_management_sr_helper_new_service_acc_flow.py:2095`) pulls its data from
  its own, empty XCom.
- The handler of an alert that cannot be sent (`process_email_alerts.py:2195`)
  calls the worklog with an argument that it does not take, and leaves no entry.
- The mail about a WO that could not be commented
  (`access_management_req_resolv_user_passwd_reset.py:2400`, and its like in the
  three other flows) reads the result of another task, and is never sent.
- The tracker lives 24 hours and "should be longer than max maintenance duration"
  (`process_maintenance_request.py:27`), which is 72 hours (line 220): the disable
  of a longer maintenance finds none and warms nothing.
- A trigger of the warming that times out counts as a success, and the tracker is
  set: "Only set tracker if DAG trigger actually succeeded (not just timed out)",
  says the comment at line 1026.
- An entry that the worklog refuses after the API has taken a request has a mail
  of failure sent for what was done.

Behaviours that no document of the repository rules out are modelled and not
stated as properties; `PROJECT.json` has them under "hazards" with a note. Three
examples: an update email on a submitted request makes a second SR, and nobody
tracks the first; two overlapping executions may set a ticket to complete and to
manual review; a request that waits for approvers is handed over although the
mail about it failed. Where one flow of several promises less than the others,
the property says so by its `kind`: `ToldIsWritten` of `AccessFlows` is about the
flows that raise a failed update, and not the three that return it.

## Proofs

`tlapm` checks these for all values of the constants, from the named
assumptions in the modules that declare them: sizes are positive naturals and
bounds naturals, `Named` is a function from runs to requests, faults are the known
ones, the runs of a request overlap only while it waits for its requester, a plan is a sequence of actions, actions are no outputs, retentions are
positive, and the rows of the database are finitely many. One theorem has a
hypothesis more: `FinishedIsFinal` is about one execution at a time, as its run
is, since two that overlap may set a ticket to complete and to manual review.
Every invariant and action property of a passing run has its theorem.

| module | theorems | inductive invariant |
|---|---|---|
| `TicketExecutorProofs` | `TypeCorrect`, `EffectsOnce`, `LedgerTells`, `EndsAreFinal`, `ExecutorImplementsLedger` | types, `Located` (what the locals are at each point), `HeldOnce`, `VerdictIsTrue` |
| | `TargetsOnce`, `PlansOnce`, `PlansInOrder`, `AnswersTrue`, `CompletesApplied` | the former, and `OnPinnedPlan`, `OnPinnedContext`, `InStep`, `ContextOfPlan`, `Aimed`, `ActsLive`, `NoteFirst` |
| | `NeverReopened`, `FinishedIsFinal` | types; and, of one execution, `Unfinished` |
| `EmailRoutingProofs` | `TypeCorrect`, `ClosedIsTold`, `GreenHasSent`, `OnlyAnswersComeLate` | types, `TryLeft`, `Fresh`, `WrittenIsTold` |
| `AccessRequestProofs`, `AccessFlowsProofs` | `TypeCorrect`, `Tracked`, `SameNumber`, `Written`, `Noted`, `CompletionTold`, `OneVerdict` | types, `Bounded`, `Sound`, `RowsWritten`; `Guarded`, `Resting`, `Effected`, `MailsHold`, `RowsHold` |
| `ResolveFlowsProofs` | `TypeCorrect`, `Written`, `CompletedApplied`, `ClosedDone`, `HandedOver`, `HandoverTold` | types, `Bounded`, `Looked`, `Guarded`, `Known`, `LookedFirst`, `Counted`, `Scripted`, and the properties |
| | `LifecycleImplemented`, `OneOutcome` | the former, and `LifeInv`: `Outcome`; of the latest run `OnWay`, `Stands`, `DoneSoFar`; `NothingDone` |
| `DbHousekeepingProofs` | `OnlyRetiredGo`, `SummariesStay`, `ReportTells` | `Typed`, `StatusAsMade`, `CutoffIsPast`, `HeldIsRetired`; `NothingPushed`, `TryCounts`, `RunCounts` |
| `MaintenanceProofs` | `TypeCorrect`, `WarmingIsFresh`, `DisableWarms` | types, `Numbered`, `NotYetWarming`, `StoppedIsOver`; `Alone`, `WindowTracked`, `DisableEndsWindow`, `OwedIsHeld` |
| `AutocallerProofs` | `TypeCorrect`, `GreenCalls`, `CallsOnce` | types, `Followed`, `SentBySending`, `Owned`, `Raced` |

*Executor.* `AtMostOnce` is not inductive: nothing in it says that an execution
about to call a service is the only one. The invariant says that an execution
between claim and finish holds a claimed effect, that no two hold the same, that
one about to call finds the effect not yet performed (`HeldOnce`), and that one
with a result has the result that is true (`VerdictIsTrue`). Claiming keeps it
because the claim is a conditional write; dying keeps it since nobody claims a
claimed effect again. The refinement maps `effect` to `ledger` and keeps
`performed`: a claim, a call and a finish are `Claim`, `Act` and `Close`,
everything else stutters.

*Plans and targets.* Executions that overlap choose for themselves, and what keeps
them to one plan and one target is that the first pin wins and everyone reads it
back. `OnPinnedPlan` and `OnPinnedContext` say that of an execution's locals, and
`StepKeepsStore` that what is pinned stays so. `InStep` relates what an execution
has left to do to the ledger: for some n, what is left are the actions of the
plan after the first n, and those n succeeded; while it answers, all of them did.
It is preserved because nobody revises a success, so another execution can only
add to it. A new claim (`NewlyClaimed`) is then the next action of the pinned plan
aimed at the pinned context, which gives `InPlanOrder` and `Aimed`; a new call
(`NewlyPerformed`) of an output comes after all the actions, and an execution has
an email in hand only after its note succeeded (`NoteFirst`), which give
`AnswerIsTrue`; and `OneTarget` follows from `Aimed`, `ActsLive` and the truth of
the ledger.

*Router.* A workflow about to close has told its outcome (`WrittenIsTold`).
`TryLeft` bounds the tries of what is under way, and `Fresh` says that a try of
the router still to come has no workflow, so that a trigger starts one from
nothing. That an entry is only taken by an open worklog gives
`OnlyAnswersComeLate`.

*One execution at a time.* `NeverReopened` needs no hypothesis: what is written
to a ticket after its ingest is a verdict, so that no number of executions makes
a finished ticket unfinished. That the verdict stays is another matter, for an
execution that began before may still be at it. `Unfinished` says that with one
execution the ticket in hand is not finished until its verdict is stored, and a
verdict is stored in the step that lets go of the ticket.

*SR flows.* What the table tracks goes through four XComs on its way from
the ticket system. `Sound` says that data in an XCom come from a run whose
tracker has ended, and that an SR number in them is of an SR that exists;
`RowsWritten`, that a row has a verdict and a number only as some run wrote them
together, whose request is settled: an email that writes another number also sets
another status. The rest is about what
has been said. A mail is sent by a task that looks at one XCom, and what it says
is true because of the tasks before: `Guarded` has where the run was when a task
began, `Resting` what the data that a task pushed tell of the others, `Effected`
what a task that succeeded has done; `MailsHold` and `RowsHold` say of each mail
and each update which of these it rests on. A task that has ended does not change
again, so that all of it survives the other tasks and runs (`FactsStay`). What a
task does has one of a few shapes (`Updates`, `Sends`, ...): there is a lemma
for each, and the proof of a flow has one step per task that names the shape
and shows that its premises hold there. `OneVerdict` is a consequence: two
verdicts in one run would rest on two ends of one task.

*Resolver.* A run looks at the row first, and only what it found brings it to a
task that changes something (`Guarded`, `Looked`). A password in the script's output
file is one that AD has, whichever run had it made (`Scripted`). `Known`
says what a task that succeeded has left behind when it pushed data: the password
is one that AD has, the row has been completed with it, the WO has its note.
`HandedOverAfterReminders` is a matter of counting. The remarks have the word as
often as they were written, and what a run writes is one more than what it read
before it wrote anything: the count in its data is at most that of the *other*
runs that have reminded (`Known`), hence what it writes is at most that of all of
them (`Counted`), and a run that reads two is preceded by two (`Reminded`). This
holds of overlapping runs, which may count one reminder for two. Again there is a
lemma for each shape (`UpdateTask`, `MailTask`, `RowTask`, `OutsideTask`,
`SilentTask`) and a step for each task.

*Lifecycle.* The refinement maps the row's status, what AD was given and what the
work order was closed with to themselves, and `recorded` to the passwords of the
updates that completed the row, which the row itself forgets when it gets an
error. What makes a step of the code a step of the lifecycle is where the row may
stand when a task runs, and nothing in the task says so: an update is
unconditional. The invariant is about the latest run (`Latest`), as the others
have ended: `OnWay` has what was before each of its tasks (`Way`), and that what
follows the completion hands on the password of the script; `Stands` has, for each
status, which of them ended how; `DoneSoFar`, that the run saw what the ticket
system tells, and that what was recorded is what the script's last try handed on.
`Outcome` is what all the runs have made of the request: AD has changed only after
the ticket system told of a WO, what was recorded is one thing, and the work order
is closed with nothing else. A new run becomes the latest one only while the row
says submitted, when nothing has been recorded, and so begins with all of this
(`BeginsLife`): work that an earlier run did and could not record is in `applied`,
which is why the lifecycle lets work be done more than once while the request is
open, and an error be recorded after it. `Stages` draws from these where the row
stands at each task that changes something: the script runs on an open row, since
no task that gives the row an error or completes it can have come before; that
tasks are tried again after half of their work is why `Stages` allows the row to
be already what the task makes it. There is one lemma for each action of the
lifecycle (`ApprovedGoes`, `WorkGoes`, `CompletesGoes`, ...) and `QuietStep` for
tasks that change nothing seen from outside. For a request of the kind `awaiting`,
whose runs may overlap, nothing is ever done but to hand it over (`NothingDone`).
The theorem rests on `OverlapAssumption`: it is about runs that follow one
another.

*Housekeeping.* `RetiredOnly` is about the moment of the commit, and the batch was
selected before. `HeldIsRetired` carries the selection to the commit: the services
keep off locked rows, and a batch that is deleted without a selection is locked by
that. `CutoffIsPast` says that a try's cutoff is not later than the policy's at the
present time, since time goes on and the snapshot does not change.
`SummariesKept` needs no more than the types, as a summary is dropped when no row of
its day is left. The counts say what a try has counted against what the run has
deleted: equal while no try has failed, and never more.

*Maintenance.* `WarmingIsFresh` rests on the order of a disable: a try that has not
triggered yet has no workflow and reached nobody (`Numbered`, `NotYetWarming`), and
the window of a disable that counts is over (`StoppedIsOver`), so that whatever a
call loads is without it. `DisableWarms` is about CRs that nothing excuses: one run
at a time is at work on them (`Alone`), a window has its tracker or the enable that
will set it (`WindowTracked`), and what is owed has the tracker still and a disable
that is yet to warm (`OwedIsHeld`), which a death takes back to its beginning.

*Autocaller.* `Followed` says where the alerts that a run has taken are, from the
acknowledgement through the XCom to a workflow. `Owned` says that a run calls only
what it took and takes only what becomes acknowledged; since nobody reads what is
acknowledged, two runs take the same alert only if one read it before the other's
commit (`Raced`), or the commit missed it because its number is padded.

*Model-checked only.* Liveness (`Settles`, `EveryEmailEnds`, `NoneForgotten`,
`RetiredGoes`), which the prover cannot state with fairness. The type invariant
of `DbHousekeeping` is stated for the reader: its `day` comes from a `Min`, and
the proofs need only `Typed`, which leaves `day` and others out.

## Not modelled

- Two emails that reach the activity tracker in the same millisecond would get
  one process id (`access_management_activity_track_helper.py:96`) and share
  rows: the modules assume that this does not happen.
- The file protocol inside the AD hook: `Script` has what its callers can
  see of it.
- Of housekeeping: the dry run, the table swap (which raises), the optimization of
  tables, the disabled cleanup of the legacy `AM_Alert` tables. Child rows are
  locks only: they go with their parents in one transaction.
- Of maintenance and the autocaller: how an email or an alert becomes an action, a
  CR or a ticket, and the hours of windows and trackers.
- The extraction of alert labels from emails (`process_email_alerts.py`), a long
  pure function on text.
- Email extraction, log categories, templates, reports, monitoring, recovery,
  chat and the HTTP hooks: parsing, layout, or one call without state.
- The fields of a request. Two hazards come from these (the account name that
  gets its prefix twice, the AD id that two new users may get) and are listed.
- The clock: `Age` has the days the resolver tells apart.

## Plan

The order was: the executor, since its effects cannot be undone; the router,
which every email passes; the SR flows; the resolver; then maintenance, the
autocaller and housekeeping, and the proofs about them and the executor's plans.
What could come next:

1. A lifecycle for `AccessFlows` such as `RequestLifecycle` is for the resolver:
   the row from its creation to "SR Submitted", with the tracker and the mails.
2. `AdidChoice`: the search for a free AD id as a function, against its
   definition, and two requests that choose at a time.
3. `AdProcess`: the script, the file and the looks at it, implementing `Script`.
4. Overlapping runs of a request with a WO in `ResolveFlows`: is the password
   that is recorded and told the one AD has?
