----------------------------- MODULE ResolveFlows -----------------------------
(***************************************************************************)
(* What becomes of one request whose service request (SR) is submitted.    *)
(* It waits for its requester, or it is of a flow that works on it when    *)
(* the SR has its work order (WO).  As long as its row says submitted it   *)
(* is looked at again, by run after run: because nobody answered yet, and  *)
(* also when a run worked on it and could not record that.  The DAG that   *)
(* starts the runs is not in the repository.                               *)
(***************************************************************************)
EXTENDS ResolveWaiting, ResolveReset, ResolveNewUser, ResolveNewService,
        ResolveUserModify

CONSTANTS Kinds,       \* the kinds to look at, of RequestKind
          Overlapping, \* those of them whose runs may overlap
          Looks        \* bound: the runs for a kind while it is told an answer

VARIABLES kind,
          wo        \* ticket system: what it tells of the SR and its WO

AdKind == {"reset", "new user", "new service", "modify"}
RequestKind == AdKind \cup {"awaiting"}

\* No WO as yet, a WO, or rejected by the approvers.
Answer == {"false", "true", "cancel"}

ASSUME KindsAssumption == Kinds \subseteq RequestKind
ASSUME OverlapAssumption == Overlapping \subseteq {"awaiting"}
ASSUME LooksAssumption == Looks \in [RequestKind -> [Answer -> 0 .. Runs]]

FlowsInit == Init /\ kind \in Kinds /\ wo = "false"

\* The approvers decide once.
Answers == IF kind \in AdKind /\ wo = "false" THEN Answer ELSE {wo}

\* The first task of run f has ended.
Started(f) == task[f]["check"] # "none"

\* A run is through, or what is left of it cannot do anything.
Ended(f) ==
  \/ SomeTaskFailed(f)
  \/ DataLost(f, {})
  \/ \E t \in {"follow_up", "handover", "ad_status"} : task[f][t] = "success"
  \/ Given(f, "fetch_waiting") /\ xcom[f]["fetch_waiting"].flag = 0

\* A run is started for a request that is open.  Runs are numbered as their
\* first tasks end.  What the approvers decided is settled here, as it does
\* not matter before a run asks for it; how long ago the row was updated only
\* matters without a decision.
Starts(f) ==
  /\ status = "SR Submitted"
  /\ f > 1 => Started(f - 1) /\ (kind \notin Overlapping => Ended(f - 1))
  /\ wo' \in Answers
  /\ f <= Looks[kind][wo']
  /\ \E a \in (IF wo' = "false" THEN age .. 3 ELSE {3}) : Check(f, a)

\* Where runs do not overlap, one that ended has made way for the next.
Current(f) == kind \notin Overlapping => \A g \in Run : g > f => ~Started(g)

\* What a run does with a request that its requester has answered.
FlowStep(f) ==
  \/ CheckWo(f, wo)
  \/ WoFailStatus(f)
  \/ WoFailMail(f)
  \/ WaitingStep(f)
  \/ RejectedStep(f)
  \/ kind = "reset" /\ ResetStep(f)
  \/ kind = "new user" /\ NewUserStep(f)
  \/ kind = "new service" /\ NewServiceStep(f)
  \/ kind = "modify" /\ ModifyStep(f)

\* Every step of the run; the request that waits for its requester is not
\* looked up in the ticket system.
Step(f) ==
  /\ Current(f)
  /\ UNCHANGED kind
  /\ \/ Starts(f)
     \/ UNCHANGED wo /\ kind = "awaiting" /\ AwaitingStep(f)
     \/ UNCHANGED wo /\ kind \in AdKind /\ FlowStep(f)

Next == \E f \in Run : Step(f)

Spec == FlowsInit /\ [][Next]_<<vars, kind, wo>>

\* Airflow does not stop while a task can run.
FairSpec == Spec /\ WF_<<vars, kind, wo>>(Next)

-----------------------------------------------------------------------------
\* What a run tells of a request, and of its password, it has recorded, also
\* when tasks are retried after doing half of their work.  Only the mail about
\* the WO of a modified account is sent whether the error was recorded or not.
ToldIsWritten ==
  \A m \in mails :
    m.kind \in DOMAIN Verdict \ (IF kind = "modify" THEN {"itsm"} ELSE {}) =>
      \E w \in written : /\ w.run = m.run
                         /\ w.status \in Verdict[m.kind]
                         /\ m.kind \in {"account", "fo"} => w.pw = m.pw

\* What the row was completed with.
Recorded == {w.pw : w \in {x \in written : x.status = "Completed" /\ x.pw # NoPw}}

Lifecycle == INSTANCE RequestLifecycle WITH recorded <- Recorded

\* Whatever fails and is retried, and however often it is looked at again, a
\* request goes the way of RequestLifecycle: nothing more is done in AD when it
\* is completed or has an error, it is completed once, with what was done, it
\* is given up or rejected only when nothing was done, and an error stays.
ImplementsLifecycle == Lifecycle!Spec

\* A WO is closed only for a request that a run has completed, with the password
\* the row was completed with, also when that is what the script did for an
\* earlier run, and after the comment on it.
ClosedIsDone ==
  closed # NoPw =>
    /\ noted
    /\ \E f \in Run :
         [run |-> f, status |-> "Completed", pw |-> closed] \in written

Handover(w) == w.status = "Completed" /\ w.pw = NoPw

\* A waiting request is given up only after two runs have each recorded that
\* they reminded somebody, however their tasks overlap and are retried.
HandedOverAfterReminders ==
  \A w \in written : Handover(w) =>
    Cardinality({v.run : v \in {x \in written : x.status = "reminded"}}) >= 2

\* A request that its requester does not answer is given up only when the FO
\* was told so.
HandoverIsTold ==
  kind = "awaiting" =>
    \A w \in written : Handover(w) =>
      \E m \in mails : m.run = w.run /\ m.kind = "handover"

HasWo(f) == Given(f, "check_wo") /\ xcom[f]["check_wo"].wo = "true"

\* Whatever becomes of a run that was told of the WO: the WO is closed, the
\* error is recorded or somebody told of it, a failed task is there for an
\* operator to see, or a task lost the data.
Settled(f) ==
  \/ SomeTaskFailed(f)
  \/ DataLost(f, {})
  \/ status = "Completed" /\ closed # NoPw
  \/ status \in {"Error in ITSM Process", "Error in Decryption",
                 "Error in Process"}
  \/ \E m \in mails : m.run = f /\ m.kind \in {"ad_error", "itsm"}

\* No run that was told of the WO leaves the request without an end, also not
\* one that takes it up after another.
NoneForgotten == []<>(\A f \in Run : HasWo(f) => Settled(f))
===============================================================================
