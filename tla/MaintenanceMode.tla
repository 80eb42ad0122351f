--------------------------- MODULE MaintenanceMode ----------------------------
(***************************************************************************)
(* Maintenance mode by email: src/dags/process_maintenance_request.py,     *)
(* which enables or disables the suppression of alerts for a change        *)
(* request (CR), tells those concerned, and has the rule caches of the     *)
(* workers of another service warmed, with src/dags/warm_rule_cache.py,    *)
(* whose calls reach these workers at random.                              *)
(*                                                                         *)
(* A disable warms the caches only if a key in Redis, the tracker, says    *)
(* that an enable of the CR did.  Requests may overlap, also on one CR.    *)
(* A window ends, and a tracker expires, whenever it may: a window lasts   *)
(* up to 72 hours and a tracker 24, so that either comes first.  The API,  *)
(* its rules and Redis are external.                                       *)
(***************************************************************************)
EXTENDS Integers

CONSTANTS Cr,          \* change requests
          Mail,        \* emails, each with a run of the DAG
          Worker,      \* workers with a rule cache
          MaxTries,    \* tries of the task (2 in the code)
          MaxFaults    \* bound: calls that fail, and workers that die

ASSUME SizesAssumption == MaxTries \in Nat \ {0} /\ MaxFaults \in Nat

VARIABLES
  action,  \* email: "enable", "disable", or "none" if it is not valid
  cr,      \* email: the CR it is about
  window,  \* CRs whose alerts are to be suppressed
  tracker, \* CRs whose key is in Redis
  cache,   \* worker: the CRs whose suppression it applies
  pc,      \* run: where it stands
  tries,   \* run: tries of it that died
  warming, \* run: the tries of it whose workflow goes on
  reached, \* history: workers reached by the workflow of the present try
  stopped, \* history: disables whose CR was not enabled again
  owed,    \* history: CRs disabled, their caches to be warmed
  excused, \* history: CRs of which the code does not promise that
  faults   \* bound: faults so far

world   == <<window, tracker, cache>>
runs    == <<pc, tries>>
warms   == <<warming, reached>>
history == <<stopped, owed, excused>>
vars == <<action, cr, world, runs, warms, history, faults>>

Active(m) == pc[m] \notin {"new", "done", "failed"}

\* The run has begun, and goes on or is tried again.
Unfinished(m) == Active(m) \/ (pc[m] = "new" /\ tries[m] > 0)

\* Another run is at work on the same CR.
Overlaps(m) == \E n \in Mail \ {m} : Unfinished(n) /\ cr[n] = cr[m]

-----------------------------------------------------------------------------
Init ==
  /\ action \in [Mail -> {"enable", "disable", "none"}]
  /\ cr \in [Mail -> Cr]
  /\ window = {}
  /\ tracker = {}
  /\ cache = [w \in Worker |-> {}]
  /\ pc = [m \in Mail |-> "new"]
  /\ tries = [m \in Mail |-> 0]
  /\ warming = [m \in Mail |-> {}]
  /\ reached = [m \in Mail |-> {}]
  /\ stopped = {}
  /\ owed = {}
  /\ excused = {}
  /\ faults = 0

\* A worker that has to decide on an alert, and has no rules yet or lets them
\* expire, loads those of the moment.
Load(w) ==
  /\ cache' = [cache EXCEPT ![w] = window]
  /\ UNCHANGED <<action, cr, window, tracker, runs, warms, history, faults>>

\* A window ends by itself.  The rule says when, and the caches have the rule.
WindowEnds(c) ==
  /\ c \in window
  /\ window' = window \ {c}
  /\ cache' = [w \in Worker |-> cache[w] \ {c}]
  /\ UNCHANGED <<action, cr, tracker, runs, warms, history, faults>>

\* A tracker that expires before a disable has looked leaves the caches as
\* they are.
TrackerExpires(c) ==
  /\ c \in tracker
  /\ tracker' = tracker \ {c}
  /\ excused' = excused \cup ({c} \cap (window \cup owed))
  /\ UNCHANGED <<action, cr, window, cache, runs, warms, stopped, owed, faults>>

-----------------------------------------------------------------------------
(* process_maintenance_request                                             *)

Goes(m, from, to) == pc[m] = from /\ pc' = [pc EXCEPT ![m] = to]

RestUnchanged == UNCHANGED <<action, cr, tries>>

Faulty == faults < MaxFaults /\ faults' = faults + 1

\* The email is parsed and checked.  One that is not valid is answered, and
\* that is all.
Parse(m) ==
  /\ Goes(m, "new", IF action[m] = "none" THEN "done" ELSE "api")
  /\ excused' = IF Overlaps(m) THEN excused \cup {cr[m]} ELSE excused
  /\ UNCHANGED <<world, warms, stopped, owed, faults>>
  /\ RestUnchanged

\* The API takes it: an enable begins a window, a disable ends it.  A disable
\* leaves the caches that have the rule to be warmed.
Takes(m) ==
  LET c == cr[m] IN
  \/ /\ action[m] = "enable"
     /\ window' = window \cup {c}
     /\ stopped' = {n \in stopped : cr[n] # c}
     /\ owed' = owed \ {c}
  \/ /\ action[m] = "disable"
     /\ window' = window \ {c}
     /\ stopped' = stopped \cup {m}
     /\ owed' = owed \cup {n \in {c} \cap window : \E w \in Worker : n \in cache[w]}

\* call_maintenance_api.  A success is announced and followed by the warming.
CallSucceeds(m) ==
  /\ Goes(m, "api", "told")
  /\ Takes(m)
  /\ UNCHANGED <<tracker, cache, warms, excused, faults>>
  /\ RestUnchanged

\* An answer that is an error, or none, is reported as a failure whatever the
\* API did.
CallFails(m) ==
  /\ Goes(m, "api", "done")
  /\ Faulty
  /\ Takes(m) \/ UNCHANGED <<window, stopped, owed>>
  /\ excused' = excused \cup {cr[m]}
  /\ UNCHANGED <<tracker, cache, warms>>
  /\ RestUnchanged

\* trigger_cache_warm_dag: the workflow is started and runs by itself.
Triggered(m) ==
  /\ warming' = [warming EXCEPT ![m] = @ \cup {tries[m]}]
  /\ owed' = IF action[m] = "disable" THEN owed \ {cr[m]} ELSE owed

\* Mutant: a disable has the caches warmed while it calls the API.
CallAndWarm(m) ==
  \/ CallSucceeds(m) \/ CallFails(m)
  \/ /\ pc[m] = "api" /\ action[m] = "disable" /\ cr[m] \in tracker
     /\ Triggered(m)
     /\ UNCHANGED <<world, pc, reached, stopped, excused, faults>>
     /\ RestUnchanged

CallApi(m) == CallSucceeds(m) \/ CallFails(m)

\* On an enable.  A call that times out counts as a success, whether or not
\* the workflow was started; one that is refused is passed over.
TriggerOnEnable(m) ==
  /\ action[m] = "enable"
  /\ pc[m] = "told"
  /\ \/ /\ pc' = [pc EXCEPT ![m] = "warmed"]
        /\ Triggered(m)
        /\ UNCHANGED <<excused, faults>>
     \/ /\ Faulty
        /\ pc' = [pc EXCEPT ![m] = "warmed"]
        /\ UNCHANGED <<warming, owed, excused>>
     \/ /\ Faulty
        /\ pc' = [pc EXCEPT ![m] = "done"]
        /\ UNCHANGED <<warming, owed>>
        /\ excused' = excused \cup {cr[m]}
  /\ UNCHANGED <<world, reached, stopped>>
  /\ RestUnchanged

\* set_cache_warm_tracker, which passes over what fails.
SetTracker(m) ==
  /\ action[m] = "enable"
  /\ Goes(m, "warmed", "done")
  /\ \/ /\ tracker' = tracker \cup {cr[m]}
        /\ UNCHANGED <<excused, faults>>
     \/ /\ Faulty
        /\ UNCHANGED tracker
        /\ excused' = excused \cup {cr[m]}
  /\ UNCHANGED <<window, cache, warms, stopped, owed>>
  /\ RestUnchanged

\* Mutant: the tracker is deleted as it is found.
FindsAndDeletes(m) == cr[m] \in tracker /\ tracker' = tracker \ {cr[m]}

\* check_cache_warm_tracker.
Finds(m) == cr[m] \in tracker /\ UNCHANGED tracker

\* On a disable: without a tracker there is nothing to warm, and a Redis that
\* fails is taken for that.
CheckTracker(m) ==
  /\ action[m] = "disable"
  /\ pc[m] = "told"
  /\ \/ /\ cr[m] \notin tracker
        /\ pc' = [pc EXCEPT ![m] = "done"]
        /\ UNCHANGED <<tracker, excused, faults>>
     \/ /\ Finds(m)
        /\ pc' = [pc EXCEPT ![m] = "found"]
        /\ UNCHANGED <<excused, faults>>
     \/ /\ Faulty
        /\ pc' = [pc EXCEPT ![m] = "done"]
        /\ excused' = excused \cup {cr[m]}
        /\ UNCHANGED tracker
  /\ UNCHANGED <<window, cache, warms, stopped, owed>>
  /\ RestUnchanged

\* The answer to the trigger is not looked at.
TriggerOnDisable(m) ==
  /\ action[m] = "disable"
  /\ pc[m] = "found"
  /\ pc' = [pc EXCEPT ![m] = "warmed"]
  /\ \/ Triggered(m) /\ UNCHANGED <<excused, faults>>
     \/ /\ Faulty
        /\ UNCHANGED <<warming, owed>>
        /\ excused' = excused \cup {cr[m]}
  /\ UNCHANGED <<world, reached, stopped>>
  /\ RestUnchanged

\* delete_cache_warm_tracker, which passes over what fails.
DeleteTracker(m) ==
  /\ action[m] = "disable"
  /\ Goes(m, "warmed", "done")
  /\ \/ tracker' = tracker \ {cr[m]} /\ UNCHANGED faults
     \/ Faulty /\ UNCHANGED tracker
  /\ UNCHANGED <<window, cache, warms, history>>
  /\ RestUnchanged

\* An entry that the worklog refuses ends the try as a failure, and a mail says
\* so even if the API was called: the run is green.
Break(m) ==
  /\ Active(m)
  /\ Faulty
  /\ pc' = [pc EXCEPT ![m] = "done"]
  /\ excused' = excused \cup {cr[m]}
  /\ UNCHANGED <<world, warms, stopped, owed>>
  /\ RestUnchanged

\* The worker that runs the task dies, and the task is tried again from its
\* beginning, or not any more.
Die(m) ==
  /\ Active(m)
  /\ Faulty
  /\ \/ /\ tries[m] + 1 < MaxTries
        /\ tries' = [tries EXCEPT ![m] = @ + 1]
        /\ pc' = [pc EXCEPT ![m] = "new"]
        /\ reached' = [reached EXCEPT ![m] = {}]
        /\ UNCHANGED excused
     \/ /\ tries[m] + 1 = MaxTries
        /\ UNCHANGED <<tries, reached>>
        /\ pc' = [pc EXCEPT ![m] = "failed"]
        /\ excused' = excused \cup {cr[m]}
  /\ UNCHANGED <<action, cr, world, warming, stopped, owed>>

-----------------------------------------------------------------------------
(* warm_rule_cache                                                         *)

\* One of the calls makes one worker load the rules.
WarmCall(m, w) ==
  \E k \in warming[m] :
    /\ cache' = [cache EXCEPT ![w] = window]
    /\ reached' = IF k = tries[m] THEN [reached EXCEPT ![m] = @ \cup {w}] ELSE reached
    /\ UNCHANGED <<action, cr, window, tracker, runs, warming, history, faults>>

\* It has made its calls.  Whom they reached, and whether they failed, is
\* chance.
WarmDone(m) ==
  \E k \in warming[m] :
    /\ warming' = [warming EXCEPT ![m] = @ \ {k}]
    /\ UNCHANGED <<action, cr, world, runs, reached, history, faults>>

-----------------------------------------------------------------------------
RunStep(m) ==
  \/ Parse(m) \/ CallApi(m)
  \/ TriggerOnEnable(m) \/ SetTracker(m)
  \/ CheckTracker(m) \/ TriggerOnDisable(m) \/ DeleteTracker(m)
  \/ Break(m) \/ Die(m)

Next ==
  \/ \E m \in Mail : RunStep(m) \/ WarmDone(m)
  \/ \E m \in Mail, w \in Worker : WarmCall(m, w)
  \/ \E w \in Worker : Load(w)
  \/ \E c \in Cr : WindowEnds(c) \/ TrackerExpires(c)

Spec == Init /\ [][Next]_vars

-----------------------------------------------------------------------------
(* Properties                                                              *)

\* Every variable keeps the values that the code can give it.
TypeOK ==
  /\ action \in [Mail -> {"enable", "disable", "none"}]
  /\ cr \in [Mail -> Cr]
  /\ window \subseteq Cr /\ tracker \subseteq Cr
  /\ cache \in [Worker -> SUBSET Cr]
  /\ pc \in [Mail -> {"new", "api", "told", "found", "warmed", "done", "failed"}]
  /\ tries \in [Mail -> 0 .. MaxTries - 1]
  /\ warming \in [Mail -> SUBSET (0 .. MaxTries - 1)]
  /\ reached \in [Mail -> SUBSET Worker]
  /\ stopped \subseteq Mail
  /\ owed \subseteq Cr /\ excused \subseteq Cr
  /\ faults \in 0 .. MaxFaults

\* A worker that the warming of a disable has reached does not suppress the
\* alerts of that CR, unless an enable has come after it: the caches are never
\* warmed with what was before the disable, whoever overlaps or is tried again.
WarmedIsFresh ==
  \A m \in stopped, w \in Worker : w \in reached[m] => cr[m] \notin cache[w]

\* When the runs on a CR that was disabled are over, a worker may go on with the
\* rule only if the warming was triggered, or for what the code gives up on: two
\* runs at once, a call that failed, or a tracker that expired.  In particular
\* a run that dies, at any point, and is tried again does not lose the warming.
DisableIsWarmed ==
  \A c \in owed \ excused : \E m \in Mail : cr[m] = c /\ Unfinished(m)
===============================================================================
