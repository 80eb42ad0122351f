-------------------------- MODULE EmailRoutingProofs --------------------------
(***************************************************************************)
(* What the worklogs of EmailRouting tell, for any number of emails and    *)
(* tries and whatever fails.                                               *)
(***************************************************************************)
EXTENDS EmailRouting, TLAPS

\* A task that is not over has a try left.
TryLeft ==
  /\ \A e \in Email :
       at[e] \in {"waiting", "received", "answered", "asked"} => tries[e] < MaxTries
  /\ \A w \in Log :
       down[w] \in {"started", "passed", "written"} => downTries[w] < MaxTries

\* A workflow that is about to close the worklog has told its outcome.
WrittenIsTold ==
  \A w \in Log :
    /\ down[w] = "written" => entries[w] \cap {"outcome", "no alert"} # {}
    /\ down[w] \in {"written", "done"} /\ label[w] = "alerts" =>
         w \in alerts \/ "no alert" \in entries[w]

\* No workflow has been triggered yet by a try of the router to come.
Fresh ==
  \A w \in Log :
    \/ w.try > tries[w.email] + 1
    \/ w.try = tries[w.email] + 1 /\ at[w.email] \in {"waiting", "received"}
    => down[w] = "none" /\ downTries[w] = 0

IInv == TypeOK /\ TryLeft /\ Fresh /\ WrittenIsTold /\ ClosedTellsOutcome

\* The try that a router is in can be counted.
LEMMA TryIsCounted ==
  ASSUME IInv, NEW e \in Email,
         at[e] \in {"waiting", "received", "answered", "asked"}
  PROVE  tries[e] \in Nat /\ tries[e] < MaxTries /\ tries[e] + 1 \in 0 .. MaxTries
<1>1. tries[e] \in 0 .. MaxTries
  BY DEF IInv, TypeOK
<1>2. tries[e] < MaxTries
  BY DEF IInv, TryLeft
<1> QED
  BY <1>1, <1>2, RoutingTriesAssumption

\* The worklog of the try that a router is in.
LEMMA CurrentIsLog ==
  ASSUME IInv, NEW e \in Email,
         at[e] \in {"waiting", "received", "answered", "asked"}
  PROVE  Current(e) \in Log
<1>2. tries[e] + 1 \in 1 .. MaxTries
  BY TryIsCounted, RoutingTriesAssumption
<1>3. [email |-> e, try |-> tries[e] + 1] \in Log
  BY <1>2 DEF Log
<1> QED
  BY <1>3 DEF Current

\* What the calls of WorkLogHook do to the worklogs.
Logs(w) ==
  /\ worklog' = worklog \/ worklog' = [worklog EXCEPT ![w] = "closed"]
  /\ entries' \in [Log -> SUBSET {"response", "outcome", "no alert", "error", "finished"}]
  /\ \A v \in Log : entries[v] \subseteq entries'[v]
  /\ worklog' # worklog => entries'[w] \cap {"outcome", "no alert"} # {}

\* A step that closes only a worklog which has its outcome keeps it so that
\* closed ones tell theirs.
LEMMA ClosedKeeps ==
  ASSUME TypeOK, ClosedTellsOutcome, NEW w \in Log, Logs(w)
  PROVE  ClosedTellsOutcome'
<1> SUFFICES ASSUME NEW v \in Log, worklog'[v] = "closed"
             PROVE  entries'[v] \cap {"outcome", "no alert"} # {}
  BY DEF ClosedTellsOutcome
<1>1. CASE worklog[v] = "closed"
  <2>1. entries[v] \cap {"outcome", "no alert"} # {}
    BY <1>1 DEF ClosedTellsOutcome
  <2>2. entries[v] \subseteq entries'[v]
    BY DEF Logs
  <2> QED
    BY <2>1, <2>2
<1>2. CASE worklog[v] # "closed"
  <2>1. worklog' # worklog
    BY <1>2
  <2>2. v = w
    BY <1>2 DEF Logs, TypeOK
  <2> QED
    BY <2>1, <2>2 DEF Logs
<1> QED
  BY <1>1, <1>2

\* What add_entry may change, whether the entry is taken or not.
LEMMA AddsEntry ==
  ASSUME IInv, NEW w \in Log, NEW x \in {"response", "outcome", "no alert", "finished"},
         AddEntry(w, x) \/ RefusesEntry(w) \/ FailsToAdd(w, x)
  PROVE  Logs(w)
<1>1. CASE AddEntry(w, x)
  <2>1. entries' = [entries EXCEPT ![w] = @ \cup {x}] /\ worklog' = worklog
    BY <1>1 DEF AddEntry
  <2>2. entries'[w] = entries[w] \cup {x}
    BY <2>1 DEF IInv, TypeOK
  <2>3. \A v \in Log : v # w => entries'[v] = entries[v]
    BY <2>1 DEF IInv, TypeOK
  <2>4. entries' \in [Log -> SUBSET {"response", "outcome", "no alert", "error", "finished"}]
    BY <2>1 DEF IInv, TypeOK
  <2>5. \A v \in Log : entries[v] \subseteq entries'[v]
    BY <2>2, <2>3
  <2> QED
    BY <2>1, <2>4, <2>5 DEF Logs
<1>2. CASE RefusesEntry(w)
  BY <1>2 DEF IInv, TypeOK, Logs, RefusesEntry
<1> QED
  BY <1>1, <1>2 DEF FailsToAdd

\* What the last entry and the closing may change: a worklog that gets closed
\* has its outcome.
LEMMA AddsLast ==
  ASSUME IInv, NEW w \in Log, NEW x \in {"outcome", "finished"},
         x = "outcome" \/ entries[w] \cap {"outcome", "no alert"} # {},
         AddLastAndClose(w, x) \/ FailsToClose(w, x)
  PROVE  Logs(w)
<1>1. CASE AddLastAndClose(w, x)
  BY <1>1 DEF IInv, TypeOK, Logs, AddLastAndClose
<1>2. CASE RefusesEntry(w) \/ FailsToAdd(w, x)
  BY <1>2, AddsEntry
<1> QED
  BY <1>1, <1>2 DEF FailsToClose

\* The answer may come to a worklog that is closed.
LEMMA AddsLate ==
  ASSUME IInv, NEW w \in Log, UNCHANGED worklog,
         \/ entries' = [entries EXCEPT ![w] = @ \cup {"response"}]
         \/ UNCHANGED entries
  PROVE  Logs(w)
<1>1. CASE entries' = [entries EXCEPT ![w] = @ \cup {"response"}]
  <2>1. entries' \in [Log -> SUBSET {"response", "outcome", "no alert", "error", "finished"}]
    BY <1>1 DEF IInv, TypeOK
  <2>2. \A v \in Log : entries[v] \subseteq entries'[v]
    BY <1>1 DEF IInv, TypeOK
  <2> QED
    BY <2>1, <2>2 DEF Logs
<1>2. CASE UNCHANGED entries
  BY <1>2 DEF IInv, TypeOK, Logs
<1> QED
  BY <1>1, <1>2

\* What becomes of a router that ends, or goes on.
Routed(e) ==
  /\ at' \in [Email -> {"waiting", "received", "answered", "asked", "done", "failed"}]
  /\ tries' \in [Email -> 0 .. MaxTries]
  /\ \A d \in Email :
       /\ at'[d] \in {"waiting", "received", "answered", "asked"} => tries'[d] < MaxTries
       /\ d # e => at'[d] = at[d] /\ tries'[d] = tries[d]
  /\ \/ tries'[e] = tries[e] + 1
     \/ tries'[e] = tries[e] /\ at'[e] \in {"received", "answered", "asked", "done"}

\* What a step of the router does to its place and its tries.
LEMMA RouterMoves ==
  ASSUME IInv, NEW e \in Email,
         at[e] \in {"waiting", "received", "answered", "asked"},
         \/ RouterRaises(e) \/ RouterEnds(e)
         \/ \E x \in {"received", "answered", "asked"} :
               at' = [at EXCEPT ![e] = x] /\ UNCHANGED tries
  PROVE  Routed(e)
<1>1. tries[e] + 1 \in 0 .. MaxTries /\ tries[e] \in Nat
  BY TryIsCounted
<1>2. CASE RouterRaises(e)
  BY <1>1, <1>2, RoutingTriesAssumption
     DEF IInv, TypeOK, TryLeft, RouterRaises, Routed
<1>3. CASE RouterEnds(e)
  BY <1>1, <1>3 DEF IInv, TypeOK, TryLeft, RouterEnds, Routed
<1>4. ASSUME NEW x \in {"received", "answered", "asked"},
             at' = [at EXCEPT ![e] = x], UNCHANGED tries
      PROVE  Routed(e)
  BY <1>1, <1>4 DEF IInv, TypeOK, TryLeft, Routed
<1> QED
  BY <1>2, <1>3, <1>4

\* What a workflow that raises does to its place and its tries.
LEMMA DownRaisingIsTyped ==
  ASSUME IInv, NEW w \in Log, down[w] \in {"started", "passed", "written"},
         DownRaises(w)
  PROVE  /\ down' \in [Log -> {"none", "started", "passed", "written", "done", "failed"}]
         /\ downTries' \in [Log -> 0 .. MaxTries]
         /\ \A v \in Log :
              down'[v] \in {"started", "passed", "written"} => downTries'[v] < MaxTries
         /\ \A v \in Log : down'[v] \in {"written", "done"} => down[v] = down'[v]
         /\ \A v \in Log : v # w => down'[v] = down[v] /\ downTries'[v] = downTries[v]
<1>1. downTries[w] + 1 \in 0 .. MaxTries
  <2>1. downTries[w] \in 0 .. MaxTries
    BY DEF IInv, TypeOK
  <2>2. downTries[w] < MaxTries
    BY DEF IInv, TryLeft
  <2> QED
    BY <2>1, <2>2, RoutingTriesAssumption
<1>2. down'[w] \in {"started", "failed"} /\ downTries'[w] = downTries[w] + 1
  BY DEF IInv, TypeOK, DownRaises
<1>3. down'[w] = "started" => downTries'[w] < MaxTries
  BY <1>1 DEF IInv, TypeOK, DownRaises
<1> QED
  BY <1>1, <1>2, <1>3 DEF IInv, TypeOK, TryLeft, DownRaises

-----------------------------------------------------------------------------
(* The router                                                              *)

\* A try that is yet to come is so after a step of the router only if it was.
LEMMA FreshKeeps ==
  ASSUME IInv, NEW e \in Email, at[e] \in {"waiting", "received", "answered", "asked"},
         Routed(e), NEW w \in Log,
         \/ w.try > tries'[w.email] + 1
         \/ w.try = tries'[w.email] + 1 /\ at'[w.email] \in {"waiting", "received"},
         \/ at[e] \in {"waiting", "received"} \/ tries'[e] = tries[e] + 1
         \/ at'[e] \in {"asked", "done"}
  PROVE  down[w] = "none" /\ downTries[w] = 0
<1>1. w.email \in Email /\ w.try \in Int /\ tries[e] \in Int
  <2>1. w.email \in Email /\ w.try \in 1 .. MaxTries
    BY DEF Log
  <2> QED
    BY <2>1, TryIsCounted, RoutingTriesAssumption
<1>2. CASE w.email # e
  BY <1>1, <1>2 DEF IInv, Fresh, Routed
<1>3. CASE w.email = e
  BY <1>1, <1>3 DEF IInv, Fresh, Routed
<1> QED
  BY <1>2, <1>3

\* A step of the router that leaves the workflows alone.
LEMMA RouterKeeps ==
  ASSUME IInv, NEW e \in Email,
         at[e] \in {"waiting", "received", "answered", "asked"},
         \/ RouterRaises(e) \/ RouterEnds(e)
         \/ at' = [at EXCEPT ![e] = "asked"] /\ UNCHANGED tries,
         Logs(Current(e)), UNCHANGED downstream
  PROVE  IInv'
<1>1. Current(e) \in Log
  BY CurrentIsLog
<1>2. Routed(e)
  BY RouterMoves
<1>3. TypeOK' /\ TryLeft'
  BY <1>1, <1>2 DEF IInv, TypeOK, TryLeft, Logs, Routed, downstream
<1>4. Fresh'
  <2> SUFFICES ASSUME NEW w \in Log,
                      \/ w.try > tries'[w.email] + 1
                      \/ /\ w.try = tries'[w.email] + 1
                         /\ at'[w.email] \in {"waiting", "received"}
               PROVE  down'[w] = "none" /\ downTries'[w] = 0
    BY DEF Fresh
  <2>1. tries'[e] = tries[e] + 1 \/ at'[e] \in {"asked", "done"}
    BY DEF RouterEnds, RouterRaises, IInv, TypeOK
  <2> QED
    BY <1>2, <2>1, FreshKeeps DEF downstream
<1>5. WrittenIsTold'
  BY DEF IInv, WrittenIsTold, Logs, downstream
<1>6. ClosedTellsOutcome'
  BY <1>1, ClosedKeeps DEF IInv
<1> QED
  BY <1>3, <1>4, <1>5, <1>6 DEF IInv

\* The router opens the worklog of a try that no workflow knows yet.
LEMMA ReceiveKeeps == ASSUME IInv, NEW e \in Email, Receive(e) PROVE IInv'
<1>1. Current(e) \in Log /\ at[e] = "waiting"
  BY CurrentIsLog DEF Receive
<1>2. worklog' = [worklog EXCEPT ![Current(e)] = "open"] \/ worklog' = worklog
  BY DEF Receive
<1>3. UNCHANGED <<entries, downstream>>
  BY DEF Receive
<1>4. Routed(e)
  BY <1>1, RouterMoves DEF Receive
<1>5. TypeOK' /\ TryLeft'
  BY <1>1, <1>2, <1>3, <1>4 DEF IInv, TypeOK, TryLeft, Routed, downstream
<1>6. Fresh'
  BY <1>1, <1>3, <1>4, FreshKeeps DEF Fresh, downstream
<1>7. WrittenIsTold'
  BY <1>3 DEF IInv, WrittenIsTold, downstream
<1>8. ClosedTellsOutcome'
  BY <1>1, <1>2, <1>3 DEF IInv, TypeOK, ClosedTellsOutcome
<1> QED
  BY <1>5, <1>6, <1>7, <1>8 DEF IInv

\* The triggered workflow starts afresh, with the worklog of this try.
LEMMA TriggerKeeps == ASSUME IInv, NEW e \in Email, Trigger(e) PROVE IInv'
<1> DEFINE w == Current(e)
<1>1. w \in Log /\ at[e] = "received" /\ w.email = e /\ w.try = tries[e] + 1
  BY CurrentIsLog DEF Trigger, Current
<1>2. UNCHANGED <<worklog, entries, downTries, alerts>>
  BY DEF Trigger
<1>3. \/ UNCHANGED <<label, down>>
      \/ /\ down' = [down EXCEPT ![w] = "started"]
         /\ \E x \in Workflow : label' = [label EXCEPT ![w] = x]
  BY DEF Trigger
<1>4. Routed(e) /\ (at'[e] = "answered" \/ tries'[e] = tries[e] + 1)
  <2>1. Routed(e)
    BY <1>1, RouterMoves DEF Trigger
  <2>2. at'[e] = "answered" \/ tries'[e] = tries[e] + 1
    BY DEF Trigger, RouterRaises, IInv, TypeOK
  <2> QED
    BY <2>1, <2>2
<1> HIDE DEF w
<1>5. down[w] = "none" /\ downTries[w] = 0
  BY <1>1 DEF IInv, Fresh
<1>6. TypeOK'
  <2>1. label' \in [Log -> Workflow \cup {"none"}]
    <3>1. label \in [Log -> Workflow \cup {"none"}]
      BY DEF IInv, TypeOK
    <3> QED
      BY <1>3, <3>1
  <2>2. down' \in [Log -> {"none", "started", "passed", "written", "done", "failed"}]
    BY <1>1, <1>3 DEF IInv, TypeOK
  <2> QED
    BY <1>2, <1>4, <2>1, <2>2 DEF IInv, TypeOK, Routed
<1>7. TryLeft'
  <2>1. \A v \in Log : down'[v] = down[v] \/ (v = w /\ down'[v] = "started")
    BY <1>1, <1>3 DEF IInv, TypeOK
  <2>2. downTries[w] < MaxTries
    BY <1>5, RoutingTriesAssumption
  <2> QED
    BY <1>2, <1>4, <2>1, <2>2 DEF IInv, TryLeft, Routed
<1>8. Fresh'
  <2> SUFFICES ASSUME NEW v \in Log,
                      \/ v.try > tries'[v.email] + 1
                      \/ /\ v.try = tries'[v.email] + 1
                         /\ at'[v.email] \in {"waiting", "received"}
               PROVE  down'[v] = "none" /\ downTries'[v] = 0
    BY DEF Fresh
  <2>1. down[v] = "none" /\ downTries[v] = 0
    BY <1>1, <1>4, FreshKeeps
  <2>2. v # w
    <3>1. SUFFICES ASSUME v = w PROVE FALSE
      OBVIOUS
    <3>2. tries[e] \in Nat
      BY <1>1, TryIsCounted
    <3>3. /\ ~ (tries[e] + 1 > tries'[e] + 1)
          /\ tries[e] + 1 = tries'[e] + 1 => at'[e] = "answered"
      BY <1>4, <3>2 DEF Routed
    <3> QED
      BY <1>1, <3>1, <3>3
  <2> QED
    BY <1>2, <1>3, <2>1, <2>2 DEF IInv, TypeOK
<1>9. WrittenIsTold'
  <2>1. \A v \in Log : v # w => down'[v] = down[v] /\ label'[v] = label[v]
    BY <1>3 DEF IInv, TypeOK
  <2>2. down'[w] \in {"none", "started"}
    BY <1>1, <1>3, <1>5 DEF IInv, TypeOK
  <2> QED
    BY <1>2, <2>1, <2>2 DEF IInv, WrittenIsTold
<1>10. ClosedTellsOutcome'
  BY <1>2 DEF IInv, ClosedTellsOutcome
<1> QED
  BY <1>6, <1>7, <1>8, <1>9, <1>10 DEF IInv

-----------------------------------------------------------------------------
(* The workflows                                                           *)

\* A workflow that raises.
LEMMA DownRaisesKeeps ==
  ASSUME IInv, NEW w \in Log, down[w] \in {"started", "passed", "written"},
         DownRaises(w), Logs(w), UNCHANGED <<router, label>>,
         alerts' = alerts \/ alerts' = alerts \cup {w}
  PROVE  IInv'
<1>1. TypeOK' /\ TryLeft'
  BY DownRaisingIsTyped DEF IInv, TypeOK, TryLeft, Logs, router
<1>2. Fresh'
  BY DownRaisingIsTyped DEF IInv, Fresh, router
<1>3. WrittenIsTold'
  BY DownRaisingIsTyped DEF IInv, WrittenIsTold, Logs
<1>4. ClosedTellsOutcome'
  BY ClosedKeeps DEF IInv
<1> QED
  BY <1>1, <1>2, <1>3, <1>4 DEF IInv

\* A workflow that goes on.
LEMMA DownMovesKeeps ==
  ASSUME IInv, NEW w \in Log, down[w] \in {"started", "passed", "written"},
         NEW x \in {"passed", "written", "done"},
         down' = [down EXCEPT ![w] = x], UNCHANGED <<router, label, downTries>>,
         Logs(w), alerts' = alerts \/ alerts' = alerts \cup {w},
         x = "written" => entries'[w] \cap {"outcome", "no alert"} # {},
         x \in {"written", "done"} /\ label[w] = "alerts" =>
           w \in alerts' \/ "no alert" \in entries'[w]
  PROVE  IInv'
<1>1. TypeOK' /\ TryLeft'
  BY DEF IInv, TypeOK, TryLeft, Logs, router
<1>2. Fresh'
  BY DEF IInv, TypeOK, Fresh, router
<1>3. WrittenIsTold'
  <2> SUFFICES ASSUME NEW v \in Log
               PROVE  /\ down'[v] = "written" =>
                           entries'[v] \cap {"outcome", "no alert"} # {}
                      /\ down'[v] \in {"written", "done"} /\ label'[v] = "alerts" =>
                           v \in alerts' \/ "no alert" \in entries'[v]
    BY DEF WrittenIsTold
  <2>1. entries[v] \subseteq entries'[v] /\ alerts \subseteq alerts' /\ label' = label
    BY DEF Logs
  <2>2. CASE v = w
    BY <2>2 DEF IInv, TypeOK
  <2>3. CASE v # w
    <3>1. down'[v] = down[v]
      BY <2>3 DEF IInv, TypeOK
    <3> QED
      BY <2>1, <3>1 DEF IInv, WrittenIsTold
  <2> QED
    BY <2>2, <2>3
<1>4. ClosedTellsOutcome'
  BY ClosedKeeps DEF IInv
<1> QED
  BY <1>1, <1>2, <1>3, <1>4 DEF IInv

\* No entry and no closing: what a step that leaves worklogs alone does to
\* them.
LEMMA LogsStay ==
  ASSUME IInv, NEW w \in Log, UNCHANGED <<worklog, entries>>
  PROVE  Logs(w)
BY DEF IInv, TypeOK, Logs

\* A workflow that found no rule for its alert says so before it closes.
LEMMA EvaluateKeeps == ASSUME IInv, NEW w \in Log, EvaluateAlert(w) PROVE IInv'
<1>1. /\ down[w] = "started" /\ UNCHANGED <<router, label, alerts>>
  BY DEF EvaluateAlert
<1>2. CASE CannotWrite(w)
  <2>1. Logs(w)
    BY <1>2, AddsEntry, LogsStay DEF CannotWrite
  <2> QED
    BY <1>1, <1>2, <2>1, DownRaisesKeeps DEF CannotWrite
<1>3. CASE /\ down' = [down EXCEPT ![w] = "passed"]
           /\ UNCHANGED <<worklog, entries, downTries>>
  BY <1>1, <1>3, LogsStay, DownMovesKeeps
<1>4. CASE /\ AddEntry(w, "no alert")
           /\ down' = [down EXCEPT ![w] = "written"]
           /\ UNCHANGED downTries
  <2>1. Logs(w)
    BY <1>4, AddsEntry
  <2>2. "no alert" \in entries'[w]
    BY <1>4 DEF AddEntry, IInv, TypeOK
  <2> QED
    BY <1>1, <1>4, <2>1, <2>2, DownMovesKeeps
<1> QED
  BY <1>2, <1>3, <1>4 DEF EvaluateAlert

\* The attachments are told of before the worklog is closed.
LEMMA WriteAttachmentsKeeps ==
  ASSUME IInv, NEW w \in Log, WriteAttachments(w)
  PROVE  IInv'
<1>1. /\ down[w] = "started" /\ label[w] # "alerts"
      /\ UNCHANGED <<router, label, alerts>>
  BY DEF WriteAttachments
<1>2. Logs(w)
  BY AddsEntry DEF WriteAttachments
<1>3. CASE /\ AddEntry(w, "outcome")
           /\ down' = [down EXCEPT ![w] = "written"]
           /\ UNCHANGED downTries
  <2>1. "outcome" \in entries'[w]
    BY <1>3 DEF AddEntry, IInv, TypeOK
  <2> QED
    BY <1>1, <1>2, <1>3, <2>1, DownMovesKeeps
<1>4. CASE DownRaises(w)
  BY <1>1, <1>2, <1>4, DownRaisesKeeps
<1> QED
  BY <1>3, <1>4 DEF WriteAttachments

\* A workflow goes on only after its alert was sent.
LEMMA SendAlertKeeps == ASSUME IInv, NEW w \in Log, SendAlert(w) PROVE IInv'
<1>1. /\ down[w] = "passed" /\ UNCHANGED <<router, label>>
  BY DEF SendAlert
<1>2. CASE /\ alerts' = alerts \cup {w}
           /\ AddEntry(w, "outcome")
           /\ down' = [down EXCEPT ![w] = "written"]
           /\ UNCHANGED downTries
  <2>1. Logs(w)
    BY <1>2, AddsEntry
  <2>2. "outcome" \in entries'[w]
    BY <1>2 DEF AddEntry, IInv, TypeOK
  <2> QED
    BY <1>1, <1>2, <2>1, <2>2, DownMovesKeeps
<1>3. CASE /\ alerts' = alerts \cup {w} \/ UNCHANGED alerts
           /\ DownRaises(w)
           /\ UNCHANGED <<worklog, entries>> \/ FailsToAdd(w, "outcome")
  <2>1. Logs(w)
    BY <1>3, AddsEntry, LogsStay
  <2> QED
    BY <1>1, <1>3, <2>1, DownRaisesKeeps
<1> QED
  BY <1>2, <1>3 DEF SendAlert

\* The worklog is closed by a workflow that has told its outcome.
LEMMA FinishKeeps == ASSUME IInv, NEW w \in Log, Finish(w) PROVE IInv'
<1>1. /\ down[w] = "written" /\ UNCHANGED <<router, label, alerts>>
      /\ entries[w] \cap {"outcome", "no alert"} # {}
  BY DEF Finish, IInv, WrittenIsTold
<1>2. Logs(w)
  BY <1>1, AddsLast DEF Finish
<1>3. CASE /\ down' = [down EXCEPT ![w] = "done"]
           /\ UNCHANGED downTries
  <2>1. label[w] = "alerts" => w \in alerts' \/ "no alert" \in entries'[w]
    BY <1>1, <1>2 DEF IInv, WrittenIsTold, Logs
  <2> QED
    BY <1>1, <1>2, <1>3, <2>1, DownMovesKeeps
<1>4. CASE DownRaises(w)
  BY <1>1, <1>2, <1>4, DownRaisesKeeps
<1> QED
  BY <1>3, <1>4 DEF Finish

\* A workflow with a worklog of its own writes the outcome and closes at once.
LEMMA ReportKeeps == ASSUME IInv, NEW w \in Log, Report(w) PROVE IInv'
<1>1. /\ down[w] = "started" /\ UNCHANGED <<router, label, downTries, alerts>>
      /\ down' = [down EXCEPT ![w] = "done"] /\ label[w] # "alerts"
  BY DEF Report
<1>2. Logs(w)
  BY AddsLast DEF Report
<1> QED
  BY <1>1, <1>2, DownMovesKeeps

-----------------------------------------------------------------------------
\* Every step of the routers and the workflows keeps the invariant.
LEMMA StepIsInvariant == ASSUME IInv, Next PROVE IInv'
<1>1. CASE \E e \in Email : Route(e)
  <2> PICK e \in Email : Route(e)
    BY <1>1
  <2>1. CASE Receive(e)
    BY <2>1, ReceiveKeeps
  <2>2. CASE RulesFail(e)
    <3>1. Logs(Current(e))
      BY <2>2, CurrentIsLog, LogsStay DEF RulesFail
    <3> QED
      BY <2>2, <3>1, RouterKeeps DEF RulesFail
  <2>3. CASE StopHere(e)
    <3>1. Logs(Current(e))
      BY <2>3, CurrentIsLog, AddsEntry DEF StopHere
    <3> QED
      BY <2>3, <3>1, RouterKeeps DEF StopHere
  <2>4. CASE TurnAway(e)
    <3>1. Logs(Current(e))
      BY <2>4, CurrentIsLog, AddsLast DEF TurnAway
    <3> QED
      BY <2>4, <3>1, RouterKeeps DEF TurnAway
  <2>5. CASE Trigger(e)
    BY <2>5, TriggerKeeps
  <2>6. CASE Respond(e)
    <3>1. Logs(Current(e))
      BY <2>6, CurrentIsLog, LogsStay DEF Respond
    <3> QED
      BY <2>6, <3>1, RouterKeeps DEF Respond
  <2>7. CASE PostResponse(e)
    <3>1. Logs(Current(e))
      BY <2>7, CurrentIsLog, AddsLate DEF PostResponse
    <3> QED
      BY <2>7, <3>1, RouterKeeps DEF PostResponse
  <2> QED
    BY <2>1, <2>2, <2>3, <2>4, <2>5, <2>6, <2>7 DEF Route
<1>2. CASE \E w \in Log : Work(w)
  BY <1>2, EvaluateKeeps, WriteAttachmentsKeeps, SendAlertKeeps, FinishKeeps, ReportKeeps DEF Work
<1> QED
  BY <1>1, <1>2 DEF Next

\* The inductive invariant holds in every state.
LEMMA Invariance == Spec => []IInv
<1>1. Init => IInv
  BY RoutingTriesAssumption
     DEF Init, IInv, TypeOK, TryLeft, Fresh, WrittenIsTold, ClosedTellsOutcome, Log
<1>2. IInv /\ UNCHANGED vars => IInv'
  BY DEF IInv, TypeOK, TryLeft, Fresh, WrittenIsTold, ClosedTellsOutcome,
         vars, router, downstream
<1> QED
  BY <1>1, <1>2, StepIsInvariant, PTL DEF Spec

-----------------------------------------------------------------------------
\* What a step adds to a closed worklog is the answer of a trigger.
OnlyAnswer ==
  \A w \in Log : worklog[w] = "closed" => entries'[w] \subseteq entries[w] \cup {"response"}

\* An entry that add_entry takes is for an open worklog.
LEMMA EntryIsForOpen ==
  ASSUME IInv, NEW v \in Log, NEW x,
         AddEntry(v, x) \/ AddLastAndClose(v, x) \/ FailsToAdd(v, x) \/ FailsToClose(v, x)
  PROVE  OnlyAnswer
<1>1. \/ UNCHANGED entries
      \/ worklog[v] = "open" /\ entries' = [entries EXCEPT ![v] = @ \cup {x}]
  BY DEF AddEntry, AddLastAndClose, FailsToAdd, FailsToClose, RefusesEntry, IsOpen
<1> QED
  BY <1>1 DEF IInv, TypeOK, OnlyAnswer

\* No step gives a closed worklog more than the answer of a trigger.
LEMMA LateStep == ASSUME IInv, [Next]_vars PROVE OnlyAnswer
<1>1. CASE UNCHANGED entries
  BY <1>1 DEF OnlyAnswer
<1>2. ASSUME NEW e \in Email, Route(e)
      PROVE  OnlyAnswer
  <2>1. CASE StopHere(e) \/ TurnAway(e)
    <3>1. Current(e) \in Log
      BY <2>1, CurrentIsLog DEF StopHere, TurnAway
    <3> QED
      BY <2>1, <3>1, EntryIsForOpen DEF StopHere, TurnAway
  <2>2. CASE PostResponse(e)
    <3>1. entries \in [Log -> SUBSET {"response", "outcome", "no alert", "error", "finished"}]
      BY DEF IInv, TypeOK
    <3>2. \/ entries' = [entries EXCEPT ![Current(e)] = @ \cup {"response"}]
          \/ UNCHANGED entries
      BY <2>2 DEF PostResponse
    <3> QED
      BY <3>1, <3>2 DEF OnlyAnswer
  <2> QED
    BY <1>1, <1>2, <2>1, <2>2 DEF Route, Receive, RulesFail, Trigger, Respond
<1>3. ASSUME NEW v \in Log, Work(v)
      PROVE  OnlyAnswer
  <2>1. CASE EvaluateAlert(v)
    BY <1>1, <2>1, EntryIsForOpen DEF EvaluateAlert, CannotWrite
  <2>2. CASE WriteAttachments(v) \/ SendAlert(v) \/ Finish(v) \/ Report(v)
    BY <1>1, <2>2, EntryIsForOpen DEF WriteAttachments, SendAlert, Finish, Report
  <2> QED
    BY <1>3, <2>1, <2>2 DEF Work
<1> QED
  BY <1>1, <1>2, <1>3 DEF Next, vars

\* All that a closed worklog is still given is the answer of the trigger, for
\* any number of emails and tries and whatever fails.
THEOREM OnlyAnswersComeLate == Spec => OnlyAnswerIsLate
<1>1. IInv /\ [Next]_vars => OnlyAnswer
  BY LateStep
<1>2. OnlyAnswer <=> \A w \in Log : worklog[w] = "closed" =>
                       entries'[w] \subseteq entries[w] \cup {"response"}
  BY DEF OnlyAnswer
<1> QED
  BY <1>1, <1>2, Invariance, PTL DEF Spec, OnlyAnswerIsLate

\* Every variable keeps the values the code can give it; no task is tried
\* more often than Airflow tries it.
THEOREM TypeCorrect == Spec => []TypeOK
<1>1. IInv => TypeOK
  BY DEF IInv
<1> QED
  BY <1>1, Invariance, PTL

\* For any number of emails and tries, and whatever fails, a closed worklog
\* tells what became of its email.
THEOREM ClosedIsTold == Spec => []ClosedTellsOutcome
<1>1. IInv => ClosedTellsOutcome
  BY DEF IInv
<1> QED
  BY <1>1, Invariance, PTL

\* A green run of process_email_alerts has sent its alert, or said that none
\* of its rules applies.
THEOREM GreenHasSent == Spec => []GreenIsSent
<1>1. IInv => GreenIsSent
  BY DEF IInv, WrittenIsTold, GreenIsSent
<1> QED
  BY <1>1, Invariance, PTL
=============================================================================
