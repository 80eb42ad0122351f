--------------------------- MODULE MaintenanceProofs ---------------------------
(***************************************************************************)
(* Theorems about MaintenanceMode, for any number of change requests,      *)
(* emails, workers, tries and faults.                                      *)
(***************************************************************************)
EXTENDS MaintenanceMode, TLAPS

\* A workflow was triggered by a try of its run.
Numbered == \A m \in Mail : warming[m] \subseteq 0 .. tries[m]

\* Before a try has triggered its workflow, it has none and reached nobody.
NotYetWarming ==
  \A m \in Mail : pc[m] \in {"new", "api", "told", "found"} =>
    tries[m] \notin warming[m] /\ reached[m] = {}

\* The window of a CR that was disabled, and not enabled again, is over.
StoppedIsOver == \A m \in stopped : cr[m] \notin window

FreshInv == TypeOK /\ Numbered /\ NotYetWarming /\ StoppedIsOver /\ WarmedIsFresh

\* Runs on one CR that the code does not excuse are never two at once.
Alone ==
  \A m, n \in Mail :
    Unfinished(m) /\ Unfinished(n) /\ cr[m] = cr[n] /\ cr[m] \notin excused => m = n

\* A window has its tracker, or the run that will set it.
WindowTracked ==
  \A c \in window \ excused :
    c \in tracker \/ \E m \in Mail : action[m] = "enable" /\ cr[m] = c /\ Unfinished(m)

\* A disable that the API took has ended the window.
DisableEndsWindow ==
  \A m \in Mail :
    action[m] = "disable" /\ pc[m] \in {"told", "found", "warmed"} /\ cr[m] \notin excused =>
      cr[m] \notin window

\* What is owed has its tracker, and a disable that has not come to warm.
OwedIsHeld ==
  \A c \in owed \ excused :
    /\ c \in tracker
    /\ \E m \in Mail :
         /\ action[m] = "disable" /\ cr[m] = c /\ Unfinished(m)
         /\ pc[m] # "warmed"

OwedInv == TypeOK /\ Alone /\ WindowTracked /\ DisableEndsWindow /\ OwedIsHeld

-----------------------------------------------------------------------------
\* Init gives every variable a value of its type.
LEMMA InitType == Init => TypeOK
<1> SUFFICES ASSUME Init PROVE TypeOK
  OBVIOUS
<1>1. 0 \in 0 .. MaxTries - 1 /\ 0 \in 0 .. MaxFaults
  BY SizesAssumption, SMT
<1> QED
  BY <1>1, Zenon DEF Init, TypeOK

\* Every step keeps the types.
LEMMA NextType == TypeOK /\ [Next]_vars => TypeOK'
<1> SUFFICES ASSUME TypeOK, [Next]_vars PROVE TypeOK'
  OBVIOUS
<1> USE SizesAssumption
<1>1. CASE UNCHANGED vars
  BY <1>1, SMT DEF vars, world, runs, warms, history, TypeOK
<1>2. ASSUME NEW w \in Worker, Load(w) PROVE TypeOK'
  BY <1>2, SMT DEF Load, runs, warms, history, TypeOK
<1>3. ASSUME NEW c \in Cr, WindowEnds(c) PROVE TypeOK'
  BY <1>3, SMT DEF WindowEnds, runs, warms, history, TypeOK
<1>4. ASSUME NEW c \in Cr, TrackerExpires(c) PROVE TypeOK'
  BY <1>4, SMT DEF TrackerExpires, runs, warms, TypeOK
<1>5. ASSUME NEW m \in Mail, WarmDone(m) PROVE TypeOK'
  BY <1>5, SMT DEF WarmDone, world, runs, history, TypeOK
<1>6. ASSUME NEW m \in Mail, NEW w \in Worker, WarmCall(m, w) PROVE TypeOK'
  BY <1>6, SMT DEF WarmCall, runs, history, TypeOK
<1>7. ASSUME NEW m \in Mail, RunStep(m) PROVE TypeOK'
  <2>1. CASE Parse(m)
    BY <2>1, SMT DEF Parse, Goes, RestUnchanged, world, warms, TypeOK
  <2>2. CASE CallApi(m)
    <3>1. ASSUME Takes(m)
          PROVE  window' \subseteq Cr /\ stopped' \subseteq Mail /\ owed' \subseteq Cr
      BY <3>1, SMT DEF Takes, TypeOK
    <3>2. CASE CallSucceeds(m)
      BY <3>1, <3>2, SMT DEF CallSucceeds, Goes, RestUnchanged, warms, TypeOK
    <3>3. CASE CallFails(m)
      BY <3>1, <3>3, SMT DEF CallFails, Faulty, Goes, RestUnchanged, warms, TypeOK
    <3> QED
      BY <2>2, <3>2, <3>3 DEF CallApi
  <2>3. CASE TriggerOnEnable(m)
    BY <2>3, SMT DEF TriggerOnEnable, Triggered, Faulty, RestUnchanged, world, TypeOK
  <2>4. CASE SetTracker(m)
    BY <2>4, SMT DEF SetTracker, Faulty, Goes, RestUnchanged, warms, TypeOK
  <2>5. CASE CheckTracker(m)
    BY <2>5, SMT DEF CheckTracker, Finds, Faulty, RestUnchanged, warms, TypeOK
  <2>6. CASE TriggerOnDisable(m)
    BY <2>6, SMT DEF TriggerOnDisable, Triggered, Faulty, RestUnchanged, world, TypeOK
  <2>7. CASE DeleteTracker(m)
    BY <2>7, SMT DEF DeleteTracker, Faulty, Goes, RestUnchanged, warms, history, TypeOK
  <2>8. CASE Break(m)
    BY <2>8, SMT DEF Break, Faulty, RestUnchanged, world, warms, TypeOK
  <2>9. CASE Die(m)
    BY <2>9, SMT DEF Die, Faulty, world, TypeOK
  <2> QED
    BY <1>7, <2>1, <2>2, <2>3, <2>4, <2>5, <2>6, <2>7, <2>8, <2>9 DEF RunStep
<1> QED
  BY <1>1, <1>2, <1>3, <1>4, <1>5, <1>6, <1>7 DEF Next

\* Every variable keeps the values that the code can give it.
THEOREM TypeCorrect == Spec => []TypeOK
  BY InitType, NextType, PTL DEF Spec

-----------------------------------------------------------------------------
\* Nothing was stopped, warmed or owed at the start.
LEMMA InitFresh == Init => FreshInv
<1> SUFFICES ASSUME Init PROVE FreshInv
  OBVIOUS
<1>1. TypeOK
  BY InitType
<1>2. Numbered /\ NotYetWarming
  BY Zenon DEF Init, Numbered, NotYetWarming
<1>3. StoppedIsOver /\ WarmedIsFresh
  BY Zenon DEF Init, StoppedIsOver, WarmedIsFresh
<1> QED
  BY <1>1, <1>2, <1>3 DEF FreshInv

\* A step numbers what it starts, and has reached nobody before.
LEMMA NextWarming ==
  FreshInv /\ TypeOK' /\ [Next]_vars => Numbered' /\ NotYetWarming'
<1> SUFFICES ASSUME FreshInv, TypeOK', [Next]_vars PROVE Numbered' /\ NotYetWarming'
  OBVIOUS
<1> USE DEF FreshInv
<1>1. CASE UNCHANGED <<pc, tries, warming, reached>>
  BY <1>1, SMT DEF Numbered, NotYetWarming
<1>2. CASE UNCHANGED vars
  BY <1>1, <1>2, Zenon DEF vars, runs, warms
<1>3. ASSUME NEW w \in Worker, Load(w) PROVE Numbered' /\ NotYetWarming'
  BY <1>1, <1>3, Zenon DEF Load, runs, warms
<1>4. ASSUME NEW c \in Cr, WindowEnds(c) \/ TrackerExpires(c) PROVE Numbered' /\ NotYetWarming'
  BY <1>1, <1>4, Zenon DEF WindowEnds, TrackerExpires, runs, warms
<1>5. ASSUME NEW m \in Mail, WarmDone(m) PROVE Numbered' /\ NotYetWarming'
  BY <1>5, SMT DEF WarmDone, runs, Numbered, NotYetWarming, TypeOK
<1>6. ASSUME NEW m \in Mail, NEW w \in Worker, WarmCall(m, w) PROVE Numbered' /\ NotYetWarming'
  BY <1>6, SMT DEF WarmCall, runs, Numbered, NotYetWarming, TypeOK
<1>7. ASSUME NEW m \in Mail, RunStep(m) PROVE Numbered' /\ NotYetWarming'
  <2>1. CASE /\ UNCHANGED <<tries, warming, reached>>
             /\ \A n \in Mail \ {m} : pc'[n] = pc[n]
             /\ pc[m] \in {"new", "api", "told", "found"} \/ pc'[m] = "done"
    BY <2>1, SMT DEF Numbered, NotYetWarming
  <2>2. CASE Parse(m)
    BY <2>1, <2>2, SMT DEF Parse, Goes, RestUnchanged, warms, TypeOK
  <2>3. CASE CallApi(m)
    BY <2>1, <2>3, SMT DEF CallApi, CallSucceeds, CallFails, Goes, RestUnchanged, warms, TypeOK
  <2>4. CASE TriggerOnEnable(m) \/ TriggerOnDisable(m)
    <3>1. /\ UNCHANGED <<tries, reached>>
          /\ \A n \in Mail \ {m} : pc'[n] = pc[n] /\ warming'[n] = warming[n]
          /\ pc'[m] \in {"warmed", "done"}
          /\ warming'[m] \subseteq warming[m] \cup {tries[m]}
      BY <2>4, SMT DEF TriggerOnEnable, TriggerOnDisable, Triggered, RestUnchanged, TypeOK
    <3>2. \A n \in Mail : tries[n] \in 0 .. tries[n]
      BY SizesAssumption, SMT DEF TypeOK
    <3> QED
      BY <3>1, <3>2, SMT DEF Numbered, NotYetWarming
  <2>5. CASE SetTracker(m) \/ DeleteTracker(m)
    BY <2>1, <2>5, SMT DEF SetTracker, DeleteTracker, Goes, RestUnchanged, warms, TypeOK
  <2>6. CASE CheckTracker(m)
    BY <2>1, <2>6, SMT DEF CheckTracker, RestUnchanged, warms, TypeOK
  <2>7. CASE Break(m)
    BY <2>1, <2>7, SMT DEF Break, RestUnchanged, warms, TypeOK
  <2>8. CASE Die(m)
    <3>1. CASE tries[m] + 1 < MaxTries
      <4>1. /\ warming' = warming
            /\ \A n \in Mail \ {m} : pc'[n] = pc[n] /\ tries'[n] = tries[n] /\ reached'[n] = reached[n]
            /\ tries'[m] = tries[m] + 1 /\ reached'[m] = {}
        BY <2>8, <3>1, SizesAssumption, SMT DEF Die, TypeOK
      <4>2. tries[m] \in Nat
        BY SizesAssumption, SMT DEF TypeOK
      <4>3. 0 .. tries[m] \subseteq 0 .. tries'[m] /\ tries'[m] \notin 0 .. tries[m]
        BY <4>1, <4>2, SMT
      <4> QED
        BY <4>1, <4>3, SMT DEF Numbered, NotYetWarming
    <3>2. CASE tries[m] + 1 = MaxTries
      <4>1. /\ UNCHANGED <<tries, warming, reached>>
            /\ pc' = [pc EXCEPT ![m] = "failed"]
        BY <2>8, <3>2, SizesAssumption, SMT DEF Die, TypeOK
      <4> QED
        BY <4>1, SMT DEF Numbered, NotYetWarming, TypeOK
    <3> QED
      BY <2>8, <3>1, <3>2 DEF Die
  <2> QED
    BY <1>7, <2>2, <2>3, <2>4, <2>5, <2>6, <2>7, <2>8 DEF RunStep
<1> QED
  BY <1>2, <1>3, <1>4, <1>5, <1>6, <1>7 DEF Next

\* A step keeps the windows and caches of what was disabled free of it.
LEMMA NextStopped ==
  FreshInv /\ TypeOK' /\ [Next]_vars => StoppedIsOver' /\ WarmedIsFresh'
<1> SUFFICES ASSUME FreshInv, TypeOK', [Next]_vars PROVE StoppedIsOver' /\ WarmedIsFresh'
  OBVIOUS
<1> USE DEF FreshInv
<1>1. CASE /\ UNCHANGED <<cr, window, stopped, cache>>
           /\ \A n \in Mail : reached'[n] \subseteq reached[n]
  BY <1>1, SMT DEF StoppedIsOver, WarmedIsFresh, TypeOK
<1>2. CASE UNCHANGED vars
  BY <1>1, <1>2, SMT DEF vars, world, warms, history
<1>3. ASSUME NEW w \in Worker, Load(w) PROVE StoppedIsOver' /\ WarmedIsFresh'
  BY <1>3, SMT DEF Load, warms, history, StoppedIsOver, WarmedIsFresh, TypeOK
<1>4. ASSUME NEW c \in Cr, WindowEnds(c) PROVE StoppedIsOver' /\ WarmedIsFresh'
  BY <1>4, SMT DEF WindowEnds, warms, history, StoppedIsOver, WarmedIsFresh, TypeOK
<1>5. ASSUME NEW c \in Cr, TrackerExpires(c) PROVE StoppedIsOver' /\ WarmedIsFresh'
  BY <1>1, <1>5, SMT DEF TrackerExpires, warms
<1>6. ASSUME NEW m \in Mail, WarmDone(m) PROVE StoppedIsOver' /\ WarmedIsFresh'
  BY <1>1, <1>6, SMT DEF WarmDone, world, history
<1>7. ASSUME NEW m \in Mail, NEW w \in Worker, WarmCall(m, w) PROVE StoppedIsOver' /\ WarmedIsFresh'
  BY <1>7, SMT DEF WarmCall, history, StoppedIsOver, WarmedIsFresh, TypeOK
<1>8. ASSUME NEW m \in Mail, RunStep(m) PROVE StoppedIsOver' /\ WarmedIsFresh'
  <2>1. CASE CallApi(m)
    <3>1. pc[m] = "api" /\ UNCHANGED <<cr, cache, reached>>
      BY <2>1 DEF CallApi, CallSucceeds, CallFails, Goes, RestUnchanged, warms
    <3>2. reached[m] = {}
      BY <3>1 DEF NotYetWarming
    <3>3. CASE UNCHANGED <<window, stopped>>
      BY <3>1, <3>3, SMT DEF StoppedIsOver, WarmedIsFresh
    <3>4. CASE Takes(m)
      BY <3>1, <3>2, <3>4, SMT DEF Takes, StoppedIsOver, WarmedIsFresh, TypeOK
    <3> QED
      BY <2>1, <3>3, <3>4 DEF CallApi, CallSucceeds, CallFails
  <2>2. CASE Die(m)
    BY <1>1, <2>2, SMT DEF Die, world, TypeOK
  <2>3. CASE Parse(m) \/ TriggerOnEnable(m) \/ TriggerOnDisable(m) \/ Break(m)
    BY <1>1, <2>3, SMT DEF Parse, TriggerOnEnable, TriggerOnDisable, Break, world, warms, RestUnchanged
  <2>4. CASE SetTracker(m) \/ CheckTracker(m) \/ DeleteTracker(m)
    BY <1>1, <2>4, SMT DEF SetTracker, CheckTracker, DeleteTracker, warms, history, RestUnchanged
  <2> QED
    BY <1>8, <2>1, <2>2, <2>3, <2>4 DEF RunStep
<1> QED
  BY <1>2, <1>3, <1>4, <1>5, <1>6, <1>7, <1>8 DEF Next

\* A worker that the warming of a disable has reached does not suppress the
\* alerts of that CR, unless it was enabled again.
THEOREM WarmingIsFresh == Spec => []WarmedIsFresh
<1>1. FreshInv /\ [Next]_vars => FreshInv'
  <2> SUFFICES ASSUME FreshInv, [Next]_vars PROVE FreshInv'
    OBVIOUS
  <2>1. TypeOK'
    BY NextType DEF FreshInv
  <2> QED
    BY <2>1, NextWarming, NextStopped DEF FreshInv
<1>2. FreshInv => WarmedIsFresh
  BY DEF FreshInv
<1> QED
  BY <1>1, <1>2, InitFresh, PTL DEF Spec

-----------------------------------------------------------------------------
\* Nothing was owed at the start.
LEMMA InitOwed == Init => OwedInv
<1> SUFFICES ASSUME Init PROVE OwedInv
  OBVIOUS
<1>1. TypeOK
  BY InitType
<1>2. \A m \in Mail : ~Unfinished(m)
  BY SMT DEF Init, Unfinished, Active
<1>3. Alone /\ WindowTracked
  BY <1>2, Zenon DEF Init, Alone, WindowTracked
<1>4. DisableEndsWindow /\ OwedIsHeld
  BY Zenon DEF Init, DisableEndsWindow, OwedIsHeld
<1> QED
  BY <1>1, <1>3, <1>4 DEF OwedInv

\* What a step of a run leaves alone, whatever it is.
LEMMA StepFrame ==
  ASSUME TypeOK, NEW m \in Mail, RunStep(m)
  PROVE  /\ UNCHANGED <<action, cr>>
         /\ excused \subseteq excused'
         /\ \A n \in Mail \ {m} : pc'[n] = pc[n] /\ tries'[n] = tries[n]
         /\ Parse(m) \/ Active(m)
<1>1. CASE Parse(m)
  BY <1>1, SMT DEF Parse, Goes, RestUnchanged, TypeOK
<1>2. CASE CallApi(m)
  BY <1>2, SMT DEF CallApi, CallSucceeds, CallFails, Goes, RestUnchanged, TypeOK, Active
<1>3. CASE TriggerOnEnable(m) \/ TriggerOnDisable(m)
  BY <1>3, SMT DEF TriggerOnEnable, TriggerOnDisable, RestUnchanged, TypeOK, Active
<1>4. CASE SetTracker(m) \/ DeleteTracker(m)
  BY <1>4, SMT DEF SetTracker, DeleteTracker, history, Goes, RestUnchanged, TypeOK, Active
<1>5. CASE CheckTracker(m) \/ Break(m)
  BY <1>5, SMT DEF CheckTracker, Break, RestUnchanged, TypeOK, Active
<1>6. CASE Die(m)
  BY <1>6, SMT DEF Die, TypeOK
<1> QED
  BY <1>1, <1>2, <1>3, <1>4, <1>5, <1>6 DEF RunStep

\* The other runs go on as they were.
LEMMA OthersStay ==
  ASSUME TypeOK, NEW m \in Mail, RunStep(m), NEW n \in Mail, n # m
  PROVE  Unfinished(n)' <=> Unfinished(n)
<1>1. pc'[n] = pc[n] /\ tries'[n] = tries[n]
  BY StepFrame
<1> QED
  BY <1>1, SMT DEF Unfinished, Active

\* A run that begins next to another on its CR has the CR excused.
LEMMA NextAlone == ASSUME OwedInv, NEW m \in Mail, RunStep(m) PROVE Alone'
<1> USE DEF OwedInv
<1>1. UNCHANGED cr /\ excused \subseteq excused'
  BY StepFrame
<1>2. CASE Active(m)
  <2>1. \A n \in Mail : Unfinished(n)' => Unfinished(n)
    BY <1>2, OthersStay DEF Unfinished
  <2> HIDE DEF Unfinished
  <2> QED
    BY <1>1, <2>1, SMT DEF Alone
<1>3. CASE Parse(m)
  <2>1. \A n \in Mail \ {m} : Unfinished(n)' <=> Unfinished(n)
    BY OthersStay
  <2>2. \/ cr[m] \in excused'
        \/ \A n \in Mail \ {m} : ~(Unfinished(n) /\ cr[n] = cr[m])
    BY <1>3 DEF Parse, Overlaps
  <2> HIDE DEF Unfinished
  <2> QED
    BY <1>1, <2>1, <2>2, SMT DEF Alone
<1> QED
  BY <1>2, <1>3, StepFrame

\* A run that was tried, or is at work, stays unfinished where it goes on.
LEMMA GoesOn ==
  ASSUME NEW m \in Mail, pc'[m] \in {"api", "told", "found", "warmed"}
  PROVE  Unfinished(m)'
  BY SMT DEF Unfinished, Active

\* An enable that does not go on has set its tracker, or its CR is excused.
LEMMA EnableGoesOn ==
  ASSUME OwedInv, TypeOK', NEW m \in Mail, RunStep(m), action[m] = "enable", Unfinished(m)
  PROVE  Unfinished(m)' \/ cr[m] \in tracker' \/ cr[m] \in excused'
<1> USE DEF OwedInv
<1>1. CASE Parse(m)
  BY <1>1, GoesOn, SMT DEF Parse, Goes, TypeOK
<1>2. CASE CallApi(m)
  BY <1>2, GoesOn, SMT DEF CallApi, CallSucceeds, CallFails, Goes, TypeOK
<1>3. CASE TriggerOnEnable(m)
  BY <1>3, GoesOn, SMT DEF TriggerOnEnable, TypeOK
<1>4. CASE SetTracker(m)
  BY <1>4, SMT DEF SetTracker
<1>5. CASE Break(m)
  BY <1>5, SMT DEF Break
<1>6. CASE Die(m)
  BY <1>6, SizesAssumption, SMT DEF Die, Unfinished, Active, TypeOK
<1>7. CASE CheckTracker(m) \/ TriggerOnDisable(m) \/ DeleteTracker(m)
  BY <1>7, SMT DEF CheckTracker, TriggerOnDisable, DeleteTracker
<1> QED
  BY <1>1, <1>2, <1>3, <1>4, <1>5, <1>6, <1>7 DEF RunStep

\* A disable that is owed the warming and does not go on is excused, or has
\* come to warm.
LEMMA DisableGoesOn ==
  ASSUME OwedInv, TypeOK', NEW m \in Mail, RunStep(m), action[m] = "disable",
         Unfinished(m), pc[m] # "warmed", cr[m] \in tracker
  PROVE  \/ Unfinished(m)' /\ pc'[m] # "warmed"
         \/ cr[m] \in excused'
         \/ cr[m] \notin owed'
<1> USE DEF OwedInv
<1>1. CASE Parse(m)
  BY <1>1, GoesOn, SMT DEF Parse, Goes, TypeOK
<1>2. CASE CallApi(m)
  BY <1>2, GoesOn, SMT DEF CallApi, CallSucceeds, CallFails, Goes, TypeOK
<1>3. CASE TriggerOnEnable(m) \/ SetTracker(m) \/ DeleteTracker(m)
  BY <1>3, SMT DEF TriggerOnEnable, SetTracker, DeleteTracker, Goes
<1>4. CASE CheckTracker(m)
  BY <1>4, GoesOn, SMT DEF CheckTracker, TypeOK
<1>5. CASE TriggerOnDisable(m)
  BY <1>5, SMT DEF TriggerOnDisable, Triggered
<1>6. CASE Break(m)
  BY <1>6, SMT DEF Break
<1>7. CASE Die(m)
  BY <1>7, SizesAssumption, SMT DEF Die, Unfinished, Active, TypeOK
<1> QED
  BY <1>1, <1>2, <1>3, <1>4, <1>5, <1>6, <1>7 DEF RunStep

\* Only an enable begins a window, and it goes on or has its CR excused.
LEMMA WindowGrows ==
  ASSUME TypeOK, NEW m \in Mail, RunStep(m), NEW c \in window', c \notin window
  PROVE  /\ action[m] = "enable" /\ cr[m] = c /\ Active(m)
         /\ Unfinished(m)' \/ c \in excused'
<1>1. CASE CallApi(m)
  BY <1>1, GoesOn, SMT DEF CallApi, CallSucceeds, CallFails, Goes, Takes, Active, TypeOK
<1>2. CASE ~CallApi(m)
  BY <1>2, SMT DEF RunStep, Parse, TriggerOnEnable, SetTracker, CheckTracker, TriggerOnDisable,
     DeleteTracker, Break, Die, world
<1> QED
  BY <1>1, <1>2

\* Only a disable deletes a tracker.
LEMMA TrackerGoes ==
  ASSUME NEW m \in Mail, RunStep(m), NEW c \in tracker, c \notin tracker'
  PROVE  action[m] = "disable" /\ cr[m] = c /\ pc[m] = "warmed" /\ UNCHANGED <<window, owed, excused>>
<1>1. CASE DeleteTracker(m)
  BY <1>1, SMT DEF DeleteTracker, Goes, history
<1>2. CASE ~DeleteTracker(m)
  BY <1>2, SMT DEF RunStep, Parse, CallApi, CallSucceeds, CallFails, TriggerOnEnable, SetTracker,
     CheckTracker, Finds, TriggerOnDisable, Break, Die, world
<1> QED
  BY <1>1, <1>2

\* Only a disable whose window was open makes it owed.
LEMMA OwedGrows ==
  ASSUME TypeOK, NEW m \in Mail, RunStep(m), NEW c \in owed', c \notin owed, c \notin excused'
  PROVE  /\ action[m] = "disable" /\ cr[m] = c /\ c \in window /\ Active(m)
         /\ pc'[m] = "told" /\ tracker' = tracker
<1>1. CASE CallApi(m)
  BY <1>1, SMT DEF CallApi, CallSucceeds, CallFails, Goes, Takes, Active, TypeOK
<1>2. CASE ~CallApi(m)
  BY <1>2, SMT DEF RunStep, Parse, TriggerOnEnable, SetTracker, CheckTracker, TriggerOnDisable,
     DeleteTracker, Break, Die, Triggered, world, history
<1> QED
  BY <1>1, <1>2

\* A step of a run leaves no window without its tracker.
LEMMA NextTracked ==
  ASSUME OwedInv, TypeOK', NEW m \in Mail, RunStep(m)
  PROVE  WindowTracked'
<1> SUFFICES ASSUME NEW c \in window', c \notin excused', c \notin tracker'
             PROVE  \E n \in Mail : action[n] = "enable" /\ cr[n] = c /\ Unfinished(n)'
  BY StepFrame DEF WindowTracked, OwedInv
<1> USE DEF OwedInv
<1>1. c \notin excused
  BY StepFrame
<1>2. CASE c \notin window
  BY <1>2, WindowGrows
<1>3. CASE c \in window
  <2>1. c \notin tracker
    <3> SUFFICES ASSUME c \in tracker PROVE FALSE
      OBVIOUS
    <3> QED
      BY <1>1, <1>3, TrackerGoes, SMT DEF DisableEndsWindow
  <2>2. PICK n \in Mail : action[n] = "enable" /\ cr[n] = c /\ Unfinished(n)
    BY <1>1, <1>3, <2>1 DEF WindowTracked
  <2>3. Unfinished(n)'
    <3>1. CASE n = m
      BY <2>2, <3>1, EnableGoesOn
    <3>2. CASE n # m
      BY <2>2, <3>2, OthersStay
    <3> QED
      BY <3>1, <3>2
  <2> QED
    BY <2>2, <2>3
<1> QED
  BY <1>2, <1>3

\* A step of a run does not open the window that a disable has ended.
LEMMA NextEnds ==
  ASSUME OwedInv, TypeOK', NEW m \in Mail, RunStep(m)
  PROVE  DisableEndsWindow'
<1> SUFFICES ASSUME NEW n \in Mail, action[n] = "disable",
                    pc'[n] \in {"told", "found", "warmed"}, cr[n] \notin excused'
             PROVE  cr[n] \notin window'
  BY StepFrame DEF DisableEndsWindow, OwedInv
<1> USE DEF OwedInv
<1>1. cr[n] \notin excused
  BY StepFrame
<1>2. ASSUME cr[n] \in window', cr[n] \notin window
      PROVE  FALSE
  <2>1. action[m] = "enable" /\ cr[m] = cr[n] /\ Unfinished(m)
    BY <1>2, WindowGrows DEF Unfinished
  <2>2. pc[n] = pc'[n] /\ n # m
    BY <2>1, StepFrame
  <2>3. Unfinished(n)
    BY <2>2, SMT DEF Unfinished, Active
  <2> QED
    BY <1>1, <2>1, <2>2, <2>3 DEF Alone
<1>3. ASSUME cr[n] \in window'
      PROVE  FALSE
  <2>1. cr[n] \in window
    BY <1>2, <1>3
  <2>2. pc[n] \notin {"told", "found", "warmed"}
    BY <1>1, <2>1 DEF DisableEndsWindow
  <2>3. n = m
    BY <2>2, StepFrame
  <2>4. CASE CallApi(m)
    BY <1>3, <2>3, <2>4, SMT DEF CallApi, CallSucceeds, CallFails, Takes, Goes, TypeOK
  <2>5. CASE ~CallApi(m)
    BY <2>2, <2>3, <2>5, SMT DEF RunStep, Parse, TriggerOnEnable, SetTracker, CheckTracker,
       TriggerOnDisable, DeleteTracker, Break, Die, Goes, TypeOK
  <2> QED
    BY <2>4, <2>5
<1> QED
  BY <1>3

\* A step of a run leaves nothing owed without its tracker and its disable.
LEMMA NextHeld ==
  ASSUME OwedInv, TypeOK', NEW m \in Mail, RunStep(m)
  PROVE  OwedIsHeld'
<1> DEFINE Holds(n, c) == action[n] = "disable" /\ cr[n] = c /\ Unfinished(n) /\ pc[n] # "warmed"
<1> SUFFICES ASSUME NEW c \in owed', c \notin excused'
             PROVE  c \in tracker' /\ \E n \in Mail : Holds(n, c)'
  BY Zenon DEF OwedIsHeld
<1> USE DEF OwedInv
<1>1. c \notin excused /\ UNCHANGED <<action, cr>>
  BY StepFrame
<1>2. CASE c \notin owed
  <2>1. /\ action[m] = "disable" /\ cr[m] = c /\ c \in window /\ Unfinished(m)
        /\ pc'[m] = "told" /\ tracker' = tracker
    BY <1>2, OwedGrows DEF Unfinished
  <2>2. \A n \in Mail : action[n] = "enable" /\ cr[n] = c => ~Unfinished(n)
    BY <1>1, <2>1 DEF Alone
  <2>3. c \in tracker
    BY <1>1, <2>1, <2>2 DEF WindowTracked
  <2>4. Unfinished(m)'
    BY <2>1, GoesOn
  <2> QED
    BY <1>1, <2>1, <2>3, <2>4
<1>3. CASE c \in owed
  <2>1. PICK n \in Mail : Holds(n, c)
    BY <1>1, <1>3 DEF OwedIsHeld
  <2>2. c \in tracker
    BY <1>1, <1>3 DEF OwedIsHeld
  <2>3. c \in tracker'
    <3> SUFFICES ASSUME c \notin tracker' PROVE FALSE
      OBVIOUS
    <3>1. cr[m] = c /\ pc[m] = "warmed"
      BY <2>2, TrackerGoes
    <3>2. Unfinished(m)
      BY <3>1 DEF Unfinished, Active
    <3> QED
      BY <1>1, <2>1, <3>1, <3>2 DEF Alone
  <2>4. Holds(n, c)'
    <3>1. CASE n = m
      BY <1>1, <2>1, <2>2, <3>1, DisableGoesOn
    <3>2. CASE n # m
      BY <1>1, <2>1, <3>2, OthersStay, StepFrame
    <3> QED
      BY <3>1, <3>2
  <2> QED
    BY <2>3, <2>4
<1> QED
  BY <1>2, <1>3

\* What does no step of a run keeps the invariant of what is owed.
LEMMA NextElse ==
  ASSUME OwedInv, TypeOK',
         UNCHANGED <<action, cr, pc, tries, owed>>,
         excused \subseteq excused', window' \subseteq window,
         \A d \in tracker : d \in tracker' \/ d \in excused' \/ d \notin window \cup owed
  PROVE  OwedInv'
<1> USE DEF OwedInv
<1>1. \A m \in Mail : Unfinished(m)' <=> Unfinished(m)
  BY DEF Unfinished, Active
<1> HIDE DEF Unfinished
<1>2. Alone'
  BY <1>1, SMT DEF Alone
<1>3. WindowTracked' /\ DisableEndsWindow'
  BY <1>1, SMT DEF WindowTracked, DisableEndsWindow
<1>4. OwedIsHeld'
  BY <1>1, SMT DEF OwedIsHeld
<1> QED
  BY <1>2, <1>3, <1>4

\* Every step keeps it.
LEMMA NextOwed == OwedInv /\ [Next]_vars => OwedInv'
<1> SUFFICES ASSUME OwedInv, [Next]_vars PROVE OwedInv'
  OBVIOUS
<1>1. TypeOK'
  BY NextType DEF OwedInv
<1>2. CASE UNCHANGED <<action, cr, pc, tries, window, tracker, owed, excused>>
  BY <1>1, <1>2, NextElse
<1>3. ASSUME NEW m \in Mail, RunStep(m) PROVE OwedInv'
  BY <1>1, <1>3, NextAlone, NextTracked, NextEnds, NextHeld DEF OwedInv
<1>4. ASSUME NEW c \in Cr, WindowEnds(c) \/ TrackerExpires(c) PROVE OwedInv'
  <2>1. /\ UNCHANGED <<action, cr, pc, tries, owed>>
        /\ excused \subseteq excused' /\ window' \subseteq window
        /\ \A d \in tracker : d \in tracker' \/ d \in excused' \/ d \notin window \cup owed
    BY <1>4, SMT DEF WindowEnds, TrackerExpires, runs, history
  <2> QED
    BY <1>1, <2>1, NextElse
<1>5. ASSUME NEW w \in Worker, Load(w) PROVE OwedInv'
  BY <1>2, <1>5, Zenon DEF Load, runs, history
<1>6. ASSUME NEW m \in Mail, WarmDone(m) PROVE OwedInv'
  BY <1>2, <1>6, Zenon DEF WarmDone, world, runs, history
<1>7. ASSUME NEW m \in Mail, NEW w \in Worker, WarmCall(m, w) PROVE OwedInv'
  BY <1>2, <1>7, Zenon DEF WarmCall, runs, history
<1>8. CASE UNCHANGED vars
  BY <1>2, <1>8, Zenon DEF vars, world, runs, history
<1> QED
  BY <1>3, <1>4, <1>5, <1>6, <1>7, <1>8 DEF Next

\* No run that dies, at any point, and is tried again loses the warming of the
\* caches: it is owed only as long as a run on the CR is unfinished.
THEOREM DisableWarms == Spec => []DisableIsWarmed
<1>1. OwedInv => DisableIsWarmed
  BY DEF OwedInv, OwedIsHeld, DisableIsWarmed
<1> QED
  BY <1>1, InitOwed, NextOwed, PTL DEF Spec
===============================================================================
