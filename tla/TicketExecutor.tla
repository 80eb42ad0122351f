--------------------------- MODULE TicketExecutor ---------------------------
(***************************************************************************)
(* The ticket automation executor, src/plugins/helpers/                    *)
(* ticket_automation_executor.py.                                          *)
(*                                                                         *)
(* Each member of Run is one execution of run_once.  Executions may        *)
(* overlap, be cut short at any point (an exception that leaves run_once,  *)
(* or the death of the worker) and start again from the first ticket.      *)
(* They share the automation store (status, plan, context, effect,         *)
(* receipt) and act on the ticket system, on IAM and on the notifier       *)
(* (performed), while operators edit the tickets (fit).                    *)
(*                                                                         *)
(* One step is one call to the store or to an outside service together     *)
(* with the local code up to the next such call, so that executions        *)
(* interleave wherever the program can be preempted.  The recipe is        *)
(* abstracted to the plans it offers: whether a plan has a read action     *)
(* (Lookups) and the sequence of its write actions (Writes).               *)
(***************************************************************************)
EXTENDS Integers, Sequences

CONSTANTS Run,             \* executions of run_once
          NTickets,        \* tickets of the assigned group, in sys_id order
          PageSize,        \* tickets in a page of a search (100 in the code)
          MaxReadFailures, \* unavailable lookups in a row ending a run (3)
          MaxAborts,       \* bound: executions cut short before their end
          Plan,            \* plan names of the pinned recipe
          Lookups,         \* the plans that have a read action
          Action,          \* registered write actions
          Writes,          \* Writes[p]: the write actions of p, in order
          Context,         \* what a lookup can return
          Outcome,         \* outcomes a receipt can carry
          Rule,            \* <<action, outcome>> -> outputs; empty: no rules
          DefaultOutputs,  \* the recipe's outputs, used when it has no rules
          Mode,            \* switches a run can have: "live", "outputs", "stub"
          Approved,        \* Approved[m]: tickets that may be answered in m
          Ambiguous,       \* tickets with conflicting identities
          LacksFacts       \* tickets without a fact the lookup requires

Ticket == 1 .. NTickets
Output == {"ticket_note", "email"}
NoTicket  == 0
NoPlan    == "no plan"
NoContext == "no context"
NoReceipt == "no receipt"

ASSUME SizesAssumption ==
  /\ NTickets \in Nat
  /\ PageSize \in Nat \ {0}
  /\ MaxReadFailures \in Nat \ {0}
  /\ MaxAborts \in Nat

ASSUME RecipeAssumption ==
  /\ Lookups \subseteq Plan
  /\ Writes \in [Plan -> Seq(Action)]
  /\ NoPlan \notin Plan
  /\ NoContext \notin Context
  /\ NoReceipt \notin Outcome
  /\ Action \cap Output = {}
  /\ DefaultOutputs \subseteq Output
  /\ Rule \in [DOMAIN Rule -> SUBSET Output]

ASSUME SwitchesAssumption ==
  /\ Mode \subseteq {"live", "outputs", "stub"}
  /\ Approved \in [Mode -> SUBSET Ticket]
  /\ Ambiguous \subseteq Ticket
  /\ LacksFacts \subseteq Ticket

-----------------------------------------------------------------------------
VARIABLES
  status,     \* store: status of a ticket's row
  plan,       \* store: selected_plan
  context,    \* store: action_context
  effect,     \* store: the effect ledger, by effect key
  receipt,    \* store: receipt outcome of a succeeded effect
  fit,        \* ticket system: eligible and identity as ingested
  performed,  \* world: how often an effect really took place
  pc,         \* run: where it stands
  mode,       \* run: its live_writes / output_writes switches
  cursor,     \* run: last ticket of the current page
  page,       \* run: eligible tickets of the page still to be taken
  tkt,        \* run: the ticket in hand
  choice,     \* run: the plan it follows
  ctx,        \* run: the context it acts on
  todo,       \* run: effects still to apply to the ticket in hand
  answering,  \* run: past the write actions, applying the outputs
  result,     \* run: how the effect it holds ended
  fails,      \* run: consecutive_read_failures
  aborts      \* bound: executions cut short so far

store == <<status, plan, context, effect, receipt>>
world == <<fit, performed>>
scan  == <<mode, cursor, page, fails>>
work  == <<tkt, choice, ctx, todo, answering, result>>
vars  == <<store, world, pc, scan, work, aborts>>

EffectStatus == {"absent", "claimed", "succeeded", "outcome_unknown",
                 "definitely_failed"}
Finished == {"succeeded", "outcome_unknown", "definitely_failed"}
Terminal == {"complete", "manual_review"}

\* effect_key('snow', sid, action, target, stub): an output's target is its
\* template, marked ":iam_stub" when only outputs are live.
Key == [ticket : Ticket, effect : Action \cup Output,
        target : Context \cup {NoContext} \cup Mode, live : BOOLEAN]

KeyOf(t, e, c, m) ==
  [ticket |-> t, effect |-> e, target |-> IF e \in Output THEN m ELSE c,
   live |-> m = "live"]

\* deliver_outputs for an output, iam_live_writes for a write action.
Delivers(e, m) == IF e \in Output THEN m # "stub" ELSE m = "live"

\* The effects that act on the world when they succeed.
DeliveredKey == {k \in Key : IF k.effect \in Output THEN k.target # "stub"
                                                    ELSE k.live}

HeldKey(r) == KeyOf(tkt[r], Head(todo[r]), ctx[r], mode[r])

\* An effect's outcome as select_output_policy sees it.
OutcomeOf(r, a) == receipt[KeyOf(tkt[r], a, ctx[r], mode[r])]

\* select_output_policy: the outputs of the last action that has a rule for
\* its outcome, if there is one; a recipe without rules gives its own outputs.
OutputPolicy(r) ==
  LET w == Writes[choice[r]]
      At(i) == IF i = 0 THEN <<"lookup", "found">>
                        ELSE <<w[i], OutcomeOf(r, w[i])>>
      hits == {i \in 0 .. Len(w) :
                 /\ i = 0 => choice[r] \in Lookups
                 /\ At(i) \in DOMAIN Rule}
  IN  IF DOMAIN Rule = {}
        THEN {DefaultOutputs}
        ELSE {Rule[At(i)] : i \in {j \in hits : \A k \in hits : k <= j}}

\* Mutant: the email is sent before the note is written.
MailFirst(outs) ==
  (IF "email" \in outs THEN <<"email">> ELSE <<>>)
  \o (IF "ticket_note" \in outs THEN <<"ticket_note">> ELSE <<>>)

\* The note is written before the email is sent.
InOrder(outs) ==
  (IF "ticket_note" \in outs THEN <<"ticket_note">> ELSE <<>>)
  \o (IF "email" \in outs THEN <<"email">> ELSE <<>>)

-----------------------------------------------------------------------------
Init ==
  /\ status = [t \in Ticket |-> "absent"]
  /\ plan = [t \in Ticket |-> NoPlan]
  /\ context = [t \in Ticket |-> NoContext]
  /\ effect = [k \in Key |-> "absent"]
  /\ receipt = [k \in Key |-> NoReceipt]
  /\ fit \in [Ticket -> BOOLEAN]
  /\ performed = [k \in Key |-> 0]
  /\ pc = [r \in Run |-> "idle"]
  /\ mode \in [Run -> Mode]
  /\ cursor = [r \in Run |-> 0]
  /\ page = [r \in Run |-> {}]
  /\ fails = [r \in Run |-> 0]
  /\ tkt = [r \in Run |-> NoTicket]
  /\ choice = [r \in Run |-> NoPlan]
  /\ ctx = [r \in Run |-> NoContext]
  /\ todo = [r \in Run |-> <<>>]
  /\ answering = [r \in Run |-> FALSE]
  /\ result = [r \in Run |-> "absent"]
  /\ aborts = 0

At(r, here) == pc[r] = here
Goto(r, there) == pc' = [pc EXCEPT ![r] = there]

\* The locals of the loop body are out of scope once the ticket is left.
DropTicket(r) ==
  /\ tkt' = [tkt EXCEPT ![r] = NoTicket]
  /\ choice' = [choice EXCEPT ![r] = NoPlan]
  /\ ctx' = [ctx EXCEPT ![r] = NoContext]
  /\ todo' = [todo EXCEPT ![r] = <<>>]
  /\ answering' = [answering EXCEPT ![r] = FALSE]
  /\ result' = [result EXCEPT ![r] = "absent"]

-----------------------------------------------------------------------------
(* The scan over the tickets                                               *)

\* Mutant: the failures of an earlier execution still count.
StartCounting(r) ==
  /\ At(r, "idle")
  /\ \E m \in Mode : mode' = [mode EXCEPT ![r] = m]
  /\ cursor' = [cursor EXCEPT ![r] = 0]
  /\ page' = [page EXCEPT ![r] = {}]
  /\ Goto(r, "search")
  /\ UNCHANGED <<store, world, fails, work, aborts>>

\* The scheduler calls run_once: a fresh cursor, no read failure yet, and
\* the switches as they are configured now.
Start(r) ==
  /\ At(r, "idle")
  /\ \E m \in Mode : mode' = [mode EXCEPT ![r] = m]
  /\ cursor' = [cursor EXCEPT ![r] = 0]
  /\ page' = [page EXCEPT ![r] = {}]
  /\ fails' = [fails EXCEPT ![r] = 0]
  /\ Goto(r, "search")
  /\ UNCHANGED <<store, world, work, aborts>>

\* search_tickets after the cursor.  The page is a snapshot: only tickets
\* eligible in it are taken up.  An empty page ends the run.
Search(r) ==
  LET after == {t \in Ticket : t > cursor[r]}
      window == {t \in after : t <= cursor[r] + PageSize}
  IN  /\ At(r, "search")
      /\ \/ /\ after = {}
            /\ Goto(r, "idle")
            /\ UNCHANGED <<cursor, page>>
         \/ /\ after # {}
            /\ \E last \in window :
                 /\ \A t \in window : t <= last
                 /\ cursor' = [cursor EXCEPT ![r] = last]
            /\ page' = [page EXCEPT ![r] = {t \in window : fit[t]}]
            /\ Goto(r, "next")
      /\ UNCHANGED <<store, world, mode, fails, work, aborts>>

\* The page's tickets in sys_id order; when none is left, the next page.
Take(r) ==
  /\ At(r, "next")
  /\ \/ /\ page[r] = {}
        /\ Goto(r, "search")
        /\ UNCHANGED <<page, tkt>>
     \/ \E t \in page[r] :
          /\ \A u \in page[r] : t <= u
          /\ page' = [page EXCEPT ![r] = @ \ {t}]
          /\ tkt' = [tkt EXCEPT ![r] = t]
          /\ Goto(r, "ingest")
  /\ UNCHANGED <<store, world, mode, cursor, fails, choice, ctx, todo,
                 answering, result, aborts>>

\* Mutant: a finished row is processed again.
IngestAgain(r) ==
  /\ At(r, "ingest")
  /\ choice' = [choice EXCEPT ![r] = plan[tkt[r]]]
  /\ ctx' = [ctx EXCEPT ![r] = context[tkt[r]]]
  /\ status' = [status EXCEPT ![tkt[r]] = IF @ = "absent" THEN "pending" ELSE @]
  /\ Goto(r, "select")
  /\ UNCHANGED <<plan, context, effect, receipt, world, scan, tkt, todo,
                 answering, result, aborts>>

\* Mutant: only a row created by this very run is processed.
IngestNewOnly(r) ==
  LET t == tkt[r]
  IN  /\ At(r, "ingest")
      /\ status' = [status EXCEPT ![t] = IF @ = "absent" THEN "pending" ELSE @]
      /\ \/ status[t] # "absent" /\ Goto(r, "next") /\ DropTicket(r)
         \/ /\ status[t] = "absent"
            /\ Goto(r, "select")
            /\ UNCHANGED work
      /\ UNCHANGED <<plan, context, effect, receipt, world, scan, aborts>>

\* state.ingest creates the row or returns the one there is.  A finished
\* ticket is left alone; a conflicting identity or an unapproved creator
\* sends it to manual review.  The row's plan and context become the run's.
Ingest(r) ==
  LET t == tkt[r]
      held == t \in Ambiguous \/ ( /\ mode[r] # "stub"
                                   /\ t \notin Approved[mode[r]] )
  IN  /\ At(r, "ingest")
      /\ status' = [status EXCEPT ![t] = IF @ = "absent" THEN "pending" ELSE @]
      /\ \/ /\ status[t] \in Terminal
            /\ Goto(r, "next")
            /\ DropTicket(r)
         \/ /\ status[t] \notin Terminal
            /\ choice' = [choice EXCEPT ![r] = plan[t]]
            /\ ctx' = [ctx EXCEPT ![r] = context[t]]
            /\ Goto(r, IF held THEN "manual" ELSE "select")
            /\ UNCHANGED <<tkt, todo, answering, result>>
      /\ UNCHANGED <<plan, context, effect, receipt, world, scan, aborts>>

-----------------------------------------------------------------------------
(* Choosing a plan                                                         *)

\* A pinned plan is kept.  Otherwise the decision service, or the regex
\* fallback when it abstains or is unavailable, names a plan or none.
Select(r) ==
  /\ At(r, "select")
  /\ \/ /\ choice[r] # NoPlan
        /\ Goto(r, "pin_plan")
        /\ UNCHANGED choice
     \/ /\ choice[r] = NoPlan
        /\ \/ /\ \E p \in Plan : choice' = [choice EXCEPT ![r] = p]
              /\ Goto(r, "pin_plan")
           \/ /\ Goto(r, "manual")
              /\ UNCHANGED choice
  /\ UNCHANGED <<store, world, scan, tkt, ctx, todo, answering, result, aborts>>

\* Mutant: a run follows what it chose itself.
KeepOwn(held, none, own) == own

\* state.pin_plan: the first plan pinned wins, and every run follows it.
Pinned(held, none, own) == IF held = none THEN own ELSE held

IsNoop(p) == p \notin Lookups /\ Writes[p] = <<>>

PinPlan(r) ==
  LET t == tkt[r]
      p == Pinned(plan[t], NoPlan, choice[r])
  IN  /\ At(r, "pin_plan")
      /\ plan' = [plan EXCEPT ![t] = p]
      /\ choice' = [choice EXCEPT ![r] = p]
      /\ Goto(r, IF IsNoop(p) THEN "complete" ELSE "recheck")
      /\ UNCHANGED <<status, context, effect, receipt, world, scan, tkt, ctx,
                     todo, answering, result, aborts>>

\* get_ticket before anything is done: a ticket that drifted since it was
\* ingested goes to manual review.
Recheck(r) ==
  /\ At(r, "recheck")
  /\ Goto(r, IF ~fit[tkt[r]] THEN "manual"
             ELSE IF choice[r] \in Lookups THEN "lookup" ELSE "writes")
  /\ UNCHANGED <<store, world, scan, work, aborts>>

\* The plan's read action, unless a context is pinned already: it finds a
\* context, finds that there is none, or is unavailable.  An unavailable
\* lookup leaves the ticket pending and too many in a row end the run.
LookupFound(r) ==
  /\ At(r, "lookup")
  /\ tkt[r] \notin LacksFacts
  /\ \/ ctx[r] # NoContext /\ UNCHANGED ctx
     \/ ctx[r] = NoContext /\ \E c \in Context : ctx' = [ctx EXCEPT ![r] = c]
  /\ Goto(r, "pin_context")
  /\ UNCHANGED <<store, world, scan, tkt, choice, todo, answering, result,
                 aborts>>

LookupAbsent(r) ==
  /\ At(r, "lookup")
  /\ tkt[r] \in LacksFacts \/ ctx[r] = NoContext
  /\ Goto(r, "manual")
  /\ UNCHANGED <<store, world, scan, work, aborts>>

LookupUnavailable(r) ==
  /\ At(r, "lookup")
  /\ tkt[r] \notin LacksFacts
  /\ ctx[r] = NoContext
  /\ fails' = [fails EXCEPT ![r] = @ + 1]
  /\ Goto(r, IF fails[r] + 1 >= MaxReadFailures THEN "idle" ELSE "next")
  /\ DropTicket(r)
  /\ UNCHANGED <<store, world, mode, cursor, page, aborts>>

Lookup(r) == LookupFound(r) \/ LookupAbsent(r) \/ LookupUnavailable(r)

\* state.pin_action_context: the first context pinned wins, as for plans.
PinContext(r) ==
  LET t == tkt[r]
      c == Pinned(context[t], NoContext, ctx[r])
  IN  /\ At(r, "pin_context")
      /\ context' = [context EXCEPT ![t] = c]
      /\ ctx' = [ctx EXCEPT ![r] = c]
      /\ fails' = [fails EXCEPT ![r] = 0]
      /\ Goto(r, "writes")
      /\ UNCHANGED <<status, plan, effect, receipt, world, mode, cursor, page,
                     tkt, choice, todo, answering, result, aborts>>

-----------------------------------------------------------------------------
(* Effects: write actions, then the note, then the email                   *)

\* The write actions of the plan become the effects to apply.
BeginWrites(r) ==
  /\ At(r, "writes")
  /\ todo' = [todo EXCEPT ![r] = Writes[choice[r]]]
  /\ Goto(r, "effects")
  /\ UNCHANGED <<store, world, scan, tkt, choice, ctx, answering, result,
                 aborts>>

\* Mutant: the outputs are not held back until the writes are through.
BeginOutputsEarly(r) ==
  /\ At(r, "effects")
  /\ ~answering[r]
  /\ \E outs \in OutputPolicy(r) : todo' = [todo EXCEPT ![r] = InOrder(outs)]
  /\ answering' = [answering EXCEPT ![r] = TRUE]
  /\ UNCHANGED <<store, world, scan, pc, tkt, choice, ctx, result, aborts>>

\* Every write succeeded: select_output_policy gives the outputs, or no rule
\* and manual review.  Contradicting rules raise, which is an Abort.
BeginOutputs(r) ==
  /\ At(r, "effects")
  /\ todo[r] = <<>>
  /\ ~answering[r]
  /\ \/ /\ OutputPolicy(r) = {}
        /\ Goto(r, "manual")
        /\ UNCHANGED <<todo, answering>>
     \/ /\ \E outs \in OutputPolicy(r) :
             todo' = [todo EXCEPT ![r] = InOrder(outs)]
        /\ answering' = [answering EXCEPT ![r] = TRUE]
        /\ UNCHANGED pc
  /\ UNCHANGED <<store, world, scan, tkt, choice, ctx, result, aborts>>

FinishTicket(r) ==
  /\ At(r, "effects")
  /\ todo[r] = <<>>
  /\ answering[r]
  /\ Goto(r, "complete")
  /\ UNCHANGED <<store, world, scan, work, aborts>>

\* Mutant: a claim somebody left behind is taken over.
UnclaimedOrLeft(k) == effect[k] \in {"absent", "claimed"}

\* Mutant: what definitely failed is tried again.
UnclaimedOrFailed(k) == effect[k] \in {"absent", "definitely_failed"}

\* state.claim_effect: whoever inserts the ledger entry holds the effect;
\* everybody else only looks at how it ended.
Unclaimed(k) == effect[k] = "absent"

Claim(r) ==
  /\ At(r, "effects")
  /\ todo[r] # <<>>
  /\ \/ /\ Unclaimed(HeldKey(r))
        /\ effect' = [effect EXCEPT ![HeldKey(r)] = "claimed"]
        /\ Goto(r, "verify")
     \/ /\ ~Unclaimed(HeldKey(r))
        /\ Goto(r, "check")
        /\ UNCHANGED effect
  /\ UNCHANGED <<status, plan, context, receipt, world, scan, work, aborts>>

\* get_ticket under the claim: drift, or a failed read, ends the effect as
\* definitely_failed before anything was sent.
Verify(r) ==
  /\ At(r, "verify")
  /\ \/ /\ fit[tkt[r]]
        /\ Goto(r, "call")
        /\ UNCHANGED result
     \/ /\ result' = [result EXCEPT ![r] = "definitely_failed"]
        /\ Goto(r, "finish")
  /\ UNCHANGED <<store, world, scan, tkt, choice, ctx, todo, answering, aborts>>

\* The effect takes place in the world, if this run delivers such effects.
Takes(r) ==
  LET k == HeldKey(r)
  IN  IF Delivers(k.effect, mode[r])
        THEN performed' = [performed EXCEPT ![k] = @ + 1]
        ELSE UNCHANGED performed

Ends(r, how) == result' = [result EXCEPT ![r] = how]

CallUnchanged(r) ==
  /\ Goto(r, "finish")
  /\ UNCHANGED <<store, fit, scan, tkt, choice, ctx, todo, answering, aborts>>

\* The registered handler: done, refused, or an unknown outcome, after
\* which the action may or may not have happened.
CallAction(r) ==
  /\ At(r, "call")
  /\ ~answering[r]
  /\ \/ Takes(r) /\ Ends(r, "succeeded")
     \/ UNCHANGED performed /\ Ends(r, "definitely_failed")
     \/ (Takes(r) \/ UNCHANGED performed) /\ Ends(r, "outcome_unknown")
  /\ CallUnchanged(r)

\* Mutant: write_started is set after the service returned.
SendOutputFlaggedLate(r, o) ==
  /\ At(r, "call")
  /\ answering[r]
  /\ Head(todo[r]) = o
  /\ \/ Takes(r) /\ Ends(r, "succeeded")
     \/ (Takes(r) \/ UNCHANGED performed) /\ Ends(r, "definitely_failed")
  /\ CallUnchanged(r)

\* An output: rendering may fail before write_started is set; from then on
\* any exception, also one raised after the service acted, leaves the outcome
\* unknown.  Without delivery the output is only rendered.
SendOutput(r, o) ==
  /\ At(r, "call")
  /\ answering[r]
  /\ Head(todo[r]) = o
  /\ \/ Takes(r) /\ Ends(r, "succeeded")
     \/ UNCHANGED performed /\ Ends(r, "definitely_failed")
     \/ /\ Delivers(o, mode[r])
        /\ Takes(r) \/ UNCHANGED performed
        /\ Ends(r, "outcome_unknown")
  /\ CallUnchanged(r)

UpdateTicket(r) == SendOutput(r, "ticket_note")

\* A disabled notifier answers that it sent nothing: definitely_failed.
SendEmail(r) == SendOutput(r, "email")

\* state.finish_effect, with a receipt when the effect succeeded (nothing
\* reads the receipt of an output, and the model keeps none).
FinishEffect(r) ==
  LET k == HeldKey(r)
  IN  /\ At(r, "finish")
      /\ effect' = [effect EXCEPT ![k] = result[r]]
      /\ \/ /\ result[r] = "succeeded" /\ ~answering[r]
            /\ \E o \in Outcome : receipt' = [receipt EXCEPT ![k] = o]
         \/ /\ result[r] # "succeeded" \/ answering[r]
            /\ UNCHANGED receipt
      /\ result' = [result EXCEPT ![r] = "absent"]
      /\ Goto(r, "check")
      /\ UNCHANGED <<status, plan, context, world, scan, tkt, choice, ctx,
                     todo, answering, aborts>>

\* Mutant: only a definite failure stops the plan.
CheckEffectLenient(r) ==
  /\ At(r, "check")
  /\ \/ /\ effect[HeldKey(r)] # "definitely_failed"
        /\ todo' = [todo EXCEPT ![r] = Tail(@)]
        /\ Goto(r, "effects")
     \/ /\ effect[HeldKey(r)] = "definitely_failed"
        /\ Goto(r, "manual")
        /\ UNCHANGED todo
  /\ UNCHANGED <<store, world, scan, tkt, choice, ctx, answering, result,
                 aborts>>

\* state.effect_status: anything but success, also an effect another run
\* still holds, stops the plan and needs a human.
CheckEffect(r) ==
  /\ At(r, "check")
  /\ \/ /\ effect[HeldKey(r)] = "succeeded"
        /\ todo' = [todo EXCEPT ![r] = Tail(@)]
        /\ Goto(r, "effects")
     \/ /\ effect[HeldKey(r)] # "succeeded"
        /\ Goto(r, "manual")
        /\ UNCHANGED todo
  /\ UNCHANGED <<store, world, scan, tkt, choice, ctx, answering, result,
                 aborts>>

-----------------------------------------------------------------------------
(* Leaving the ticket, the end of an execution, and the outside            *)

\* state.set_status, then on to the next ticket.
SetStatus(r, s) ==
  /\ status' = [status EXCEPT ![tkt[r]] = s]
  /\ DropTicket(r)
  /\ Goto(r, "next")
  /\ UNCHANGED <<plan, context, effect, receipt, world, scan, aborts>>

Complete(r) == At(r, "complete") /\ SetStatus(r, "complete")

ManualReview(r) == At(r, "manual") /\ SetStatus(r, "manual_review")

\* run_once is left by an exception (a failed search, an invalid decision, a
\* worklog that cannot be opened, a lost store) or its worker dies.
Abort(r) ==
  /\ ~At(r, "idle")
  /\ aborts < MaxAborts
  /\ aborts' = aborts + 1
  /\ DropTicket(r)
  /\ Goto(r, "idle")
  /\ UNCHANGED <<store, world, scan>>

\* Operators close, reassign, correct or reopen a ticket.
Edit(t) ==
  /\ fit' = [fit EXCEPT ![t] = ~@]
  /\ UNCHANGED <<store, performed, pc, scan, work, aborts>>

Step(r) ==
  \/ Start(r) \/ Search(r) \/ Take(r) \/ Ingest(r)
  \/ Select(r) \/ PinPlan(r) \/ Recheck(r) \/ Lookup(r) \/ PinContext(r)
  \/ BeginWrites(r) \/ BeginOutputs(r) \/ FinishTicket(r)
  \/ Claim(r) \/ Verify(r)
  \/ CallAction(r) \/ UpdateTicket(r) \/ SendEmail(r)
  \/ FinishEffect(r) \/ CheckEffect(r)
  \/ Complete(r) \/ ManualReview(r)

Next ==
  \/ \E r \in Run : Step(r) \/ Abort(r)
  \/ \E t \in Ticket : Edit(t)

Spec == Init /\ [][Next]_vars

-----------------------------------------------------------------------------
(* Type invariant                                                          *)

Here == {"idle", "search", "next", "ingest", "select", "pin_plan", "recheck",
         "lookup", "pin_context", "writes", "effects", "verify", "call",
         "finish", "check", "complete", "manual"}

\* Every variable keeps the values the code can give it.
TypeOK ==
  /\ status \in [Ticket -> {"absent", "pending"} \cup Terminal]
  /\ plan \in [Ticket -> Plan \cup {NoPlan}]
  /\ context \in [Ticket -> Context \cup {NoContext}]
  /\ effect \in [Key -> EffectStatus]
  /\ receipt \in [Key -> Outcome \cup {NoReceipt}]
  /\ fit \in [Ticket -> BOOLEAN]
  /\ performed \in [Key -> Nat]
  /\ pc \in [Run -> Here]
  /\ mode \in [Run -> Mode]
  /\ cursor \in [Run -> 0 .. NTickets]
  /\ page \in [Run -> SUBSET Ticket]
  /\ fails \in [Run -> 0 .. MaxReadFailures]
  /\ tkt \in [Run -> Ticket \cup {NoTicket}]
  /\ choice \in [Run -> Plan \cup {NoPlan}]
  /\ ctx \in [Run -> Context \cup {NoContext}]
  /\ todo \in [Run -> Seq(Action \cup Output)]
  /\ answering \in [Run -> BOOLEAN]
  /\ result \in [Run -> Finished \cup {"absent"}]
  /\ aborts \in 0 .. MaxAborts

-----------------------------------------------------------------------------
(* Safety                                                                  *)

\* No effect takes place twice: not when runs overlap, not when one dies
\* between the call and finish_effect and the ticket is taken up again.
AtMostOnce == \A k \in Key : performed[k] <= 1

\* A write action is applied to one target only: runs whose lookups returned
\* different contexts act on the one pinned first.
OneTarget ==
  LET done == {k \in Key : performed[k] > 0 /\ k.effect \in Action}
  IN  \A k, l \in done : (k.ticket = l.ticket /\ k.effect = l.effect) => k = l

PlanOf(t) == Writes[plan[t]]

\* Whatever was claimed for a ticket belongs to the plan pinned for it, also
\* when the decision service answered two runs differently.
OnePlan ==
  \A k \in Key :
    (effect[k] # "absent" /\ k.effect \in Action) =>
      /\ plan[k.ticket] \in Plan
      /\ \E i \in DOMAIN PlanOf(k.ticket) : PlanOf(k.ticket)[i] = k.effect

\* The first n write actions of the ticket's plan succeeded.
Applied(t, live, n) ==
  \A i \in 1 .. n :
    \E k \in Key : /\ k.ticket = t
                   /\ k.effect = PlanOf(t)[i]
                   /\ k.live = live
                   /\ effect[k] = "succeeded"

\* An action is attempted only after every earlier one of the plan succeeded.
InPlanOrder ==
  \A k \in Key :
    (effect[k] # "absent" /\ k.effect \in Action) =>
      \E j \in DOMAIN PlanOf(k.ticket) :
        PlanOf(k.ticket)[j] = k.effect /\ Applied(k.ticket, k.live, j - 1)

\* A recipe that answers by email also notes the answer in the ticket.
NotesEmails ==
  \A outs \in {DefaultOutputs} \cup {Rule[x] : x \in DOMAIN Rule} :
    "email" \in outs => "ticket_note" \in outs

\* The requester is told about the outcome, by note or email, only when all
\* the actions of the plan succeeded; the email only after the note, unless
\* the recipe asks for an email alone.
AnswerIsTrue ==
  \A k \in Key :
    (performed[k] > 0 /\ k.effect \in Output) =>
      /\ plan[k.ticket] \in Plan
      /\ Applied(k.ticket, k.live, Len(PlanOf(k.ticket)))
      /\ k.effect = "email" /\ NotesEmails =>
           effect[[k EXCEPT !.effect = "ticket_note"]] = "succeeded"

\* A ticket is complete only with every action of its plan applied.
CompleteIsApplied ==
  \A t \in Ticket :
    status[t] = "complete" =>
      /\ plan[t] \in Plan
      /\ \E live \in BOOLEAN : Applied(t, live, Len(PlanOf(t)))

\* The ledger tells an operator the truth about the world: what it calls
\* definitely_failed did not happen, what it calls succeeded did, once it is
\* an effect the run delivers.
LedgerIsTrue ==
  \A k \in Key :
    /\ effect[k] \in {"absent", "definitely_failed"} => performed[k] = 0
    /\ (effect[k] = "succeeded" /\ k \in DeliveredKey) => performed[k] = 1

\* The executor implements the ledger of one-shot effects.
Ledger == INSTANCE EffectLedger
            WITH Effect <- Key, Delivered <- DeliveredKey, ledger <- effect

ImplementsLedger == Ledger!Spec

-----------------------------------------------------------------------------
(* What a step may never do                                                *)

\* How an effect ended is never revised: a failed or unknown effect is not
\* tried again, it waits for a human.
EndsOnce ==
  [][\A k \in Key : effect[k] \in Finished => effect'[k] = effect[k]]_vars

\* With one execution at a time, a finished ticket is never reopened nor
\* moved between complete and manual_review by a later scan.
FinishedStays ==
  [][\A t \in Ticket : status[t] \in Terminal => status'[t] = status[t]]_vars

-----------------------------------------------------------------------------
(* Liveness                                                                *)

\* The scheduler keeps calling run_once, calls return, and a lookup that is
\* tried again and again is answered at some time.
Fairness ==
  \A r \in Run : WF_vars(Step(r)) /\ SF_vars(LookupFound(r))

FairSpec == Spec /\ Fairness

\* A ticket taken up is finished, however often executions are cut short or
\* its lookup is unavailable, unless operators take it away.
Settles ==
  \A t \in Ticket :
    (status[t] = "pending") ~> (status[t] \in Terminal \/ ~fit[t])
=============================================================================
