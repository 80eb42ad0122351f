---------------------------- MODULE EffectLedger ----------------------------
(***************************************************************************)
(* What the ticket automation executor promises about its side effects:    *)
(* each is claimed once, acts on the world at most once and only while it  *)
(* is claimed, and is closed once, with a verdict that is true of the      *)
(* world.  An effect left claimed, by an execution that died, stays so.    *)
(***************************************************************************)
EXTENDS Integers

CONSTANTS Effect,    \* the effects there can be
          Delivered  \* the effects that act on the world when they succeed

VARIABLES ledger, performed

Init ==
  /\ ledger = [e \in Effect |-> "absent"]
  /\ performed = [e \in Effect |-> 0]

Claim(e) ==
  /\ ledger[e] = "absent"
  /\ ledger' = [ledger EXCEPT ![e] = "claimed"]
  /\ UNCHANGED performed

Act(e) ==
  /\ ledger[e] = "claimed"
  /\ performed[e] = 0
  /\ performed' = [performed EXCEPT ![e] = 1]
  /\ UNCHANGED ledger

Close(e) ==
  /\ ledger[e] = "claimed"
  /\ \/ /\ e \in Delivered => performed[e] = 1
        /\ ledger' = [ledger EXCEPT ![e] = "succeeded"]
     \/ /\ performed[e] = 0
        /\ ledger' = [ledger EXCEPT ![e] = "definitely_failed"]
     \/ ledger' = [ledger EXCEPT ![e] = "outcome_unknown"]
  /\ UNCHANGED performed

Next == \E e \in Effect : Claim(e) \/ Act(e) \/ Close(e)

Spec == Init /\ [][Next]_<<ledger, performed>>
=============================================================================
