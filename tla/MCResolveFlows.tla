---------------------------- MODULE MCResolveFlows ----------------------------
(* How often TLC has a request looked at: three times as long as it waits, *)
(* and twice or once for what a run works on.                              *)
EXTENDS ResolveFlows

CONSTANTS Twice   \* the kinds that are looked at again after they have a WO

LooksOf ==
  [k \in RequestKind |-> [a \in Answer |->
    IF a = "false" /\ k \in Twice \cup {"awaiting"} THEN 3
    ELSE IF k \in Twice THEN 2 ELSE 1]]
===============================================================================
