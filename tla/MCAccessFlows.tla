---------------------------- MODULE MCAccessFlows ----------------------------
(* Small instances of AccessFlows for TLC.                                 *)
EXTENDS AccessFlows, TLC

CONSTANTS f1, f2, q1, q2

\* One email makes a request, the other updates one.
NewThenUpdate == f1 :> NoRequest @@ f2 :> q1

\* Emails may give the number of the SR that the first run makes, or another.
OwnOrForeign == {Foreign, [run |-> f1, try |-> 1]}

\* The one email is new.
OneNew == f1 :> NoRequest
==============================================================================
