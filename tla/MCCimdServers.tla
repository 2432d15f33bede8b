----------------------------- MODULE MCCimdServers -----------------------------
(***************************************************************************)
(* Instances of CimdServers for TLC.                                       *)
(***************************************************************************)
EXTENDS CimdServers

CONSTANTS q1, q2, q3   \* three requests

\* q1 and q2 test steps that ask for the same or another port, once or twice;
\* q3 is a run, which only stops servers.
MCAsks ==
  { [q \in Requests |-> CASE q = q1 -> f [] q = q2 -> g [] OTHER -> <<>>] :
      f \in {<<1, 2>>, <<1, 1>>}, g \in {<<1>>, <<3>>} }
================================================================================
