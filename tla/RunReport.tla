------------------------------- MODULE RunReport -------------------------------
(***************************************************************************)
(* What one scenario run promises its caller, with the threads, the lock   *)
(* and the counters of tools/scenario_runner.py abstracted away: step      *)
(* executions are recorded one after the other, the run waits for workers, *)
(* and it concludes exactly once, with a verdict computed from executions  *)
(* that really were recorded and include every execution of every worker   *)
(* it waited for.  ScenarioRun implements this specification.              *)
(***************************************************************************)
EXTENDS Sequences

CONSTANT Workers

VARIABLES history,   \* did they succeed: the executions each worker has recorded
          waited,    \* workers whose end the run has seen
          phase,     \* "running", "reported" or "aborted" (no report at all)
          verdict    \* "none" until reported, then "PASS" or "FAIL"

vars == <<history, waited, phase, verdict>>

\* Execution <<w, n>> is the nth that worker w has recorded.
Executions == UNION {{<<w, n>> : n \in DOMAIN history[w]} : w \in Workers}
Ok(e) == history[e[1]][e[2]]

\* No failure and at least one success among the executions S.
VerdictOf(S) ==
  IF (\A e \in S : Ok(e)) /\ S # {} THEN "PASS" ELSE "FAIL"

Init ==
  /\ history = [w \in Workers |-> <<>>]
  /\ waited = {}
  /\ phase = "running"
  /\ verdict = "none"

\* A worker the run has waited for records nothing any more.
Record(w) ==
  /\ w \notin waited
  /\ \E ok \in BOOLEAN : history' = [history EXCEPT ![w] = Append(@, ok)]
  /\ UNCHANGED <<waited, phase, verdict>>

WaitFor(w) ==
  /\ phase = "running"
  /\ waited' = waited \cup {w}
  /\ UNCHANGED <<history, phase, verdict>>

Report ==
  /\ phase = "running"
  /\ \E S \in SUBSET Executions :
       /\ {e \in Executions : e[1] \in waited} \subseteq S
       /\ verdict' = VerdictOf(S)
  /\ phase' = "reported"
  /\ UNCHANGED <<history, waited>>

\* Giving up without a report is possible only when some worker is still out.
Abort ==
  /\ phase = "running"
  /\ waited # Workers
  /\ phase' = "aborted"
  /\ UNCHANGED <<history, waited, verdict>>

Next ==
  \/ \E w \in Workers : Record(w) \/ WaitFor(w)
  \/ Report
  \/ Abort

Spec == Init /\ [][Next]_vars /\ WF_vars(Report)
================================================================================
