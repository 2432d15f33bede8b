----------------------------- MODULE MCScenarioRun -----------------------------
(***************************************************************************)
(* Instances of ScenarioRun for TLC.                                       *)
(***************************************************************************)
EXTENDS ScenarioRun

CONSTANTS a, b      \* two step names

S(name, rule, mayRaise) == [name |-> name, rule |-> rule, mayRaise |-> mayRaise]
Run(steps, failFast, iterations) ==
  [steps |-> steps, failFast |-> failFast, iterations |-> iterations]

\* Two workers: a hard step between soft ones under one shared name, a step
\* that may raise, a lax step without fail_fast, and a run without an iteration limit.
MCTwoWorkers ==
  { Run(<<S(a, "soft", FALSE), S(a, "hard", FALSE)>>, FALSE, 1),
    Run(<<S(a, "lax", TRUE), S(b, "hard", FALSE)>>, TRUE, 1),
    Run(<<S(b, "soft", FALSE)>>, FALSE, 2),
    Run(<<S(a, "lax", FALSE), S(b, "soft", FALSE)>>, FALSE, 1),
    Run(<<S(a, "hard", FALSE)>>, FALSE, 0) }

\* Shorter runs of two workers, for the temporal properties.
MCTwoWorkersShort ==
  { Run(<<S(a, "soft", FALSE), S(b, "hard", TRUE)>>, FALSE, 1),
    Run(<<S(a, "lax", FALSE)>>, TRUE, 0) }

\* A regression (`run.sh --regression', which the web UI calls as well): one
\* user, one iteration, --fail-fast and --strict.
MCRegression ==
  { Run(<<S(a, "soft", x1), S(b, "hard", x2)>>, TRUE, 1) : x1, x2 \in BOOLEAN }
================================================================================
