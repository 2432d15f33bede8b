------------------------------ MODULE ScenarioRun ------------------------------
(***************************************************************************)
(* One call of execute_scenario (tools/scenario_runner.py): the worker     *)
(* threads of run_worker, the aggregate of StepStats and the exported      *)
(* variables they share under one lock, and the calling thread that joins  *)
(* them with a timeout and then reads both WITHOUT the lock.               *)
(*                                                                         *)
(* Time is one flag, `expired': time.time() has reached run_until.  A      *)
(* join timeout is longer than the run, so it can fire only after that.    *)
(* The context of a worker is its version, the number of step executions   *)
(* that may have written to it; an exported snapshot is a worker and the   *)
(* version it copied.  LoopBound bounds the iterations of a run that has   *)
(* no iteration limit; nothing else is bounded here.                       *)
(***************************************************************************)
EXTENDS Naturals, Sequences, FiniteSets

CONSTANTS Users,       \* number of worker threads
          Names,       \* names a step can have: the keys of the aggregate
          Scenarios,   \* the scenarios (and flags) the run may be asked for
          LoopBound    \* bound on the iterations of an unlimited run

Workers  == 1..Users
Rules    == {"hard", "soft", "lax"}  \* stop_on_failure: truthy, False, other falsy
Outcomes == {"ok", "mismatch", "blocked"}  \* blocked: failed, yet no mismatch
Step     == [name : Names, rule : Rules, mayRaise : BOOLEAN]
Scenario == [steps : Seq(Step), failFast : BOOLEAN, iterations : Nat]

ASSUME RunAssumption ==
  /\ Users \in Nat \ {0}
  /\ LoopBound \in Nat
  /\ Scenarios \subseteq Scenario
  /\ \A s \in Scenarios : s.steps # <<>>

VARIABLES
  scenario,  \* the scenario being run, with the effective fail_fast and iterations
  expired,   \* the clock is past run_until
  lock,      \* the worker that holds the lock, 0 when free
  pc,        \* where each worker is
  after,     \* where a worker goes once it has captured its variables
  idx,       \* index of the step each worker is at
  iter,      \* iterations each worker has completed
  outcome,   \* result of the step each worker ran last
  version,   \* version of each worker's context["vars"]
  entries,   \* names that have an entry in the aggregate
  stats,     \* the counters of each entry
  exported,  \* the exported variables
  main,      \* phase of the calling thread
  joining,   \* the worker the calling thread waits for next
  missed,    \* workers whose join timed out
  toRead,    \* entries the calling thread has still to read
  sized,     \* entries there were when it started to read
  report,    \* the counters it read
  result,    \* the verdict and the variables of the report
  log        \* history: what each worker has recorded, in order

worker == <<pc, after, idx, iter, outcome, version>>
shared == <<lock, entries, stats, exported>>
caller == <<main, joining, missed, toRead, sized, report, result>>
vars   == <<scenario, expired, worker, shared, caller, log>>

Zero     == [count |-> 0, success |-> 0, failure |-> 0, mismatch |-> 0]
Cleared  == [by |-> 0, version |-> 0]
NoResult == [verdict |-> "none", vars |-> Cleared]
Ended    == {"completed", "expired", "stopped", "crashed"}

StepOf(w) == scenario.steps[idx[w]]

--------------------------------------------------------------------------------
(***************************************************************************)
(* Initial state: execute_scenario has resolved the environment (it raises *)
(* SystemExit for a scenario without steps) and started the threads.       *)
(***************************************************************************)
Init ==
  /\ scenario \in Scenarios
  /\ expired = FALSE
  /\ lock = 0
  /\ pc = [w \in Workers |-> "loop"]
  /\ after = [w \in Workers |-> "loop"]
  /\ idx = [w \in Workers |-> 1]
  /\ iter = [w \in Workers |-> 0]
  /\ outcome = [w \in Workers |-> "ok"]
  /\ version = [w \in Workers |-> 0]
  /\ entries = {}
  /\ stats = [n \in Names |-> Zero]
  /\ exported = Cleared
  /\ main = "joining"
  /\ joining = 1
  /\ missed = {}
  /\ toRead = {}
  /\ sized = {}
  /\ report = [n \in Names |-> Zero]
  /\ result = NoResult
  /\ log = [w \in Workers |-> <<>>]

--------------------------------------------------------------------------------
(***************************************************************************)
(* Decisions of the code, as operators.                                    *)
(***************************************************************************)
MoreIterations(w) == scenario.iterations = 0 \/ iter[w] < scenario.iterations

\* Fault: the deadline is never looked at.
DeadlineIgnored == FALSE

\* The test before each step: has the deadline passed?
DeadlinePassed == expired

\* Does a failed step with this rule end the worker?
RuleStops(rule) == rule = "hard" \/ (rule = "lax" /\ scenario.failFast)

\* Fault: a failure that is no expectation mismatch does not stop the worker.
StopsOnMismatch(rule, out) == out = "mismatch" /\ RuleStops(rule)

StopsWorker(rule, out) == out # "ok" /\ RuleStops(rule)

\* The lock is not held: `with lock' may proceed.
LockFree == lock = 0

\* Fault: the caller does not wait.
NotWaiting(w) == TRUE

\* thread.join returns because the thread is over.
ThreadOver(w) == pc[w] \in Ended

\* What capture_vars copies into the shared map.
Snapshot(w) == [by |-> w, version |-> version[w]]

\* Fault: only expectation mismatches count against the run.
PassesUnlessMismatch(counters) ==
  /\ \A n \in Names : counters[n].mismatch = 0
  /\ \E n \in Names : counters[n].success > 0

\* Fault: a run in which nothing was executed passes.
PassesVacuously(counters) ==
  \A n \in Names : counters[n].failure = 0 /\ counters[n].mismatch = 0

\* status / strict exit code: no failure, no mismatch, some success.
Passes(counters) ==
  /\ \A n \in Names : counters[n].failure = 0 /\ counters[n].mismatch = 0
  /\ \E n \in Names : counters[n].success > 0

Verdict(counters) == IF Passes(counters) THEN "PASS" ELSE "FAIL"

--------------------------------------------------------------------------------
(***************************************************************************)
(* A worker.                                                               *)
(***************************************************************************)
LoopGuard(w) ==
  /\ pc[w] = "loop"
  /\ scenario.iterations = 0 => iter[w] < LoopBound \/ DeadlinePassed
  /\ IF MoreIterations(w) /\ ~DeadlinePassed
     THEN /\ pc' = [pc EXCEPT ![w] = "step"]
          /\ idx' = [idx EXCEPT ![w] = 1]
          /\ UNCHANGED after
     ELSE /\ pc' = [pc EXCEPT ![w] = "capture"]
          /\ after' = [after EXCEPT ![w] =
                         IF MoreIterations(w) THEN "expired" ELSE "completed"]
          /\ UNCHANGED idx
  /\ UNCHANGED <<scenario, expired, iter, outcome, version, shared, caller, log>>

\* Fault: the return at the deadline forgets capture_vars.
StepGuardWithoutCapture(w) ==
  /\ pc[w] = "step"
  /\ idx[w] <= Len(scenario.steps)
  /\ pc' = [pc EXCEPT ![w] = IF DeadlinePassed THEN "expired" ELSE "running"]
  /\ UNCHANGED <<scenario, expired, after, idx, iter, outcome, version, shared,
                 caller, log>>

\* Before each step the deadline is read again.
StepGuard(w) ==
  /\ pc[w] = "step"
  /\ idx[w] <= Len(scenario.steps)
  /\ IF DeadlinePassed
     THEN /\ pc' = [pc EXCEPT ![w] = "capture"]
          /\ after' = [after EXCEPT ![w] = "expired"]
     ELSE /\ pc' = [pc EXCEPT ![w] = "running"]
          /\ UNCHANGED after
  /\ UNCHANGED <<scenario, expired, idx, iter, outcome, version, shared, caller, log>>

EndIteration(w) ==
  /\ pc[w] = "step"
  /\ idx[w] > Len(scenario.steps)
  /\ iter' = [iter EXCEPT ![w] = @ + 1]
  /\ pc' = [pc EXCEPT ![w] = "capture"]
  /\ after' = [after EXCEPT ![w] = "loop"]
  /\ UNCHANGED <<scenario, expired, idx, outcome, version, shared, caller, log>>

\* run_step returns.  It saves variables whether or not the step succeeded.
RunStep(w) ==
  /\ pc[w] = "running"
  /\ \E out \in Outcomes : outcome' = [outcome EXCEPT ![w] = out]
  /\ version' = [version EXCEPT ![w] = @ + 1]
  /\ pc' = [pc EXCEPT ![w] = "record"]
  /\ UNCHANGED <<scenario, expired, after, idx, iter, shared, caller, log>>

\* run_step raises: nothing in run_worker catches it and the thread dies,
\* perhaps after an inline prepare action has written a variable.
Raise(w) ==
  /\ pc[w] = "running"
  /\ StepOf(w).mayRaise
  /\ \E v \in {version[w], version[w] + 1} : version' = [version EXCEPT ![w] = v]
  /\ pc' = [pc EXCEPT ![w] = "crashed"]
  /\ UNCHANGED <<scenario, expired, after, idx, iter, outcome, shared, caller, log>>

\* `with lock': the entry of the step is created when it is missing, and
\* StepStats.add then updates one counter after the other.
BeginRecord(w) ==
  /\ pc[w] = "record"
  /\ LockFree
  /\ lock' = w
  /\ entries' = entries \cup {StepOf(w).name}
  /\ stats' = [stats EXCEPT ![StepOf(w).name].count = @ + 1]
  /\ pc' = [pc EXCEPT ![w] = "tally"]
  /\ UNCHANGED <<scenario, expired, after, idx, iter, outcome, version,
                 exported, caller, log>>

AddOutcome(w) ==
  /\ pc[w] = "tally"
  /\ stats' = IF outcome[w] = "ok"
              THEN [stats EXCEPT ![StepOf(w).name].success = @ + 1]
              ELSE [stats EXCEPT ![StepOf(w).name].failure = @ + 1]
  /\ log' = [log EXCEPT ![w] = Append(@, [step |-> idx[w], outcome |-> outcome[w]])]
  /\ pc' = [pc EXCEPT ![w] = "decide"]
  /\ UNCHANGED <<scenario, expired, after, idx, iter, outcome, version,
                 lock, entries, exported, caller>>

\* The last counter, the release of the lock, and what the worker does next.
FinishRecord(w) ==
  /\ pc[w] = "decide"
  /\ stats' = IF outcome[w] = "mismatch"
              THEN [stats EXCEPT ![StepOf(w).name].mismatch = @ + 1]
              ELSE stats
  /\ lock' = 0
  /\ IF StopsWorker(StepOf(w).rule, outcome[w])
     THEN /\ pc' = [pc EXCEPT ![w] = "capture"]
          /\ after' = [after EXCEPT ![w] = "stopped"]
          /\ UNCHANGED idx
     ELSE /\ pc' = [pc EXCEPT ![w] = "step"]
          /\ idx' = [idx EXCEPT ![w] = @ + 1]
          /\ UNCHANGED after
  /\ UNCHANGED <<scenario, expired, iter, outcome, version, entries, exported,
                 caller, log>>

\* capture_vars: clear the shared map under the lock, then fill it.
BeginCapture(w) ==
  /\ pc[w] = "capture"
  /\ LockFree
  /\ lock' = w
  /\ exported' = Cleared
  /\ pc' = [pc EXCEPT ![w] = "update"]
  /\ UNCHANGED <<scenario, expired, after, idx, iter, outcome, version,
                 entries, stats, caller, log>>

FinishCapture(w) ==
  /\ pc[w] = "update"
  /\ exported' = Snapshot(w)
  /\ lock' = 0
  /\ pc' = [pc EXCEPT ![w] = after[w]]
  /\ UNCHANGED <<scenario, expired, after, idx, iter, outcome, version,
                 entries, stats, caller, log>>

--------------------------------------------------------------------------------
(***************************************************************************)
(* The calling thread.                                                     *)
(***************************************************************************)
Join ==
  /\ main = "joining"
  /\ joining \in Workers
  /\ ThreadOver(joining)
  /\ joining' = joining + 1
  /\ UNCHANGED <<scenario, expired, worker, shared, main, missed, toRead, sized,
                 report, result, log>>

\* Fault: join has no timeout.
JoinsForever == FALSE

\* The timeout of join is max(duration, 1) + 60: the deadline is long past.
JoinTimesOut ==
  /\ main = "joining"
  /\ joining \in Workers
  /\ expired
  /\ ~ThreadOver(joining)
  /\ missed' = missed \cup {joining}
  /\ joining' = joining + 1
  /\ UNCHANGED <<scenario, expired, worker, shared, main, toRead, sized,
                 report, result, log>>

StartReading ==
  /\ main = "joining"
  /\ joining = Users + 1
  /\ main' = "reading"
  /\ toRead' = entries
  /\ sized' = entries
  /\ UNCHANGED <<scenario, expired, worker, shared, joining, missed, report,
                 result, log>>

\* One as_dict of the comprehension over aggregate.items().
ReadEntry ==
  /\ main = "reading"
  /\ entries = sized
  /\ \E n \in toRead :
       /\ report' = [report EXCEPT ![n] = stats[n]]
       /\ toRead' = toRead \ {n}
  /\ UNCHANGED <<scenario, expired, worker, shared, main, joining, missed,
                 sized, result, log>>

\* The dictionary grew while it was iterated: RuntimeError, no report.
IterationFails ==
  /\ main = "reading"
  /\ entries # sized
  /\ main' = "aborted"
  /\ UNCHANGED <<scenario, expired, worker, shared, joining, missed, toRead,
                 sized, report, result, log>>

\* Every entry is read: the totals, and with them the verdict, are known.
Total ==
  /\ main = "reading"
  /\ entries = sized
  /\ toRead = {}
  /\ main' = "totalled"
  /\ result' = [result EXCEPT !.verdict = Verdict(report)]
  /\ UNCHANGED <<scenario, expired, worker, shared, joining, missed, toRead,
                 sized, report, log>>

\* dict(captured_vars), without the lock as well.
Return ==
  /\ main = "totalled"
  /\ main' = "reported"
  /\ result' = [result EXCEPT !.vars = exported]
  /\ UNCHANGED <<scenario, expired, worker, shared, joining, missed, toRead,
                 sized, report, log>>

Expire ==
  /\ ~expired
  /\ expired' = TRUE
  /\ UNCHANGED <<scenario, worker, shared, caller, log>>

--------------------------------------------------------------------------------
Bookkeeping(w) ==
  \/ LoopGuard(w) \/ StepGuard(w) \/ EndIteration(w)
  \/ BeginRecord(w) \/ AddOutcome(w) \/ FinishRecord(w)
  \/ BeginCapture(w) \/ FinishCapture(w)

StepEnds(w) == RunStep(w) \/ Raise(w)

Caller ==
  \/ Join \/ JoinTimesOut \/ StartReading
  \/ ReadEntry \/ IterationFails \/ Total \/ Return

\* Everything has returned.
Over ==
  /\ main \in {"reported", "aborted"}
  /\ \A w \in Workers : ThreadOver(w)
  /\ expired
  /\ UNCHANGED vars

Next ==
  \/ \E w \in Workers : Bookkeeping(w) \/ StepEnds(w)
  \/ Caller
  \/ Expire
  \/ Over

\* Time passes and the calling thread runs; a step need not ever return.
Spec == Init /\ [][Next]_vars /\ WF_vars(Caller) /\ WF_vars(Expire)

\* Every thread runs and every step returns or raises (each has a timeout).
StepsReturn == \A w \in Workers : WF_vars(Bookkeeping(w)) /\ WF_vars(StepEnds(w))

--------------------------------------------------------------------------------
(***************************************************************************)
(* Properties.                                                             *)
(***************************************************************************)
Counters == [count : Nat, success : Nat, failure : Nat, mismatch : Nat]
Moment   == [by : 0..Users, version : Nat]
Entry    == [step : Nat \ {0}, outcome : Outcomes]
Pcs      == {"loop", "step", "running", "record", "tally", "decide",
             "capture", "update"} \cup Ended

\* Type invariant: the values every variable ranges over.
WorkerTypeOK ==
  /\ pc \in [Workers -> Pcs]
  /\ after \in [Workers -> {"loop", "completed", "expired", "stopped"}]
  /\ idx \in [Workers -> Nat \ {0}]
  /\ iter \in [Workers -> Nat]
  /\ outcome \in [Workers -> Outcomes]
  /\ version \in [Workers -> Nat]

SharedTypeOK ==
  /\ lock \in 0..Users
  /\ entries \in SUBSET Names
  /\ stats \in [Names -> Counters]
  /\ exported \in Moment

CallerTypeOK ==
  /\ main \in {"joining", "reading", "totalled", "reported", "aborted"}
  /\ joining \in 1..(Users + 1)
  /\ missed \in SUBSET Workers
  /\ toRead \in SUBSET Names
  /\ sized \in SUBSET Names
  /\ report \in [Names -> Counters]
  /\ result \in [verdict : {"none", "PASS", "FAIL"}, vars : Moment]

TypeOK ==
  /\ scenario \in Scenarios
  /\ expired \in BOOLEAN
  /\ WorkerTypeOK
  /\ SharedTypeOK
  /\ CallerTypeOK
  /\ log \in [Workers -> Seq(Entry)]

Failed(e) == e.outcome # "ok"
Rule(e)   == scenario.steps[e.step].rule
Recorded  == UNION {{<<w, i>> : i \in DOMAIN log[w]} : w \in Workers}
Totalled  == main \in {"totalled", "reported"} /\ missed = {}

\* Whenever no thread is inside the critical section of run_worker, every
\* entry of the aggregate adds up: each execution is a success or a failure,
\* and a mismatch is a failure.  (StepStats.add writes these fields one after
\* the other, for all the threads.)
CountersAddUp ==
  lock = 0 => \A n \in Names :
    /\ stats[n].count = stats[n].success + stats[n].failure
    /\ stats[n].mismatch <= stats[n].failure

\* When every join returned because its thread was over, the report the
\* calling thread reads without the lock is exact: each entry counts the
\* executions all the workers recorded under that name, no more and no less.
ReportIsExact ==
  Totalled => \A n \in Names :
    LET under == {r \in Recorded : scenario.steps[log[r[1]][r[2]].step].name = n}
    IN  /\ report[n].count = Cardinality(under)
        /\ report[n].failure =
             Cardinality({r \in under : Failed(log[r[1]][r[2]])})

\* PASS is never printed over a recorded failure, and only when something
\* was executed, if all the workers were waited for: a soft failure, or one
\* that is no expectation mismatch (a forbidden target), counts.
PassMeansNoFailure ==
  Totalled /\ result.verdict = "PASS" =>
    /\ \A w \in Workers : \A i \in DOMAIN log[w] : ~Failed(log[w][i])
    /\ \E w \in Workers : log[w] # <<>>

\* A worker executes the steps in order, iteration after iteration, and
\* records nothing after the failure of a step that must stop it.
WorkersKeepOrder ==
  \A w \in Workers : \A i \in DOMAIN log[w] :
    /\ log[w][i].step = ((i - 1) % Len(scenario.steps)) + 1
    /\ Failed(log[w][i]) /\ Rule(log[w][i]) = "hard" => i = Len(log[w])

\* The variables a run hands to later collection members are the final
\* variables of one of its workers, never a mixture or a stale copy, if all
\* workers were waited for and none of them died.
ReportedVarsAreFinal ==
  main = "reported" /\ missed = {} /\ (\A w \in Workers : pc[w] # "crashed") =>
    \E w \in Workers : result.vars = [by |-> w, version |-> version[w]]

\* The run concludes even when a step never returns: each join has a timeout.
EveryRunConcludes == <>(main \in {"reported", "aborted"})

\* Every worker ends, also in a run without an iteration limit, when every
\* step returns: the deadline is read before each step.
WorkersFinish == StepsReturn => \A w \in Workers : <>(pc[w] \in Ended)

\* What the contract sees of a run: which executions succeeded, the workers whose
\* end the calling thread has seen, and how far the run itself has come.
Succeeded == [w \in Workers |-> [i \in DOMAIN log[w] |-> ~Failed(log[w][i])]]
Waited    == (1..(joining - 1)) \ missed
Phase     == IF main \in {"joining", "reading"} THEN "running"
             ELSE IF main = "aborted" THEN "aborted" ELSE "reported"

Contract == INSTANCE RunReport WITH
  history <- Succeeded, waited <- Waited, phase <- Phase, verdict <- result.verdict

\* The run keeps the contract of RunReport: it concludes once, and its verdict is
\* that of recorded executions with every one of each worker it waited for.
KeepsContract == Contract!Spec

--------------------------------------------------------------------------------
(***************************************************************************)
(* What the documentation says, which the code does not keep.              *)
(***************************************************************************)
\* README: a regression run fails on errors.  A worker that dies in run_step
\* is an error, but nothing of it is recorded.
ErrorsFailTheRun ==
  Totalled /\ (\E w \in Workers : pc[w] = "crashed") => result.verdict # "PASS"
================================================================================
