----------------------------- MODULE CollectionRun -----------------------------
(***************************************************************************)
(* A run of a collection, from the runner process (main of                 *)
(* tools/scenario_runner.py) through bin/run.sh to the answer of start_run *)
(* (webapp/app.py): the members one after the other, the variables a       *)
(* member exports into the environment of the later ones, the rule that    *)
(* skips the rest, and how exit codes turn into the answer.                *)
(*                                                                         *)
(* execute_scenario is one action here (ScenarioRun models it).  A counter *)
(* of its totals matters only as zero or not, so totals are the set of     *)
(* kinds that were counted, and their sum over members is the union.  A    *)
(* variable has no value here but the member that exported it.             *)
(***************************************************************************)
EXTENDS Integers, Sequences, FiniteSets

CONSTANTS Vars,      \* environment variables members refer to or export
          Plans      \* what the runner may be asked to run

Member == [present : BOOLEAN,      \* the file exists and holds an object
           hasSteps : BOOLEAN,     \* and targets a run may address
           needs : SUBSET Vars,    \* references of the steps without a value
           saves : SUBSET Vars,    \* variables the steps save
           exports : SUBSET Vars,  \* export_env; true means all of them
           fragile : BOOLEAN]      \* a step may raise: the worker dies
Plan   == [suite : BOOLEAN,        \* collection_mode
           members : Seq(Member),
           given : SUBSET Vars,    \* --extra-env-file
           strict : BOOLEAN,
           iterations : Nat \ {0}]

ASSUME PlansAssumption ==
  /\ Plans \subseteq Plan
  /\ \A p \in Plans : p.suite \/ Len(p.members) = 1

VARIABLES
  plan,     \* what is being run
  phase,    \* "loading", "members", "running", "exited", "scripted", "answered"
  current,  \* the member the loop of main is at
  bound,    \* keys of extra_env
  source,   \* the member a key of extra_env comes from, 0 for the given ones
  skip,     \* skip_remaining is set
  results,  \* child_results
  late,     \* members whose join timed out: a daemon thread still runs
  written,  \* scenario.json exists
  code,     \* exit code of the runner
  status    \* exit code of run.sh, then what start_run answers

vars == <<plan, phase, current, bound, source, skip, results, late, written,
          code, status>>

Kinds   == {"success", "failure", "mismatch"}
Ends    == {"done", "cut", "died", "late"}
Result  == [totals : SUBSET Kinds, ran : BOOLEAN]
Members == 1..Len(plan.members)
This    == plan.members[current]

Passed(totals) == totals = {"success"}

\* The totals of the whole collection.
Overall == UNION {results[i].totals : i \in DOMAIN results}

Init ==
  /\ plan \in Plans
  /\ phase = "loading"
  /\ current = 1
  /\ bound = plan.given
  /\ source = [v \in Vars |-> 0]
  /\ skip = FALSE
  /\ results = <<>>
  /\ late = {}
  /\ written = FALSE
  /\ code = 0
  /\ status = "none"

--------------------------------------------------------------------------------
(***************************************************************************)
(* Decisions of the code.                                                  *)
(***************************************************************************)
\* Fault: only an expectation mismatch of an exporting member skips the rest.
SkipsOnMismatch(m, totals) == plan.suite /\ m.exports # {} /\ "mismatch" \in totals

SkipsRest(m, totals) == plan.suite /\ m.exports # {} /\ ~Passed(totals)

Skipped == [totals |-> {"failure"}, ran |-> FALSE]

\* Fault: the exit code looks at failures only.
ExitOnFailure == IF plan.strict /\ "failure" \in Overall THEN 1 ELSE 0

ExitCode == IF plan.strict /\ ~Passed(Overall) THEN 1 ELSE 0

\* Fault: a missing scenario.json is only warned about.
ScriptIgnoresLoss == IF plan.strict /\ written /\ code # 0 THEN "nonzero" ELSE "zero"

\* run.sh: scenario_exit is the runner's code, or 1 without scenario.json.
ScriptCode == IF plan.strict /\ (~written \/ code # 0) THEN "nonzero" ELSE "zero"

\* What execute_scenario can return.  A worker that completed recorded a
\* step; one that died or hangs captured nothing, unless in an earlier
\* iteration.
CanReturn(m, end, totals, saved) ==
  /\ "mismatch" \in totals => "failure" \in totals
  /\ end = "done" => totals # {}
  /\ end = "died" => m.fragile
  /\ end \in {"died", "late"} /\ plan.iterations = 1 => saved = {}
  /\ saved \subseteq m.saves

--------------------------------------------------------------------------------
(***************************************************************************)
(* The runner.                                                             *)
(***************************************************************************)
\* SystemExit or an exception: exit code 1 and no scenario.json.
Dies ==
  /\ phase' = "exited"
  /\ code' = 1
  /\ late' = {}
  /\ UNCHANGED <<plan, current, bound, source, skip, results, written, status>>

Loadable == plan.members # <<>> /\ \A i \in Members : plan.members[i].present

Load ==
  /\ phase = "loading"
  /\ Loadable
  /\ phase' = "members"
  /\ UNCHANGED <<plan, current, bound, source, skip, results, late, written,
                 code, status>>

LoadFails == phase = "loading" /\ ~Loadable /\ Dies

SkipMember ==
  /\ phase = "members"
  /\ current \in Members
  /\ skip
  /\ results' = Append(results, Skipped)
  /\ current' = current + 1
  /\ UNCHANGED <<plan, phase, bound, source, skip, late, written, code, status>>

Runnable(m) == m.hasSteps /\ m.needs \subseteq bound

StartMember ==
  /\ phase = "members"
  /\ current \in Members
  /\ ~skip
  /\ Runnable(This)
  /\ phase' = "running"
  /\ UNCHANGED <<plan, current, bound, source, skip, results, late, written,
                 code, status>>

\* "Scenario has no steps", "Environment variables need a value".
RefuseMember ==
  /\ phase = "members"
  /\ current \in Members
  /\ ~skip
  /\ ~Runnable(This)
  /\ Dies

\* execute_scenario returns; its exports go into extra_env before the result
\* is judged.
MemberReturns ==
  /\ phase = "running"
  /\ \E end \in Ends, totals \in SUBSET Kinds, saved \in SUBSET Vars :
       /\ CanReturn(This, end, totals, saved)
       /\ results' = Append(results, [totals |-> totals, ran |-> TRUE])
       /\ bound' = bound \cup (saved \cap This.exports)
       /\ source' = [v \in Vars |-> IF v \in saved \cap This.exports
                                    THEN current ELSE source[v]]
       /\ skip' = SkipsRest(This, totals)
       /\ late' = IF end = "late" THEN late \cup {current} ELSE late
  /\ current' = current + 1
  /\ phase' = "members"
  /\ UNCHANGED <<plan, written, code, status>>

\* The aggregate grew while execute_scenario iterated over it.
MemberRaises == phase = "running" /\ Dies

\* A thread that outlived its join ends at last.
LateEnds ==
  /\ \E m \in late : late' = late \ {m}
  /\ UNCHANGED <<plan, phase, current, bound, source, skip, results, written,
                 code, status>>

\* Every member is dealt with: write scenario.json and exit.  Daemon threads
\* end with the process.
Write ==
  /\ phase = "members"
  /\ current \notin Members
  /\ written' = TRUE
  /\ code' = ExitCode
  /\ phase' = "exited"
  /\ late' = {}
  /\ UNCHANGED <<plan, current, bound, source, skip, results, status>>

--------------------------------------------------------------------------------
(***************************************************************************)
(* run.sh writes summary.json and exits; start_run answers.                *)
(***************************************************************************)
Script ==
  /\ phase = "exited"
  /\ phase' = "scripted"
  /\ status' = ScriptCode
  /\ UNCHANGED <<plan, current, bound, source, skip, results, late, written, code>>

Answer ==
  /\ phase = "scripted"
  /\ phase' = "answered"
  /\ status' = IF status = "zero" THEN "completed" ELSE "completed_with_errors"
  /\ UNCHANGED <<plan, current, bound, source, skip, results, late, written, code>>

Step ==
  \/ Load \/ LoadFails
  \/ SkipMember \/ StartMember \/ RefuseMember
  \/ MemberReturns \/ MemberRaises
  \/ Write \/ Script \/ Answer

Over == phase = "answered" /\ UNCHANGED vars

Next == Step \/ LateEnds \/ Over

\* The runner goes on: execute_scenario always returns (its joins time out).
Spec == Init /\ [][Next]_vars /\ WF_vars(Step)

--------------------------------------------------------------------------------
(***************************************************************************)
(* Properties.                                                             *)
(***************************************************************************)
\* Type invariant: the values every variable ranges over.
TypeOK ==
  /\ plan \in Plans
  /\ phase \in {"loading", "members", "running", "exited", "scripted", "answered"}
  /\ current \in Nat \ {0}
  /\ bound \in SUBSET Vars
  /\ source \in [Vars -> Nat]
  /\ skip \in BOOLEAN
  /\ results \in Seq(Result)
  /\ late \in SUBSET Nat
  /\ written \in BOOLEAN
  /\ code \in {0, 1}
  /\ status \in {"none", "zero", "nonzero", "completed", "completed_with_errors"}

\* A member of a collection never runs with a variable exported by a member
\* that failed, although a failed member's variables do enter extra_env: what
\* it reads was given by the caller or exported by an earlier member that
\* ran and passed.
NoValueFromAFailedMember ==
  phase = "running" =>
    \A v \in bound : source[v] # 0 =>
      /\ source[v] < current
      /\ results[source[v]].ran
      /\ Passed(results[source[v]].totals)

\* Does member i make the rest of the collection be skipped?
Breaks(i) ==
  /\ plan.suite
  /\ plan.members[i].exports # {}
  /\ ~Passed(results[i].totals)

\* The results are those of the first members, in order, and a member was
\* skipped exactly when an earlier member that exports did not pass.
ResultsAreInOrder ==
  /\ Len(results) = current - 1
  /\ current <= Len(plan.members) + 1
  /\ \A i \in 1..Len(results) :
       results[i].ran <=> \A j \in 1..(i - 1) : ~Breaks(j)

\* A strict run whose caller sees "completed" wrote a report of every member,
\* and no step failed, nothing was skipped and something was executed.
CompletedMeansClean ==
  plan.strict /\ status = "completed" =>
    /\ written
    /\ Len(results) = Len(plan.members)
    /\ \A i \in 1..Len(results) :
         results[i].ran /\ results[i].totals \in {{"success"}, {}}
    /\ \E i \in 1..Len(results) : Passed(results[i].totals)

\* The whole chain keeps the contract of SuiteReport, and always answers.
VerdictOfResult(r) ==
  IF ~r.ran THEN "skip"
  ELSE IF Passed(r.totals) THEN "pass"
  ELSE IF r.totals = {} THEN "empty" ELSE "fail"

Contract == INSTANCE SuiteReport WITH
  size     <- Len(plan.members),
  strict   <- plan.strict,
  reported <- [i \in 1..Len(results) |-> VerdictOfResult(results[i])],
  answer   <- IF phase = "answered" THEN status ELSE "none"
KeepsContract == Contract!Spec

--------------------------------------------------------------------------------
(***************************************************************************)
(* What the documentation says, which the code does not keep.              *)
(***************************************************************************)
\* README: a suite run with --regression fails on errors.  When main counts a
\* member as failed (it prints FAIL and `failed' grows), the exit code says so.
FailedMemberFailsTheSuite ==
  plan.strict /\ status = "completed" =>
    \A i \in 1..Len(results) : Passed(results[i].totals)

================================================================================
