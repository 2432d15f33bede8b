-------------------------------- MODULE StepTest --------------------------------
(***************************************************************************)
(* The tests of steps in the editor: test_step, test_sequence and          *)
(* preview_step of webapp/app.py, with preview_step_request of             *)
(* tools/scenario_runner.py, beside the worker a run of the same scenario  *)
(* starts (one user, one iteration, as start_run does for a regression).   *)
(*                                                                         *)
(* The page may ask for a test first and then for previews, with each of   *)
(* which it sends the variables it has from those before.  Then the        *)
(* scenario is run.  The API under test answers the same step alike each   *)
(* time, and an action that raises does so each time.  What one exchange   *)
(* does is in HttpStep: here it is an answer and what is saved from it.    *)
(***************************************************************************)
EXTENDS EnvValues, FiniteSets

CONSTANTS Vars,     \* the names of variables
          Batches   \* sets of data, scenarios and requests to combine

\* How an exchange ends: as expected, otherwise, not answered or not even sent;
\* whether the URL asked for has a code; whether it ends at a redirect that is
\* not followed, and whether the URL redirected to has a code.
Answers == [status : {"expected", "other", "lost", "unsent"}, asked : BOOLEAN,
            moved : {"no", "plain", "code"}]

\* A prepare action makes a value or copies one, of which it may have a default.
Actions == [out : Vars, of : Vars \cup {"nothing"}, default : {"none", "empty", "text"}]

\* A step: its prepare actions, and what is left unmade if one raises (those
\* before it are in prepare, the outputs of the others in unmade, with "nothing"
\* for one that has none); the variables it uses, and those it is spared a check
\* for (with a default, as the seconds of a SLEEP or in the env of an EXEC); what
\* it saves, and from where; and stop_on_failure.
Sources == {"json", "url", "code", "body", "stdout"}
Scenario ==
  Seq([method  : {"HTTP", "EXEC", "PREPARE", "SLEEP"},
       prepare : Seq(Actions),
       unmade  : SUBSET (Vars \cup {"nothing"}),
       uses    : SUBSET Vars,
       spared  : SUBSET Vars,
       save    : UNION {[D -> Sources] : D \in SUBSET Vars},
       stop    : {"true", "false", "unset"}])

\* What the page asks for; test_step and preview_step name a step that is there.
Asked == [kind : {"test", "sequence", "preview"}, step : Nat, hydrate : BOOLEAN]

ASSUME NothingAssumption == "nothing" \notin Vars

ASSUME BatchesAssumption ==
  \A b \in Batches :
    /\ b.scenarios \subseteq Scenario /\ b.requests \subseteq Seq(Asked)
    /\ b.data \subseteq Document
    /\ \A s \in b.scenarios, r \in b.requests : \A n \in DOMAIN r :
         /\ r[n].kind # "sequence" => r[n].step \in DOMAIN s
         /\ r[n].kind # "preview" => n = 1

VARIABLES
  case,     \* the case
  now,      \* which of the page's requests is served, 3: the run
  pc,       \* "received", "prior", "selected" or "over"
  context,  \* the base URL and the environment, and whether they are refused
  at,       \* the next step
  vars,     \* context["vars"]
  executed, \* the steps executed for this request
  results,  \* for each request, how it ended
  history   \* for each request, vars before it and after each step

svars == <<case, now, pc, context, at, vars, executed, results, history>>

Value(kind, i) == [kind |-> kind, at |-> i]
Unset == Value("unset", 0)
Null  == Value("null", 0)
Empty == Value("empty", 0)
NoValue(v) == v \in {Unset, Null, Empty}

Calls(step) == step.method \in {"HTTP", "EXEC"}

Steps   == case.steps
Request == case.requests[now]
Running == now = Len(case.requests) + 1

--------------------------------------------------------------------------------
(***************************************************************************)
(* run_step, as far as variables go.                                       *)
(***************************************************************************)
\* run_prepare, for one action: its output is made, or set to a variable ...
Prepare(action, i, was) ==
  [was EXCEPT ![action.out] =
     IF action.of = "nothing" THEN Value("made", i)
     ELSE IF ~NoValue(was[action.of]) THEN was[action.of]
     ELSE IF action.default = "text" THEN Value("default", i) ELSE Empty]

\* ... and for one after the other.
Made(actions, i, before) ==
  LET after[n \in 0..Len(actions)] ==
        IF n = 0 THEN before ELSE Prepare(actions[n], i, after[n - 1])
  IN  after[Len(actions)]

\* Fault: a query parameter that is not there is saved all the same.
Dropped(was) == Null

\* A query parameter that is not there leaves the variable as it was.
Kept(was) == IF was = Unset THEN Null ELSE was

Answered(i) == case.answers[i].status \in {"expected", "other"}

\* What apply_save takes with the final URL and the body at hand.
Saved(source, i, was) ==
  LET answer == case.answers[i] IN
  CASE source = "json" -> IF answer.status = "expected" THEN Value("json", i) ELSE Null
    [] source = "url"  -> IF answer.status = "lost" THEN Null
                          ELSE Value(IF answer.moved # "no" THEN "final url" ELSE "url", i)
    [] source = "code" -> IF answer.moved = "code" THEN Value("final code", i)
                          ELSE IF answer.moved = "no" /\ answer.asked THEN Value("code", i)
                          ELSE Kept(was)
    [] source = "body" -> Value(IF Answered(i) THEN "body" ELSE "error", i)
    [] source = "stdout" -> IF answer.status = "lost" THEN was ELSE Value("stdout", i)

\* And without them, from the response alone.
SavedAgain(source, i, was) ==
  LET answer == case.answers[i] IN
  CASE source = "json" -> IF answer.status = "expected" THEN Value("json", i) ELSE Null
    [] source = "url"  -> Value("url", i)
    [] source = "code" -> IF answer.asked THEN Value("code", i) ELSE Kept(was)
    [] OTHER -> was

Save(i, before) ==
  [v \in Vars |-> IF v \in DOMAIN Steps[i].save
                  THEN Saved(Steps[i].save[v], i, before[v]) ELSE before[v]]
SaveAgain(i, before) ==
  [v \in Vars |-> IF v \in DOMAIN Steps[i].save
                  THEN SavedAgain(Steps[i].save[v], i, before[v]) ELSE before[v]]

\* The variables after run_step: a PREPARE only makes values, a SLEEP nothing.
Executed(i, before) ==
  LET step == Steps[i]
      made == Made(step.prepare, i, before)
  IN  IF step.method \in {"PREPARE", "SLEEP"} THEN made ELSE Save(i, made)

\* test_step and test_sequence save once more.
SavesAgain(i) == Steps[i].method = "HTTP" /\ Answered(i)

Tested(i, before) ==
  LET ran == Executed(i, before)
  IN  IF SavesAgain(i) THEN SaveAgain(i, ran) ELSE ran

\* A prepare action that raises is a failure of a PREPARE, but ends a worker or
\* a request that comes to it with another step.
Raises(step) == step.unmade # {}
Breaks(i)    == Raises(Steps[i]) /\ Steps[i].method # "PREPARE"

Succeeds(i) ==
  \/ Steps[i].method = "PREPARE" /\ ~Raises(Steps[i])
  \/ Steps[i].method = "SLEEP"
  \/ Calls(Steps[i]) /\ case.answers[i].status = "expected"

\* missing_var_tokens
Copied(step) == {step.prepare[n].of : n \in {m \in DOMAIN step.prepare : step.prepare[m].default = "none"}}
Needs(step)  == (step.uses \ step.spared) \cup (Copied(step) \ {"nothing"})
Unresolved(step, in) == {v \in Needs(step) : NoValue(in[v])}

--------------------------------------------------------------------------------
(***************************************************************************)
(* Requests.                                                               *)
(***************************************************************************)
\* Only calls are answered.  What the URLs have is told apart where it is saved.
AnswersTo(step) ==
  LET saved == {step.save[v] : v \in DOMAIN step.save} \cap {"url", "code"} IN
  {answer \in Answers :
     /\ answer.status # "expected" => Calls(step)
     /\ answer.status = "unsent"   => saved # {}
     /\ answer.asked               => "code" \in saved /\ answer.status # "lost"
     /\ answer.moved # "no"        => saved # {} /\ answer.status \in {"expected", "other"}}

Init ==
  /\ \E b \in Batches : \E d \in b.data, s \in b.scenarios, r \in b.requests :
       \E a \in [DOMAIN s -> UNION {AnswersTo(s[i]) : i \in DOMAIN s}] :
         /\ \A i \in DOMAIN s : a[i] \in AnswersTo(s[i])
         /\ case = [data |-> d, steps |-> s, answers |-> a, requests |-> r]
  /\ now = 1
  /\ pc = "received"
  /\ context = [refused |-> FALSE]
  /\ at = 1
  /\ vars = [v \in Vars |-> Unset]
  /\ executed = {}
  /\ results = <<>>
  /\ history = <<>>

Advance(after) ==
  /\ vars' = after
  /\ at' = at + 1
  /\ executed' = executed \cup {at}
  /\ history' = [history EXCEPT ![now] = Append(@, after)]
  /\ UNCHANGED <<case, now, context, results>>

Ends(status) ==
  /\ results' = Append(results, [status |-> status, context |-> context',
                                  vars |-> vars', executed |-> executed'])
  /\ pc' = "over"

\* The context: that of the page for a preview, else only the worker's id.
Begin ==
  /\ pc = "received"
  /\ context' = IF Running THEN RunPrepared(case.data) ELSE TestPrepared(case.data)
  /\ at' = 1
  /\ executed' = {}
  /\ vars' = IF ~Running /\ Request.kind = "preview" THEN vars ELSE [v \in Vars |-> Unset]
  /\ history' = Append(history, <<vars'>>)
  /\ IF context'.refused
     THEN Ends("refused")
     ELSE pc' = "prior" /\ UNCHANGED results
  /\ UNCHANGED <<case, now>>

\* Where the steps before the selected one end.
Selected == IF Running \/ Request.kind = "sequence" THEN Len(Steps) + 1 ELSE Request.step

\* Fault: any failure stops test_step.
StopsAlways(i) == Request.kind = "test"

\* stop_on_failure must be there and true for test_step to stop ...
StopsTest(i) == Request.kind = "test" /\ Steps[i].stop = "true"
\* ... and false for a worker to go on.
StopsWorker(i) == Steps[i].stop # "false"

TestPrior ==
  /\ pc = "prior"
  /\ ~Running /\ Request.kind # "preview"
  /\ at < Selected /\ ~Breaks(at)
  /\ Advance(Tested(at, vars))
  /\ IF ~Succeeds(at) /\ StopsTest(at)
     THEN /\ pc' = "blocked"
     ELSE pc' = pc

Blocked ==
  /\ pc = "blocked"
  /\ UNCHANGED <<case, now, context, at, vars, executed, history>>
  /\ Ends("blocked")

TestSelected ==
  /\ pc = "prior"
  /\ ~Running /\ Request.kind = "test"
  /\ at = Selected /\ ~Breaks(at)
  /\ Advance(Tested(at, vars))
  /\ pc' = "selected"

RunStep ==
  /\ pc = "prior"
  /\ Running
  /\ at < Selected /\ ~Breaks(at)
  /\ Advance(Executed(at, vars))
  /\ pc' = IF ~Succeeds(at) /\ StopsWorker(at) THEN "selected" ELSE pc

Outputs(step) == {step.prepare[n].out : n \in DOMAIN step.prepare} \cup (step.unmade \ {"nothing"})

\* A PREPARE whose outputs the page sent is not repeated.
DoneBefore(step) == Outputs(step) # {} /\ \A v \in Outputs(step) : ~NoValue(vars[v])

\* Fault: every step before is run again.
NeedsAll(i) == Steps[i].method # "SLEEP" /\ Request.hydrate

\* Fault: only PREPARE steps are run.
NeedsPrepared(i) == Steps[i].method = "PREPARE" /\ ~DoneBefore(Steps[i])

\* Steps before a previewed one run only for what it still needs.
NeedsPrior(i) ==
  CASE Steps[i].method = "PREPARE" -> ~DoneBefore(Steps[i])
    [] Steps[i].method = "SLEEP"   -> FALSE
    [] OTHER -> Request.hydrate /\ Unresolved(Steps[Selected], vars) # {}

PreviewPrior ==
  /\ pc = "prior"
  /\ ~Running /\ Request.kind = "preview"
  /\ at < Selected
  /\ NeedsPrior(at) => ~Breaks(at)
  /\ IF NeedsPrior(at)
     THEN Advance(Executed(at, vars))
     ELSE at' = at + 1 /\ UNCHANGED <<case, now, context, vars, executed, results, history>>
  /\ pc' = pc

\* Its own prepare actions run, the step itself does not.
PreviewSelected ==
  /\ pc = "prior"
  /\ ~Running /\ Request.kind = "preview"
  /\ at = Selected /\ ~Raises(Steps[at])
  /\ vars' = Made(Steps[at].prepare, at, vars)
  /\ pc' = "selected"
  /\ UNCHANGED <<case, now, context, at, executed, results, history>>

\* What raises ends the worker, or the request: the page has what it had before.
Raised ==
  IF Running \/ Request.kind # "preview" THEN Breaks(at)
  ELSE IF at < Selected THEN NeedsPrior(at) /\ Breaks(at)
  ELSE Raises(Steps[at])

Broken ==
  /\ pc = "prior"
  /\ at \in DOMAIN Steps /\ Raised
  /\ vars' = history[now][1]
  /\ UNCHANGED <<case, now, context, at, executed, history>>
  /\ Ends("error")

Answer ==
  /\ pc = "selected" \/ (pc = "prior" /\ at = Selected /\ at = Len(Steps) + 1)
  /\ UNCHANGED <<case, now, context, at, vars, executed, history>>
  /\ Ends("ok")

\* The next request, or the run.
NextRequest ==
  /\ pc = "over"
  /\ ~Running
  /\ now' = now + 1
  /\ pc' = "received"
  /\ UNCHANGED <<case, context, at, vars, executed, results, history>>

Done == pc = "over" /\ Running /\ UNCHANGED svars

Next == \/ Begin \/ TestPrior \/ Blocked \/ TestSelected \/ RunStep
        \/ PreviewPrior \/ PreviewSelected \/ Broken \/ Answer \/ NextRequest \/ Done

Spec == Init /\ [][Next]_svars

--------------------------------------------------------------------------------
(***************************************************************************)
(* Properties.  Each looks back when everything is over.                   *)
(***************************************************************************)
AllDone == pc = "over" /\ Running
Tests == {n \in DOMAIN case.requests : case.requests[n].kind # "preview"}
RunAt(k) == history[Len(history)][k]
Reached(i) == i \in executed
AskedFor(v) ==
  CASE v.kind = "final url"  -> Value("url", v.at)
    [] v.kind = "final code" -> Value("code", v.at)
    [] OTHER -> v

\* A code of the URL asked for where that redirected to has none.
Extra(v) ==
  v.kind = "code" /\ LET answer == case.answers[v.at] IN answer.asked /\ answer.moved = "plain"

\* After each step that both execute a test has the variables a run has.  The
\* one exception is where a redirect is not followed: the second apply_save
\* puts what the URL that was asked for has in the place of what the one
\* redirected to has, and also where that one has nothing to save.
TestsLeaveWhatTheRunLeaves ==
  AllDone => \A n \in Tests : \A k \in DOMAIN history[n] \cap DOMAIN history[Len(history)] :
               \A v \in Vars : \/ history[n][k][v] \in {RunAt(k)[v], AskedFor(RunAt(k)[v])}
                               \/ Extra(history[n][k][v])

\* A test that is blocked is blocked by what keeps the run from the step, too.
\* (Not the reverse: without stop_on_failure a run stops and a test does not.)
BlockedMeansUnreached ==
  AllDone => \A n \in Tests : results[n].status = "blocked" => ~Reached(case.requests[n].step)

Previews == {n \in DOMAIN case.requests :
               case.requests[n].kind = "preview" /\ results[n].status = "ok"}

\* The places of a scenario that write a variable, and those that read it: its
\* prepare actions in turn, then the request, then what is saved.
WritesAt(i, n) ==
  LET step == Steps[i] IN
  IF n \in DOMAIN step.prepare THEN {step.prepare[n].out}
  ELSE IF n = Len(step.prepare) + 2 THEN DOMAIN step.save ELSE {}
ReadsAt(i, n) ==
  LET step == Steps[i] IN
  IF n \in DOMAIN step.prepare THEN {step.prepare[n].of}
  ELSE IF n = Len(step.prepare) + 1 THEN step.uses ELSE {}
Spots == UNION {{i} \X (1 .. Len(Steps[i].prepare) + 2) : i \in DOMAIN Steps}
Earlier(p, q) == p[1] < q[1] \/ (p[1] = q[1] /\ p[2] < q[2])

\* A scenario that writes each variable once, before it is read.
Straight ==
  \A p \in Spots : \A v \in WritesAt(p[1], p[2]) : \A q \in Spots :
     /\ v \in WritesAt(q[1], q[2]) => q = p
     /\ v \in ReadsAt(q[1], q[2])  => Earlier(p, q)

\* In a scenario that writes each variable once, before it is read, a preview
\* calls the API or a program again only if the page lacks a value the step
\* needs: the PREPARE steps it repeats take none away.  (Otherwise one of them
\* may copy a variable that is still empty over a value that was saved later.)
PreviewsAreQuiet ==
  AllDone /\ Straight => \A n \in Previews :
            Unresolved(Steps[case.requests[n].step], history[n][1]) = {}
              => \A i \in results[n].executed : Steps[i].method = "PREPARE"

\* A preview has all the step needs from the page, or gets it from the steps
\* before.  (It leaves out every SLEEP, with its prepare actions if it has any.)
Informed(n) ==
  LET i == case.requests[n].step IN
  \/ Unresolved(Steps[i], history[n][1]) = {}
  \/ /\ case.requests[n].hydrate
     /\ \A j \in 1 .. i - 1 : Steps[j].method = "SLEEP" => Steps[j].prepare = <<>>

\* An informed preview shows the step with the values the run sends it with,
\* whatever the page tested before, in a scenario that writes each variable once,
\* before it is read.  (Otherwise a value of the page may be an older one.  Three
\* exceptions: what a test has where a redirect is not followed; what was made of
\* the default of a prepare action, which the page keeps; and no value where the
\* check does not look for one.)
PreviewShowsWhatTheRunSends ==
  AllDone /\ Straight => \A n \in Previews :
    LET i     == case.requests[n].step
        shown == results[n].vars
        sent  == Made(Steps[i].prepare, i, RunAt(i))
    IN  Reached(i) /\ Informed(n) => \A v \in Steps[i].uses :
          \/ shown[v] \in {sent[v], AskedFor(sent[v])}
          \/ Extra(shown[v]) \/ shown[v].kind = "default"
          \/ NoValue(shown[v]) /\ (NoValue(sent[v]) \/ v \in Steps[i].spared)

Data    == case.data
Given   == Over(Data.overrides, Stored(Data))
TheTest == results[1].context
TheRun  == results[Len(results)].context
Behind(v) == \E p \in Holes(v) : Holes(Given[p.name]) # {}

\* What a value means where the other names have the values of env.
Meaning(v, env) ==
  FlattenSeq([i \in DOMAIN v |->
    LET p == v[i] IN
    IF p.kind = "env" /\ Concrete(env[p.name]) THEN env[p.name]
    ELSE IF p.kind = "env" /\ p.default # None THEN p.default ELSE <<p>>])

\* Expansion gives every name its value with the final values of the names it
\* refers to, in whatever order they become known.  (Three exceptions: a default
\* is taken when what it stands for is not known yet; a reference to an encoded
\* companion sees it before it is brought in step; and one to the host that is
\* brought in may see what was there before, or nothing.)
ExpansionIsConsistent ==
  AllDone => \A c \in {TheRun, TheTest} : ~c.refused =>
    \A k \in Keys \ (Encodings \cup {"server", "base_url"}) :
      \/ c.env[k] = Meaning(Given[k], c.env)
      \/ \E p \in Holes(Given[k]) :
           \/ p.default # None /\ Holes(Given[p.name]) # {}
           \/ p.name \in Encodings
           \/ p.name \in {"server", "base_url"} /\ (k \in ConnKeys \/ p.default # None)

\* A test calls the host the run calls, and is refused for the same reasons.
\* (Exceptions: a run knows no host from the URLs of steps, and a test finds
\* the host without the overrides of the page when it is two references away.)
TestCallsWhatTheRunCalls ==
  AllDone /\ TheRun.base # <<>> =>
    \/ /\ TheTest.refused = TheRun.refused
       /\ ~TheRun.refused => TheTest.base = TheRun.base
    \/ \E k \in Keys : ~Blank(Data.overrides[k]) /\ \E h \in ConnKeys : Behind(Given[h])

\* What the check lets through is rendered without a gap, or with the default
\* that was asked for.  (Exceptions: names of hosts, of which one is enough; a
\* default that is not taken because the value that could not be expanded is in
\* its place; and a name with a dot that is used without env. though its value is
\* inside of another, or with env. though it is a key: the check finds both.)
NothingRendersBlank ==
  AllDone => \A c \in {TheRun, TheTest} : ~c.refused =>
    \A v \in Data.texts : \A p \in Holes(v) :
      \/ Concrete(Rendered(p, c.env)) \/ Rendered(p, c.env) = p.default
      \/ p.name \in ConnKeys
      \/ p.way = "bare" /\ p.name \in Nested
      \/ p.way = "path" /\ p.name \in Dotted
      \/ p.default # None /\ Holes(Given[p.name]) # {}
================================================================================
