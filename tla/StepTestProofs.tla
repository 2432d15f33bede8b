----------------------------- MODULE StepTestProofs -----------------------------
(***************************************************************************)
(* Safety of StepTest for all scenarios, all ways they end and all         *)
(* requests of the page: what tests of steps have in common with a run.    *)
(***************************************************************************)
EXTENDS StepTest, SequenceTheorems, FiniteSetTheorems, WellFoundedInduction, TLAPS

(***************************************************************************)
(* The inductive invariant, by parts.                                      *)
(***************************************************************************)
Kinds == {"unset", "null", "empty", "made", "default", "json", "url", "final url", "code", "final code",
          "error", "body", "stdout"}
Val   == [kind : Kinds, at : Nat]

\* A valuation of the variables, and the one each test and each run begins with.
Valuation == [Vars -> Val]
Blanks    == [v \in Vars |-> Unset]
Histories == Seq(Valuation) \ {<<>>}

Documents == UNION {b.data : b \in Batches}
Contexts  == {[refused |-> FALSE]} \cup {RunPrepared(d) : d \in Documents}
               \cup {TestPrepared(d) : d \in Documents}
Result    == [status : {"ok", "refused", "blocked", "error"}, context : Contexts,
              vars : Valuation, executed : SUBSET Nat]

\* The scenario and the answers of the API to it.
ScenarioFits == Steps \in Scenario /\ case.answers \in [DOMAIN Steps -> Answers]

\* Type invariant: the values every variable ranges over.
TypeOK ==
  /\ ScenarioFits
  /\ case.data \in Documents
  /\ case.requests \in Seq(Asked)
  /\ \A n \in DOMAIN case.requests :
       case.requests[n].kind # "sequence" => case.requests[n].step \in DOMAIN Steps
  /\ now \in 1 .. Len(case.requests) + 1
  /\ pc \in {"received", "prior", "blocked", "selected", "over"}
  /\ context \in Contexts
  /\ at \in Nat \ {0}
  /\ vars \in Valuation
  /\ executed \in SUBSET Nat
  /\ results \in Seq(Result)
  /\ Len(results) = IF pc = "over" THEN now ELSE now - 1
  /\ history \in Seq(Histories)
  /\ Len(history) = IF pc = "received" THEN now - 1 ELSE now

\* Before the answer a request is at a step of the scenario, or past the last.
PlaceInv ==
  /\ pc = "prior" => at <= Selected
  /\ pc = "blocked" => ~Running /\ Request.kind = "test" /\ at <= Selected

\* The requests that leave the variables step by step, tests and the run, and
\* what a step of theirs leaves.
RunNumber == Len(case.requests) + 1
Lines == {n \in 1 .. RunNumber : n # RunNumber => case.requests[n].kind # "preview"}
Left(n, i, before) == IF n = RunNumber THEN Executed(i, before) ELSE Tested(i, before)

HistoryInv ==
  \A n \in Lines : n <= Len(history) =>
    /\ history[n][1] = Blanks
    /\ \A k \in DOMAIN history[n] :
         k > 1 => history[n][k] = Left(n, k - 1, history[n][k - 1])
    /\ n = now => at = Len(history[n]) /\ (pc = "prior" => vars = history[n][at])

\* A step before m that failed and has stop_on_failure.
FailsBefore(m) == \E i \in DOMAIN Steps : i < m /\ ~Succeeds(i) /\ Steps[i].stop = "true"

BlockedInv ==
  /\ pc = "blocked" => FailsBefore(Request.step)
  /\ \A n \in DOMAIN results : results[n].status = "blocked" => FailsBefore(case.requests[n].step)

\* The run executes the steps in order and none after one that stops it.
RunInv ==
  Running /\ pc # "received" =>
    /\ executed = 1 .. at - 1
    /\ \A i \in executed : Succeeds(i) \/ ~StopsWorker(i) \/ (i = at - 1 /\ pc # "prior")

\* The variables of a test beside those of a run.
AlikeAt(w, u) == w \in {u, AskedFor(u)} \/ Extra(w)
Alike(x, z)   == \A v \in Vars : AlikeAt(x[v], z[v])

AlikeInv ==
  Running /\ pc # "received" =>
    \A n \in Lines \ {now} : \A k \in DOMAIN history[n] \cap DOMAIN history[now] :
      Alike(history[n][k], history[now][k])

IInv == TypeOK /\ PlaceInv /\ HistoryInv /\ BlockedInv /\ RunInv /\ AlikeInv

--------------------------------------------------------------------------------
(***************************************************************************)
(* Induction on a list of prepare actions: what Made makes of it.          *)
(***************************************************************************)
\* A set of numbers has a least one.
LEMMA Least == ASSUME NEW T \in SUBSET Nat, T # {} PROVE \E x \in T : \A y \in T : x <= y
<1>1. PICK R : R = OpToRel(<, Nat)
  OBVIOUS
<1>2. IsWellFoundedOn(R, Nat)
  BY <1>1, NatLessThanWellFounded
<1>3. PICK x \in T : \A y \in T : <<y, x>> \notin R
  BY <1>2, WFMin
<1>4. \A y, z \in Nat : <<y, z>> \in R <=> y < z
  BY <1>1 DEF OpToRel
<1>5. ASSUME NEW y \in T PROVE x <= y
  <2>1. x \in Nat /\ y \in Nat /\ ~(y < x)
    BY <1>3, <1>4
  <2> QED
    BY <2>1
<1> QED
  BY <1>3, <1>5

\* One action after the other: the recursion has a solution, so Made is its end.
LEMMA MadeIs ==
  ASSUME NEW actions, Len(actions) \in Nat, NEW i, NEW before
  PROVE  \E f : /\ f[0] = before
                /\ \A n \in 1..Len(actions) : f[n] = Prepare(actions[n], i, f[n - 1])
                /\ Made(actions, i, before) = f[Len(actions)]
<1> DEFINE Body(f, n) == IF n = 0 THEN before ELSE Prepare(actions[n], i, f[n - 1])
<1> DEFINE Fits(f, m) == f = [n \in 0..m |-> Body(f, n)]
<1> DEFINE after == CHOOSE f : Fits(f, Len(actions))
<1>1. ASSUME NEW m \in 0..Len(actions) PROVE \E f : Fits(f, m)
  <2> DEFINE T == {n \in Nat : n <= Len(actions) /\ ~\E f : Fits(f, n)}
  <2> SUFFICES ASSUME T # {} PROVE FALSE
    BY <1>1
  <2>1. PICK x \in T : \A y \in T : x <= y
    BY Least
  <2>2. CASE x = 0
    <3>1. PICK f : f = [n \in 0..0 |-> before]
      OBVIOUS
    <3>2. Fits(f, 0)
      BY <3>1
    <3> QED
      BY <2>1, <2>2, <3>2
  <2>3. CASE x # 0
    <3>1. x - 1 \in Nat /\ x - 1 <= Len(actions) /\ x - 1 \notin T
      <4>1. x \in Nat /\ x <= Len(actions) /\ x # 0
        BY <2>1, <2>3
      <4>2. ~(x <= x - 1)
        BY <4>1
      <4>3. x - 1 \notin T
        <5> HIDE DEF T
        <5> QED
          BY <2>1, <4>2
      <4> QED
        BY <4>1, <4>3
    <3>2. PICK g : Fits(g, x - 1)
      BY <3>1
    <3>3. PICK h : h = [n \in 0..x |-> IF n = x THEN Prepare(actions[x], i, g[x - 1]) ELSE g[n]]
      OBVIOUS
    <3>4. ASSUME NEW n \in 0..x PROVE h[n] = Body(h, n)
      <4>1. CASE n = x
        <5>1. h[n] = Prepare(actions[n], i, g[n - 1]) /\ n # 0
          BY <2>1, <2>3, <3>3, <4>1
        <5>2. h[n - 1] = g[n - 1]
          BY <2>1, <2>3, <3>3, <4>1
        <5> QED
          BY <5>1, <5>2
      <4>2. CASE n # x
        <5>1. n \in 0..(x - 1) /\ h[n] = g[n]
          BY <2>1, <3>3, <4>2
        <5>2. g[n] = Body(g, n)
          BY <3>2, <5>1
        <5>3. n # 0 => h[n - 1] = g[n - 1]
          BY <2>1, <3>3, <4>2
        <5> QED
          BY <5>1, <5>2, <5>3
      <4> QED
        BY <4>1, <4>2
    <3>5. Fits(h, x)
      <4>1. h = [n \in 0..x |-> h[n]]
        BY <3>3
      <4> HIDE DEF Body
      <4> QED
        BY <3>4, <4>1
    <3> QED
      BY <2>1, <3>5
  <2> QED
    BY <2>2, <2>3
<1>2. Fits(after, Len(actions))
  <2>1. \E f : Fits(f, Len(actions))
    BY <1>1
  <2> HIDE DEF Fits
  <2> QED
    BY <2>1
<1>3. Made(actions, i, before) = after[Len(actions)]
  BY DEF Made
<1>4. \A n \in 0..Len(actions) : after[n] = Body(after, n)
  <2> HIDE DEF Body
  <2> QED
    BY <1>2
<1>5. PICK f : f = after
  OBVIOUS
<1>6. Made(actions, i, before) = f[Len(actions)] /\ \A n \in 0..Len(actions) : f[n] = Body(f, n)
  BY <1>3, <1>4, <1>5
<1>7. /\ f[0] = before
      /\ \A n \in 1..Len(actions) : f[n] = Prepare(actions[n], i, f[n - 1])
  BY <1>6
<1> QED
  BY <1>6, <1>7

LEMMA BlankTypes ==
  /\ Unset \in Val /\ Null \in Val /\ Empty \in Val /\ Blanks \in Valuation
  /\ \A i \in Nat : \A k \in Kinds : Value(k, i) \in Val
  BY DEF Unset, Null, Empty, Blanks, Valuation, Val, Value, Kinds

LEMMA PrepareTyped ==
  ASSUME NEW action \in Actions, NEW i \in Nat, NEW was \in Valuation
  PROVE  Prepare(action, i, was) \in Valuation
<1>1. action.of # "nothing" => was[action.of] \in Val
  BY DEF Actions, Valuation
<1>2. Value("made", i) \in Val /\ Value("default", i) \in Val
  BY BlankTypes DEF Kinds
<1> QED
  BY <1>1, <1>2, BlankTypes DEF Prepare, Valuation, Actions

LEMMA AskedForIs ==
  ASSUME NEW u \in Val
  PROVE  /\ \/ AskedFor(u) = u /\ u.kind \notin {"final url", "final code"}
            \/ AskedFor(u) = Value("url", u.at) /\ u.kind = "final url"
            \/ AskedFor(u) = Value("code", u.at) /\ u.kind = "final code"
         /\ AskedFor(u) \in Val /\ (NoValue(AskedFor(u)) <=> NoValue(u))
         /\ NoValue(u) => AskedFor(u) = u
<1>0. Unset.kind = "unset" /\ Null.kind = "null" /\ Empty.kind = "empty"
  BY DEF Unset, Null, Empty, Value
<1>1. u = [kind |-> u.kind, at |-> u.at] /\ u.kind \in Kinds /\ u.at \in Nat
  BY DEF Val
<1>2. CASE u.kind \notin {"final url", "final code"}
  BY <1>2 DEF AskedFor
<1>3. CASE u.kind = "final url"
  <2>1. AskedFor(u) = Value("url", u.at)
    BY <1>3 DEF AskedFor
  <2>2. ~NoValue(u)
    BY <1>0, <1>3 DEF NoValue
  <2>3. ~NoValue(Value("url", u.at))
    BY DEF NoValue, Unset, Null, Empty, Value
  <2> QED
    BY <1>1, <1>3, <2>1, <2>2, <2>3, BlankTypes DEF Kinds
<1>4. CASE u.kind = "final code"
  <2>1. AskedFor(u) = Value("code", u.at)
    BY <1>4 DEF AskedFor
  <2>2. ~NoValue(u)
    BY <1>0, <1>4 DEF NoValue
  <2>3. ~NoValue(Value("code", u.at))
    BY DEF NoValue, Unset, Null, Empty, Value
  <2> QED
    BY <1>1, <1>4, <2>1, <2>2, <2>3, BlankTypes DEF Kinds
<1> QED
  BY <1>2, <1>3, <1>4

LEMMA SameBlank ==
  ASSUME NEW w \in Val, NEW u \in Val, AlikeAt(w, u)
  PROVE  (NoValue(w) => NoValue(u)) /\ (NoValue(u) => NoValue(w) \/ Extra(w))
<1>1. CASE w \in {u, AskedFor(u)}
  BY <1>1, AskedForIs
<1>2. CASE Extra(w)
  BY <1>2 DEF NoValue, Extra, Unset, Null, Empty, Value
<1> QED
  BY <1>1, <1>2 DEF AlikeAt

LEMMA PrepareAlike ==
  ASSUME NEW action \in Actions, NEW i \in Nat, NEW x \in Valuation, NEW z \in Valuation,
         Alike(x, z)
  PROVE  Alike(Prepare(action, i, x), Prepare(action, i, z))
<1> SUFFICES ASSUME NEW v \in Vars
             PROVE  AlikeAt(Prepare(action, i, x)[v], Prepare(action, i, z)[v])
  BY DEF Alike
<1>1. CASE v # action.out
  BY <1>1 DEF Prepare, Valuation, Alike
<1>2. CASE v = action.out /\ action.of = "nothing"
  BY <1>2 DEF Prepare, Valuation, AlikeAt
<1>3. CASE v = action.out /\ action.of # "nothing"
  <2>1. PICK o \in Vars : o = action.of
    BY <1>3 DEF Actions
  <2> DEFINE other == IF action.default = "text" THEN Value("default", i) ELSE Empty
  <2>2. AlikeAt(x[o], z[o]) /\ x[o] \in Val /\ z[o] \in Val
    BY DEF Alike, Valuation
  <2>3. /\ Prepare(action, i, x)[v] = IF NoValue(x[o]) THEN other ELSE x[o]
        /\ Prepare(action, i, z)[v] = IF NoValue(z[o]) THEN other ELSE z[o]
    BY <1>3, <2>1 DEF Prepare, Valuation
  <2>4. CASE NoValue(x[o])
    BY <2>2, <2>3, <2>4, SameBlank DEF AlikeAt
  <2>5. CASE ~NoValue(x[o]) /\ ~Extra(x[o])
    BY <2>2, <2>3, <2>5, SameBlank
  <2>6. CASE ~NoValue(x[o]) /\ Extra(x[o])
    BY <2>3, <2>6 DEF AlikeAt
  <2> QED
    BY <2>4, <2>5, <2>6
<1> QED
  BY <1>1, <1>2, <1>3

\* What holds of the first valuation and is kept by each action holds of the last.
LEMMA MadeTyped ==
  ASSUME NEW actions \in Seq(Actions), NEW i \in Nat, NEW before \in Valuation
  PROVE  Made(actions, i, before) \in Valuation
<1>1. Len(actions) \in Nat /\ \A n \in 1..Len(actions) : actions[n] \in Actions
  OBVIOUS
<1>2. PICK f : /\ f[0] = before
               /\ \A n \in 1..Len(actions) : f[n] = Prepare(actions[n], i, f[n - 1])
               /\ Made(actions, i, before) = f[Len(actions)]
  BY <1>1, MadeIs
<1> DEFINE T == {n \in Nat : n <= Len(actions) /\ f[n] \notin Valuation}
<1>3. ASSUME T # {} PROVE FALSE
  <2>1. PICK n \in T : \A m \in T : n <= m
    BY <1>3, Least
  <2>2. n \in 1..Len(actions)
    BY <1>2, <2>1
  <2>3. n - 1 \in Nat /\ n - 1 <= Len(actions) /\ ~(n <= n - 1)
    BY <2>2
  <2>4. f[n - 1] \in Valuation
    BY <2>1, <2>3
  <2> QED
    BY <1>1, <1>2, <2>1, <2>2, <2>4, PrepareTyped
<1> QED
  BY <1>1, <1>2, <1>3

LEMMA MadeAlike ==
  ASSUME NEW actions \in Seq(Actions), NEW i \in Nat, NEW x \in Valuation, NEW z \in Valuation,
         Alike(x, z)
  PROVE  Alike(Made(actions, i, x), Made(actions, i, z))
<1>1. Len(actions) \in Nat /\ \A n \in 1..Len(actions) : actions[n] \in Actions
  OBVIOUS
<1>2. PICK f : /\ f[0] = x
               /\ \A n \in 1..Len(actions) : f[n] = Prepare(actions[n], i, f[n - 1])
               /\ Made(actions, i, x) = f[Len(actions)]
  BY <1>1, MadeIs
<1>3. PICK g : /\ g[0] = z
               /\ \A n \in 1..Len(actions) : g[n] = Prepare(actions[n], i, g[n - 1])
               /\ Made(actions, i, z) = g[Len(actions)]
  BY <1>1, MadeIs
<1> DEFINE Good(n) == f[n] \in Valuation /\ g[n] \in Valuation /\ Alike(f[n], g[n])
<1> DEFINE T == {n \in Nat : n <= Len(actions) /\ ~Good(n)}
<1>4. ASSUME T # {} PROVE FALSE
  <2>1. PICK n \in T : \A m \in T : n <= m
    BY <1>4, Least
  <2>2. n \in 1..Len(actions)
    BY <1>2, <1>3, <2>1
  <2>3. n - 1 \in Nat /\ n - 1 <= Len(actions) /\ ~(n <= n - 1)
    BY <2>2
  <2>4. Good(n - 1)
    BY <2>1, <2>3
  <2>5. Good(n)
    BY <1>1, <1>2, <1>3, <2>2, <2>4, PrepareTyped, PrepareAlike
  <2> QED
    BY <2>1, <2>5
<1>5. Good(Len(actions))
  BY <1>1, <1>4
<1> QED
  BY <1>2, <1>3, <1>5

--------------------------------------------------------------------------------
(***************************************************************************)
(* One step of a test, and of a run.                                       *)
(***************************************************************************)
LEMMA StepFits ==
  ASSUME ScenarioFits, NEW i \in DOMAIN Steps
  PROVE  /\ i \in Nat \ {0} /\ case.answers[i] \in Answers
         /\ Steps[i].prepare \in Seq(Actions) /\ Steps[i].uses \in SUBSET Vars
         /\ \A v \in DOMAIN Steps[i].save : Steps[i].save[v] \in Sources
<1> DEFINE Saves == UNION {[D -> Sources] : D \in SUBSET Vars}
<1> DEFINE Doc == [method  : {"HTTP", "EXEC", "PREPARE", "SLEEP"}, prepare : Seq(Actions),
                   unmade : SUBSET (Vars \cup {"nothing"}), uses : SUBSET Vars,
                   spared : SUBSET Vars, save : Saves, stop : {"true", "false", "unset"}]
<1>1. Steps \in Seq(Doc) /\ case.answers \in [DOMAIN Steps -> Answers]
  BY DEF ScenarioFits, Scenario
<1>2. i \in Nat \ {0} /\ Steps[i] \in Doc /\ case.answers[i] \in Answers
  <2> HIDE DEF Doc
  <2> QED
    BY <1>1
<1>3. Steps[i].save \in Saves
  <2> HIDE DEF Saves
  <2> QED
    BY <1>2
<1> QED
  BY <1>2, <1>3

LEMMA SavedTyped ==
  ASSUME ScenarioFits, NEW i \in DOMAIN Steps, NEW source \in Sources, NEW was \in Val
  PROVE  Saved(source, i, was) \in Val /\ SavedAgain(source, i, was) \in Val
<1>1. /\ i \in Nat
      /\ \A k \in {"json", "url", "final url", "code", "final code", "error", "body", "stdout"} :
           Value(k, i) \in Val
      /\ Null \in Val /\ Kept(was) \in Val
  BY StepFits, BlankTypes DEF Kinds, Kept
<1>2. Saved(source, i, was) \in Val
  BY <1>1 DEF Saved, Sources
<1>3. SavedAgain(source, i, was) \in Val
  BY <1>1 DEF SavedAgain, Sources
<1> QED
  BY <1>2, <1>3

LEMMA StepsAreTyped ==
  ASSUME ScenarioFits, NEW i \in DOMAIN Steps, NEW before \in Valuation
  PROVE  /\ Made(Steps[i].prepare, i, before) \in Valuation
         /\ Executed(i, before) \in Valuation /\ Tested(i, before) \in Valuation
<1>1. Made(Steps[i].prepare, i, before) \in Valuation
  BY StepFits, MadeTyped
<1>2. ASSUME NEW f \in Valuation PROVE Save(i, f) \in Valuation /\ SaveAgain(i, f) \in Valuation
  BY StepFits, SavedTyped DEF Save, SaveAgain, Valuation
<1>3. Executed(i, before) \in Valuation
  BY <1>1, <1>2 DEF Executed
<1>4. Tested(i, before) \in Valuation
  BY <1>2, <1>3 DEF Tested
<1> QED
  BY <1>1, <1>3, <1>4

\* The second saving changes what is saved at a redirect only.
LEMMA SavedAlike ==
  ASSUME ScenarioFits, NEW i \in DOMAIN Steps, NEW source \in Sources,
         NEW w \in Val, NEW u \in Val, AlikeAt(w, u)
  PROVE  /\ AlikeAt(Saved(source, i, w), Saved(source, i, u))
         /\ Answered(i) => AlikeAt(SavedAgain(source, i, Saved(source, i, w)), Saved(source, i, u))
<1> DEFINE answer == case.answers[i]
<1>1. answer \in Answers
  BY StepFits
<1>2. AlikeAt(Kept(w), Kept(u))
  <2>1. CASE w \in {u, AskedFor(u)}
    <3>1. NoValue(Unset)
      BY DEF NoValue
    <3>2. u = Unset <=> AskedFor(u) = Unset
      BY <3>1, AskedForIs
    <3> QED
      BY <2>1, <3>2 DEF AlikeAt, Kept
  <2>2. CASE Extra(w)
    BY <2>2 DEF AlikeAt, Extra, Kept, Unset, Value
  <2> QED
    BY <2>1, <2>2 DEF AlikeAt
<1>3. \A k : AlikeAt(Value("url", k), Value("final url", k)) /\ AlikeAt(Value("code", k), Value("final code", k))
  BY DEF AlikeAt, AskedFor, Value
<1>4. \A k : AlikeAt(k, k)
  BY DEF AlikeAt
<1>5. Kept(Kept(w)) = Kept(w)
  BY DEF Kept, Unset, Null, Value
<1>6. AlikeAt(Saved(source, i, w), Saved(source, i, u))
  <2>1. CASE source = "json"
    BY <1>4, <2>1 DEF Saved
  <2>2. CASE source = "url"
    BY <1>4, <2>2 DEF Saved
  <2>3. CASE source = "code"
    BY <1>2, <1>4, <2>3 DEF Saved
  <2>4. CASE source = "body"
    BY <1>4, <2>4 DEF Saved
  <2>5. CASE source = "stdout"
    BY <1>4, <2>5 DEF Saved
  <2> QED
    BY <2>1, <2>2, <2>3, <2>4, <2>5 DEF Sources
<1>7. ASSUME Answered(i)
      PROVE  AlikeAt(SavedAgain(source, i, Saved(source, i, w)), Saved(source, i, u))
  <2>1. answer.status # "lost"
    BY <1>7 DEF Answered
  <2>2. CASE source = "json"
    BY <1>4, <2>2 DEF Saved, SavedAgain
  <2>3. CASE source = "url"
    BY <1>3, <1>4, <2>1, <2>3 DEF Saved, SavedAgain
  <2>4. CASE source = "code" /\ answer.moved = "code"
    <3>1. Saved(source, i, w) = Value("final code", i) /\ Saved(source, i, u) = Value("final code", i)
      BY <2>4 DEF Saved
    <3>2. Kept(Value("final code", i)) = Value("final code", i)
      BY DEF Kept, Unset, Value
    <3> QED
      BY <1>3, <1>4, <2>4, <3>1, <3>2 DEF SavedAgain
  <2>5. CASE source = "code" /\ answer.moved = "no" /\ answer.asked
    <3>1. Saved(source, i, u) = Value("code", i)
      BY <2>5 DEF Saved
    <3> QED
      BY <1>4, <2>5, <3>1 DEF SavedAgain
  <2>6. CASE source = "code" /\ answer.moved = "plain" /\ answer.asked
    <3>1. Extra(Value("code", i))
      BY <2>6 DEF Extra, Value
    <3> QED
      BY <2>6, <3>1 DEF SavedAgain, AlikeAt
  <2>7. CASE source = "code" /\ answer.moved # "code" /\ ~answer.asked
    <3>1. Saved(source, i, w) = Kept(w) /\ Saved(source, i, u) = Kept(u)
      BY <2>7 DEF Saved
    <3>2. SavedAgain(source, i, Kept(w)) = Kept(Kept(w))
      BY <2>7 DEF SavedAgain
    <3> QED
      BY <1>2, <1>5, <3>1, <3>2
  <2>8. CASE source \in {"body", "stdout"}
    BY <1>6, <2>8 DEF SavedAgain
  <2>9. answer.moved \in {"no", "plain", "code"} /\ answer.asked \in BOOLEAN
    BY <1>1 DEF Answers
  <2> QED
    BY <2>2, <2>3, <2>4, <2>5, <2>6, <2>7, <2>8, <2>9 DEF Sources
<1> QED
  BY <1>6, <1>7

\* A test and a run that have the same variables before a step have them after it.
LEMMA StepsAreAlike ==
  ASSUME ScenarioFits, NEW i \in DOMAIN Steps,
         NEW x \in Valuation, NEW z \in Valuation, Alike(x, z)
  PROVE  Alike(Tested(i, x), Executed(i, z))
<1>1. PICK f \in Valuation : f = Made(Steps[i].prepare, i, x)
  BY StepsAreTyped
<1>2. PICK g \in Valuation : g = Made(Steps[i].prepare, i, z)
  BY StepsAreTyped
<1>3. Alike(f, g)
  BY <1>1, <1>2, StepFits, MadeAlike
<1>4. CASE Steps[i].method \in {"PREPARE", "SLEEP"}
  BY <1>1, <1>2, <1>3, <1>4 DEF Tested, Executed, SavesAgain
<1>5. CASE Steps[i].method \notin {"PREPARE", "SLEEP"}
  <2>1. Executed(i, x) = Save(i, f) /\ Executed(i, z) = Save(i, g)
    BY <1>1, <1>2, <1>5 DEF Executed
  <2>2. Tested(i, x) = IF SavesAgain(i) THEN SaveAgain(i, Save(i, f)) ELSE Save(i, f)
    BY <2>1 DEF Tested
  <2>3. SavesAgain(i) => Answered(i)
    BY DEF SavesAgain
  <2> SUFFICES ASSUME NEW v \in Vars PROVE AlikeAt(Tested(i, x)[v], Save(i, g)[v])
    BY <2>1 DEF Alike
  <2>4. f[v] \in Val /\ g[v] \in Val /\ AlikeAt(f[v], g[v])
    BY <1>3 DEF Valuation, Alike
  <2>5. CASE v \notin DOMAIN Steps[i].save
    BY <2>2, <2>4, <2>5 DEF Save, SaveAgain
  <2>6. CASE v \in DOMAIN Steps[i].save
    <3>1. PICK source \in Sources : source = Steps[i].save[v]
      BY <2>6, StepFits
    <3>2. Save(i, f)[v] = Saved(source, i, f[v]) /\ Save(i, g)[v] = Saved(source, i, g[v])
      BY <2>6, <3>1 DEF Save
    <3>3. SaveAgain(i, Save(i, f))[v] = SavedAgain(source, i, Saved(source, i, f[v]))
      BY <2>6, <3>1, <3>2 DEF SaveAgain
    <3> QED
      BY <2>2, <2>3, <2>4, <3>2, <3>3, SavedAlike
  <2> QED
    BY <2>5, <2>6
<1> QED
  BY <1>4, <1>5

--------------------------------------------------------------------------------
(***************************************************************************)
(* The steps.                                                              *)
(***************************************************************************)
\* The case stays, and with it what steps do.
LEMMA CaseStays ==
  ASSUME case' = case
  PROVE  /\ Steps' = Steps /\ RunNumber' = RunNumber /\ Lines' = Lines
         /\ ScenarioFits' <=> ScenarioFits
         /\ \A n, i, b : Left(n, i, b)' = Left(n, i, b)
         /\ \A i : (Succeeds(i)' <=> Succeeds(i)) /\ (StopsWorker(i)' <=> StopsWorker(i))
         /\ \A m : FailsBefore(m)' <=> FailsBefore(m)
         /\ \A x, z : Alike(x, z)' <=> Alike(x, z)
  BY DEF Steps, RunNumber, Lines, ScenarioFits, Left, Executed, Tested, SavesAgain, Save, SaveAgain,
         Saved, SavedAgain, Answered, Succeeds, StopsWorker, FailsBefore, Alike, AlikeAt, Extra

LEMMA Documented ==
  ASSUME NEW d \in Documents
  PROVE  RunPrepared(d) \in Contexts /\ TestPrepared(d) \in Contexts
  BY DEF Contexts

LEMMA InitHolds == Init => IInv
<1> SUFFICES ASSUME Init PROVE IInv
  OBVIOUS
<1>1. PICK b \in Batches : \E d \in b.data, s \in b.scenarios, r \in b.requests :
        \E a \in [DOMAIN s -> UNION {AnswersTo(s[i]) : i \in DOMAIN s}] :
          /\ \A i \in DOMAIN s : a[i] \in AnswersTo(s[i])
          /\ case = [data |-> d, steps |-> s, answers |-> a, requests |-> r]
  BY DEF Init
<1>2. /\ case.data \in Documents /\ Steps \in b.scenarios /\ case.requests \in b.requests
      /\ case.answers \in [DOMAIN Steps -> Answers]
  <2>1. \A step : AnswersTo(step) \subseteq Answers
    BY DEF AnswersTo
  <2> QED
    BY <1>1, <2>1 DEF Documents, Steps
<1>3. ScenarioFits /\ case.requests \in Seq(Asked)
      /\ \A n \in DOMAIN case.requests :
           case.requests[n].kind # "sequence" => case.requests[n].step \in DOMAIN Steps
  BY <1>2, BatchesAssumption DEF ScenarioFits
<1>4. /\ now = 1 /\ pc = "received" /\ context = [refused |-> FALSE] /\ at = 1
      /\ vars = Blanks /\ executed = {} /\ results = <<>> /\ history = <<>>
  BY DEF Init, Blanks
<1>5. TypeOK
  <2>1. Len(case.requests) \in Nat
    BY <1>3
  <2> QED
    BY <1>2, <1>3, <1>4, <2>1, BlankTypes DEF TypeOK, Contexts
<1>6. PlaceInv /\ BlockedInv /\ RunInv /\ AlikeInv
  BY <1>4 DEF PlaceInv, BlockedInv, RunInv, AlikeInv
<1>7. HistoryInv
  BY <1>4 DEF HistoryInv, Lines
<1> QED
  BY <1>5, <1>6, <1>7 DEF IInv

\* Where a request is.
LEMMA Places ==
  ASSUME TypeOK
  PROVE  /\ Len(Steps) \in Nat /\ DOMAIN Steps = 1 .. Len(Steps)
         /\ Len(case.requests) \in Nat /\ DOMAIN case.requests = 1 .. Len(case.requests)
         /\ RunNumber \in Nat /\ now \in 1 .. RunNumber
         /\ Running <=> now = RunNumber
         /\ ~Running => now \in DOMAIN case.requests
         /\ now \in Lines <=> (Running \/ Request.kind # "preview")
         /\ Running \/ Request.kind = "sequence" => Selected = Len(Steps) + 1
         /\ ~Running /\ Request.kind # "sequence" => Selected = Request.step /\ Selected \in DOMAIN Steps
<1>1. Len(Steps) \in Nat /\ DOMAIN Steps = 1 .. Len(Steps)
  BY DEF TypeOK, ScenarioFits, Scenario
<1>2. Len(case.requests) \in Nat /\ DOMAIN case.requests = 1 .. Len(case.requests)
  BY DEF TypeOK
<1>3. RunNumber \in Nat /\ now \in 1 .. RunNumber /\ (Running <=> now = RunNumber)
  BY <1>2 DEF TypeOK, RunNumber, Running
<1>4. ~Running => now \in DOMAIN case.requests
  BY <1>2, <1>3 DEF RunNumber
<1>5. now \in Lines <=> (Running \/ Request.kind # "preview")
  BY <1>3 DEF Lines, Request
<1>6. Running \/ Request.kind = "sequence" => Selected = Len(Steps) + 1
  BY DEF Selected
<1>7. ~Running /\ Request.kind # "sequence" => Selected = Request.step /\ Selected \in DOMAIN Steps
  BY <1>4 DEF Selected, Request, TypeOK
<1> QED
  BY <1>1, <1>2, <1>3, <1>4, <1>5, <1>6, <1>7

\* A request is answered.
LEMMA AnswerTyped ==
  ASSUME TypeOK, NEW status \in {"ok", "refused", "blocked", "error"}, Ends(status), pc # "over",
         context' \in Contexts, vars' \in Valuation, executed' \in SUBSET Nat
  PROVE  /\ results' \in Seq(Result) /\ Len(results') = now
         /\ \A n \in DOMAIN results' :
              \/ n \in DOMAIN results /\ results'[n] = results[n]
              \/ n = now /\ results'[n].status = status
<1>1. PICK r \in Result : r = [status |-> status, context |-> context',
                               vars |-> vars', executed |-> executed']
  BY DEF Result
<1>2. results \in Seq(Result) /\ Len(results) = now - 1 /\ now \in Nat
  BY Places DEF TypeOK
<1>3. results' = Append(results, r)
  BY <1>1 DEF Ends
<1>4. /\ results' \in Seq(Result) /\ Len(results') = now
      /\ \A n \in 1 .. now - 1 : results'[n] = results[n]
      /\ results'[now] = r
  BY <1>2, <1>3, AppendProperties
<1>5. DOMAIN results' = 1 .. now /\ DOMAIN results = 1 .. now - 1
  BY <1>2, <1>4
<1>6. ASSUME NEW n \in DOMAIN results'
      PROVE  \/ n \in DOMAIN results /\ results'[n] = results[n]
             \/ n = now /\ results'[n].status = status
  <2>1. CASE n = now
    BY <1>1, <1>4, <2>1
  <2>2. CASE n # now
    BY <1>2, <1>4, <1>5, <1>6, <2>2
  <2> QED
    BY <2>1, <2>2
<1> QED
  BY <1>4, <1>6

LEMMA BeginKeeps == ASSUME IInv, Begin PROVE IInv'
<1> USE DEF IInv
<1>1. /\ pc = "received" /\ at' = 1 /\ executed' = {}
      /\ UNCHANGED <<case, now>> /\ history' = Append(history, <<vars'>>)
      /\ context' = IF Running THEN RunPrepared(case.data) ELSE TestPrepared(case.data)
      /\ vars' = IF ~Running /\ Request.kind = "preview" THEN vars ELSE Blanks
  BY DEF Begin, Blanks
<1>2. context' \in Contexts
  BY <1>1, Documented DEF TypeOK
<1>3. vars' \in Valuation /\ (now \in Lines => vars' = Blanks)
  BY <1>1, Places, BlankTypes DEF TypeOK
<1>4. <<vars'>> \in Histories /\ Len(<<vars'>>) = 1 /\ <<vars'>>[1] = vars'
      /\ DOMAIN <<vars'>> = {1}
  BY <1>3 DEF Histories
<1>5. /\ history' \in Seq(Histories) /\ Len(history') = now
      /\ \A n \in 1 .. now - 1 : history'[n] = history[n]
      /\ history'[now] = <<vars'>>
  <2>1. history \in Seq(Histories) /\ Len(history) = now - 1 /\ now \in Nat
    BY <1>1, Places DEF TypeOK
  <2>2. PICK h \in Histories : h = <<vars'>>
    BY <1>4
  <2>3. history' = Append(history, h)
    BY <1>1, <2>2
  <2> QED
    BY <2>1, <2>2, <2>3, AppendProperties
<1>6. \/ pc' = "prior" /\ results' = results
      \/ pc' = "over" /\ Ends("refused")
  BY DEF Begin, Ends
<1>7. /\ results' \in Seq(Result)
      /\ Len(results') = IF pc' = "over" THEN now ELSE now - 1
      /\ \A n \in DOMAIN results' :
           \/ n \in DOMAIN results /\ results'[n] = results[n]
           \/ results'[n].status # "blocked"
  <2>1. CASE pc' = "prior" /\ results' = results
    BY <1>1, <2>1 DEF TypeOK
  <2>2. CASE pc' = "over" /\ Ends("refused")
    BY <1>1, <1>2, <1>3, <2>2, AnswerTyped
  <2> QED
    BY <1>6, <2>1, <2>2
<1>8. TypeOK'
  BY <1>1, <1>2, <1>3, <1>5, <1>6, <1>7, CaseStays DEF TypeOK
<1>9. PlaceInv'
  <2>1. Selected' = Selected /\ Selected >= 1
    BY <1>1, Places DEF Selected, Running, Request, Steps
  <2> QED
    BY <1>1, <1>6, <2>1 DEF PlaceInv
<1>10. HistoryInv'
  <2>1. Lines' = Lines /\ now' = now /\ \A n, i, b : Left(n, i, b)' = Left(n, i, b)
    BY <1>1, CaseStays
  <2> SUFFICES ASSUME NEW n \in Lines, n <= now
               PROVE  /\ history'[n][1] = Blanks
                      /\ \A k \in DOMAIN history'[n] :
                           k > 1 => history'[n][k] = Left(n, k - 1, history'[n][k - 1])
                      /\ n = now => at' = Len(history'[n]) /\ vars' = history'[n][at']
    BY <1>5, <2>1 DEF HistoryInv
  <2>2. CASE n = now
    BY <1>1, <1>3, <1>4, <1>5, <2>2
  <2>3. CASE n # now
    <3>1. n \in 1 .. now - 1 /\ n <= Len(history) /\ history'[n] = history[n]
      BY <1>1, <1>5, <2>3, Places DEF Lines, TypeOK
    <3> QED
      BY <2>3, <3>1 DEF HistoryInv
  <2> QED
    BY <2>2, <2>3
<1>11. BlockedInv'
  BY <1>1, <1>6, <1>7, CaseStays DEF BlockedInv
<1>12. RunInv'
  BY <1>1 DEF RunInv
<1>13. AlikeInv'
  <2> SUFFICES ASSUME Running, NEW n \in Lines \ {now}, NEW k \in DOMAIN history'[n] \cap DOMAIN history'[now]
               PROVE  Alike(history'[n][k], history'[now][k])
    BY <1>1, CaseStays DEF AlikeInv, Running
  <2>1. k = 1 /\ history'[now][1] = Blanks
    BY <1>3, <1>4, <1>5, Places
  <2>2. n \in 1 .. now - 1
    BY Places DEF Lines
  <2>3. history'[n][1] = Blanks
    BY <1>1, <1>5, <2>2 DEF HistoryInv, TypeOK
  <2> QED
    BY <2>1, <2>3 DEF Alike, AlikeAt
<1> QED
  BY <1>8, <1>9, <1>10, <1>11, <1>12, <1>13

\* A step leaves its variables at the end of the request's history.
LEMMA AdvanceTyped ==
  ASSUME TypeOK, pc = "prior", NEW after \in Valuation, Advance(after),
         pc' \in {"prior", "blocked", "selected"}
  PROVE  /\ TypeOK' /\ case' = case /\ now' = now /\ results' = results
         /\ at' = at + 1 /\ vars' = after /\ executed' = executed \cup {at}
         /\ \A n \in 1 .. now - 1 : history'[n] = history[n]
         /\ history[now] \in Seq(Valuation) /\ history'[now] = Append(history[now], after)
         /\ Len(history') = Len(history) /\ Len(history) = now
<1>1. /\ case' = case /\ now' = now /\ context' = context /\ results' = results
      /\ at' = at + 1 /\ vars' = after /\ executed' = executed \cup {at}
      /\ history' = [history EXCEPT ![now] = Append(history[now], after)]
  BY DEF Advance
<1>2. /\ history \in Seq(Histories) /\ Len(history) = now /\ now \in Nat \ {0}
      /\ DOMAIN history = 1 .. now
  <2>1. history \in Seq(Histories) /\ Len(history) = now /\ now \in Nat \ {0}
    BY Places DEF TypeOK
  <2> QED
    BY <2>1
<1>3. history[now] \in Seq(Valuation)
  BY <1>2 DEF Histories
<1>4. PICK h \in Histories : h = Append(history[now], after)
  <2>1. PICK h \in Seq(Valuation) : h = Append(history[now], after)
    BY <1>3, AppendProperties
  <2>2. Len(history[now]) \in Nat
    BY <1>3
  <2>3. h # <<>>
    <3>1. Len(h) = Len(history[now]) + 1
      BY <1>3, <2>1, AppendProperties
    <3> QED
      BY <2>2, <3>1
  <2> QED
    BY <2>1, <2>3 DEF Histories
<1>5. history' \in Seq(Histories) /\ Len(history') = now
  BY <1>1, <1>2, <1>4, ExceptSeq
<1>6. history'[now] = h /\ \A n \in 1 .. now - 1 : history'[n] = history[n]
  BY <1>1, <1>2, <1>4
<1>7. TypeOK'
  BY <1>1, <1>5, CaseStays DEF TypeOK
<1> QED
  BY <1>1, <1>2, <1>3, <1>4, <1>5, <1>6, <1>7

\* So that of a test and of the run stay what steps leave, and alike.
LEMMA LineKeeps ==
  ASSUME IInv, pc = "prior", now \in Lines, at \in DOMAIN Steps,
         Advance(Left(now, at, vars)), pc' \in {"prior", "blocked", "selected"}
  PROVE  TypeOK' /\ HistoryInv' /\ AlikeInv'
<1> USE DEF IInv
<1>1. ScenarioFits /\ vars \in Valuation /\ at \in Nat \ {0} /\ now \in Nat
  BY Places DEF TypeOK
<1>2. PICK after \in Valuation : after = Left(now, at, vars)
  BY <1>1, StepsAreTyped DEF Left
<1>3. /\ TypeOK' /\ case' = case /\ now' = now /\ results' = results
      /\ at' = at + 1 /\ vars' = after
      /\ \A n \in 1 .. now - 1 : history'[n] = history[n]
      /\ history[now] \in Seq(Valuation) /\ history'[now] = Append(history[now], after)
      /\ Len(history') = Len(history) /\ Len(history) = now
  BY <1>2, AdvanceTyped
<1>4. /\ Lines' = Lines /\ (Running' <=> Running) /\ \A n, i, b : Left(n, i, b)' = Left(n, i, b)
      /\ \A x, z : Alike(x, z)' <=> Alike(x, z)
  BY <1>3, CaseStays DEF Running
<1>5. at = Len(history[now]) /\ vars = history[now][at]
  BY <1>3 DEF HistoryInv
<1>6. /\ Len(history'[now]) = at + 1 /\ history'[now][at + 1] = after
      /\ DOMAIN history'[now] = 1 .. at + 1
      /\ \A k \in 1 .. at : history'[now][k] = history[now][k]
  BY <1>1, <1>3, <1>5, AppendProperties
<1>7. HistoryInv'
  <2> SUFFICES ASSUME NEW n \in Lines, n <= now
               PROVE  /\ history'[n][1] = Blanks
                      /\ \A k \in DOMAIN history'[n] :
                           k > 1 => history'[n][k] = Left(n, k - 1, history'[n][k - 1])
                      /\ n = now => at' = Len(history'[n]) /\ vars' = history'[n][at']
    BY <1>3, <1>4 DEF HistoryInv
  <2>1. CASE n # now
    <3>1. n \in 1 .. now - 1 /\ n <= Len(history) /\ history'[n] = history[n]
      BY <1>1, <1>3, <2>1 DEF Lines
    <3> QED
      BY <2>1, <3>1 DEF HistoryInv
  <2>2. CASE n = now
    <3>1. history'[now][1] = Blanks
      BY <1>1, <1>3, <1>6, <2>2 DEF HistoryInv
    <3>2. ASSUME NEW k \in DOMAIN history'[now], k > 1
          PROVE  history'[now][k] = Left(now, k - 1, history'[now][k - 1])
      <4>1. CASE k = at + 1
        <5>1. k - 1 = at /\ history'[now][at] = vars
          BY <1>1, <1>5, <1>6, <4>1
        <5> QED
          BY <1>2, <1>6, <4>1, <5>1
      <4>2. CASE k # at + 1
        <5>1. k \in 1 .. at /\ k - 1 \in 1 .. at /\ k \in DOMAIN history[now]
          BY <1>1, <1>3, <1>5, <1>6, <3>2, <4>2
        <5>2. history[now][k] = Left(now, k - 1, history[now][k - 1])
          <6>1. now <= Len(history)
            BY <1>1, <1>3
          <6>2. \A j \in DOMAIN history[now] :
                  j > 1 => history[now][j] = Left(now, j - 1, history[now][j - 1])
            BY <6>1 DEF HistoryInv
          <6> QED
            BY <3>2, <5>1, <6>2
        <5> QED
          BY <1>6, <5>1, <5>2
      <4> QED
        BY <4>1, <4>2
    <3> QED
      BY <1>3, <1>6, <2>2, <3>1, <3>2
  <2> QED
    BY <2>1, <2>2
<1>8. AlikeInv'
  <2> SUFFICES ASSUME Running, NEW n \in Lines \ {now},
                      NEW k \in DOMAIN history'[n] \cap DOMAIN history'[now]
               PROVE  Alike(history'[n][k], history'[now][k])
    BY <1>3, <1>4 DEF AlikeInv
  <2>1. now = RunNumber /\ n \in 1 .. now - 1 /\ n # RunNumber /\ n <= Len(history)
    BY <1>3, Places DEF Lines
  <2>2. history'[n] = history[n] /\ history[n] \in Seq(Valuation)
    <3>1. history \in Seq(Histories) /\ n \in DOMAIN history
      BY <1>3, <2>1 DEF TypeOK
    <3>2. history[n] \in Histories
      BY <3>1
    <3> QED
      BY <1>3, <2>1, <3>2 DEF Histories
  <2>3. CASE k # at + 1
    <3>1. k \in 1 .. at /\ k \in DOMAIN history[now] /\ k \in DOMAIN history[n]
      BY <1>1, <1>3, <1>5, <1>6, <2>2, <2>3
    <3> QED
      BY <1>6, <2>2, <3>1 DEF AlikeInv
  <2>4. CASE k = at + 1
    <3>1. at \in DOMAIN history[n] /\ at \in DOMAIN history[now]
      BY <1>1, <1>3, <1>5, <2>2, <2>4
    <3>2. history[n][at] \in Valuation /\ Alike(history[n][at], vars)
      BY <1>5, <2>2, <3>1 DEF AlikeInv
    <3>3. history[n][at + 1] = Tested(at, history[n][at])
      <4>1. at + 1 \in DOMAIN history[n] /\ at + 1 > 1 /\ (at + 1) - 1 = at
        BY <1>1, <2>2, <2>4
      <4>2. history[n][at + 1] = Left(n, at, history[n][at])
        BY <2>1, <4>1 DEF HistoryInv
      <4> QED
        BY <2>1, <4>2 DEF Left
    <3>4. after = Executed(at, vars)
      BY <1>2, <2>1 DEF Left
    <3> QED
      BY <1>1, <1>6, <2>2, <2>4, <3>2, <3>3, <3>4, StepsAreAlike
  <2> QED
    BY <2>3, <2>4
<1> QED
  BY <1>3, <1>7, <1>8

LEMMA RequestStays ==
  ASSUME case' = case, now' = now
  PROVE  Selected' = Selected /\ Request' = Request /\ (Running' <=> Running)
  BY DEF Selected, Request, Running, Steps

LEMMA TestPriorKeeps == ASSUME IInv, TestPrior PROVE IInv'
<1> USE DEF IInv
<1>1. pc = "prior" /\ ~Running /\ Request.kind # "preview" /\ at < Selected
  BY DEF TestPrior
<1>2. now \in Lines /\ now # RunNumber /\ at \in DOMAIN Steps /\ at \in Nat /\ Selected \in Nat
  BY <1>1, Places DEF TypeOK
<1>3. Advance(Left(now, at, vars)) /\ pc' \in {"prior", "blocked"}
  BY <1>1, <1>2 DEF TestPrior, Left
<1>4. TypeOK' /\ HistoryInv' /\ AlikeInv'
  BY <1>1, <1>2, <1>3, LineKeeps
<1>5. case' = case /\ now' = now /\ results' = results /\ at' = at + 1
  BY <1>3 DEF Advance
<1>6. Selected' = Selected /\ Request' = Request /\ ~Running'
  BY <1>1, <1>5, RequestStays
<1>7. pc' = "blocked" => ~Succeeds(at) /\ Request.kind = "test" /\ Steps[at].stop = "true"
  BY <1>1 DEF TestPrior, StopsTest
<1>8. PlaceInv'
  BY <1>1, <1>2, <1>5, <1>6, <1>7 DEF PlaceInv
<1>9. BlockedInv'
  <2>1. pc' = "blocked" => FailsBefore(Request.step)
    BY <1>1, <1>2, <1>7, Places DEF FailsBefore
  <2> QED
    BY <1>5, <1>6, <2>1, CaseStays DEF BlockedInv
<1>10. RunInv'
  BY <1>6 DEF RunInv
<1> QED
  BY <1>4, <1>8, <1>9, <1>10

LEMMA TestSelectedKeeps == ASSUME IInv, TestSelected PROVE IInv'
<1> USE DEF IInv
<1>1. pc = "prior" /\ ~Running /\ Request.kind = "test" /\ at = Selected /\ pc' = "selected"
  BY DEF TestSelected
<1>2. now \in Lines /\ now # RunNumber /\ at \in DOMAIN Steps
  BY <1>1, Places
<1>3. Advance(Left(now, at, vars))
  BY <1>2 DEF TestSelected, Left
<1>4. TypeOK' /\ HistoryInv' /\ AlikeInv'
  BY <1>1, <1>2, <1>3, LineKeeps
<1>5. case' = case /\ now' = now /\ results' = results
  BY <1>3 DEF Advance
<1>6. ~Running'
  BY <1>1, <1>5, RequestStays
<1>7. BlockedInv'
  BY <1>1, <1>5, CaseStays DEF BlockedInv
<1> QED
  BY <1>1, <1>4, <1>6, <1>7 DEF PlaceInv, RunInv

LEMMA RunStepKeeps == ASSUME IInv, RunStep PROVE IInv'
<1> USE DEF IInv
<1>1. pc = "prior" /\ Running /\ at < Selected
  BY DEF RunStep
<1>2. /\ now \in Lines /\ now = RunNumber /\ at \in DOMAIN Steps /\ at \in Nat \ {0}
      /\ Selected = Len(Steps) + 1 /\ Len(Steps) \in Nat
  BY <1>1, Places DEF TypeOK
<1>3. Advance(Left(now, at, vars)) /\ pc' \in {"prior", "selected"}
  BY <1>1, <1>2 DEF RunStep, Left
<1>4. TypeOK' /\ HistoryInv' /\ AlikeInv'
  BY <1>1, <1>2, <1>3, LineKeeps
<1>5. /\ case' = case /\ now' = now /\ results' = results /\ at' = at + 1
      /\ executed' = executed \cup {at}
  BY <1>3 DEF Advance
<1>6. Selected' = Selected /\ Running'
  BY <1>1, <1>5, RequestStays
<1>7. PlaceInv' /\ BlockedInv'
  BY <1>1, <1>2, <1>3, <1>5, <1>6, CaseStays DEF PlaceInv, BlockedInv
<1>8. RunInv'
  <2>1. executed = 1 .. at - 1 /\ \A i \in executed : Succeeds(i) \/ ~StopsWorker(i)
    BY <1>1 DEF RunInv
  <2>2. executed' = 1 .. at' - 1
    BY <1>2, <1>5, <2>1
  <2>3. Succeeds(at) \/ ~StopsWorker(at) \/ pc' # "prior"
    BY DEF RunStep
  <2>4. ASSUME NEW i \in executed'
        PROVE  Succeeds(i) \/ ~StopsWorker(i) \/ (i = at' - 1 /\ pc' # "prior")
    BY <1>2, <1>5, <2>1, <2>3
  <2> QED
    BY <1>5, <2>2, <2>4, CaseStays DEF RunInv
<1> QED
  BY <1>4, <1>7, <1>8

\* A preview leaves what others left alone.
LEMMA PreviewKeeps ==
  ASSUME IInv, TypeOK', pc = "prior", now \notin Lines, pc' \in {"prior", "selected"},
         case' = case, now' = now, results' = results, Len(history') = Len(history),
         \A n \in 1 .. now - 1 : history'[n] = history[n]
  PROVE  HistoryInv' /\ BlockedInv' /\ RunInv' /\ AlikeInv'
<1> USE DEF IInv
<1>1. /\ Lines' = Lines /\ ~Running /\ ~Running'
      /\ \A n, i, b : Left(n, i, b)' = Left(n, i, b)
  BY Places, CaseStays, RequestStays
<1>2. ASSUME NEW n \in Lines, n <= Len(history)
      PROVE  n # now /\ history'[n] = history[n]
  <2>1. Len(history) = now /\ now \in Nat /\ n # now /\ RunNumber \in Nat
    BY Places DEF TypeOK
  <2>2. n \in 1 .. now - 1
    BY <1>2, <2>1 DEF Lines
  <2> QED
    BY <2>1, <2>2
<1>3. HistoryInv'
  BY <1>1, <1>2 DEF HistoryInv
<1>4. BlockedInv'
  BY CaseStays DEF BlockedInv
<1> QED
  BY <1>1, <1>3, <1>4 DEF RunInv, AlikeInv

LEMMA PreviewPriorKeeps == ASSUME IInv, PreviewPrior PROVE IInv'
<1> USE DEF IInv
<1>1. /\ pc = "prior" /\ pc' = "prior" /\ ~Running /\ Request.kind = "preview" /\ at < Selected
      /\ case' = case /\ now' = now /\ at' = at + 1 /\ results' = results
  BY DEF PreviewPrior, Advance
<1>2. now \notin Lines /\ at \in DOMAIN Steps /\ at \in Nat /\ Selected \in Nat
  BY <1>1, Places DEF TypeOK
<1>3. Executed(at, vars) \in Valuation
  BY <1>2, StepsAreTyped DEF TypeOK
<1>4. /\ TypeOK' /\ Len(history') = Len(history)
      /\ \A n \in 1 .. now - 1 : history'[n] = history[n]
  <2>1. CASE Advance(Executed(at, vars))
    BY <1>1, <1>3, <2>1, AdvanceTyped
  <2>2. CASE UNCHANGED <<case, now, context, vars, executed, results, history>>
    BY <1>1, <1>2, <2>2, CaseStays DEF TypeOK
  <2> QED
    BY <2>1, <2>2 DEF PreviewPrior
<1>5. HistoryInv' /\ BlockedInv' /\ RunInv' /\ AlikeInv'
  BY <1>1, <1>2, <1>4, PreviewKeeps
<1>6. PlaceInv'
  BY <1>1, <1>2, RequestStays DEF PlaceInv
<1> QED
  BY <1>4, <1>5, <1>6

LEMMA PreviewSelectedKeeps == ASSUME IInv, PreviewSelected PROVE IInv'
<1> USE DEF IInv
<1>1. /\ pc = "prior" /\ pc' = "selected" /\ ~Running /\ Request.kind = "preview" /\ at = Selected
      /\ vars' = Made(Steps[at].prepare, at, vars)
      /\ UNCHANGED <<case, now, context, at, executed, results, history>>
  BY DEF PreviewSelected
<1>2. now \notin Lines /\ at \in DOMAIN Steps
  BY <1>1, Places
<1>3. vars' \in Valuation
  BY <1>1, <1>2, StepsAreTyped DEF TypeOK
<1>4. TypeOK'
  BY <1>1, <1>3, CaseStays DEF TypeOK
<1> QED
  BY <1>1, <1>2, <1>4, PreviewKeeps DEF PlaceInv

\* An answer leaves everything but the results, and the variables.
LEMMA AnswerKeeps ==
  ASSUME IInv, NEW status \in {"ok", "blocked", "error"}, Ends(status), pc \in {"prior", "blocked", "selected"},
         vars' \in Valuation, UNCHANGED <<case, now, context, at, executed, history>>,
         status = "blocked" => ~Running /\ FailsBefore(Request.step)
  PROVE  IInv'
<1> USE DEF IInv
<1>1. pc' = "over" /\ (Running' <=> Running)
  BY RequestStays DEF Ends
<1>2. /\ results' \in Seq(Result) /\ Len(results') = now
      /\ \A n \in DOMAIN results' :
           \/ n \in DOMAIN results /\ results'[n] = results[n]
           \/ n = now /\ results'[n].status = status
  BY AnswerTyped DEF TypeOK
<1>3. TypeOK'
  BY <1>1, <1>2, CaseStays DEF TypeOK
<1>4. HistoryInv'
  <2>1. Lines' = Lines /\ \A n, i, b : Left(n, i, b)' = Left(n, i, b)
    BY CaseStays
  <2> QED
    BY <1>1, <2>1 DEF HistoryInv
<1>5. BlockedInv'
  <2>1. \A m : FailsBefore(m)' <=> FailsBefore(m)
    BY CaseStays
  <2>2. ASSUME NEW n \in DOMAIN results', results'[n].status = "blocked"
        PROVE  FailsBefore(case.requests[n].step)
    BY <1>2, <2>2 DEF BlockedInv, Request
  <2> QED
    BY <1>1, <2>1, <2>2 DEF BlockedInv
<1>6. RunInv'
  BY <1>1, CaseStays DEF RunInv
<1>7. AlikeInv'
  BY <1>1, CaseStays DEF AlikeInv
<1> QED
  BY <1>1, <1>3, <1>4, <1>5, <1>6, <1>7 DEF PlaceInv

LEMMA BlockedKeeps == ASSUME IInv, Blocked PROVE IInv'
<1>1. /\ pc = "blocked" /\ Ends("blocked")
      /\ UNCHANGED <<case, now, context, at, vars, executed, history>>
  BY DEF Blocked
<1>2. ~Running /\ FailsBefore(Request.step)
  BY <1>1 DEF IInv, PlaceInv, BlockedInv
<1>3. vars' \in Valuation
  BY <1>1 DEF IInv, TypeOK
<1> QED
  BY <1>1, <1>2, <1>3, AnswerKeeps

LEMMA BrokenKeeps == ASSUME IInv, Broken PROVE IInv'
<1>1. /\ pc = "prior" /\ vars' = history[now][1] /\ Ends("error")
      /\ UNCHANGED <<case, now, context, at, executed, history>>
  BY DEF Broken
<1>2. history[now] \in Histories
  <2>1. TypeOK /\ now \in Nat \ {0} /\ Len(history) = now
    BY <1>1, Places DEF IInv, TypeOK
  <2>2. history \in Seq(Histories)
    BY <2>1 DEF TypeOK
  <2> QED
    BY <2>1, <2>2
<1>3. vars' \in Valuation
  BY <1>1, <1>2 DEF Histories
<1> QED
  BY <1>1, <1>3, AnswerKeeps

LEMMA AnswersKeep == ASSUME IInv, Answer PROVE IInv'
<1>1. /\ pc \in {"prior", "selected"} /\ Ends("ok")
      /\ UNCHANGED <<case, now, context, at, vars, executed, history>>
  BY DEF Answer
<1>2. vars' \in Valuation
  BY <1>1 DEF IInv, TypeOK
<1> QED
  BY <1>1, <1>2, AnswerKeeps

LEMMA NextRequestKeeps == ASSUME IInv, NextRequest PROVE IInv'
<1> USE DEF IInv
<1>1. /\ pc = "over" /\ pc' = "received" /\ ~Running /\ now' = now + 1
      /\ UNCHANGED <<case, context, at, vars, executed, results, history>>
  BY DEF NextRequest
<1>2. now' \in 1 .. RunNumber /\ Len(history) = now /\ now \in Nat
  BY <1>1, Places DEF TypeOK
<1>3. TypeOK'
  BY <1>1, <1>2, CaseStays DEF TypeOK, RunNumber
<1>4. HistoryInv'
  <2>1. Lines' = Lines /\ \A n, i, b : Left(n, i, b)' = Left(n, i, b)
    BY <1>1, CaseStays
  <2> SUFFICES ASSUME NEW n \in Lines, n <= Len(history)
               PROVE  /\ history[n][1] = Blanks
                      /\ \A k \in DOMAIN history[n] :
                           k > 1 => history[n][k] = Left(n, k - 1, history[n][k - 1])
                      /\ n # now'
    BY <1>1, <2>1 DEF HistoryInv
  <2>2. n # now'
    BY <1>1, <1>2
  <2> QED
    BY <2>2 DEF HistoryInv
<1>5. BlockedInv'
  <2>1. \A m : FailsBefore(m)' <=> FailsBefore(m)
    BY <1>1, CaseStays
  <2> QED
    BY <1>1, <2>1 DEF BlockedInv
<1> QED
  BY <1>1, <1>3, <1>4, <1>5 DEF PlaceInv, RunInv, AlikeInv

LEMMA UnchangedKeeps == ASSUME IInv, UNCHANGED svars PROVE IInv'
<1>1. UNCHANGED <<case, now, pc, context, at, vars, executed, results, history>>
  BY DEF svars
<1>2. /\ Lines' = Lines /\ \A n, i, b : Left(n, i, b)' = Left(n, i, b)
      /\ \A m : FailsBefore(m)' <=> FailsBefore(m)
      /\ ScenarioFits' <=> ScenarioFits
      /\ \A i : (Succeeds(i)' <=> Succeeds(i)) /\ (StopsWorker(i)' <=> StopsWorker(i))
      /\ \A x, z : Alike(x, z)' <=> Alike(x, z)
      /\ Steps' = Steps /\ Selected' = Selected /\ Request' = Request /\ (Running' <=> Running)
  BY <1>1, CaseStays, RequestStays
<1>3. TypeOK'
  BY <1>1, <1>2 DEF IInv, TypeOK
<1>4. HistoryInv'
  BY <1>1, <1>2 DEF IInv, HistoryInv
<1>5. PlaceInv' /\ BlockedInv'
  BY <1>1, <1>2 DEF IInv, PlaceInv, BlockedInv
<1>6. RunInv' /\ AlikeInv'
  BY <1>1, <1>2 DEF IInv, RunInv, AlikeInv
<1> QED
  BY <1>3, <1>4, <1>5, <1>6 DEF IInv

LEMMA NextKeeps == IInv /\ [Next]_svars => IInv'
<1> SUFFICES ASSUME IInv, [Next]_svars PROVE IInv'
  OBVIOUS
<1>1. CASE Begin
  BY <1>1, BeginKeeps
<1>2. CASE TestPrior
  BY <1>2, TestPriorKeeps
<1>3. CASE Blocked
  BY <1>3, BlockedKeeps
<1>4. CASE TestSelected
  BY <1>4, TestSelectedKeeps
<1>5. CASE RunStep
  BY <1>5, RunStepKeeps
<1>6. CASE PreviewPrior
  BY <1>6, PreviewPriorKeeps
<1>7. CASE PreviewSelected
  BY <1>7, PreviewSelectedKeeps
<1>8. CASE Answer
  BY <1>8, AnswersKeep
<1>9. CASE NextRequest
  BY <1>9, NextRequestKeeps
<1>10. CASE Broken
  BY <1>10, BrokenKeeps
<1>11. CASE Done \/ UNCHANGED svars
  BY <1>11, UnchangedKeeps DEF Done
<1> QED
  BY <1>1, <1>2, <1>3, <1>4, <1>5, <1>6, <1>7, <1>8, <1>9, <1>10, <1>11 DEF Next

LEMMA Invariance == Spec => []IInv
  BY InitHolds, NextKeeps, PTL DEF Spec

--------------------------------------------------------------------------------
(***************************************************************************)
(* Straight scenarios: what the places of a scenario make of a valuation.  *)
(***************************************************************************)
\* Whether the answer to a step has what a run saves from it, and what that is
\* but for a redirect that is not followed.
Gives(source, i) ==
  LET answer == case.answers[i] IN
  CASE source = "json"   -> answer.status = "expected"
    [] source = "url"    -> answer.status # "lost"
    [] source = "code"   -> answer.moved = "code" \/ (answer.moved = "no" /\ answer.asked)
    [] source = "body"   -> TRUE
    [] source = "stdout" -> answer.status # "lost"
Wanted(source, i) ==
  CASE source = "json"   -> Value("json", i)
    [] source = "url"    -> Value("url", i)
    [] source = "code"   -> Value("code", i)
    [] source = "body"   -> Value(IF Answered(i) THEN "body" ELSE "error", i)
    [] source = "stdout" -> Value("stdout", i)

\* What a variable saved from it may hold: that, or in a test the extra code.
Holds(source, i, w) ==
  \/ Gives(source, i) /\ AskedFor(w) = Wanted(source, i)
  \/ source = "code" /\ w = Value("code", i) /\ Extra(w)

\* A variable that has a value has the one its place gives it, or a default ...
StandsAt(x, i, n) ==
  LET step == Steps[i] IN
  /\ n \in DOMAIN step.prepare =>
       LET a == step.prepare[n] IN
       ~NoValue(x[a.out]) => IF a.of = "nothing" THEN x[a.out] = Value("made", i)
                             ELSE \/ AskedFor(x[a.out]) = AskedFor(x[a.of])
                                  \/ /\ x[a.out].kind = "default"
                                     /\ a.default = "text" \/ ~NoValue(x[a.of])
  /\ n = Len(step.prepare) + 2 =>
       \A v \in DOMAIN step.save : ~NoValue(x[v]) =>
         step.method \notin {"PREPARE", "SLEEP"} /\ Holds(step.save[v], i, x[v])

Written(v) == \E p \in Spots : v \in WritesAt(p[1], p[2])
Final(w)   == /\ w.kind = "final url"  => case.answers[w.at].moved # "no"
              /\ w.kind = "final code" => case.answers[w.at].moved = "code"

Stands(x) ==
  /\ \A p \in Spots : StandsAt(x, p[1], p[2])
  /\ \A v \in Vars : ~NoValue(x[v]) => Written(v)
  /\ \A v \in Vars : Final(x[v])

\* ... and has one if the place had what it needs; in full, the one it gives now.
Supplies(full, x, i, n) ==
  LET step == Steps[i] IN
  /\ n \in DOMAIN step.prepare =>
       LET a == step.prepare[n] IN
       /\ (a.of = "nothing" \/ a.default = "text" \/ ~NoValue(x[a.of])) => ~NoValue(x[a.out])
       /\ full /\ a.of # "nothing" =>
            IF NoValue(x[a.of]) THEN a.default # "text" => NoValue(x[a.out])
            ELSE AskedFor(x[a.out]) = AskedFor(x[a.of])
  /\ n = Len(step.prepare) + 2 /\ step.method \notin {"PREPARE", "SLEEP"} =>
       \A v \in DOMAIN step.save : Gives(step.save[v], i) => ~NoValue(x[v])

\* No value is lost, and only a default is replaced.
Rises(x, y) ==
  \A v \in Vars : ~NoValue(x[v]) =>
    ~NoValue(y[v]) /\ (AskedFor(y[v]) = AskedFor(x[v]) \/ x[v].kind = "default")

\* A run saves what the URL redirected to has where a redirect is not followed.
FollowedAt(w) == w.kind \in {"url", "code"} => case.answers[w.at].moved = "no"
Followed(x)   == \A v \in Vars : FollowedAt(x[v])

LEMMA CoreFields ==
  ASSUME NEW u \in Val
  PROVE  /\ AskedFor(u).at = u.at
         /\ u.kind = "final url"  => AskedFor(u).kind = "url"
         /\ u.kind = "final code" => AskedFor(u).kind = "code"
         /\ u.kind \notin {"final url", "final code"} => AskedFor(u) = u
<1>1. CASE u.kind = "final url"
  BY <1>1 DEF AskedFor, Value
<1>2. CASE u.kind = "final code"
  BY <1>2 DEF AskedFor, Value
<1>3. CASE u.kind \notin {"final url", "final code"}
  BY <1>3 DEF AskedFor
<1> QED
  BY <1>1, <1>2, <1>3

LEMMA Core ==
  ASSUME NEW w \in Val, NEW u \in Val, AskedFor(w) = AskedFor(u)
  PROVE  /\ NoValue(w) <=> NoValue(u)
         /\ w.kind = "default" <=> u.kind = "default"
         /\ Final(u) /\ Extra(w) => Extra(u)
<1>1. NoValue(w) <=> NoValue(u)
  BY AskedForIs
<1>2. w.kind = "default" <=> u.kind = "default"
  <2>1. AskedFor(w).kind = AskedFor(u).kind
    OBVIOUS
  <2> QED
    BY <2>1, CoreFields
<1>3. ASSUME Final(u), Extra(w) PROVE Extra(u)
  <2>1. w.kind = "code" /\ case.answers[w.at].moved = "plain"
    BY <1>3 DEF Extra
  <2>2. AskedFor(u) = w
    BY <2>1, CoreFields
  <2>3. u.at = w.at
    BY <2>2, CoreFields
  <2>4. u.kind # "final code"
    BY <1>3, <2>1, <2>3 DEF Final
  <2>5. u.kind # "final url"
    BY <2>1, <2>2, CoreFields
  <2>6. u = w
    BY <2>2, <2>4, <2>5, CoreFields
  <2> QED
    BY <1>3, <2>6
<1> QED
  BY <1>1, <1>2, <1>3

LEMMA Rising ==
  ASSUME NEW x \in Valuation, NEW y \in Valuation, NEW z \in Valuation, Rises(x, y), Rises(y, z)
  PROVE  Rises(x, z)
<1> SUFFICES ASSUME NEW v \in Vars, ~NoValue(x[v])
             PROVE  ~NoValue(z[v]) /\ (AskedFor(z[v]) = AskedFor(x[v]) \/ x[v].kind = "default")
  BY DEF Rises
<1>1. x[v] \in Val /\ y[v] \in Val
  BY DEF Valuation
<1>2. ~NoValue(y[v]) /\ (AskedFor(y[v]) = AskedFor(x[v]) \/ x[v].kind = "default")
  BY DEF Rises
<1>3. ~NoValue(z[v]) /\ (AskedFor(z[v]) = AskedFor(y[v]) \/ y[v].kind = "default")
  BY <1>2 DEF Rises
<1> QED
  BY <1>1, <1>2, <1>3, Core

LEMMA SpotIs ==
  ASSUME ScenarioFits, NEW p \in Spots
  PROVE  /\ p = <<p[1], p[2]>> /\ p[1] \in DOMAIN Steps /\ p[1] \in Nat \ {0}
         /\ p[2] \in 1 .. Len(Steps[p[1]].prepare) + 2 /\ p[2] \in Nat
         /\ Len(Steps[p[1]].prepare) \in Nat
         /\ WritesAt(p[1], p[2]) \subseteq Vars
<1>1. PICK i \in DOMAIN Steps : p \in {i} \X (1 .. Len(Steps[i].prepare) + 2)
  BY DEF Spots
<1>2. p = <<p[1], p[2]>> /\ p[1] = i /\ p[2] \in 1 .. Len(Steps[i].prepare) + 2
  BY <1>1
<1>3. i \in Nat \ {0} /\ Steps[i].prepare \in Seq(Actions)
  BY StepFits
<1>4. Len(Steps[i].prepare) \in Nat
  BY <1>3
<1>5. DOMAIN Steps[i].save \subseteq Vars
  <2> DEFINE Saves == UNION {[D -> Sources] : D \in SUBSET Vars}
  <2> DEFINE Doc == [method  : {"HTTP", "EXEC", "PREPARE", "SLEEP"}, prepare : Seq(Actions),
                     unmade : SUBSET (Vars \cup {"nothing"}), uses : SUBSET Vars,
                     spared : SUBSET Vars, save : Saves, stop : {"true", "false", "unset"}]
  <2>1. Steps \in Seq(Doc)
    BY DEF ScenarioFits, Scenario
  <2>2. Steps[i] \in Doc
    <3> HIDE DEF Doc
    <3> QED
      BY <2>1
  <2>3. Steps[i].save \in Saves
    <3> HIDE DEF Saves
    <3> QED
      BY <2>2
  <2> QED
    BY <2>3
<1>6. ASSUME NEW n \in DOMAIN Steps[i].prepare PROVE Steps[i].prepare[n].out \in Vars
  <2>1. Steps[i].prepare[n] \in Actions
    BY <1>3
  <2> QED
    BY <2>1 DEF Actions
<1> QED
  BY <1>2, <1>3, <1>4, <1>5, <1>6 DEF WritesAt

LEMMA SpotAt ==
  ASSUME ScenarioFits, NEW i \in DOMAIN Steps, NEW n \in 1 .. Len(Steps[i].prepare) + 2
  PROVE  <<i, n>> \in Spots
  BY DEF Spots

\* Among places there is a first one.
LEMMA First ==
  ASSUME ScenarioFits, NEW B \in SUBSET Spots, B # {}
  PROVE  \E p \in B : \A q \in B : ~Earlier(q, p)
<1> DEFINE I == {p[1] : p \in B}
<1>1. I \in SUBSET Nat /\ I # {}
  BY SpotIs
<1>2. PICK i \in I : \A j \in I : i <= j
  BY <1>1, Least
<1> DEFINE N == {p[2] : p \in {q \in B : q[1] = i}}
<1>3. N \in SUBSET Nat /\ N # {}
  BY SpotIs
<1>4. PICK n \in N : \A m \in N : n <= m
  BY <1>3, Least
<1>5. PICK p \in B : p[1] = i /\ p[2] = n
  OBVIOUS
<1>6. ASSUME NEW q \in B PROVE ~Earlier(q, p)
  <2>1. i <= q[1] /\ i \in Nat /\ q[1] \in Nat /\ n \in Nat /\ q[2] \in Nat
    BY <1>1, <1>2, <1>3, SpotIs
  <2>2. q[1] = i => n <= q[2]
    BY <1>4
  <2> QED
    BY <1>5, <2>1, <2>2 DEF Earlier
<1> QED
  BY <1>6

\* What a place writes in a straight scenario leaves the other places as they were.
LEMMA PlaceWrites ==
  ASSUME ScenarioFits, Straight, NEW p \in Spots,
         NEW x \in Valuation, NEW y \in Valuation, NEW full \in BOOLEAN,
         \A v \in Vars : v \notin WritesAt(p[1], p[2]) => y[v] = x[v],
         \A v \in WritesAt(p[1], p[2]) : Final(y[v]),
         Rises(x, y), Stands(x), StandsAt(y, p[1], p[2])
  PROVE  /\ Stands(y)
         /\ \A q \in Spots : Earlier(q, p) /\ Supplies(full, x, q[1], q[2]) => Supplies(full, y, q[1], q[2])
<1>1. \A q \in Spots, v \in Vars :
        v \in WritesAt(q[1], q[2]) /\ q # p => v \notin WritesAt(p[1], p[2]) /\ y[v] = x[v]
  BY DEF Straight
<1>2. ASSUME NEW q \in Spots PROVE StandsAt(y, q[1], q[2])
  <2>1. CASE q = p
    BY <2>1
  <2>2. CASE q # p
    <3>1. StandsAt(x, q[1], q[2]) /\ WritesAt(q[1], q[2]) \subseteq Vars
      BY SpotIs DEF Stands
    <3>2. \A v \in WritesAt(q[1], q[2]) : y[v] = x[v]
      BY <1>1, <2>2, <3>1
    <3> DEFINE step == Steps[q[1]]
    <3>3. ASSUME q[2] \in DOMAIN step.prepare, ~NoValue(y[step.prepare[q[2]].out])
          PROVE  IF step.prepare[q[2]].of = "nothing"
                 THEN y[step.prepare[q[2]].out] = Value("made", q[1])
                 ELSE \/ AskedFor(y[step.prepare[q[2]].out]) = AskedFor(y[step.prepare[q[2]].of])
                      \/ /\ y[step.prepare[q[2]].out].kind = "default"
                         /\ \/ step.prepare[q[2]].default = "text"
                            \/ ~NoValue(y[step.prepare[q[2]].of])
      <4>1. PICK a \in Actions : a = step.prepare[q[2]]
        BY <3>3, SpotIs, StepFits
      <4>2. WritesAt(q[1], q[2]) = {a.out}
        BY <3>3, <4>1 DEF WritesAt
      <4>3. y[a.out] = x[a.out] /\ ~NoValue(x[a.out])
        BY <3>2, <3>3, <4>1, <4>2
      <4>4. IF a.of = "nothing" THEN x[a.out] = Value("made", q[1])
            ELSE \/ AskedFor(x[a.out]) = AskedFor(x[a.of])
                 \/ x[a.out].kind = "default" /\ (a.default = "text" \/ ~NoValue(x[a.of]))
        BY <3>1, <3>3, <4>1, <4>3 DEF StandsAt
      <4>5. a.of # "nothing" => a.of \in Vars
        BY DEF Actions
      <4>6. a.of # "nothing" =>
              \/ AskedFor(y[a.of]) = AskedFor(x[a.out])
              \/ x[a.out].kind = "default" /\ (a.default = "text" \/ ~NoValue(y[a.of]))
        <5> SUFFICES ASSUME a.of # "nothing"
                     PROVE  \/ AskedFor(y[a.of]) = AskedFor(x[a.out])
                            \/ x[a.out].kind = "default" /\ (a.default = "text" \/ ~NoValue(y[a.of]))
          OBVIOUS
        <5>1. a.of \in Vars /\ x[a.of] \in Val /\ x[a.out] \in Val
          BY <4>5 DEF Actions, Valuation
        <5>2. CASE AskedFor(x[a.out]) = AskedFor(x[a.of])
          <6>1. ~NoValue(x[a.of]) /\ (x[a.of].kind = "default" => x[a.out].kind = "default")
            BY <4>3, <5>1, <5>2, Core
          <6> QED
            BY <5>1, <5>2, <6>1 DEF Rises
        <5>3. CASE AskedFor(x[a.out]) # AskedFor(x[a.of])
          <6>1. x[a.out].kind = "default" /\ (a.default = "text" \/ ~NoValue(x[a.of]))
            BY <4>4, <5>3
          <6> QED
            BY <5>1, <6>1 DEF Rises
        <5> QED
          BY <5>2, <5>3
      <4> QED
        BY <4>1, <4>3, <4>4, <4>6
    <3>4. ASSUME q[2] = Len(step.prepare) + 2
          PROVE  WritesAt(q[1], q[2]) = DOMAIN step.save
      BY <3>4, SpotIs, StepFits DEF WritesAt
    <3> QED
      BY <3>1, <3>2, <3>3, <3>4 DEF StandsAt
  <2> QED
    BY <2>1, <2>2
<1>3. Stands(y)
  <2>1. \A v \in Vars : v \notin WritesAt(p[1], p[2]) =>
          (NoValue(y[v]) <=> NoValue(x[v])) /\ Final(y[v])
    BY DEF Stands
  <2>2. \A v \in Vars : ~NoValue(y[v]) => Written(v)
    BY <2>1 DEF Stands, Written
  <2> QED
    BY <1>2, <2>1, <2>2 DEF Stands
<1>4. ASSUME NEW q \in Spots, Earlier(q, p), Supplies(full, x, q[1], q[2])
      PROVE  Supplies(full, y, q[1], q[2])
  <2>1. q # p /\ ~Earlier(p, q) /\ WritesAt(q[1], q[2]) \subseteq Vars
    BY <1>4, SpotIs DEF Earlier
  <2>2. \A v \in WritesAt(q[1], q[2]) : y[v] = x[v]
    BY <1>1, <2>1
  <2>3. \A v \in Vars : v \in ReadsAt(q[1], q[2]) => y[v] = x[v]
    BY <2>1 DEF Straight
  <2> DEFINE step == Steps[q[1]]
  <2>4. ASSUME q[2] \in DOMAIN step.prepare
        PROVE  LET a == step.prepare[q[2]] IN
               /\ (a.of = "nothing" \/ a.default = "text" \/ ~NoValue(y[a.of])) => ~NoValue(y[a.out])
               /\ full /\ a.of # "nothing" =>
                    IF NoValue(y[a.of]) THEN a.default # "text" => NoValue(y[a.out])
                    ELSE AskedFor(y[a.out]) = AskedFor(y[a.of])
    <3>1. PICK a \in Actions : a = step.prepare[q[2]]
      BY <2>4, SpotIs, StepFits
    <3>2. WritesAt(q[1], q[2]) = {a.out} /\ ReadsAt(q[1], q[2]) = {a.of}
      BY <2>4, <3>1 DEF WritesAt, ReadsAt
    <3>3. a.of # "nothing" => a.of \in Vars
      BY DEF Actions
    <3>4. y[a.out] = x[a.out] /\ (a.of # "nothing" => y[a.of] = x[a.of])
      BY <2>2, <2>3, <3>2, <3>3
    <3>5. /\ (a.of = "nothing" \/ a.default = "text" \/ ~NoValue(x[a.of])) => ~NoValue(x[a.out])
          /\ full /\ a.of # "nothing" =>
               IF NoValue(x[a.of]) THEN a.default # "text" => NoValue(x[a.out])
               ELSE AskedFor(x[a.out]) = AskedFor(x[a.of])
      BY <1>4, <2>4, <3>1 DEF Supplies
    <3> QED
      BY <3>1, <3>4, <3>5
  <2>5. ASSUME q[2] = Len(step.prepare) + 2
        PROVE  WritesAt(q[1], q[2]) = DOMAIN step.save
    BY <2>5, SpotIs, StepFits DEF WritesAt
  <2> QED
    BY <1>4, <2>2, <2>4, <2>5 DEF Supplies
<1> QED
  BY <1>3, <1>4

LEMMA PrepareWrites ==
  ASSUME ScenarioFits, Straight, NEW i \in DOMAIN Steps, NEW n \in DOMAIN Steps[i].prepare,
         NEW x \in Valuation, Stands(x), NEW full \in BOOLEAN, NEW y, y = Prepare(Steps[i].prepare[n], i, x)
  PROVE  /\ y \in Valuation /\ Stands(y) /\ Rises(x, y) /\ Supplies(full, y, i, n)
         /\ \A q \in Spots : Earlier(q, <<i, n>>) /\ Supplies(full, x, q[1], q[2]) => Supplies(full, y, q[1], q[2])
         /\ Followed(x) => Followed(y)
<1>1. PICK a \in Actions : a = Steps[i].prepare[n]
  BY StepFits
<1>2. i \in Nat /\ a.out \in Vars /\ (a.of # "nothing" => a.of \in Vars)
  BY StepFits DEF Actions
<1>3. n \in 1 .. Len(Steps[i].prepare) /\ Len(Steps[i].prepare) \in Nat
  BY StepFits
<1>4. <<i, n>> \in Spots
  BY <1>3, SpotAt
<1>5. WritesAt(i, n) = {a.out} /\ ReadsAt(i, n) = {a.of}
  BY <1>1 DEF WritesAt, ReadsAt
<1>6. a.of # a.out
  <2>1. PICK p \in Spots : p = <<i, n>> /\ p[1] = i /\ p[2] = n
    BY <1>4
  <2>2. ~Earlier(p, p)
    BY <1>2, <1>3, <2>1 DEF Earlier
  <2> QED
    BY <1>2, <1>5, <2>1, <2>2 DEF Straight
<1>7. y \in Valuation
  BY <1>1, <1>2, PrepareTyped
<1>8. /\ \A v \in Vars : v # a.out => y[v] = x[v]
      /\ a.of = "nothing" => y[a.out] = Value("made", i)
      /\ a.of # "nothing" => y[a.of] = x[a.of]
                             /\ y[a.out] = IF ~NoValue(x[a.of]) THEN x[a.of]
                                           ELSE IF a.default = "text" THEN Value("default", i)
                                           ELSE Empty
  BY <1>1, <1>2, <1>6 DEF Prepare, Valuation
<1>9. /\ ~NoValue(Value("made", i)) /\ ~NoValue(Value("default", i)) /\ NoValue(Empty)
      /\ Final(Value("made", i)) /\ Final(Value("default", i)) /\ Final(Empty)
      /\ Value("default", i).kind = "default"
  BY DEF NoValue, Value, Unset, Null, Empty, Final
<1>10. ~NoValue(x[a.out]) => IF a.of = "nothing" THEN x[a.out] = Value("made", i)
                             ELSE \/ AskedFor(x[a.out]) = AskedFor(x[a.of])
                                  \/ /\ x[a.out].kind = "default"
                                     /\ a.default = "text" \/ ~NoValue(x[a.of])
  <2>1. StandsAt(x, i, n)
    BY <1>4 DEF Stands
  <2> QED
    BY <1>1, <2>1 DEF StandsAt
<1>11. Rises(x, y)
  <2> SUFFICES ASSUME NEW v \in Vars, ~NoValue(x[v])
               PROVE  ~NoValue(y[v]) /\ (AskedFor(y[v]) = AskedFor(x[v]) \/ x[v].kind = "default")
    BY DEF Rises
  <2>1. CASE v # a.out
    BY <1>8, <2>1
  <2>2. CASE v = a.out /\ a.of = "nothing"
    BY <1>8, <1>9, <1>10, <2>2
  <2>3. CASE v = a.out /\ a.of # "nothing" /\ x[v].kind = "default"
    <3>1. AskedFor(x[v]) = AskedFor(x[a.of]) \/ a.default = "text" \/ ~NoValue(x[a.of])
      BY <1>10, <2>3
    <3>2. x[v] \in Val /\ x[a.of] \in Val
      BY <1>2, <2>3 DEF Valuation
    <3>3. a.default = "text" \/ ~NoValue(x[a.of])
      BY <3>1, <3>2, Core
    <3> QED
      BY <1>8, <1>9, <2>3, <3>3
  <2>4. CASE v = a.out /\ a.of # "nothing" /\ x[v].kind # "default"
    <3>1. AskedFor(x[v]) = AskedFor(x[a.of]) /\ x[v] \in Val /\ x[a.of] \in Val
      BY <1>2, <1>10, <2>4 DEF Valuation
    <3>2. ~NoValue(x[a.of])
      BY <3>1, Core
    <3> QED
      BY <1>8, <2>4, <3>1, <3>2
  <2> QED
    BY <2>1, <2>2, <2>3, <2>4
<1>12. Supplies(full, y, i, n)
  BY <1>1, <1>3, <1>8, <1>9 DEF Supplies
<1>13. StandsAt(y, i, n)
  BY <1>1, <1>3, <1>8, <1>9 DEF StandsAt
<1>14. Final(y[a.out])
  BY <1>2, <1>8, <1>9 DEF Stands
<1>15. /\ Stands(y)
       /\ \A q \in Spots : Earlier(q, <<i, n>>) /\ Supplies(full, x, q[1], q[2]) => Supplies(full, y, q[1], q[2])
  <2>1. PICK p \in Spots : p = <<i, n>>
    BY <1>4
  <2>2. p[1] = i /\ p[2] = n
    BY <2>1
  <2> QED
    BY <1>5, <1>7, <1>8, <1>11, <1>13, <1>14, <2>1, <2>2, PlaceWrites
<1>16. ASSUME Followed(x) PROVE Followed(y)
  BY <1>2, <1>8, <1>16 DEF Followed, FollowedAt, Value, Empty
<1> QED
  BY <1>7, <1>11, <1>12, <1>15, <1>16

LEMMA MadeWrites ==
  ASSUME ScenarioFits, Straight, NEW i \in DOMAIN Steps, NEW x \in Valuation, Stands(x),
         NEW full \in BOOLEAN, NEW y, y = Made(Steps[i].prepare, i, x)
  PROVE  /\ y \in Valuation /\ Stands(y) /\ Rises(x, y)
         /\ \A q \in Spots : \/ q[1] < i /\ Supplies(full, x, q[1], q[2])
                             \/ q[1] = i /\ q[2] <= Len(Steps[i].prepare)
                             => Supplies(full, y, q[1], q[2])
         /\ Followed(x) => Followed(y)
<1> DEFINE actions == Steps[i].prepare
<1>1. Len(actions) \in Nat /\ DOMAIN actions = 1 .. Len(actions) /\ i \in Nat
  BY StepFits
<1>2. PICK f : /\ f[0] = x
               /\ \A n \in 1..Len(actions) : f[n] = Prepare(actions[n], i, f[n - 1])
               /\ Made(actions, i, x) = f[Len(actions)]
  BY <1>1, MadeIs
<1> DEFINE Good(n) ==
      /\ f[n] \in Valuation /\ Stands(f[n]) /\ Rises(x, f[n])
      /\ \A q \in Spots : \/ q[1] < i /\ Supplies(full, x, q[1], q[2])
                          \/ q[1] = i /\ q[2] <= n
                          => Supplies(full, f[n], q[1], q[2])
      /\ Followed(x) => Followed(f[n])
<1>3. Good(0)
  <2>1. \A q \in Spots : ~(q[2] <= 0)
    BY SpotIs
  <2> QED
    BY <1>2, <2>1 DEF Rises
<1>4. ASSUME NEW n \in 1 .. Len(actions), Good(n - 1) PROVE Good(n)
  <2>1. n \in DOMAIN actions /\ f[n] = Prepare(actions[n], i, f[n - 1])
    BY <1>1, <1>2
  <2>2. /\ f[n] \in Valuation /\ Stands(f[n]) /\ Rises(f[n - 1], f[n]) /\ Supplies(full, f[n], i, n)
        /\ \A q \in Spots : Earlier(q, <<i, n>>) /\ Supplies(full, f[n - 1], q[1], q[2])
                              => Supplies(full, f[n], q[1], q[2])
        /\ Followed(f[n - 1]) => Followed(f[n])
    <3>1. PICK b \in Valuation : b = f[n - 1] /\ Stands(b)
      BY <1>4
    <3>2. PICK c : c = f[n] /\ c = Prepare(Steps[i].prepare[n], i, b)
      BY <2>1, <3>1
    <3>3. /\ c \in Valuation /\ Stands(c) /\ Rises(b, c) /\ Supplies(full, c, i, n)
          /\ \A q \in Spots : Earlier(q, <<i, n>>) /\ Supplies(full, b, q[1], q[2])
                                => Supplies(full, c, q[1], q[2])
          /\ Followed(b) => Followed(c)
      BY <2>1, <3>1, <3>2, PrepareWrites
    <3> QED
      BY <3>1, <3>2, <3>3
  <2>3. Rises(x, f[n])
    BY <1>4, <2>2, Rising
  <2>4. ASSUME NEW q \in Spots,
               (q[1] < i /\ Supplies(full, x, q[1], q[2])) \/ (q[1] = i /\ q[2] <= n)
        PROVE  Supplies(full, f[n], q[1], q[2])
    <3>1. CASE q[1] = i /\ q[2] = n
      BY <2>2, <3>1
    <3>2. CASE ~(q[1] = i /\ q[2] = n)
      <4>1. q[1] \in Nat /\ q[2] \in Nat
        BY SpotIs
      <4>2. q[1] < i \/ (q[1] = i /\ q[2] <= n - 1)
        BY <1>1, <2>4, <3>2, <4>1
      <4>3. Earlier(q, <<i, n>>)
        BY <1>1, <4>1, <4>2 DEF Earlier
      <4>4. Supplies(full, f[n - 1], q[1], q[2])
        BY <1>1, <1>4, <2>4, <4>1, <4>2
      <4> QED
        BY <2>2, <4>3, <4>4
    <3> QED
      BY <3>1, <3>2
  <2> QED
    BY <1>4, <2>2, <2>3, <2>4
<1> DEFINE T == {n \in Nat : n <= Len(actions) /\ ~Good(n)}
<1>5. ASSUME T # {} PROVE FALSE
  <2> HIDE DEF Good
  <2>1. PICK n \in T : \A m \in T : n <= m
    BY <1>5, Least
  <2>2. n \in 1 .. Len(actions)
    BY <1>1, <1>3, <2>1
  <2>3. n - 1 \in Nat /\ n - 1 <= Len(actions) /\ ~(n <= n - 1)
    BY <1>1, <2>2
  <2>4. Good(n - 1)
    BY <2>1, <2>3
  <2> QED
    BY <1>4, <2>1, <2>2, <2>4
<1>6. Good(Len(actions))
  <2> HIDE DEF Good
  <2> QED
    BY <1>1, <1>5
<1> QED
  BY <1>2, <1>6

\* What is saved, and saved again, is what the answer has.
LEMMA SavedValues ==
  ASSUME ScenarioFits, NEW i \in DOMAIN Steps, NEW source \in Sources, NEW was \in Val,
         ~NoValue(was) => Holds(source, i, was), Final(was),
         NEW t, t = Saved(source, i, was)
  PROVE  /\ Gives(source, i) => ~NoValue(t)
         /\ ~NoValue(was) => ~NoValue(t) /\ AskedFor(t) = AskedFor(was)
         /\ ~NoValue(t) => Holds(source, i, t)
         /\ Final(t)
         /\ FollowedAt(was) => FollowedAt(t)
<1> DEFINE answer == case.answers[i]
<1>1. answer \in Answers
  BY StepFits
<1>2. /\ \A k \in Kinds \ {"unset", "null", "empty"} : ~NoValue(Value(k, i))
      /\ NoValue(Null) /\ NoValue(Unset) /\ Final(Null) /\ Final(Unset)
      /\ FollowedAt(Null) /\ FollowedAt(Unset)
      /\ \A k : Value(k, i).kind = k /\ Value(k, i).at = i
  BY DEF NoValue, Value, Unset, Null, Empty, Kinds, Final, FollowedAt
<1>3. /\ AskedFor(Value("final url", i)) = Value("url", i)
      /\ AskedFor(Value("final code", i)) = Value("code", i)
      /\ \A k \in Kinds \ {"final url", "final code"} : AskedFor(Value(k, i)) = Value(k, i)
  BY DEF AskedFor, Value, Kinds
<1>4. CASE source = "json"
  BY <1>1, <1>2, <1>3, <1>4 DEF Saved, Gives, Wanted, Holds, Final, FollowedAt, Kinds
<1>5. CASE source = "url"
  <2>1. Gives(source, i) <=> answer.status # "lost"
    BY <1>5 DEF Gives
  <2>2. Wanted(source, i) = Value("url", i) /\ (Holds(source, i, was) => Gives(source, i) /\ AskedFor(was) = Value("url", i))
    BY <1>5 DEF Wanted, Holds
  <2>3. CASE answer.status = "lost"
    BY <1>2, <1>5, <2>1, <2>2, <2>3 DEF Saved
  <2>4. CASE answer.status # "lost" /\ answer.moved # "no"
    <3>1. t = Value("final url", i)
      BY <1>5, <2>4 DEF Saved
    <3> QED
      <4>1. ~NoValue(t) /\ AskedFor(t) = Value("url", i) /\ t.kind = "final url" /\ t.at = i
        BY <1>2, <1>3, <3>1 DEF Kinds
      <4> QED
        BY <2>1, <2>2, <2>4, <4>1 DEF Final, FollowedAt, Holds
  <2>5. CASE answer.status # "lost" /\ answer.moved = "no"
    <3>1. t = Value("url", i)
      BY <1>5, <2>5 DEF Saved
    <3> QED
      <4>1. ~NoValue(t) /\ AskedFor(t) = Value("url", i) /\ t.kind = "url" /\ t.at = i
        BY <1>2, <1>3, <3>1 DEF Kinds
      <4> QED
        BY <2>1, <2>2, <2>5, <4>1 DEF Final, FollowedAt, Holds
  <2> QED
    BY <2>3, <2>4, <2>5
<1>6. CASE source = "code"
  <2>1. Gives(source, i) <=> answer.moved = "code" \/ (answer.moved = "no" /\ answer.asked)
    BY <1>6 DEF Gives
  <2>2. Wanted(source, i) = Value("code", i)
    BY <1>6 DEF Wanted
  <2>3. CASE answer.moved = "code"
    <3>1. t = Value("final code", i)
      BY <1>6, <2>3 DEF Saved
    <3>2. ~NoValue(was) => AskedFor(was) = Value("code", i)
      <4>1. AskedFor(Value("code", i)) = Value("code", i)
        BY <1>3 DEF Kinds
      <4> QED
        BY <2>2, <4>1 DEF Holds
    <3> QED
      <4>1. ~NoValue(t) /\ AskedFor(t) = Value("code", i) /\ t.kind = "final code" /\ t.at = i
        BY <1>2, <1>3, <3>1 DEF Kinds
      <4> QED
        BY <2>1, <2>2, <2>3, <3>2, <4>1 DEF Final, FollowedAt, Holds
  <2>4. CASE answer.moved = "no" /\ answer.asked
    <3>1. t = Value("code", i)
      BY <1>6, <2>4 DEF Saved
    <3>2. ~NoValue(was) => AskedFor(was) = Value("code", i)
      <4>1. AskedFor(Value("code", i)) = Value("code", i)
        BY <1>3 DEF Kinds
      <4> QED
        BY <2>2, <4>1 DEF Holds
    <3> QED
      <4>1. ~NoValue(t) /\ AskedFor(t) = Value("code", i) /\ t.kind = "code" /\ t.at = i
        BY <1>2, <1>3, <3>1 DEF Kinds
      <4> QED
        BY <2>1, <2>2, <2>4, <3>2, <4>1 DEF Final, FollowedAt, Holds
  <2>5. CASE ~Gives(source, i)
    <3>1. t = Kept(was)
      BY <1>6, <2>1, <2>5 DEF Saved
    <3>2. t = was \/ (was = Unset /\ t = Null)
      BY <3>1 DEF Kept
    <3> QED
      BY <1>2, <2>5, <3>2
  <2> QED
    BY <2>1, <2>3, <2>4, <2>5
<1>7. CASE source = "body"
  BY <1>1, <1>2, <1>3, <1>7 DEF Saved, Gives, Wanted, Holds, Final, FollowedAt, Kinds
<1>8. CASE source = "stdout"
  BY <1>1, <1>2, <1>3, <1>8 DEF Saved, Gives, Wanted, Holds, Final, FollowedAt, Kinds
<1> QED
  BY <1>4, <1>5, <1>6, <1>7, <1>8 DEF Sources

LEMMA SavedAgainValues ==
  ASSUME ScenarioFits, NEW i \in DOMAIN Steps, NEW source \in Sources, NEW was \in Val,
         ~NoValue(was) => Holds(source, i, was), Final(was), Answered(i),
         NEW t, t = SavedAgain(source, i, was)
  PROVE  /\ ~NoValue(was) => ~NoValue(t) /\ AskedFor(t) = AskedFor(was)
         /\ ~NoValue(t) => Holds(source, i, t)
         /\ Final(t)
<1> DEFINE answer == case.answers[i]
<1>1. answer \in Answers /\ answer.status # "lost"
  BY StepFits DEF Answered
<1>2. /\ \A k \in Kinds \ {"unset", "null", "empty"} : ~NoValue(Value(k, i))
      /\ NoValue(Null) /\ NoValue(Unset) /\ Final(Null) /\ Final(Unset)
      /\ \A k : Value(k, i).kind = k /\ Value(k, i).at = i
  BY DEF NoValue, Value, Unset, Null, Empty, Kinds, Final
<1>3. \A k \in Kinds \ {"final url", "final code"} : AskedFor(Value(k, i)) = Value(k, i)
  BY DEF AskedFor, Value, Kinds
<1>4. CASE source = "json"
  BY <1>1, <1>2, <1>3, <1>4 DEF SavedAgain, Gives, Wanted, Holds, Final, Kinds
<1>5. CASE source = "url"
  BY <1>1, <1>2, <1>3, <1>5 DEF SavedAgain, Gives, Wanted, Holds, Final, Kinds
<1>6. CASE source = "code"
  <2>1. Gives(source, i) <=> answer.moved = "code" \/ (answer.moved = "no" /\ answer.asked)
    BY <1>6 DEF Gives
  <2>2. Wanted(source, i) = Value("code", i)
    BY <1>6 DEF Wanted
  <2>3. AskedFor(Value("code", i)) = Value("code", i) /\ ~NoValue(Value("code", i)) /\ Final(Value("code", i))
    BY <1>2, <1>3 DEF Kinds, Final
  <2>4. CASE answer.asked
    <3>1. t = Value("code", i)
      BY <1>6, <2>4 DEF SavedAgain
    <3>2. ~NoValue(was) => AskedFor(was) = Value("code", i)
      BY <2>2, <2>3 DEF Holds
    <3>3. Gives(source, i) \/ Extra(Value("code", i))
      <4>1. answer.moved \in {"no", "plain", "code"}
        BY <1>1 DEF Answers
      <4>2. answer.moved = "plain" => Extra(Value("code", i))
        BY <2>4 DEF Extra, Value
      <4> QED
        BY <2>1, <2>4, <4>1, <4>2
    <3> QED
      BY <1>6, <2>2, <2>3, <3>1, <3>2, <3>3 DEF Holds
  <2>5. CASE ~answer.asked
    <3>1. t = was \/ (was = Unset /\ t = Null)
      BY <1>6, <2>5 DEF SavedAgain, Kept
    <3> QED
      BY <1>2, <3>1
  <2> QED
    BY <2>4, <2>5
<1>7. CASE source \in {"body", "stdout"}
  <2>1. t = was
    BY <1>7 DEF SavedAgain
  <2> QED
    BY <2>1
<1> QED
  BY <1>4, <1>5, <1>6, <1>7 DEF Sources

LEMMA StoreWrites ==
  ASSUME ScenarioFits, Straight, NEW i \in DOMAIN Steps,
         Steps[i].method \notin {"PREPARE", "SLEEP"},
         NEW x \in Valuation, Stands(x), NEW full \in BOOLEAN, NEW y \in Valuation,
         \A v \in Vars : v \notin DOMAIN Steps[i].save => y[v] = x[v],
         \A v \in DOMAIN Steps[i].save :
           /\ ~NoValue(x[v]) => ~NoValue(y[v]) /\ AskedFor(y[v]) = AskedFor(x[v])
           /\ ~NoValue(y[v]) => Holds(Steps[i].save[v], i, y[v])
           /\ Final(y[v])
  PROVE  /\ Stands(y) /\ Rises(x, y)
         /\ \A q \in Spots :
              /\ q[1] < i \/ (q[1] = i /\ q[2] < Len(Steps[i].prepare) + 2)
              /\ Supplies(full, x, q[1], q[2])
              => Supplies(full, y, q[1], q[2])
<1> DEFINE n == Len(Steps[i].prepare) + 2
<1>1. /\ Len(Steps[i].prepare) \in Nat /\ i \in Nat
      /\ DOMAIN Steps[i].prepare = 1 .. Len(Steps[i].prepare)
  BY StepFits
<1>2. PICK p \in Spots : p = <<i, n>> /\ p[1] = i /\ p[2] = n
  <2>1. n \in 1 .. Len(Steps[i].prepare) + 2
    BY <1>1
  <2>2. <<i, n>> \in Spots
    BY <2>1, SpotAt
  <2> QED
    BY <2>2
<1>3. WritesAt(i, n) = DOMAIN Steps[i].save /\ n \notin DOMAIN Steps[i].prepare
  BY <1>1 DEF WritesAt
<1>6. Rises(x, y)
  BY DEF Rises
<1>7. StandsAt(y, i, n)
  BY <1>3 DEF StandsAt
<1>8. Stands(y) /\ \A q \in Spots : Earlier(q, p) /\ Supplies(full, x, q[1], q[2]) => Supplies(full, y, q[1], q[2])
  BY <1>2, <1>3, <1>6, <1>7, PlaceWrites
<1> QED
  BY <1>2, <1>6, <1>8 DEF Earlier

\* A step of a run, and of a preview that needs it, supplies what it should ...
LEMMA ExecutedWrites ==
  ASSUME ScenarioFits, Straight, NEW i \in DOMAIN Steps, NEW x \in Valuation, Stands(x),
         NEW full \in BOOLEAN, NEW y, y = Executed(i, x)
  PROVE  /\ y \in Valuation /\ Stands(y) /\ Rises(x, y)
         /\ \A q \in Spots : (q[1] < i /\ Supplies(full, x, q[1], q[2])) \/ q[1] = i
                             => Supplies(full, y, q[1], q[2])
         /\ Followed(x) => Followed(y)
<1>1. PICK f : f = Made(Steps[i].prepare, i, x)
  OBVIOUS
<1>2. /\ f \in Valuation /\ Stands(f) /\ Rises(x, f)
      /\ \A q \in Spots : \/ q[1] < i /\ Supplies(full, x, q[1], q[2])
                          \/ q[1] = i /\ q[2] <= Len(Steps[i].prepare)
                          => Supplies(full, f, q[1], q[2])
      /\ Followed(x) => Followed(f)
  BY <1>1, MadeWrites
<1>3. y \in Valuation
  BY StepsAreTyped
<1>4. /\ Len(Steps[i].prepare) \in Nat /\ i \in Nat
      /\ DOMAIN Steps[i].prepare = 1 .. Len(Steps[i].prepare)
  BY StepFits
<1>5. ASSUME NEW q \in Spots, q[1] = i
      PROVE  /\ q[2] \in Nat
             /\ \/ q[2] <= Len(Steps[i].prepare)
                \/ q[2] = Len(Steps[i].prepare) + 1
                \/ q[2] = Len(Steps[i].prepare) + 2
  BY <1>4, <1>5, SpotIs
<1>6. CASE Steps[i].method \in {"PREPARE", "SLEEP"}
  <2>1. y = f
    BY <1>1, <1>6 DEF Executed
  <2>2. ASSUME NEW q \in Spots, q[1] = i, q[2] > Len(Steps[i].prepare)
        PROVE  Supplies(full, f, q[1], q[2])
    BY <1>4, <1>6, <2>2 DEF Supplies
  <2>3. ASSUME NEW q \in Spots, q[1] = i PROVE Supplies(full, f, q[1], q[2])
    BY <1>2, <1>4, <1>5, <2>2, <2>3
  <2> QED
    BY <1>2, <1>3, <2>1, <2>3
<1>7. CASE Steps[i].method \notin {"PREPARE", "SLEEP"}
  <2>1. y = Save(i, f)
    BY <1>1, <1>7 DEF Executed
  <2>2. \A v \in Vars : v \notin DOMAIN Steps[i].save => y[v] = f[v]
    BY <2>1 DEF Save
  <2>3. DOMAIN Steps[i].save \subseteq Vars /\ StandsAt(f, i, Len(Steps[i].prepare) + 2)
    <3>1. Len(Steps[i].prepare) + 2 \in 1 .. Len(Steps[i].prepare) + 2
      BY <1>4
    <3>2. PICK p \in Spots : /\ p = <<i, Len(Steps[i].prepare) + 2>>
                             /\ p[1] = i /\ p[2] = Len(Steps[i].prepare) + 2
      BY <3>1, SpotAt
    <3>3. WritesAt(i, Len(Steps[i].prepare) + 2) = DOMAIN Steps[i].save
      BY <1>4 DEF WritesAt
    <3> QED
      BY <1>2, <3>2, <3>3, SpotIs DEF Stands
  <2>4. ASSUME NEW v \in DOMAIN Steps[i].save
        PROVE  /\ Gives(Steps[i].save[v], i) => ~NoValue(y[v])
               /\ ~NoValue(f[v]) => ~NoValue(y[v]) /\ AskedFor(y[v]) = AskedFor(f[v])
               /\ ~NoValue(y[v]) => Holds(Steps[i].save[v], i, y[v])
               /\ Final(y[v])
               /\ FollowedAt(f[v]) => FollowedAt(y[v])
    <3>1. v \in Vars /\ f[v] \in Val /\ Steps[i].save[v] \in Sources
      BY <1>2, <2>3, StepFits DEF Valuation
    <3>2. y[v] = Saved(Steps[i].save[v], i, f[v])
      BY <2>1, <3>1 DEF Save
    <3>3. Final(f[v]) /\ (~NoValue(f[v]) => Holds(Steps[i].save[v], i, f[v]))
      BY <1>2, <2>3, <3>1 DEF Stands, StandsAt
    <3> QED
      BY <3>1, <3>2, <3>3, SavedValues
  <2>5. /\ Stands(y) /\ Rises(f, y)
        /\ \A q \in Spots : /\ q[1] < i \/ (q[1] = i /\ q[2] < Len(Steps[i].prepare) + 2)
                            /\ Supplies(full, f, q[1], q[2])
                            => Supplies(full, y, q[1], q[2])
    BY <1>2, <1>3, <1>7, <2>2, <2>4, StoreWrites
  <2>6. ASSUME NEW q \in Spots, q[1] = i PROVE Supplies(full, y, q[1], q[2])
    <3>1. CASE q[2] <= Len(Steps[i].prepare)
      BY <1>2, <1>4, <1>5, <2>5, <2>6, <3>1
    <3>2. CASE q[2] > Len(Steps[i].prepare)
      BY <1>4, <1>5, <2>4, <2>6, <3>2 DEF Supplies
    <3> QED
      BY <1>4, <1>5, <2>6, <3>1, <3>2
  <2>7. ASSUME NEW q \in Spots, q[1] < i, Supplies(full, x, q[1], q[2]) PROVE Supplies(full, y, q[1], q[2])
    BY <1>2, <2>5, <2>7
  <2>8. ASSUME Followed(x) PROVE Followed(y)
    BY <1>2, <2>2, <2>4, <2>8 DEF Followed
  <2> QED
    BY <1>2, <1>3, <2>5, <2>6, <2>7, <2>8, Rising
<1> QED
  BY <1>6, <1>7

\* ... and what it writes once more in a test takes nothing back.
LEMMA TestedWrites ==
  ASSUME ScenarioFits, Straight, NEW i \in DOMAIN Steps, NEW x \in Valuation, Stands(x),
         NEW y, y = Tested(i, x)
  PROVE  Stands(y)
<1>1. PICK f \in Valuation : f = Executed(i, x) /\ Stands(f)
  BY ExecutedWrites
<1>2. CASE ~SavesAgain(i)
  BY <1>1, <1>2 DEF Tested
<1>3. CASE SavesAgain(i)
  <2>0. y \in Valuation
    BY StepsAreTyped
  <2>1. y = SaveAgain(i, f)
    BY <1>1, <1>3 DEF Tested
  <2>2. Steps[i].method \notin {"PREPARE", "SLEEP"} /\ Answered(i)
    BY <1>3 DEF SavesAgain
  <2>3. \A v \in Vars : v \notin DOMAIN Steps[i].save => y[v] = f[v]
    BY <2>1 DEF SaveAgain
  <2>4. DOMAIN Steps[i].save \subseteq Vars /\ StandsAt(f, i, Len(Steps[i].prepare) + 2)
    <3>1. /\ Len(Steps[i].prepare) + 2 \in 1 .. Len(Steps[i].prepare) + 2
          /\ Len(Steps[i].prepare) \in Nat /\ DOMAIN Steps[i].prepare = 1 .. Len(Steps[i].prepare)
      BY StepFits
    <3>2. PICK p \in Spots : /\ p = <<i, Len(Steps[i].prepare) + 2>>
                             /\ p[1] = i /\ p[2] = Len(Steps[i].prepare) + 2
      BY <3>1, SpotAt
    <3>3. WritesAt(i, Len(Steps[i].prepare) + 2) = DOMAIN Steps[i].save
      BY <3>1 DEF WritesAt
    <3> QED
      BY <1>1, <3>2, <3>3, SpotIs DEF Stands
  <2>5. ASSUME NEW v \in DOMAIN Steps[i].save
        PROVE  /\ ~NoValue(f[v]) => ~NoValue(y[v]) /\ AskedFor(y[v]) = AskedFor(f[v])
               /\ ~NoValue(y[v]) => Holds(Steps[i].save[v], i, y[v])
               /\ Final(y[v])
    <3>1. v \in Vars /\ f[v] \in Val /\ Steps[i].save[v] \in Sources
      BY <2>4, StepFits DEF Valuation
    <3>2. y[v] = SavedAgain(Steps[i].save[v], i, f[v])
      BY <2>1, <3>1 DEF SaveAgain
    <3>3. Final(f[v]) /\ (~NoValue(f[v]) => Holds(Steps[i].save[v], i, f[v]))
      BY <1>1, <2>4, <3>1 DEF Stands, StandsAt
    <3> QED
      BY <2>2, <3>1, <3>2, <3>3, SavedAgainValues
  <2> QED
    BY <1>1, <2>0, <2>2, <2>3, <2>5, StoreWrites
<1> QED
  BY <1>2, <1>3

\* What the page has beside what it got from a test alone, or made of a default, the
\* run has too if the places before supply what they give now ...
LEMMA ValuesAgree ==
  ASSUME ScenarioFits, Straight, NEW x \in Valuation, NEW z \in Valuation, Stands(x), Stands(z),
         Followed(z), NEW s \in Spots, \A q \in Spots : Earlier(q, s) => Supplies(TRUE, z, q[1], q[2]),
         NEW v \in Vars, v \in ReadsAt(s[1], s[2]),
         ~NoValue(x[v]), ~Extra(x[v]), x[v].kind # "default"
  PROVE  AskedFor(x[v]) = AskedFor(z[v])
<1> DEFINE Bad(w) == /\ w \in Vars /\ ~NoValue(x[w]) /\ ~Extra(x[w]) /\ x[w].kind # "default"
                     /\ AskedFor(x[w]) # AskedFor(z[w])
<1> DEFINE B == {p \in Spots : Earlier(p, s) /\ \E w \in WritesAt(p[1], p[2]) : Bad(w)}
<1>1. ASSUME B # {} PROVE FALSE
  <2>1. PICK p \in B : \A q \in B : ~Earlier(q, p)
    <3> HIDE DEF Bad
    <3>1. B \in SUBSET Spots
      OBVIOUS
    <3> QED
      BY <1>1, <3>1, First
  <2>2. PICK w \in WritesAt(p[1], p[2]) : Bad(w)
    OBVIOUS
  <2>3. /\ p[1] \in DOMAIN Steps /\ StandsAt(x, p[1], p[2]) /\ StandsAt(z, p[1], p[2])
        /\ Supplies(TRUE, z, p[1], p[2])
    BY SpotIs DEF Stands
  <2>4. CASE p[2] \in DOMAIN Steps[p[1]].prepare
    <3>1. PICK a \in Actions : a = Steps[p[1]].prepare[p[2]]
      BY <2>3, <2>4, StepFits
    <3>2. WritesAt(p[1], p[2]) = {a.out} /\ ReadsAt(p[1], p[2]) = {a.of}
      BY <2>4, <3>1 DEF WritesAt, ReadsAt
    <3>3. w = a.out
      BY <2>2, <3>2
    <3>4. a.of # "nothing" /\ AskedFor(x[w]) = AskedFor(x[a.of])
      <4>1. IF a.of = "nothing" THEN x[w] = Value("made", p[1]) ELSE AskedFor(x[w]) = AskedFor(x[a.of])
        BY <2>2, <2>3, <2>4, <3>1, <3>3 DEF StandsAt
      <4>2. a.of = "nothing" => z[w] = Value("made", p[1])
        BY <2>2, <2>3, <2>4, <3>1, <3>3 DEF StandsAt, Supplies
      <4> QED
        BY <2>2, <4>1, <4>2
    <3>5. a.of \in Vars
      BY <3>4 DEF Actions
    <3>6. x[w] \in Val /\ x[a.of] \in Val /\ z[a.of] \in Val /\ Final(x[w])
      BY <2>2, <3>5 DEF Valuation, Stands
    <3>7. ~NoValue(x[a.of]) /\ ~Extra(x[a.of]) /\ x[a.of].kind # "default"
      BY <2>2, <3>4, <3>6, Core
    <3>8. ASSUME AskedFor(x[a.of]) = AskedFor(z[a.of]) PROVE FALSE
      <4>1. ~NoValue(z[a.of])
        BY <3>6, <3>7, <3>8, Core
      <4>2. AskedFor(z[w]) = AskedFor(z[a.of])
        BY <2>3, <2>4, <3>1, <3>3, <3>4, <4>1 DEF Supplies
      <4> QED
        BY <2>2, <3>4, <3>8, <4>2
    <3>9. Bad(a.of)
      BY <3>5, <3>7, <3>8
    <3>10. PICK q \in Spots : a.of \in WritesAt(q[1], q[2])
      BY <3>9 DEF Stands, Written
    <3>11. Earlier(q, p)
      BY <3>2, <3>5, <3>10 DEF Straight
    <3>12. Earlier(q, s)
      BY <2>1, <3>11, SpotIs DEF Earlier
    <3> QED
      BY <2>1, <3>9, <3>10, <3>11, <3>12
  <2>5. CASE p[2] \notin DOMAIN Steps[p[1]].prepare
    <3>1. p[2] = Len(Steps[p[1]].prepare) + 2 /\ w \in DOMAIN Steps[p[1]].save
      BY <2>2, <2>5 DEF WritesAt
    <3> DEFINE source == Steps[p[1]].save[w]
    <3>2. Steps[p[1]].method \notin {"PREPARE", "SLEEP"} /\ Holds(source, p[1], x[w])
      BY <2>2, <2>3, <3>1 DEF StandsAt
    <3>3. Gives(source, p[1]) /\ AskedFor(x[w]) = Wanted(source, p[1])
      BY <2>2, <3>2 DEF Holds
    <3>4. ~NoValue(z[w])
      BY <2>3, <3>1, <3>2, <3>3 DEF Supplies
    <3>5. Holds(source, p[1], z[w])
      BY <2>3, <3>1, <3>4 DEF StandsAt
    <3>6. ~Extra(z[w])
      BY <2>2 DEF Followed, FollowedAt, Extra
    <3> QED
      BY <2>2, <3>3, <3>5, <3>6 DEF Holds
  <2> QED
    BY <2>4, <2>5
<1>2. PICK p \in Spots : v \in WritesAt(p[1], p[2])
  BY DEF Stands, Written
<1>3. Earlier(p, s)
  BY <1>2 DEF Straight
<1> QED
  BY <1>1, <1>2, <1>3

\* ... and what the run has, the page has if the places before supply what they should.
LEMMA ValuesFollow ==
  ASSUME ScenarioFits, Straight, NEW x \in Valuation, NEW z \in Valuation, Stands(z), Followed(z),
         NEW s \in Spots,
         \A q \in Spots : Earlier(q, s) => Supplies(TRUE, z, q[1], q[2]) /\ Supplies(FALSE, x, q[1], q[2]),
         NEW v \in Vars, v \in ReadsAt(s[1], s[2]), ~NoValue(z[v])
  PROVE  ~NoValue(x[v])
<1> DEFINE Bad(w) == w \in Vars /\ ~NoValue(z[w]) /\ NoValue(x[w])
<1> DEFINE B == {p \in Spots : Earlier(p, s) /\ \E w \in WritesAt(p[1], p[2]) : Bad(w)}
<1>1. ASSUME B # {} PROVE FALSE
  <2>1. PICK p \in B : \A q \in B : ~Earlier(q, p)
    <3> HIDE DEF Bad
    <3>1. B \in SUBSET Spots
      OBVIOUS
    <3> QED
      BY <1>1, <3>1, First
  <2>2. PICK w \in WritesAt(p[1], p[2]) : Bad(w)
    OBVIOUS
  <2>3. /\ p[1] \in DOMAIN Steps /\ StandsAt(z, p[1], p[2])
        /\ Supplies(TRUE, z, p[1], p[2]) /\ Supplies(FALSE, x, p[1], p[2])
    BY SpotIs DEF Stands
  <2>4. CASE p[2] \in DOMAIN Steps[p[1]].prepare
    <3>1. PICK a \in Actions : a = Steps[p[1]].prepare[p[2]]
      BY <2>3, <2>4, StepFits
    <3>2. WritesAt(p[1], p[2]) = {a.out} /\ ReadsAt(p[1], p[2]) = {a.of}
      BY <2>4, <3>1 DEF WritesAt, ReadsAt
    <3>3. w = a.out
      BY <2>2, <3>2
    <3>4. a.of # "nothing" /\ a.default # "text" /\ NoValue(x[a.of])
      BY <2>2, <2>3, <2>4, <3>1, <3>3 DEF Supplies
    <3>5. ~NoValue(z[a.of])
      BY <2>2, <2>3, <2>4, <3>1, <3>3, <3>4 DEF Supplies
    <3>6. a.of \in Vars
      BY <3>4 DEF Actions
    <3>7. Bad(a.of)
      BY <3>4, <3>5, <3>6
    <3>8. PICK q \in Spots : a.of \in WritesAt(q[1], q[2])
      BY <3>7 DEF Stands, Written
    <3>9. Earlier(q, p)
      BY <3>2, <3>6, <3>8 DEF Straight
    <3>10. Earlier(q, s)
      BY <2>1, <3>9, SpotIs DEF Earlier
    <3> QED
      BY <2>1, <3>7, <3>8, <3>9, <3>10
  <2>5. CASE p[2] \notin DOMAIN Steps[p[1]].prepare
    <3>1. p[2] = Len(Steps[p[1]].prepare) + 2 /\ w \in DOMAIN Steps[p[1]].save
      BY <2>2, <2>5 DEF WritesAt
    <3>2. /\ Steps[p[1]].method \notin {"PREPARE", "SLEEP"}
          /\ Holds(Steps[p[1]].save[w], p[1], z[w])
      BY <2>2, <2>3, <3>1 DEF StandsAt
    <3>3. ~Extra(z[w])
      BY <2>2 DEF Followed, FollowedAt, Extra
    <3>4. Gives(Steps[p[1]].save[w], p[1])
      BY <3>2, <3>3 DEF Holds
    <3> QED
      BY <2>2, <2>3, <3>1, <3>2, <3>4 DEF Supplies
  <2> QED
    BY <2>4, <2>5
<1>2. PICK p \in Spots : v \in WritesAt(p[1], p[2])
  BY DEF Stands, Written
<1>3. Earlier(p, s)
  BY <1>2 DEF Straight
<1> QED
  BY <1>1, <1>2, <1>3

\* A valuation of the page beside one of the run.
LEMMA ShownValue ==
  ASSUME NEW w \in Val, NEW u \in Val, AskedFor(w) = AskedFor(u), Final(w), FollowedAt(u)
  PROVE  w \in {u, AskedFor(u)}
<1>1. w = [kind |-> w.kind, at |-> w.at] /\ u = [kind |-> u.kind, at |-> u.at]
  BY DEF Val
<1>2. u.at = w.at
  <2>1. AskedFor(w).at = w.at /\ AskedFor(u).at = u.at
    BY CoreFields
  <2> QED
    BY <2>1
<1>3. CASE w.kind = "final url"
  <2>1. AskedFor(u).kind = "url"
    BY <1>3, CoreFields
  <2>2. u.kind = "url" \/ u.kind = "final url"
    BY <2>1, CoreFields
  <2>3. u.kind # "url"
    BY <1>2, <1>3 DEF Final, FollowedAt
  <2> QED
    BY <1>1, <1>2, <1>3, <2>2, <2>3
<1>4. CASE w.kind = "final code"
  <2>1. AskedFor(u).kind = "code"
    BY <1>4, CoreFields
  <2>2. u.kind = "code" \/ u.kind = "final code"
    BY <2>1, CoreFields
  <2>3. u.kind # "code"
    BY <1>2, <1>4 DEF Final, FollowedAt
  <2> QED
    BY <1>1, <1>2, <1>4, <2>2, <2>3
<1>5. CASE w.kind \notin {"final url", "final code"}
  BY <1>5, CoreFields
<1> QED
  BY <1>3, <1>4, <1>5

--------------------------------------------------------------------------------
(***************************************************************************)
(* What previews leave, by parts of a second inductive invariant.          *)
(***************************************************************************)
\* The step a preview shows, what it lacks in x, and the place of its request.
Shown(n)   == case.requests[n].step
Lacks(n, x) == Unresolved(Steps[Shown(n)], x)
Place(n)   == <<Shown(n), Len(Steps[Shown(n)].prepare) + 1>>

\* What the page sent, and whether what goes before may run.
Sent(n) == history[n][1]
Hydrates(n) ==
  /\ case.requests[n].hydrate
  /\ \A j \in 1 .. Shown(n) - 1 : Steps[j].method = "SLEEP" => Steps[j].prepare = <<>>

\* A preview that had all has it still, and called nothing.
Quiet(n, sent, x, done) ==
  Lacks(n, sent) = {} => Lacks(n, x) = {} /\ \A i \in done : Steps[i].method = "PREPARE"

\* One that may run what goes before has all, or what the places before s supply.
Supplied(full, x, s) == \A q \in Spots : Earlier(q, s) => Supplies(full, x, q[1], q[2])
Served(n, x, s)      == Hydrates(n) => Lacks(n, x) = {} \/ Supplied(FALSE, x, s)

Previewing == ~Running /\ Request.kind = "preview"

StandInv ==
  /\ Stands(vars)
  /\ \A n \in DOMAIN results : Stands(results[n].vars)
  /\ \A n \in DOMAIN history : Stands(Sent(n))

ShowInv ==
  /\ pc \in {"prior", "selected"} /\ Previewing => Quiet(now, Sent(now), vars, executed)
  /\ pc = "prior" /\ Previewing => Served(now, vars, <<at, 1>>)
  /\ pc = "selected" /\ Previewing => Served(now, vars, Place(now))
  /\ \A n \in DOMAIN results : n \in Previews =>
       /\ Quiet(n, Sent(n), results[n].vars, results[n].executed)
       /\ Served(n, results[n].vars, Place(n))

\* The run supplies what the places of each step give.
RunStands(x, k) == Stands(x) /\ Followed(x) /\ Supplied(TRUE, x, <<k, 1>>)
SupplyInv ==
  Running /\ pc # "received" => \A k \in DOMAIN history[now] : RunStands(history[now][k], k)

JInv == Straight => StandInv /\ ShowInv /\ SupplyInv

LEMMA StraightStays ==
  ASSUME case' = case
  PROVE  /\ Steps' = Steps /\ Spots' = Spots /\ (Straight' <=> Straight)
         /\ \A x : (Stands(x)' <=> Stands(x)) /\ (Followed(x)' <=> Followed(x))
         /\ \A x, s, full : Supplied(full, x, s)' <=> Supplied(full, x, s)
         /\ \A x, k : RunStands(x, k)' <=> RunStands(x, k)
         /\ \A n : Shown(n)' = Shown(n) /\ Place(n)' = Place(n) /\ (Hydrates(n)' <=> Hydrates(n))
         /\ \A n, x : Lacks(n, x)' = Lacks(n, x)
         /\ \A n, x, s : Served(n, x, s)' <=> Served(n, x, s)
         /\ \A n, sent, x, d : Quiet(n, sent, x, d)' <=> Quiet(n, sent, x, d)
<1>1. Steps' = Steps /\ Spots' = Spots
  BY DEF Steps, Spots
<1>2. \A i, n : WritesAt(i, n)' = WritesAt(i, n) /\ ReadsAt(i, n)' = ReadsAt(i, n)
  BY <1>1 DEF WritesAt, ReadsAt
<1>3. Straight' <=> Straight
  BY <1>1, <1>2 DEF Straight
<1>4. \A x, i, n : StandsAt(x, i, n)' <=> StandsAt(x, i, n)
  BY <1>1 DEF StandsAt, Holds, Gives, Wanted, Answered, Extra
<1>5. \A v : (Written(v)' <=> Written(v)) /\ (Final(v)' <=> Final(v))
  BY <1>1, <1>2 DEF Written, Final
<1>6. \A x : (Stands(x)' <=> Stands(x)) /\ (Followed(x)' <=> Followed(x))
  BY <1>1, <1>4, <1>5 DEF Stands, Followed, FollowedAt
<1>7. \A full, x, i, n : Supplies(full, x, i, n)' <=> Supplies(full, x, i, n)
  BY <1>1 DEF Supplies, Gives
<1>8. \A x, s, full : Supplied(full, x, s)' <=> Supplied(full, x, s)
  BY <1>1, <1>7 DEF Supplied
<1>9. \A x, k : RunStands(x, k)' <=> RunStands(x, k)
  BY <1>6, <1>8 DEF RunStands
<1>10. \A n : Shown(n)' = Shown(n) /\ Place(n)' = Place(n) /\ (Hydrates(n)' <=> Hydrates(n))
  BY <1>1 DEF Shown, Place, Hydrates
<1>11. \A n, x : Lacks(n, x)' = Lacks(n, x)
  BY <1>1, <1>10 DEF Lacks
<1>12. \A n, x, s : Served(n, x, s)' <=> Served(n, x, s)
  BY <1>8, <1>10, <1>11 DEF Served
<1>13. \A n, sent, x, d : Quiet(n, sent, x, d)' <=> Quiet(n, sent, x, d)
  BY <1>1, <1>11 DEF Quiet
<1> QED
  BY <1>1, <1>3, <1>6, <1>8, <1>9, <1>10, <1>11, <1>12, <1>13

\* What the page sent stays.
LEMMA SentStays ==
  ASSUME TypeOK, pc \in {"prior", "blocked", "selected"}, case' = case, now' = now,
         history' = history \/ \E after \in Valuation : history' = [history EXCEPT ![now] = Append(@, after)]
  PROVE  /\ DOMAIN history' = 1 .. now /\ DOMAIN history = 1 .. now /\ now \in Nat \ {0}
         /\ \A n \in 1 .. now : Sent(n)' = Sent(n)
<1>1. history \in Seq(Histories) /\ Len(history) = now /\ now \in Nat \ {0}
  BY Places DEF TypeOK
<1>2. DOMAIN history = 1 .. now
  BY <1>1
<1>3. CASE history' = history
  BY <1>1, <1>2, <1>3 DEF Sent
<1>4. ASSUME NEW after \in Valuation, history' = [history EXCEPT ![now] = Append(@, after)]
      PROVE  DOMAIN history' = 1 .. now /\ \A n \in 1 .. now : Sent(n)' = Sent(n)
  <2>1. history[now] \in Seq(Valuation) /\ history[now] # <<>>
    BY <1>1, <1>2 DEF Histories
  <2>2. 1 \in 1 .. Len(history[now]) /\ Len(history[now]) \in Nat
    BY <2>1
  <2>3. Append(history[now], after)[1] = history[now][1]
    BY <2>1, <2>2, AppendProperties
  <2>4. ASSUME NEW n \in 1 .. now PROVE history'[n][1] = history[n][1]
    <3>1. CASE n = now
      BY <1>2, <1>4, <2>3, <3>1
    <3>2. CASE n # now
      BY <1>2, <1>4, <3>2
    <3> QED
      BY <3>1, <3>2
  <2> QED
    BY <1>2, <1>4, <2>4 DEF Sent
<1> QED
  BY <1>1, <1>2, <1>3, <1>4

LEMMA BlanksStand == ScenarioFits => Stands(Blanks) /\ Followed(Blanks)
<1> SUFFICES ASSUME ScenarioFits PROVE Stands(Blanks) /\ Followed(Blanks)
  OBVIOUS
<1>1. \A v \in Vars : Blanks[v] = Unset
  BY DEF Blanks
<1>2. NoValue(Unset) /\ Unset.kind = "unset"
  BY DEF NoValue, Unset, Value
<1>3. ASSUME NEW p \in Spots PROVE StandsAt(Blanks, p[1], p[2])
  <2> DEFINE step == Steps[p[1]]
  <2>1. p[2] \in DOMAIN step.prepare => step.prepare[p[2]].out \in WritesAt(p[1], p[2])
    BY DEF WritesAt
  <2>2. p[2] = Len(step.prepare) + 2 => DOMAIN step.save = WritesAt(p[1], p[2])
    BY SpotIs, StepFits DEF WritesAt
  <2> QED
    BY <1>1, <1>2, <2>1, <2>2, SpotIs DEF StandsAt
<1> QED
  BY <1>1, <1>2, <1>3 DEF Stands, Followed, FollowedAt, Final

\* Before the answer.
LEMMA StepShown ==
  ASSUME TypeOK, Straight, JInv, case' = case, now' = now, results' = results, pc # "over",
         pc' \in {"prior", "blocked", "selected"}, Stands(vars'),
         DOMAIN history' = 1 .. now, Stands(history'[now][1]),
         \A n \in 1 .. now - 1 : n \in DOMAIN history /\ Sent(n)' = Sent(n),
         Previewing /\ pc' \in {"prior", "selected"} => Quiet(now, history'[now][1], vars', executed'),
         Previewing /\ pc' = "prior" => Served(now, vars', <<at', 1>>),
         Previewing /\ pc' = "selected" => Served(now, vars', Place(now)),
         Running => \A k \in DOMAIN history'[now] : RunStands(history'[now][k], k)
  PROVE  JInv'
<1>1. (Running' <=> Running) /\ (Previewing' <=> Previewing) /\ Previews' = Previews
  BY RequestStays DEF Previewing, Previews
<1>2. DOMAIN results = 1 .. now - 1 /\ now \in Nat \ {0}
  BY Places DEF TypeOK
<1>3. Sent(now)' = history'[now][1] /\ \A n \in 1 .. now : n = now \/ n \in 1 .. now - 1
  BY <1>2 DEF Sent
<1>4. StandInv'
  <2>1. \A n \in DOMAIN results : Stands(results[n].vars)
    BY DEF JInv, StandInv
  <2>2. \A x : Stands(x)' <=> Stands(x)
    BY StraightStays
  <2>3. \A n \in DOMAIN history' : Stands(Sent(n)')
    BY <1>3 DEF JInv, StandInv
  <2> QED
    BY <2>1, <2>2, <2>3 DEF StandInv
<1>5. ShowInv'
  <2>1. \A n \in DOMAIN results : n \in Previews =>
          Quiet(n, Sent(n), results[n].vars, results[n].executed) /\ Served(n, results[n].vars, Place(n))
    BY DEF JInv, ShowInv
  <2>2. /\ \A n, sent, x, d : Quiet(n, sent, x, d)' <=> Quiet(n, sent, x, d)
        /\ \A n, x, s : Served(n, x, s)' <=> Served(n, x, s)
        /\ \A n : Place(n)' = Place(n)
    BY StraightStays
  <2>3. \A n \in DOMAIN results : Sent(n)' = Sent(n)
    BY <1>2
  <2> QED
    BY <1>1, <1>3, <2>1, <2>2, <2>3 DEF ShowInv
<1>6. SupplyInv'
  BY <1>1, StraightStays DEF SupplyInv
<1> QED
  BY <1>4, <1>5, <1>6 DEF JInv

\* The answer.
LEMMA AnswerShown ==
  ASSUME TypeOK, Straight, JInv, NEW status \in {"ok", "refused", "blocked", "error"}, Ends(status),
         pc # "over", case' = case, now' = now, Stands(vars'),
         DOMAIN history' = 1 .. now, Stands(history'[now][1]),
         \A n \in 1 .. now - 1 : n \in DOMAIN history /\ Sent(n)' = Sent(n),
         Previewing /\ status = "ok" => /\ Quiet(now, history'[now][1], vars', executed')
                                        /\ Served(now, vars', Place(now)),
         Running => \A k \in DOMAIN history'[now] : RunStands(history'[now][k], k)
  PROVE  JInv'
<1>1. PICK r : r = [status |-> status, context |-> context', vars |-> vars', executed |-> executed']
  OBVIOUS
<1>2. results \in Seq(Result) /\ Len(results) = now - 1 /\ now \in Nat \ {0}
  BY Places DEF TypeOK
<1>3. /\ DOMAIN results = 1 .. now - 1 /\ DOMAIN results' = 1 .. now
      /\ \A n \in 1 .. now - 1 : results'[n] = results[n]
      /\ results'[now] = r
  BY <1>1, <1>2 DEF Ends
<1>4. pc' = "over" /\ (Running' <=> Running) /\ r.vars = vars' /\ r.executed = executed' /\ r.status = status
  BY <1>1, RequestStays DEF Ends
<1>5. ASSUME NEW n \in DOMAIN results' PROVE n = now \/ (n \in DOMAIN results /\ results'[n] = results[n])
  BY <1>2, <1>3
<1>6. Sent(now)' = history'[now][1] /\ \A n \in 1 .. now : n = now \/ n \in 1 .. now - 1
  BY <1>2 DEF Sent
<1>7. StandInv'
  <2>1. \A n \in DOMAIN results : Stands(results[n].vars)
    BY DEF JInv, StandInv
  <2>2. \A x : Stands(x)' <=> Stands(x)
    BY StraightStays
  <2>3. \A n \in DOMAIN history' : Stands(Sent(n)')
    BY <1>6 DEF JInv, StandInv
  <2> QED
    BY <1>3, <1>4, <1>5, <2>1, <2>2, <2>3 DEF StandInv
<1>8. ShowInv'
  <2>1. \A n \in DOMAIN results : n \in Previews =>
          Quiet(n, Sent(n), results[n].vars, results[n].executed) /\ Served(n, results[n].vars, Place(n))
    BY DEF JInv, ShowInv
  <2>2. /\ \A n, x, s : Served(n, x, s)' <=> Served(n, x, s)
        /\ \A n : Place(n)' = Place(n)
        /\ \A n, sent, x, d : Quiet(n, sent, x, d)' <=> Quiet(n, sent, x, d)
    BY StraightStays
  <2>3. ASSUME NEW n \in DOMAIN results', n \in Previews'
        PROVE  /\ Quiet(n, Sent(n)', results'[n].vars, results'[n].executed)
               /\ Served(n, results'[n].vars, Place(n))
    <3>1. n \in DOMAIN case.requests /\ case.requests[n].kind = "preview" /\ results'[n].status = "ok"
      BY <2>3 DEF Previews
    <3>2. CASE n = now
      BY <1>3, <1>4, <1>6, <3>1, <3>2, Places DEF Previewing, Request, RunNumber
    <3>3. CASE n \in DOMAIN results /\ results'[n] = results[n]
      BY <1>3, <2>1, <3>1, <3>3 DEF Previews
    <3> QED
      BY <1>5, <3>2, <3>3
  <2> QED
    BY <1>3, <1>4, <2>2, <2>3 DEF ShowInv
<1>9. SupplyInv'
  BY <1>4, StraightStays DEF SupplyInv
<1> QED
  BY <1>7, <1>8, <1>9 DEF JInv

\* Where no value is lost nothing more is lacking.
LEMMA LacksLess ==
  ASSUME ScenarioFits, NEW n, Shown(n) \in DOMAIN Steps, NEW x, NEW y, Rises(x, y),
         Lacks(n, x) = {}
  PROVE  Lacks(n, y) = {}
<1> DEFINE step == Steps[Shown(n)]
<1>1. step.prepare \in Seq(Actions) /\ step.uses \in SUBSET Vars
  BY StepFits
<1>2. \A m \in DOMAIN step.prepare : step.prepare[m] \in Actions
  BY <1>1
<1>3. ASSUME NEW v \in Needs(step) PROVE v \in Vars
  BY <1>1, <1>2 DEF Needs, Copied, Actions
<1> QED
  BY <1>3 DEF Lacks, Unresolved, Rises

\* The places before a step, and those with it.
LEMMA SuppliedOne == ScenarioFits => \A x, full : Supplied(full, x, <<1, 1>>)
  BY SpotIs DEF Supplied, Earlier

LEMMA SuppliedNext ==
  ASSUME ScenarioFits, NEW i \in DOMAIN Steps, NEW full, NEW x, NEW y,
         Supplied(full, x, <<i, 1>>),
         \A q \in Spots : \/ q[1] < i /\ Supplies(full, x, q[1], q[2])
                         \/ q[1] = i
                         => Supplies(full, y, q[1], q[2])
  PROVE  Supplied(full, y, <<i + 1, 1>>)
<1>1. i \in Nat
  BY StepFits
<1> SUFFICES ASSUME NEW q \in Spots, Earlier(q, <<i + 1, 1>>) PROVE Supplies(full, y, q[1], q[2])
  BY DEF Supplied
<1>2. q[1] \in Nat /\ q[2] \in Nat /\ q[2] >= 1
  BY SpotIs
<1>3. q[1] < i \/ q[1] = i
  BY <1>1, <1>2 DEF Earlier
<1>4. q[1] < i => Supplies(full, x, q[1], q[2])
  BY DEF Supplied, Earlier
<1> QED
  BY <1>3, <1>4

LEMMA BeginShown == ASSUME IInv, JInv, Straight, Begin PROVE JInv'
<1>1. /\ pc = "received" /\ executed' = {} /\ at' = 1
      /\ UNCHANGED <<case, now>> /\ history' = Append(history, <<vars'>>)
      /\ vars' = IF Previewing THEN vars ELSE Blanks
  BY DEF Begin, Blanks, Previewing
<1>2. ScenarioFits /\ TypeOK /\ now \in Nat \ {0}
  BY Places DEF IInv, TypeOK
<1>3. Stands(vars')
  BY <1>1, <1>2, BlanksStand DEF JInv, StandInv
<1>4. Quiet(now, vars', vars', executed')
  BY <1>1 DEF Quiet
<1>5. Served(now, vars', <<1, 1>>)
  BY <1>2, SuppliedOne DEF Served
<1>0. /\ DOMAIN history' = 1 .. now /\ history'[now][1] = vars' /\ history'[now] = <<vars'>>
      /\ \A n \in 1 .. now - 1 : n \in DOMAIN history /\ Sent(n)' = Sent(n)
  <2>1. history \in Seq(Histories) /\ Len(history) = now - 1
    BY <1>1, <1>2 DEF TypeOK
  <2> QED
    BY <1>1, <1>2, <2>1 DEF Sent
<1>6. Running => \A k \in DOMAIN history'[now] : RunStands(history'[now][k], k)
  <2>2. history'[now] = <<vars'>>
    BY <1>0
  <2>3. Running => vars' = Blanks
    BY <1>1 DEF Previewing
  <2>4. RunStands(Blanks, 1)
    BY <1>2, BlanksStand, SuppliedOne DEF RunStands
  <2> QED
    BY <2>2, <2>3, <2>4
<1>7. \/ pc' = "prior" /\ results' = results
      \/ Ends("refused")
  BY DEF Begin
<1>8. CASE pc' = "prior" /\ results' = results
  BY <1>0, <1>1, <1>2, <1>3, <1>4, <1>5, <1>6, <1>8, StepShown
<1>9. CASE Ends("refused")
  BY <1>0, <1>1, <1>2, <1>3, <1>6, <1>9, AnswerShown
<1> QED
  BY <1>7, <1>8, <1>9

LEMMA TestShown ==
  ASSUME IInv, JInv, Straight, TestPrior \/ TestSelected
  PROVE  JInv'
<1>1. /\ pc = "prior" /\ pc' \in {"prior", "blocked", "selected"} /\ ~Running /\ ~Previewing
      /\ Advance(Tested(at, vars)) /\ at <= Selected
  BY DEF TestPrior, TestSelected, Previewing, IInv, PlaceInv
<1>2. /\ case' = case /\ now' = now /\ results' = results /\ vars' = Tested(at, vars)
  BY <1>1 DEF Advance
<1>3. at \in DOMAIN Steps /\ vars \in Valuation /\ ScenarioFits
  <2>1. TypeOK /\ at \in Nat \ {0}
    BY DEF IInv, TypeOK
  <2>2. CASE TestPrior
    BY <2>1, <2>2, Places DEF TestPrior, TypeOK
  <2>3. CASE TestSelected
    BY <2>1, <2>3, Places DEF TestSelected, TypeOK
  <2> QED
    BY <2>2, <2>3
<1>4. Stands(vars')
  BY <1>2, <1>3, TestedWrites DEF JInv, StandInv
<1>5. /\ DOMAIN history' = 1 .. now /\ Stands(history'[now][1]) /\ TypeOK
      /\ \A n \in 1 .. now - 1 : n \in DOMAIN history /\ Sent(n)' = Sent(n)
  <2>1. PICK after \in Valuation : after = Tested(at, vars)
    BY <1>3, StepsAreTyped DEF IInv
  <2>2. history' = [history EXCEPT ![now] = Append(@, after)]
    BY <1>1, <2>1 DEF Advance
  <2>3. TypeOK
    BY DEF IInv
  <2>4. /\ DOMAIN history' = 1 .. now /\ DOMAIN history = 1 .. now /\ now \in Nat \ {0}
        /\ \A n \in 1 .. now : Sent(n)' = Sent(n)
    BY <1>1, <1>2, <2>2, <2>3, SentStays
  <2>5. \A n \in 1 .. now : Stands(Sent(n))
    BY <2>4 DEF JInv, StandInv
  <2>6. now \in 1 .. now /\ \A n \in 1 .. now - 1 : n \in 1 .. now
    BY <2>4
  <2>7. history'[now][1] = Sent(now)
    BY <1>2, <2>4, <2>6 DEF Sent
  <2> QED
    BY <2>3, <2>4, <2>5, <2>6, <2>7
<1> QED
  BY <1>1, <1>2, <1>4, <1>5, StepShown

LEMMA RunStepShown == ASSUME IInv, JInv, Straight, RunStep PROVE JInv'
<1>1. /\ pc = "prior" /\ pc' \in {"prior", "selected"} /\ Running /\ ~Previewing
      /\ Advance(Executed(at, vars)) /\ at < Selected
  BY DEF RunStep, Previewing
<1>2. TypeOK /\ ScenarioFits /\ vars \in Valuation /\ at \in Nat \ {0}
  BY DEF IInv, TypeOK
<1>3. at \in DOMAIN Steps /\ now \in Lines
  BY <1>1, <1>2, Places
<1>4. PICK after \in Valuation : after = Executed(at, vars)
  BY <1>2, <1>3, StepsAreTyped
<1>5. /\ case' = case /\ now' = now /\ results' = results /\ vars' = after
      /\ history[now] \in Seq(Valuation) /\ history'[now] = Append(history[now], after)
      /\ Len(history) = now
  BY <1>1, <1>2, <1>4, AdvanceTyped
<1>6. at = Len(history[now]) /\ vars = history[now][at]
  <2>1. now \in Nat /\ now <= Len(history)
    BY <1>2, <1>5, Places
  <2> QED
    BY <1>1, <1>3, <2>1 DEF IInv, HistoryInv
<1>7. \A k \in DOMAIN history[now] : RunStands(history[now][k], k)
  BY <1>1 DEF JInv, SupplyInv
<1>8. RunStands(vars, at)
  BY <1>2, <1>5, <1>6, <1>7
<1>9. /\ Stands(after) /\ Followed(after)
      /\ \A q \in Spots : (q[1] < at /\ Supplies(TRUE, vars, q[1], q[2])) \/ q[1] = at
                          => Supplies(TRUE, after, q[1], q[2])
  BY <1>2, <1>3, <1>4, <1>8, ExecutedWrites DEF RunStands
<1>10. RunStands(after, at + 1)
  BY <1>2, <1>3, <1>8, <1>9, SuppliedNext DEF RunStands
<1>11. ASSUME NEW k \in DOMAIN history'[now] PROVE RunStands(history'[now][k], k)
  <2>1. CASE k = at + 1
    BY <1>2, <1>5, <1>6, <1>10, <2>1
  <2>2. CASE k # at + 1
    <3>1. k \in DOMAIN history[now] /\ history'[now][k] = history[now][k]
      BY <1>2, <1>5, <1>6, <2>2
    <3> QED
      BY <1>7, <3>1
  <2> QED
    BY <2>1, <2>2
<1>12. /\ DOMAIN history' = 1 .. now /\ Stands(history'[now][1])
       /\ \A n \in 1 .. now - 1 : n \in DOMAIN history /\ Sent(n)' = Sent(n)
  <2>1. history' = [history EXCEPT ![now] = Append(@, after)]
    BY <1>1, <1>4 DEF Advance
  <2>2. /\ DOMAIN history' = 1 .. now /\ DOMAIN history = 1 .. now /\ now \in Nat \ {0}
        /\ \A n \in 1 .. now : Sent(n)' = Sent(n)
    BY <1>1, <1>2, <1>5, <2>1, SentStays
  <2>3. \A n \in 1 .. now : Stands(Sent(n))
    BY <2>2 DEF JInv, StandInv
  <2>4. now \in 1 .. now /\ \A n \in 1 .. now - 1 : n \in 1 .. now
    BY <2>2
  <2>5. history'[now][1] = Sent(now)
    BY <1>5, <2>2, <2>4 DEF Sent
  <2> QED
    BY <2>2, <2>3, <2>4, <2>5
<1> QED
  BY <1>1, <1>2, <1>5, <1>9, <1>11, <1>12, StepShown

LEMMA PreviewPriorShown == ASSUME IInv, JInv, Straight, PreviewPrior PROVE JInv'
<1>1. /\ pc = "prior" /\ pc' = "prior" /\ Previewing /\ ~Running /\ at < Selected /\ at' = at + 1
      /\ case' = case /\ now' = now /\ results' = results
  BY DEF PreviewPrior, Advance, Previewing
<1>2. TypeOK /\ ScenarioFits /\ vars \in Valuation /\ at \in Nat \ {0} /\ executed \in SUBSET Nat
  BY DEF IInv, TypeOK
<1>3. /\ Selected = Shown(now) /\ Shown(now) \in DOMAIN Steps /\ Shown(now) \in Nat
      /\ at \in DOMAIN Steps /\ Request.hydrate = case.requests[now].hydrate
  BY <1>1, <1>2, Places DEF Previewing, Shown, Request
<1>4. Stands(vars) /\ Quiet(now, Sent(now), vars, executed) /\ Served(now, vars, <<at, 1>>)
  BY <1>1 DEF JInv, StandInv, ShowInv
<1>5. NeedsPrior(at) =>
        Steps[at].method = "PREPARE" \/ Lacks(now, vars) # {}
  BY <1>3 DEF NeedsPrior, Lacks
<1>0. /\ DOMAIN history' = 1 .. now /\ history'[now][1] = Sent(now) /\ Stands(Sent(now))
      /\ \A n \in 1 .. now - 1 : n \in DOMAIN history /\ Sent(n)' = Sent(n)
  <2>1. Executed(at, vars) \in Valuation
    BY <1>2, <1>3, StepsAreTyped
  <2>2. history' = history \/ history' = [history EXCEPT ![now] = Append(@, Executed(at, vars))]
    BY DEF PreviewPrior, Advance
  <2> QED
    BY <1>1, <1>2, <2>1, <2>2, SentStays DEF Sent, JInv, StandInv
<1>6. CASE NeedsPrior(at)
  <2>1. PICK after \in Valuation : after = Executed(at, vars)
    BY <1>2, <1>3, StepsAreTyped
  <2>2. vars' = after /\ executed' = executed \cup {at}
    BY <1>6, <2>1 DEF PreviewPrior, Advance
  <2>3. /\ Stands(after) /\ Rises(vars, after)
        /\ \A q \in Spots : (q[1] < at /\ Supplies(FALSE, vars, q[1], q[2])) \/ q[1] = at
                            => Supplies(FALSE, after, q[1], q[2])
    BY <1>2, <1>3, <1>4, <2>1, ExecutedWrites
  <2>4. Lacks(now, vars) = {} => Lacks(now, after) = {}
    BY <1>2, <1>3, <2>3, LacksLess
  <2>5. Quiet(now, Sent(now), vars', executed')
    BY <1>4, <1>5, <1>6, <2>2, <2>4 DEF Quiet
  <2>6. Supplied(FALSE, vars, <<at, 1>>) => Supplied(FALSE, after, <<at + 1, 1>>)
    BY <1>2, <1>3, <2>3, SuppliedNext
  <2>7. Served(now, vars', <<at', 1>>)
    BY <1>1, <1>4, <2>2, <2>4, <2>6 DEF Served
  <2> QED
    BY <1>0, <1>1, <1>2, <2>2, <2>3, <2>5, <2>7, StepShown
<1>7. CASE ~NeedsPrior(at)
  <2>1. vars' = vars /\ executed' = executed
    BY <1>7 DEF PreviewPrior
  <2>2. ASSUME Hydrates(now), Lacks(now, vars) # {}, NEW q \in Spots, q[1] = at
        PROVE  Supplies(FALSE, vars, q[1], q[2])
    <3>1. CASE Steps[at].method = "PREPARE"
      <4>1. \A v \in Outputs(Steps[at]) : ~NoValue(vars[v])
        BY <1>7, <3>1 DEF NeedsPrior, DoneBefore
      <4>2. \A m \in DOMAIN Steps[at].prepare : ~NoValue(vars[Steps[at].prepare[m].out])
        BY <4>1 DEF Outputs
      <4> QED
        BY <2>2, <3>1, <4>2 DEF Supplies
    <3>2. CASE Steps[at].method = "SLEEP"
      <4>1. Steps[at].prepare = <<>>
        BY <1>1, <1>2, <1>3, <2>2, <3>2 DEF Hydrates
      <4> QED
        BY <2>2, <3>2, <4>1 DEF Supplies
    <3>3. CASE Steps[at].method \notin {"PREPARE", "SLEEP"}
      BY <1>3, <1>7, <2>2, <3>3 DEF NeedsPrior, Hydrates, Lacks
    <3> QED
      BY <3>1, <3>2, <3>3
  <2>3. Served(now, vars, <<at + 1, 1>>)
    <3> SUFFICES ASSUME Hydrates(now), Lacks(now, vars) # {} PROVE Supplied(FALSE, vars, <<at + 1, 1>>)
      BY DEF Served
    <3>1. Supplied(FALSE, vars, <<at, 1>>)
      BY <1>4 DEF Served
    <3>2. \A q \in Spots : (q[1] < at /\ Supplies(FALSE, vars, q[1], q[2])) \/ q[1] = at
                           => Supplies(FALSE, vars, q[1], q[2])
      BY <2>2
    <3> QED
      BY <1>2, <1>3, <3>1, <3>2, SuppliedNext
  <2> QED
    BY <1>0, <1>1, <1>2, <1>4, <2>1, <2>3, StepShown
<1> QED
  BY <1>6, <1>7

\* The places before that of the request: those of the steps before and the
\* prepare actions of the step.
LEMMA SuppliedToPlace ==
  ASSUME ScenarioFits, NEW n, Shown(n) \in DOMAIN Steps, NEW full, NEW x, NEW y,
         Supplied(full, x, <<Shown(n), 1>>),
         \A q \in Spots : \/ q[1] < Shown(n) /\ Supplies(full, x, q[1], q[2])
                          \/ q[1] = Shown(n) /\ q[2] <= Len(Steps[Shown(n)].prepare)
                          => Supplies(full, y, q[1], q[2])
  PROVE  Supplied(full, y, Place(n))
<1> SUFFICES ASSUME NEW q \in Spots, Earlier(q, Place(n)) PROVE Supplies(full, y, q[1], q[2])
  BY DEF Supplied
<1> DEFINE i == Shown(n)
<1>1. q[1] \in Nat /\ q[2] \in Nat /\ i \in Nat /\ Len(Steps[i].prepare) \in Nat
  BY SpotIs, StepFits
<1>2. q[1] < i \/ (q[1] = i /\ q[2] <= Len(Steps[i].prepare))
  BY <1>1 DEF Earlier, Place
<1>3. q[1] < i => Supplies(full, x, q[1], q[2])
  BY DEF Supplied, Earlier
<1> QED
  BY <1>2, <1>3

LEMMA PreviewSelectedShown == ASSUME IInv, JInv, Straight, PreviewSelected PROVE JInv'
<1>1. /\ pc = "prior" /\ pc' = "selected" /\ Previewing /\ ~Running /\ at = Selected
      /\ case' = case /\ now' = now /\ results' = results /\ executed' = executed
      /\ vars' = Made(Steps[at].prepare, at, vars)
  BY DEF PreviewSelected, Previewing
<1>2. TypeOK /\ ScenarioFits /\ vars \in Valuation
  BY DEF IInv, TypeOK
<1>3. at = Shown(now) /\ at \in DOMAIN Steps
  BY <1>1, <1>2, Places DEF Previewing, Shown, Request
<1>4. Stands(vars) /\ Quiet(now, Sent(now), vars, executed) /\ Served(now, vars, <<at, 1>>)
  BY <1>1 DEF JInv, StandInv, ShowInv
<1>5. /\ Stands(vars') /\ Rises(vars, vars')
      /\ \A q \in Spots : \/ q[1] < at /\ Supplies(FALSE, vars, q[1], q[2])
                          \/ q[1] = at /\ q[2] <= Len(Steps[at].prepare)
                          => Supplies(FALSE, vars', q[1], q[2])
  BY <1>1, <1>2, <1>3, <1>4, MadeWrites
<1>6. Lacks(now, vars) = {} => Lacks(now, vars') = {}
  BY <1>2, <1>3, <1>5, LacksLess
<1>7. Quiet(now, Sent(now), vars', executed')
  BY <1>1, <1>4, <1>6 DEF Quiet
<1>8. Supplied(FALSE, vars, <<at, 1>>) => Supplied(FALSE, vars', Place(now))
  BY <1>2, <1>3, <1>5, SuppliedToPlace
<1>9. Served(now, vars', Place(now))
  BY <1>4, <1>6, <1>8 DEF Served
<1>10. /\ DOMAIN history' = 1 .. now /\ history'[now][1] = Sent(now) /\ Stands(Sent(now))
       /\ \A n \in 1 .. now - 1 : n \in DOMAIN history /\ Sent(n)' = Sent(n)
  <2>1. history' = history
    BY DEF PreviewSelected
  <2> QED
    BY <1>1, <1>2, <2>1, SentStays DEF Sent, JInv, StandInv
<1> QED
  BY <1>1, <1>2, <1>5, <1>7, <1>9, <1>10, StepShown

LEMMA AnswersShown == ASSUME IInv, JInv, Straight, Blocked \/ Broken \/ Answer PROVE JInv'
<1>1. TypeOK /\ pc \in {"prior", "blocked", "selected"}
  BY DEF IInv, Blocked, Broken, Answer
<1>2. UNCHANGED <<case, now, context, at, executed, history>>
  BY DEF Blocked, Broken, Answer
<1>3. /\ DOMAIN history' = 1 .. now /\ history'[now][1] = Sent(now) /\ Stands(Sent(now))
      /\ \A n \in 1 .. now - 1 : n \in DOMAIN history /\ Sent(n)' = Sent(n)
  BY <1>1, <1>2, SentStays DEF Sent, JInv, StandInv
<1>4. Stands(vars')
  <2>1. vars' = vars \/ vars' = Sent(now)
    BY DEF Blocked, Broken, Answer, Sent
  <2> QED
    BY <1>3, <2>1 DEF JInv, StandInv
<1>5. Running => \A k \in DOMAIN history'[now] : RunStands(history'[now][k], k)
  BY <1>1, <1>2 DEF JInv, SupplyInv
<1>6. CASE Blocked
  BY <1>1, <1>2, <1>3, <1>4, <1>5, <1>6, AnswerShown DEF Blocked
<1>7. CASE Broken
  BY <1>1, <1>2, <1>3, <1>4, <1>5, <1>7, AnswerShown DEF Broken
<1>8. CASE Answer
  <2>1. Previewing => pc = "selected"
    <3>1. Previewing => Selected \in DOMAIN Steps
      BY <1>1, Places DEF Previewing
    <3> QED
      BY <1>1, <1>8, <3>1, Places DEF Answer
  <2>2. vars' = vars
    BY <1>8 DEF Answer
  <2>3. Previewing => Quiet(now, Sent(now), vars', executed') /\ Served(now, vars', Place(now))
    BY <1>2, <2>1, <2>2 DEF JInv, ShowInv
  <2>4. Ends("ok")
    BY <1>8 DEF Answer
  <2> QED
    BY <1>1, <1>2, <1>3, <1>4, <1>5, <2>3, <2>4, AnswerShown
<1> QED
  BY <1>6, <1>7, <1>8

LEMMA NextRequestShown == ASSUME IInv, JInv, Straight, NextRequest PROVE JInv'
<1>1. /\ pc = "over" /\ pc' = "received"
      /\ UNCHANGED <<case, context, at, vars, executed, results, history>>
  BY DEF NextRequest
<1>2. \A n : Sent(n)' = Sent(n)
  BY <1>1 DEF Sent
<1>3. StandInv'
  <2>1. \A x : Stands(x)' <=> Stands(x)
    BY <1>1, StraightStays
  <2> QED
    BY <1>1, <1>2, <2>1 DEF JInv, StandInv
<1>4. ShowInv'
  <2>1. /\ \A n, sent, x, d : Quiet(n, sent, x, d)' <=> Quiet(n, sent, x, d)
        /\ \A n, x, s : Served(n, x, s)' <=> Served(n, x, s)
        /\ \A n : Place(n)' = Place(n)
        /\ Previews' = Previews
    BY <1>1, StraightStays DEF Previews
  <2> QED
    BY <1>1, <1>2, <2>1 DEF JInv, ShowInv
<1> QED
  BY <1>1, <1>3, <1>4 DEF JInv, SupplyInv

LEMMA UnchangedShown == ASSUME JInv, Straight, UNCHANGED svars PROVE JInv'
<1>1. UNCHANGED <<case, now, pc, context, at, vars, executed, results, history>>
  BY DEF svars
<1>2. /\ \A x : Stands(x)' <=> Stands(x)
      /\ \A x, k : RunStands(x, k)' <=> RunStands(x, k)
      /\ \A n, sent, x, d : Quiet(n, sent, x, d)' <=> Quiet(n, sent, x, d)
      /\ \A n, x, s : Served(n, x, s)' <=> Served(n, x, s)
      /\ \A n : Place(n)' = Place(n)
      /\ Previews' = Previews
      /\ (Running' <=> Running) /\ (Previewing' <=> Previewing)
      /\ \A n : Sent(n)' = Sent(n)
  BY <1>1, StraightStays, RequestStays DEF Previewing, Previews, Sent
<1>3. StandInv'
  BY <1>1, <1>2 DEF JInv, StandInv
<1>4. ShowInv'
  BY <1>1, <1>2 DEF JInv, ShowInv
<1>5. SupplyInv'
  BY <1>1, <1>2 DEF JInv, SupplyInv
<1> QED
  BY <1>3, <1>4, <1>5 DEF JInv

LEMMA ShownInit == Init => JInv
<1> SUFFICES ASSUME Init, Straight PROVE StandInv /\ ShowInv /\ SupplyInv
  BY DEF JInv
<1>1. now = 1 /\ pc = "received" /\ vars = Blanks /\ results = <<>> /\ history = <<>>
  BY DEF Init, Blanks
<1>2. ScenarioFits
  BY InitHolds DEF IInv, TypeOK
<1> QED
  BY <1>1, <1>2, BlanksStand DEF StandInv, ShowInv, SupplyInv

LEMMA ShownNext == IInv /\ JInv /\ [Next]_svars => JInv'
<1> SUFFICES ASSUME IInv, JInv, [Next]_svars PROVE JInv'
  OBVIOUS
<1>1. case' = case
  BY DEF Next, svars, Begin, TestPrior, Blocked, TestSelected, RunStep, PreviewPrior,
         PreviewSelected, Broken, Answer, NextRequest, Done, Advance
<1>2. CASE ~Straight
  BY <1>1, <1>2, StraightStays DEF JInv
<1>3. CASE Straight
  <2>1. CASE Begin
    BY <1>3, <2>1, BeginShown
  <2>2. CASE TestPrior \/ TestSelected
    BY <1>3, <2>2, TestShown
  <2>3. CASE RunStep
    BY <1>3, <2>3, RunStepShown
  <2>4. CASE PreviewPrior
    BY <1>3, <2>4, PreviewPriorShown
  <2>5. CASE PreviewSelected
    BY <1>3, <2>5, PreviewSelectedShown
  <2>6. CASE Blocked \/ Broken \/ Answer
    BY <1>3, <2>6, AnswersShown
  <2>7. CASE NextRequest
    BY <1>3, <2>7, NextRequestShown
  <2>8. CASE Done \/ UNCHANGED svars
    BY <1>3, <2>8, UnchangedShown DEF Done
  <2> QED
    BY <2>1, <2>2, <2>3, <2>4, <2>5, <2>6, <2>7, <2>8 DEF Next
<1> QED
  BY <1>2, <1>3

LEMMA ShownInvariance == Spec => [](IInv /\ JInv)
<1>1. Init => IInv /\ JInv
  BY InitHolds, ShownInit
<1>2. (IInv /\ JInv) /\ [Next]_svars => (IInv /\ JInv)'
  BY NextKeeps, ShownNext
<1> QED
  BY <1>1, <1>2, PTL DEF Spec

\* When everything is over, each preview is answered and the run has been at each
\* step it reached.
LEMMA AnsweredPreviews ==
  ASSUME IInv, AllDone, NEW n \in Previews
  PROVE  n \in DOMAIN results /\ n \in Nat \ {0} /\ Shown(n) \in DOMAIN Steps
<1>1. /\ pc = "over" /\ Len(results) = now /\ now = RunNumber /\ results \in Seq(Result)
      /\ Len(case.requests) \in Nat /\ DOMAIN case.requests = 1 .. Len(case.requests)
  BY Places DEF IInv, TypeOK, AllDone, Running, RunNumber
<1>2. n \in DOMAIN case.requests /\ case.requests[n].kind = "preview"
  BY DEF Previews
<1> QED
  BY <1>1, <1>2 DEF RunNumber, IInv, TypeOK, Shown

LEMMA ReachedStands ==
  ASSUME IInv, JInv, AllDone, Straight, NEW i \in DOMAIN Steps, Reached(i)
  PROVE  RunAt(i) \in Valuation /\ RunStands(RunAt(i), i)
<1>1. /\ Running /\ pc # "received" /\ now = RunNumber /\ Len(history) = now
      /\ now \in Nat \ {0} /\ i \in Nat /\ at \in Nat
      /\ history \in Seq(Histories)
  BY Places DEF IInv, TypeOK, AllDone, Running, RunNumber
<1>2. now \in Lines /\ history[now] \in Seq(Valuation)
  <2>1. now \in DOMAIN history
    BY <1>1
  <2>2. history[now] \in Histories
    BY <1>1, <2>1
  <2> QED
    BY <1>1, <2>2 DEF Lines, Histories
<1>3. at = Len(history[now]) /\ executed = 1 .. at - 1
  BY <1>1, <1>2 DEF IInv, HistoryInv, RunInv
<1>4. i \in DOMAIN history[now]
  BY <1>1, <1>2, <1>3 DEF Reached
<1> QED
  BY <1>1, <1>2, <1>4 DEF JInv, SupplyInv, RunAt

\* What a step needs is read at the place of its request.
LEMMA PlaceReads ==
  ASSUME ScenarioFits, NEW n, Shown(n) \in DOMAIN Steps, NEW v \in Steps[Shown(n)].uses
  PROVE  /\ v \in Vars /\ Place(n) \in Spots /\ v \in ReadsAt(Place(n)[1], Place(n)[2])
         /\ \A x : Lacks(n, x) = {} => ~NoValue(x[v]) \/ v \in Steps[Shown(n)].spared
<1> DEFINE i == Shown(n)
<1>1. /\ Len(Steps[i].prepare) \in Nat /\ DOMAIN Steps[i].prepare = 1 .. Len(Steps[i].prepare)
      /\ Steps[i].uses \subseteq Vars
  BY StepFits
<1>2. Place(n)[1] = i /\ Place(n)[2] = Len(Steps[i].prepare) + 1
  BY DEF Place
<1>3. Place(n) \in Spots
  BY <1>1 DEF Place, Spots
<1>4. v \in ReadsAt(i, Len(Steps[i].prepare) + 1)
  BY <1>1 DEF ReadsAt
<1>5. v \in Needs(Steps[i]) \/ v \in Steps[i].spared
  BY DEF Needs
<1> QED
  BY <1>1, <1>2, <1>3, <1>4, <1>5 DEF Lacks, Unresolved

--------------------------------------------------------------------------------
(***************************************************************************)
(* Filling in placeholders: what FlattenSeq makes of a value.              *)
(***************************************************************************)
\* The parts of values, and what each is replaced by.
Part       == Fixed \cup Refs \cup {Absent[1]}
Filling    == [Part -> Seq(Part)]
Fill(f, v) == FlattenSeq([i \in DOMAIN v |-> f[v[i]]])

\* Induction up to a bound.
LEMMA Upto ==
  ASSUME NEW m \in Nat, NEW G, 0 \in G, \A n \in 1..m : n - 1 \in G => n \in G
  PROVE  \A n \in 0..m : n \in G
<1> DEFINE T == {n \in Nat : n <= m /\ n \notin G}
<1> SUFFICES ASSUME T # {} PROVE FALSE
  OBVIOUS
<1>1. PICK x \in T : \A y \in T : x <= y
  BY Least
<1>2. x \in Nat /\ x <= m /\ x \notin G /\ x # 0
  BY <1>1
<1>3. x - 1 \in Nat /\ x - 1 <= m /\ ~(x <= x - 1)
  BY <1>2
<1>4. x - 1 \in G
  BY <1>1, <1>3
<1> QED
  BY <1>2, <1>4

\* FlattenSeq appends one after the other.
LEMMA FlattenIs ==
  ASSUME NEW S, NEW s \in Seq(Seq(S))
  PROVE  \E f : /\ f[0] = <<>>
                /\ \A n \in 1..Len(s) : f[n] = f[n - 1] \o s[n]
                /\ \A n \in 0..Len(s) : f[n] \in Seq(S)
                /\ FlattenSeq(s) = f[Len(s)]
<1> DEFINE m == Len(s)
           Body(g, n) == IF n = 1 THEN s[n] ELSE g[n - 1] \o s[n]
           Fits(g, n) == g = [l \in 1..n |-> Body(g, l)]
           flatten == CHOOSE g : Fits(g, m)
<1>1. m \in Nat /\ \A n \in 1..m : s[n] \in Seq(S)
  OBVIOUS
<1>2. \E g : Fits(g, m)
  <2> DEFINE G == {n \in Nat : \E g : Fits(g, n)}
  <2>1. 0 \in G
    <3>1. Fits(<<>>, 0)
      OBVIOUS
    <3> QED
      BY <3>1
  <2>2. ASSUME NEW n \in 1..m, n - 1 \in G PROVE n \in G
    <3>1. PICK g : Fits(g, n - 1)
      BY <2>2
    <3>2. PICK h : h = [l \in 1..n |-> IF l = n THEN Body(g, n) ELSE g[l]]
      OBVIOUS
    <3>3. n \in Nat /\ n >= 1
      BY <1>1
    <3>4. ASSUME NEW l \in 1..n PROVE h[l] = Body(h, l)
      <4>1. l # 1 => h[l - 1] = g[l - 1]
        BY <3>2, <3>3
      <4>2. CASE l = n
        BY <3>2, <4>1, <4>2
      <4>3. CASE l # n
        <5>1. l \in 1..(n - 1) /\ h[l] = g[l]
          BY <3>2, <3>3, <4>3
        <5>2. g[l] = Body(g, l)
          BY <3>1, <5>1
        <5> QED
          BY <4>1, <5>1, <5>2
      <4> QED
        BY <4>2, <4>3
    <3>5. Fits(h, n)
      <4>1. h = [l \in 1..n |-> h[l]]
        BY <3>2
      <4> HIDE DEF Body
      <4> QED
        BY <3>4, <4>1
    <3> HIDE DEF Fits
    <3> QED
      BY <3>3, <3>5
  <2> HIDE DEF G
  <2>3. \A n \in 0..m : n \in G
    BY <1>1, <2>1, <2>2, Upto
  <2>4. m \in G
    BY <1>1, <2>3
  <2> QED
    BY <2>4 DEF G
<1>3. Fits(flatten, m)
  <2> HIDE DEF Fits
  <2> QED
    BY <1>2
<1>4. m # 0 => FlattenSeq(s) = flatten[m]
  BY DEF FlattenSeq
<1>5. m = 0 => FlattenSeq(s) = <<>>
  BY DEF FlattenSeq
<1>6. \A n \in 1..m : flatten[n] = Body(flatten, n)
  <2> HIDE DEF Body
  <2> QED
    BY <1>3
<1> HIDE DEF flatten
<1>7. PICK f : f = [n \in 0..m |-> IF n = 0 THEN <<>> ELSE flatten[n]]
  OBVIOUS
<1>8. f[0] = <<>> /\ FlattenSeq(s) = f[m]
  BY <1>1, <1>4, <1>5, <1>7
<1>9. \A n \in 1..m : f[n] = f[n - 1] \o s[n]
  <2> SUFFICES ASSUME NEW n \in 1..m PROVE f[n] = f[n - 1] \o s[n]
    OBVIOUS
  <2>1. f[n] = flatten[n] /\ flatten[n] = Body(flatten, n) /\ s[n] \in Seq(S)
    BY <1>1, <1>6, <1>7
  <2>2. CASE n = 1
    <3>1. f[n - 1] = <<>> /\ f[n] = s[n]
      BY <1>8, <2>1, <2>2
    <3> QED
      BY <2>1, <3>1, ConcatEmptySeq
  <2>3. CASE n # 1
    <3>1. f[n - 1] = flatten[n - 1]
      BY <1>1, <1>7, <2>3
    <3> QED
      BY <2>1, <2>3, <3>1
  <2> QED
    BY <2>2, <2>3
<1>10. \A n \in 0..m : f[n] \in Seq(S)
  <2> DEFINE G == {n \in Nat : f[n] \in Seq(S)}
  <2>1. 0 \in G
    <3>1. f[0] \in Seq(S)
      BY <1>8, EmptySeq
    <3> QED
      BY <3>1
  <2>2. ASSUME NEW n \in 1..m, n - 1 \in G PROVE n \in G
    <3>1. f[n - 1] \in Seq(S) /\ s[n] \in Seq(S) /\ f[n] = f[n - 1] \o s[n]
      BY <1>1, <1>9, <2>2
    <3>2. f[n] \in Seq(S)
      BY <3>1, ConcatProperties
    <3> QED
      BY <1>1, <3>2
  <2> HIDE DEF G
  <2>3. \A n \in 0..m : n \in G
    BY <1>1, <2>1, <2>2, Upto
  <2> QED
    BY <2>3 DEF G
<1> QED
  BY <1>8, <1>9, <1>10

LEMMA FillIs ==
  ASSUME NEW f \in Filling, NEW v \in Seq(Part)
  PROVE  \E e : /\ e[0] = <<>>
                /\ \A n \in 1..Len(v) : e[n] = e[n - 1] \o f[v[n]]
                /\ \A n \in 0..Len(v) : e[n] \in Seq(Part)
                /\ Fill(f, v) = e[Len(v)]
<1> DEFINE s == [i \in DOMAIN v |-> f[v[i]]]
<1>1. Len(v) \in Nat /\ DOMAIN v = 1..Len(v) /\ \A i \in DOMAIN v : v[i] \in Part
  OBVIOUS
<1>2. \A i \in DOMAIN v : s[i] \in Seq(Part)
  BY <1>1 DEF Filling
<1>3. s \in Seq(Seq(Part)) /\ Len(s) = Len(v)
  BY <1>1, <1>2
<1>4. PICK e : /\ e[0] = <<>>
               /\ \A n \in 1..Len(s) : e[n] = e[n - 1] \o s[n]
               /\ \A n \in 0..Len(s) : e[n] \in Seq(Part)
               /\ FlattenSeq(s) = e[Len(s)]
  BY <1>3, FlattenIs
<1>5. \A n \in 1..Len(v) : s[n] = f[v[n]]
  BY <1>1
<1> HIDE DEF s
<1>6. Fill(f, v) = e[Len(v)]
  BY <1>3, <1>4 DEF Fill, s
<1> QED
  BY <1>3, <1>4, <1>5, <1>6

LEMMA FillTyped ==
  ASSUME NEW f \in Filling, NEW v \in Seq(Part)
  PROVE  Fill(f, v) \in Seq(Part) /\ Fill(f, <<>>) = <<>>
<1>1. ASSUME NEW w \in Seq(Part) PROVE Fill(f, w) \in Seq(Part) /\ (w = <<>> => Fill(f, w) = <<>>)
  <2>1. PICK e : /\ e[0] = <<>> /\ \A n \in 0..Len(w) : e[n] \in Seq(Part)
                 /\ Fill(f, w) = e[Len(w)]
    BY FillIs
  <2>2. Len(w) \in 0..Len(w) /\ (w = <<>> => Len(w) = 0)
    OBVIOUS
  <2> QED
    BY <2>1, <2>2
<1>2. <<>> \in Seq(Part)
  BY EmptySeq
<1> QED
  BY <1>1, <1>2

\* Where each part stays itself the value stays.
LEMMA FillSame ==
  ASSUME NEW f \in Filling, NEW v \in Seq(Part), \A i \in DOMAIN v : f[v[i]] = <<v[i]>>
  PROVE  Fill(f, v) = v
<1>1. PICK e : /\ e[0] = <<>>
               /\ \A n \in 1..Len(v) : e[n] = e[n - 1] \o f[v[n]]
               /\ Fill(f, v) = e[Len(v)]
  BY FillIs
<1>2. Len(v) \in Nat /\ DOMAIN v = 1..Len(v)
  OBVIOUS
<1> DEFINE G == {n \in Nat : e[n] = SubSeq(v, 1, n)}
<1>3. 0 \in G
  <2>1. SubSeq(v, 1, 0) = <<>>
    BY SubSeqEmpty
  <2> QED
    BY <1>1, <2>1
<1>4. ASSUME NEW n \in 1..Len(v), n - 1 \in G PROVE n \in G
  <2>1. n \in Nat /\ n - 1 \in Nat /\ e[n - 1] = SubSeq(v, 1, n - 1) /\ f[v[n]] = <<v[n]>>
    BY <1>2, <1>4
  <2>2. SubSeq(v, 1, n - 1) \o <<v[n]>> = SubSeq(v, 1, n)
    <3>1. \A i \in 1..n : v[i] \in Part
      BY <1>2, <2>1
    <3>2. /\ SubSeq(v, 1, n - 1) \in Seq(Part) /\ Len(SubSeq(v, 1, n - 1)) = n - 1
          /\ \A i \in 1..(n - 1) : SubSeq(v, 1, n - 1)[i] = v[i]
      BY <2>1, <3>1, SubSeqProperties
    <3>3. /\ SubSeq(v, 1, n) \in Seq(Part) /\ Len(SubSeq(v, 1, n)) = n
          /\ \A i \in 1..n : SubSeq(v, 1, n)[i] = v[i]
      BY <2>1, <3>1, SubSeqProperties
    <3>4. <<v[n]>> \in Seq(Part) /\ Len(<<v[n]>>) = 1
      BY <2>1, <3>1
    <3> DEFINE t == SubSeq(v, 1, n - 1) \o <<v[n]>>
    <3>5. t \in Seq(Part) /\ Len(t) = n
      BY <2>1, <3>2, <3>4, ConcatProperties
    <3>6. ASSUME NEW i \in 1..n PROVE t[i] = v[i]
      BY <2>1, <3>2, <3>4, ConcatProperties
    <3> QED
      BY <3>3, <3>5, <3>6, SeqEqual
  <2> QED
    BY <1>1, <2>1, <2>2
<1> HIDE DEF G
<1>5. \A n \in 0..Len(v) : n \in G
  BY <1>2, <1>3, <1>4, Upto
<1>6. Fill(f, v) = SubSeq(v, 1, Len(v))
  BY <1>1, <1>2, <1>5 DEF G
<1> QED
  BY <1>6, <1>2

LEMMA Assoc == \A x, y, z \in Seq(Part) : (x \o y) \o z = x \o (y \o z)
<1> SUFFICES ASSUME NEW x \in Seq(Part), NEW y \in Seq(Part), NEW z \in Seq(Part)
             PROVE  (x \o y) \o z = x \o (y \o z)
  OBVIOUS
<1> QED
  BY ConcatAssociative

LEMMA Joined ==
  \A x, y \in Seq(Part) :
    /\ x \o y \in Seq(Part) /\ Len(x \o y) = Len(x) + Len(y)
    /\ \A m \in 1 .. Len(x) + Len(y) :
         (x \o y)[m] = IF m <= Len(x) THEN x[m] ELSE y[m - Len(x)]
<1> TAKE x, y \in Seq(Part)
<1> QED
  BY ConcatProperties

LEMMA FillJoin ==
  ASSUME NEW f \in Filling, NEW v \in Seq(Part), NEW w \in Seq(Part)
  PROVE  Fill(f, v \o w) = Fill(f, v) \o Fill(f, w)
<1>1. PICK a : /\ a[0] = <<>>
               /\ \A n \in 1..Len(v) : a[n] = a[n - 1] \o f[v[n]]
               /\ \A n \in 0..Len(v) : a[n] \in Seq(Part)
               /\ Fill(f, v) = a[Len(v)]
  BY FillIs
<1>2. PICK b : /\ b[0] = <<>>
               /\ \A n \in 1..Len(w) : b[n] = b[n - 1] \o f[w[n]]
               /\ \A n \in 0..Len(w) : b[n] \in Seq(Part)
               /\ Fill(f, w) = b[Len(w)]
  BY FillIs
<1>3. /\ v \o w \in Seq(Part) /\ Len(v \o w) = Len(v) + Len(w)
      /\ Len(v) \in Nat /\ Len(w) \in Nat
      /\ \A i \in 1..Len(v) : (v \o w)[i] = v[i]
      /\ \A i \in 1..Len(w) : (v \o w)[Len(v) + i] = w[i]
  BY ConcatProperties
<1>4. PICK c : /\ c[0] = <<>>
               /\ \A n \in 1..Len(v \o w) : c[n] = c[n - 1] \o f[(v \o w)[n]]
               /\ Fill(f, v \o w) = c[Len(v \o w)]
  BY <1>3, FillIs
<1>5. c[Len(v)] = a[Len(v)]
  <2> DEFINE G == {n \in Nat : c[n] = a[n]}
  <2>1. 0 \in G
    BY <1>1, <1>4
  <2>2. ASSUME NEW n \in 1..Len(v), n - 1 \in G PROVE n \in G
    <3>1. c[n - 1] = a[n - 1] /\ n \in 1..Len(v \o w) /\ n \in Nat
      BY <1>3, <2>2
    <3> QED
      BY <1>1, <1>3, <1>4, <3>1
  <2> HIDE DEF G
  <2>3. \A n \in 0..Len(v) : n \in G
    BY <1>3, <2>1, <2>2, Upto
  <2> QED
    BY <1>3, <2>3 DEF G
<1>6. c[Len(v) + Len(w)] = a[Len(v)] \o b[Len(w)]
  <2> DEFINE G == {n \in Nat : c[Len(v) + n] = a[Len(v)] \o b[n]}
  <2>1. 0 \in G
    <3>1. a[Len(v)] \o <<>> = a[Len(v)]
      BY <1>1, <1>3, ConcatEmptySeq
    <3>2. Len(v) + 0 = Len(v)
      BY <1>3
    <3> QED
      BY <1>2, <1>5, <3>1, <3>2
  <2>2. ASSUME NEW n \in 1..Len(w), n - 1 \in G PROVE n \in G
    <3>1. c[Len(v) + (n - 1)] = a[Len(v)] \o b[n - 1] /\ n \in Nat
      <4>1. n - 1 \in {k \in Nat : c[Len(v) + k] = a[Len(v)] \o b[k]}
        BY <2>2
      <4>2. n \in Nat
        BY <1>3
      <4> QED
        BY <4>1, <4>2, Zenon
    <3>2. c[Len(v) + n] = (a[Len(v)] \o b[n - 1]) \o f[w[n]]
      <4>1. Len(v) + n \in 1..(Len(v) + Len(w)) /\ (Len(v) + n) - 1 = Len(v) + (n - 1)
        BY <1>3, <3>1
      <4>2. c[Len(v) + n] = c[(Len(v) + n) - 1] \o f[(v \o w)[Len(v) + n]]
        BY <1>3, <1>4, <4>1
      <4>3. (v \o w)[Len(v) + n] = w[n]
        BY <1>3
      <4> QED
        BY <3>1, <4>1, <4>2, <4>3
    <3>3. a[Len(v)] \in Seq(Part) /\ b[n - 1] \in Seq(Part) /\ f[w[n]] \in Seq(Part)
      BY <1>1, <1>2, <1>3 DEF Filling
    <3>4. (a[Len(v)] \o b[n - 1]) \o f[w[n]] = a[Len(v)] \o (b[n - 1] \o f[w[n]])
      BY <3>3, Assoc
    <3>5. c[Len(v) + n] = a[Len(v)] \o b[n]
      BY <1>2, <3>2, <3>4
    <3> QED
      BY <3>1, <3>5, Zenon
  <2> HIDE DEF G
  <2>3. \A n \in 0..Len(w) : n \in G
    BY <1>3, <2>1, <2>2, Upto
  <2>4. Len(w) \in G
    BY <1>3, <2>3
  <2> QED
    BY <2>4, Zenon DEF G
<1> QED
  BY <1>1, <1>2, <1>3, <1>4, <1>6

\* Filling in twice is filling in once with what the first filling is filled with.
LEMMA FillTwice ==
  ASSUME NEW f \in Filling, NEW g \in Filling, NEW h \in Filling, NEW v \in Seq(Part),
         \A i \in DOMAIN v : h[v[i]] = Fill(f, g[v[i]])
  PROVE  Fill(f, Fill(g, v)) = Fill(h, v)
<1>1. PICK a : /\ a[0] = <<>>
               /\ \A n \in 1..Len(v) : a[n] = a[n - 1] \o g[v[n]]
               /\ \A n \in 0..Len(v) : a[n] \in Seq(Part)
               /\ Fill(g, v) = a[Len(v)]
  BY FillIs
<1>2. PICK b : /\ b[0] = <<>>
               /\ \A n \in 1..Len(v) : b[n] = b[n - 1] \o h[v[n]]
               /\ Fill(h, v) = b[Len(v)]
  BY FillIs
<1>3. Len(v) \in Nat /\ DOMAIN v = 1..Len(v) /\ \A i \in DOMAIN v : v[i] \in Part
  OBVIOUS
<1> DEFINE G == {n \in Nat : Fill(f, a[n]) = b[n]}
<1>4. 0 \in G
  BY <1>1, <1>2, FillTyped
<1>5. ASSUME NEW n \in 1..Len(v), n - 1 \in G PROVE n \in G
  <2>1. Fill(f, a[n - 1]) = b[n - 1] /\ n \in Nat
    BY <1>3, <1>5
  <2>2. a[n - 1] \in Seq(Part) /\ g[v[n]] \in Seq(Part)
    BY <1>1, <1>3 DEF Filling
  <2>3. Fill(f, a[n - 1] \o g[v[n]]) = Fill(f, a[n - 1]) \o Fill(f, g[v[n]])
    BY <2>2, FillJoin
  <2>4. a[n] = a[n - 1] \o g[v[n]] /\ b[n] = b[n - 1] \o h[v[n]] /\ h[v[n]] = Fill(f, g[v[n]])
    BY <1>1, <1>2, <1>3
  <2>5. Fill(f, a[n]) = b[n]
    BY <2>1, <2>3, <2>4
  <2> QED
    BY <2>1, <2>5
<1> HIDE DEF G
<1>6. \A n \in 0..Len(v) : n \in G
  BY <1>3, <1>4, <1>5, Upto
<1>7. Len(v) \in G
  BY <1>3, <1>6
<1> QED
  BY <1>1, <1>2, <1>7 DEF G

\* A part of what is filled in is one of what some part is replaced by.
LEMMA FillParts ==
  ASSUME NEW f \in Filling, NEW v \in Seq(Part), NEW j \in DOMAIN Fill(f, v)
  PROVE  \E i \in DOMAIN v : \E l \in DOMAIN f[v[i]] : Fill(f, v)[j] = f[v[i]][l]
<1>1. PICK a : /\ a[0] = <<>>
               /\ \A n \in 1..Len(v) : a[n] = a[n - 1] \o f[v[n]]
               /\ \A n \in 0..Len(v) : a[n] \in Seq(Part)
               /\ Fill(f, v) = a[Len(v)]
  BY FillIs
<1>2. Len(v) \in Nat /\ DOMAIN v = 1..Len(v) /\ \A i \in DOMAIN v : f[v[i]] \in Seq(Part)
  BY DEF Filling
<1> DEFINE Known(p) == \E i \in DOMAIN v : \E l \in DOMAIN f[v[i]] : p = f[v[i]][l]
           G == {n \in Nat : \A k \in DOMAIN a[n] : Known(a[n][k])}
<1>3. 0 \in G
  BY <1>1
<1>4. ASSUME NEW n \in 1..Len(v), n - 1 \in G PROVE n \in G
  <2>1. /\ n \in Nat /\ n \in DOMAIN v /\ a[n] = a[n - 1] \o f[v[n]]
        /\ a[n - 1] \in Seq(Part) /\ f[v[n]] \in Seq(Part)
    <3>1. n \in Nat /\ n - 1 \in 0..Len(v) /\ n \in DOMAIN v
      BY <1>2
    <3> QED
      BY <1>1, <1>2, <3>1
  <2>2. \A k \in DOMAIN a[n - 1] : Known(a[n - 1][k])
    BY <1>4
  <2>3. PICK x \in Seq(Part), y \in Seq(Part) : x = a[n - 1] /\ y = f[v[n]]
    BY <2>1
  <2>4. /\ a[n] \in Seq(Part) /\ Len(a[n]) = Len(x) + Len(y)
        /\ \A m \in 1 .. Len(x) + Len(y) :
             a[n][m] = IF m <= Len(x) THEN x[m] ELSE y[m - Len(x)]
    <3>1. a[n] = x \o y
      BY <2>1, <2>3
    <3>2. /\ x \o y \in Seq(Part) /\ Len(x \o y) = Len(x) + Len(y)
          /\ \A m \in 1 .. Len(x) + Len(y) :
               (x \o y)[m] = IF m <= Len(x) THEN x[m] ELSE y[m - Len(x)]
      BY Joined
    <3> QED
      BY <3>1, <3>2
  <2>5. /\ DOMAIN x = 1..Len(x) /\ DOMAIN y = 1..Len(y) /\ DOMAIN a[n] = 1 .. Len(x) + Len(y)
        /\ Len(x) \in Nat /\ Len(y) \in Nat
    <3>1. DOMAIN a[n] = 1 .. Len(a[n])
      BY <2>4
    <3>2. DOMAIN x = 1..Len(x) /\ DOMAIN y = 1..Len(y) /\ Len(x) \in Nat /\ Len(y) \in Nat
      OBVIOUS
    <3> QED
      BY <2>4, <3>1, <3>2
  <2>6. ASSUME NEW k \in DOMAIN a[n] PROVE Known(a[n][k])
    <3>1. CASE k <= Len(x)
      <4>1. k \in DOMAIN x /\ a[n][k] = x[k]
        BY <2>4, <2>5, <3>1
      <4> QED
        BY <2>2, <2>3, <4>1
    <3>2. CASE ~(k <= Len(x))
      <4>1. k - Len(x) \in DOMAIN y /\ a[n][k] = y[k - Len(x)]
        BY <2>4, <2>5, <3>2
      <4> QED
        BY <2>1, <2>3, <4>1
    <3> QED
      BY <3>1, <3>2
  <2> HIDE DEF Known
  <2> QED
    BY <2>1, <2>6
<1> HIDE DEF G
<1>5. \A n \in 0..Len(v) : n \in G
  BY <1>2, <1>3, <1>4, Upto
<1>6. Len(v) \in G
  BY <1>2, <1>5
<1> QED
  BY <1>1, <1>6 DEF G

--------------------------------------------------------------------------------
(***************************************************************************)
(* One pass of the expansion.                                              *)
(***************************************************************************)
Env == [Keys -> Seq(Part)]
FilledWith(env) == [p \in Part |-> Filled(p, env)]

LEMMA FillOne ==
  ASSUME NEW f \in Filling, NEW p \in Part
  PROVE  Fill(f, <<p>>) = f[p]
<1>1. PICK v \in Seq(Part) : v = <<p>>
  <2>1. <<p>> \in Seq(Part)
    OBVIOUS
  <2> QED
    BY <2>1
<1>2. PICK e : /\ e[0] = <<>>
               /\ \A n \in 1..Len(v) : e[n] = e[n - 1] \o f[v[n]]
               /\ Fill(f, v) = e[Len(v)]
  BY FillIs
<1>3. e[1] = <<>> \o f[p] /\ Fill(f, <<p>>) = e[1]
  <2>1. Len(v) = 1 /\ v[1] = p /\ 1 \in 1..Len(v) /\ 1 - 1 = 0
    BY <1>1
  <2>2. e[1] = e[1 - 1] \o f[v[1]]
    BY <1>2, <2>1
  <2> QED
    BY <1>1, <1>2, <2>1, <2>2
<1>4. f[p] \in Seq(Part)
  BY DEF Filling
<1> QED
  BY <1>3, <1>4, ConcatEmptySeq

LEMMA PartKinds ==
  ASSUME NEW p \in Part
  PROVE  /\ p \in Fixed => p.kind # "env"
         /\ p.kind = "env" => /\ p.name \in Keys
                              /\ p.default # None => p.default \in Seq(Fixed)
                              /\ p.way \in {"bare", "path"}
<1>1. p \in Refs => /\ p.name \in Keys /\ p.default \in {None} \cup Seq(Fixed)
                    /\ p.way \in {"bare", "path"}
  BY DEF Refs
<1>2. p \in Fixed => p.kind # "env"
  BY DEF Fixed
<1>3. p = Absent[1] => p.kind # "env"
  BY DEF Absent
<1> QED
  BY <1>1, <1>2, <1>3 DEF Part

\* What the parts of values are.
LEMMA ValueParts ==
  ASSUME NEW v \in Seq(Part)
  PROVE  /\ DOMAIN v = 1..Len(v) /\ Len(v) \in Nat
         /\ \A i \in DOMAIN v : v[i] \in Part /\ (v[i].kind = "env" => v[i] \in Holes(v))
         /\ \A p \in Holes(v) : p \in Part /\ p.kind = "env" /\ p.name \in Keys
         /\ Concrete(v) <=> ~Blank(v) /\ Holes(v) = {}
<1>1. DOMAIN v = 1..Len(v) /\ Len(v) \in Nat /\ \A i \in DOMAIN v : v[i] \in Part
  OBVIOUS
<1>2. \A p \in Holes(v) : \E i \in DOMAIN v : p = v[i] /\ p.kind = "env"
  BY DEF Holes
<1>3. \A i \in DOMAIN v : v[i].kind = "env" => v[i] \in Holes(v)
  BY DEF Holes
<1> QED
  BY <1>1, <1>2, <1>3, PartKinds DEF Concrete

LEMMA FixedParts ==
  ASSUME NEW v \in Seq(Fixed)
  PROVE  v \in Seq(Part) /\ Holes(v) = {}
<1>1. v \in Seq(Part)
  BY SeqMonotonic DEF Part
<1>2. \A i \in DOMAIN v : v[i] \in Fixed
  OBVIOUS
<1> QED
  BY <1>1, <1>2, PartKinds DEF Holes, Part

LEMMA FilledTyped ==
  ASSUME NEW env \in Env
  PROVE  FilledWith(env) \in Filling
<1>1. ASSUME NEW p \in Part PROVE Filled(p, env) \in Seq(Part)
  <2>1. <<p>> \in Seq(Part)
    OBVIOUS
  <2>2. p.kind = "env" => env[p.name] \in Seq(Part) /\ (p.default # None => p.default \in Seq(Part))
    BY PartKinds, FixedParts DEF Env
  <2> QED
    BY <2>1, <2>2 DEF Filled
<1> QED
  BY <1>1 DEF FilledWith, Filling

LEMMA SubstitutedIs ==
  ASSUME NEW env \in Env, NEW v \in Seq(Part)
  PROVE  Substituted(v, env) = Fill(FilledWith(env), v) /\ Substituted(v, env) \in Seq(Part)
<1>1. [i \in DOMAIN v |-> Filled(v[i], env)] = [i \in DOMAIN v |-> FilledWith(env)[v[i]]]
  BY ValueParts DEF FilledWith
<1>2. Substituted(v, env) = Fill(FilledWith(env), v)
  BY <1>1 DEF Substituted, Fill
<1> QED
  BY <1>2, FilledTyped, FillTyped

\* A value without a placeholder to fill in stays as it is.
LEMMA SubstitutedSame ==
  ASSUME NEW env \in Env, NEW v \in Seq(Part), \A p \in Holes(v) : Filled(p, env) = <<p>>
  PROVE  Substituted(v, env) = v
<1>1. ASSUME NEW i \in DOMAIN v PROVE FilledWith(env)[v[i]] = <<v[i]>>
  <2>1. v[i] \in Part /\ (v[i].kind = "env" => v[i] \in Holes(v))
    BY ValueParts
  <2>2. v[i].kind # "env" => Filled(v[i], env) = <<v[i]>>
    BY DEF Filled
  <2> QED
    BY <2>1, <2>2 DEF FilledWith
<1> QED
  BY <1>1, FilledTyped, FillSame, SubstitutedIs

\* What is still to fill in was there before, and could not be filled in.
LEMMA SubstitutedHoles ==
  ASSUME NEW env \in Env, NEW v \in Seq(Part), NEW p \in Holes(Substituted(v, env))
  PROVE  p \in Holes(v) /\ p.default = None /\ ~Concrete(env[p.name])
<1> DEFINE f == FilledWith(env)
<1>1. f \in Filling /\ Substituted(v, env) = Fill(f, v)
  BY FilledTyped, SubstitutedIs
<1>2. PICK j \in DOMAIN Fill(f, v) : p = Fill(f, v)[j] /\ p.kind = "env"
  BY <1>1 DEF Holes
<1>3. PICK i \in DOMAIN v : \E l \in DOMAIN f[v[i]] : p = f[v[i]][l]
  BY <1>1, <1>2, FillParts
<1>4. PICK q \in Part : q = v[i] /\ (q.kind = "env" => q \in Holes(v))
  BY ValueParts
<1>5. f[q] = Filled(q, env)
  BY DEF FilledWith
<1>6. PICK l \in DOMAIN Filled(q, env) : p = Filled(q, env)[l]
  BY <1>3, <1>4, <1>5
<1>7. CASE Filled(q, env) = <<q>>
  <2>1. p = q
    BY <1>6, <1>7
  <2>2. p.default = None /\ ~Concrete(env[p.name])
    <3>1. CASE Concrete(env[q.name])
      <4>1. env[q.name] \in Seq(Part) /\ Filled(q, env) = env[q.name]
        BY <1>2, <2>1, <3>1, PartKinds DEF Filled, Env
      <4>2. \A m \in DOMAIN env[q.name] : env[q.name][m].kind # "env"
        BY <3>1 DEF Concrete
      <4> QED
        BY <1>2, <1>6, <4>1, <4>2
    <3>2. CASE ~Concrete(env[q.name]) /\ q.default # None
      <4>1. Filled(q, env) = q.default /\ q.default \in Seq(Fixed)
        BY <1>2, <2>1, <3>2, PartKinds DEF Filled
      <4>2. p \in Fixed
        BY <1>6, <4>1
      <4> QED
        BY <1>2, <4>2, PartKinds DEF Part
    <3> QED
      BY <2>1, <3>1, <3>2
  <2> QED
    BY <1>2, <1>4, <2>1, <2>2
<1>8. CASE Filled(q, env) # <<q>>
  <2>1. q.kind = "env" /\ (Concrete(env[q.name]) \/ q.default # None)
    BY <1>8 DEF Filled
  <2>2. CASE Concrete(env[q.name])
    <3>1. Filled(q, env) = env[q.name] /\ \A m \in DOMAIN env[q.name] : env[q.name][m].kind # "env"
      BY <2>1, <2>2 DEF Filled, Concrete
    <3> QED
      BY <1>2, <1>6, <3>1
  <2>3. CASE ~Concrete(env[q.name])
    <3>1. Filled(q, env) = q.default /\ q.default \in Seq(Fixed)
      BY <2>1, <2>3, PartKinds DEF Filled
    <3>2. p \in Fixed
      BY <1>6, <3>1
    <3> QED
      BY <1>2, <3>2, PartKinds DEF Part
  <2> QED
    BY <2>2, <2>3
<1> QED
  BY <1>7, <1>8

\* What is filled in first is what would be filled in later, as long as what is
\* known stays, and what a default stands for stays unknown.
LEMMA SubstitutedTwice ==
  ASSUME NEW env \in Env, NEW later \in Env, NEW v \in Seq(Part),
         \A p \in Holes(v) :
           /\ Concrete(env[p.name]) => later[p.name] = env[p.name]
           /\ ~Concrete(env[p.name]) /\ p.default # None => ~Concrete(later[p.name])
  PROVE  Substituted(Substituted(v, env), later) = Substituted(v, later)
<1> DEFINE f == FilledWith(later)
           g == FilledWith(env)
<1>1. f \in Filling /\ g \in Filling
  BY FilledTyped
<1>2. ASSUME NEW i \in DOMAIN v PROVE f[v[i]] = Fill(f, g[v[i]])
  <2>1. PICK q \in Part : q = v[i] /\ (q.kind = "env" => q \in Holes(v))
    BY ValueParts
  <2>2. f[q] = Filled(q, later) /\ g[q] = Filled(q, env)
    BY DEF FilledWith
  <2>3. CASE g[q] = <<q>>
    BY <1>1, <2>1, <2>3, FillOne
  <2>4. CASE q.kind = "env" /\ Concrete(env[q.name])
    <3>1. g[q] = env[q.name] /\ f[q] = later[q.name] /\ later[q.name] = env[q.name]
      BY <2>1, <2>2, <2>4 DEF Filled
    <3>2. env[q.name] \in Seq(Part) /\ Holes(env[q.name]) = {}
      BY <2>4, PartKinds, ValueParts DEF Env
    <3>3. Fill(f, env[q.name]) = env[q.name]
      BY <3>2, SubstitutedSame, SubstitutedIs
    <3> QED
      BY <2>1, <3>1, <3>3
  <2>5. CASE q.kind = "env" /\ ~Concrete(env[q.name]) /\ q.default # None
    <3>1. g[q] = q.default /\ f[q] = q.default
      BY <2>1, <2>2, <2>5 DEF Filled
    <3>2. q.default \in Seq(Part) /\ Holes(q.default) = {}
      BY <2>5, PartKinds, FixedParts
    <3>3. Fill(f, q.default) = q.default
      BY <3>2, SubstitutedSame, SubstitutedIs
    <3> QED
      BY <2>1, <3>1, <3>3
  <2> QED
    BY <2>2, <2>3, <2>4, <2>5 DEF Filled
<1>3. Fill(f, Fill(g, v)) = Fill(f, v)
  BY <1>1, <1>2, FillTwice
<1> QED
  BY <1>3, SubstitutedIs

--------------------------------------------------------------------------------
(***************************************************************************)
(* The expansion: pass after pass, until nothing is left to fill in.       *)
(***************************************************************************)
LEMMA PassIs ==
  ASSUME NEW env \in Env, NEW keys \in SUBSET Keys
  PROVE  /\ Pass(env, keys) \in Env
         /\ \A k \in keys : Pass(env, keys)[k] = Substituted(env[k], env)
         /\ \A k \in Keys \ keys : Pass(env, keys)[k] = env[k]
         /\ \A k \in Keys : Holes(env[k]) = {} => Pass(env, keys)[k] = env[k]
         /\ \A k \in Keys : Holes(Pass(env, keys)[k]) \subseteq Holes(env[k])
         /\ Stable(env, keys) => Pass(env, keys) = env
<1>1. \A k \in Keys : env[k] \in Seq(Part)
  BY DEF Env
<1>2. /\ \A k \in keys : Pass(env, keys)[k] = Substituted(env[k], env)
      /\ \A k \in Keys \ keys : Pass(env, keys)[k] = env[k]
  BY DEF Pass
<1>3. \A k \in Keys : Pass(env, keys)[k] \in Seq(Part)
  BY <1>1, <1>2, SubstitutedIs
<1>4. Pass(env, keys) \in Env
  BY <1>3 DEF Pass, Env
<1>5. \A k \in Keys : Holes(env[k]) = {} => Pass(env, keys)[k] = env[k]
  BY <1>1, <1>2, SubstitutedSame
<1>6. \A k \in Keys : Holes(Pass(env, keys)[k]) \subseteq Holes(env[k])
  BY <1>1, <1>2, SubstitutedHoles
<1>7. ASSUME Stable(env, keys) PROVE Pass(env, keys) = env
  <2>1. \A k \in Keys : Pass(env, keys)[k] = env[k]
    BY <1>1, <1>2, <1>7, SubstitutedSame DEF Stable
  <2> QED
    BY <1>4, <2>1 DEF Env
<1> QED
  BY <1>2, <1>4, <1>5, <1>6, <1>7

\* The recursion has a solution, a pass at each step.
LEMMA ExpandedIs ==
  ASSUME NEW env \in Env, NEW keys \in SUBSET Keys
  PROVE  \E e : /\ e[0] = env
                /\ \A n \in 1..MaxPasses : e[n] = Pass(e[n - 1], keys)
                /\ \A n \in 0..MaxPasses : e[n] \in Env
                /\ Expanded(env, keys) = e[MaxPasses]
<1> DEFINE Again(was) == IF Stable(was, keys) THEN was ELSE Pass(was, keys)
           Body(g, n) == IF n = 0 THEN env ELSE Again(g[n - 1])
           Fits(g, n) == g = [l \in 0..n |-> Body(g, l)]
           after == CHOOSE g : Fits(g, MaxPasses)
<1>1. MaxPasses \in Nat
  BY EnvAssumption
<1>2. \E g : Fits(g, MaxPasses)
  <2> DEFINE G == {n \in Nat : \E g : Fits(g, n)}
  <2>1. 0 \in G
    <3>1. PICK g : g = [l \in 0..0 |-> env]
      OBVIOUS
    <3>2. Fits(g, 0)
      BY <3>1
    <3> QED
      BY <3>2
  <2>2. ASSUME NEW n \in 1..MaxPasses, n - 1 \in G PROVE n \in G
    <3> HIDE DEF Again
    <3>1. PICK g : Fits(g, n - 1)
      BY <2>2
    <3>2. PICK h : h = [l \in 0..n |-> IF l = n THEN Body(g, n) ELSE g[l]]
      OBVIOUS
    <3>3. n \in Nat /\ n >= 1
      BY <1>1
    <3>4. ASSUME NEW l \in 0..n PROVE h[l] = Body(h, l)
      <4>1. l # 0 => h[l - 1] = g[l - 1]
        BY <3>2, <3>3
      <4>2. CASE l = n
        BY <3>2, <4>1, <4>2
      <4>3. CASE l # n
        <5>1. l \in 0..(n - 1) /\ h[l] = g[l]
          BY <3>2, <3>3, <4>3
        <5>2. g[l] = Body(g, l)
          BY <3>1, <5>1
        <5> QED
          BY <4>1, <5>1, <5>2
      <4> QED
        BY <4>2, <4>3
    <3>5. Fits(h, n)
      <4>1. h = [l \in 0..n |-> h[l]]
        BY <3>2
      <4> HIDE DEF Body
      <4> QED
        BY <3>4, <4>1
    <3> HIDE DEF Fits
    <3> QED
      BY <3>3, <3>5
  <2> HIDE DEF G
  <2>3. \A n \in 0..MaxPasses : n \in G
    BY <1>1, <2>1, <2>2, Upto
  <2>4. MaxPasses \in G
    BY <1>1, <2>3
  <2> QED
    BY <2>4 DEF G
<1>3. Fits(after, MaxPasses)
  <2> HIDE DEF Fits
  <2> QED
    BY <1>2
<1>4. Expanded(env, keys) = after[MaxPasses]
  BY DEF Expanded
<1>5. \A n \in 0..MaxPasses : after[n] = Body(after, n)
  <2> HIDE DEF Body
  <2> QED
    BY <1>3
<1>6. PICK e : e = after
  OBVIOUS
<1>7. /\ e[0] = env /\ Expanded(env, keys) = e[MaxPasses]
      /\ \A n \in 1..MaxPasses : e[n] = Again(e[n - 1])
  <2> HIDE DEF after, Again
  <2>1. \A n \in 1..MaxPasses : n \in 0..MaxPasses /\ n # 0
    BY <1>1
  <2>2. 0 \in 0..MaxPasses
    BY <1>1
  <2> QED
    BY <1>4, <1>5, <1>6, <2>1, <2>2
<1> HIDE DEF after
<1>8. \A n \in 0..MaxPasses : e[n] \in Env
  <2> DEFINE G == {n \in Nat : e[n] \in Env}
  <2>1. 0 \in G
    BY <1>7
  <2>2. ASSUME NEW n \in 1..MaxPasses, n - 1 \in G PROVE n \in G
    <3>1. e[n - 1] \in Env /\ n \in Nat /\ e[n] = Again(e[n - 1])
      BY <1>1, <1>7, <2>2
    <3> QED
      BY <3>1, PassIs
  <2> HIDE DEF G
  <2>3. \A n \in 0..MaxPasses : n \in G
    BY <1>1, <2>1, <2>2, Upto
  <2> QED
    BY <2>3 DEF G
<1>9. \A n \in 1..MaxPasses : e[n] = Pass(e[n - 1], keys)
  <2> SUFFICES ASSUME NEW n \in 1..MaxPasses PROVE e[n] = Pass(e[n - 1], keys)
    OBVIOUS
  <2>1. n - 1 \in 0..MaxPasses
    BY <1>1
  <2> QED
    BY <1>7, <1>8, <2>1, PassIs
<1> QED
  BY <1>7, <1>8, <1>9

\* What passes keep: what is known, what has no placeholder, and they bring in none.
PassByPass(e, env, keys) ==
  /\ e[0] = env /\ Expanded(env, keys) = e[MaxPasses]
  /\ \A n \in 1..MaxPasses : e[n] = Pass(e[n - 1], keys)
  /\ \A n \in 0..MaxPasses : e[n] \in Env
  /\ \A n \in 0..MaxPasses : \A k \in Keys :
       /\ Holes(e[n][k]) \subseteq Holes(env[k])
       /\ Holes(env[k]) = {} \/ k \notin keys => e[n][k] = env[k]
       /\ Concrete(e[n][k]) => Expanded(env, keys)[k] = e[n][k]

LEMMA Passes ==
  ASSUME NEW env \in Env, NEW keys \in SUBSET Keys
  PROVE  \E e : PassByPass(e, env, keys)
<1>1. PICK e : /\ e[0] = env
               /\ \A n \in 1..MaxPasses : e[n] = Pass(e[n - 1], keys)
               /\ \A n \in 0..MaxPasses : e[n] \in Env
               /\ Expanded(env, keys) = e[MaxPasses]
  BY ExpandedIs
<1>2. MaxPasses \in Nat /\ \A n \in 1..MaxPasses : n \in Nat /\ n - 1 \in 0..MaxPasses
  BY EnvAssumption
<1>3. \A n \in 0..MaxPasses : \A k \in Keys :
        /\ Holes(e[n][k]) \subseteq Holes(env[k])
        /\ Holes(env[k]) = {} \/ k \notin keys => e[n][k] = env[k]
  <2> DEFINE Remains(n) == \A k \in Keys :
                  /\ Holes(e[n][k]) \subseteq Holes(env[k])
                  /\ Holes(env[k]) = {} \/ k \notin keys => e[n][k] = env[k]
             G == {n \in Nat : Remains(n)}
  <2>1. 0 \in G
    BY <1>1
  <2>2. ASSUME NEW n \in 1..MaxPasses, n - 1 \in G PROVE n \in G
    <3>1. Remains(n - 1) /\ n \in Nat /\ e[n - 1] \in Env /\ e[n] = Pass(e[n - 1], keys)
      BY <1>1, <1>2, <2>2
    <3>2. ASSUME NEW k \in Keys
          PROVE  /\ Holes(e[n][k]) \subseteq Holes(env[k])
                 /\ Holes(env[k]) = {} \/ k \notin keys => e[n][k] = env[k]
      <4>1. /\ Holes(e[n - 1][k]) \subseteq Holes(env[k])
            /\ Holes(env[k]) = {} \/ k \notin keys => e[n - 1][k] = env[k]
        BY <3>1
      <4> HIDE DEF Remains
      <4>2. /\ Holes(e[n][k]) \subseteq Holes(e[n - 1][k])
            /\ Holes(e[n - 1][k]) = {} \/ k \notin keys => e[n][k] = e[n - 1][k]
        BY <3>1, PassIs
      <4> QED
        BY <4>1, <4>2
    <3> QED
      BY <3>1, <3>2
  <2> HIDE DEF G
  <2>3. \A n \in 0..MaxPasses : n \in G
    BY <1>2, <2>1, <2>2, Upto
  <2> QED
    BY <2>3 DEF G
<1>4. ASSUME NEW k \in Keys, NEW l \in 0..MaxPasses, Concrete(e[l][k])
      PROVE  e[MaxPasses][k] = e[l][k]
  <2> DEFINE G == {n \in Nat : l <= n => e[n][k] = e[l][k]}
  <2>1. 0 \in G
    <3>1. l <= 0 => l = 0
      BY <1>2
    <3> QED
      BY <3>1
  <2>2. ASSUME NEW n \in 1..MaxPasses, n - 1 \in G PROVE n \in G
    <3>1. CASE l = n
      BY <1>2, <3>1
    <3>2. CASE l # n /\ l <= n
      <4>1. l <= n - 1 /\ n \in Nat
        BY <1>2, <3>2
      <4>2. e[n - 1][k] = e[l][k]
        BY <2>2, <4>1
      <4>3. e[n - 1] \in Env /\ e[n - 1][k] \in Seq(Part) /\ e[n] = Pass(e[n - 1], keys)
        BY <1>1, <1>2 DEF Env
      <4>4. Holes(e[n - 1][k]) = {}
        BY <1>4, <4>2, <4>3, ValueParts
      <4>5. e[n][k] = e[l][k]
        BY <4>2, <4>3, <4>4, PassIs
      <4> QED
        BY <4>1, <4>5
    <3> QED
      BY <1>2, <3>1, <3>2
  <2> HIDE DEF G
  <2>3. \A n \in 0..MaxPasses : n \in G
    BY <1>2, <2>1, <2>2, Upto
  <2>4. MaxPasses \in G /\ l <= MaxPasses
    BY <1>2, <2>3
  <2> QED
    BY <2>4 DEF G
<1>5. \A n \in 0..MaxPasses : \A k \in Keys :
        Concrete(e[n][k]) => Expanded(env, keys)[k] = e[n][k]
  BY <1>1, <1>4
<1>6. \A n \in 0..MaxPasses : \A k \in Keys :
        /\ Holes(e[n][k]) \subseteq Holes(env[k])
        /\ Holes(env[k]) = {} \/ k \notin keys => e[n][k] = env[k]
        /\ Concrete(e[n][k]) => Expanded(env, keys)[k] = e[n][k]
  BY <1>3, <1>5
<1> QED
  BY <1>1, <1>6 DEF PassByPass

LEMMA ExpandedKeeps ==
  ASSUME NEW env \in Env, NEW keys \in SUBSET Keys
  PROVE  /\ Expanded(env, keys) \in Env
         /\ \A k \in Keys :
              /\ Holes(Expanded(env, keys)[k]) \subseteq Holes(env[k])
              /\ Holes(env[k]) = {} \/ k \notin keys => Expanded(env, keys)[k] = env[k]
<1>1. PICK e : PassByPass(e, env, keys)
  BY Passes
<1>2. MaxPasses \in 0..MaxPasses
  BY EnvAssumption
<1> QED
  BY <1>1, <1>2 DEF PassByPass

\* A value means after the expansion what it meant before, to one who knows what
\* the expansion knows and lacks what defaults were taken for.
LEMMA ExpandedMeans ==
  ASSUME NEW env \in Env, NEW keys \in SUBSET Keys, NEW later \in Env, NEW k \in Keys,
         \A p \in Holes(env[k]) :
           /\ Concrete(Expanded(env, keys)[p.name]) =>
                later[p.name] = Expanded(env, keys)[p.name]
           /\ p.default # None => /\ Holes(env[p.name]) = {}
                                  /\ ~Concrete(env[p.name]) => ~Concrete(later[p.name])
  PROVE  Substituted(Expanded(env, keys)[k], later) = Substituted(env[k], later)
<1>1. PICK e : PassByPass(e, env, keys)
  BY Passes
<1>2. MaxPasses \in Nat /\ \A n \in 1..MaxPasses : n \in Nat /\ n - 1 \in 0..MaxPasses
  BY EnvAssumption
<1> DEFINE G == {n \in Nat : Substituted(e[n][k], later) = Substituted(env[k], later)}
<1>3. 0 \in G
  BY <1>1 DEF PassByPass
<1>4. ASSUME NEW n \in 1..MaxPasses, n - 1 \in G PROVE n \in G
  <2> DEFINE was == e[n - 1]
  <2>1. n - 1 \in 0..MaxPasses /\ n \in Nat
    BY <1>2
  <2>2. /\ was \in Env /\ e[n] = Pass(was, keys) /\ was[k] \in Seq(Part)
        /\ Substituted(was[k], later) = Substituted(env[k], later)
    BY <1>1, <1>4, <2>1 DEF Env, PassByPass
  <2>3. ASSUME NEW p \in Holes(was[k])
        PROVE  /\ Concrete(was[p.name]) => later[p.name] = was[p.name]
               /\ ~Concrete(was[p.name]) /\ p.default # None => ~Concrete(later[p.name])
    <3>1. p \in Holes(env[k]) /\ p.name \in Keys
      BY <1>1, <2>1, <2>2, ValueParts DEF PassByPass
    <3>2. Concrete(was[p.name]) => Expanded(env, keys)[p.name] = was[p.name]
      BY <1>1, <2>1, <3>1 DEF PassByPass
    <3>3. p.default # None => was[p.name] = env[p.name]
      BY <1>1, <2>1, <3>1 DEF PassByPass
    <3> QED
      BY <3>1, <3>2, <3>3
  <2>4. Substituted(Substituted(was[k], was), later) = Substituted(was[k], later)
    BY <2>2, <2>3, SubstitutedTwice
  <2>5. e[n][k] = Substituted(was[k], was) \/ e[n][k] = was[k]
    BY <2>2, PassIs
  <2>6. Substituted(e[n][k], later) = Substituted(env[k], later)
    BY <2>2, <2>4, <2>5
  <2> QED
    BY <2>1, <2>6
<1> HIDE DEF G
<1>5. \A n \in 0..MaxPasses : n \in G
  BY <1>2, <1>3, <1>4, Upto
<1>6. MaxPasses \in G
  BY <1>2, <1>5
<1> QED
  BY <1>1, <1>6 DEF G, PassByPass

\* A pass that makes nothing known leaves nothing to fill in.
LEMMA NothingNew ==
  ASSUME NEW env \in Env, \A k \in Keys : Concrete(Pass(env, Keys)[k]) => Concrete(env[k])
  PROVE  Stable(Pass(env, Keys), Keys)
<1> DEFINE next == Pass(env, Keys)
<1>1. SUFFICES ASSUME NEW k \in Keys, NEW p \in Holes(next[k]) PROVE Filled(p, next) = <<p>>
  BY DEF Stable
<1>2. next[k] = Substituted(env[k], env) /\ next[k] \in Seq(Part) /\ env[k] \in Seq(Part)
  BY PassIs DEF Env
<1>3. p \in Holes(env[k]) /\ p.default = None /\ ~Concrete(env[p.name])
  BY <1>1, <1>2, SubstitutedHoles
<1>4. p.name \in Keys
  BY <1>2, <1>3, ValueParts
<1> QED
  BY <1>3, <1>4 DEF Filled

\* With no more names than passes the expansion ends by itself: each pass but the
\* last makes some value known.
LEMMA FewNamesSettle ==
  ASSUME NEW env \in Env, IsFiniteSet(Keys), Cardinality(Keys) <= MaxPasses
  PROVE  Stable(Expanded(env, Keys), Keys)
<1>1. PICK e : /\ e[0] = env /\ Expanded(env, Keys) = e[MaxPasses]
               /\ \A n \in 1..MaxPasses : e[n] = Pass(e[n - 1], Keys)
               /\ \A n \in 0..MaxPasses : e[n] \in Env
  BY Passes DEF PassByPass
<1>2. MaxPasses \in Nat /\ \A n \in 1..MaxPasses : n \in Nat /\ n - 1 \in 0..MaxPasses
  BY EnvAssumption
<1> SUFFICES ASSUME ~Stable(e[MaxPasses], Keys) PROVE FALSE
  BY <1>1
<1>3. ASSUME NEW n \in 0..MaxPasses PROVE ~Stable(e[n], Keys)
  <2> SUFFICES ASSUME Stable(e[n], Keys) PROVE FALSE
    OBVIOUS
  <2> DEFINE G == {l \in Nat : n <= l => e[l] = e[n]}
  <2>1. 0 \in G
    <3>1. n <= 0 => n = 0
      BY <1>2
    <3> QED
      BY <3>1
  <2>2. ASSUME NEW l \in 1..MaxPasses, l - 1 \in G PROVE l \in G
    <3>1. CASE n = l
      BY <1>2, <3>1
    <3>2. CASE n # l /\ n <= l
      <4>1. n <= l - 1 /\ l \in Nat
        BY <1>2, <3>2
      <4>2. e[l - 1] = e[n] /\ e[n] \in Env /\ e[l] = Pass(e[l - 1], Keys)
        BY <1>1, <2>2, <4>1
      <4>3. e[l] = e[n]
        BY <4>2, PassIs
      <4> QED
        BY <4>1, <4>3
    <3> QED
      BY <1>2, <3>1, <3>2
  <2> HIDE DEF G
  <2>3. \A l \in 0..MaxPasses : l \in G
    BY <1>2, <2>1, <2>2, Upto
  <2>4. MaxPasses \in G /\ n <= MaxPasses
    BY <1>2, <2>3
  <2> QED
    BY <2>4 DEF G
<1> DEFINE Known(n) == {k \in Keys : Concrete(e[n][k])}
<1>4. \A n \in Nat : IsFiniteSet(Known(n)) /\ Cardinality(Known(n)) \in Nat
  <2> SUFFICES ASSUME NEW n \in Nat PROVE IsFiniteSet(Known(n)) /\ Cardinality(Known(n)) \in Nat
    OBVIOUS
  <2>1. Known(n) \in SUBSET Keys
    OBVIOUS
  <2> HIDE DEF Known
  <2>2. IsFiniteSet(Known(n))
    BY <2>1, FS_Subset
  <2> QED
    BY <2>2, FS_CardinalityType
<1>5. ASSUME NEW n \in 1..MaxPasses
      PROVE  Known(n - 1) \subseteq Known(n) /\ Known(n - 1) # Known(n)
  <2>1. e[n - 1] \in Env /\ e[n] = Pass(e[n - 1], Keys) /\ ~Stable(e[n], Keys)
    BY <1>1, <1>2, <1>3
  <2>2. ASSUME NEW k \in Keys, Concrete(e[n - 1][k]) PROVE Concrete(e[n][k])
    <3>1. e[n - 1][k] \in Seq(Part)
      BY <2>1 DEF Env
    <3>2. Holes(e[n - 1][k]) = {}
      BY <2>2, <3>1, ValueParts
    <3>3. e[n][k] = e[n - 1][k]
      BY <2>1, <3>2, PassIs
    <3> QED
      BY <2>2, <3>3
  <2>3. PICK k \in Keys : Concrete(e[n][k]) /\ ~Concrete(e[n - 1][k])
    BY <2>1, NothingNew
  <2> QED
    BY <2>2, <2>3
<1> DEFINE G == {n \in Nat : n <= Cardinality(Known(n))}
<1>6. 0 \in G
  BY <1>4
<1>7. ASSUME NEW n \in 1..MaxPasses, n - 1 \in G PROVE n \in G
  <2>1. n \in Nat /\ n - 1 \in Nat
    BY <1>2
  <2>2. n - 1 <= Cardinality(Known(n - 1))
    BY <1>7
  <2> HIDE DEF Known
  <2>3. /\ IsFiniteSet(Known(n)) /\ Cardinality(Known(n)) \in Nat
        /\ Cardinality(Known(n - 1)) \in Nat
    BY <1>4, <2>1
  <2>4. Cardinality(Known(n - 1)) <= Cardinality(Known(n)) /\ Cardinality(Known(n - 1)) # Cardinality(Known(n))
    BY <1>5, <2>3, FS_Subset
  <2> QED
    BY <2>1, <2>2, <2>3, <2>4
<1> HIDE DEF G
<1>8. \A n \in 0..MaxPasses : n \in G
  BY <1>2, <1>6, <1>7, Upto
<1>9. MaxPasses <= Cardinality(Known(MaxPasses))
  BY <1>2, <1>8 DEF G
<1>10. Known(MaxPasses) = Keys
  <2>1. Known(MaxPasses) \in SUBSET Keys
    OBVIOUS
  <2>2. Cardinality(Keys) \in Nat
    BY FS_CardinalityType
  <2> HIDE DEF Known
  <2>3. Cardinality(Known(MaxPasses)) <= Cardinality(Keys)
    BY <2>1, FS_Subset
  <2>4. Cardinality(Keys) = Cardinality(Known(MaxPasses))
    BY <1>2, <1>4, <1>9, <2>2, <2>3
  <2> QED
    BY <2>1, <2>4, FS_Subset
<1>11. \A k \in Keys : Holes(e[MaxPasses][k]) = {}
  <2> SUFFICES ASSUME NEW k \in Keys PROVE Holes(e[MaxPasses][k]) = {}
    OBVIOUS
  <2>1. Concrete(e[MaxPasses][k])
    BY <1>10
  <2>2. e[MaxPasses][k] \in Seq(Part)
    BY <1>1, <1>2 DEF Env
  <2> QED
    BY <2>1, <2>2, ValueParts
<1> QED
  BY <1>11 DEF Stable

--------------------------------------------------------------------------------
(***************************************************************************)
(* What a document comes to.                                               *)
(***************************************************************************)
LEMMA FirstGoodTyped ==
  ASSUME NEW S, NEW vs \in Seq(Seq(S)), NEW good
  PROVE  FirstGood(vs, good) \in Seq(S)
<1> DEFINE held == {i \in DOMAIN vs : vs[i] \in good}
<1>1. held = {} => FirstGood(vs, good) = <<>>
  BY DEF FirstGood
<1>2. held # {} => Min(held) \in held
  <2>1. held \in SUBSET Nat
    OBVIOUS
  <2> HIDE DEF held
  <2>2. held # {} => \E x \in held : \A y \in held : x <= y
    BY <2>1, Least
  <2> QED
    BY <2>2 DEF Min
<1>3. held # {} => FirstGood(vs, good) = vs[Min(held)]
  BY DEF FirstGood
<1>4. \A i \in DOMAIN vs : vs[i] \in Seq(S)
  OBVIOUS
<1>5. <<>> \in Seq(S)
  BY EmptySeq
<1> QED
  BY <1>1, <1>2, <1>3, <1>4, <1>5

LEMMA FirstOfTyped ==
  ASSUME NEW env \in Env, NEW good
  PROVE  FirstOf(env, good) \in Seq(Part)
<1> DEFINE vs == [i \in DOMAIN HostKeys |-> env[HostKeys[i]]]
<1>1. DOMAIN HostKeys = 1..3 /\ \A i \in DOMAIN HostKeys : HostKeys[i] \in Keys
  BY EnvAssumption DEF HostKeys, ConnKeys
<1>2. \A i \in 1..3 : env[HostKeys[i]] \in Seq(Part)
  BY <1>1 DEF Env
<1>3. vs \in Seq(Seq(Part))
  BY <1>1, <1>2
<1> HIDE DEF vs
<1>4. FirstGood(vs, good) \in Seq(Part)
  BY <1>3, FirstGoodTyped
<1> QED
  BY <1>4 DEF FirstOf, vs

LEMMA OverTyped ==
  ASSUME NEW higher \in Env, NEW lower \in Env
  PROVE  Over(higher, lower) \in Env
  BY DEF Over, Env

\* What the environment of a document is made of.
LEMMA DocumentTyped ==
  ASSUME NEW d \in Document
  PROVE  /\ Stored(d) \in Env /\ Over(d.overrides, Stored(d)) \in Env
         /\ RunBase(d) \in Seq(Part) /\ TestBase(d) \in Seq(Part)
         /\ \A v \in d.texts : v \in Seq(Part)
<1> DEFINE Values0 == EnvValue \cup {Absent}
<1>1. ASSUME NEW v \in EnvValue PROVE v \in Seq(Part)
  <2>1. Fixed \cup Refs \subseteq Part
    BY DEF Part
  <2> QED
    BY <2>1, SeqMonotonic DEF EnvValue
<1>2. Absent \in Seq(Part)
  <2>1. Absent[1] \in Part /\ Absent = <<Absent[1]>>
    BY DEF Part, Absent
  <2>2. <<Absent[1]>> \in Seq(Part)
    BY <2>1
  <2> QED
    BY <2>1, <2>2
<1>3. /\ d.collection \in [Keys -> Values0] /\ d.scenario \in [Keys -> Values0]
      /\ d.overrides \in [Keys -> Values0] /\ d.host \in EnvValue /\ d.base \in EnvValue
      /\ d.absolute \in EnvValue /\ d.texts \in SUBSET EnvValue
  BY DEF Document
<1>4. d.collection \in Env /\ d.scenario \in Env /\ d.overrides \in Env
  BY <1>1, <1>2, <1>3 DEF Env
<1>5. Stored(d) \in Env
  BY <1>4, OverTyped DEF Stored
<1>6. Over(d.overrides, Stored(d)) \in Env
  BY <1>4, <1>5, OverTyped
<1>7. /\ d.host \in Seq(Part) /\ d.base \in Seq(Part) /\ d.absolute \in Seq(Part)
      /\ \A v \in d.texts : v \in Seq(Part)
  BY <1>1, <1>3
<1>8. \A keys \in SUBSET Keys : FirstSet(Expanded(Stored(d), keys)) \in Seq(Part)
  BY <1>5, ExpandedKeeps, FirstOfTyped DEF FirstSet
<1>9. ConnKeys \in SUBSET Keys /\ Keys \in SUBSET Keys
  BY EnvAssumption
<1>10. RunBase(d) \in Seq(Part)
  BY <1>7, <1>8, <1>9 DEF RunBase, OrBase
<1>11. StoredHost(d) \in Seq(Part)
  BY <1>7, <1>8, <1>9 DEF StoredHost, OrBase
<1>12. TestBase(d) \in Seq(Part)
  <2>1. PICK vs : vs = <<d.host, StoredHost(d), d.absolute>>
    OBVIOUS
  <2>2. vs \in Seq(Seq(Part))
    BY <1>7, <1>11, <2>1
  <2>3. FirstHost(vs) \in Seq(Part)
    BY <2>2, FirstGoodTyped DEF FirstHost
  <2> QED
    BY <2>1, <2>3 DEF TestBase
<1> QED
  BY <1>5, <1>6, <1>7, <1>10, <1>12

LEMMA WithServerIs ==
  ASSUME NEW env \in Env, NEW base \in Seq(Part)
  PROVE  /\ WithServer(env, base) \in Env
         /\ \A k \in Keys \ {"server", "base_url"} : WithServer(env, base)[k] = env[k]
<1> DEFINE own  == FirstOf(env, {v \in Values(env) : UsableHost(v)})
           host == IF own = <<>> /\ ~Forbidden(base) THEN base ELSE own
<1>1. own \in Seq(Part)
  BY FirstOfTyped
<1> HIDE DEF own
<1>2. host \in Seq(Part)
  BY <1>1
<1>3. WithServer(env, base) = IF host = <<>> THEN env
                              ELSE [env EXCEPT !["server"] = host,
                                               !["base_url"] = IF @ = Absent THEN host ELSE @]
  BY DEF WithServer, own
<1> HIDE DEF host
<1> QED
  BY <1>2, <1>3 DEF Env

LEMMA CompanionsAre ==
  ASSUME NEW env \in Env
  PROVE  /\ \A k \in Keys \ Encodings : Companions(env)[k] = env[k]
         /\ \A k \in Keys : Companions(env)[k] = env[k] \/ Concrete(Companions(env)[k])
<1>1. ASSUME NEW k \in Keys \ Encodings PROVE Companions(env)[k] = env[k]
  BY DEF Companions, Encodings, Range
<1>2. ASSUME NEW k \in Keys, NEW j \in DOMAIN Companion, Companion[j] = k, Concrete(env[j])
      PROVE  Concrete(Encoded(env[CHOOSE i \in DOMAIN Companion : Companion[i] = k]))
  <2>1. (CHOOSE i \in DOMAIN Companion : Companion[i] = k) = j
    BY <1>2, EnvAssumption
  <2>2. env[j] \in Seq(Part)
    BY EnvAssumption DEF Env
  <2>3. PICK v \in Seq(Part) : v = env[j]
    BY <2>2
  <2>4. v # <<>> /\ 1 \in DOMAIN v
    BY <1>2, <2>3 DEF Concrete, Blank
  <2>5. ASSUME NEW i \in DOMAIN v PROVE Encoded(v)[i].kind = "encoded"
    <3>1. v[i] \in Part
      BY ValueParts
    <3>2. [v[i] EXCEPT !.kind = "encoded"].kind = "encoded"
      BY <3>1 DEF Part, Fixed, Refs, Absent
    <3> QED
      BY <3>2 DEF Encoded
  <2>6. DOMAIN Encoded(v) = DOMAIN v
    BY DEF Encoded
  <2>7. Encoded(v) # <<>>
    BY <2>4, <2>6
  <2>8. Encoded(v) # Absent
    <3>1. Absent[1].kind = "absent"
      BY DEF Absent
    <3> QED
      BY <2>4, <2>5, <3>1
  <2>9. Concrete(Encoded(v))
    BY <2>5, <2>6, <2>7, <2>8 DEF Concrete, Blank
  <2> QED
    BY <2>1, <2>3, <2>9
<1>3. ASSUME NEW k \in Keys PROVE Companions(env)[k] = env[k] \/ Concrete(Companions(env)[k])
  BY <1>2 DEF Companions
<1> QED
  BY <1>1, <1>3

\* The environment after the host was brought in, and after the last pass.
Brought(env, base)  == WithServer(Expanded(env, ConnKeys), base)
Complete(env, base) == Expanded(Brought(env, base), Keys)

\* A reference that is seen the same way from the first pass to the last.
Steady(p, k, env) ==
  /\ p.default # None => Holes(env[p.name]) = {}
  /\ p.name \notin Encodings
  /\ p.name \in {"server", "base_url"} => k \notin ConnKeys /\ p.default = None

\* What happens to the values of names that are not those of the host.
LEMMA CompleteKeeps ==
  ASSUME NEW env \in Env, NEW base \in Seq(Part)
  PROVE  /\ Expanded(env, ConnKeys) \in Env /\ Brought(env, base) \in Env
         /\ Complete(env, base) \in Env
         /\ \A j \in Keys \ {"server", "base_url"} :
              /\ Brought(env, base)[j] = Expanded(env, ConnKeys)[j]
              /\ Holes(Brought(env, base)[j]) \subseteq Holes(env[j])
              /\ Concrete(Brought(env, base)[j]) => Complete(env, base)[j] = Brought(env, base)[j]
              /\ Holes(env[j]) = {} => /\ Brought(env, base)[j] = env[j]
                                       /\ Complete(env, base)[j] = env[j]
<1>1. ConnKeys \in SUBSET Keys /\ Keys \in SUBSET Keys
  BY EnvAssumption
<1>2. /\ Expanded(env, ConnKeys) \in Env
      /\ \A j \in Keys : Holes(Expanded(env, ConnKeys)[j]) \subseteq Holes(env[j])
      /\ \A j \in Keys : Holes(env[j]) = {} => Expanded(env, ConnKeys)[j] = env[j]
  BY <1>1, ExpandedKeeps
<1>3. /\ Brought(env, base) \in Env
      /\ \A j \in Keys \ {"server", "base_url"} :
           Brought(env, base)[j] = Expanded(env, ConnKeys)[j]
  BY <1>2, WithServerIs DEF Brought
<1>4. /\ Complete(env, base) \in Env
      /\ \A j \in Keys : Holes(Brought(env, base)[j]) = {} =>
                           Complete(env, base)[j] = Brought(env, base)[j]
  BY <1>1, <1>3, ExpandedKeeps DEF Complete
<1>5. \A j \in Keys : Concrete(Brought(env, base)[j]) => Holes(Brought(env, base)[j]) = {}
  BY <1>3, ValueParts DEF Env
<1> QED
  BY <1>2, <1>3, <1>4, <1>5

\* When nothing is left to fill in, a name has its value with the final values of
\* the names it refers to.
LEMMA CompleteMeans ==
  ASSUME NEW env \in Env, NEW base \in Seq(Part), Stable(Complete(env, base), Keys),
         NEW k \in Keys \ {"server", "base_url"}, \A p \in Holes(env[k]) : Steady(p, k, env)
  PROVE  Complete(env, base)[k] = Substituted(env[k], Complete(env, base))
<1> DEFINE R == Expanded(env, ConnKeys)
           W == Brought(env, base)
           E == Complete(env, base)
<1>1. ConnKeys \in SUBSET Keys /\ Keys \in SUBSET Keys
  BY EnvAssumption
<1>2. R \in Env /\ W \in Env /\ E \in Env /\ W[k] = R[k] /\ Holes(W[k]) \subseteq Holes(env[k])
  BY CompleteKeeps
<1>3. \A p \in Holes(env[k]) : p.name \in Keys
  BY ValueParts DEF Env
<1>4. Substituted(R[k], E) = Substituted(env[k], E)
  <2>1. CASE k \in ConnKeys
    <3>1. ASSUME NEW p \in Holes(env[k])
          PROVE  /\ Concrete(R[p.name]) => E[p.name] = R[p.name]
                 /\ p.default # None => /\ Holes(env[p.name]) = {}
                                        /\ ~Concrete(env[p.name]) => ~Concrete(E[p.name])
      <4>1. p.name \in Keys \ {"server", "base_url"}
        BY <1>3, <2>1 DEF Steady
      <4>2. W[p.name] = R[p.name] /\ (Concrete(W[p.name]) => E[p.name] = W[p.name])
        BY <4>1, CompleteKeeps
      <4>3. p.default # None => Holes(env[p.name]) = {}
        BY DEF Steady
      <4>4. Holes(env[p.name]) = {} => E[p.name] = env[p.name]
        BY <4>1, CompleteKeeps
      <4> HIDE DEF R, W, E
      <4> QED
        BY <4>2, <4>3, <4>4
    <3> HIDE DEF E
    <3>2. Substituted(Expanded(env, ConnKeys)[k], E) = Substituted(env[k], E)
      BY <1>1, <1>2, <3>1, ExpandedMeans
    <3> QED
      BY <3>2
  <2>2. CASE k \notin ConnKeys
    <3>1. R[k] = env[k]
      BY <1>1, <2>2, ExpandedKeeps
    <3> QED
      BY <3>1
  <2> QED
    BY <2>1, <2>2
<1>5. Substituted(E[k], E) = Substituted(W[k], E)
  <2>1. ASSUME NEW p \in Holes(W[k])
        PROVE  p.default # None => /\ Holes(W[p.name]) = {}
                                   /\ ~Concrete(W[p.name]) => ~Concrete(E[p.name])
    <3>1. p \in Holes(env[k]) /\ p.name \in Keys /\ Steady(p, k, env)
      BY <1>2, <1>3
    <3>2. p.default # None => p.name \in Keys \ {"server", "base_url"} /\ Holes(env[p.name]) = {}
      BY <3>1 DEF Steady
    <3>3. ASSUME p.default # None PROVE W[p.name] = env[p.name] /\ E[p.name] = env[p.name]
      <4>1. PICK j \in Keys \ {"server", "base_url"} : j = p.name /\ Holes(env[j]) = {}
        BY <3>2, <3>3
      <4>2. W[j] = env[j] /\ E[j] = env[j]
        BY <4>1, CompleteKeeps
      <4> QED
        BY <4>1, <4>2
    <3> HIDE DEF W, E
    <3> QED
      BY <3>2, <3>3
  <2>2. E = Expanded(W, Keys)
    BY DEF Complete
  <2> HIDE DEF W, E
  <2>3. \A p \in Holes(W[k]) :
          /\ Concrete(Expanded(W, Keys)[p.name]) => E[p.name] = Expanded(W, Keys)[p.name]
          /\ p.default # None => /\ Holes(W[p.name]) = {}
                                 /\ ~Concrete(W[p.name]) => ~Concrete(E[p.name])
    BY <2>1, <2>2
  <2>4. k \in Keys /\ Keys \in SUBSET Keys /\ W \in Env /\ E \in Env
    BY <1>1, <1>2
  <2>5. Substituted(Expanded(W, Keys)[k], E) = Substituted(W[k], E)
    BY <2>3, <2>4, ExpandedMeans
  <2> QED
    BY <2>2, <2>5
<1>6. Substituted(E[k], E) = E[k]
  <2>1. E[k] \in Seq(Part) /\ \A p \in Holes(E[k]) : Filled(p, E) = <<p>>
    BY <1>2 DEF Stable, Env
  <2> HIDE DEF E
  <2> QED
    BY <1>2, <2>1, SubstitutedSame
<1> QED
  BY <1>2, <1>4, <1>5, <1>6

LEMMA FinalizedMeans ==
  ASSUME NEW env \in Env, NEW base \in Seq(Part), Stable(Complete(env, base), Keys),
         NEW k \in Keys \ (Encodings \cup {"server", "base_url"}),
         \A p \in Holes(env[k]) : Steady(p, k, env)
  PROVE  Finalized(env, base)[k] = Substituted(env[k], Finalized(env, base))
<1> DEFINE E == Complete(env, base)
<1>1. Finalized(env, base) = Companions(E)
  BY DEF Finalized, Complete, Brought
<1>2. E \in Env /\ env[k] \in Seq(Part)
  BY CompleteKeeps DEF Env
<1>3. E[k] = Substituted(env[k], E)
  BY CompleteMeans
<1> HIDE DEF E
<1>4. \A j \in Keys \ Encodings : Companions(E)[j] = E[j]
  BY <1>2, CompanionsAre
<1>5. ASSUME NEW i \in DOMAIN env[k]
      PROVE  Filled(env[k][i], Companions(E)) = Filled(env[k][i], E)
  <2>1. CASE env[k][i].kind = "env"
    <3>1. env[k][i] \in Holes(env[k])
      BY <1>2, <2>1, ValueParts
    <3>2. env[k][i].name \in Keys \ Encodings
      BY <1>2, <3>1, ValueParts DEF Steady
    <3> QED
      BY <1>4, <3>2 DEF Filled
  <2> QED
    BY <2>1 DEF Filled
<1>6. Substituted(env[k], Companions(E)) = Substituted(env[k], E)
  BY <1>5 DEF Substituted
<1> QED
  BY <1>1, <1>3, <1>4, <1>6

\* A value without a placeholder is blank in the end, or known.
LEMMA FinalizedKnown ==
  ASSUME NEW env \in Env, NEW base \in Seq(Part),
         NEW k \in Keys \ {"server", "base_url"}, Holes(env[k]) = {}
  PROVE  Blank(Finalized(env, base)[k]) \/ Concrete(Finalized(env, base)[k])
<1> DEFINE E == Complete(env, base)
<1>1. Finalized(env, base) = Companions(E)
  BY DEF Finalized, Complete, Brought
<1>2. E \in Env /\ E[k] = env[k]
  BY CompleteKeeps
<1> HIDE DEF E
<1>3. Companions(E)[k] = E[k] \/ Concrete(Companions(E)[k])
  BY <1>2, CompanionsAre
<1>4. Blank(env[k]) \/ Concrete(env[k])
  BY ValueParts DEF Env
<1> QED
  BY <1>1, <1>2, <1>3, <1>4

\* The host that stands among the connection keys, and the one that is asked for:
\* that, or that of the page, or the base URL of a scenario that names no host.
OwnHost(env) ==
  LET first == Expanded(env, ConnKeys)
  IN  FirstOf(first, {v \in Values(first) : UsableHost(v)})
Asking(d) ==
  LET own == OwnHost(Over(d.overrides, Stored(d)))
  IN  IF own # <<>> THEN own ELSE IF d.host # <<>> THEN d.host ELSE d.base
Known(d) ==
  /\ UsableHost(Asking(d)) /\ HasHost(Asking(d))
  /\ \/ OwnHost(Over(d.overrides, Stored(d))) # <<>>
     \/ d.host # <<>>
     \/ \A k \in ConnKeys : Blank(Stored(d)[k])

\* The host that is brought in is the server in the end.
LEMMA ServerIs ==
  ASSUME NEW env \in Env, NEW base \in Seq(Part), NEW host \in Seq(Part), UsableHost(host),
         host = IF OwnHost(env) = <<>> THEN base ELSE OwnHost(env)
  PROVE  Finalized(env, base)["server"] = host
<1> DEFINE R == Expanded(env, ConnKeys)
           W == Brought(env, base)
           E == Complete(env, base)
<1>1. R \in Env /\ W \in Env /\ E \in Env /\ "server" \in Keys \ Encodings
  BY CompleteKeeps, EnvAssumption DEF ConnKeys
<1>2. host # <<>> /\ ~Forbidden(host) /\ Holes(host) = {}
  BY ValueParts DEF UsableHost, Concrete, Blank
<1>3. W["server"] = host
  <2> DEFINE own  == FirstOf(R, {v \in Values(R) : UsableHost(v)})
             used == IF own = <<>> /\ ~Forbidden(base) THEN base ELSE own
  <2>1. own = OwnHost(env)
    BY DEF OwnHost
  <2>2. used = host
    BY <1>2, <2>1
  <2>3. WithServer(R, base) = IF used = <<>> THEN R
                              ELSE [R EXCEPT !["server"] = used,
                                             !["base_url"] = IF @ = Absent THEN used ELSE @]
    BY DEF WithServer
  <2>4. W = WithServer(R, base)
    BY DEF Brought
  <2> HIDE DEF used, R, W
  <2> QED
    BY <1>1, <1>2, <2>2, <2>3, <2>4 DEF Env
<1>4. E["server"] = host
  BY <1>1, <1>2, <1>3, ExpandedKeeps DEF Complete
<1>5. Finalized(env, base) = Companions(E)
  BY DEF Finalized, Complete, Brought
<1> HIDE DEF E
<1> QED
  BY <1>1, <1>4, <1>5, CompanionsAre

\* Only without a host of one's own does it matter what is brought in.
LEMMA OwnHostDecides ==
  ASSUME NEW env, NEW base, NEW other, OwnHost(env) # <<>>
  PROVE  Finalized(env, base) = Finalized(env, other)
<1>1. WithServer(Expanded(env, ConnKeys), base) = WithServer(Expanded(env, ConnKeys), other)
  BY DEF WithServer, OwnHost
<1> QED
  BY <1>1 DEF Finalized

\* A good first value is taken, and a good second one after a first that is not.
LEMMA FirstIs ==
  ASSUME NEW a, NEW b, NEW c
  PROVE  /\ HasHost(a) => FirstHost(<<a, b, c>>) = a
         /\ ~HasHost(a) /\ HasHost(b) => FirstHost(<<a, b, c>>) = b
<1> DEFINE vs   == <<a, b, c>>
           good == {v \in Range(vs) : HasHost(v)}
           held == {i \in DOMAIN vs : vs[i] \in good}
<1>1. DOMAIN vs = 1..3 /\ vs[1] = a /\ vs[2] = b /\ vs[3] = c
  OBVIOUS
<1>2. \A i \in 1..3 : i \in held <=> HasHost(vs[i])
  BY <1>1 DEF Range
<1>3. held \subseteq 1..3
  BY <1>1
<1>4. FirstHost(vs) = IF held = {} THEN <<>> ELSE vs[Min(held)]
  BY DEF FirstHost, FirstGood
<1> HIDE DEF held, vs
<1>5. ASSUME NEW m \in held, \A i \in held : m <= i PROVE Min(held) = m
  <2>1. Min(held) \in held /\ \A i \in held : Min(held) <= i
    BY <1>5 DEF Min
  <2>2. PICK x \in held : x = Min(held)
    BY <2>1
  <2>3. x <= m /\ m <= x
    BY <1>5, <2>1, <2>2
  <2>4. x \in 1..3 /\ m \in 1..3
    BY <1>3
  <2> QED
    BY <2>2, <2>3, <2>4
<1>6. HasHost(a) => Min(held) = 1 /\ held # {}
  BY <1>1, <1>2, <1>3, <1>5
<1>7. ~HasHost(a) /\ HasHost(b) => Min(held) = 2 /\ held # {}
  <2> SUFFICES ASSUME ~HasHost(a), HasHost(b) PROVE Min(held) = 2 /\ held # {}
    OBVIOUS
  <2>1. 2 \in held /\ 1 \notin held
    BY <1>1, <1>2
  <2>2. \A i \in held : 2 <= i
    BY <1>3, <2>1
  <2> QED
    BY <1>5, <2>1, <2>2
<1> QED
  BY <1>1, <1>4, <1>6, <1>7 DEF vs

\* Where the connection keys are blank, the base URL of the scenario is the host.
LEMMA BaseIsHost ==
  ASSUME NEW d \in Document, \A k \in ConnKeys : Blank(Stored(d)[k])
  PROVE  \A keys \in SUBSET Keys : OrBase(FirstSet(Expanded(Stored(d), keys)), d.base) = d.base
<1> SUFFICES ASSUME NEW keys \in SUBSET Keys
             PROVE  FirstSet(Expanded(Stored(d), keys)) = <<>>
  BY DEF OrBase
<1> DEFINE env  == Expanded(Stored(d), keys)
           good == {v \in Values(env) : ~Blank(v)}
           vs   == [i \in DOMAIN HostKeys |-> env[HostKeys[i]]]
<1>1. \A k \in ConnKeys : Blank(env[k])
  <2> SUFFICES ASSUME NEW k \in ConnKeys PROVE Blank(env[k])
    OBVIOUS
  <2>1. k \in Keys /\ Stored(d) \in Env /\ Blank(Stored(d)[k])
    BY EnvAssumption, DocumentTyped
  <2>2. Holes(Stored(d)[k]) = {}
    BY <2>1 DEF Blank, Absent, Holes
  <2> QED
    BY <2>1, <2>2, ExpandedKeeps
<1>2. \A i \in DOMAIN HostKeys : HostKeys[i] \in ConnKeys
  BY DEF HostKeys, ConnKeys
<1> HIDE DEF env
<1>3. \A i \in DOMAIN vs : vs[i] \notin good
  BY <1>1, <1>2
<1>4. FirstSet(env) = FirstGood(vs, good)
  BY DEF FirstSet, FirstOf
<1> HIDE DEF vs, good
<1> QED
  BY <1>3, <1>4 DEF FirstGood, env

LEMMA KnownHost ==
  ASSUME NEW d \in Document, Known(d)
  PROVE  RunPrepared(d) = TestPrepared(d) /\ RunPrepared(d).base = Asking(d)
<1> DEFINE env == Over(d.overrides, Stored(d))
           host == Asking(d)
<1>1. /\ env \in Env /\ RunBase(d) \in Seq(Part) /\ TestBase(d) \in Seq(Part)
      /\ d.host \in EnvValue /\ d.base \in EnvValue
  BY DocumentTyped DEF Document
<1>2. UsableHost(host) /\ HasHost(host)
  BY DEF Known
<1>3. OwnHost(env) = <<>> => RunBase(d) = host /\ TestBase(d) = host
  <2> SUFFICES ASSUME OwnHost(env) = <<>> PROVE RunBase(d) = host /\ TestBase(d) = host
    OBVIOUS
  <2>1. CASE d.host # <<>>
    <3>1. host = d.host
      BY <2>1 DEF Asking
    <3> QED
      BY <1>2, <2>1, <3>1, FirstIs DEF RunBase, TestBase
  <2>2. CASE d.host = <<>>
    <3>1. host = d.base /\ \A k \in ConnKeys : Blank(Stored(d)[k])
      BY <2>2 DEF Asking, Known
    <3>2. ~HasHost(d.host)
      BY <2>2 DEF HasHost, Blank
    <3>3. RunBase(d) = d.base /\ StoredHost(d) = d.base
      BY <2>2, <3>1, BaseIsHost, EnvAssumption DEF RunBase, StoredHost
    <3> QED
      BY <1>2, <3>1, <3>2, <3>3, FirstIs DEF TestBase
  <2> QED
    BY <2>1, <2>2
<1>4. OwnHost(env) # <<>> => host = OwnHost(env)
  BY DEF Asking
<1>5. Finalized(env, RunBase(d)) = Finalized(env, TestBase(d))
  BY <1>3, <1>4, OwnHostDecides
<1>6. Finalized(env, RunBase(d))["server"] = host
  <2>1. host \in Seq(Part)
    <3>1. OwnHost(env) \in Seq(Part)
      BY <1>1, CompleteKeeps, FirstOfTyped DEF OwnHost
    <3> QED
      BY <1>1, <1>3, <1>4, <3>1
  <2> HIDE DEF env, host
  <2> QED
    BY <1>1, <1>2, <1>3, <1>4, <2>1, ServerIs
<1>7. ServerOf(Finalized(env, RunBase(d))) = host /\ ~Blank(host)
  BY <1>2, <1>6 DEF ServerOf, UsableHost, Concrete
<1>8. RunPrepared(d) = Prepared(Finalized(env, RunBase(d)), d.texts, host)
  BY <1>7 DEF RunPrepared
<1>9. TestPrepared(d) = Prepared(Finalized(env, TestBase(d)), d.texts, host)
  BY <1>2, <1>5, <1>7 DEF TestPrepared
<1> QED
  BY <1>5, <1>8, <1>9 DEF Prepared

--------------------------------------------------------------------------------
(***************************************************************************)
(* The contexts of requests and of the run.                                *)
(***************************************************************************)
\* The two ways to prepare the data of the case.
Contextual == {RunPrepared(Data), TestPrepared(Data)}

ContextInv ==
  /\ pc # "received" => context \in Contextual
  /\ \A n \in DOMAIN results : results[n].context \in Contextual

LEMMA ContextInit == Init => ContextInv
  BY DEF Init, ContextInv

LEMMA ContextNext == IInv /\ ContextInv /\ [Next]_svars => ContextInv'
<1> SUFFICES ASSUME IInv, ContextInv, [Next]_svars PROVE ContextInv'
  OBVIOUS
<1>1. case' = case
  BY DEF Next, svars, Begin, TestPrior, Blocked, TestSelected, RunStep, PreviewPrior,
         PreviewSelected, Broken, Answer, NextRequest, Done, Advance
<1>2. Contextual' = Contextual
  BY <1>1 DEF Contextual, Data
<1>3. results \in Seq(Result)
  BY DEF IInv, TypeOK
<1>4. ASSUME NEW status, Ends(status), context' \in Contextual PROVE ContextInv'
  <2>1. PICK r : results' = Append(results, r) /\ r.context = context'
    BY <1>4 DEF Ends
  <2>2. ASSUME NEW n \in DOMAIN results' PROVE results'[n].context \in Contextual
    <3>1. (n \in DOMAIN results /\ results'[n] = results[n]) \/ results'[n] = r
      BY <1>3, <2>1
    <3> QED
      BY <1>4, <2>1, <3>1 DEF ContextInv
  <2> QED
    BY <1>2, <1>4, <2>2 DEF ContextInv
<1>5. ASSUME UNCHANGED results, pc' # "received" => context' \in Contextual PROVE ContextInv'
  BY <1>2, <1>5 DEF ContextInv
<1>6. CASE Begin
  <2>1. context' \in Contextual
    BY <1>6 DEF Begin, Contextual, Data
  <2>2. Ends("refused") \/ UNCHANGED results
    BY <1>6 DEF Begin
  <2> QED
    BY <1>4, <1>5, <2>1, <2>2
<1>7. CASE TestPrior \/ TestSelected \/ RunStep \/ PreviewPrior \/ PreviewSelected
  <2>1. context' = context /\ UNCHANGED results /\ pc = "prior"
    BY <1>7 DEF TestPrior, TestSelected, RunStep, PreviewPrior, PreviewSelected, Advance
  <2> QED
    BY <1>5, <2>1 DEF ContextInv
<1>8. CASE Blocked \/ Broken \/ Answer
  <2>1. context' = context /\ pc # "received" /\ (Ends("blocked") \/ Ends("error") \/ Ends("ok"))
    BY <1>8 DEF Blocked, Broken, Answer
  <2> QED
    BY <1>4, <2>1 DEF ContextInv
<1>9. CASE NextRequest \/ Done \/ UNCHANGED svars
  <2>1. /\ context' = context /\ UNCHANGED results
        /\ pc' = "received" \/ pc' = pc
    BY <1>9 DEF NextRequest, Done, svars
  <2> QED
    BY <1>5, <2>1 DEF ContextInv
<1> QED
  BY <1>6, <1>7, <1>8, <1>9 DEF Next

LEMMA ContextInvariance == Spec => [](IInv /\ ContextInv)
<1>1. Init => IInv /\ ContextInv
  BY InitHolds, ContextInit
<1>2. (IInv /\ ContextInv) /\ [Next]_svars => (IInv /\ ContextInv)'
  BY NextKeeps, ContextNext
<1> QED
  BY <1>1, <1>2, PTL DEF Spec

\* The base URLs a run and a test bring in.
Bases == {RunBase(Data), TestBase(Data)}

LEMMA ContextIs ==
  ASSUME IInv, ContextInv, AllDone, NEW c \in {TheRun, TheTest}
  PROVE  /\ Data \in Document /\ c \in Contextual /\ Given \in Env /\ Bases \subseteq Seq(Part)
         /\ \A v \in Data.texts : v \in Seq(Part)
         /\ \E base \in Bases : c.env = Finalized(Given, base)
         /\ ~c.refused => Missing(c.env, Data.texts) = {}
<1>1. Data \in Document
  BY BatchesAssumption DEF IInv, TypeOK, Documents, Data
<1>2. c \in Contextual
  <2>1. Len(results) = now /\ now \in Nat \ {0} /\ results \in Seq(Result)
    BY Places DEF IInv, TypeOK, AllDone
  <2>2. 1 \in DOMAIN results /\ Len(results) \in DOMAIN results
    BY <2>1
  <2> QED
    BY <2>2 DEF ContextInv, TheRun, TheTest
<1>3. ASSUME NEW env, NEW base, NEW texts, c = Prepared(env, texts, base)
      PROVE  c.env = env /\ (~c.refused => Missing(env, texts) = {})
  BY <1>3 DEF Prepared
<1>4. /\ \E base \in Bases : c.env = Finalized(Given, base)
      /\ ~c.refused => Missing(c.env, Data.texts) = {}
  <2>1. CASE c = RunPrepared(Data)
    <3> DEFINE env == Finalized(Given, RunBase(Data))
    <3>1. c = Prepared(env, Data.texts,
                       IF Blank(ServerOf(env)) THEN RunBase(Data) ELSE ServerOf(env))
      BY <2>1 DEF RunPrepared, Given
    <3> HIDE DEF env
    <3>2. c.env = env /\ (~c.refused => Missing(env, Data.texts) = {})
      BY <1>3, <3>1
    <3> QED
      BY <3>2 DEF env, Bases
  <2>2. CASE c = TestPrepared(Data)
    <3> DEFINE env == Finalized(Given, TestBase(Data))
    <3>1. c = Prepared(env, Data.texts,
                       IF HasHost(ServerOf(env)) THEN ServerOf(env) ELSE TestBase(Data))
      BY <2>2 DEF TestPrepared, Given
    <3> HIDE DEF env
    <3>2. c.env = env /\ (~c.refused => Missing(env, Data.texts) = {})
      BY <1>3, <3>1
    <3> QED
      BY <3>2 DEF env, Bases
  <2> QED
    BY <1>2, <2>1, <2>2 DEF Contextual
<1> QED
  BY <1>1, <1>2, <1>4, DocumentTyped DEF Given, Bases

\* With these the expansion ends because nothing is left to fill in.
Settles == \A base \in Bases : Stable(Complete(Given, base), Keys)

LEMMA MeaningIs == \A v, env : Meaning(v, env) = Substituted(v, env)
  BY DEF Meaning, Substituted, Filled

LEMMA SettledIsConsistent ==
  ASSUME IInv, ContextInv, AllDone => Settles
  PROVE  ExpansionIsConsistent
<1> SUFFICES ASSUME AllDone, NEW c \in {TheRun, TheTest},
                    NEW k \in Keys \ (Encodings \cup {"server", "base_url"}),
                    \A p \in Holes(Given[k]) : Steady(p, k, Given)
             PROVE  c.env[k] = Meaning(Given[k], c.env)
  BY DEF ExpansionIsConsistent, Steady
<1>1. PICK base \in Bases : c.env = Finalized(Given, base)
  BY ContextIs
<1>2. Given \in Env /\ base \in Seq(Part) /\ Stable(Complete(Given, base), Keys)
  BY ContextIs DEF Settles
<1>3. Finalized(Given, base)[k] = Substituted(Given[k], Finalized(Given, base))
  BY <1>2, FinalizedMeans
<1> QED
  BY <1>1, <1>3, MeaningIs

--------------------------------------------------------------------------------
(***************************************************************************)
(* What the web application promises.                                      *)
(***************************************************************************)
\* The values every variable ranges over, whatever the scenario, the answers of
\* the API and the requests of the page: test_step, test_sequence and
\* preview_step name a step that is there, and each is answered once.
THEOREM TypeCorrect == Spec => []TypeOK
<1>1. IInv => TypeOK
  BY DEF IInv
<1> QED
  BY <1>1, Invariance, PTL

\* test_step and test_sequence leave after each step the variables a worker
\* leaves after it (run_step), for scenarios of any length and any number of
\* requests.  Where a redirect is not followed the second apply_save brings what
\* the URL that was asked for has, whether or not that redirected to has as much.
THEOREM TestsFollowTheRun == Spec => []TestsLeaveWhatTheRunLeaves
<1>1. IInv => TestsLeaveWhatTheRunLeaves
  <2> SUFFICES ASSUME IInv, AllDone, NEW n \in Tests,
                      NEW k \in DOMAIN history[n] \cap DOMAIN history[Len(history)]
               PROVE  Alike(history[n][k], RunAt(k))
    BY DEF TestsLeaveWhatTheRunLeaves, Alike, AlikeAt
  <2>1. Running /\ pc # "received" /\ now = RunNumber /\ Len(history) = now
    BY Places DEF IInv, TypeOK, AllDone
  <2>2. n \in Lines \ {now}
    BY <2>1, Places DEF Tests, Lines, IInv, RunNumber
  <2> QED
    BY <2>1, <2>2 DEF IInv, AlikeInv, RunAt
<1> QED
  BY <1>1, Invariance, PTL

\* A step that test_step answers as blocked is one the run does not reach: what
\* fails before it and has stop_on_failure ends the worker's loop, too.
THEOREM BlockedStepsAreUnreached == Spec => []BlockedMeansUnreached
<1>1. IInv => BlockedMeansUnreached
  <2> SUFFICES ASSUME IInv, AllDone, NEW n \in Tests, results[n].status = "blocked",
                      Reached(case.requests[n].step)
               PROVE  FALSE
    BY DEF BlockedMeansUnreached
  <2>1. Running /\ pc = "over" /\ Len(results) = now /\ now = RunNumber /\ results \in Seq(Result)
    BY Places DEF IInv, TypeOK, AllDone
  <2>2. n \in DOMAIN results
    BY <2>1, Places DEF Tests, IInv, RunNumber
  <2>3. FailsBefore(case.requests[n].step)
    BY <2>2 DEF IInv, BlockedInv
  <2>4. /\ executed = 1 .. at - 1 /\ at \in Nat \ {0} /\ case.requests[n].step \in executed
        /\ \A i \in executed : Succeeds(i) \/ ~StopsWorker(i) \/ i = at - 1
    BY <2>1 DEF IInv, RunInv, Reached, TypeOK
  <2>5. PICK i \in DOMAIN Steps : /\ i < case.requests[n].step /\ ~Succeeds(i)
                                  /\ Steps[i].stop = "true"
    BY <2>3 DEF FailsBefore
  <2>6. StopsWorker(i)
    BY <2>5 DEF StopsWorker
  <2>7. i \in Nat \ {0}
    BY Places DEF IInv
  <2> QED
    BY <2>4, <2>5, <2>6, <2>7
<1> QED
  BY <1>1, Invariance, PTL

\* A preview of a step for which the page sent every value the step needs calls
\* neither the API nor a program, in every scenario that writes each variable
\* once, before it is read: the PREPARE steps that preview_step_request repeats
\* take no value away.
THEOREM PreviewsStayQuiet == Spec => []PreviewsAreQuiet
<1>1. IInv /\ JInv => PreviewsAreQuiet
  <2> SUFFICES ASSUME IInv, JInv, AllDone, Straight, NEW n \in Previews,
                      Unresolved(Steps[case.requests[n].step], history[n][1]) = {}
               PROVE  \A i \in results[n].executed : Steps[i].method = "PREPARE"
    BY DEF PreviewsAreQuiet
  <2>1. n \in DOMAIN results
    BY AnsweredPreviews
  <2>2. Lacks(n, Sent(n)) = {}
    BY <2>1 DEF Lacks, Sent, Shown
  <2>3. Quiet(n, Sent(n), results[n].vars, results[n].executed)
    BY <2>1 DEF JInv, ShowInv
  <2> QED
    BY <2>2, <2>3 DEF Quiet
<1> QED
  BY <1>1, ShownInvariance, PTL

\* A preview that has what the step needs, from the page or from the steps before
\* it, shows the step with the values a run sends it with, in every scenario that
\* writes each variable once, before it is read, and whatever the page asked for
\* before: preview_step_request repeats of run_worker what matters to the step.
\* It may differ by what a test has where a redirect is not followed, by what was
\* made of the default of a prepare action, and where missing_var_tokens does not
\* ask for a variable.
THEOREM PreviewsShowTheRun == Spec => []PreviewShowsWhatTheRunSends
<1>1. IInv /\ JInv => PreviewShowsWhatTheRunSends
  <2> SUFFICES ASSUME IInv, JInv, AllDone, Straight, NEW n \in Previews,
                      Reached(Shown(n)), Informed(n), NEW v \in Steps[Shown(n)].uses,
                      NEW r, r = Made(Steps[Shown(n)].prepare, Shown(n), RunAt(Shown(n)))
               PROVE  LET w == results[n].vars[v] IN
                      \/ w \in {r[v], AskedFor(r[v])}
                      \/ Extra(w) \/ w.kind = "default"
                      \/ NoValue(w) /\ (NoValue(r[v]) \/ v \in Steps[Shown(n)].spared)
    BY DEF PreviewShowsWhatTheRunSends, Shown
  <2> DEFINE i == Shown(n)
             x == results[n].vars
  <2>1. /\ ScenarioFits /\ n \in DOMAIN results /\ i \in DOMAIN Steps
        /\ x \in Valuation /\ Stands(x) /\ Served(n, x, Place(n))
        /\ Quiet(n, Sent(n), x, results[n].executed)
    <3>1. ScenarioFits /\ results \in Seq(Result) /\ n \in DOMAIN results /\ i \in DOMAIN Steps
      BY AnsweredPreviews DEF IInv, TypeOK
    <3>2. results[n] \in Result
      BY <3>1
    <3> QED
      BY <3>1, <3>2 DEF Result, JInv, StandInv, ShowInv
  <2>2. RunAt(i) \in Valuation /\ RunStands(RunAt(i), i)
    BY <2>1, ReachedStands
  <2>3. /\ r \in Valuation /\ Stands(r) /\ Followed(r)
        /\ \A q \in Spots : \/ q[1] < i /\ Supplies(TRUE, RunAt(i), q[1], q[2])
                            \/ q[1] = i /\ q[2] <= Len(Steps[i].prepare)
                            => Supplies(TRUE, r, q[1], q[2])
    BY <2>1, <2>2, MadeWrites DEF RunStands
  <2>4. Supplied(TRUE, r, Place(n))
    BY <2>1, <2>2, <2>3, SuppliedToPlace DEF RunStands
  <2>5. /\ v \in Vars /\ Place(n) \in Spots /\ v \in ReadsAt(Place(n)[1], Place(n)[2])
        /\ (Lacks(n, x) = {} => ~NoValue(x[v]) \/ v \in Steps[i].spared)
    BY <2>1, PlaceReads
  <2>6. CASE NoValue(x[v])
    <3>1. Lacks(n, x) = {} \/ Supplied(FALSE, x, Place(n))
      BY <2>1 DEF Informed, Quiet, Served, Hydrates, Lacks, Sent, Shown
    <3>2. CASE Lacks(n, x) = {}
      BY <2>5, <2>6, <3>2
    <3>3. CASE Supplied(FALSE, x, Place(n))
      <4>1. ~NoValue(r[v]) => ~NoValue(x[v])
        BY <2>1, <2>3, <2>4, <2>5, <3>3, ValuesFollow DEF Supplied
      <4> QED
        BY <2>6, <4>1
    <3> QED
      BY <3>1, <3>2, <3>3
  <2>7. CASE ~NoValue(x[v]) /\ ~Extra(x[v]) /\ x[v].kind # "default"
    <3>1. AskedFor(x[v]) = AskedFor(r[v])
      BY <2>1, <2>3, <2>4, <2>5, <2>7, ValuesAgree DEF Supplied
    <3>2. x[v] \in Val /\ r[v] \in Val /\ Final(x[v]) /\ FollowedAt(r[v])
      BY <2>1, <2>3, <2>5 DEF Valuation, Stands, Followed
    <3> QED
      BY <3>1, <3>2, ShownValue
  <2> QED
    BY <2>6, <2>7
<1> QED
  BY <1>1, ShownInvariance, PTL

\* What the check for missing values lets through is rendered without a gap, for
\* any documents, overrides and texts, also with values inside of others, where
\* a use is written the way its value is stored: finalize_environment_values leaves
\* a value without a placeholder known or blank, a blank takes the default of the
\* use, and a use without one is what missing_environment_dependencies looks at.
THEOREM NothingIsRenderedBlank == Spec => []NothingRendersBlank
<1>1. IInv /\ ContextInv => NothingRendersBlank
  <2> SUFFICES ASSUME IInv, ContextInv, AllDone, NEW c \in {TheRun, TheTest}, ~c.refused,
                      NEW v \in Data.texts, NEW p \in Holes(v), p.name \notin ConnKeys,
                      ~(p.way = "bare" /\ p.name \in Nested), ~(p.way = "path" /\ p.name \in Dotted),
                      p.default # None => Holes(Given[p.name]) = {}
               PROVE  Concrete(Rendered(p, c.env)) \/ Rendered(p, c.env) = p.default
    BY DEF NothingRendersBlank
  <2>1. /\ Given \in Env /\ Bases \subseteq Seq(Part) /\ v \in Seq(Part)
        /\ Missing(c.env, Data.texts) = {}
    BY ContextIs
  <2>2. PICK base \in Bases : c.env = Finalized(Given, base)
    BY ContextIs
  <2>3. p.name \in Keys \ {"server", "base_url"}
    BY <2>1, ValueParts DEF ConnKeys
  <2>4. Found(p, c.env) = c.env[p.name]
    <3>1. p \in Part /\ p.kind = "env"
      BY <2>1, ValueParts
    <3>2. p.way \in {"bare", "path"}
      BY <3>1, PartKinds
    <3> QED
      BY <3>2 DEF Found
  <2>5. CASE p.default = None
    <3>1. Concrete(c.env[p.name])
      BY <2>1, <2>3, <2>5 DEF Missing
    <3> QED
      BY <2>4, <3>1 DEF Rendered, Concrete
  <2>6. CASE p.default # None
    <3>1. PICK k \in Keys \ {"server", "base_url"} : k = p.name /\ Holes(Given[k]) = {}
      BY <2>3, <2>6
    <3>2. base \in Seq(Part)
      BY <2>1
    <3>3. Blank(Finalized(Given, base)[k]) \/ Concrete(Finalized(Given, base)[k])
      BY <2>1, <3>1, <3>2, FinalizedKnown
    <3> QED
      BY <2>2, <2>4, <2>6, <3>1, <3>3 DEF Rendered
  <2> QED
    BY <2>5, <2>6
<1> QED
  BY <1>1, ContextInvariance, PTL

\* Whenever expand_environment_values ends because nothing is left to fill in, and
\* not because it has substituted MaxPasses times, every name has its value with
\* the final values of the names it refers to, in a run and in a test.
THEOREM SettledExpansions == Spec => [](Settles => ExpansionIsConsistent)
<1>1. IInv /\ ContextInv => (Settles => ExpansionIsConsistent)
  BY SettledIsConsistent
<1> QED
  BY <1>1, ContextInvariance, PTL

\* And it always ends so when there are no more names than passes, even with names
\* that refer to one another in a circle: each pass but the last makes a value known.
THEOREM FewNamesAreConsistent ==
  ASSUME IsFiniteSet(Keys), Cardinality(Keys) <= MaxPasses
  PROVE  Spec => []ExpansionIsConsistent
<1>1. IInv /\ ContextInv => ExpansionIsConsistent
  <2> SUFFICES ASSUME IInv, ContextInv, AllDone PROVE Settles
    BY SettledIsConsistent
  <2> SUFFICES ASSUME NEW base \in Bases PROVE Stable(Complete(Given, base), Keys)
    BY DEF Settles
  <2>1. Given \in Env /\ base \in Seq(Part)
    <3>1. TheRun \in {TheRun, TheTest}
      OBVIOUS
    <3> QED
      BY <3>1, ContextIs
  <2>2. Brought(Given, base) \in Env
    BY <2>1, CompleteKeeps
  <2> QED
    BY <2>2, FewNamesSettle DEF Complete
<1> QED
  BY <1>1, ContextInvariance, PTL

\* With a host that is known from the start, a usable one among the connection
\* keys, or else that of the page, or else the base URL of a scenario that names no
\* other, a test of steps is prepared as the run is, to the last value: it calls
\* the same host and is refused for the same reasons.
THEOREM KnownHostsAreCalled ==
  Spec => [](Known(Data) => TestCallsWhatTheRunCalls /\ (AllDone => TheTest = TheRun))
<1>1. IInv /\ ContextInv
        => (Known(Data) => TestCallsWhatTheRunCalls /\ (AllDone => TheTest = TheRun))
  <2> SUFFICES ASSUME IInv, ContextInv, Known(Data), AllDone PROVE TheTest = TheRun
    BY DEF TestCallsWhatTheRunCalls
  <2>1. Data \in Document /\ TheTest \in Contextual /\ TheRun \in Contextual
    BY ContextIs
  <2> QED
    BY <2>1, KnownHost DEF Contextual
<1> QED
  BY <1>1, ContextInvariance, PTL
================================================================================
