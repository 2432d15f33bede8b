-------------------------- MODULE CollectionRunProofs --------------------------
(***************************************************************************)
(* Proofs about CollectionRun, for any plans and any variables: its type   *)
(* invariant, the order and completeness of the results, where the values  *)
(* a member reads come from, and what "completed" means.                   *)
(*                                                                         *)
(* The inductive invariant joins to the type invariant what the loop of    *)
(* main keeps: results are those of the first members, skip_remaining says *)
(* whether one of them broke the collection, every exported variable comes *)
(* from a result, and what each exit code implies.                         *)
(***************************************************************************)
EXTENDS CollectionRun, SequenceTheorems, TLAPS

\* skip_remaining is set exactly when an earlier member broke the collection.
SkipIsRight == skip <=> \E i \in 1..Len(results) : Breaks(i)

\* Only a member that ran and exports something is the source of a variable.
SourcesExist ==
  \A v \in Vars : source[v] # 0 =>
    /\ source[v] \in 1..Len(results)
    /\ results[source[v]].ran
    /\ plan.members[source[v]].exports # {}

\* Behind a skip is a member that was executed and did not pass.
SkipHasCause ==
  skip => \E i \in 1..Len(results) : results[i].ran /\ ~Passed(results[i].totals)

\* A member is executed only where the loop stands, and only without a skip.
RunningIsDue == phase = "running" => ~skip /\ current \in Members

\* A skipped member counts as a failure.
SkippedFails ==
  \A i \in 1..Len(results) : ~results[i].ran => results[i].totals = {"failure"}

\* What the existence of scenario.json and the exit codes say.
ExitIsRight ==
  /\ phase = "loading" => current = 1
  /\ phase \in {"loading", "members", "running"} => ~written /\ status = "none"
  /\ phase = "exited" => status = "none"
  /\ written => Len(results) = Len(plan.members)
  /\ written /\ plan.strict /\ code = 0 => Passed(Overall)
  /\ plan.strict /\ status \in {"zero", "completed"} => written /\ code = 0
  /\ status \in {"nonzero", "completed_with_errors"} =>
       plan.strict /\ (~written \/ code # 0)
  /\ written /\ code # 0 => ~Passed(Overall)
  /\ phase \in {"exited", "scripted", "answered"} /\ ~written =>
       Len(results) < Len(plan.members) \/ Len(results) = 0
  /\ phase = "scripted" => status \in {"zero", "nonzero"}

IInv ==
  /\ TypeOK
  /\ ResultsAreInOrder
  /\ SkipIsRight
  /\ SkipHasCause
  /\ SourcesExist
  /\ RunningIsDue
  /\ SkippedFails
  /\ ExitIsRight

--------------------------------------------------------------------------------
\* Appending a result leaves the earlier ones as they are.
LEMMA AppendResult ==
  ASSUME NEW S, NEW s \in Seq(S), NEW e \in S
  PROVE  /\ Append(s, e) \in Seq(S)
         /\ Len(Append(s, e)) = Len(s) + 1
         /\ Append(s, e)[Len(s) + 1] = e
         /\ \A i \in 1..Len(s) : Append(s, e)[i] = s[i]
  BY AppendProperties

\* A plan is well formed.
LEMMA PlanType ==
  ASSUME plan \in Plans
  PROVE  /\ plan.members \in Seq(Member)
         /\ Len(plan.members) \in Nat
         /\ plan.suite \in BOOLEAN
         /\ plan.strict \in BOOLEAN
         /\ plan.given \in SUBSET Vars
         /\ ~plan.suite => Len(plan.members) = 1
  <1>1. plan \in Plan
    BY PlansAssumption
  <1>2. plan.members \in Seq(Member) /\ plan.suite \in BOOLEAN
        /\ plan.strict \in BOOLEAN /\ plan.given \in SUBSET Vars
    BY <1>1 DEF Plan
  <1>3. Len(plan.members) \in Nat
    BY <1>2, LenProperties
  <1>4. ~plan.suite => Len(plan.members) = 1
    BY PlansAssumption
  <1> QED BY <1>2, <1>3, <1>4

LEMMA InitIInv == Init => IInv
  <1> SUFFICES ASSUME Init PROVE IInv
    OBVIOUS
  <1>1. plan \in Plans /\ Len(plan.members) \in Nat /\ plan.given \in SUBSET Vars
    BY PlanType DEF Init
  <1>2. TypeOK
    <2>1. results \in Seq(Result) /\ source \in [Vars -> Nat]
      BY DEF Init
    <2>2. bound \in SUBSET Vars /\ late \in SUBSET Nat
      BY <1>1 DEF Init
    <2>3. current \in Nat \ {0} /\ code \in {0, 1}
      BY DEF Init
    <2>5. skip \in BOOLEAN /\ written \in BOOLEAN
      BY DEF Init
    <2>4. /\ phase \in {"loading", "members", "running", "exited", "scripted", "answered"}
          /\ status \in {"none", "zero", "nonzero", "completed", "completed_with_errors"}
      BY DEF Init
    <2> QED BY <1>1, <2>1, <2>2, <2>3, <2>4, <2>5 DEF TypeOK
  <1>3. ResultsAreInOrder
    BY <1>1 DEF Init, ResultsAreInOrder
  <1>4. SkipIsRight /\ SkipHasCause /\ SourcesExist /\ RunningIsDue /\ SkippedFails
        /\ ExitIsRight
    BY DEF Init, SkipIsRight, SkipHasCause, SourcesExist, RunningIsDue, SkippedFails, ExitIsRight
  <1> QED BY <1>2, <1>3, <1>4 DEF IInv

--------------------------------------------------------------------------------
\* A step that leaves the plan, the results and the loop alone keeps what is
\* said about them.
LEMMA LoopFrame ==
  ASSUME IInv, UNCHANGED <<plan, current, source, skip, results>>
  PROVE  ResultsAreInOrder' /\ SkipIsRight' /\ SkipHasCause' /\ SourcesExist'
         /\ SkippedFails'
  BY DEF IInv, ResultsAreInOrder, SkipIsRight, SkipHasCause, SourcesExist,
         SkippedFails, Breaks, Passed

\* The end of the runner without a report.
LEMMA DiesIInv ==
  ASSUME IInv, phase \in {"loading", "members", "running"}, Dies,
         current \in Members \/ phase = "loading"
  PROVE  IInv'
  <1>0. Len(results) < Len(plan.members) \/ Len(results) = 0
    <2>1. plan \in Plans /\ Len(results) = current - 1 /\ current \in Nat \ {0}
          /\ (phase = "loading" => current = 1)
      BY DEF IInv, TypeOK, ResultsAreInOrder, ExitIsRight
    <2>2. Len(plan.members) \in Nat
      BY <2>1, PlanType
    <2> QED BY <2>1, <2>2 DEF Members
  <1>1. TypeOK'
    BY DEF IInv, TypeOK, Dies
  <1>2. RunningIsDue' /\ ExitIsRight'
    BY <1>0 DEF IInv, Dies, RunningIsDue, ExitIsRight
  <1>3. UNCHANGED <<plan, current, source, skip, results>>
    BY DEF Dies
  <1> QED BY <1>1, <1>2, <1>3, LoopFrame DEF IInv

\* A result is appended for the current member, that ran or was skipped.
LEMMA ResultIInv ==
  ASSUME IInv, NEW r \in Result,
         current \in Members,
         results' = Append(results, r),
         current' = current + 1,
         plan' = plan,
         r.ran <=> ~skip,
         ~r.ran => r.totals = {"failure"}
  PROVE  /\ results' \in Seq(Result)
         /\ ResultsAreInOrder'
         /\ SkippedFails'
         /\ \A i \in 1..Len(results) : Breaks(i)' <=> Breaks(i)
         /\ Len(results') = current
         /\ results'[current] = r
         /\ \A i \in 1..Len(results) : results'[i] = results[i]
  <1>0. results \in Seq(Result) /\ current \in Nat \ {0} /\ plan \in Plans
    BY DEF IInv, TypeOK
  <1>1. Len(results) = current - 1
    BY DEF IInv, ResultsAreInOrder
  <1>2. results' \in Seq(Result) /\ Len(results') = current /\ results'[current] = r
        /\ \A i \in 1..Len(results) : results'[i] = results[i]
    BY <1>0, <1>1, AppendResult
  <1>3. \A i \in 1..Len(results) : Breaks(i)' <=> Breaks(i)
    BY <1>2 DEF Breaks
  <1>4. SkippedFails'
    <2> SUFFICES ASSUME NEW i \in 1..Len(results'), ~results'[i].ran
                 PROVE  results'[i].totals = {"failure"}
      BY DEF SkippedFails
    <2>1. i \in 1..Len(results) \/ i = current
      BY <1>0, <1>1, <1>2
    <2> QED BY <2>1, <1>2 DEF IInv, SkippedFails
  <1>5. ResultsAreInOrder'
    <2>1. Len(results') = current' - 1 /\ current' <= Len(plan'.members) + 1
      BY <1>0, <1>2, PlanType DEF Members
    <2>2. ASSUME NEW i \in 1..Len(results')
          PROVE  results'[i].ran <=> \A j \in 1..(i - 1) : ~Breaks(j)'
      <3>1. CASE i \in 1..Len(results)
        <4>1. \A j \in 1..(i - 1) : j \in 1..Len(results)
          BY <3>1, <1>0, <1>1
        <4>2. results[i].ran <=> \A j \in 1..(i - 1) : ~Breaks(j)
          BY <3>1 DEF IInv, ResultsAreInOrder
        <4> QED BY <3>1, <4>1, <4>2, <1>2, <1>3
      <3>2. CASE i = current
        <4>1. 1..(i - 1) = 1..Len(results)
          BY <3>2, <1>0, <1>1
        <4>2. skip <=> \E j \in 1..Len(results) : Breaks(j)
          BY DEF IInv, SkipIsRight
        <4> QED BY <3>2, <4>1, <4>2, <1>2, <1>3
      <3> QED BY <3>1, <3>2, <1>0, <1>1, <1>2
    <2> QED BY <2>1, <2>2 DEF ResultsAreInOrder
  <1> QED BY <1>2, <1>3, <1>4, <1>5

LEMMA SkipMemberIInv ==
  ASSUME IInv, SkipMember PROVE IInv'
  <1> DEFINE r == Skipped
  <1>0. results \in Seq(Result) /\ current \in Nat \ {0} /\ plan \in Plans
        /\ source \in [Vars -> Nat]
    BY DEF IInv, TypeOK
  <1>1. /\ r \in Result
        /\ current \in Members
        /\ results' = Append(results, r)
        /\ current' = current + 1
        /\ plan' = plan
        /\ r.ran <=> ~skip
        /\ ~r.ran => r.totals = {"failure"}
    BY DEF SkipMember, Skipped, Result, Kinds
  <1> HIDE DEF r
  <1>2. /\ results' \in Seq(Result)
        /\ ResultsAreInOrder'
        /\ SkippedFails'
        /\ \A i \in 1..Len(results) : Breaks(i)' <=> Breaks(i)
        /\ Len(results') = current
        /\ \A i \in 1..Len(results) : results'[i] = results[i]
    BY <1>1, ResultIInv
  <1>3. TypeOK'
    BY <1>0, <1>2 DEF SkipMember, IInv, TypeOK
  <1>4. Len(results) = current - 1
    BY DEF IInv, ResultsAreInOrder
  <1>5. \A i \in 1..Len(results) : i \in 1..Len(results')
    BY <1>0, <1>2, <1>4
  <1>6. SkipIsRight'
    <2>1. skip /\ skip'
      BY DEF SkipMember
    <2>2. PICK i \in 1..Len(results) : Breaks(i)
      BY <2>1 DEF IInv, SkipIsRight
    <2>3. Breaks(i)' /\ i \in 1..Len(results')
      BY <2>2, <1>2, <1>5
    <2> QED BY <2>1, <2>3 DEF SkipIsRight
  <1>9. SkipHasCause'
    BY <1>2, <1>5 DEF SkipMember, IInv, SkipHasCause
  <1>7. SourcesExist'
    BY <1>2, <1>5 DEF SkipMember, IInv, SourcesExist
  <1>8. RunningIsDue' /\ ExitIsRight'
    BY DEF SkipMember, IInv, RunningIsDue, ExitIsRight
  <1> QED BY <1>2, <1>3, <1>6, <1>7, <1>8, <1>9 DEF IInv

LEMMA MemberReturnsIInv ==
  ASSUME IInv, MemberReturns PROVE IInv'
  <1>0. results \in Seq(Result) /\ current \in Nat \ {0} /\ plan \in Plans
        /\ source \in [Vars -> Nat] /\ bound \in SUBSET Vars /\ late \in SUBSET Nat
    BY DEF IInv, TypeOK
  <1>00. phase = "running" /\ ~skip /\ current \in Members
    BY DEF MemberReturns, IInv, RunningIsDue
  <1>1. PICK end \in Ends, totals \in SUBSET Kinds, saved \in SUBSET Vars :
           /\ results' = Append(results, [totals |-> totals, ran |-> TRUE])
           /\ bound' = bound \cup (saved \cap This.exports)
           /\ source' = [v \in Vars |-> IF v \in saved \cap This.exports
                                        THEN current ELSE source[v]]
           /\ skip' = SkipsRest(This, totals)
           /\ late' = IF end = "late" THEN late \cup {current} ELSE late
    BY DEF MemberReturns
  <1> DEFINE r == [totals |-> totals, ran |-> TRUE]
  <1>2. /\ r \in Result
        /\ results' = Append(results, r)
        /\ r.ran <=> ~skip
        /\ r.ran
        /\ r.totals = totals
    BY <1>1, <1>00 DEF Result
  <1>3. current' = current + 1 /\ plan' = plan /\ phase' = "members"
        /\ UNCHANGED <<written, code, status>>
    BY DEF MemberReturns
  <1> HIDE DEF r
  <1>4. /\ results' \in Seq(Result)
        /\ ResultsAreInOrder'
        /\ SkippedFails'
        /\ \A i \in 1..Len(results) : Breaks(i)' <=> Breaks(i)
        /\ Len(results') = current
        /\ results'[current] = r
        /\ \A i \in 1..Len(results) : results'[i] = results[i]
    BY <1>00, <1>2, <1>3, ResultIInv
  <1>5. Len(results) = current - 1
    BY DEF IInv, ResultsAreInOrder
  <1>6. 1..Len(results') = 1..Len(results) \cup {current}
    BY <1>0, <1>4, <1>5
  <1>7. PICK k \in Nat : k = current
    BY <1>0
  <1>8. SkipIsRight'
    <2>1. \A i \in 1..Len(results) : ~Breaks(i)'
      BY <1>00, <1>4 DEF IInv, SkipIsRight
    <2>2. k \in 1..Len(results') /\ results'[k].totals = totals /\ plan' = plan
      BY <1>2, <1>3, <1>4, <1>6, <1>7
    <2>3. skip' <=> Breaks(k)'
      BY <2>2, <1>1, <1>7 DEF SkipsRest, This, Breaks
    <2>4. ASSUME NEW i \in 1..Len(results'), Breaks(i)' PROVE i = k
      BY <2>1, <2>4, <1>6, <1>7
    <2>5. (\E i \in 1..Len(results') : Breaks(i)') <=> Breaks(k)'
      BY <2>2, <2>4
    <2> QED BY <2>3, <2>5 DEF SkipIsRight
  <1>12. SkipHasCause'
    <2> SUFFICES ASSUME skip'
                 PROVE  k \in 1..Len(results') /\ results'[k].ran
                        /\ ~Passed(results'[k].totals)
      BY DEF SkipHasCause
    <2> QED BY <1>1, <1>2, <1>4, <1>6, <1>7 DEF SkipsRest
  <1>9. SourcesExist'
    <2> SUFFICES ASSUME NEW v \in Vars, source'[v] # 0
                 PROVE  /\ source'[v] \in 1..Len(results')
                        /\ results'[source'[v]].ran
                        /\ plan'.members[source'[v]].exports # {}
      BY DEF SourcesExist
    <2>1. CASE v \in saved \cap This.exports
      <3>1. source'[v] = current
        BY <2>1, <1>1
      <3> QED BY <3>1, <2>1, <1>2, <1>3, <1>4, <1>6 DEF This
    <2>2. CASE v \notin saved \cap This.exports
      <3>1. source'[v] = source[v]
        BY <2>2, <1>1
      <3> QED BY <3>1, <1>3, <1>4, <1>6 DEF IInv, SourcesExist
    <2> QED BY <2>1, <2>2
  <1>10. TypeOK'
    <2>1. bound' \in SUBSET Vars /\ source' \in [Vars -> Nat] /\ late' \in SUBSET Nat
      BY <1>0, <1>1
    <2>2. skip' \in BOOLEAN
      BY <1>1 DEF SkipsRest
    <2>3. current' \in Nat \ {0}
      BY <1>0, <1>3
    <2> QED BY <2>1, <2>2, <2>3, <1>3, <1>4 DEF IInv, TypeOK
  <1>11. RunningIsDue' /\ ExitIsRight'
    BY <1>3, <1>00 DEF IInv, RunningIsDue, ExitIsRight
  <1> QED BY <1>4, <1>8, <1>9, <1>10, <1>11, <1>12 DEF IInv

--------------------------------------------------------------------------------
LEMMA NextIInv == IInv /\ [Next]_vars => IInv'
  <1> SUFFICES ASSUME IInv, [Next]_vars PROVE IInv'
    OBVIOUS
  <1>0. plan \in Plans /\ Len(plan.members) \in Nat
    BY PlanType DEF IInv, TypeOK
  <1>1. CASE Load
    <2>1. TypeOK' /\ RunningIsDue' /\ ExitIsRight'
      BY <1>1 DEF Load, IInv, TypeOK, RunningIsDue, ExitIsRight
    <2> QED BY <2>1, <1>1, LoopFrame DEF Load, IInv
  <1>2. CASE LoadFails
    BY <1>2, DiesIInv DEF LoadFails
  <1>3. CASE SkipMember
    BY <1>3, SkipMemberIInv
  <1>4. CASE StartMember
    <2>1. TypeOK' /\ ExitIsRight'
      BY <1>4 DEF StartMember, IInv, TypeOK, ExitIsRight
    <2>2. RunningIsDue'
      BY <1>4 DEF StartMember, RunningIsDue, Members
    <2> QED BY <2>1, <2>2, <1>4, LoopFrame DEF StartMember, IInv
  <1>5. CASE RefuseMember
    BY <1>5, DiesIInv DEF RefuseMember
  <1>6. CASE MemberReturns
    BY <1>6, MemberReturnsIInv
  <1>7. CASE MemberRaises
    BY <1>7, DiesIInv DEF MemberRaises, IInv, RunningIsDue
  <1>8. CASE Write
    <2>1. TypeOK' /\ RunningIsDue'
      BY <1>8 DEF Write, IInv, TypeOK, RunningIsDue, ExitCode
    <2>2. Len(results) = Len(plan.members)
      <3>1. current \in Nat \ {0} /\ current \notin 1..Len(plan.members)
        BY <1>8 DEF Write, IInv, TypeOK, Members
      <3>2. Len(results) = current - 1 /\ current <= Len(plan.members) + 1
        BY DEF IInv, ResultsAreInOrder
      <3> QED BY <3>1, <3>2, <1>0
    <2>3. /\ plan.strict /\ code' = 0 => Passed(Overall)
          /\ code' # 0 => ~Passed(Overall)
      BY <1>8 DEF Write, ExitCode
    <2>4. Overall' = Overall
      BY <1>8 DEF Write, Overall
    <2>5. ExitIsRight'
      BY <1>8, <2>2, <2>3, <2>4 DEF Write, IInv, ExitIsRight, Passed
    <2> QED BY <2>1, <2>5, <1>8, LoopFrame DEF Write, IInv
  <1>9. CASE Script
    <2>1. Overall' = Overall
      BY <1>9 DEF Script, Overall
    <2>2. TypeOK' /\ RunningIsDue'
      BY <1>9 DEF Script, IInv, TypeOK, RunningIsDue, ScriptCode
    <2>3. ExitIsRight'
      BY <1>9, <2>1 DEF Script, IInv, ExitIsRight, ScriptCode, Passed
    <2> QED BY <2>2, <2>3, <1>9, LoopFrame DEF Script, IInv
  <1>10. CASE Answer
    <2>1. Overall' = Overall
      BY <1>10 DEF Answer, Overall
    <2>2. TypeOK' /\ RunningIsDue'
      BY <1>10 DEF Answer, IInv, TypeOK, RunningIsDue
    <2>3. ExitIsRight'
      BY <1>10, <2>1 DEF Answer, IInv, ExitIsRight, Passed
    <2> QED BY <2>2, <2>3, <1>10, LoopFrame DEF Answer, IInv
  <1>11. CASE LateEnds
    <2>1. Overall' = Overall
      BY <1>11 DEF LateEnds, Overall
    <2>2. TypeOK'
      BY <1>11 DEF LateEnds, IInv, TypeOK
    <2>3. RunningIsDue' /\ ExitIsRight'
      BY <1>11, <2>1 DEF LateEnds, IInv, RunningIsDue, ExitIsRight, Members, Passed
    <2> QED BY <2>2, <2>3, <1>11, LoopFrame DEF LateEnds, IInv
  <1>12. CASE UNCHANGED vars
    <2>1. Overall' = Overall
      BY <1>12 DEF vars, Overall
    <2>2. TypeOK' /\ RunningIsDue' /\ ExitIsRight'
      BY <1>12, <2>1 DEF vars, IInv, TypeOK, RunningIsDue, ExitIsRight, Members, Passed
    <2> QED BY <2>2, <1>12, LoopFrame DEF vars, IInv
  <1> QED
    BY <1>1, <1>2, <1>3, <1>4, <1>5, <1>6, <1>7, <1>8, <1>9, <1>10, <1>11, <1>12
    DEF Next, Step, Over

THEOREM Invariance == Spec => []IInv
  BY InitIInv, NextIInv, PTL DEF Spec

--------------------------------------------------------------------------------
\* Type correctness, for any plans.
THEOREM TypeCorrect == Spec => []TypeOK
  <1>1. IInv => TypeOK
    BY DEF IInv
  <1> QED BY <1>1, Invariance, PTL

\* Results come in order, one per member, and the rest is skipped exactly
\* after an exporting member that did not pass.
THEOREM OrderIsKept == Spec => []ResultsAreInOrder
  <1>1. IInv => ResultsAreInOrder
    BY DEF IInv
  <1> QED BY <1>1, Invariance, PTL

\* No member runs with a value exported by a member that failed.
THEOREM ExportsAreTrusted == Spec => []NoValueFromAFailedMember
  <1>1. IInv => NoValueFromAFailedMember
    <2> SUFFICES ASSUME IInv, phase = "running", NEW v \in bound, source[v] # 0
                 PROVE  /\ source[v] < current
                        /\ results[source[v]].ran
                        /\ Passed(results[source[v]].totals)
      BY DEF NoValueFromAFailedMember
    <2>0. plan \in Plans /\ current \in Nat \ {0} /\ v \in Vars
          /\ Len(results) = current - 1
      BY DEF IInv, TypeOK, ResultsAreInOrder
    <2>1. ~skip /\ current \in 1..Len(plan.members)
      BY DEF IInv, RunningIsDue, Members
    <2>2. /\ source[v] \in 1..Len(results)
          /\ results[source[v]].ran
          /\ plan.members[source[v]].exports # {}
      BY <2>0 DEF IInv, SourcesExist
    <2>3. source[v] < current /\ 1 < current
      BY <2>0, <2>2
    <2>4. plan.suite
      <3>1. ASSUME ~plan.suite PROVE FALSE
        <4>1. Len(plan.members) = 1
          BY <2>0, <3>1, PlanType
        <4> QED BY <2>0, <2>1, <2>3, <4>1
      <3> QED BY <3>1
    <2>5. ~Breaks(source[v])
      BY <2>1, <2>2 DEF IInv, SkipIsRight
    <2> QED BY <2>2, <2>3, <2>4, <2>5 DEF Breaks
  <1> QED BY <1>1, Invariance, PTL

\* To a strict run, "completed" means a full report without a failure.
THEOREM CompletedIsSound == Spec => []CompletedMeansClean
  <1>1. IInv => CompletedMeansClean
    <2> SUFFICES ASSUME IInv, plan.strict, status = "completed"
                 PROVE  /\ written
                        /\ Len(results) = Len(plan.members)
                        /\ \A i \in 1..Len(results) :
                             results[i].ran /\ results[i].totals \in {{"success"}, {}}
                        /\ \E i \in 1..Len(results) : Passed(results[i].totals)
      BY DEF CompletedMeansClean
    <2>0. results \in Seq(Result) /\ DOMAIN results = 1..Len(results)
      BY LenProperties DEF IInv, TypeOK
    <2>1. written /\ Len(results) = Len(plan.members) /\ Overall = {"success"}
      BY DEF IInv, ExitIsRight, Passed
    <2>2. \A i \in 1..Len(results) : results[i].totals \subseteq {"success"}
      BY <2>0, <2>1 DEF Overall
    <2>3. ASSUME NEW i \in 1..Len(results)
          PROVE  results[i].ran /\ results[i].totals \in {{"success"}, {}}
      <3>1. results[i].totals \in {{"success"}, {}}
        BY <2>2
      <3>2. results[i].totals # {"failure"}
        BY <3>1
      <3> QED BY <3>1, <3>2 DEF IInv, SkippedFails
    <2>4. PICK i \in 1..Len(results) : "success" \in results[i].totals
      BY <2>0, <2>1 DEF Overall
    <2>5. Passed(results[i].totals)
      BY <2>4, <2>2 DEF Passed
    <2> QED BY <2>1, <2>3, <2>5
  <1> QED BY <1>1, Invariance, PTL

--------------------------------------------------------------------------------
(***************************************************************************)
(* The chain from main to start_run implements SuiteReport: every step is  *)
(* a report of one member, the answer, or nothing at all.                  *)
(***************************************************************************)
Reported == [i \in 1..Len(results) |-> VerdictOfResult(results[i])]

LEMMA ReportedAppend ==
  ASSUME IInv, NEW r \in Result, results' = Append(results, r)
  PROVE  Reported' = Append(Reported, VerdictOfResult(r))
  <1>1. results \in Seq(Result) /\ Len(results) \in Nat
    BY LenProperties DEF IInv, TypeOK
  <1>2. /\ Len(results') = Len(results) + 1
        /\ results'[Len(results) + 1] = r
        /\ \A i \in 1..Len(results) : results'[i] = results[i]
    BY <1>1, AppendResult
  <1>3. Reported \in Seq(Contract!Verdicts) /\ Len(Reported) = Len(results)
    <2>1. Reported \in [1..Len(results) -> Contract!Verdicts]
      BY DEF Reported, VerdictOfResult, Contract!Verdicts
    <2> QED BY <1>1, <2>1, SeqDef, LenProperties
  <1>4. Reported' \in Seq(Contract!Verdicts) /\ Len(Reported') = Len(results')
    <2>1. Reported' \in [1..Len(results') -> Contract!Verdicts]
      BY DEF Reported, VerdictOfResult, Contract!Verdicts
    <2> QED BY <1>1, <1>2, <2>1, SeqDef, LenProperties
  <1>5. VerdictOfResult(r) \in Contract!Verdicts
    BY DEF VerdictOfResult, Contract!Verdicts
  <1> DEFINE A == Append(Reported, VerdictOfResult(r))
  <1>6. A \in Seq(Contract!Verdicts) /\ Len(A) = Len(results) + 1
        /\ A[Len(results) + 1] = VerdictOfResult(r)
        /\ \A i \in 1..Len(results) : A[i] = Reported[i]
    BY <1>3, <1>5, AppendResult
  <1>7. \A i \in 1..Len(results') : Reported'[i] = A[i]
    <2> SUFFICES ASSUME NEW i \in 1..Len(results') PROVE Reported'[i] = A[i]
      OBVIOUS
    <2>1. Reported'[i] = VerdictOfResult(results'[i])
      BY DEF Reported, VerdictOfResult
    <2>2. CASE i = Len(results) + 1
      BY <2>1, <2>2, <1>2, <1>6
    <2>3. CASE i \in 1..Len(results)
      <3>1. Reported[i] = VerdictOfResult(results[i])
        BY <2>3 DEF Reported
      <3> QED BY <2>1, <2>3, <3>1, <1>2, <1>6 DEF VerdictOfResult
    <2>4. i \in 1..Len(results) \/ i = Len(results) + 1
      BY <1>1, <1>2
    <2> QED BY <2>2, <2>3, <2>4
  <1> HIDE DEF A
  <1>8. Reported' = A
    BY <1>2, <1>4, <1>6, <1>7, SeqEqual
  <1> QED BY <1>8 DEF A

LEMMA ReportedElements ==
  ASSUME IInv
  PROVE  /\ Reported \in Seq(Contract!Verdicts)
         /\ Len(Reported) = Len(results)
         /\ \A i \in 1..Len(results) : Reported[i] = VerdictOfResult(results[i])
  <1>1. results \in Seq(Result) /\ Len(results) \in Nat
    BY LenProperties DEF IInv, TypeOK
  <1>2. Reported \in [1..Len(results) -> Contract!Verdicts]
    BY DEF Reported, VerdictOfResult, Contract!Verdicts
  <1>3. Reported \in Seq(Contract!Verdicts) /\ Len(Reported) = Len(results)
    BY <1>1, <1>2, SeqDef, LenProperties
  <1> QED BY <1>3 DEF Reported

\* Nothing of the abstract state changes when the results and the answer stay.
LEMMA ContractFrame ==
  ASSUME UNCHANGED <<plan, results>>, phase # "answered", phase' # "answered"
  PROVE  UNCHANGED Contract!vars
  BY DEF Contract!vars, VerdictOfResult, Passed

\* The result of a member that is executed or skipped is a report.
LEMMA ContractReport ==
  ASSUME IInv, NEW r \in Result,
         results' = Append(results, r),
         UNCHANGED plan,
         phase # "answered", phase' # "answered",
         current \in Members,
         r.ran <=> ~skip
  PROVE  Contract!ReportMember
  <1>1. /\ Reported \in Seq(Contract!Verdicts)
        /\ Len(Reported) = Len(results)
        /\ \A i \in 1..Len(results) : Reported[i] = VerdictOfResult(results[i])
    BY ReportedElements
  <1>2. Len(results) = current - 1 /\ current \in Nat \ {0} /\ Len(plan.members) \in Nat
    BY PlanType DEF IInv, TypeOK, ResultsAreInOrder
  <1>3. Len(Reported) < Len(plan.members)
    BY <1>1, <1>2 DEF Members
  <1> DEFINE v == VerdictOfResult(r)
  <1>4. v \in Contract!Verdicts /\ (v = "skip" <=> skip)
    BY DEF VerdictOfResult, Contract!Verdicts
  <1>5. Reported' = Append(Reported, v)
    BY ReportedAppend
  <1>6. skip => \E i \in 1..Len(Reported) : Reported[i] \in {"fail", "empty"}
    <2> SUFFICES ASSUME skip
                 PROVE  \E i \in 1..Len(Reported) : Reported[i] \in {"fail", "empty"}
      OBVIOUS
    <2>1. PICK i \in 1..Len(results) : results[i].ran /\ ~Passed(results[i].totals)
      BY DEF IInv, SkipHasCause
    <2> QED BY <2>1, <1>1 DEF VerdictOfResult
  <1>7. (\E i \in 1..Len(Reported) : Reported[i] = "skip") => skip
    <2> SUFFICES ASSUME NEW i \in 1..Len(results), Reported[i] = "skip"
                 PROVE  skip
      BY <1>1
    <2>1. ~results[i].ran
      BY <1>1 DEF VerdictOfResult
    <2>2. PICK j \in 1..(i - 1) : Breaks(j)
      BY <2>1 DEF IInv, ResultsAreInOrder
    <2>3. j \in 1..Len(results)
      BY <1>2
    <2> QED BY <2>2, <2>3 DEF IInv, SkipIsRight
  <1> HIDE DEF v
  <1>8. Contract!Saw("skip") => skip
    BY <1>7 DEF Contract!Saw, Reported
  <1>9. skip => Contract!Saw("fail") \/ Contract!Saw("empty")
    BY <1>6 DEF Contract!Saw, Reported
  <1> QED
    BY <1>3, <1>4, <1>5, <1>8, <1>9 DEF Contract!ReportMember, Reported

\* The abstract report is clean exactly when the totals of a full one pass.
LEMMA CleanIsPassed ==
  ASSUME IInv
  PROVE  Contract!Clean <=> Len(results) = Len(plan.members) /\ Passed(Overall)
  <1>1. /\ Len(Reported) = Len(results)
        /\ \A i \in 1..Len(results) : Reported[i] = VerdictOfResult(results[i])
    BY ReportedElements
  <1>2. results \in Seq(Result) /\ DOMAIN results = 1..Len(results)
    BY LenProperties DEF IInv, TypeOK
  <1>3. ASSUME Contract!Clean PROVE Passed(Overall)
    <2>1. PICK i \in 1..Len(results) : Reported[i] = "pass"
      BY <1>1, <1>3 DEF Contract!Clean, Contract!Saw, Reported
    <2>2. results[i].totals = {"success"}
      BY <2>1, <1>1 DEF VerdictOfResult, Passed
    <2>3. ASSUME NEW j \in 1..Len(results) PROVE results[j].totals \subseteq {"success"}
      <3>1. Reported[j] # "fail" /\ Reported[j] # "skip"
        BY <1>1, <1>3 DEF Contract!Clean, Contract!Saw, Reported
      <3> QED BY <3>1, <1>1 DEF VerdictOfResult, Passed
    <2> QED BY <2>2, <2>3, <1>2 DEF Overall, Passed
  <1>4. ASSUME Passed(Overall), Len(results) = Len(plan.members) PROVE Contract!Clean
    <2>1. \A j \in 1..Len(results) : results[j].totals \subseteq {"success"}
      BY <1>2, <1>4 DEF Overall, Passed
    <2>2. PICK i \in 1..Len(results) : "success" \in results[i].totals
      BY <1>2, <1>4 DEF Overall, Passed
    <2>3. ASSUME NEW j \in 1..Len(results) PROVE results[j].ran
      <3>1. results[j].totals # {"failure"}
        BY <2>1
      <3> QED BY <3>1 DEF IInv, SkippedFails
    <2>4. Reported[i] = "pass"
      BY <2>1, <2>2, <2>3, <1>1 DEF VerdictOfResult, Passed
    <2>5. \A j \in 1..Len(results) : Reported[j] # "fail" /\ Reported[j] # "skip"
      BY <2>1, <2>3, <1>1 DEF VerdictOfResult, Passed
    <2> QED BY <2>4, <2>5, <1>1, <1>4 DEF Contract!Clean, Contract!Saw, Reported
  <1>5. Contract!Clean => Len(results) = Len(plan.members)
    BY <1>1 DEF Contract!Clean, Reported
  <1> QED BY <1>3, <1>4, <1>5

LEMMA ContractStart == Init => Contract!Init
  <1> SUFFICES ASSUME Init PROVE Contract!Init
    OBVIOUS
  <1>1. Len(plan.members) \in Nat /\ plan.strict \in BOOLEAN
    BY PlanType DEF Init
  <1>2. Reported \in Seq({}) /\ Len(Reported) = 0
    <2>1. Len(results) = 0
      BY DEF Init
    <2>2. Reported \in [1..0 -> {}]
      BY <2>1 DEF Reported
    <2> QED BY <2>2, SeqDef, LenProperties
  <1>3. Reported = <<>>
    BY <1>2, EmptySeq
  <1> QED BY <1>1, <1>3 DEF Init, Contract!Init, Reported

LEMMA ContractStep == IInv /\ [Next]_vars => [Contract!Next]_(Contract!vars)
  <1> SUFFICES ASSUME IInv, [Next]_vars PROVE [Contract!Next]_(Contract!vars)
    OBVIOUS
  <1>1. CASE SkipMember
    <2>1. Skipped \in Result
      BY DEF Skipped, Result, Kinds
    <2>2. Contract!ReportMember
      <3>1. Skipped.ran <=> ~skip
        BY <1>1 DEF SkipMember, Skipped
      <3> QED BY <1>1, <2>1, <3>1, ContractReport DEF SkipMember
    <2> QED BY <2>2 DEF Contract!Next
  <1>2. CASE MemberReturns
    <2>1. PICK r \in Result : results' = Append(results, r) /\ r.ran
      <3>1. PICK totals \in SUBSET Kinds :
              results' = Append(results, [totals |-> totals, ran |-> TRUE])
        BY <1>2 DEF MemberReturns
      <3>2. [totals |-> totals, ran |-> TRUE] \in Result
        BY DEF Result
      <3> QED BY <3>1, <3>2
    <2>2. ~skip /\ current \in Members
      BY <1>2 DEF MemberReturns, IInv, RunningIsDue
    <2>3. Contract!ReportMember
      BY <1>2, <2>1, <2>2, ContractReport DEF MemberReturns
    <2> QED BY <2>3 DEF Contract!Next
  <1>3. CASE Answer
    <2>1. /\ status \in {"zero", "nonzero"}
          /\ plan.strict /\ status = "zero" => written /\ code = 0
          /\ status = "nonzero" => plan.strict /\ (~written \/ code # 0)
      BY <1>3 DEF Answer, IInv, ExitIsRight
    <2>2. Contract!Clean <=> Len(results) = Len(plan.members) /\ Passed(Overall)
      BY CleanIsPassed
    <2>3. plan.strict /\ status = "zero" => Contract!Clean
      BY <2>1, <2>2 DEF IInv, ExitIsRight
    <2>4. status = "nonzero" => plan.strict /\ ~Contract!Clean
      <3>1. ASSUME status = "nonzero", ~written PROVE ~Contract!Clean
        <4>1. Len(results) < Len(plan.members) \/ Len(results) = 0
          BY <1>3, <3>1 DEF Answer, IInv, ExitIsRight
        <4>2. Len(plan.members) \in Nat /\ Len(results) \in Nat
          BY PlanType, LenProperties DEF IInv, TypeOK
        <4>3. Len(results) = 0 => ~Contract!Clean
          BY ReportedElements DEF Contract!Clean, Contract!Saw, Reported
        <4> QED BY <4>1, <4>2, <4>3, <2>2
      <3>2. ASSUME written, code # 0 PROVE ~Contract!Clean
        BY <3>2, <2>2 DEF IInv, ExitIsRight
      <3> QED BY <2>1, <3>1, <3>2
    <2>5. Contract!Answer
      <3>1. UNCHANGED <<plan, results>>
        BY <1>3 DEF Answer
      <3>2. UNCHANGED <<Len(plan.members), plan.strict, Reported>>
        BY <3>1 DEF Reported, VerdictOfResult, Passed
      <3> QED BY <1>3, <2>1, <2>3, <2>4, <3>2 DEF Answer, Contract!Answer, Reported
    <2> QED BY <2>5 DEF Contract!Next
  <1>4. CASE UNCHANGED vars
    <2>1. UNCHANGED Contract!vars
      BY <1>4 DEF vars, Contract!vars, VerdictOfResult, Passed
    <2> QED BY <2>1
  <1>5. CASE LateEnds
    <2>1. UNCHANGED Contract!vars
      BY <1>5 DEF LateEnds, Contract!vars, VerdictOfResult, Passed
    <2> QED BY <2>1
  <1>6. CASE Load \/ LoadFails \/ StartMember \/ RefuseMember \/ MemberRaises
             \/ Write \/ Script
    <2>1. UNCHANGED <<plan, results>> /\ phase # "answered" /\ phase' # "answered"
      BY <1>6 DEF Load, LoadFails, StartMember, RefuseMember, MemberRaises, Write,
                  Script, Dies
    <2> QED BY <2>1, ContractFrame
  <1> QED BY <1>1, <1>2, <1>3, <1>4, <1>5, <1>6 DEF Next, Step, Over

\* Whatever the chain does is a behaviour of SuiteReport (without its fairness).
THEOREM ImplementsSuiteReport ==
  Spec => Contract!Init /\ [][Contract!Next]_(Contract!vars)
  <1> QED BY ContractStart, ContractStep, Invariance, PTL DEF Spec

================================================================================
