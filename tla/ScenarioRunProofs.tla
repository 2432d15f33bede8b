--------------------------- MODULE ScenarioRunProofs ---------------------------
(***************************************************************************)
(* Safety of ScenarioRun for every number of workers, every set of         *)
(* scenarios and every bound.                                              *)
(***************************************************************************)
EXTENDS ScenarioRun, SequenceTheorems, FiniteSetTheorems, TLAPS

(***************************************************************************)
(* The inductive invariant, by parts.                                      *)
(***************************************************************************)
Inside     == {"tally", "decide", "update"}      \* the critical section
AtStep     == {"running", "record", "tally", "decide"}
Captured   == Ended \ {"crashed"}                \* ended after capture_vars
Tallying(n) == lock # 0 /\ pc[lock] = "tally" /\ StepOf(lock).name = n

\* The lock is held by exactly the worker that is inside; a worker that runs
\* or records a step is at a step of the scenario.
MutexInv ==
  \A w \in Workers :
    /\ pc[w] \in Inside <=> lock = w
    /\ pc[w] \in AtStep => idx[w] <= Len(scenario.steps)

\* The counters add up, but for the execution being recorded right now.
CounterInv ==
  \A n \in Names :
    /\ stats[n].count = stats[n].success + stats[n].failure
                          + (IF Tallying(n) THEN 1 ELSE 0)
    /\ stats[n].mismatch <= stats[n].failure
    /\ \A w \in Workers :
         pc[w] = "decide" /\ outcome[w] = "mismatch" /\ StepOf(w).name = n
         => stats[n].mismatch < stats[n].failure

\* What was recorded left its trace in the aggregate, and the other way round.
TraceInv ==
  /\ \A w \in Workers : pc[w] = "tally" => StepOf(w).name \in entries
  /\ \A w \in Workers : \A i \in DOMAIN log[w] :
       /\ log[w][i].step <= Len(scenario.steps)
       /\ scenario.steps[log[w][i].step].name \in entries
       /\ Failed(log[w][i]) =>
            stats[scenario.steps[log[w][i].step].name].failure > 0
  /\ \A n \in Names : stats[n].success > 0 => \E w \in Workers : log[w] # <<>>

\* The calling thread has waited for every worker it is past, or missed it;
\* if it missed none, then what it has read is what the aggregate holds.
CallerInv ==
  /\ \A w \in 1..(joining - 1) : w \in missed \/ ThreadOver(w)
  /\ main # "joining" => joining = Users + 1
  /\ toRead \subseteq sized
  /\ main \in {"totalled", "reported"} => toRead = {}
  /\ main # "joining" /\ missed = {} =>
       /\ sized = entries
       /\ \A n \in entries \ toRead : report[n] = stats[n]
  /\ \A n \in Names : report[n] # Zero => main # "joining" /\ n \in sized \ toRead
  /\ main \in {"totalled", "reported"} => result.verdict = Verdict(report)

\* The shared variables after a worker has captured its own.
ExportInv ==
  /\ \A w \in Workers :
       pc[w] \in Captured =>
         /\ exported.by = w => exported.version = version[w]
         /\ exported.by # 0 \/ \E v \in Workers : pc[v] = "update"
  /\ main = "reported" /\ missed = {} => result.vars = exported

SafetyInv == MutexInv /\ CounterInv /\ TraceInv /\ CallerInv /\ ExportInv

--------------------------------------------------------------------------------
(***************************************************************************)
(* Types.                                                                  *)
(***************************************************************************)
USE RunAssumption

\* The scenario of a run has steps, and a worker at a step is at one of them.
LEMMA StepTyped ==
  ASSUME TypeOK, MutexInv, NEW w \in Workers, pc[w] \in AtStep
  PROVE  /\ idx[w] \in 1..Len(scenario.steps)
         /\ StepOf(w) \in Step
         /\ StepOf(w).name \in Names
         /\ StepOf(w).rule \in Rules
<1>1. scenario.steps \in Seq(Step)
  BY DEF TypeOK, Scenario
<1>2. idx[w] \in 1..Len(scenario.steps)
  BY <1>1 DEF TypeOK, WorkerTypeOK, MutexInv
<1>3. StepOf(w) \in Step
  BY <1>1, <1>2 DEF StepOf
<1> QED
  BY <1>2, <1>3 DEF Step

\* Both hold together: a name enters the aggregate only from a step that
\* exists, and a worker is at a step only because of its counter's type.
TypedMutex == TypeOK /\ MutexInv

LEMMA TypedMutexInit == Init => TypedMutex
<1> SUFFICES ASSUME Init PROVE TypedMutex
  OBVIOUS
<1> USE DEF Init
<1>1. WorkerTypeOK
  BY DEF WorkerTypeOK, Pcs, Outcomes
<1>2. SharedTypeOK
  BY DEF SharedTypeOK, Counters, Zero, Moment, Cleared
<1>3. CallerTypeOK
  <2>1. result \in [verdict : {"none", "PASS", "FAIL"}, vars : Moment]
    BY DEF NoResult, Moment, Cleared
  <2>2. report \in [Names -> Counters]
    BY DEF Counters, Zero
  <2> QED
    BY <2>1, <2>2 DEF CallerTypeOK
<1>4. log \in [Workers -> Seq(Entry)]
  OBVIOUS
<1>5. MutexInv
  BY DEF MutexInv, Inside, AtStep, Workers
<1> QED
  BY <1>1, <1>2, <1>3, <1>4, <1>5 DEF TypedMutex, TypeOK

\* A group of variables that does not change keeps its types.
LEMMA TypeFrames ==
  /\ WorkerTypeOK /\ UNCHANGED worker => WorkerTypeOK'
  /\ SharedTypeOK /\ UNCHANGED shared => SharedTypeOK'
  /\ CallerTypeOK /\ UNCHANGED caller => CallerTypeOK'
<1>1. WorkerTypeOK /\ UNCHANGED worker => WorkerTypeOK'
  BY DEF WorkerTypeOK, worker
<1>2. SharedTypeOK /\ UNCHANGED shared => SharedTypeOK'
  BY DEF SharedTypeOK, shared
<1>3. CallerTypeOK /\ UNCHANGED caller => CallerTypeOK'
  BY DEF CallerTypeOK, caller
<1> QED
  BY <1>1, <1>2, <1>3

\* Adding to a counter of an entry keeps the counters well-typed.
LEMMA CounterUpdates ==
  ASSUME stats \in [Names -> Counters], NEW n \in Names
  PROVE  /\ [stats EXCEPT ![n].count = @ + 1] \in [Names -> Counters]
         /\ [stats EXCEPT ![n].success = @ + 1] \in [Names -> Counters]
         /\ [stats EXCEPT ![n].failure = @ + 1] \in [Names -> Counters]
         /\ [stats EXCEPT ![n].mismatch = @ + 1] \in [Names -> Counters]
<1>1. stats[n] \in Counters
  OBVIOUS
<1>2. /\ [stats[n] EXCEPT !.count = @ + 1] \in Counters
      /\ [stats[n] EXCEPT !.success = @ + 1] \in Counters
      /\ [stats[n] EXCEPT !.failure = @ + 1] \in Counters
      /\ [stats[n] EXCEPT !.mismatch = @ + 1] \in Counters
  BY <1>1 DEF Counters
<1> QED
  BY <1>2

LEMMA MutexStep == TypedMutex /\ [Next]_vars => MutexInv'
<1> SUFFICES ASSUME TypeOK, MutexInv, [Next]_vars PROVE MutexInv'
  BY DEF TypedMutex
<1>0. /\ pc \in [Workers -> Pcs]
      /\ idx \in [Workers -> Nat \ {0}]
      /\ Len(scenario.steps) \in Nat \ {0}
      /\ \A w \in Workers : w # 0
  <2>1. scenario.steps \in Seq(Step) /\ scenario.steps # <<>>
    BY DEF TypeOK, Scenario
  <2> QED
    BY <2>1 DEF TypeOK, WorkerTypeOK, Workers
<1> USE <1>0 DEF MutexInv, Inside, AtStep
<1>1. ASSUME NEW w \in Workers, LoopGuard(w) PROVE MutexInv'
  BY <1>1 DEF LoopGuard, shared
<1>2. ASSUME NEW w \in Workers, StepGuard(w) PROVE MutexInv'
  BY <1>2 DEF StepGuard, shared
<1>3. ASSUME NEW w \in Workers, EndIteration(w) PROVE MutexInv'
  BY <1>3 DEF EndIteration, shared
<1>4. ASSUME NEW w \in Workers, StepEnds(w) PROVE MutexInv'
  BY <1>4 DEF StepEnds, RunStep, Raise, shared
<1>5. ASSUME NEW w \in Workers, BeginRecord(w) PROVE MutexInv'
  BY <1>5 DEF BeginRecord, LockFree
<1>6. ASSUME NEW w \in Workers, AddOutcome(w) PROVE MutexInv'
  BY <1>6 DEF AddOutcome
<1>7. ASSUME NEW w \in Workers, FinishRecord(w) PROVE MutexInv'
  BY <1>7 DEF FinishRecord
<1>8. ASSUME NEW w \in Workers, BeginCapture(w) PROVE MutexInv'
  BY <1>8 DEF BeginCapture, LockFree
<1>9. ASSUME NEW w \in Workers, FinishCapture(w) PROVE MutexInv'
  <2>1. after[w] \in {"loop", "completed", "expired", "stopped"}
    BY DEF TypeOK, WorkerTypeOK
  <2> QED
    BY <1>9, <2>1 DEF FinishCapture
<1>10. CASE Caller \/ Expire \/ Over \/ UNCHANGED vars
  <2>1. UNCHANGED <<scenario, pc, idx, lock>>
    BY <1>10 DEF Caller, Join, JoinTimesOut, StartReading, ReadEntry,
       IterationFails, Total, Return, Expire, Over, vars, worker, shared
  <2> QED
    BY <2>1
<1> QED
  BY <1>1, <1>2, <1>3, <1>4, <1>5, <1>6, <1>7, <1>8, <1>9, <1>10
  DEF Next, Bookkeeping

LEMMA TypeStep == TypedMutex /\ [Next]_vars => TypeOK'
<1> SUFFICES ASSUME TypeOK, MutexInv, [Next]_vars PROVE TypeOK'
  BY DEF TypedMutex
<1>0. WorkerTypeOK /\ SharedTypeOK /\ CallerTypeOK /\ log \in [Workers -> Seq(Entry)]
  BY DEF TypeOK
<1>1. ASSUME NEW w \in Workers,
             LoopGuard(w) \/ StepGuard(w) \/ EndIteration(w) \/ StepEnds(w)
      PROVE  TypeOK'
  <2>1. WorkerTypeOK'
    <3>1. CASE LoopGuard(w)
      <4>1. pc' \in [Workers -> Pcs]
        BY <1>0, <3>1 DEF LoopGuard, WorkerTypeOK, Pcs
      <4>2. UNCHANGED <<iter, outcome, version>>
        BY <3>1 DEF LoopGuard
      <4>3. after' \in [Workers -> {"loop", "completed", "expired", "stopped"}]
        BY <1>0, <3>1 DEF LoopGuard, WorkerTypeOK
      <4>4. idx' = idx \/ idx' = [idx EXCEPT ![w] = 1]
        BY <3>1 DEF LoopGuard
      <4> QED
        BY <1>0, <4>1, <4>2, <4>3, <4>4 DEF WorkerTypeOK
    <3>2. CASE StepGuard(w)
      BY <1>0, <3>2 DEF StepGuard, WorkerTypeOK, Pcs
    <3>3. CASE EndIteration(w)
      BY <1>0, <3>3 DEF EndIteration, WorkerTypeOK, Pcs
    <3>4. CASE StepEnds(w)
      <4>1. pc' \in [Workers -> Pcs] /\ UNCHANGED <<after, idx, iter>>
        BY <1>0, <3>4 DEF StepEnds, RunStep, Raise, WorkerTypeOK, Pcs, Ended
      <4>2. outcome' \in [Workers -> Outcomes] /\ version' \in [Workers -> Nat]
        <5>1. \/ version' = [version EXCEPT ![w] = version[w] + 1]
              \/ version' = [version EXCEPT ![w] = version[w]]
          BY <3>4 DEF StepEnds, RunStep, Raise
        <5>2. outcome' = outcome \/ \E o \in Outcomes : outcome' = [outcome EXCEPT ![w] = o]
          BY <3>4 DEF StepEnds, RunStep, Raise
        <5> QED
          <6>1. version \in [Workers -> Nat] /\ outcome \in [Workers -> Outcomes]
            BY <1>0 DEF WorkerTypeOK
          <6>2. version' \in [Workers -> Nat]
            BY <5>1, <6>1
          <6> QED
            BY <5>2, <6>1, <6>2
      <4> QED
        BY <1>0, <4>1, <4>2 DEF WorkerTypeOK
    <3> QED
      BY <1>1, <3>1, <3>2, <3>3, <3>4
  <2>2. UNCHANGED <<scenario, expired, shared, caller, log>>
    BY <1>1 DEF LoopGuard, StepGuard, EndIteration, StepEnds, RunStep, Raise
  <2> QED
    BY <1>0, <2>1, <2>2, TypeFrames DEF TypeOK
<1>2. ASSUME NEW w \in Workers,
             BeginRecord(w) \/ AddOutcome(w) \/ FinishRecord(w)
      PROVE  TypeOK'
  <2>1. StepOf(w).name \in Names
    BY <1>2, StepTyped DEF BeginRecord, AddOutcome, FinishRecord, AtStep
  <2>2. WorkerTypeOK'
    <3>1. CASE BeginRecord(w) \/ AddOutcome(w)
      BY <1>0, <3>1 DEF BeginRecord, AddOutcome, WorkerTypeOK, Pcs
    <3>2. CASE FinishRecord(w)
      <4>1. pc' \in [Workers -> Pcs] /\ UNCHANGED <<iter, outcome, version>>
        BY <1>0, <3>2 DEF FinishRecord, WorkerTypeOK, Pcs
      <4>2. after' = after \/ after' = [after EXCEPT ![w] = "stopped"]
        BY <3>2 DEF FinishRecord
      <4>3. idx' = idx \/ idx' = [idx EXCEPT ![w] = idx[w] + 1]
        BY <3>2 DEF FinishRecord
      <4>4. idx' \in [Workers -> Nat \ {0}]
        <5>1. idx \in [Workers -> Nat \ {0}] /\ idx[w] + 1 \in Nat \ {0}
          BY <1>0 DEF WorkerTypeOK
        <5> QED
          BY <4>3, <5>1
      <4> QED
        BY <1>0, <4>1, <4>2, <4>4 DEF WorkerTypeOK
    <3> QED
      BY <1>2, <3>1, <3>2
  <2>3. stats' \in [Names -> Counters]
    <3>1. CASE BeginRecord(w)
      BY <1>0, <2>1, <3>1, CounterUpdates DEF BeginRecord, SharedTypeOK
    <3>2. CASE AddOutcome(w)
      BY <1>0, <2>1, <3>2, CounterUpdates DEF AddOutcome, SharedTypeOK
    <3>3. CASE FinishRecord(w)
      BY <1>0, <2>1, <3>3, CounterUpdates DEF FinishRecord, SharedTypeOK
    <3> QED
      BY <1>2, <3>1, <3>2, <3>3
  <2>4. lock' \in 0..Users /\ entries' \in SUBSET Names /\ exported' \in Moment
    BY <1>0, <1>2, <2>1
    DEF BeginRecord, AddOutcome, FinishRecord, SharedTypeOK, Workers
  <2>5. log' \in [Workers -> Seq(Entry)]
    <3>1. [step |-> idx[w], outcome |-> outcome[w]] \in Entry
      BY <1>0 DEF WorkerTypeOK, Entry
    <3> QED
      <4>1. log' = log \/ log' = [log EXCEPT ![w] =
                                     Append(log[w], [step |-> idx[w], outcome |-> outcome[w]])]
        BY <1>2 DEF BeginRecord, AddOutcome, FinishRecord
      <4>2. Append(log[w], [step |-> idx[w], outcome |-> outcome[w]]) \in Seq(Entry)
        BY <1>0, <3>1, AppendProperties
      <4> QED
        BY <1>0, <4>1, <4>2
  <2>6. UNCHANGED <<scenario, expired, caller>>
    BY <1>2 DEF BeginRecord, AddOutcome, FinishRecord
  <2> QED
    BY <1>0, <2>2, <2>3, <2>4, <2>5, <2>6, TypeFrames DEF TypeOK, SharedTypeOK
<1>3. ASSUME NEW w \in Workers, BeginCapture(w) \/ FinishCapture(w)
      PROVE  TypeOK'
  <2>1. WorkerTypeOK'
    BY <1>0, <1>3 DEF BeginCapture, FinishCapture, WorkerTypeOK, Pcs, Ended
  <2>2. exported' \in Moment
    BY <1>0, <1>3 DEF BeginCapture, FinishCapture, Snapshot, Cleared, Moment,
       WorkerTypeOK, Workers
  <2>3. lock' \in 0..Users /\ UNCHANGED <<entries, stats>>
    BY <1>3 DEF BeginCapture, FinishCapture, Workers
  <2>4. UNCHANGED <<scenario, expired, caller, log>>
    BY <1>3 DEF BeginCapture, FinishCapture
  <2> QED
    BY <1>0, <2>1, <2>2, <2>3, <2>4, TypeFrames DEF TypeOK, SharedTypeOK
<1>4. CASE Caller
  <2>1. CallerTypeOK'
    <3>1. CASE Join \/ JoinTimesOut
      <4>1. joining' = joining + 1 /\ joining \in 1..Users
        BY <3>1 DEF Join, JoinTimesOut, Workers
      <4>2. missed' = missed \/ missed' = missed \cup {joining}
        BY <3>1 DEF Join, JoinTimesOut
      <4>3. UNCHANGED <<main, toRead, sized, report, result>>
        BY <3>1 DEF Join, JoinTimesOut
      <4>4. joining' \in 1..(Users + 1)
        BY <4>1, Users \in Nat DEF RunAssumption
      <4>5. missed' \in SUBSET Workers
        <5>1. missed \in SUBSET Workers /\ joining \in Workers
          BY <1>0, <4>1 DEF CallerTypeOK, Workers
        <5> QED
          BY <4>2, <5>1
      <4>6. CallerTypeOK
        BY <1>0
      <4> QED
        BY <4>3, <4>4, <4>5, <4>6 DEF CallerTypeOK
    <3>2. CASE StartReading \/ ReadEntry \/ IterationFails
      BY <1>0, <3>2
      DEF StartReading, ReadEntry, IterationFails, CallerTypeOK, SharedTypeOK
    <3>3. CASE Total \/ Return
      BY <1>0, <3>3 DEF Total, Return, Verdict, CallerTypeOK, SharedTypeOK
    <3> QED
      BY <1>4, <3>1, <3>2, <3>3 DEF Caller
  <2>2. UNCHANGED <<scenario, expired, worker, shared, log>>
    BY <1>4 DEF Caller, Join, JoinTimesOut, StartReading, ReadEntry,
       IterationFails, Total, Return
  <2> QED
    BY <1>0, <2>1, <2>2, TypeFrames DEF TypeOK
<1>5. CASE Expire \/ Over \/ UNCHANGED vars
  <2>1. expired' \in BOOLEAN /\ UNCHANGED <<scenario, worker, shared, caller, log>>
    BY <1>5 DEF Expire, Over, vars, TypeOK
  <2> QED
    BY <1>0, <2>1, TypeFrames DEF TypeOK
<1> QED
  BY <1>1, <1>2, <1>3, <1>4, <1>5 DEF Next, Bookkeeping

\* Every variable always has its type.
THEOREM TypeCorrect == Spec => []TypeOK
<1>1. TypedMutex /\ [Next]_vars => TypedMutex'
  BY MutexStep, TypeStep DEF TypedMutex
<1>2. TypedMutex => TypeOK
  BY DEF TypedMutex
<1> QED
  BY <1>1, <1>2, TypedMutexInit, PTL DEF Spec

--------------------------------------------------------------------------------
(***************************************************************************)
(* The counters.                                                           *)
(***************************************************************************)
\* What the three actions that write the counters do to them.
LEMMA CounterEffects ==
  ASSUME TypedMutex, NEW w \in Workers, NEW n \in Names
  PROVE  /\ BeginRecord(w) =>
              stats'[n] = IF n = StepOf(w).name
                          THEN [stats[n] EXCEPT !.count = @ + 1] ELSE stats[n]
         /\ AddOutcome(w) =>
              stats'[n] = IF n # StepOf(w).name THEN stats[n]
                          ELSE IF outcome[w] = "ok"
                          THEN [stats[n] EXCEPT !.success = @ + 1]
                          ELSE [stats[n] EXCEPT !.failure = @ + 1]
         /\ FinishRecord(w) =>
              stats'[n] = IF n = StepOf(w).name /\ outcome[w] = "mismatch"
                          THEN [stats[n] EXCEPT !.mismatch = @ + 1] ELSE stats[n]
<1>1. stats \in [Names -> Counters]
  BY DEF TypedMutex, TypeOK, SharedTypeOK
<1> QED
  BY <1>1 DEF BeginRecord, AddOutcome, FinishRecord

\* Every other step leaves the counters and the execution being recorded alone.
LEMMA CounterFrames ==
  ASSUME TypedMutex, [Next]_vars,
         \A w \in Workers : ~(BeginRecord(w) \/ AddOutcome(w) \/ FinishRecord(w))
  PROVE  /\ stats' = stats
         /\ log' = log
         /\ entries' = entries
         /\ \A n \in Names : Tallying(n)' <=> Tallying(n)
         /\ \A w \in Workers : pc'[w] \in {"tally", "decide"} =>
              pc[w] = pc'[w] /\ UNCHANGED <<outcome[w], idx[w], scenario>>
<1>0. /\ pc \in [Workers -> Pcs] /\ idx \in [Workers -> Nat \ {0}]
      /\ after \in [Workers -> {"loop", "completed", "expired", "stopped"}]
      /\ lock = 0 \/ lock \in Workers
      /\ outcome \in [Workers -> Outcomes]
      /\ \A w \in Workers : w # 0
  BY DEF TypedMutex, TypeOK, WorkerTypeOK, SharedTypeOK, Workers
<1> DEFINE Goal == /\ stats' = stats /\ log' = log /\ entries' = entries
                   /\ \A n \in Names : Tallying(n)' <=> Tallying(n)
                   /\ \A w \in Workers : pc'[w] \in {"tally", "decide"} =>
                        pc[w] = pc'[w] /\ UNCHANGED <<outcome[w], idx[w], scenario>>
<1>1. ASSUME NEW w \in Workers,
             LoopGuard(w) \/ StepGuard(w) \/ EndIteration(w) \/ StepEnds(w)
      PROVE  Goal
  <2>1. /\ pc[w] \in {"loop", "step", "running"}
        /\ \A v \in Workers \ {w} : pc'[v] = pc[v] /\ idx'[v] = idx[v]
                                     /\ outcome'[v] = outcome[v]
        /\ pc'[w] \in {"step", "capture", "running", "record", "crashed"}
        /\ UNCHANGED <<scenario, shared, log>>
    BY <1>0, <1>1 DEF LoopGuard, StepGuard, EndIteration, StepEnds, RunStep, Raise
  <2>2. lock # w
    BY <2>1 DEF TypedMutex, MutexInv, Inside
  <2> QED
    BY <1>0, <2>1, <2>2 DEF Tallying, StepOf, shared
<1>2. ASSUME NEW w \in Workers, BeginCapture(w) \/ FinishCapture(w)
      PROVE  Goal
  <2>1. /\ pc[w] \in {"capture", "update"}
        /\ \A v \in Workers \ {w} : pc'[v] = pc[v]
        /\ pc'[w] \in {"update"} \cup {"loop", "completed", "expired", "stopped"}
        /\ UNCHANGED <<scenario, idx, outcome, stats, entries, log>>
    BY <1>0, <1>2 DEF BeginCapture, FinishCapture
  <2>2. lock \in {0, w} /\ lock' \in {0, w}
    BY <1>2 DEF BeginCapture, FinishCapture, LockFree, TypedMutex, MutexInv, Inside
  <2>3. \A n \in Names : ~Tallying(n) /\ ~Tallying(n)'
    BY <1>0, <2>1, <2>2 DEF Tallying
  <2> QED
    BY <2>1, <2>3
<1>3. CASE Caller \/ Expire \/ Over \/ UNCHANGED vars
  <2>1. UNCHANGED <<scenario, worker, shared, log>>
    BY <1>3 DEF Caller, Join, JoinTimesOut, StartReading, ReadEntry,
       IterationFails, Total, Return, Expire, Over, vars
  <2> QED
    BY <2>1 DEF worker, shared, Tallying, StepOf
<1> QED
  BY <1>1, <1>2, <1>3 DEF Next, Bookkeeping

LEMMA CounterInit == Init => CounterInv
  BY DEF Init, CounterInv, Tallying, Zero

LEMMA CounterStep == TypedMutex /\ CounterInv /\ [Next]_vars => CounterInv'
<1> SUFFICES ASSUME TypedMutex, CounterInv, [Next]_vars, NEW n \in Names
             PROVE  /\ stats'[n].count = stats'[n].success + stats'[n].failure
                                          + (IF Tallying(n)' THEN 1 ELSE 0)
                    /\ stats'[n].mismatch <= stats'[n].failure
                    /\ \A v \in Workers :
                         pc'[v] = "decide" /\ outcome'[v] = "mismatch"
                            /\ StepOf(v)'.name = n
                         => stats'[n].mismatch < stats'[n].failure
  BY DEF CounterInv
<1>0. /\ stats[n] \in Counters
      /\ pc \in [Workers -> Pcs] /\ idx \in [Workers -> Nat \ {0}]
      /\ outcome \in [Workers -> Outcomes]
      /\ \A v \in Workers : v # 0 /\ (pc[v] \in Inside <=> lock = v)
  BY DEF TypedMutex, MutexInv, TypeOK, WorkerTypeOK, SharedTypeOK, Workers
<1>1. /\ stats[n].count = stats[n].success + stats[n].failure
                            + (IF Tallying(n) THEN 1 ELSE 0)
      /\ stats[n].mismatch <= stats[n].failure
      /\ \A v \in Workers :
           pc[v] = "decide" /\ outcome[v] = "mismatch" /\ StepOf(v).name = n
           => stats[n].mismatch < stats[n].failure
  BY DEF CounterInv
<1>2. ASSUME NEW w \in Workers, BeginRecord(w) PROVE ~Tallying(n) /\
          (Tallying(n)' <=> n = StepOf(w).name) /\ \A v \in Workers : pc'[v] # "decide"
  BY <1>0, <1>2 DEF BeginRecord, LockFree, Tallying, StepOf, Inside
<1>3. ASSUME NEW w \in Workers, AddOutcome(w)
      PROVE  /\ Tallying(n) <=> n = StepOf(w).name
             /\ ~Tallying(n)'
             /\ \A v \in Workers : pc'[v] = "decide" => v = w
             /\ UNCHANGED <<StepOf(w), outcome>>
  BY <1>0, <1>3 DEF AddOutcome, Tallying, StepOf, Inside
<1>4. ASSUME NEW w \in Workers, FinishRecord(w)
      PROVE  ~Tallying(n) /\ ~Tallying(n)' /\ \A v \in Workers : pc'[v] # "decide"
  BY <1>0, <1>4 DEF FinishRecord, Tallying, Inside
<1> DEFINE c == stats[n]
<1> DEFINE d == stats'[n]
<1>5. ASSUME NEW w \in Workers, BeginRecord(w)
      PROVE  /\ d.count = d.success + d.failure + (IF Tallying(n)' THEN 1 ELSE 0)
             /\ d.mismatch <= d.failure
  <2>1. CASE n = StepOf(w).name
    <3>1. d = [c EXCEPT !.count = @ + 1]
      BY <1>5, <2>1, CounterEffects
    <3>2. /\ d.count = c.count + 1 /\ d.success = c.success
          /\ d.failure = c.failure /\ d.mismatch = c.mismatch
      BY <1>0, <3>1 DEF Counters
    <3> QED
      BY <1>0, <1>1, <1>2, <1>5, <2>1, <3>2 DEF Counters
  <2>2. CASE n # StepOf(w).name
    BY <1>1, <1>2, <1>5, <2>2, CounterEffects
  <2> QED
    BY <2>1, <2>2
<1>6. ASSUME NEW w \in Workers, AddOutcome(w)
      PROVE  /\ d.count = d.success + d.failure
             /\ d.mismatch <= d.failure
             /\ n = StepOf(w).name /\ outcome[w] # "ok" => d.mismatch < d.failure
  <2>1. CASE n = StepOf(w).name /\ outcome[w] = "ok"
    <3>1. d = [c EXCEPT !.success = @ + 1]
      BY <1>6, <2>1, CounterEffects
    <3>2. /\ d.count = c.count /\ d.success = c.success + 1
          /\ d.failure = c.failure /\ d.mismatch = c.mismatch
      BY <1>0, <3>1 DEF Counters
    <3> QED
      BY <1>0, <1>1, <1>3, <1>6, <2>1, <3>2 DEF Counters
  <2>2. CASE n = StepOf(w).name /\ outcome[w] # "ok"
    <3>1. d = [c EXCEPT !.failure = @ + 1]
      BY <1>6, <2>2, CounterEffects
    <3>2. /\ d.count = c.count /\ d.success = c.success
          /\ d.failure = c.failure + 1 /\ d.mismatch = c.mismatch
      BY <1>0, <3>1 DEF Counters
    <3> QED
      BY <1>0, <1>1, <1>3, <1>6, <2>2, <3>2 DEF Counters
  <2>3. CASE n # StepOf(w).name
    <3>1. d = c
      BY <1>6, <2>3, CounterEffects
    <3> QED
      BY <1>0, <1>1, <1>3, <1>6, <2>3, <3>1 DEF Counters
  <2> QED
    BY <2>1, <2>2, <2>3
<1>7. ASSUME NEW w \in Workers, FinishRecord(w)
      PROVE  d.count = d.success + d.failure /\ d.mismatch <= d.failure
  <2>1. c.count = c.success + c.failure
    BY <1>0, <1>1, <1>4, <1>7 DEF Counters
  <2>2. CASE n = StepOf(w).name /\ outcome[w] = "mismatch"
    <3>1. d = [c EXCEPT !.mismatch = @ + 1]
      BY <1>7, <2>2, CounterEffects
    <3>2. /\ d.count = c.count /\ d.success = c.success
          /\ d.failure = c.failure /\ d.mismatch = c.mismatch + 1
      BY <1>0, <3>1 DEF Counters
    <3>3. c.mismatch < c.failure
      BY <1>1, <1>7, <2>2 DEF FinishRecord
    <3> QED
      BY <1>0, <2>1, <3>2, <3>3 DEF Counters
  <2>3. CASE ~(n = StepOf(w).name /\ outcome[w] = "mismatch")
    BY <1>1, <1>7, <2>1, <2>3, CounterEffects
  <2> QED
    BY <2>2, <2>3
<1>9. d \in Counters
  BY TypeStep DEF TypeOK, SharedTypeOK
<1>8. CASE \E w \in Workers : BeginRecord(w) \/ AddOutcome(w) \/ FinishRecord(w)
  <2>1. PICK w \in Workers : BeginRecord(w) \/ AddOutcome(w) \/ FinishRecord(w)
    BY <1>8
  <2>2. CASE BeginRecord(w)
    BY <1>2, <1>5, <2>2
  <2>3. CASE AddOutcome(w)
    <3>1. d.count = d.success + d.failure + (IF Tallying(n)' THEN 1 ELSE 0)
      BY <1>3, <1>6, <1>9, <2>3 DEF Counters
    <3> QED
      BY <1>3, <1>6, <2>3, <3>1
  <2>4. CASE FinishRecord(w)
    <3>1. d.count = d.success + d.failure + (IF Tallying(n)' THEN 1 ELSE 0)
      BY <1>4, <1>7, <1>9, <2>4 DEF Counters
    <3> QED
      BY <1>4, <1>7, <2>4, <3>1
  <2> QED
    BY <2>1, <2>2, <2>3, <2>4
<1>10. CASE \A w \in Workers : ~(BeginRecord(w) \/ AddOutcome(w) \/ FinishRecord(w))
  BY <1>1, <1>10, CounterFrames DEF StepOf
<1> QED
  BY <1>8, <1>10

\* Outside the critical section every entry of the aggregate adds up.
THEOREM CountersAlwaysAddUp == Spec => []CountersAddUp
<1>1. TypedMutex /\ CounterInv /\ [Next]_vars => (TypedMutex /\ CounterInv)'
  BY MutexStep, TypeStep, CounterStep DEF TypedMutex
<1>2. TypedMutex /\ CounterInv => CountersAddUp
  <2> SUFFICES ASSUME TypedMutex, CounterInv, lock = 0, NEW n \in Names
               PROVE  /\ stats[n].count = stats[n].success + stats[n].failure
                      /\ stats[n].mismatch <= stats[n].failure
    BY DEF CountersAddUp
  <2>1. stats[n] \in Counters /\ ~Tallying(n)
    BY DEF TypedMutex, TypeOK, SharedTypeOK, Tallying
  <2> QED
    BY <2>1 DEF CounterInv, Counters
<1> QED
  BY <1>1, <1>2, TypedMutexInit, CounterInit, PTL DEF Spec

--------------------------------------------------------------------------------
(***************************************************************************)
(* What was recorded shows in the aggregate.                               *)
(***************************************************************************)
\* A step of the run never takes anything out of the aggregate, and adds a
\* success only together with an entry of the history.
LEMMA AggregateGrows ==
  ASSUME TypedMutex, [Next]_vars
  PROVE  /\ scenario' = scenario
         /\ entries \subseteq entries'
         /\ \A n \in Names : stats'[n].failure >= stats[n].failure
         /\ (\A w \in Workers : ~AddOutcome(w)) =>
              log' = log /\ \A n \in Names : stats'[n].success = stats[n].success
<1> DEFINE Grows(n) == stats'[n].failure >= stats[n].failure
           Same(n)  == stats'[n].success = stats[n].success
<1>1. scenario' = scenario
  BY DEF Next, Bookkeeping, StepEnds, Caller, LoopGuard, StepGuard, EndIteration,
     RunStep, Raise, BeginRecord, AddOutcome, FinishRecord, BeginCapture,
     FinishCapture, Join, JoinTimesOut, StartReading, ReadEntry, IterationFails,
     Total, Return, Expire, Over, vars
<1>2. \A n \in Names : stats[n] \in Counters
  BY DEF TypedMutex, TypeOK, SharedTypeOK
<1>3. ASSUME NEW w \in Workers, BeginRecord(w)
      PROVE  entries \subseteq entries' /\ log' = log
               /\ \A n \in Names : Grows(n) /\ Same(n)
  <2>1. entries \subseteq entries' /\ log' = log
    BY <1>3 DEF BeginRecord
  <2>2. ASSUME NEW n \in Names PROVE Grows(n) /\ Same(n)
    <3>1. stats'[n] = [stats[n] EXCEPT !.count = @ + 1] \/ stats'[n] = stats[n]
      BY <1>3, CounterEffects
    <3> QED
      BY <1>2, <3>1 DEF Counters
  <2> QED
    BY <2>1, <2>2
<1>4. ASSUME NEW w \in Workers, AddOutcome(w)
      PROVE  entries \subseteq entries' /\ \A n \in Names : Grows(n)
  <2>1. entries \subseteq entries'
    BY <1>4 DEF AddOutcome
  <2>2. ASSUME NEW n \in Names PROVE Grows(n)
    <3>1. \/ stats'[n] = [stats[n] EXCEPT !.success = @ + 1]
          \/ stats'[n] = [stats[n] EXCEPT !.failure = @ + 1]
          \/ stats'[n] = stats[n]
      BY <1>4, CounterEffects
    <3> QED
      BY <1>2, <3>1 DEF Counters
  <2> QED
    BY <2>1, <2>2
<1>5. ASSUME NEW w \in Workers, FinishRecord(w)
      PROVE  entries \subseteq entries' /\ log' = log
               /\ \A n \in Names : Grows(n) /\ Same(n)
  <2>1. entries \subseteq entries' /\ log' = log
    BY <1>5 DEF FinishRecord
  <2>2. ASSUME NEW n \in Names PROVE Grows(n) /\ Same(n)
    <3>1. stats'[n] = [stats[n] EXCEPT !.mismatch = @ + 1] \/ stats'[n] = stats[n]
      BY <1>5, CounterEffects
    <3> QED
      BY <1>2, <3>1 DEF Counters
  <2> QED
    BY <2>1, <2>2
<1>6. CASE \A w \in Workers : ~(BeginRecord(w) \/ AddOutcome(w) \/ FinishRecord(w))
  BY <1>1, <1>2, <1>6, CounterFrames DEF Counters
<1> QED
  BY <1>1, <1>3, <1>4, <1>5, <1>6

LEMMA TraceInit == Init => TraceInv
  BY DEF Init, TraceInv, Zero

LEMMA TraceStep == TypedMutex /\ TraceInv /\ [Next]_vars => TraceInv'
<1> SUFFICES ASSUME TypedMutex, TraceInv, [Next]_vars PROVE TraceInv'
  OBVIOUS
<1>0. /\ pc \in [Workers -> Pcs] /\ idx \in [Workers -> Nat \ {0}]
      /\ outcome \in [Workers -> Outcomes]
      /\ log \in [Workers -> Seq(Entry)]
      /\ \A n \in Names : stats[n] \in Counters /\ stats'[n] \in Counters
  BY TypeStep DEF TypedMutex, TypeOK, WorkerTypeOK, SharedTypeOK
<1>1. \A w \in Workers : pc'[w] = "tally" => StepOf(w)'.name \in entries'
  <2>1. CASE \E w \in Workers : BeginRecord(w)
    <3>1. PICK w \in Workers : BeginRecord(w)
      BY <2>1
    <3>2. \A v \in Workers \ {w} : pc'[v] # "tally"
      BY <1>0, <3>1 DEF BeginRecord, LockFree, TypedMutex, MutexInv, Inside,
         TypeOK, SharedTypeOK, Workers
    <3>3. StepOf(w)'.name \in entries'
      BY <3>1 DEF BeginRecord, StepOf
    <3> QED
      BY <3>2, <3>3
  <2>2. CASE \E w \in Workers : AddOutcome(w) \/ FinishRecord(w)
    BY <1>0, <2>2 DEF AddOutcome, FinishRecord, TypedMutex, MutexInv, Inside
  <2>3. CASE \A w \in Workers : ~(BeginRecord(w) \/ AddOutcome(w) \/ FinishRecord(w))
    BY <2>3, CounterFrames DEF TraceInv, StepOf
  <2> QED
    BY <2>1, <2>2, <2>3
<1>2. CASE \A w \in Workers : ~AddOutcome(w)
  <2>1. log' = log /\ scenario' = scenario /\ entries \subseteq entries'
    BY <1>2, AggregateGrows
  <2>2. \A n \in Names : stats[n].success > 0 <=> stats'[n].success > 0
    BY <1>2, AggregateGrows
  <2>3. \A w \in Workers : \A i \in DOMAIN log[w] :
          scenario.steps[log[w][i].step].name \in Names
    BY DEF TraceInv, TypedMutex, TypeOK, SharedTypeOK
  <2>4. \A n \in Names : stats[n].failure > 0 => stats'[n].failure > 0
    BY <1>0, AggregateGrows DEF Counters
  <2> QED
    BY <1>1, <2>1, <2>2, <2>3, <2>4 DEF TraceInv, Failed
<1>3. ASSUME NEW w \in Workers, AddOutcome(w) PROVE TraceInv'
  <2> DEFINE e == [step |-> idx[w], outcome |-> outcome[w]]
  <2> DEFINE Good(x) ==
        /\ x.step <= Len(scenario.steps)
        /\ scenario.steps[x.step].name \in entries
        /\ Failed(x) => stats'[scenario.steps[x.step].name].failure > 0
  <2>1. /\ log'[w] = Append(log[w], e)
        /\ \A v \in Workers \ {w} : log'[v] = log[v]
        /\ entries' = entries /\ scenario' = scenario
    BY <1>0, <1>3 DEF AddOutcome
  <2>2. e \in Entry
    BY <1>0 DEF Entry
  <2>3. Good(e)
    <3>1. idx[w] <= Len(scenario.steps) /\ StepOf(w).name \in entries
      BY <1>3, StepTyped DEF AddOutcome, AtStep, TraceInv, TypedMutex
    <3>2. StepOf(w).name \in Names
      BY <3>1 DEF TypedMutex, TypeOK, SharedTypeOK
    <3>3. outcome[w] # "ok" => stats'[StepOf(w).name].failure > 0
      <4>1. ASSUME outcome[w] # "ok"
            PROVE  stats'[StepOf(w).name] = [stats[StepOf(w).name] EXCEPT !.failure = @ + 1]
        BY <1>3, <3>2, <4>1, CounterEffects
      <4> QED
        BY <1>0, <3>2, <4>1 DEF Counters
    <3> QED
      BY <3>1, <3>3 DEF StepOf, Failed
  <2>4. \A v \in Workers : \A i \in DOMAIN log[v] : Good(log[v][i])
    <3> SUFFICES ASSUME NEW v \in Workers, NEW i \in DOMAIN log[v] PROVE Good(log[v][i])
      OBVIOUS
    <3> DEFINE n == scenario.steps[log[v][i].step].name
    <3>1. /\ log[v][i].step <= Len(scenario.steps)
          /\ n \in entries
          /\ Failed(log[v][i]) => stats[n].failure > 0
      BY DEF TraceInv
    <3>2. n \in Names
      BY <3>1 DEF TypedMutex, TypeOK, SharedTypeOK
    <3>3. /\ stats'[n].failure >= stats[n].failure
          /\ stats[n].failure \in Nat /\ stats'[n].failure \in Nat
      BY <1>0, <3>2, AggregateGrows DEF Counters
    <3> HIDE DEF n
    <3>4. Failed(log[v][i]) => stats'[n].failure > 0
      BY <3>1, <3>3
    <3> QED
      BY <3>1, <3>4 DEF n
  <2>5. ASSUME NEW v \in Workers, NEW i \in DOMAIN log'[v] PROVE Good(log'[v][i])
    <3>1. CASE v # w
      BY <2>1, <2>4, <2>5, <3>1
    <3>2. CASE v = w
      <4>1. log[w] \in Seq(Entry)
        BY <1>0
      <4>2. i \in 1..Len(log[w]) \/ i = Len(log[w]) + 1
        BY <2>1, <2>2, <2>5, <3>2, <4>1, AppendProperties
      <4>3. CASE i \in 1..Len(log[w])
        BY <2>1, <2>2, <2>4, <3>2, <4>1, <4>3, AppendProperties
      <4>4. CASE i = Len(log[w]) + 1
        BY <2>1, <2>2, <2>3, <3>2, <4>1, <4>4, AppendProperties
      <4> QED
        BY <4>2, <4>3, <4>4
    <3> QED
      BY <3>1, <3>2
  <2>6. log'[w] # <<>>
    BY <1>0, <2>1, <2>2, AppendProperties
  <2> QED
    BY <1>1, <2>1, <2>5, <2>6 DEF TraceInv, Failed
<1> QED
  BY <1>2, <1>3

--------------------------------------------------------------------------------
(***************************************************************************)
(* The calling thread and the exported variables.                          *)
(***************************************************************************)
\* A worker that has ended does nothing any more.
LEMMA EndedStays ==
  ASSUME TypedMutex, [Next]_vars, NEW w \in Workers, pc[w] \in Ended
  PROVE  pc'[w] = pc[w] /\ version'[w] = version[w]
<1>0. pc \in [Workers -> Pcs] /\ version \in [Workers -> Nat]
  BY DEF TypedMutex, TypeOK, WorkerTypeOK
<1>1. ASSUME NEW v \in Workers, Bookkeeping(v) \/ StepEnds(v)
      PROVE  pc'[w] = pc[w] /\ version'[w] = version[w]
  <2>1. v # w
    BY <1>1 DEF Bookkeeping, StepEnds, LoopGuard, StepGuard, EndIteration, RunStep,
       Raise, BeginRecord, AddOutcome, FinishRecord, BeginCapture, FinishCapture, Ended
  <2>2. CASE LoopGuard(v) \/ StepGuard(v) \/ EndIteration(v)
    BY <1>0, <2>1, <2>2 DEF LoopGuard, StepGuard, EndIteration
  <2>3. CASE StepEnds(v)
    BY <1>0, <2>1, <2>3 DEF StepEnds, RunStep, Raise
  <2>4. CASE BeginRecord(v) \/ AddOutcome(v) \/ FinishRecord(v)
    BY <1>0, <2>1, <2>4 DEF BeginRecord, AddOutcome, FinishRecord
  <2>5. CASE BeginCapture(v) \/ FinishCapture(v)
    BY <1>0, <2>1, <2>5 DEF BeginCapture, FinishCapture
  <2> QED
    BY <1>1, <2>2, <2>3, <2>4, <2>5 DEF Bookkeeping
<1>2. CASE Caller \/ Expire \/ Over \/ UNCHANGED vars
  <2>1. UNCHANGED worker
    BY <1>2 DEF Caller, Join, JoinTimesOut, StartReading, ReadEntry,
       IterationFails, Total, Return, Expire, Over, vars
  <2> QED
    BY <2>1 DEF worker
<1> QED
  BY <1>1, <1>2 DEF Next

\* When all workers have ended, nothing of theirs changes.
LEMMA QuietWhenOver ==
  ASSUME [Next]_vars, \A w \in Workers : pc[w] \in Ended
  PROVE  UNCHANGED <<worker, shared, log>>
<1>1. \A w \in Workers : ~(Bookkeeping(w) \/ StepEnds(w))
  BY DEF Bookkeeping, StepEnds, LoopGuard, StepGuard, EndIteration, RunStep,
     Raise, BeginRecord, AddOutcome, FinishRecord, BeginCapture, FinishCapture, Ended
<1>2. Caller \/ Expire \/ Over \/ UNCHANGED vars
  BY <1>1 DEF Next
<1> QED
  BY <1>2 DEF Caller, Join, JoinTimesOut, StartReading, ReadEntry,
     IterationFails, Total, Return, Expire, Over, vars

\* Past the joins, a run that missed nobody has no worker left.
LEMMA AllOver ==
  ASSUME TypedMutex, CallerInv, main # "joining", missed = {}
  PROVE  \A w \in Workers : pc[w] \in Ended
  BY DEF CallerInv, ThreadOver, Workers

LEMMA CallerInit == Init => CallerInv
  BY DEF Init, CallerInv, Workers, Zero

LEMMA CallerStep == TypedMutex /\ CallerInv /\ [Next]_vars => CallerInv'
<1> SUFFICES ASSUME TypedMutex, CallerInv, [Next]_vars PROVE CallerInv'
  OBVIOUS
<1>0. /\ joining \in 1..(Users + 1) /\ missed \subseteq Workers
      /\ main \in {"joining", "reading", "totalled", "reported", "aborted"}
      /\ report \in [Names -> Counters] /\ entries \subseteq Names
      /\ result \in [verdict : {"none", "PASS", "FAIL"}, vars : Moment]
  BY DEF TypedMutex, TypeOK, CallerTypeOK, SharedTypeOK
<1>1. CASE UNCHANGED caller
  <2>1. \A w \in 1..(joining - 1) : w \in missed \/ ThreadOver(w)'
    BY <1>0, EndedStays DEF CallerInv, ThreadOver, Workers
  <2>2. main # "joining" /\ missed = {} => UNCHANGED <<entries, stats>>
    BY AllOver, QuietWhenOver DEF shared
  <2> QED
    BY <1>1, <2>1, <2>2 DEF CallerInv, caller, Verdict, Passes
<1>2. CASE Join
  BY <1>0, <1>2 DEF Join, CallerInv, ThreadOver, worker, shared, Workers
<1>3. CASE JoinTimesOut
  BY <1>0, <1>3 DEF JoinTimesOut, CallerInv, ThreadOver, worker, shared, Workers
<1>4. CASE StartReading
  BY <1>0, <1>4 DEF StartReading, CallerInv, ThreadOver, worker, shared
<1>5. CASE ReadEntry
  <2>1. PICK n \in toRead : /\ report' = [report EXCEPT ![n] = stats[n]]
                            /\ toRead' = toRead \ {n}
    BY <1>5 DEF ReadEntry
  <2>2. /\ main = "reading" /\ entries = sized
        /\ UNCHANGED <<pc, entries, stats, main, joining, missed, sized, result>>
    BY <1>5 DEF ReadEntry, worker, shared
  <2>3. \A m \in Names : report'[m] # Zero => m \in sized \ toRead'
    BY <1>0, <2>1, <2>2 DEF CallerInv, TypedMutex, TypeOK, CallerTypeOK
  <2>4. missed = {} =>
          \A m \in entries \ toRead' : report'[m] = stats[m]
    BY <1>0, <2>1, <2>2 DEF CallerInv
  <2> QED
    BY <2>1, <2>2, <2>3, <2>4 DEF CallerInv, ThreadOver
<1>6. CASE IterationFails
  BY <1>0, <1>6 DEF IterationFails, CallerInv, ThreadOver, worker, shared
<1>7. CASE Total
  <2>1. result'.verdict = Verdict(report)
    BY <1>0, <1>7 DEF Total
  <2>2. /\ main = "reading" /\ main' = "totalled" /\ toRead = {}
        /\ UNCHANGED <<pc, entries, stats, joining, missed, toRead, sized, report>>
    BY <1>7 DEF Total, worker, shared
  <2> QED
    BY <2>1, <2>2 DEF CallerInv, ThreadOver, Verdict, Passes
<1>8. CASE Return
  <2>1. result'.verdict = result.verdict
    BY <1>0, <1>8 DEF Return
  <2>2. /\ main = "totalled" /\ main' = "reported"
        /\ UNCHANGED <<pc, entries, stats, joining, missed, toRead, sized, report>>
    BY <1>8 DEF Return, worker, shared
  <2> QED
    BY <2>1, <2>2 DEF CallerInv, ThreadOver, Verdict, Passes
<1>9. Caller \/ UNCHANGED caller
  BY DEF Next, Bookkeeping, StepEnds, LoopGuard, StepGuard, EndIteration, RunStep,
     Raise, BeginRecord, AddOutcome, FinishRecord, BeginCapture, FinishCapture,
     Expire, Over, vars
<1> QED
  BY <1>1, <1>2, <1>3, <1>4, <1>5, <1>6, <1>7, <1>8, <1>9 DEF Caller

\* PASS is never reported over a recorded failure by a run that waited for
\* all of its workers.
THEOREM PassIsSound == Spec => []PassMeansNoFailure
<1> DEFINE I == TypedMutex /\ TraceInv /\ CallerInv
<1>1. I /\ [Next]_vars => I'
  BY MutexStep, TypeStep, TraceStep, CallerStep DEF TypedMutex
<1>2. I => PassMeansNoFailure
  <2> SUFFICES ASSUME TypedMutex, TraceInv, CallerInv,
                      Totalled, result.verdict = "PASS"
               PROVE  /\ \A w \in Workers : \A i \in DOMAIN log[w] : ~Failed(log[w][i])
                      /\ \E w \in Workers : log[w] # <<>>
    BY DEF PassMeansNoFailure
  <2>1. Passes(report)
    BY DEF CallerInv, Totalled, Verdict
  <2>2. \A n \in entries : report[n] = stats[n]
    BY DEF CallerInv, Totalled
  <2>3. entries \subseteq Names
    BY DEF TypedMutex, TypeOK, SharedTypeOK
  <2>4. ASSUME NEW w \in Workers, NEW i \in DOMAIN log[w], Failed(log[w][i])
        PROVE  FALSE
    <3> DEFINE n == scenario.steps[log[w][i].step].name
    <3>1. n \in entries /\ stats[n].failure > 0
      BY <2>4 DEF TraceInv
    <3>2. report[n].failure = 0 /\ report[n] = stats[n]
      BY <2>1, <2>2, <2>3, <3>1 DEF Passes
    <3> QED
      BY <3>1, <3>2
  <2>5. PICK n \in Names : report[n].success > 0
    BY <2>1 DEF Passes
  <2>6. report[n] # Zero
    BY <2>5 DEF Zero
  <2>7. n \in entries
    BY <2>6 DEF CallerInv, Totalled
  <2> QED
    BY <2>2, <2>4, <2>5, <2>7 DEF TraceInv
<1> HIDE DEF I
<1>3. Init => I
  BY TypedMutexInit, TraceInit, CallerInit DEF I
<1> QED
  BY <1>1, <1>2, <1>3, PTL DEF Spec

LEMMA ExportInit == Init => ExportInv
  BY DEF Init, ExportInv, Captured, Ended

LEMMA ExportStep == TypedMutex /\ CallerInv /\ ExportInv /\ [Next]_vars => ExportInv'
<1> SUFFICES ASSUME TypedMutex, CallerInv, ExportInv, [Next]_vars PROVE ExportInv'
  OBVIOUS
<1>0. /\ pc \in [Workers -> Pcs] /\ version \in [Workers -> Nat]
      /\ after \in [Workers -> {"loop", "completed", "expired", "stopped"}]
      /\ result \in [verdict : {"none", "PASS", "FAIL"}, vars : Moment]
      /\ \A w \in Workers : w # 0
  BY DEF TypedMutex, TypeOK, WorkerTypeOK, CallerTypeOK, Workers
<1>1. main' = "reported" /\ missed' = {} => result'.vars = exported'
  <2>1. CASE Return
    BY <1>0, <2>1 DEF Return, shared
  <2>2. CASE main = "reported" /\ missed = {}
    <3>1. exported' = exported
      BY <2>2, AllOver, QuietWhenOver DEF shared
    <3>2. result' = result
      BY <2>2 DEF Next, Bookkeeping, StepEnds, Caller, LoopGuard, StepGuard,
         EndIteration, RunStep, Raise, BeginRecord, AddOutcome, FinishRecord,
         BeginCapture, FinishCapture, Join, JoinTimesOut, StartReading, ReadEntry,
         IterationFails, Total, Return, Expire, Over, vars, caller
    <3> QED
      BY <2>2, <3>1, <3>2 DEF ExportInv
  <2>3. ASSUME ~Return, main' = "reported" /\ missed' = {}
        PROVE  main = "reported" /\ missed = {}
    BY <2>3 DEF Next, Bookkeeping, StepEnds, Caller, LoopGuard, StepGuard,
       EndIteration, RunStep, Raise, BeginRecord, AddOutcome, FinishRecord,
       BeginCapture, FinishCapture, Join, JoinTimesOut, StartReading, ReadEntry,
       IterationFails, Total, Expire, Over, vars, caller
  <2> QED
    BY <2>1, <2>2, <2>3
<1>2. CASE \E w \in Workers : BeginCapture(w)
  BY <1>0, <1>1, <1>2 DEF BeginCapture, ExportInv, Captured, Ended, Cleared
<1>3. CASE \E w \in Workers : FinishCapture(w)
  BY <1>0, <1>1, <1>3 DEF FinishCapture, ExportInv, Captured, Snapshot
<1>4. ASSUME \A w \in Workers : ~(BeginCapture(w) \/ FinishCapture(w)), NEW w \in Workers
      PROVE  /\ exported' = exported
             /\ pc'[w] \in Captured => pc[w] = pc'[w] /\ version'[w] = version[w]
             /\ pc[w] = "update" => pc'[w] = "update"
  <2>1. ASSUME NEW v \in Workers, Bookkeeping(v) \/ StepEnds(v)
        PROVE  /\ exported' = exported
               /\ \A u \in Workers \ {v} : pc'[u] = pc[u] /\ version'[u] = version[u]
               /\ pc'[v] \notin Captured /\ pc[v] # "update"
    <3>1. CASE LoopGuard(v) \/ StepGuard(v) \/ EndIteration(v)
      BY <1>0, <3>1 DEF LoopGuard, StepGuard, EndIteration, shared, Captured, Ended
    <3>2. CASE StepEnds(v)
      BY <1>0, <3>2 DEF StepEnds, RunStep, Raise, shared, Captured, Ended
    <3>3. CASE BeginRecord(v) \/ AddOutcome(v) \/ FinishRecord(v)
      BY <1>0, <3>3 DEF BeginRecord, AddOutcome, FinishRecord, Captured, Ended
    <3> QED
      BY <1>4, <2>1, <3>1, <3>2, <3>3 DEF Bookkeeping
  <2>2. CASE Caller \/ Expire \/ Over \/ UNCHANGED vars
    <3>1. UNCHANGED <<worker, shared>>
      BY <2>2 DEF Caller, Join, JoinTimesOut, StartReading, ReadEntry,
         IterationFails, Total, Return, Expire, Over, vars
    <3> QED
      BY <3>1 DEF worker, shared
  <2> QED
    BY <2>1, <2>2 DEF Next
<1>5. CASE \A w \in Workers : ~(BeginCapture(w) \/ FinishCapture(w))
  BY <1>1, <1>4, <1>5 DEF ExportInv
<1> QED
  BY <1>2, <1>3, <1>5

\* The variables of a report are the final variables of one of the workers,
\* when the run waited for all of them and none of them died.
THEOREM ReportedVarsAreSound == Spec => []ReportedVarsAreFinal
<1> DEFINE I == TypedMutex /\ CallerInv /\ ExportInv
<1>1. I /\ [Next]_vars => I'
  BY MutexStep, TypeStep, CallerStep, ExportStep DEF TypedMutex
<1>2. I => ReportedVarsAreFinal
  <2> SUFFICES ASSUME TypedMutex, CallerInv, ExportInv, main = "reported", missed = {},
                      \A w \in Workers : pc[w] # "crashed"
               PROVE  \E w \in Workers : result.vars = [by |-> w, version |-> version[w]]
    BY DEF ReportedVarsAreFinal
  <2>1. \A w \in Workers : pc[w] \in Captured
    BY AllOver DEF Captured
  <2>2. 1 \in Workers
    BY DEF Workers
  <2>3. exported.by # 0
    BY <2>1, <2>2 DEF ExportInv, Captured, Ended
  <2>4. exported \in Moment
    BY DEF TypedMutex, TypeOK, SharedTypeOK
  <2>5. exported.by \in Workers
    BY <2>3, <2>4 DEF Moment, Workers
  <2>6. exported.version = version[exported.by]
    BY <2>1, <2>5 DEF ExportInv
  <2>7. exported = [by |-> exported.by, version |-> exported.version]
    BY <2>4 DEF Moment
  <2> QED
    BY <2>5, <2>6, <2>7 DEF ExportInv
<1> HIDE DEF I
<1>3. Init => I
  BY TypedMutexInit, CallerInit, ExportInit DEF I
<1> QED
  BY <1>1, <1>2, <1>3, PTL DEF Spec

--------------------------------------------------------------------------------
(***************************************************************************)
(* The report counts exactly what was recorded.                            *)
(***************************************************************************)
EntryAt(r)     == log[r[1]][r[2]]
Under(n)       == {r \in Recorded : scenario.steps[EntryAt(r).step].name = n}
FailedUnder(n) == {r \in Under(n) : Failed(EntryAt(r))}

\* The counters of an entry count what was recorded under its name, but for
\* the execution being recorded right now.
CountInv ==
  /\ IsFiniteSet(Recorded)
  /\ \A n \in Names :
       /\ stats[n].count = Cardinality(Under(n)) + (IF Tallying(n) THEN 1 ELSE 0)
       /\ stats[n].failure = Cardinality(FailedUnder(n))

\* What is recorded, as pairs.
LEMMA RecordedPairs ==
  \A r : r \in Recorded <=> \E w \in Workers : \E i \in DOMAIN log[w] : r = <<w, i>>
  BY DEF Recorded

LEMMA CountInit == Init => CountInv
<1> SUFFICES ASSUME Init PROVE CountInv
  OBVIOUS
<1>1. Recorded = {}
  BY RecordedPairs DEF Init
<1>2. \A n \in Names : Under(n) = {} /\ FailedUnder(n) = {}
  BY <1>1 DEF Under, FailedUnder
<1>3. \A n \in Names : stats[n].count = 0 /\ stats[n].failure = 0 /\ Tallying(n) = FALSE
  BY DEF Init, Zero, Tallying
<1>4. Cardinality({}) = 0 /\ IsFiniteSet({})
  BY FS_EmptySet
<1>5. \A n \in Names : Cardinality(Under(n)) = 0 /\ Cardinality(FailedUnder(n)) = 0
  BY <1>2, <1>4, Zenon
<1>6. IsFiniteSet(Recorded)
  BY <1>1, <1>4, Zenon
<1> QED
  BY <1>3, <1>5, <1>6 DEF CountInv

\* Recording one more execution adds one pair.
LEMMA RecordedGrows ==
  ASSUME TypedMutex, TraceInv, NEW w \in Workers, AddOutcome(w),
         NEW r, r = <<w, Len(log[w]) + 1>>
  PROVE  /\ r \notin Recorded
         /\ Recorded' = Recorded \cup {r}
         /\ EntryAt(r)' = [step |-> idx[w], outcome |-> outcome[w]]
         /\ \A s \in Recorded : EntryAt(s)' = EntryAt(s)
<1> DEFINE e == [step |-> idx[w], outcome |-> outcome[w]]
<1>0. log \in [Workers -> Seq(Entry)] /\ e \in Entry
  BY DEF TypedMutex, TypeOK, WorkerTypeOK, Entry
<1>1. /\ log'[w] = Append(log[w], e)
      /\ \A v \in Workers \ {w} : log'[v] = log[v]
  BY <1>0 DEF AddOutcome
<1>2. /\ DOMAIN log[w] = 1..Len(log[w]) /\ Len(log[w]) \in Nat
      /\ DOMAIN log'[w] = (1..Len(log[w])) \cup {Len(log[w]) + 1}
      /\ \A i \in 1..Len(log[w]) : log'[w][i] = log[w][i]
      /\ log'[w][Len(log[w]) + 1] = e
  <2>1. log[w] \in Seq(Entry)
    BY <1>0
  <2>2. /\ Len(log'[w]) = Len(log[w]) + 1 /\ log'[w] \in Seq(Entry)
        /\ \A i \in 1..Len(log[w]) : log'[w][i] = log[w][i]
        /\ log'[w][Len(log[w]) + 1] = e
    BY <1>0, <1>1, <2>1, AppendProperties
  <2>3. 1..(Len(log[w]) + 1) = (1..Len(log[w])) \cup {Len(log[w]) + 1}
    BY <2>1
  <2> QED
    BY <2>1, <2>2, <2>3
<1> HIDE DEF e
<1>3. r \notin Recorded
  <2> SUFFICES ASSUME NEW v \in Workers, NEW i \in DOMAIN log[v], r = <<v, i>>
               PROVE  FALSE
    BY RecordedPairs
  <2> QED
    BY <1>2
<1>4. \A s : s \in Recorded' <=> \E v \in Workers : \E i \in DOMAIN log'[v] : s = <<v, i>>
  BY DEF Recorded
<1>5. Recorded' \subseteq Recorded \cup {r}
  <2> SUFFICES ASSUME NEW v \in Workers, NEW i \in DOMAIN log'[v]
               PROVE  <<v, i>> \in Recorded \cup {r}
    BY <1>4
  <2>1. CASE v = w
    BY <1>2, <2>1, RecordedPairs
  <2>2. CASE v # w
    BY <1>1, <2>2, RecordedPairs
  <2> QED
    BY <2>1, <2>2
<1>6. Recorded \subseteq Recorded'
  <2> SUFFICES ASSUME NEW v \in Workers, NEW i \in DOMAIN log[v]
               PROVE  <<v, i>> \in Recorded'
    BY DEF Recorded
  <2>1. i \in DOMAIN log'[v]
    <3>1. CASE v = w
      BY <1>2, <3>1
    <3>2. CASE v # w
      BY <1>1, <3>2
    <3> QED
      BY <3>1, <3>2
  <2> QED
    BY <1>4, <2>1
<1>7. r \in Recorded'
  BY <1>2, <1>4
<1>8. EntryAt(r)' = e
  BY <1>2 DEF EntryAt
<1>9. ASSUME NEW s \in Recorded PROVE EntryAt(s)' = EntryAt(s)
  <2>1. PICK v \in Workers : \E i \in DOMAIN log[v] : s = <<v, i>>
    BY <1>9, RecordedPairs
  <2>2. PICK i \in DOMAIN log[v] : s = <<v, i>>
    BY <2>1
  <2>3. log'[v][i] = log[v][i]
    <3>1. CASE v = w
      BY <1>2, <3>1
    <3>2. CASE v # w
      BY <1>1, <3>2
    <3> QED
      BY <3>1, <3>2
  <2> QED
    BY <2>2, <2>3 DEF EntryAt
<1> QED
  BY <1>3, <1>5, <1>6, <1>7, <1>8, <1>9 DEF e

\* The sets that are counted are finite.
LEMMA UnderFinite ==
  ASSUME IsFiniteSet(Recorded), NEW n
  PROVE  /\ IsFiniteSet(Under(n)) /\ IsFiniteSet(FailedUnder(n))
         /\ Cardinality(Under(n)) \in Nat /\ Cardinality(FailedUnder(n)) \in Nat
<1>1. Under(n) \in SUBSET Recorded /\ FailedUnder(n) \in SUBSET Recorded
  BY DEF Under, FailedUnder
<1>2. IsFiniteSet(Under(n)) /\ IsFiniteSet(FailedUnder(n))
  BY <1>1, FS_Subset
<1> QED
  BY <1>2, FS_CardinalityType

\* Steps that record nothing leave the sets that are counted.
LEMMA UnderFrames ==
  ASSUME log' = log, scenario' = scenario
  PROVE  /\ Recorded' = Recorded
         /\ \A n : Under(n)' = Under(n) /\ FailedUnder(n)' = FailedUnder(n)
<1>1. Recorded' = Recorded
  BY DEF Recorded
<1> QED
  BY <1>1 DEF Under, FailedUnder, EntryAt, Failed

LEMMA CountStep == TypedMutex /\ TraceInv /\ CountInv /\ [Next]_vars => CountInv'
<1> SUFFICES ASSUME TypedMutex, TraceInv, CountInv, [Next]_vars PROVE CountInv'
  OBVIOUS
<1>0. /\ pc \in [Workers -> Pcs] /\ outcome \in [Workers -> Outcomes]
      /\ stats \in [Names -> Counters]
      /\ \A n \in Names : stats[n].count \in Nat /\ stats[n].failure \in Nat
      /\ \A w \in Workers : w # 0
  BY DEF TypedMutex, TypeOK, WorkerTypeOK, SharedTypeOK, Workers, Counters
<1>1. CASE \A w \in Workers : ~(BeginRecord(w) \/ AddOutcome(w) \/ FinishRecord(w))
  <2>1. stats' = stats /\ log' = log /\ scenario' = scenario
    BY <1>1, CounterFrames, AggregateGrows
  <2>2. \A n \in Names : Tallying(n)' <=> Tallying(n)
    BY <1>1, CounterFrames
  <2> QED
    BY <2>1, <2>2, UnderFrames DEF CountInv
<1>2. ASSUME NEW w \in Workers, BeginRecord(w) PROVE CountInv'
  <2>1. log' = log /\ scenario' = scenario
    BY <1>2 DEF BeginRecord
  <2>2. lock = 0 /\ lock' = w /\ pc'[w] = "tally" /\ StepOf(w)' = StepOf(w)
    BY <1>0, <1>2 DEF BeginRecord, LockFree, StepOf
  <2>3. \A n \in Names : Tallying(n) = FALSE
    BY <2>2 DEF Tallying
  <2>4. \A n \in Names : Tallying(n)' <=> StepOf(w).name = n
    BY <1>0, <2>2 DEF Tallying
  <2>5. \A n \in Names :
          stats'[n] = IF n = StepOf(w).name
                      THEN [stats[n] EXCEPT !.count = @ + 1] ELSE stats[n]
    BY <1>2, CounterEffects
  <2>6. \A n \in Names :
          /\ stats'[n].count = stats[n].count + (IF Tallying(n)' THEN 1 ELSE 0)
          /\ stats'[n].failure = stats[n].failure
    <3> SUFFICES ASSUME NEW n \in Names
                 PROVE  /\ stats'[n].count = stats[n].count + (IF Tallying(n)' THEN 1 ELSE 0)
                        /\ stats'[n].failure = stats[n].failure
      OBVIOUS
    <3>1. stats[n] \in Counters
      BY <1>0
    <3>2. CASE n = StepOf(w).name
      BY <2>4, <2>5, <3>1, <3>2 DEF Counters
    <3>3. CASE n # StepOf(w).name
      <4>1. stats'[n] = stats[n]
        BY <2>5, <3>3
      <4>2. (IF Tallying(n)' THEN 1 ELSE 0) = 0
        BY <2>4, <3>3
      <4>3. stats[n].count \in Nat
        BY <1>0
      <4> QED
        BY <4>1, <4>2, <4>3
    <3> QED
      BY <3>2, <3>3
  <2>7. \A n \in Names : stats[n].count = Cardinality(Under(n))
    BY <1>0, <2>3, UnderFinite DEF CountInv
  <2> QED
    BY <2>1, <2>6, <2>7, UnderFrames DEF CountInv
<1>3. ASSUME NEW w \in Workers, FinishRecord(w) PROVE CountInv'
  <2>1. log' = log /\ scenario' = scenario
    BY <1>3 DEF FinishRecord
  <2>2. lock = w /\ pc[w] = "decide" /\ lock' = 0
    BY <1>3 DEF FinishRecord, TypedMutex, MutexInv, Inside
  <2>3. \A n \in Names : Tallying(n) = FALSE /\ Tallying(n)' = FALSE
    BY <2>2 DEF Tallying
  <2>4. \A n \in Names :
          stats'[n] = IF n = StepOf(w).name /\ outcome[w] = "mismatch"
                      THEN [stats[n] EXCEPT !.mismatch = @ + 1] ELSE stats[n]
    BY <1>3, CounterEffects
  <2>5. \A n \in Names : stats'[n].count = stats[n].count /\ stats'[n].failure = stats[n].failure
    BY <1>0, <2>4 DEF Counters
  <2> QED
    BY <2>1, <2>3, <2>5, UnderFrames DEF CountInv
<1>4. ASSUME NEW w \in Workers, AddOutcome(w) PROVE CountInv'
  <2> PICK m : m = StepOf(w).name
    OBVIOUS
  <2> PICK r : r = <<w, Len(log[w]) + 1>>
    OBVIOUS
  <2>1. /\ r \notin Recorded /\ Recorded' = Recorded \cup {r}
        /\ EntryAt(r)'.step = idx[w] /\ EntryAt(r)'.outcome = outcome[w]
        /\ \A s \in Recorded : EntryAt(s)' = EntryAt(s)
    BY <1>4, RecordedGrows
  <2>2. lock = w /\ pc[w] = "tally" /\ pc'[w] = "decide" /\ lock' = lock
        /\ scenario' = scenario
    BY <1>0, <1>4 DEF AddOutcome, TypedMutex, MutexInv, Inside
  <2>3. m \in Names
    BY <2>2, StepTyped DEF TypedMutex, AtStep
  <2>4. \A n \in Names : Tallying(n) <=> n = m
    BY <1>0, <2>2 DEF Tallying
  <2>5. \A n \in Names : Tallying(n)' = FALSE
    BY <2>2 DEF Tallying
  <2>6. scenario'.steps[EntryAt(r)'.step].name = m
    BY <2>1, <2>2 DEF StepOf
  <2>7. \A n \in Names : Under(n)' = IF n = m THEN Under(n) \cup {r} ELSE Under(n)
    <3> DEFINE N(s) == scenario.steps[EntryAt(s).step].name
    <3>1. /\ \A s \in Recorded : N(s)' = N(s)
          /\ N(r)' = m
      BY <2>1, <2>2, <2>6
    <3>2. \A n : Under(n) = {s \in Recorded : N(s) = n}
      BY DEF Under
    <3>3. \A n : Under(n)' = {s \in Recorded' : N(s)' = n}
      BY DEF Under
    <3> HIDE DEF N
    <3> QED
      BY <2>1, <3>1, <3>2, <3>3
  <2>8. \A n \in Names :
          FailedUnder(n)' = IF n = m /\ outcome[w] # "ok"
                            THEN FailedUnder(n) \cup {r} ELSE FailedUnder(n)
    <3>1. Failed(EntryAt(r))' <=> outcome[w] # "ok"
      BY <2>1 DEF Failed
    <3>2. \A s \in Recorded : Failed(EntryAt(s))' <=> Failed(EntryAt(s))
      BY <2>1 DEF Failed
    <3>3. \A n \in Names : Under(n) \subseteq Recorded
      BY DEF Under
    <3> QED
      BY <2>7, <3>1, <3>2, <3>3 DEF FailedUnder
  <2>9. IsFiniteSet(Recorded)'
    BY <2>1, FS_AddElement DEF CountInv
  <2>10. \A n \in Names :
           /\ Cardinality(Under(n) \cup {r}) = Cardinality(Under(n)) + 1
           /\ Cardinality(FailedUnder(n) \cup {r}) = Cardinality(FailedUnder(n)) + 1
    <3>1. \A n \in Names : r \notin Under(n) /\ r \notin FailedUnder(n)
      BY <2>1 DEF Under, FailedUnder
    <3> QED
      BY <3>1, UnderFinite, FS_AddElement DEF CountInv
  <2>11. \A n \in Names :
          stats'[n] = IF n # m THEN stats[n]
                      ELSE IF outcome[w] = "ok"
                      THEN [stats[n] EXCEPT !.success = @ + 1]
                      ELSE [stats[n] EXCEPT !.failure = @ + 1]
    BY <1>4, CounterEffects
  <2>12. \A n \in Names :
          /\ stats'[n].count = stats[n].count
          /\ stats'[n].failure = stats[n].failure
                                   + (IF n = m /\ outcome[w] # "ok" THEN 1 ELSE 0)
    <3> SUFFICES ASSUME NEW n \in Names
                 PROVE  /\ stats'[n].count = stats[n].count
                        /\ stats'[n].failure = stats[n].failure
                                   + (IF n = m /\ outcome[w] # "ok" THEN 1 ELSE 0)
      OBVIOUS
    <3>1. stats[n] \in Counters
      BY <1>0
    <3>2. CASE n = m /\ outcome[w] = "ok"
      <4>1. stats'[n] = [stats[n] EXCEPT !.success = @ + 1]
        BY <2>11, <3>2
      <4> QED
        BY <1>0, <3>1, <3>2, <4>1 DEF Counters
    <3>3. CASE n = m /\ outcome[w] # "ok"
      BY <2>11, <3>1, <3>3 DEF Counters
    <3>4. CASE n # m
      <4>1. stats'[n] = stats[n]
        BY <2>11, <3>4
      <4> QED
        BY <1>0, <3>4, <4>1
    <3> QED
      BY <3>2, <3>3, <3>4
  <2>13. \A n \in Names : stats'[n].count = Cardinality(Under(n)')
    <3> SUFFICES ASSUME NEW n \in Names PROVE stats'[n].count = Cardinality(Under(n)')
      OBVIOUS
    <3>1. Cardinality(Under(n)) \in Nat
      BY UnderFinite DEF CountInv
    <3>2. CASE n = m
      <4>1. Under(n)' = Under(n) \cup {r}
        BY <2>7, <3>2
      <4>2. Cardinality(Under(n)') = Cardinality(Under(n) \cup {r})
        BY <4>1, Zenon
      <4>3. stats[n].count = Cardinality(Under(n)) + 1
        BY <2>4, <3>2 DEF CountInv
      <4> QED
        BY <2>10, <2>12, <4>2, <4>3
    <3>3. CASE n # m
      <4>1. Under(n)' = Under(n)
        BY <2>7, <3>3
      <4>2. Cardinality(Under(n)') = Cardinality(Under(n))
        BY <4>1, Zenon
      <4>3. stats[n].count = Cardinality(Under(n))
        BY <2>4, <3>1, <3>3 DEF CountInv
      <4> QED
        BY <2>12, <4>2, <4>3
    <3> QED
      BY <3>2, <3>3
  <2>14. \A n \in Names : stats'[n].failure = Cardinality(FailedUnder(n)')
    <3> SUFFICES ASSUME NEW n \in Names PROVE stats'[n].failure = Cardinality(FailedUnder(n)')
      OBVIOUS
    <3>1. Cardinality(FailedUnder(n)) \in Nat /\ stats[n].failure = Cardinality(FailedUnder(n))
      BY UnderFinite DEF CountInv
    <3>2. CASE n = m /\ outcome[w] # "ok"
      <4>1. FailedUnder(n)' = FailedUnder(n) \cup {r}
        BY <2>8, <3>2
      <4>2. Cardinality(FailedUnder(n)') = Cardinality(FailedUnder(n) \cup {r})
        BY <4>1, Zenon
      <4> QED
        BY <2>10, <2>12, <3>1, <3>2, <4>2
    <3>3. CASE ~(n = m /\ outcome[w] # "ok")
      <4>1. FailedUnder(n)' = FailedUnder(n)
        BY <2>8, <3>3
      <4>2. Cardinality(FailedUnder(n)') = Cardinality(FailedUnder(n))
        BY <4>1, Zenon
      <4> QED
        BY <2>12, <3>1, <3>3, <4>2
    <3> QED
      BY <3>2, <3>3
  <2>15. \A n \in Names : Cardinality(Under(n)') \in Nat
    BY <2>9, <2>13, <2>12, <1>0
  <2> QED
    BY <2>5, <2>9, <2>13, <2>14, <2>15 DEF CountInv
<1> QED
  BY <1>1, <1>2, <1>3, <1>4

\* When the calling thread waited for all workers, each entry of its report
\* counts the executions recorded under that name, no more and no less.
THEOREM ReportIsSound == Spec => []ReportIsExact
<1> DEFINE I == TypedMutex /\ TraceInv /\ CallerInv /\ CountInv
<1>1. I /\ [Next]_vars => I'
  BY MutexStep, TypeStep, TraceStep, CallerStep, CountStep DEF TypedMutex
<1>2. I => ReportIsExact
  <2> SUFFICES ASSUME TypedMutex, TraceInv, CallerInv, CountInv, Totalled, NEW n \in Names
               PROVE  /\ report[n].count = Cardinality(Under(n))
                      /\ report[n].failure = Cardinality(FailedUnder(n))
    BY DEF ReportIsExact, Under, FailedUnder, EntryAt
  <2>1. CASE n \in entries
    <3>1. report[n] = stats[n]
      BY <2>1 DEF CallerInv, Totalled
    <3>2. \A w \in Workers : pc[w] \in Ended
      BY AllOver DEF Totalled
    <3>3. lock = 0 \/ lock \in Workers
      BY DEF TypedMutex, TypeOK, SharedTypeOK, Workers
    <3>4. Tallying(n) = FALSE
      BY <3>2, <3>3 DEF Tallying, Ended
    <3>5. Cardinality(Under(n)) \in Nat
      BY UnderFinite DEF CountInv
    <3> QED
      BY <3>1, <3>4, <3>5 DEF CountInv
  <2>2. CASE n \notin entries
    <3>1. report[n] = Zero
      BY <2>2 DEF CallerInv, Totalled
    <3>2. Under(n) = {}
      <4> SUFFICES ASSUME NEW w \in Workers, NEW i \in DOMAIN log[w],
                          scenario.steps[log[w][i].step].name = n
                   PROVE  FALSE
        BY RecordedPairs DEF Under, EntryAt
      <4> QED
        BY <2>2 DEF TraceInv
    <3>3. FailedUnder(n) = {}
      BY <3>2 DEF FailedUnder
    <3> QED
      BY <3>1, <3>2, <3>3, FS_EmptySet DEF Zero
  <2> QED
    BY <2>1, <2>2
<1> HIDE DEF I
<1>3. Init => I
  BY TypedMutexInit, TraceInit, CallerInit, CountInit DEF I
<1> QED
  BY <1>1, <1>2, <1>3, PTL DEF Spec

--------------------------------------------------------------------------------
(***************************************************************************)
(* The order of the steps.                                                 *)
(***************************************************************************)
Length      == Len(scenario.steps)
Stopping(w) == \/ pc[w] \in {"decide", "stopped"}
               \/ pc[w] \in {"capture", "update"} /\ after[w] = "stopped"

\* Where a worker stands follows from how much it has recorded: it is at the
\* step that comes next, and after a failure that must stop it, it is stopping.
InOrder(w) ==
  /\ \A i \in DOMAIN log[w] :
       /\ log[w][i].step = ((i - 1) % Length) + 1
       /\ Failed(log[w][i]) /\ Rule(log[w][i]) = "hard" => i = Len(log[w]) /\ Stopping(w)
  /\ pc[w] \in {"running", "record", "tally"} => Len(log[w]) % Length = idx[w] - 1
  /\ pc[w] = "step" =>
       Len(log[w]) % Length = IF idx[w] <= Length THEN idx[w] - 1 ELSE 0
  /\ pc[w] = "decide" =>
       /\ log[w] # <<>>
       /\ log[w][Len(log[w])].step = idx[w]
       /\ log[w][Len(log[w])].outcome = outcome[w]
  /\ pc[w] = "loop" \/ (pc[w] \in {"capture", "update"} /\ after[w] = "loop") =>
       Len(log[w]) % Length = 0

OrderInv == \A w \in Workers : InOrder(w)

\* The remainder of a division, by what it is.
LEMMA Remainder ==
  ASSUME NEW q \in Int, NEW L \in Nat \ {0}, NEW r \in 0..(L - 1)
  PROVE  (q * L + r) % L = r
OBVIOUS

LEMMA Division ==
  ASSUME NEW n \in Nat, NEW L \in Nat \ {0}
  PROVE  n = (n \div L) * L + (n % L)
OBVIOUS

LEMMA RemainderRange ==
  ASSUME NEW n \in Nat, NEW L \in Nat \ {0}
  PROVE  n % L \in 0..(L - 1) /\ n \div L \in Int
OBVIOUS

\* Counting up, a remainder counts up to the divisor and starts again.
LEMMA NextRemainder ==
  ASSUME NEW n \in Nat, NEW L \in Nat \ {0}
  PROVE  (n + 1) % L = IF n % L = L - 1 THEN 0 ELSE (n % L) + 1
<1> DEFINE q == n \div L
           r == n % L
<1>1. n = q * L + r
  BY Division
<1>2. r \in 0..(L - 1) /\ q \in Int
  BY RemainderRange
<1> HIDE DEF q, r
<1>3. PICK p \in Int : p = q * L
  BY <1>2
<1>4. CASE r = L - 1
  <2>1. (q + 1) * L = p + L
    BY <1>2, <1>3
  <2>2. n + 1 = (q + 1) * L + 0
    BY <1>1, <1>3, <1>4, <2>1
  <2>3. (n + 1) % L = 0
    BY <1>2, <2>2, Remainder
  <2> QED
    BY <1>4, <2>3 DEF r
<1>5. CASE r # L - 1
  <2>1. r + 1 \in 0..(L - 1)
    BY <1>2, <1>5
  <2>2. n + 1 = q * L + (r + 1)
    <3>1. n + 1 = p + (r + 1)
      BY <1>1, <1>2, <1>3
    <3> QED
      BY <1>3, <3>1
  <2>3. (n + 1) % L = r + 1
    BY <1>2, <2>1, <2>2, Remainder
  <2> QED
    BY <1>5, <2>3 DEF r
<1> QED
  BY <1>4, <1>5

LEMMA OrderInit == Init => OrderInv
<1> SUFFICES ASSUME Init, NEW w \in Workers PROVE InOrder(w)
  BY DEF OrderInv
<1>1. Length \in Nat \ {0}
  <2>1. scenario \in Scenario /\ scenario.steps # <<>>
    BY DEF Init
  <2> QED
    BY <2>1 DEF Length, Scenario
<1>2. 0 % Length = 0
  BY <1>1
<1>3. log[w] = <<>> /\ pc[w] = "loop" /\ Len(log[w]) = 0
  BY DEF Init
<1> QED
  BY <1>2, <1>3 DEF InOrder

\* A worker whose own state does not change stays in order.
LEMMA OrderFrames ==
  ASSUME NEW w \in Workers, InOrder(w), scenario' = scenario, log'[w] = log[w],
         pc'[w] = pc[w], after'[w] = after[w], idx'[w] = idx[w],
         outcome'[w] = outcome[w]
  PROVE  InOrder(w)'
BY DEF InOrder, Length, Stopping, Failed, Rule

\* A step of one worker changes the state of no other.
LEMMA OthersStand ==
  ASSUME TypedMutex, NEW w \in Workers, Bookkeeping(w) \/ StepEnds(w)
  PROVE  /\ scenario' = scenario
         /\ \A v \in Workers \ {w} :
              /\ log'[v] = log[v] /\ pc'[v] = pc[v] /\ after'[v] = after[v]
              /\ idx'[v] = idx[v] /\ outcome'[v] = outcome[v]
<1>0. /\ pc \in [Workers -> Pcs] /\ idx \in [Workers -> Nat \ {0}]
      /\ after \in [Workers -> {"loop", "completed", "expired", "stopped"}]
      /\ outcome \in [Workers -> Outcomes] /\ log \in [Workers -> Seq(Entry)]
  BY DEF TypedMutex, TypeOK, WorkerTypeOK
<1>1. CASE LoopGuard(w) \/ StepGuard(w) \/ EndIteration(w)
  BY <1>0, <1>1 DEF LoopGuard, StepGuard, EndIteration
<1>2. CASE StepEnds(w)
  BY <1>0, <1>2 DEF StepEnds, RunStep, Raise
<1>3. CASE BeginRecord(w) \/ FinishRecord(w)
  BY <1>0, <1>3 DEF BeginRecord, FinishRecord
<1>4. CASE AddOutcome(w)
  BY <1>0, <1>4 DEF AddOutcome
<1>5. CASE BeginCapture(w) \/ FinishCapture(w)
  BY <1>0, <1>5 DEF BeginCapture, FinishCapture
<1> QED
  BY <1>1, <1>2, <1>3, <1>4, <1>5 DEF Bookkeeping

\* What a worker records next is the step it is at, and it stops after a
\* failure that must stop it.
LEMMA OwnStep ==
  ASSUME TypedMutex, NEW w \in Workers, InOrder(w), Bookkeeping(w) \/ StepEnds(w)
  PROVE  InOrder(w)'
<1>0. /\ pc \in [Workers -> Pcs] /\ idx \in [Workers -> Nat \ {0}]
      /\ after \in [Workers -> {"loop", "completed", "expired", "stopped"}]
      /\ outcome \in [Workers -> Outcomes] /\ log \in [Workers -> Seq(Entry)]
      /\ Length \in Nat \ {0} /\ Len(log[w]) \in Nat /\ idx[w] \in Nat \ {0}
  <2>1. scenario.steps \in Seq(Step) /\ scenario.steps # <<>>
    BY DEF TypedMutex, TypeOK, Scenario
  <2>2. log \in [Workers -> Seq(Entry)]
    BY DEF TypedMutex, TypeOK
  <2> QED
    BY <2>1, <2>2 DEF TypedMutex, TypeOK, WorkerTypeOK, Length
<1>1. /\ scenario' = scenario /\ Length' = Length
      /\ \A e : Failed(e)' = Failed(e) /\ Rule(e)' = Rule(e)
  BY OthersStand DEF Length, Failed, Rule
<1>2. CASE LoopGuard(w)
  <2>1. log' = log /\ pc[w] = "loop" /\ outcome' = outcome
    BY <1>2 DEF LoopGuard
  <2>2. \/ pc'[w] = "step" /\ idx'[w] = 1
        \/ pc'[w] = "capture" /\ after'[w] \in {"expired", "completed"}
    BY <1>0, <1>2 DEF LoopGuard
  <2>3. 1 <= Length
    BY <1>0
  <2> QED
    BY <1>1, <2>1, <2>2, <2>3 DEF InOrder, Stopping
<1>3. CASE StepGuard(w)
  <2>1. log' = log /\ pc[w] = "step" /\ idx' = idx /\ idx[w] <= Length
    BY <1>3 DEF StepGuard, Length
  <2>2. \/ pc'[w] = "running"
        \/ pc'[w] = "capture" /\ after'[w] = "expired"
    BY <1>0, <1>3 DEF StepGuard
  <2> QED
    BY <1>1, <2>1, <2>2 DEF InOrder, Stopping
<1>4. CASE EndIteration(w)
  <2>1. log' = log /\ pc[w] = "step" /\ (idx[w] <= Length) = FALSE
    BY <1>0, <1>4 DEF EndIteration, Length
  <2>2. pc'[w] = "capture" /\ after'[w] = "loop"
    BY <1>0, <1>4 DEF EndIteration
  <2> QED
    BY <1>1, <2>1, <2>2 DEF InOrder, Stopping
<1>5. CASE StepEnds(w)
  <2>1. log' = log /\ pc[w] = "running" /\ idx' = idx
    BY <1>5 DEF StepEnds, RunStep, Raise
  <2>2. pc'[w] \in {"record", "crashed"}
    BY <1>0, <1>5 DEF StepEnds, RunStep, Raise
  <2> QED
    BY <1>1, <2>1, <2>2 DEF InOrder, Stopping
<1>6. CASE BeginRecord(w)
  <2>1. log' = log /\ pc[w] = "record" /\ idx' = idx
    BY <1>6 DEF BeginRecord
  <2>2. pc'[w] = "tally"
    BY <1>0, <1>6 DEF BeginRecord
  <2> QED
    BY <1>1, <2>1, <2>2 DEF InOrder, Stopping
<1>7. CASE AddOutcome(w)
  <2> DEFINE n == Len(log[w])
  <2> DEFINE e == [step |-> idx[w], outcome |-> outcome[w]]
  <2>1. /\ pc[w] = "tally" /\ pc'[w] = "decide" /\ idx' = idx /\ outcome' = outcome
        /\ log'[w] = Append(log[w], e)
    BY <1>0, <1>7 DEF AddOutcome
  <2>2. /\ Len(log'[w]) = n + 1 /\ DOMAIN log[w] = 1..n /\ DOMAIN log'[w] = 1..(n + 1)
        /\ \A i \in 1..n : log'[w][i] = log[w][i]
        /\ log'[w][n + 1] = e
    <3>1. log[w] \in Seq(Entry) /\ e \in Entry
      BY <1>0 DEF Entry
    <3>2. log'[w] \in Seq(Entry)
      BY <2>1, <3>1, AppendProperties
    <3> QED
      BY <2>1, <3>1, <3>2, AppendProperties
  <2>3. e.step = idx[w] /\ e.outcome = outcome[w] /\ n \in Nat
    BY <1>0
  <2> HIDE DEF e
  <2>4. idx[w] = (((n + 1) - 1) % Length) + 1
    BY <1>0, <2>1 DEF InOrder
  <2>5. ASSUME NEW i \in DOMAIN log'[w]
        PROVE  /\ log'[w][i].step = ((i - 1) % Length) + 1
               /\ Failed(log'[w][i]) /\ Rule(log'[w][i]) = "hard" => i = n + 1
    <3>1. CASE i \in 1..n
      <4>1. log'[w][i] = log[w][i] /\ i \in DOMAIN log[w]
        BY <2>2, <3>1
      <4>2. Stopping(w) = FALSE
        BY <2>1 DEF Stopping
      <4> QED
        BY <4>1, <4>2 DEF InOrder
    <3>2. CASE i = n + 1
      BY <2>2, <2>3, <2>4, <3>2
    <3> QED
      BY <2>2, <2>3, <3>1, <3>2
  <2>6. Stopping(w)' = TRUE
    BY <2>1 DEF Stopping
  <2>7. log'[w] # <<>>
    BY <2>2, <2>3
  <2>8. /\ log'[w][Len(log'[w])].step = idx'[w]
        /\ log'[w][Len(log'[w])].outcome = outcome'[w]
    BY <2>1, <2>2, <2>3
  <2>9. \A i \in DOMAIN log'[w] :
          /\ log'[w][i].step = ((i - 1) % Length) + 1
          /\ Failed(log'[w][i]) /\ Rule(log'[w][i]) = "hard" =>
               i = Len(log'[w]) /\ Stopping(w)'
    BY <2>2, <2>5, <2>6
  <2> HIDE DEF n
  <2> QED
    BY <1>1, <2>1, <2>7, <2>8, <2>9 DEF InOrder
<1>8. CASE FinishRecord(w)
  <2> DEFINE n == Len(log[w])
  <2>1. log' = log /\ pc[w] = "decide" /\ outcome' = outcome
    BY <1>8 DEF FinishRecord
  <2>2. /\ n \in Nat \ {0} /\ n \in DOMAIN log[w]
        /\ log[w][n].step = idx[w] /\ log[w][n].outcome = outcome[w]
    <3>1. log[w] \in Seq(Entry) /\ log[w] # <<>>
      BY <1>0, <2>1 DEF InOrder
    <3>2. n \in Nat \ {0} /\ DOMAIN log[w] = 1..n
      BY <3>1
    <3> QED
      BY <2>1, <3>2 DEF InOrder
  <2>3. idx[w] = ((n - 1) % Length) + 1
    BY <2>2 DEF InOrder
  <2>4. CASE StopsWorker(StepOf(w).rule, outcome[w])
    <3>1. pc'[w] = "capture" /\ after'[w] = "stopped"
      BY <1>0, <1>8, <2>4 DEF FinishRecord
    <3> QED
      BY <1>1, <2>1, <3>1 DEF InOrder, Stopping
  <2>5. CASE ~StopsWorker(StepOf(w).rule, outcome[w])
    <3>1. pc'[w] = "step" /\ idx'[w] = idx[w] + 1
      BY <1>0, <1>8, <2>5 DEF FinishRecord
    <3>2. ~(Failed(log[w][n]) /\ Rule(log[w][n]) = "hard")
      BY <2>2, <2>5 DEF StopsWorker, RuleStops, StepOf, Failed, Rule
    <3>3. \A i \in DOMAIN log[w] : ~(Failed(log[w][i]) /\ Rule(log[w][i]) = "hard")
      BY <3>2 DEF InOrder
    <3>4. idx[w] <= Length
      BY <2>1 DEF TypedMutex, MutexInv, AtStep, Length
    <3>5. n % Length = IF idx[w] + 1 <= Length THEN idx[w] ELSE 0
      <4>1. n - 1 \in Nat /\ (n - 1) + 1 = n
        BY <2>2
      <4>2. n % Length = IF (n - 1) % Length = Length - 1 THEN 0 ELSE ((n - 1) % Length) + 1
        BY <1>0, <4>1, NextRemainder
      <4>3. (n - 1) % Length = idx[w] - 1
        BY <1>0, <2>3, <4>1
      <4> QED
        BY <1>0, <3>4, <4>2, <4>3
    <3>6. Len(log'[w]) % Length = IF idx'[w] <= Length THEN idx'[w] - 1 ELSE 0
      BY <1>0, <2>1, <3>1, <3>5
    <3> HIDE DEF n
    <3> QED
      BY <1>1, <2>1, <3>1, <3>3, <3>6 DEF InOrder
  <2> QED
    BY <2>4, <2>5
<1>9. CASE BeginCapture(w)
  <2>1. log' = log /\ pc[w] = "capture" /\ after' = after
    BY <1>9 DEF BeginCapture
  <2>2. pc'[w] = "update"
    BY <1>0, <1>9 DEF BeginCapture
  <2> QED
    BY <1>1, <2>1, <2>2 DEF InOrder, Stopping
<1>10. CASE FinishCapture(w)
  <2>1. log' = log /\ pc[w] = "update"
    BY <1>10 DEF FinishCapture
  <2>2. pc'[w] = after[w] /\ after[w] \in {"loop", "completed", "expired", "stopped"}
    BY <1>0, <1>10 DEF FinishCapture
  <2> QED
    BY <1>1, <2>1, <2>2 DEF InOrder, Stopping
<1> QED
  BY <1>2, <1>3, <1>4, <1>5, <1>6, <1>7, <1>8, <1>9, <1>10 DEF Bookkeeping

LEMMA OrderStep == TypedMutex /\ OrderInv /\ [Next]_vars => OrderInv'
<1> SUFFICES ASSUME TypedMutex, OrderInv, [Next]_vars, NEW w \in Workers PROVE InOrder(w)'
  BY DEF OrderInv
<1>1. ASSUME NEW v \in Workers, Bookkeeping(v) \/ StepEnds(v) PROVE InOrder(w)'
  <2>1. CASE v = w
    BY <1>1, <2>1, OwnStep DEF OrderInv
  <2>2. CASE v # w
    BY <1>1, <2>2, OthersStand, OrderFrames DEF OrderInv
  <2> QED
    BY <2>1, <2>2
<1>2. CASE Caller \/ Expire \/ Over \/ UNCHANGED vars
  <2>1. UNCHANGED <<scenario, pc, after, idx, outcome, log>>
    BY <1>2 DEF Caller, Join, JoinTimesOut, StartReading, ReadEntry,
       IterationFails, Total, Return, Expire, Over, vars, worker
  <2> QED
    BY <2>1, OrderFrames DEF OrderInv
<1> QED
  BY <1>1, <1>2 DEF Next

\* However the workers interleave, each records the steps in their order,
\* iteration after iteration, and nothing after the failure that stops it.
THEOREM OrderIsSound == Spec => []WorkersKeepOrder
<1> DEFINE I == TypedMutex /\ OrderInv
<1>1. I /\ [Next]_vars => I'
  BY MutexStep, TypeStep, OrderStep DEF TypedMutex
<1>2. I => WorkersKeepOrder
  BY DEF OrderInv, InOrder, WorkersKeepOrder, Length
<1> HIDE DEF I
<1>3. Init => I
  BY TypedMutexInit, OrderInit DEF I
<1> QED
  BY <1>1, <1>2, <1>3, PTL DEF Spec

--------------------------------------------------------------------------------
(***************************************************************************)
(* The run keeps the contract of RunReport.                                *)
(***************************************************************************)
\* The aggregate shows under a name what was recorded under it.
LEMMA StatsShow ==
  ASSUME TypedMutex, CounterInv, CountInv, NEW n \in Names
  PROVE  /\ stats[n].failure > 0 <=> FailedUnder(n) # {}
         /\ stats[n].success > 0 <=> Under(n) \ FailedUnder(n) # {}
<1>1. /\ stats[n].count \in Nat /\ stats[n].success \in Nat /\ stats[n].failure \in Nat
  BY DEF TypedMutex, TypeOK, SharedTypeOK, Counters
<1>2. /\ IsFiniteSet(Under(n)) /\ IsFiniteSet(FailedUnder(n))
      /\ Cardinality(Under(n)) \in Nat /\ Cardinality(FailedUnder(n)) \in Nat
  BY UnderFinite DEF CountInv
<1>3. /\ stats[n].failure = Cardinality(FailedUnder(n))
      /\ Cardinality(Under(n)) = stats[n].success + Cardinality(FailedUnder(n))
  BY <1>1, <1>2 DEF CounterInv, CountInv
<1>4. FailedUnder(n) \in SUBSET Under(n)
  BY DEF FailedUnder
<1>5. FailedUnder(n) = {} <=> Cardinality(FailedUnder(n)) = 0
  BY <1>2, FS_EmptySet
<1>6. Under(n) = FailedUnder(n) <=> Cardinality(Under(n)) = Cardinality(FailedUnder(n))
  BY <1>2, <1>4, FS_Subset
<1>7. Under(n) \ FailedUnder(n) = {} <=> Under(n) = FailedUnder(n)
  BY <1>4
<1> QED
  BY <1>1, <1>2, <1>3, <1>5, <1>6, <1>7

\* What the calling thread has read so far was recorded, and shows everything
\* that the workers it has waited for recorded under the names it has read.
ReadInv ==
  /\ missed \subseteq 1..(joining - 1)
  /\ \A n \in Names :
       /\ report[n].failure > 0 => FailedUnder(n) # {}
       /\ report[n].success > 0 => Under(n) \ FailedUnder(n) # {}
       /\ report[n].mismatch <= report[n].failure
  /\ main # "joining" => \A r \in Recorded : r[1] \in Waited =>
       LET n == scenario.steps[EntryAt(r).step].name
       IN  /\ n \in sized
           /\ n \notin toRead =>
                IF Failed(EntryAt(r)) THEN report[n].failure > 0 ELSE report[n].success > 0

LEMMA ReadInit == Init => ReadInv
<1> SUFFICES ASSUME Init PROVE ReadInv
  OBVIOUS
<1>1. \A n \in Names : report[n] = Zero
  BY DEF Init
<1> QED
  BY <1>1 DEF Init, ReadInv, Zero

\* A step keeps what was recorded, and only a worker that is not over records.
LEMMA RecordedStays ==
  ASSUME TypedMutex, TraceInv, CallerInv, [Next]_vars
  PROVE  /\ scenario' = scenario
         /\ \A r \in Recorded : r \in Recorded' /\ EntryAt(r)' = EntryAt(r)
         /\ \A n : /\ FailedUnder(n) \subseteq FailedUnder(n)'
                   /\ Under(n) \ FailedUnder(n) \subseteq Under(n)' \ FailedUnder(n)'
         /\ \A r \in Recorded' \ Recorded : r[1] \notin Waited
<1>1. scenario' = scenario
  BY AggregateGrows
<1>2. ASSUME \A w \in Workers : ~AddOutcome(w)
      PROVE  /\ \A r \in Recorded : r \in Recorded' /\ EntryAt(r)' = EntryAt(r)
             /\ \A r \in Recorded' \ Recorded : r[1] \notin Waited
  <2>1. log' = log
    BY <1>2, AggregateGrows
  <2> QED
    BY <2>1 DEF Recorded, EntryAt
<1>3. ASSUME NEW w \in Workers, AddOutcome(w)
      PROVE  /\ \A r \in Recorded : r \in Recorded' /\ EntryAt(r)' = EntryAt(r)
             /\ \A r \in Recorded' \ Recorded : r[1] \notin Waited
  <2>1. PICK r : r = <<w, Len(log[w]) + 1>>
    OBVIOUS
  <2>2. Recorded' = Recorded \cup {r} /\ \A s \in Recorded : EntryAt(s)' = EntryAt(s)
    BY <1>3, <2>1, RecordedGrows
  <2>3. w \notin Waited
    BY <1>3 DEF CallerInv, Waited, ThreadOver, AddOutcome, Ended
  <2> QED
    BY <2>1, <2>2, <2>3
<1>4. \A r \in Recorded : r \in Recorded' /\ EntryAt(r)' = EntryAt(r)
  BY <1>2, <1>3
<1>5. ASSUME NEW n
      PROVE  /\ FailedUnder(n) \subseteq FailedUnder(n)'
             /\ Under(n) \ FailedUnder(n) \subseteq Under(n)' \ FailedUnder(n)'
  BY <1>1, <1>4 DEF Under, FailedUnder, Failed
<1> QED
  BY <1>1, <1>2, <1>3, <1>4, <1>5

LEMMA ReadStep ==
  TypedMutex /\ CounterInv /\ TraceInv /\ CallerInv /\ CountInv /\ ReadInv /\ [Next]_vars
    => ReadInv'
<1> SUFFICES ASSUME TypedMutex, CounterInv, TraceInv, CallerInv, CountInv, ReadInv,
                    [Next]_vars
             PROVE  ReadInv'
  OBVIOUS
<1>0. /\ joining \in 1..(Users + 1) /\ missed \subseteq Workers
      /\ main \in {"joining", "reading", "totalled", "reported", "aborted"}
      /\ report \in [Names -> Counters] /\ entries \subseteq Names
      /\ \A n \in Names : stats[n] \in Counters
  BY DEF TypedMutex, TypeOK, CallerTypeOK, SharedTypeOK
<1>1. ASSUME NEW n \in Names, report'[n] \in {report[n], stats[n]}
      PROVE  /\ report'[n].failure > 0 => FailedUnder(n)' # {}
             /\ report'[n].success > 0 => Under(n)' \ FailedUnder(n)' # {}
             /\ report'[n].mismatch <= report'[n].failure
  <2>1. /\ FailedUnder(n) \subseteq FailedUnder(n)'
        /\ Under(n) \ FailedUnder(n) \subseteq Under(n)' \ FailedUnder(n)'
    BY RecordedStays
  <2>2. CASE report'[n] = report[n]
    BY <2>1, <2>2 DEF ReadInv
  <2>3. CASE report'[n] = stats[n]
    BY <2>1, <2>3, StatsShow DEF CounterInv
  <2> QED
    BY <1>1, <2>2, <2>3
<1>2. ASSUME NEW r \in Recorded', r[1] \in Waited PROVE r \in Recorded /\ EntryAt(r)' = EntryAt(r)
  BY <1>2, RecordedStays
<1>3. scenario' = scenario
  BY RecordedStays
<1>4. \A r \in Recorded : LET n == scenario.steps[EntryAt(r).step].name
                         IN  n \in entries /\ n \in Names /\ r \in Under(n)
  BY <1>0, RecordedPairs DEF TraceInv, EntryAt, Under
<1>5. CASE UNCHANGED <<main, joining, missed, toRead, sized, report>>
  <2>1. Waited' = Waited
    BY <1>5 DEF Waited
  <2> QED
    BY <1>1, <1>2, <1>3, <1>5, <2>1 DEF ReadInv, Failed
<1>6. CASE Join \/ JoinTimesOut
  <2>1. main' = "joining" /\ report' = report
    BY <1>6 DEF Join, JoinTimesOut
  <2>2. missed' \subseteq 1..(joining' - 1)
    <3>1. /\ joining \in Nat /\ joining' = joining + 1
          /\ missed' \subseteq missed \cup {joining}
      BY <1>0, <1>6 DEF Join, JoinTimesOut
    <3>2. missed \subseteq 1..(joining - 1) /\ joining >= 1
      BY <1>0 DEF ReadInv
    <3> QED
      BY <3>1, <3>2
  <2> QED
    BY <1>1, <2>1, <2>2 DEF ReadInv
<1>7. CASE StartReading
  <2>1. /\ report' = report /\ toRead' = entries /\ sized' = entries /\ Waited' = Waited
        /\ UNCHANGED <<missed, joining>>
    BY <1>7 DEF StartReading, Waited
  <2>2. \A r \in Recorded' : r[1] \in Waited =>
          scenario'.steps[EntryAt(r)'.step].name \in entries
    BY <1>2, <1>3, <1>4
  <2> QED
    BY <1>1, <2>1, <2>2 DEF ReadInv
<1>8. CASE ReadEntry
  <2>1. PICK m \in toRead : /\ report' = [report EXCEPT ![m] = stats[m]]
                            /\ toRead' = toRead \ {m}
    BY <1>8 DEF ReadEntry
  <2>2. /\ sized' = sized /\ Waited' = Waited /\ main = "reading" /\ log' = log
        /\ m \in Names /\ UNCHANGED <<missed, joining>>
    BY <1>0, <1>8, <2>1 DEF ReadEntry, Waited, CallerInv
  <2>3. \A n \in Names : report'[n] \in {report[n], stats[n]}
    BY <1>0, <2>1
  <2>4. ASSUME NEW r \in Recorded', r[1] \in Waited, NEW n,
               n = scenario.steps[EntryAt(r).step].name
        PROVE  /\ n \in sized
               /\ n \notin toRead' =>
                    IF Failed(EntryAt(r)) THEN report'[n].failure > 0
                                          ELSE report'[n].success > 0
    <3>1. r \in Recorded /\ n \in Names /\ r \in Under(n)
      BY <1>2, <1>4, <2>4
    <3>2. /\ n \in sized
          /\ n \notin toRead => IF Failed(EntryAt(r)) THEN report[n].failure > 0
                                                      ELSE report[n].success > 0
      BY <2>2, <2>4, <3>1 DEF ReadInv
    <3>3. CASE n = m
      <4>1. report'[n] = stats[n]
        BY <1>0, <2>1, <2>2, <3>3
      <4>2. r \in FailedUnder(n) <=> Failed(EntryAt(r))
        BY <3>1 DEF FailedUnder
      <4> QED
        BY <3>1, <3>2, <4>1, <4>2, StatsShow
    <3>4. CASE n # m
      <4>1. report'[n] = report[n]
        BY <1>0, <2>1, <3>1, <3>4
      <4> QED
        BY <2>1, <3>2, <3>4, <4>1
    <3> QED
      BY <3>3, <3>4
  <2>5. \A r \in Recorded' : r[1] \in Waited =>
          EntryAt(r)' = EntryAt(r) /\ Failed(EntryAt(r))' = Failed(EntryAt(r))
    BY <1>2 DEF Failed
  <2> QED
    BY <1>1, <1>3, <2>2, <2>3, <2>4, <2>5 DEF ReadInv
<1>9. CASE IterationFails \/ Total \/ Return
  <2>1. /\ UNCHANGED <<joining, missed, toRead, sized, report>>
        /\ main = "reading" \/ main = "totalled"
    BY <1>9 DEF IterationFails, Total, Return
  <2>2. Waited' = Waited
    BY <2>1 DEF Waited
  <2> QED
    BY <1>1, <1>2, <1>3, <2>1, <2>2 DEF ReadInv, Failed
<1>10. Caller \/ UNCHANGED caller
  BY DEF Next, Bookkeeping, StepEnds, LoopGuard, StepGuard, EndIteration, RunStep,
     Raise, BeginRecord, AddOutcome, FinishRecord, BeginCapture, FinishCapture,
     Expire, Over, vars
<1> QED
  BY <1>5, <1>6, <1>7, <1>8, <1>9, <1>10 DEF Caller, caller

\* One more execution of a worker is one more element of its history.
LEMMA SucceededGrows ==
  ASSUME TypedMutex, NEW w \in Workers, AddOutcome(w)
  PROVE  \E ok \in BOOLEAN : Succeeded' = [Succeeded EXCEPT ![w] = Append(@, ok)]
<1> DEFINE e  == [step |-> idx[w], outcome |-> outcome[w]]
           ok == outcome[w] = "ok"
           s  == Succeeded[w]
           t  == Succeeded'[w]
<1>0. log \in [Workers -> Seq(Entry)] /\ e \in Entry
  BY DEF TypedMutex, TypeOK, WorkerTypeOK, Entry
<1>1. /\ log'[w] = Append(log[w], e)
      /\ \A v \in Workers \ {w} : log'[v] = log[v]
  BY <1>0 DEF AddOutcome
<1>2. /\ log[w] \in Seq(Entry) /\ Len(log[w]) \in Nat /\ DOMAIN log[w] = 1..Len(log[w])
      /\ log'[w] \in Seq(Entry) /\ DOMAIN log'[w] = 1..(Len(log[w]) + 1)
      /\ \A i \in 1..Len(log[w]) : log'[w][i] = log[w][i]
      /\ log'[w][Len(log[w]) + 1] = e
  <2>1. log[w] \in Seq(Entry)
    BY <1>0
  <2>2. /\ log'[w] \in Seq(Entry) /\ Len(log'[w]) = Len(log[w]) + 1
        /\ \A i \in 1..Len(log[w]) : log'[w][i] = log[w][i]
        /\ log'[w][Len(log[w]) + 1] = e
    BY <1>0, <1>1, <2>1, AppendProperties
  <2> QED
    BY <2>1, <2>2, LenProperties
<1>3. ok \in BOOLEAN /\ (~Failed(e) <=> ok)
  BY DEF Failed
<1>4. s = [i \in 1..Len(log[w]) |-> ~Failed(log[w][i])]
  BY <1>2 DEF Succeeded
<1>5. t = [i \in 1..(Len(log[w]) + 1) |-> ~Failed(log'[w][i])]
  BY <1>2 DEF Succeeded, Failed
<1> HIDE DEF e, ok, s, t
<1> DEFINE n == Len(log[w])
<1>6. n \in Nat
  BY <1>2
<1>7. s \in Seq(BOOLEAN) /\ Len(s) = n /\ \A i \in 1..n : s[i] = ~Failed(log[w][i])
  <2>1. s \in [1..n -> BOOLEAN] /\ \A i \in 1..n : s[i] = ~Failed(log[w][i])
    BY <1>4 DEF Failed
  <2> QED
    BY <1>6, <2>1, SeqDef, LenProperties
<1>8. t \in Seq(BOOLEAN) /\ Len(t) = n + 1 /\ \A i \in 1..(n + 1) : t[i] = ~Failed(log'[w][i])
  <2>1. t \in [1..(n + 1) -> BOOLEAN] /\ \A i \in 1..(n + 1) : t[i] = ~Failed(log'[w][i])
    BY <1>5 DEF Failed
  <2> QED
    BY <1>6, <2>1, SeqDef, LenProperties
<1>9. /\ Append(s, ok) \in Seq(BOOLEAN) /\ Len(Append(s, ok)) = n + 1
      /\ \A i \in 1..n : Append(s, ok)[i] = s[i]
      /\ Append(s, ok)[n + 1] = ok
  BY <1>3, <1>7, AppendProperties
<1>10. ASSUME NEW i \in 1..(n + 1) PROVE t[i] = Append(s, ok)[i]
  <2>0. i \in 1..n \/ i = n + 1
    BY <1>6
  <2>1. CASE i \in 1..n
    BY <1>2, <1>6, <1>7, <1>8, <1>9, <2>1
  <2>2. CASE i = n + 1
    <3>1. t[i] = ~Failed(e)
      BY <1>2, <1>8, <2>2
    <3> QED
      BY <1>3, <1>9, <2>2, <3>1
  <2> QED
    BY <2>0, <2>1, <2>2
<1>11. t = Append(s, ok)
  BY <1>8, <1>9, <1>10, SeqEqual
<1>12. \A v \in Workers \ {w} : Succeeded'[v] = Succeeded[v]
  BY <1>1 DEF Succeeded, Failed
<1>13. Succeeded' = [Succeeded EXCEPT ![w] = Append(@, ok)]
  <2>1. Succeeded' = [v \in Workers |-> Succeeded'[v]]
    BY DEF Succeeded
  <2>2. [Succeeded EXCEPT ![w] = Append(@, ok)] =
          [v \in Workers |-> IF v = w THEN Append(s, ok) ELSE Succeeded[v]]
    BY DEF Succeeded, s
  <2>3. \A v \in Workers :
          Succeeded'[v] = IF v = w THEN Append(s, ok) ELSE Succeeded[v]
    BY <1>11, <1>12 DEF t
  <2> QED
    BY <2>1, <2>2, <2>3
<1> QED
  BY <1>3, <1>13

\* What the contract knows of an execution.
LEMMA ContractExecutions ==
  /\ Contract!Executions = Recorded
  /\ \A r \in Recorded : Contract!Ok(r) <=> ~Failed(EntryAt(r))
<1>1. \A w \in Workers : DOMAIN Succeeded[w] = DOMAIN log[w]
  BY DEF Succeeded
<1>2. Contract!Executions = Recorded
  BY <1>1 DEF Contract!Executions, Recorded
<1>3. ASSUME NEW w \in Workers, NEW i \in DOMAIN log[w]
      PROVE  Contract!Ok(<<w, i>>) <=> ~Failed(EntryAt(<<w, i>>))
  BY <1>3 DEF Contract!Ok, Succeeded, EntryAt
<1> QED
  BY <1>2, <1>3, RecordedPairs

ContractInv == TypedMutex /\ CounterInv /\ TraceInv /\ CallerInv /\ CountInv /\ ReadInv

\* The verdict is that of recorded executions, with all those that were waited for:
\* all of them if one failed, the ones waited for and a success if the run passed,
\* and none if there was none.
LEMMA TotalReports ==
  ASSUME ContractInv, Total
  PROVE  Contract!Report
<1> DEFINE Due == {r \in Recorded : r[1] \in Waited}
<1>1. /\ main = "reading" /\ main' = "totalled" /\ toRead = {}
      /\ result'.verdict = Verdict(report)
      /\ UNCHANGED <<log, joining, missed>>
  BY DEF Total, ContractInv, TypedMutex, TypeOK, CallerTypeOK
<1>2. \A n \in Names : report[n] \in Counters
  BY DEF ContractInv, TypedMutex, TypeOK, CallerTypeOK
<1>3. ASSUME NEW r \in Due
      PROVE  LET n == scenario.steps[EntryAt(r).step].name
             IN  /\ n \in Names
                 /\ IF Failed(EntryAt(r)) THEN report[n].failure > 0 ELSE report[n].success > 0
  <2>1. r \in Recorded /\ r[1] \in Waited
    OBVIOUS
  <2>2. sized \subseteq Names
    BY DEF ContractInv, TypedMutex, TypeOK, CallerTypeOK
  <2> QED
    BY <1>1, <2>1, <2>2 DEF ContractInv, ReadInv
<1>4. ASSUME NEW n \in Names, report[n].failure > 0
      PROVE  \E r \in Recorded : Failed(EntryAt(r))
  BY <1>4 DEF ContractInv, ReadInv, FailedUnder, Under
<1>5. ASSUME NEW n \in Names, report[n].success > 0
      PROVE  \E r \in Recorded : ~Failed(EntryAt(r))
  BY <1>5 DEF ContractInv, ReadInv, FailedUnder, Under
<1>6. \E S \in SUBSET Recorded :
        /\ Due \subseteq S
        /\ Verdict(report) =
             IF (\A r \in S : ~Failed(EntryAt(r))) /\ S # {} THEN "PASS" ELSE "FAIL"
  <2>1. CASE Passes(report)
    <3>1. PICK n \in Names : report[n].success > 0
      BY <2>1 DEF Passes
    <3>2. PICK s \in Recorded : ~Failed(EntryAt(s))
      BY <1>5, <3>1
    <3>3. \A r \in Due : ~Failed(EntryAt(r))
      BY <1>3, <2>1 DEF Passes
    <3> HIDE DEF Due
    <3>4. \A r \in Due \cup {s} : ~Failed(EntryAt(r))
      BY <3>2, <3>3
    <3>5. Due \cup {s} \in SUBSET Recorded
      BY DEF Due
    <3> QED
      BY <2>1, <3>4, <3>5 DEF Verdict
  <2>2. CASE \E n \in Names : report[n].failure # 0 \/ report[n].mismatch # 0
    <3>1. PICK n \in Names : report[n].failure > 0
      BY <1>2, <2>2 DEF ContractInv, ReadInv, Counters
    <3>2. \E r \in Recorded : Failed(EntryAt(r))
      BY <1>4, <3>1
    <3>3. Verdict(report) = "FAIL"
      BY <3>1 DEF Verdict, Passes
    <3> QED
      BY <3>2, <3>3
  <2>3. CASE \A n \in Names : report[n].failure = 0 /\ ~(report[n].success > 0)
    <3>1. Due = {}
      BY <1>3, <2>3
    <3>2. Verdict(report) = "FAIL"
      BY <2>3 DEF Verdict, Passes
    <3> QED
      BY <3>1, <3>2
  <2> QED
    BY <2>1, <2>2, <2>3 DEF Passes
<1>7. PICK S \in SUBSET Recorded :
        /\ Due \subseteq S
        /\ Verdict(report) =
             IF (\A r \in S : ~Failed(EntryAt(r))) /\ S # {} THEN "PASS" ELSE "FAIL"
  BY <1>6
<1>8. Verdict(report) = Contract!VerdictOf(S)
  BY <1>7, ContractExecutions DEF Contract!VerdictOf
<1>9. S \in SUBSET Contract!Executions
      /\ {e \in Contract!Executions : e[1] \in Waited} \subseteq S
  BY <1>7, ContractExecutions
<1>10. Phase = "running" /\ Phase' = "reported" /\ Succeeded' = Succeeded /\ Waited' = Waited
  BY <1>1 DEF Phase, Succeeded, Waited, Failed
<1> QED
  BY <1>1, <1>8, <1>9, <1>10 DEF Contract!Report

LEMMA ContractStart == Init => Contract!Init
<1> SUFFICES ASSUME Init PROVE Contract!Init
  OBVIOUS
<1>1. \A w \in Workers : Succeeded[w] = <<>>
  <2> SUFFICES ASSUME NEW w \in Workers PROVE Succeeded[w] = <<>>
    OBVIOUS
  <2>1. Succeeded[w] \in [1..0 -> BOOLEAN]
    BY DEF Init, Succeeded
  <2>2. Succeeded[w] \in Seq(BOOLEAN) /\ Len(Succeeded[w]) = 0
    BY <2>1, SeqDef, LenProperties
  <2> QED
    BY <2>2, EmptySeq
<1>2. Succeeded = [w \in Workers |-> <<>>]
  BY <1>1 DEF Succeeded
<1>3. Waited = {} /\ Phase = "running" /\ result.verdict = "none"
  BY DEF Init, Waited, Phase, NoResult
<1> QED
  BY <1>2, <1>3 DEF Contract!Init

LEMMA ContractStep == ContractInv /\ [Next]_vars => [Contract!Next]_(Contract!vars)
<1> SUFFICES ASSUME ContractInv, [Next]_vars PROVE [Contract!Next]_(Contract!vars)
  OBVIOUS
<1>0. /\ joining \in 1..(Users + 1) /\ missed \subseteq Workers
      /\ result \in [verdict : {"none", "PASS", "FAIL"}, vars : Moment]
  BY DEF ContractInv, TypedMutex, TypeOK, CallerTypeOK
<1>1. ASSUME log' = log, Waited' = Waited, Phase' = Phase, result'.verdict = result.verdict
      PROVE  UNCHANGED Contract!vars
  <2>1. Succeeded' = Succeeded
    BY <1>1 DEF Succeeded, Failed
  <2> QED
    BY <1>1, <2>1 DEF Contract!vars
<1>2. ASSUME NEW w \in Workers, AddOutcome(w) PROVE Contract!Next
  <2>1. w \notin Waited
    BY <1>2 DEF ContractInv, CallerInv, Waited, ThreadOver, AddOutcome, Ended
  <2>2. UNCHANGED caller
    BY <1>2 DEF AddOutcome
  <2>3. Waited' = Waited /\ Phase' = Phase /\ result' = result
    BY <2>2 DEF caller, Waited, Phase
  <2>4. \E ok \in BOOLEAN : Succeeded' = [Succeeded EXCEPT ![w] = Append(@, ok)]
    BY <1>2, SucceededGrows DEF ContractInv
  <2>5. Contract!Record(w)
    BY <2>1, <2>3, <2>4 DEF Contract!Record
  <2> QED
    BY <2>5 DEF Contract!Next
<1>3. ASSUME NEW w \in Workers, Bookkeeping(w) \/ StepEnds(w), ~AddOutcome(w)
      PROVE  UNCHANGED Contract!vars
  <2>1. log' = log /\ UNCHANGED caller
    BY <1>3 DEF Bookkeeping, StepEnds, LoopGuard, StepGuard, EndIteration, RunStep,
       Raise, BeginRecord, FinishRecord, BeginCapture, FinishCapture
  <2>2. Waited' = Waited /\ Phase' = Phase /\ result' = result
    BY <2>1 DEF caller, Waited, Phase
  <2> QED
    BY <1>1, <2>1, <2>2
<1>4. CASE Join
  <2>1. /\ joining \in Workers /\ main = "joining" /\ joining' = joining + 1
        /\ UNCHANGED <<main, missed, result, log>>
    BY <1>4 DEF Join
  <2>2. joining \notin missed
    BY <1>0 DEF ContractInv, ReadInv
  <2>3. Waited' = Waited \cup {joining}
    BY <1>0, <2>1, <2>2 DEF Waited
  <2>4. Phase = "running" /\ Phase' = Phase /\ Succeeded' = Succeeded
    BY <2>1 DEF Phase, Succeeded, Failed
  <2>5. Contract!WaitFor(joining)
    BY <2>1, <2>3, <2>4 DEF Contract!WaitFor
  <2> QED
    BY <2>1, <2>5 DEF Contract!Next
<1>5. CASE JoinTimesOut
  <2>1. /\ joining' = joining + 1 /\ missed' = missed \cup {joining}
        /\ UNCHANGED <<main, result, log>>
    BY <1>5 DEF JoinTimesOut
  <2>2. Waited' = Waited
    BY <1>0, <2>1 DEF Waited
  <2> QED
    BY <1>1, <2>1, <2>2 DEF Phase
<1>6. CASE StartReading \/ ReadEntry \/ Return
  <2>1. /\ UNCHANGED <<joining, missed, log>> /\ result'.verdict = result.verdict
        /\ Phase' = Phase
    BY <1>0, <1>6 DEF StartReading, ReadEntry, Return, Phase
  <2> QED
    BY <1>1, <2>1 DEF Waited
<1>7. CASE IterationFails
  <2>1. /\ main = "reading" /\ main' = "aborted" /\ entries # sized
        /\ UNCHANGED <<joining, missed, log, result>>
    BY <1>7 DEF IterationFails
  <2>2. missed # {}
    BY <2>1 DEF ContractInv, CallerInv
  <2>3. Waited # Workers
    BY <1>0, <2>2 DEF Waited
  <2>4. /\ Phase = "running" /\ Phase' = "aborted" /\ Waited' = Waited
        /\ Succeeded' = Succeeded
    BY <2>1 DEF Phase, Waited, Succeeded, Failed
  <2>5. Contract!Abort
    BY <2>1, <2>3, <2>4 DEF Contract!Abort
  <2> QED
    BY <2>5 DEF Contract!Next
<1>8. CASE Total
  BY <1>8, TotalReports DEF Contract!Next
<1>9. CASE Expire \/ Over \/ UNCHANGED vars
  <2>1. UNCHANGED <<main, joining, missed, result, log>>
    BY <1>9 DEF Expire, Over, vars, caller
  <2> QED
    BY <1>1, <2>1 DEF Waited, Phase
<1> QED
  BY <1>2, <1>3, <1>4, <1>5, <1>6, <1>7, <1>8, <1>9 DEF Next, Caller

\* Whatever the threads do, the run is a behaviour of RunReport (without its
\* fairness): its verdict comes from executions that were recorded and counts all
\* those of each worker it waited for, and it gives up only over a worker still out.
THEOREM ImplementsRunReport ==
  Spec => Contract!Init /\ [][Contract!Next]_(Contract!vars)
<1>1. Init => ContractInv
  BY TypedMutexInit, CounterInit, TraceInit, CallerInit, CountInit, ReadInit DEF ContractInv
<1>2. ContractInv /\ [Next]_vars => ContractInv'
  BY MutexStep, TypeStep, CounterStep, TraceStep, CallerStep, CountStep, ReadStep
     DEF ContractInv, TypedMutex
<1> QED
  BY <1>1, <1>2, ContractStart, ContractStep, PTL DEF Spec
================================================================================
