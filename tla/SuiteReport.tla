------------------------------ MODULE SuiteReport ------------------------------
(***************************************************************************)
(* What a run of a collection promises whoever started it, with the        *)
(* environment, the counters and the processes of main, run.sh and         *)
(* start_run abstracted away: each member is reported exactly once, in     *)
(* order; once one is skipped so are all after it, and only a member that  *)
(* did not pass makes the rest be skipped; the answer "completed" to a     *)
(* strict run means that a report with something passed and nothing failed *)
(* or skipped exists.  CollectionRun implements this specification.        *)
(***************************************************************************)
EXTENDS Naturals, Sequences

VARIABLES size,      \* number of members
          strict,    \* whether the run was asked to be strict
          reported,  \* the verdicts so far, in the order of the members
          answer     \* "none", "completed" or "completed_with_errors"

vars == <<size, strict, reported, answer>>

\* empty: neither a success nor a failure was recorded
Verdicts == {"pass", "fail", "empty", "skip"}

Saw(v) == \E i \in 1..Len(reported) : reported[i] = v

Init ==
  /\ size \in Nat
  /\ strict \in BOOLEAN
  /\ reported = <<>>
  /\ answer = "none"

ReportMember ==
  /\ answer = "none"
  /\ Len(reported) < size
  /\ \E v \in Verdicts :
       /\ v = "skip" => Saw("fail") \/ Saw("empty")
       /\ Saw("skip") => v = "skip"
       /\ reported' = Append(reported, v)
  /\ UNCHANGED <<size, strict, answer>>

Clean == Len(reported) = size /\ Saw("pass") /\ ~Saw("fail") /\ ~Saw("skip")

Answer ==
  /\ answer = "none"
  /\ \/ answer' = "completed" /\ (strict => Clean)
     \/ answer' = "completed_with_errors" /\ strict /\ ~Clean
  /\ UNCHANGED <<size, strict, reported>>

Next == ReportMember \/ Answer

Spec == Init /\ [][Next]_vars /\ WF_vars(Next)
================================================================================
