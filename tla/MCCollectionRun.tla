---------------------------- MODULE MCCollectionRun ----------------------------
(***************************************************************************)
(* Instances of CollectionRun for TLC.                                     *)
(***************************************************************************)
EXTENDS CollectionRun

CONSTANTS user, mail   \* two variables

M(needs, saves, exports, fragile) ==
  [present |-> TRUE, hasSteps |-> TRUE, needs |-> needs, saves |-> saves,
   exports |-> exports, fragile |-> fragile]
P(members, given, strict, iterations) ==
  [suite |-> TRUE, members |-> members, given |-> given, strict |-> strict,
   iterations |-> iterations]

\* What a broken collection can look like: a missing file, no steps, no members.
Missing == [M({}, {}, {}, FALSE) EXCEPT !.present = FALSE]
Hollow  == [M({}, {}, {}, FALSE) EXCEPT !.hasSteps = FALSE]

\* Three members: a provider that exports user (or nothing), a second one that
\* exports user again or mail, a consumer; given values, strict or not, one
\* iteration or two.
MCSuites ==
  { P(<<M({}, {user, mail}, e1, f), M(n2, {user, mail}, e2, FALSE), M({user}, {}, {}, FALSE)>>,
      g, s, k) :
      e1 \in {{}, {user}}, f \in BOOLEAN, n2 \in {{}, {user}}, e2 \in {{}, {user}, {mail}},
      g \in {{}, {user}}, s \in BOOLEAN, k \in {1, 2} }

MCOthers ==
  { P(<<M({}, {}, {}, FALSE), m>>, {}, s, 1) : m \in {Missing, Hollow}, s \in BOOLEAN }
  \cup { P(<<>>, {}, s, 1) : s \in BOOLEAN }
  \cup { [P(<<M(n, {user}, {user}, TRUE)>>, {user}, s, 1) EXCEPT !.suite = FALSE] :
           n \in {{}, {user}, {mail}}, s \in BOOLEAN }

MCPlans == MCSuites \cup MCOthers

\* A regression of a suite of two members, the second of which may raise.
MCRegression == { P(<<M({}, {}, {}, FALSE), M({}, {}, {}, TRUE)>>, {}, TRUE, 1) }
================================================================================
