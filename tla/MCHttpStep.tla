------------------------------- MODULE MCHttpStep -------------------------------
(***************************************************************************)
(* Instances of HttpStep for TLC.                                          *)
(***************************************************************************)
EXTENDS HttpStep

\* Steps that follow redirects or not, with a body or not, with any status or
\* one, polled each way or not, with a retry or not; one with a forbidden
\* target, one that may not even try.
S(follow, body, expected, poll, retry) ==
  [forbidden |-> FALSE, follow |-> follow, body |-> body, expected |-> expected,
   wants |-> poll = "no", poll |-> poll, attempts |-> 2, nonceRetry |-> retry]

MCSteps ==
  { S(f, TRUE, e, p, r) :
      f \in BOOLEAN, e \in {{}, {200}, {302}}, r \in BOOLEAN,
      p \in {"no", "expected", "content", "ready"} }
  \cup { [S(f, FALSE, {}, "no", FALSE) EXCEPT !.wants = FALSE] : f \in BOOLEAN }
  \cup { [S(FALSE, TRUE, {200}, p, TRUE) EXCEPT !.forbidden = TRUE] : p \in {"no", "ready"} }
  \cup { [S(FALSE, TRUE, {200}, "ready", TRUE) EXCEPT !.attempts = 0] }
================================================================================
