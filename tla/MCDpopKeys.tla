------------------------------- MODULE MCDpopKeys -------------------------------
(***************************************************************************)
(* Instances of DpopKeys for TLC.                                          *)
(***************************************************************************)
EXTENDS DpopKeys

CONSTANTS a, b,      \* two clients
          k, l       \* two key names

\* The flows the prepare actions are made for: take (or reset) the key, prove
\* possession for the token, prove it again for each call; or no dpop_key at
\* all; or two calls.
Flow(first) == first \o <<"proof", "token", "proof", "call">>
Flows       == {Flow(<<>>), Flow(<<"get">>), Flow(<<"reset">>)}
Twice(f)    == f \o <<"proof", "call">>

Pair(n, f, m, g) ==
  (a :> [key |-> n, ops |-> f]) @@ (b :> [key |-> m, ops |-> g])

MCPrograms == { Pair(k, f, m, Twice(g)) : m \in {k, l}, f \in Flows, g \in Flows }
================================================================================
