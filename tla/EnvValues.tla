------------------------------- MODULE EnvValues -------------------------------
(***************************************************************************)
(* The values of an environment, from the documents to what a step is      *)
(* rendered with: apply_collection_defaults, apply_env_overrides,          *)
(* expand_environment_values, finalize_environment_values and              *)
(* missing_environment_dependencies of tools/scenario_runner.py, and the   *)
(* two places that put them together, execute_scenario for a run and       *)
(* _prepare_step_test of webapp/app.py for a test of steps.                *)
(*                                                                         *)
(* A value is a sequence of parts: texts, {{ name : default }} and         *)
(* {{ vars.name }}.  A name with a dot is the path of a value inside of    *)
(* another one, or that of a key that has the dot in it; a use of it is    *)
(* written with or without env. before it.  What an object is as a whole,  *)
(* and one that takes the place of a text or the reverse, are left out.    *)
(***************************************************************************)
EXTENDS Naturals, Sequences, SequencesExt

CONSTANTS Keys,      \* the names an environment may have values for
          Companion, \* for some names, the name of their encoded value: foo_encoded
          Nested,    \* those of them for a value inside of another, as a.b
          Dotted,    \* those of them for a key with a dot in it
          MaxPasses, \* how often expand_environment_values substitutes: 10
          Words      \* the texts between placeholders, and the names of variables

ConnKeys == {"server", "base_url", "url", "mock_provider"}
HostKeys == <<"server", "base_url", "url">>

\* No two names have one companion, and a companion has none itself and is not the
\* name of a host.  A value inside of another has no companion, and no host does.
Encodings == Range(Companion)

ASSUME EnvAssumption ==
  /\ ConnKeys \subseteq Keys /\ MaxPasses \in Nat
  /\ DOMAIN Companion \subseteq Keys
  /\ Encodings \subseteq Keys \ (ConnKeys \cup DOMAIN Companion)
  /\ \A j, k \in DOMAIN Companion : Companion[j] = Companion[k] => j = k
  /\ Nested \cup Dotted \subseteq Keys \ ConnKeys /\ Nested \cap Dotted = {}
  /\ Nested \cap (DOMAIN Companion \cup Encodings) = {}

None   == <<[kind |-> "none"]>>      \* a placeholder without a default
Absent == <<[kind |-> "absent"]>>    \* a key that is not there

\* What is the same in every environment, what is not, and a sequence of both.
Fixed    == [kind : {"text", "vars", "encoded"}, name : Words, default : {None}]
Refs     == [kind : {"env"}, name : Keys, default : {None} \cup Seq(Fixed), way : {"bare", "path"}]
EnvValue == Seq(Fixed \cup Refs)

Text(t)       == [kind |-> "text", name |-> t, default |-> None]
Ref(k, d)     == [kind |-> "env", name |-> k, default |-> d, way |-> "bare"]
PathRef(k, d) == [Ref(k, d) EXCEPT !.way = "path"]   \* {{ env.k : d }} and {{ _.k : d }}

\* Texts that matter: the URL of this machine, and a path.
LocalUrl == Text("http://localhost/")
Path     == Text("/path")

Blank(v)    == v \in {Absent, <<>>}
Holes(v)    == {v[i] : i \in {j \in DOMAIN v : v[j].kind = "env"}}
Concrete(v) == ~Blank(v) /\ \A i \in DOMAIN v : v[i].kind # "env"

\* is_forbidden_api_target: nothing with a placeholder is.
Forbidden(v) ==
  v # <<>> /\ v[1] = LocalUrl /\ \A i \in DOMAIN v : v[i].kind = "text"

\* _usable_base_url
HasHost(v) == ~Blank(v) /\ v[1] # Path

\* merge_defined and apply_env_overrides: a blank never replaces, at any depth.
Over(higher, lower) ==
  [k \in Keys |-> IF Blank(higher[k]) THEN lower[k] ELSE higher[k]]

--------------------------------------------------------------------------------
(***************************************************************************)
(* Expansion.                                                              *)
(***************************************************************************)
\* Fault: a default is taken whether or not there is a value.
FilledByDefault(p, env) ==
  IF p.kind # "env" THEN <<p>>
  ELSE IF p.default # None THEN p.default
  ELSE IF Concrete(env[p.name]) THEN env[p.name] ELSE <<p>>

Filled(p, env) ==
  IF p.kind # "env" THEN <<p>>
  ELSE IF Concrete(env[p.name]) THEN env[p.name]
  ELSE IF p.default # None THEN p.default ELSE <<p>>

Substituted(v, env) == FlattenSeq([i \in DOMAIN v |-> Filled(v[i], env)])

Pass(env, keys) ==
  [k \in Keys |-> IF k \in keys THEN Substituted(env[k], env) ELSE env[k]]

\* Nothing is left to fill in: the loop ends.
Stable(env, keys) == \A k \in keys : \A p \in Holes(env[k]) : Filled(p, env) = <<p>>

Expanded(env, keys) ==
  LET after[n \in 0..MaxPasses] ==
        IF n = 0 THEN env
        ELSE LET was == after[n - 1] IN IF Stable(was, keys) THEN was ELSE Pass(was, keys)
  IN  after[MaxPasses]

Values(env) == {env[k] : k \in Keys}

\* The first of some values that is a good one, and that of the host keys.
FirstGood(vs, good) ==
  LET held == {i \in DOMAIN vs : vs[i] \in good}
  IN  IF held = {} THEN <<>> ELSE vs[Min(held)]
FirstOf(env, good) == FirstGood([i \in DOMAIN HostKeys |-> env[HostKeys[i]]], good)

\* apply_encoded_companions: where both are there, foo_encoded is that of foo.
Encoded(v) == [i \in DOMAIN v |-> [v[i] EXCEPT !.kind = "encoded"]]
Companions(env) ==
  [k \in Keys |->
     IF \E j \in DOMAIN Companion : Companion[j] = k /\ Concrete(env[j]) /\ env[k] # Absent
     THEN Encoded(env[CHOOSE j \in DOMAIN Companion : Companion[j] = k])
     ELSE env[k]]

UsableHost(v) == Concrete(v) /\ ~Forbidden(v)

\* The host of the environment, or else the base URL, becomes "server".
WithServer(env, base) ==
  LET own  == FirstOf(env, {v \in Values(env) : UsableHost(v)})
      host == IF own = <<>> /\ ~Forbidden(base) THEN base ELSE own
  IN  IF host = <<>> THEN env
      ELSE [env EXCEPT !["server"] = host,
                       !["base_url"] = IF @ = Absent THEN host ELSE @]

\* finalize_environment_values
Finalized(env, base) ==
  Companions(Expanded(WithServer(Expanded(env, ConnKeys), base), Keys))

\* Fault: one use with a default excuses the others.
MissingUnlessDefault(env, texts) ==
  LET uses == UNION {Holes(v) : v \in texts}
  IN  {k \in Keys : (\E p \in uses : p.name = k) /\ ~Concrete(env[k])
                      /\ \A p \in uses : p.name = k => p.default = None}

\* missing_environment_dependencies: names some text uses without a default.
\* A connection key is excused as soon as any of them has a host.
Missing(env, texts) ==
  {k \in Keys :
     /\ \E v \in texts : \E p \in Holes(v) : p.name = k /\ p.default = None
     /\ ~Concrete(env[k])
     /\ k \in ConnKeys => \A c \in ConnKeys : ~UsableHost(env[c])}

\* require_routable_api_targets
Routable(env, base) == \A v \in {base} \cup {env[k] : k \in ConnKeys} : ~Forbidden(v)

Prepared(env, texts, base) ==
  [env |-> env, base |-> base,
   refused |-> Missing(env, texts) # {} \/ ~Routable(env, base)]

--------------------------------------------------------------------------------
(***************************************************************************)
(* Putting them together, from d: the values in the collection and in the  *)
(* scenario, the overrides and the host of the page, the base URL of the   *)
(* scenario, the host of a step with a URL of its own, all texts of steps. *)
(* An override of a name with a dot always becomes a value inside another. *)
(***************************************************************************)
Document == {d \in
  [collection : [Keys -> EnvValue \cup {Absent}], scenario : [Keys -> EnvValue \cup {Absent}],
   overrides : [Keys -> EnvValue \cup {Absent}], host : EnvValue, base : EnvValue,
   absolute : EnvValue, texts : SUBSET EnvValue] :
  \A k \in Dotted : d.overrides[k] = Absent}

Stored(d) == Over(d.collection, d.scenario)

ServerOf(env) == IF Blank(env["server"]) THEN env["base_url"] ELSE env["server"]

FirstSet(env) == FirstOf(env, {v \in Values(env) : ~Blank(v)})
OrBase(v, base) == IF v = <<>> THEN base ELSE v

\* execute_scenario, with resolve_base_url.
RunBase(d) == IF d.host # <<>> THEN d.host
              ELSE OrBase(FirstSet(Expanded(Stored(d), ConnKeys)), d.base)

RunPrepared(d) ==
  LET env == Finalized(Over(d.overrides, Stored(d)), RunBase(d))
  IN  Prepared(env, d.texts, IF Blank(ServerOf(env)) THEN RunBase(d) ELSE ServerOf(env))

FirstHost(vs)  == FirstGood(vs, {v \in Range(vs) : HasHost(v)})
StoredHost(d)  == OrBase(FirstSet(Expanded(Stored(d), Keys)), d.base)

\* Fault: the host of the page is asked last.
StoredFirst(d) == FirstHost(<<StoredHost(d), d.absolute, d.host>>)

\* _prepare_step_test, with _get_scenario_base_url and _base_url_from_steps.
TestBase(d) == FirstHost(<<d.host, StoredHost(d), d.absolute>>)

TestPrepared(d) ==
  LET env == Finalized(Over(d.overrides, Stored(d)), TestBase(d))
  IN  Prepared(env, d.texts, IF HasHost(ServerOf(env)) THEN ServerOf(env) ELSE TestBase(d))

\* resolve_named_token: a name alone is a key, one after env. is a path.
Found(p, env) ==
  IF p.name \in (IF p.way = "bare" THEN Nested ELSE Dotted) THEN Absent ELSE env[p.name]

\* resolve_token: what a placeholder of a step gives.
Rendered(p, env) ==
  IF Blank(Found(p, env)) THEN (IF p.default = None THEN <<>> ELSE p.default)
  ELSE Found(p, env)
================================================================================
