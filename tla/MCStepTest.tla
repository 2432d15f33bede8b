------------------------------- MODULE MCStepTest -------------------------------
(***************************************************************************)
(* Instances of StepTest: scenarios of three steps, with every way they    *)
(* end; and environments of up to nine names.                              *)
(***************************************************************************)
EXTENDS StepTest

MCKeys == {"server", "base_url", "url", "mock_provider", "a", "b", "a_encoded", "o.k", "d.l"}
MCNested == {"o.k"}
MCDotted == {"d.l"}
MCCompanion == [k \in {"a"} |-> "a_encoded"]
MCVars == {"a", "b", "p"}
MCWords == {"base", "default", "http://localhost/", "/path", "S", "A", "B", "over",
            "coll", "H", "abs", "L"}

NoSave == [v \in {} |-> ""]
Step(method, save, uses, prepare, stop) ==
  [method |-> method, save |-> save, uses |-> uses, spared |-> {}, prepare |-> prepare,
   unmade |-> {}, stop |-> stop]
Spared(step, names) == [step EXCEPT !.spared = names]
Failing(step, outs) == [step EXCEPT !.unmade = outs]
Make(v)     == [out |-> v, of |-> "nothing", default |-> "none"]
Copy(v, of) == [out |-> v, of |-> of, default |-> "none"]
CopyOr(v, of, default) == [out |-> v, of |-> of, default |-> default]

SavesTwo == Step("HTTP", [p |-> "url", b |-> "json"], {}, <<>>, "unset")
Library ==
  { Step("PREPARE", NoSave, {}, <<Copy("p", "b"), Copy("b","a")>>, "unset"),
    Step("PREPARE", NoSave, {}, <<Copy("p", "b"), Make("b")>>, "unset"),
    Step("PREPARE", NoSave, {}, <<CopyOr("p", "b", "text")>>, "unset"),
    Failing(Step("PREPARE", NoSave, {}, <<Make("p")>>, "false"), {"b"}),
    Failing(Step("HTTP", [a |-> "json"], {}, <<Make("p")>>, "true"), {"nothing"}),
    Step("HTTP", [a |-> "url", b |-> "code"], {}, <<>>, "true"),
    Step("HTTP", [b |-> "json"], {"a"}, <<>>, "false"),
    Step("HTTP", [a |-> "body"], {"p"}, <<Copy("p", "b")>>, "true"),
    Step("PREPARE", NoSave, {}, <<Make("p")>>, "unset"),
    Step("PREPARE", NoSave, {}, <<Copy("p", "a"), Make("b")>>, "unset"),
    Step("SLEEP", NoSave, {}, <<Make("b"), Copy("p", "b")>>, "unset"),
    Step("EXEC", [b |-> "stdout"], {"a"}, <<>>, "unset") }
LastSteps == { Spared(Step("EXEC", NoSave, {"p", "b"}, <<>>, "unset"), {"p"}),
              Spared(Step("SLEEP", NoSave, {"p", "a"}, <<>>, "unset"), {"p", "a"}),
              Step("HTTP", NoSave, {"p", "b"}, <<CopyOr("p", "b", "empty")>>, "unset") }

Ask(kind, step) == [kind |-> kind, step |-> step, hydrate |-> TRUE]
Show(step, hydrate) == [kind |-> "preview", step |-> step, hydrate |-> hydrate]
Requests == { <<Ask("sequence", 0), Show(3, TRUE)>>,
              <<Show(2, TRUE), Show(3, TRUE)>>, <<Show(3, FALSE), Show(3, TRUE)>>,
              <<Ask("test", 3), Show(3, FALSE)>> }

Nothing == [k \in MCKeys |-> Absent]
Plain == [collection |-> Nothing, scenario |-> Nothing, overrides |-> Nothing, host |-> <<>>,
          base |-> <<Text("base")>>, absolute |-> <<>>, texts |-> {}]

Flows == [data |-> {Plain}, scenarios |-> (Library \cup {SavesTwo}) \X Library \X LastSteps, requests |-> Requests]

Default == <<Text("default")>>
Servers   == { Absent, <<>>, <<Text("S")>>, <<LocalUrl>>, <<Ref("a", None)>>, <<Ref("a", None), Path>> }
Urls      == { Absent, <<Ref("b", None)>>, <<Ref("server", Default), Path>> }
AValues   == { Absent, <<Text("A")>>, <<Ref("b", None)>>, <<Ref("b", Default)>> }
BValues   == { Absent, <<Text("B")>>, <<Ref("a", None)>>, <<Ref("server", None)>>, <<Ref("a_encoded", None)>> }
CompanionValues == { Absent, <<>> }
Inner == [k \in MCKeys |-> IF k = "o.k" THEN <<Ref("a", Default)>>
                          ELSE IF k = "d.l" THEN <<Text("L")>> ELSE Absent]
Outer ==
  [server : Servers, base_url : {Absent}, url : Urls, mock_provider : {Absent},
   a : AValues, b : BValues, a_encoded : CompanionValues]
Environments == {outer @@ Inner : outer \in Outer}
Overrides == { Nothing, [Nothing EXCEPT !["b"] = <<Text("over")>>] }
Collections == { Nothing, [Nothing EXCEPT !["a"] = <<Text("coll")>>, !["b"] = <<>>] }
Texts == { {<<Ref("server", None)>>, <<Ref("a", None)>>, <<PathRef("o.k", None)>>},
           {<<Ref("url", None), Path>>, <<Ref("b", Default), Ref("o.k", None)>>},
           {<<Ref("b", None)>>, <<Ref("b", Default), Ref("d.l", None)>>,
            <<PathRef("b", None), PathRef("d.l", None)>>} }
Datas == {d \in
  [collection : Collections, scenario : Environments, overrides : Overrides,
   host : {<<>>, <<Text("H")>>}, base : {<<>>, <<Text("base")>>},
   absolute : {<<Text("abs")>>}, texts : Texts] :
  (d.host = <<>> \/ d.base = <<>>) /\ (d.collection = Nothing \/ d.overrides = Nothing)}
Settings == [data |-> Datas, requests |-> {<<Ask("sequence", 0)>>},
             scenarios |-> {<<Step("SLEEP", NoSave, {}, <<>>, "unset")>>}]

MCBatches == {Flows, Settings}
================================================================================
