-------------------------------- MODULE HttpStep --------------------------------
(***************************************************************************)
(* One execution of an HTTP step: run_step of tools/scenario_runner.py     *)
(* with run_http_step, smart_follow, run_poll_step, evaluate_expectations  *)
(* and apply_save.  The server is external: it answers each request with   *)
(* any of Answers, or not at all (an error or a timeout of the session).   *)
(*                                                                         *)
(* Answers are numbered as requests are; a URL is the number of the answer *)
(* that redirected to it (0: the step's own) and the kind of host.  What a *)
(* step saves is the number of the answer or URL it was taken from.        *)
(***************************************************************************)
EXTENDS Naturals, FiniteSets

CONSTANTS Steps,        \* the steps that may be executed
          MaxRedirects  \* max_redirects

\* Where a URL leads: the API, the API with an authorization code in the
\* query, a host of its own, a host that may not be called, the callback of
\* the client.
Hosts == {"own", "code", "other", "forbidden", "callback"}
Own   == [from |-> 0, host |-> "own"]

Redirects == {302, 307}
Codes     == {200, 400} \cup Redirects
\* The JSON of an answer: what the step expects, something else, "still
\* pending", "use a nonce", or none.
Contents  == {"good", "bad", "pending", "nonce", "none"}
Answers   ==
  { [code |-> 200, json |-> j, to |-> "none"] : j \in {"good", "bad", "none"} }
  \cup { [code |-> 400, json |-> j, to |-> "none"] : j \in {"pending", "nonce"} }
  \cup { [code |-> c, json |-> "none", to |-> h] : c \in Redirects, h \in Hosts \cup {"none"} }

Sources == {"json", "status_code", "final_url", "url_query", "body"}

Step == [forbidden : BOOLEAN,               \* its own target may not be called
         follow : BOOLEAN,                  \* follow_redirects
         body : BOOLEAN,                    \* json or data
         expected : SUBSET Codes,           \* expected_status, {}: any
         wants : BOOLEAN,                   \* expected_json_contains
         poll : {"no", "expected", "content", "ready"},
         attempts : Nat,                    \* max_attempts
         nonceRetry : BOOLEAN]              \* dpop_nonce_retry

ASSUME StepsAssumption == Steps \subseteq Step /\ MaxRedirects \in Nat

VARIABLES
  step,      \* the step
  pc,        \* "begin", "asking", "returned", "saving", "saved", "done" or "raised"
  phase,     \* "first", the polled or only exchange, or "retry"
  direct,    \* the request is the first of a step that does not follow
  request,   \* the request that is out
  hops,      \* requests smart_follow has made
  sent,      \* requests sent: the number of the last one
  answered,  \* the last request that was answered
  last,      \* the answer that counts so far, NoAnswer when there is none
  final,     \* final_url, or None
  text,      \* the body that counts: an answer's, an "error" or "empty"
  attempt,   \* polling attempts made
  success,   \* what run_http_step or run_poll_step returned
  mismatch,
  saved      \* the variable saved from each source

exchange == <<direct, request, hops, sent, answered, last, final, text>>
vars     == <<step, pc, phase, exchange, attempt, success, mismatch, saved>>

None == [from |-> 0, host |-> "none"]
NoAnswer == [nr |-> 0, code |-> 0, json |-> "none", url |-> None]

From(kind, nr) == [kind |-> kind, nr |-> nr]
Null == From("null", 0)

Polled == step.poll # "no" /\ phase = "first"

Init ==
  /\ step \in Steps
  /\ pc = "begin"
  /\ phase = "first"
  /\ direct = FALSE
  /\ request = [url |-> Own, body |-> FALSE]
  /\ hops = 0 /\ sent = 0 /\ answered = 0
  /\ last = NoAnswer /\ final = None /\ text = "empty"
  /\ attempt = 0
  /\ success = FALSE /\ mismatch = TRUE
  /\ \E before \in {"old", "absent"} : saved = [s \in Sources |-> From(before, 0)]

--------------------------------------------------------------------------------
(***************************************************************************)
(* run_http_step and smart_follow.                                         *)
(***************************************************************************)
\* Fault: a redirected request keeps its body.
BodyAlwaysKept(code) == step.body

\* The first redirect of a step that does not follow keeps the body unless it
\* turns the method into GET; later ones (smart_follow) never do.
KeepsBody(code) == direct /\ step.body /\ code # 302

\* smart_follow stops before the client's callback and at a code.
StopsAt(host) == host \in {"callback", "code"}

\* smart_follow sends max_redirects + 1 requests at most.
MoreHops == hops <= MaxRedirects

\* evaluate_expectations
Satisfied(a) ==
  /\ a # NoAnswer
  /\ step.expected = {} \/ a.code \in step.expected
  /\ step.wants => a.json = "good"

\* run_http_step returns without judging: a forbidden target, an error.
Refused(isMismatch, url) ==
  /\ pc' = "returned"
  /\ last' = NoAnswer /\ final' = url /\ text' = "error"
  /\ success' = FALSE /\ mismatch' = isMismatch

\* run_http_step returns what it makes of an answer, or of none.
Judged(a, url) ==
  /\ pc' = "returned"
  /\ last' = a /\ final' = url
  /\ text' = IF a = NoAnswer THEN "empty" ELSE "answer"
  /\ success' = Satisfied(a) /\ mismatch' = ~Satisfied(a)

Send(url, body) ==
  /\ pc' = "asking"
  /\ request' = [url |-> url, body |-> body]
  /\ sent' = sent + 1

\* Fault: the attempts are not counted.
NotCounted == attempt

NextAttempt == attempt + 1

\* A polled step that is out of attempts does not get here.
Begin ==
  /\ pc = "begin"
  /\ Polled => attempt < step.attempts
  /\ attempt' = IF Polled THEN NextAttempt ELSE attempt
  /\ \/ /\ step.forbidden
        /\ Refused(FALSE, Own)
        /\ UNCHANGED <<direct, request, hops, sent>>
     \/ /\ ~step.forbidden
        /\ Send(Own, step.body)
        /\ direct' = ~step.follow
        /\ hops' = IF step.follow THEN 1 ELSE 0
        /\ last' = NoAnswer
        /\ UNCHANGED <<final, text, success, mismatch>>
  /\ UNCHANGED <<step, phase, answered, saved>>

\* RequestException.  smart_follow returns the answer before it, if any.
NoReply ==
  /\ pc = "asking"
  /\ IF direct THEN Refused(TRUE, None) ELSE Judged(last, request.url)
  /\ UNCHANGED <<step, phase, direct, request, hops, sent, answered, attempt, saved>>

Number(a) == [nr |-> sent, code |-> a.code, json |-> a.json, url |-> request.url]
Target(a)  == [from |-> sent, host |-> a.to]

\* The first answer to a step that does not follow redirects: unless the step
\* expects this redirect, one within the origin is followed.
DirectReply(a) ==
  /\ pc = "asking"
  /\ direct
  /\ answered' = sent
  /\ IF a.to \in {"own", "code"} /\ a.code \notin step.expected
     THEN /\ Send(Target(a), KeepsBody(a.code))
          /\ direct' = FALSE
          /\ hops' = 1
          /\ last' = NoAnswer
          /\ UNCHANGED <<final, text, success, mismatch>>
     ELSE /\ Judged(Number(a), IF a.to = "none" THEN request.url ELSE Target(a))
          /\ UNCHANGED <<direct, hops, request, sent>>
  /\ UNCHANGED <<step, phase, attempt, saved>>

\* An answer smart_follow returns.
FollowEnds(a) ==
  /\ pc = "asking"
  /\ ~direct
  /\ a.to = "none" \/ StopsAt(a.to) \/ (a.to # "forbidden" /\ ~MoreHops)
  /\ answered' = sent
  /\ Judged(Number(a), IF a.to = "none" THEN request.url ELSE Target(a))
  /\ UNCHANGED <<step, phase, direct, request, hops, sent, attempt, saved>>

\* A redirect to a forbidden host: ValueError, which run_http_step catches
\* only when it was told to follow.
FollowForbidden(a) ==
  /\ pc = "asking"
  /\ ~direct
  /\ a.to = "forbidden"
  /\ answered' = sent
  /\ IF step.follow
     THEN Refused(FALSE, Own)
     ELSE pc' = "raised" /\ UNCHANGED <<last, final, text, success, mismatch>>
  /\ UNCHANGED <<step, phase, direct, request, hops, sent, attempt, saved>>

Follow(a) ==
  /\ pc = "asking"
  /\ ~direct
  /\ a.to \notin {"none", "forbidden"} /\ ~StopsAt(a.to) /\ MoreHops
  /\ answered' = sent
  /\ last' = Number(a)
  /\ hops' = hops + 1
  /\ Send(Target(a), KeepsBody(a.code))
  /\ UNCHANGED <<step, phase, direct, final, text, attempt, success, mismatch, saved>>

--------------------------------------------------------------------------------
(***************************************************************************)
(* run_poll_step.                                                          *)
(***************************************************************************)
\* Fault: any error but the awaited one ends the polling.
PollDoneOnOtherError ==
  \/ step.poll = "expected" /\ success
  \/ step.poll = "content" /\ last.json = "good"
  \/ step.poll = "ready" /\ last.json \notin {"none", "pending"}

PollDone ==
  \/ step.poll = "expected" /\ success
  \/ step.poll = "content" /\ last.json = "good"
  \/ /\ step.poll = "ready"
     /\ last.json \notin {"none", "pending"}
     /\ last.code = 200 \/ success

\* A single exchange is over.
Return ==
  /\ pc = "returned"
  /\ ~Polled
  /\ pc' = "saving"
  /\ UNCHANGED <<step, phase, exchange, attempt, success, mismatch, saved>>

PollEnds ==
  /\ pc = "returned"
  /\ Polled
  /\ PollDone
  /\ pc' = "saving"
  /\ success' = TRUE /\ mismatch' = FALSE
  /\ UNCHANGED <<step, phase, exchange, attempt, saved>>

PollAgain ==
  /\ pc = "returned"
  /\ Polled
  /\ ~PollDone
  /\ attempt < step.attempts
  /\ pc' = "begin"
  /\ UNCHANGED <<step, phase, exchange, attempt, success, mismatch, saved>>

\* Out of attempts, at once when max_attempts is 0.
PollTimesOut ==
  /\ Polled
  /\ attempt = step.attempts
  /\ pc = "begin" \/ (pc = "returned" /\ ~PollDone)
  /\ pc' = "saving"
  /\ success' = FALSE /\ mismatch' = TRUE
  /\ UNCHANGED <<step, phase, exchange, attempt, saved>>

--------------------------------------------------------------------------------
(***************************************************************************)
(* run_step: save, and retry once with a nonce.                            *)
(***************************************************************************)
HasCode(url) == url.host \in {"code", "callback"}

\* apply_save.  A source without a value sets the variable to None, except a
\* status without an answer and a query parameter that is not there.
SavedFrom(s) ==
  CASE s = "json"        -> IF last.json = "none" THEN Null ELSE From("answer", last.nr)
    [] s = "status_code" -> IF last = NoAnswer THEN saved[s] ELSE From("answer", last.nr)
    [] s = "final_url"   -> IF final = None THEN Null ELSE From("url", final.from)
    [] s = "body"        -> IF text = "answer" THEN From("answer", last.nr) ELSE From(text, 0)
    [] s = "url_query"   -> IF HasCode(final) THEN From("url", final.from)
                            ELSE IF saved[s].kind = "absent" THEN Null ELSE saved[s]

\* Fault: the retry is not saved.
SavesFirst == phase = "first"

\* The retry is saved when it was answered, the rest when there is anything.
Saves == IF phase = "retry" THEN last # NoAnswer
         ELSE last # NoAnswer \/ final # None \/ text # "empty"

Save ==
  /\ pc = "saving"
  /\ saved' = IF Saves THEN [s \in Sources |-> SavedFrom(s)] ELSE saved
  /\ pc' = "saved"
  /\ UNCHANGED <<step, phase, exchange, attempt, success, mismatch>>

\* The server asked for a nonce: an answer to the retry does not count.
AsksNonce ==
  /\ phase = "first"
  /\ ~success /\ step.nonceRetry
  /\ last.code = 400 /\ last.json = "nonce"

\* The answer had a DPoP-Nonce header; the retry is one exchange, not polled.
Retry ==
  /\ pc = "saved"
  /\ AsksNonce
  /\ phase' = "retry"
  /\ pc' = "begin"
  /\ UNCHANGED <<step, exchange, attempt, success, mismatch, saved>>

\* It may have had none, so a step that could retry may also end.
Finish ==
  /\ pc = "saved"
  /\ pc' = "done"
  /\ UNCHANGED <<step, phase, exchange, attempt, success, mismatch, saved>>

Reply == \E a \in Answers : \/ DirectReply(a) \/ FollowEnds(a)
                             \/ FollowForbidden(a) \/ Follow(a)

Over == pc \in {"done", "raised"} /\ UNCHANGED vars

Exchange == \/ Begin \/ NoReply \/ Reply
         \/ Return \/ PollEnds \/ PollAgain \/ PollTimesOut
         \/ Save \/ Retry \/ Finish

Next == Exchange \/ Over

\* Every request is answered or times out, and the worker goes on.
Spec == Init /\ [][Next]_vars /\ WF_vars(Exchange)

--------------------------------------------------------------------------------
(***************************************************************************)
(* Properties.                                                             *)
(***************************************************************************)
Urls   == [from : Nat, host : Hosts]
Answer == [nr : Nat \ {0}, code : Codes, json : Contents, url : Urls]
Value  == [kind : {"old", "absent", "null", "answer", "url", "error", "empty"}, nr : Nat]

\* Type invariant: the values every variable ranges over.
TypeOK ==
  /\ step \in Steps
  /\ pc \in {"begin", "asking", "returned", "saving", "saved", "done", "raised"}
  /\ phase \in {"first", "retry"}
  /\ direct \in BOOLEAN
  /\ request \in [url : Urls, body : BOOLEAN]
  /\ hops \in 0..(MaxRedirects + 1)
  /\ sent \in Nat /\ answered \in 0..sent
  /\ last \in Answer \cup {NoAnswer}
  /\ final \in Urls \cup {None}
  /\ text \in {"answer", "error", "empty"}
  /\ attempt \in 0..step.attempts
  /\ success \in BOOLEAN /\ mismatch \in BOOLEAN
  /\ saved \in [Sources -> Value]

\* A step passes on the last answer it got and on nothing older: that one
\* meets the expectations, or the condition of its polling.
Awaited(a) ==
  \/ step.poll = "content" /\ a.json = "good"
  \/ step.poll = "ready" /\ a.code = 200 /\ a.json # "pending"
PassesOnTheLastAnswer ==
  pc = "done" /\ success =>
    /\ last.nr = answered /\ answered > 0
    /\ Satisfied(last) \/ (phase = "first" /\ Awaited(last))

\* The query parameter is not in the URL the step came to: the variable keeps
\* what it had before the step or, after a retry, what the first exchange saved.
QueryIsKept ==
  /\ ~HasCode(final)
  /\ saved["url_query"] \in {Null, From("old", 0)} \/ phase = "retry"

\* What a step that passed has saved it saved from the answer it passed on and
\* from the URL of that answer or the one it redirects to, through redirects,
\* polling and the retry; but for a query parameter that this URL lacks, which
\* apply_save leaves alone: after a retry the variables may mix two exchanges.
\* (After a failed step they may be those of an earlier answer.)
SavedFromTheLastAnswer ==
  pc = "done" /\ success =>
    /\ saved["status_code"] = From("answer", answered)
    /\ saved["body"] = From("answer", answered)
    /\ saved["json"] \in {Null, From("answer", answered)}
    /\ saved["final_url"] \in {From("url", last.url.from), From("url", answered)}
    /\ saved["url_query"] = saved["final_url"] \/ QueryIsKept

\* Only a request to the API itself carries the body of the step.
BodyStaysHome ==
  pc = "asking" /\ request.body => request.url.host \in {"own", "code"}

\* A redirect never makes the runner call a forbidden host or the client's
\* callback; a URL with a code only within the origin, for a step that does
\* not follow redirects.
CallsOnlyTargets ==
  pc = "asking" =>
    /\ request.url.host \notin {"forbidden", "callback"}
    /\ request.url.host = "code" => ~step.follow /\ hops = 1

\* Redirects neither carry the body of the step to another host nor lead the
\* runner where it may not go.
RequestsStayHome == BodyStaysHome /\ CallsOnlyTargets

\* The requests of a step are bounded: so many attempts and one retry, so
\* many redirects each.
Exchanges == (IF step.poll = "no" THEN 1 ELSE step.attempts) + 1
RequestsAreBounded == sent <= Exchanges * (MaxRedirects + 2)

\* A step always ends, whatever the server answers and however often.
EveryStepEnds == <>(pc \in {"done", "raised"})
================================================================================
