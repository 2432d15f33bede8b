----------------------------- MODULE HttpStepProofs -----------------------------
(***************************************************************************)
(* Proofs about HttpStep, for any steps, any number of redirects and any   *)
(* server: its type invariant and every safety property its run checks.    *)
(*                                                                         *)
(* The inductive invariant says besides them what a request that is out    *)
(* may assume (Sending), that no answer but the latest is kept             *)
(* (LastIsLatest), that a body and a URL are kept with their answer        *)
(* (TextIsItsBody, UrlIsItsOwn), that nothing is saved before the exchange *)
(* is over (QueryIsOld), what a success rests on (SuccessIsDeserved) and   *)
(* how many requests the exchanges so far can have cost (Counted).         *)
(***************************************************************************)
EXTENDS HttpStep, TLAPS

\* The first request of a step that does not follow is its only one so far.
Sending ==
  pc = "asking" =>
    /\ sent > 0
    /\ direct => ~step.follow /\ hops = 0 /\ last = NoAnswer

LastIsLatest ==
  pc # "raised" => last = NoAnswer \/ (last.nr = answered /\ answered > 0)

TextIsItsBody ==
  pc \notin {"asking", "raised"} /\ last # NoAnswer => text = "answer"

\* The redirect that counts so far leads to the URL that is asked for; the final
\* URL is that of the answer or where it redirects to.
UrlIsItsOwn ==
  last # NoAnswer =>
    /\ pc = "asking" => request.url.from = last.nr
    /\ pc \notin {"asking", "raised"} =>
         final # None /\ final.from \in {last.url.from, last.nr}

QueryIsOld ==
  phase = "first" /\ pc \notin {"saved", "done"} =>
    saved["url_query"] \in {From("old", 0), From("absent", 0)}

\* An exchange succeeds on what is expected, a polled step on its condition.
SuccessIsDeserved ==
  /\ pc = "returned" /\ success => Satisfied(last)
  /\ pc \in {"saving", "saved", "done"} /\ success =>
       Satisfied(last) \/ (phase = "first" /\ Awaited(last))

\* SavedFromTheLastAnswer, from the moment of saving on.
SavedIsLatest ==
  pc \in {"saved", "done"} /\ success =>
    /\ saved["status_code"] = From("answer", answered)
    /\ saved["body"] = From("answer", answered)
    /\ saved["json"] \in {Null, From("answer", answered)}
    /\ saved["final_url"] \in {From("url", last.url.from), From("url", answered)}
    /\ saved["url_query"] = saved["final_url"] \/ QueryIsKept

\* Exchanges begun so far (the retry is counted as the last one possible),
\* and the requests one may cost.
Begun ==
  IF phase = "retry" THEN IF pc = "begin" THEN Exchanges - 1 ELSE Exchanges
  ELSE IF step.poll = "no" THEN IF pc = "begin" THEN 0 ELSE 1
  ELSE attempt
Cost == MaxRedirects + 2

Counted ==
  IF pc = "asking" THEN sent + Cost <= Begun * Cost + hops + 1
                   ELSE sent <= Begun * Cost

IInv ==
  /\ TypeOK
  /\ Sending
  /\ BodyStaysHome
  /\ CallsOnlyTargets
  /\ LastIsLatest
  /\ TextIsItsBody
  /\ UrlIsItsOwn
  /\ QueryIsOld
  /\ SuccessIsDeserved
  /\ SavedIsLatest
  /\ Counted
--------------------------------------------------------------------------------
\* A step is well formed.
LEMMA StepType ==
  ASSUME step \in Steps
  PROVE  /\ step.forbidden \in BOOLEAN /\ step.follow \in BOOLEAN
         /\ step.body \in BOOLEAN /\ step.attempts \in Nat
         /\ MaxRedirects \in Nat
  BY StepsAssumption DEF Step

\* An answer has a known code and content; only a redirect leads elsewhere.
LEMMA AnswerType ==
  ASSUME NEW a \in Answers
  PROVE  /\ a.code \in Codes /\ a.json \in Contents
         /\ a.to \in Hosts \cup {"none"}
  BY DEF Answers, Codes, Contents, Redirects, Hosts

\* An answer, numbered, is one the step can keep; its target is a URL.
LEMMA NumberType ==
  ASSUME TypeOK, sent > 0, NEW a \in Answers
  PROVE  /\ Number(a) \in Answer
         /\ a.to # "none" => Target(a) \in Urls
  BY AnswerType DEF TypeOK, Number, Answer, Target, Urls

LEMMA InitIInv == Init => IInv
  <1> SUFFICES ASSUME Init PROVE IInv
    OBVIOUS
  <1> USE StepType DEF Init
  <1>1. TypeOK
    <2>1. Own \in Urls
      BY DEF Own, Urls, Hosts
    <2>2. \A k \in {"old", "absent"} : From(k, 0) \in Value
      BY DEF From, Value
    <2>3. saved \in [Sources -> Value]
      BY <2>2
    <2>4. request \in [url : Urls, body : BOOLEAN]
      BY <2>1
    <2>5. attempt \in 0..step.attempts /\ hops \in 0..(MaxRedirects + 1)
      OBVIOUS
    <2>6. /\ step \in Steps
          /\ pc \in {"begin", "asking", "returned", "saving", "saved", "done", "raised"}
          /\ phase \in {"first", "retry"}
          /\ sent \in Nat /\ answered \in 0..sent
          /\ last \in Answer \cup {NoAnswer}
          /\ final \in Urls \cup {None}
          /\ text \in {"answer", "error", "empty"}
      OBVIOUS
    <2>7. direct \in BOOLEAN /\ success \in BOOLEAN /\ mismatch \in BOOLEAN
      OBVIOUS
    <2> QED BY <2>3, <2>4, <2>5, <2>6, <2>7, Zenon DEF TypeOK
  <1>2. Counted
    BY DEF Counted, Begun, Cost
  <1>3. QueryIsOld
    BY DEF QueryIsOld, Sources
  <1>4. SavedIsLatest
    BY DEF SavedIsLatest
  <1>5. UrlIsItsOwn
    BY DEF UrlIsItsOwn
  <1> QED
    BY <1>1, <1>2, <1>3, <1>4, <1>5 DEF IInv, Sending, BodyStaysHome, CallsOnlyTargets, LastIsLatest,
       TextIsItsBody, SuccessIsDeserved

--------------------------------------------------------------------------------
(***************************************************************************)
(* Types.                                                                  *)
(***************************************************************************)
\* The variables Refused and Judged assign keep their types.
LEMMA RefusedType ==
  ASSUME NEW b \in BOOLEAN, NEW url \in Urls \cup {None}, Refused(b, url)
  PROVE  /\ pc' = "returned" /\ last' = NoAnswer /\ final' \in Urls \cup {None}
         /\ text' \in {"answer", "error", "empty"}
         /\ success' \in BOOLEAN /\ mismatch' \in BOOLEAN
  BY DEF Refused

LEMMA JudgedType ==
  ASSUME NEW a \in Answer \cup {NoAnswer}, NEW url \in Urls \cup {None}, Judged(a, url)
  PROVE  /\ pc' = "returned" /\ last' = a /\ final' \in Urls \cup {None}
         /\ text' \in {"answer", "error", "empty"}
         /\ success' \in BOOLEAN /\ mismatch' \in BOOLEAN
  BY DEF Judged, Satisfied

\* Whatever apply_save takes from an exchange is a value.
LEMMA SavedFromType ==
  ASSUME TypeOK, NEW s \in Sources
  PROVE  SavedFrom(s) \in Value
  <1>1. last = NoAnswer \/ last.nr \in Nat
    BY DEF TypeOK, Answer
  <1>2. final = None \/ final.from \in Nat
    BY DEF TypeOK, Urls
  <1>3. saved[s] \in Value
    BY DEF TypeOK
  <1>4. Null \in Value
    BY DEF Null, From, Value
  <1>5. last.nr \in Nat
    BY <1>1 DEF NoAnswer
  <1>6. final.from \in Nat
    BY <1>2 DEF None
  <1>7. From("answer", last.nr) \in Value /\ From("url", final.from) \in Value
    BY <1>5, <1>6 DEF From, Value
  <1>8. From(text, 0) \in Value
    BY DEF From, Value, TypeOK
  <1> QED BY <1>3, <1>4, <1>7, <1>8 DEF SavedFrom, Sources

LEMMA NextTypeOK ==
  ASSUME TypeOK, Sending, [Next]_vars
  PROVE  TypeOK'
  <1> USE StepType
  <1>0. Own \in Urls /\ None \in Urls \cup {None}
    BY DEF Own, Urls, Hosts
  <1>1. CASE Begin
    <2>0. attempt' \in 0..step.attempts
      BY <1>1 DEF Begin, NextAttempt, TypeOK
    <2>1. CASE step.forbidden /\ Refused(FALSE, Own) /\ UNCHANGED <<direct, request, hops, sent>>
      <3>1. /\ pc' = "returned" /\ last' = NoAnswer /\ final' \in Urls \cup {None}
            /\ text' \in {"answer", "error", "empty"}
            /\ success' \in BOOLEAN /\ mismatch' \in BOOLEAN
        BY <1>0, <2>1, RefusedType
      <3> QED BY <1>1, <2>1, <2>0, <3>1 DEF Begin, TypeOK
    <2>2. CASE /\ Send(Own, step.body) /\ direct' = ~step.follow
               /\ hops' = (IF step.follow THEN 1 ELSE 0) /\ last' = NoAnswer
               /\ UNCHANGED <<final, text, success, mismatch>>
      BY <1>0, <1>1, <2>0, <2>2 DEF Begin, TypeOK, Send
    <2> QED BY <1>1, <2>1, <2>2 DEF Begin
  <1>2. CASE NoReply
    <2>1. request.url \in Urls
      BY DEF TypeOK
    <2>2. last \in Answer \cup {NoAnswer}
      BY DEF TypeOK
    <2> QED BY <1>0, <1>2, <2>1, <2>2, RefusedType, JudgedType DEF NoReply, TypeOK
  <1>3. ASSUME NEW a \in Answers, DirectReply(a) PROVE TypeOK'
    <2>1. sent > 0 /\ request.url \in Urls
      BY <1>3 DEF DirectReply, Sending, TypeOK
    <2>2. Number(a) \in Answer /\ (a.to # "none" => Target(a) \in Urls)
      BY <2>1, NumberType
    <2>3. CASE a.to \in {"own", "code"} /\ a.code \notin step.expected
      <3>1. Target(a) \in Urls /\ KeepsBody(a.code) \in BOOLEAN
        BY <2>2, <2>3 DEF KeepsBody, TypeOK
      <3>2. request' \in [url : Urls, body : BOOLEAN]
        BY <1>3, <2>3, <3>1 DEF DirectReply, Send
      <3>3. answered' \in 0..sent' /\ sent' \in Nat /\ hops' \in 0..(MaxRedirects + 1)
        BY <1>3, <2>3 DEF DirectReply, Send, TypeOK
      <3>4. /\ UNCHANGED <<step, phase, attempt, saved, final, text, success, mismatch>>
            /\ pc' = "asking" /\ direct' = FALSE /\ last' = NoAnswer
        BY <1>3, <2>3 DEF DirectReply, Send
      <3> QED BY <3>2, <3>3, <3>4 DEF TypeOK
    <2>4. CASE ~(a.to \in {"own", "code"} /\ a.code \notin step.expected)
      <3>1. Judged(Number(a), IF a.to = "none" THEN request.url ELSE Target(a))
        BY <1>3, <2>4 DEF DirectReply
      <3>2. (IF a.to = "none" THEN request.url ELSE Target(a)) \in Urls \cup {None}
        BY <2>1, <2>2
      <3>3. /\ pc' = "returned" /\ last' = Number(a) /\ final' \in Urls \cup {None}
            /\ text' \in {"answer", "error", "empty"}
            /\ success' \in BOOLEAN /\ mismatch' \in BOOLEAN
        BY <2>2, <3>1, <3>2, JudgedType
      <3>4. /\ UNCHANGED <<step, phase, attempt, saved, direct, hops, request, sent>>
            /\ answered' = sent
        BY <1>3, <2>4 DEF DirectReply
      <3> QED BY <2>2, <3>3, <3>4 DEF TypeOK
    <2> QED BY <2>3, <2>4
  <1>4. ASSUME NEW a \in Answers, FollowEnds(a) PROVE TypeOK'
    <2>1. sent > 0 /\ request.url \in Urls
      BY <1>4 DEF FollowEnds, Sending, TypeOK
    <2>2. Number(a) \in Answer /\ (a.to # "none" => Target(a) \in Urls)
      BY <2>1, NumberType
    <2> QED BY <1>4, <2>1, <2>2, RefusedType, JudgedType DEF FollowEnds, TypeOK
  <1>5. ASSUME NEW a \in Answers, FollowForbidden(a) PROVE TypeOK'
    <2>1. CASE step.follow
      <3>1. /\ pc' = "returned" /\ last' = NoAnswer /\ final' \in Urls \cup {None}
            /\ text' \in {"answer", "error", "empty"}
            /\ success' \in BOOLEAN /\ mismatch' \in BOOLEAN
        BY <1>0, <1>5, <2>1, RefusedType DEF FollowForbidden
      <3> QED BY <1>5, <3>1 DEF FollowForbidden, TypeOK
    <2>2. CASE ~step.follow
      BY <1>5, <2>2 DEF FollowForbidden, TypeOK
    <2> QED BY <2>1, <2>2
  <1>6. ASSUME NEW a \in Answers, Follow(a) PROVE TypeOK'
    <2>1. sent > 0
      BY <1>6 DEF Follow, Sending, TypeOK
    <2>2. Number(a) \in Answer /\ (a.to # "none" => Target(a) \in Urls)
      BY <2>1, NumberType
    <2> QED BY <1>6, <2>2 DEF Follow, Send, KeepsBody, MoreHops, TypeOK
  <1>7. CASE Return \/ PollEnds \/ PollAgain \/ PollTimesOut
    BY <1>7 DEF Return, PollEnds, PollAgain, PollTimesOut, exchange, TypeOK
  <1>8. CASE Save
    <2>1. \A s \in Sources : SavedFrom(s) \in Value
      BY SavedFromType
    <2>2. saved' \in [Sources -> Value]
      BY <1>8, <2>1 DEF Save, TypeOK
    <2> QED BY <1>8, <2>2 DEF Save, exchange, TypeOK
  <1>9. CASE Retry \/ Finish
    BY <1>9 DEF Retry, Finish, exchange, TypeOK
  <1>10. CASE UNCHANGED vars
    BY <1>10 DEF vars, exchange, TypeOK
  <1> QED
    BY <1>1, <1>2, <1>3, <1>4, <1>5, <1>6, <1>7, <1>8, <1>9, <1>10
    DEF Next, Exchange, Reply, Over
--------------------------------------------------------------------------------
(***************************************************************************)
(* The request that is out.                                                *)
(***************************************************************************)
\* Only Begin, DirectReply and Follow leave a request out.
LEMMA NextSending ==
  ASSUME TypeOK, Sending, BodyStaysHome, CallsOnlyTargets, [Next]_vars
  PROVE  (Sending /\ BodyStaysHome /\ CallsOnlyTargets)'
  <1> USE DEF Sending, BodyStaysHome, CallsOnlyTargets
  <1>1. CASE Begin
    <2>1. CASE Refused(FALSE, Own)
      BY <2>1 DEF Refused
    <2>2. CASE /\ Send(Own, step.body) /\ direct' = ~step.follow
               /\ hops' = (IF step.follow THEN 1 ELSE 0) /\ last' = NoAnswer
      <3>1. request'.url.host = "own" /\ sent' > 0
        BY <2>2 DEF Send, Own, TypeOK
      <3>2. step.follow \in BOOLEAN
        BY StepType DEF TypeOK
      <3>3. direct' => ~step'.follow /\ hops' = 0 /\ last' = NoAnswer
        BY <1>1, <2>2, <3>2 DEF Begin
      <3> QED BY <3>1, <3>3
    <2> QED BY <1>1, <2>1, <2>2 DEF Begin
  <1>2. CASE NoReply
    BY <1>2 DEF NoReply, Refused, Judged
  <1>3. ASSUME NEW a \in Answers, DirectReply(a)
        PROVE  (Sending /\ BodyStaysHome /\ CallsOnlyTargets)'
    <2>1. CASE a.to \in {"own", "code"} /\ a.code \notin step.expected
      BY <1>3, <2>1 DEF DirectReply, Send, Target, TypeOK
    <2>2. CASE ~(a.to \in {"own", "code"} /\ a.code \notin step.expected)
      BY <1>3, <2>2 DEF DirectReply, Judged
    <2> QED BY <2>1, <2>2
  <1>4. ASSUME NEW a \in Answers, FollowEnds(a) \/ FollowForbidden(a)
        PROVE  (Sending /\ BodyStaysHome /\ CallsOnlyTargets)'
    BY <1>4 DEF FollowEnds, FollowForbidden, Judged, Refused
  <1>5. ASSUME NEW a \in Answers, Follow(a)
        PROVE  (Sending /\ BodyStaysHome /\ CallsOnlyTargets)'
    <2>1. a.to \notin {"forbidden", "callback", "code"}
      BY <1>5 DEF Follow, StopsAt
    <2>2. pc' = "asking" /\ request' = [url |-> Target(a), body |-> KeepsBody(a.code)]
          /\ sent' = sent + 1 /\ ~direct /\ direct' = direct
      BY <1>5 DEF Follow, Send
    <2>3. request'.url.host = a.to /\ ~request'.body
      BY <2>2 DEF Target, KeepsBody
    <2> QED BY <2>1, <2>2, <2>3 DEF TypeOK
  <1>6. CASE Return \/ PollEnds \/ PollAgain \/ PollTimesOut \/ Save \/ Retry \/ Finish
    BY <1>6 DEF Return, PollEnds, PollAgain, PollTimesOut, Save, Retry, Finish
  <1>7. CASE UNCHANGED vars
    BY <1>7 DEF vars, exchange
  <1> QED
    BY <1>1, <1>2, <1>3, <1>4, <1>5, <1>6, <1>7 DEF Next, Exchange, Reply, Over

--------------------------------------------------------------------------------
(***************************************************************************)
(* What the exchanges leave behind.                                        *)
(***************************************************************************)
LEMMA NumberIsNoNoAnswer ==
  ASSUME NEW a \in Answers, sent > 0
  PROVE  Number(a) # NoAnswer /\ Number(a).nr = sent
  BY DEF Number, NoAnswer

\* An answer that ends a polling is an answer.
LEMMA AwaitedIsAnAnswer == Awaited(last) => last # NoAnswer
  BY DEF Awaited, NoAnswer

Results == LastIsLatest /\ TextIsItsBody /\ SuccessIsDeserved

LEMMA NextResults ==
  ASSUME TypeOK, Sending, Results, [Next]_vars
  PROVE  Results'
  <1> USE DEF Results, LastIsLatest, TextIsItsBody, SuccessIsDeserved
  <1>1. CASE Begin
    BY <1>1 DEF Begin, Refused, Send
  <1>2. CASE NoReply
    <2>1. CASE direct
      BY <1>2, <2>1 DEF NoReply, Refused
    <2>2. CASE ~direct
      BY <1>2, <2>2 DEF NoReply, Judged, Satisfied
    <2> QED BY <2>1, <2>2
  <1>3. ASSUME NEW a \in Answers, DirectReply(a) PROVE Results'
    <2>1. sent > 0
      BY <1>3 DEF DirectReply, Sending
    <2>2. CASE a.to \in {"own", "code"} /\ a.code \notin step.expected
      BY <1>3, <2>2 DEF DirectReply, Send
    <2>3. CASE ~(a.to \in {"own", "code"} /\ a.code \notin step.expected)
      BY <1>3, <2>1, <2>3, NumberIsNoNoAnswer DEF DirectReply, Judged, Satisfied
    <2> QED BY <2>2, <2>3
  <1>4. ASSUME NEW a \in Answers, FollowEnds(a) PROVE Results'
    <2>1. sent > 0
      BY <1>4 DEF FollowEnds, Sending
    <2> QED BY <1>4, <2>1, NumberIsNoNoAnswer DEF FollowEnds, Judged, Satisfied
  <1>5. ASSUME NEW a \in Answers, FollowForbidden(a) PROVE Results'
    BY <1>5 DEF FollowForbidden, Refused
  <1>6. ASSUME NEW a \in Answers, Follow(a) PROVE Results'
    <2>1. sent > 0
      BY <1>6 DEF Follow, Sending
    <2> QED BY <1>6, <2>1, NumberIsNoNoAnswer DEF Follow, Send
  <1>7. CASE Return
    BY <1>7 DEF Return, exchange, Satisfied
  <1>8. CASE PollEnds
    <2>1. UNCHANGED <<step, phase, last, text, answered>> /\ pc' = "saving"
      BY <1>8 DEF PollEnds, exchange
    <2>2. Satisfied(last) \/ Awaited(last)
      BY <1>8 DEF PollEnds, PollDone, Awaited
    <2>3. phase = "first"
      BY <1>8 DEF PollEnds, Polled
    <2> QED BY <1>8, <2>1, <2>2, <2>3 DEF PollEnds, Satisfied, Awaited
  <1>9. CASE PollAgain \/ PollTimesOut
    BY <1>9 DEF PollAgain, PollTimesOut, Polled, exchange
  <1>10. CASE Save \/ Finish
    BY <1>10 DEF Save, Finish, exchange, Satisfied, Awaited
  <1>11. CASE Retry
    BY <1>11 DEF Retry, exchange
  <1>12. CASE UNCHANGED vars
    BY <1>12 DEF vars, exchange, Satisfied, Awaited
  <1> QED
    BY <1>1, <1>2, <1>3, <1>4, <1>5, <1>6, <1>7, <1>8, <1>9, <1>10, <1>11, <1>12
    DEF Next, Exchange, Reply, Over

\* Each URL stays with its answer.
LEMMA NextUrlIsItsOwn ==
  ASSUME TypeOK, Sending, UrlIsItsOwn, [Next]_vars
  PROVE  UrlIsItsOwn'
  <1> USE DEF UrlIsItsOwn
  <1>0. request.url # None
    BY DEF TypeOK, Urls, Hosts, None
  <1>1. CASE Begin
    BY <1>1 DEF Begin, Refused, Send
  <1>2. CASE NoReply
    <2>1. CASE direct
      BY <1>2, <2>1 DEF NoReply, Refused
    <2>2. CASE ~direct
      BY <1>0, <1>2, <2>2 DEF NoReply, Judged
    <2> QED BY <2>1, <2>2
  <1>3. ASSUME NEW a \in Answers
        PROVE  /\ Number(a).nr = sent /\ Number(a).url = request.url
               /\ Target(a).from = sent /\ (a.to # "none" => Target(a) # None)
    BY DEF Number, Target, None
  <1>4. ASSUME NEW a \in Answers, DirectReply(a) PROVE UrlIsItsOwn'
    <2>1. CASE a.to \in {"own", "code"} /\ a.code \notin step.expected
      BY <1>4, <2>1 DEF DirectReply, Send
    <2>2. CASE ~(a.to \in {"own", "code"} /\ a.code \notin step.expected)
      BY <1>0, <1>3, <1>4, <2>2 DEF DirectReply, Judged
    <2> QED BY <2>1, <2>2
  <1>5. ASSUME NEW a \in Answers, FollowEnds(a) PROVE UrlIsItsOwn'
    BY <1>0, <1>3, <1>5 DEF FollowEnds, Judged
  <1>6. ASSUME NEW a \in Answers, FollowForbidden(a) PROVE UrlIsItsOwn'
    BY <1>6 DEF FollowForbidden, Refused
  <1>7. ASSUME NEW a \in Answers, Follow(a) PROVE UrlIsItsOwn'
    BY <1>3, <1>7 DEF Follow, Send
  <1>8. CASE Return \/ PollEnds \/ PollAgain \/ Save \/ Retry \/ Finish
    <2>1. /\ UNCHANGED <<last, final, request>> /\ pc' # "asking"
          /\ pc \notin {"asking", "raised"}
      BY <1>8 DEF Return, PollEnds, PollAgain, Save, Retry, Finish, exchange
    <2> QED BY <1>8, <2>1 DEF Return, PollEnds, PollAgain, Save, Retry, Finish
  <1>9. CASE PollTimesOut
    BY <1>9 DEF PollTimesOut, exchange
  <1>10. CASE UNCHANGED vars
    BY <1>10 DEF vars, exchange
  <1> QED
    BY <1>1, <1>2, <1>4, <1>5, <1>6, <1>7, <1>8, <1>9, <1>10 DEF Next, Exchange, Reply, Over

LEMMA NextQueryIsOld ==
  ASSUME TypeOK, QueryIsOld, [Next]_vars
  PROVE  QueryIsOld'
  <1> USE DEF QueryIsOld
  <1>1. CASE Save \/ Retry \/ Finish
    BY <1>1 DEF Save, Retry, Finish
  <1>2. CASE UNCHANGED vars
    BY <1>2 DEF vars
  <1>3. CASE Exchange /\ ~Save /\ ~Retry /\ ~Finish
    <2>1. UNCHANGED <<saved, phase>>
      BY <1>3 DEF Exchange, Begin, NoReply, Reply, DirectReply, FollowEnds, FollowForbidden,
         Follow, Return, PollEnds, PollAgain, PollTimesOut
    <2>2. pc \notin {"saved", "done"}
      BY <1>3 DEF Exchange, Begin, NoReply, Reply, DirectReply, FollowEnds, FollowForbidden,
         Follow, Return, PollEnds, PollAgain, PollTimesOut
    <2> QED BY <2>1, <2>2
  <1> QED BY <1>1, <1>2, <1>3 DEF Next, Over

\* What a step saves, it saves in Save, from the answer that counts.
LEMMA NextSavedIsLatest ==
  ASSUME TypeOK, Results, UrlIsItsOwn, QueryIsOld, SavedIsLatest, [Next]_vars
  PROVE  SavedIsLatest'
  <1> USE DEF SavedIsLatest
  <1>1. CASE Save /\ success
    <2>1. last # NoAnswer /\ last.nr = answered
      BY <1>1, AwaitedIsAnAnswer
      DEF Save, Results, LastIsLatest, SuccessIsDeserved, Satisfied
    <2>2. text = "answer"
      BY <1>1, <2>1 DEF Save, Results, LastIsLatest, TextIsItsBody
    <2>3. Saves
      BY <2>1 DEF Saves
    <2>4. /\ saved' = [s \in Sources |-> SavedFrom(s)]
          /\ UNCHANGED <<answered, success, last, final, phase>>
      BY <1>1, <2>3 DEF Save, exchange
    <2>5. SavedFrom("status_code") = From("answer", answered)
      BY <2>1 DEF SavedFrom
    <2>6. SavedFrom("body") = From("answer", answered)
      BY <2>1, <2>2 DEF SavedFrom
    <2>7. SavedFrom("json") \in {Null, From("answer", answered)}
      BY <2>1 DEF SavedFrom
    <2>8. SavedFrom("final_url") = From("url", final.from) /\ final.from \in {last.url.from, answered}
      BY <1>1, <2>1 DEF SavedFrom, UrlIsItsOwn, Save
    <2>9. CASE HasCode(final)
      <3>1. SavedFrom("url_query") = SavedFrom("final_url")
        BY <2>8, <2>9 DEF SavedFrom
      <3> QED BY <2>4, <2>5, <2>6, <2>7, <2>8, <3>1 DEF Sources
    <2>10. CASE ~HasCode(final)
      <3>1. SavedFrom("url_query") = IF saved["url_query"].kind = "absent" THEN Null ELSE saved["url_query"]
        BY <2>10 DEF SavedFrom
      <3>2. phase = "first" => saved["url_query"] \in {From("old", 0), From("absent", 0)}
        BY <1>1 DEF QueryIsOld, Save
      <3>3. From("old", 0).kind = "old" /\ From("absent", 0).kind = "absent"
        BY DEF From
      <3>4. SavedFrom("url_query") \in {Null, From("old", 0)} \/ phase = "retry"
        BY <3>1, <3>2, <3>3 DEF TypeOK
      <3>5. QueryIsKept'
        BY <2>4, <2>10, <3>4 DEF QueryIsKept, HasCode, Sources
      <3> QED BY <2>4, <2>5, <2>6, <2>7, <2>8, <3>5 DEF Sources
    <2> QED BY <2>9, <2>10
  <1>2. CASE Save /\ ~success
    BY <1>2 DEF Save
  <1>3. CASE Finish
    BY <1>3 DEF Finish, exchange, QueryIsKept, HasCode
  <1>4. CASE UNCHANGED vars
    BY <1>4 DEF vars, exchange, QueryIsKept, HasCode
  <1>5. CASE Exchange /\ ~Save /\ ~Finish
    BY <1>5 DEF Exchange, Begin, NoReply, Reply, DirectReply, FollowEnds, FollowForbidden,
       Follow, Refused, Judged, Send, Return, PollEnds, PollAgain, PollTimesOut, Retry
  <1> QED BY <1>1, <1>2, <1>3, <1>4, <1>5 DEF Next, Over
--------------------------------------------------------------------------------
(***************************************************************************)
(* The number of requests.                                                 *)
(***************************************************************************)
LEMMA OneMore ==
  ASSUME NEW n \in Nat, NEW c \in Nat
  PROVE  (n + 1) * c = n * c + c /\ n * c \in Nat
  OBVIOUS

LEMMA NotFewer ==
  ASSUME NEW n \in Nat, NEW k \in Nat, NEW c \in Nat, n <= k
  PROVE  n * c <= k * c
  <1> DEFINE d == k - n
  <1>1. d \in Nat /\ k = n + d
    OBVIOUS
  <1>2. (n + d) * c = n * c + d * c /\ n * c \in Nat /\ d * c \in Nat
    BY <1>1
  <1> HIDE DEF d
  <1> QED BY <1>1, <1>2

\* The exchanges begun are at most those possible, without the retry one less.
LEMMA BegunType ==
  ASSUME TypeOK
  PROVE  /\ Begun \in Nat /\ Exchanges \in Nat /\ Cost \in Nat
         /\ Begun <= Exchanges
         /\ phase = "first" => Begun + 1 <= Exchanges
         /\ hops + 1 <= Cost
  BY StepType DEF TypeOK, Begun, Exchanges, Cost

\* Without a new exchange or a new request the count stays right.
LEMMA CountedFrame ==
  ASSUME TypeOK, Counted, pc # "asking", pc' # "asking",
         UNCHANGED <<step, sent>>, Begun' = Begun
  PROVE  Counted'
  BY DEF Counted, Cost

\* An exchange that ends has cost no more than it may.
LEMMA CountedEnd ==
  ASSUME TypeOK, Counted, pc = "asking", pc' \in {"returned", "raised"},
         UNCHANGED <<step, phase, sent, attempt>>
  PROVE  Counted'
  <1>1. Begun' = Begun /\ Begun \in Nat /\ Cost \in Nat /\ hops + 1 <= Cost
    BY BegunType DEF Begun, Exchanges
  <1>2. Begun * Cost \in Nat
    BY <1>1, OneMore
  <1> QED BY <1>1, <1>2 DEF Counted, Cost, TypeOK

\* One request and one redirect more.
LEMMA CountedFollow ==
  ASSUME TypeOK, Counted, pc = "asking", pc' = "asking",
         UNCHANGED <<step, phase, attempt>>, sent' = sent + 1, hops' = hops + 1
  PROVE  Counted'
  <1>1. Begun' = Begun /\ Begun \in Nat /\ Cost \in Nat
    BY BegunType DEF Begun, Exchanges
  <1>2. Begun * Cost \in Nat
    BY <1>1, OneMore
  <1> QED BY <1>1, <1>2 DEF Counted, Cost, TypeOK

LEMMA NextCounted ==
  ASSUME TypeOK, Sending, Counted, [Next]_vars
  PROVE  Counted'
  <1>1. CASE Begin
    <2>1. Begun' = Begun + 1 /\ pc = "begin" /\ sent <= Begun * Cost
      BY <1>1, StepType DEF Begin, Begun, NextAttempt, Polled, Exchanges, Counted, TypeOK,
         Refused, Send
    <2>2. (Begun + 1) * Cost = Begun * Cost + Cost /\ Begun * Cost \in Nat
      BY BegunType, OneMore
    <2>3. CASE Refused(FALSE, Own) /\ UNCHANGED <<direct, request, hops, sent>>
      BY <2>1, <2>2, <2>3, BegunType DEF Refused, Counted, Cost, TypeOK
    <2>4. CASE Send(Own, step.body) /\ hops' = (IF step.follow THEN 1 ELSE 0)
      BY <2>1, <2>2, <2>4, BegunType DEF Send, Counted, Cost, TypeOK
    <2> QED BY <1>1, <2>3, <2>4 DEF Begin
  <1>2. CASE NoReply
    BY <1>2, CountedEnd DEF NoReply, Refused, Judged
  <1>3. ASSUME NEW a \in Answers, DirectReply(a) PROVE Counted'
    <2>1. CASE a.to \in {"own", "code"} /\ a.code \notin step.expected
      BY <1>3, <2>1, CountedFollow DEF DirectReply, Send, Sending
    <2>2. CASE ~(a.to \in {"own", "code"} /\ a.code \notin step.expected)
      BY <1>3, <2>2, CountedEnd DEF DirectReply, Judged
    <2> QED BY <2>1, <2>2
  <1>4. ASSUME NEW a \in Answers, FollowEnds(a) \/ FollowForbidden(a) PROVE Counted'
    BY <1>4, CountedEnd DEF FollowEnds, FollowForbidden, Judged, Refused
  <1>5. ASSUME NEW a \in Answers, Follow(a) PROVE Counted'
    BY <1>5, CountedFollow DEF Follow, Send
  <1>6. CASE Return \/ PollEnds \/ PollAgain \/ PollTimesOut \/ Save \/ Finish
    <2>1. /\ pc # "asking" /\ pc' # "asking" /\ UNCHANGED <<step, sent, phase, attempt>>
      BY <1>6 DEF Return, PollEnds, PollAgain, PollTimesOut, Save, Finish, exchange
    <2>2. Begun' = Begun
      BY <1>6, <2>1 DEF Return, PollEnds, PollAgain, PollTimesOut, Save, Finish, Begun,
         Exchanges, Polled
    <2> QED BY <2>1, <2>2, CountedFrame
  <1>7. CASE Retry
    <2>1. /\ pc = "saved" /\ phase = "first" /\ pc' = "begin" /\ phase' = "retry"
          /\ UNCHANGED <<step, sent>>
      BY <1>7 DEF Retry, AsksNonce, exchange
    <2>2. Begun' = Exchanges - 1 /\ Begun <= Exchanges - 1
      BY <2>1, BegunType DEF Begun, Exchanges
    <2>3. Begun' \in Nat /\ Begun \in Nat /\ Cost \in Nat
      BY <2>2, BegunType
    <2>4. Begun * Cost <= Begun' * Cost /\ Begun * Cost \in Nat /\ Begun' * Cost \in Nat
      BY <2>2, <2>3, BegunType, NotFewer, OneMore
    <2> QED BY <2>1, <2>3, <2>4 DEF Counted, Cost, TypeOK
  <1>8. CASE UNCHANGED vars
    BY <1>8 DEF vars, exchange, Counted, Begun, Exchanges, Cost
  <1> QED
    BY <1>1, <1>2, <1>3, <1>4, <1>5, <1>6, <1>7, <1>8 DEF Next, Exchange, Reply, Over

LEMMA CountedIsEnough ==
  ASSUME TypeOK, Counted PROVE RequestsAreBounded
  <1>1. sent <= Begun * Cost
    <2>1. Begun * Cost \in Nat
      BY BegunType, OneMore
    <2> QED BY <2>1, BegunType DEF Counted, TypeOK
  <1>2. Begun * Cost <= Exchanges * Cost /\ Begun * Cost \in Nat /\ Exchanges * Cost \in Nat
    BY BegunType, NotFewer, OneMore
  <1> QED BY <1>1, <1>2 DEF RequestsAreBounded, Cost, TypeOK

--------------------------------------------------------------------------------
(***************************************************************************)
(* The theorems.                                                           *)
(***************************************************************************)
LEMMA NextIInv == IInv /\ [Next]_vars => IInv'
  BY NextTypeOK, NextSending, NextResults, NextUrlIsItsOwn, NextQueryIsOld, NextSavedIsLatest,
     NextCounted
  DEF IInv, Results

\* In every behaviour of every step the invariant holds.
THEOREM Invariant == Spec => []IInv
  BY InitIInv, NextIInv, PTL DEF Spec

\* run_step keeps every variable within its type; the redirects smart_follow
\* counts and the attempts run_poll_step counts stay within their limits.
THEOREM TypeCorrect == Spec => []TypeOK
  <1>1. IInv => TypeOK
    BY DEF IInv
  <1> QED BY <1>1, Invariant, PTL

\* A passed step was answered as expected, or as its polling awaits, by the
\* last answer it got, whatever redirects and attempts came before.
THEOREM PassIsDeserved == Spec => []PassesOnTheLastAnswer
  <1>1. IInv => PassesOnTheLastAnswer
    BY AwaitedIsAnAnswer
    DEF IInv, LastIsLatest, SuccessIsDeserved, PassesOnTheLastAnswer, Satisfied
  <1> QED BY <1>1, Invariant, PTL

\* What apply_save leaves after a passed step is of the last answer and its URLs,
\* but for a query parameter that its final URL lacks: that one keeps the value
\* of before the step, or of the exchange before the retry.
THEOREM SavesAreOfTheLastAnswer == Spec => []SavedFromTheLastAnswer
  <1>1. IInv => SavedFromTheLastAnswer
    BY DEF IInv, SavedIsLatest, SavedFromTheLastAnswer
  <1> QED BY <1>1, Invariant, PTL

\* Redirects neither carry the body of the step to another host nor lead the
\* runner to a forbidden host or to the client's callback.
THEOREM RedirectsAreConfined == Spec => []RequestsStayHome
  <1>1. IInv => RequestsStayHome
    BY DEF IInv, RequestsStayHome
  <1> QED BY <1>1, Invariant, PTL

\* No server makes a step send more requests than its attempts, one retry and
\* the redirects of each allow.
THEOREM RequestsStayBounded == Spec => []RequestsAreBounded
  <1>1. IInv => RequestsAreBounded
    BY CountedIsEnough DEF IInv
  <1> QED BY <1>1, Invariant, PTL
================================================================================
