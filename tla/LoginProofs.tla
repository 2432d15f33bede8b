------------------------------ MODULE LoginProofs ------------------------------
(***************************************************************************)
(* Proofs about Login, for any browsers and subjects and any number of     *)
(* requests and lost cookies.                                              *)
(*                                                                         *)
(* The inductive invariant has four parts.  RowInv: how the requests are  *)
(* numbered, that only requests make rows, and what a returning user's     *)
(* request meets.  OwnInv: every session, copy and answer under way holds  *)
(* states of this browser's logins and a user who came back to it.         *)
(* LogoutInv: a request that is alone is the newest of its browser and has *)
(* its session, so that nothing brings an ended session back.  HoldInv: a  *)
(* login that nothing has overtaken is in the session or the copy, and the *)
(* callbacks sent with it find it there.                                   *)
(***************************************************************************)
EXTENDS Login, TLAPS

Numbered == \A r \in Requests : req[r].phase = "unsent" <=> r >= next
FreshIsUnsent == \A r \in Requests : r >= next => req[r] = Unsent

RowsAreMade == \A u \in rows : req[u].row

ReturningFind ==
  \A r \in Requests : req[r].known =>
    /\ RowOf(SubOf(r)) # {}
    /\ req[r].phase \notin {"missing", "failed"}
    /\ ~req[r].row

RowInv == TypeOK /\ Numbered /\ FreshIsUnsent /\ RowsAreMade /\ ReturningFind
            /\ UsersAreDistinct
--------------------------------------------------------------------------------
(***************************************************************************)
(* Types.                                                                  *)
(***************************************************************************)
LEMMA UnsentType == Unsent \in Request /\ NoSession \in Session
  BY DEF Unsent, Request, NoSession, Session, Requests, Subs

LEMMA InitType == Init => TypeOK
  <1> SUFFICES ASSUME Init PROVE TypeOK OBVIOUS
  <1>1. req \in [Requests -> Request]
    BY UnsentType DEF Init
  <1>2. session \in [Browsers -> Session]
    BY UnsentType DEF Init
  <1>3. next \in 1..(MaxRequests + 1) /\ losses \in 0..MaxLosses
    BY LoginAssumption DEF Init
  <1> QED BY <1>1, <1>2, <1>3 DEF Init, TypeOK, Request

\* What an answer to a request of the right type leaves.
LEMMA ReplyType ==
  ASSUME TypeOK, NEW r \in Requests, NEW out \in Session,
         NEW phase \in {"answered", "refused", "exchanged", "missing", "failed"},
         Reply(r, phase, out), redeemed' \subseteq Requests \X Subs
  PROVE  TypeOK'
  <1>1. req' \in [Requests -> Request]
    <2> DEFINE new == [req[r] EXCEPT !.phase = phase, !.out = out]
    <2>1. req[r] \in Request
      BY DEF TypeOK, Request
    <2>2. new \in Request
      BY <2>1 DEF Request
    <2>3. req' = [req EXCEPT ![r] = new]
      BY DEF Reply
    <2> QED BY <2>2, <2>3 DEF TypeOK, Request
  <1> QED BY <1>1 DEF TypeOK, Reply, Request

LEMMA CookieType ==
  ASSUME TypeOK, NEW r \in Requests
  PROVE  /\ req[r] \in Request
         /\ req[r].cookie \in Session /\ req[r].out \in Session
         /\ req[r].copy \subseteq Requests
         /\ Restored(r) \subseteq Requests
         /\ \A S \in SUBSET Requests :
              /\ [req[r].cookie EXCEPT !.states = S] \in Session
              /\ [user |-> req[r].cookie.user, states |-> S] \in Session
         /\ \A u \in Requests : Entered(r, u) \in Session
  BY DEF TypeOK, Request, Session, Restored, Entered

LEMMA TypeStep ==
  ASSUME TypeOK, Next
  PROVE  TypeOK'
  <1>1. ASSUME NEW b \in Browsers, NEW kind \in {"login", "callback", "logout", "api"},
               NEW state \in Requests \cup {Nobody}, NEW sub \in Subs,
               Send(b, kind, state, sub)
        PROVE  TypeOK'
    <2> DEFINE new == [Unsent EXCEPT !.browser = b, !.kind = kind, !.state = state,
                         !.sub = sub, !.cookie = session[b], !.copy = saved[b],
                         !.alone = OutOf(b) = {}, !.known = RowOf(sub) # {},
                         !.phase = "sent"]
    <2>1. session[b] \in Session /\ saved[b] \subseteq Requests
      BY DEF TypeOK
    <2>2. /\ (OutOf(b) = {}) \in BOOLEAN /\ (RowOf(sub) # {}) \in BOOLEAN
      OBVIOUS
    <2>3. new \in Request
      <3> DEFINE first == [Unsent EXCEPT !.browser = b, !.kind = kind, !.state = state,
                             !.sub = sub]
                 second == [first EXCEPT !.cookie = session[b], !.copy = saved[b]]
      <3>1. first \in Request
        BY <1>1, UnsentType DEF Request
      <3> HIDE DEF first
      <3>2. second \in Request
        BY <2>1, <3>1 DEF Request
      <3> HIDE DEF second
      <3>3. [second EXCEPT !.alone = OutOf(b) = {}, !.known = RowOf(sub) # {},
                           !.phase = "sent"] \in Request
        BY <2>2, <3>2 DEF Request
      <3> QED
        BY <3>3 DEF first, second
    <2>4. \A r \in Requests : [req[r] EXCEPT !.alone = @ /\ r \notin OutOf(b)] \in Request
      <3> TAKE r \in Requests
      <3> DEFINE alone == req[r].alone /\ r \notin OutOf(b)
      <3>1. req[r] \in Request /\ alone \in BOOLEAN
        BY CookieType DEF Request
      <3>2. [req[r] EXCEPT !.alone = alone] \in Request
        BY <3>1 DEF Request
      <3> QED BY <3>2
    <2>5. req' \in [Requests -> Request]
      BY <1>1, <2>3, <2>4 DEF Send
    <2>6. next' \in 1..(MaxRequests + 1)
      <3>1. next \in 1..MaxRequests /\ next' = next + 1
        BY <1>1 DEF Send, Requests
      <3> QED BY <3>1, LoginAssumption
    <2> QED BY <1>1, <2>5, <2>6 DEF Send, TypeOK, Request
  <1>2. ASSUME NEW b \in Browsers, SendCallback(b) PROVE TypeOK'
    BY <1>1, <1>2 DEF SendCallback, Subs
  <1>3. ASSUME NEW b \in Browsers, SendOther(b) PROVE TypeOK'
    BY <1>1, <1>3 DEF SendOther, Subs
  <1>4. ASSUME NEW b \in Browsers, Lose(b) PROVE TypeOK'
    <2>1. losses' \in 0..MaxLosses
      BY <1>4, LoginAssumption DEF Lose, TypeOK
    <2> QED BY <1>4, <2>1, UnsentType DEF Lose, TypeOK
  <1>5. ASSUME NEW r \in Requests, Receive(r) PROVE TypeOK'
    <2>1. req' \in [Requests -> Request]
      BY <1>5 DEF Receive, TypeOK, Request
    <2>2. session' \in [Browsers -> Session]
      BY <1>5, CookieType DEF Receive, TypeOK
    <2>3. req[r].out.states \subseteq Requests
      BY CookieType DEF Session
    <2>4. saved' \in [Browsers -> SUBSET Requests]
      BY <1>5, <2>3 DEF Receive, TypeOK
    <2> QED BY <1>5, <2>1, <2>2, <2>4 DEF Receive, TypeOK, Request
  <1>6. ASSUME NEW r \in Requests, Answer(r) PROVE TypeOK'
    <2>1. redeemed' \subseteq Requests \X Subs
      BY <1>6 DEF Answer, TypeOK
    <2>2. [req[r].cookie EXCEPT !.states = @ \cup {r}] \in Session
      BY CookieType DEF Session
    <2> QED BY <1>6, <2>1, <2>2, CookieType, UnsentType, ReplyType DEF Answer, AfterLogout
  <1>7. ASSUME NEW r \in Requests, Callback(r) PROVE TypeOK'
    <2> DEFINE with == [req[r].cookie EXCEPT !.states = Restored(r)]
               without == [with EXCEPT !.states = @ \ {req[r].state}]
    <2>1. with \in Session /\ without \in Session
      BY CookieType DEF Session
    <2>2. CASE req[r].sub = Denied \/ ~MayExchange(r)
      <3>1. Reply(r, "refused", with) /\ redeemed' = redeemed
        BY <1>7, <2>2 DEF Callback
      <3> QED BY <2>1, <3>1, ReplyType DEF TypeOK
    <2>3. CASE ~(req[r].sub = Denied \/ ~MayExchange(r))
      <3>1. <<req[r].state, req[r].sub>> \in Requests \X Subs
        BY <2>3, CookieType DEF MayExchange, Request
      <3>2. \/ Reply(r, "refused", without) /\ redeemed' = redeemed
            \/ Reply(r, "exchanged", without)
                 /\ redeemed' = redeemed \cup {<<req[r].state, req[r].sub>>}
        BY <1>7, <2>3 DEF Callback
      <3> QED BY <2>1, <3>1, <3>2, ReplyType DEF TypeOK
    <2> QED BY <2>2, <2>3
  <1>8. ASSUME NEW r \in Requests, LookUp(r) PROVE TypeOK'
    <2>1. redeemed' \subseteq Requests \X Subs
      BY <1>8 DEF LookUp, TypeOK
    <2>2. Found(r) \subseteq Requests
      BY DEF Found, RowOf, TypeOK
    <2> QED BY <1>8, <2>1, <2>2, CookieType, ReplyType DEF LookUp
  <1>9. ASSUME NEW r \in Requests, Insert(r) PROVE TypeOK'
    <2>1. CASE Refuses(r)
      BY <1>9, <2>1, UnsentType, ReplyType DEF Insert, TypeOK
    <2>2. CASE ~Refuses(r)
      <3> DEFINE new == [req[r] EXCEPT !.phase = "answered", !.row = TRUE, !.out = Entered(r, r)]
      <3>1. new \in Request
        <4>1. req[r] \in Request /\ Entered(r, r) \in Session
          BY CookieType
        <4> QED BY <4>1 DEF Request
      <3>2. req' = [req EXCEPT ![r] = new]
        BY <1>9, <2>2 DEF Insert
      <3>3. req' \in [Requests -> Request]
        BY <3>1, <3>2 DEF TypeOK
      <3> QED BY <1>9, <2>2, <3>3 DEF Insert, TypeOK
    <2> QED BY <2>1, <2>2
  <1>10. ASSUME NEW r \in Requests, Commit(r) PROVE TypeOK'
    BY <1>10 DEF Commit, TypeOK
  <1>11. ASSUME NEW r \in Requests, Rollback(r) PROVE TypeOK'
    <2>1. req' \in [Requests -> Request]
      <3>1. [req[r] EXCEPT !.row = FALSE] \in Request
        BY CookieType DEF Request
      <3>2. req' = [req EXCEPT ![r] = [req[r] EXCEPT !.row = FALSE]]
        BY <1>11 DEF Rollback
      <3> QED BY <3>1, <3>2 DEF TypeOK
    <2> QED BY <1>11, <2>1 DEF Rollback, TypeOK
  <1> QED BY <1>2, <1>3, <1>4, <1>5, <1>6, <1>7, <1>8, <1>9, <1>10, <1>11 DEF Next

--------------------------------------------------------------------------------
(***************************************************************************)
(* What a step leaves of a request that was sent.                          *)
(***************************************************************************)
SentFields(q) ==
  <<q.browser, q.kind, q.state, q.sub, q.cookie, q.copy, q.known>>

\* An answer, a rollback and a receipt leave every other request alone.
LEMMA OthersStay ==
  ASSUME TypeOK, NEW q \in Requests,
         Receive(q) \/ Answer(q) \/ Callback(q) \/ LookUp(q) \/ Insert(q) \/ Rollback(q)
  PROVE  /\ \A r \in Requests \ {q} : req'[r] = req[r]
         /\ SentFields(req'[q]) = SentFields(req[q])
         /\ req'[q].alone = req[q].alone
         /\ req'[q].phase # "unsent" /\ req[q].phase \notin {"unsent", "received"}
         /\ next' = next /\ rows' = rows
         /\ req[q].row => req'[q].row \/ Rollback(q)
  <1>1. req[q] \in Request /\ req \in [Requests -> Request]
    BY CookieType DEF TypeOK
  <1>2. CASE Receive(q)
    BY <1>1, <1>2 DEF Receive, SentFields, Request
  <1>3. CASE Rollback(q)
    BY <1>1, <1>3 DEF Rollback, SentFields, Request
  <1>4. ASSUME NEW phase \in {"answered", "refused", "exchanged", "missing", "failed"},
               NEW out, Reply(q, phase, out)
        PROVE  /\ \A r \in Requests \ {q} : req'[r] = req[r]
               /\ SentFields(req'[q]) = SentFields(req[q])
               /\ req'[q].alone = req[q].alone /\ req'[q].row = req[q].row
               /\ req'[q].phase # "unsent"
               /\ next' = next /\ rows' = rows
    BY <1>1, <1>4 DEF Reply, SentFields, Request
  <1>5. CASE Answer(q)
    BY <1>4, <1>5 DEF Answer
  <1>6. CASE Callback(q)
    BY <1>4, <1>6 DEF Callback
  <1>7. CASE LookUp(q)
    BY <1>4, <1>7 DEF LookUp
  <1>8. CASE Insert(q)
    <2>1. CASE Refuses(q)
      BY <1>4, <1>8, <2>1 DEF Insert
    <2>2. CASE ~Refuses(q)
      BY <1>1, <1>8, <2>2 DEF Insert, SentFields, Request
    <2> QED BY <2>1, <2>2
  <1> QED BY <1>2, <1>3, <1>5, <1>6, <1>7, <1>8

\* Sending makes a request of the next number and touches no other one, except
\* that those that are out are no longer alone.
LEMMA SendStays ==
  ASSUME TypeOK, NEW b, NEW kind, NEW state, NEW sub, Send(b, kind, state, sub)
  PROVE  /\ next \in Requests /\ next' = next + 1 /\ rows' = rows
         /\ SentFields(req'[next]) =
              <<b, kind, state, sub, session[b], saved[b], RowOf(sub) # {}>>
         /\ req'[next].alone = (OutOf(b) = {}) /\ req'[next].phase = "sent"
         /\ req'[next].row = FALSE /\ req'[next].out = NoSession
         /\ \A r \in Requests \ {next} :
              /\ SentFields(req'[r]) = SentFields(req[r])
              /\ req'[r].phase = req[r].phase /\ req'[r].row = req[r].row
              /\ req'[r].out = req[r].out
              /\ req'[r].alone = (req[r].alone /\ r \notin OutOf(b))
  <1>1. next \in Requests /\ next' = next + 1 /\ rows' = rows
    BY DEF Send
  <1>2. ASSUME NEW r \in Requests \ {next}
        PROVE  /\ req[r] \in Request
               /\ req'[r] = [req[r] EXCEPT !.alone = @ /\ r \notin OutOf(b)]
    BY CookieType DEF Send
  <1>3. ASSUME NEW r \in Requests \ {next}
        PROVE  /\ SentFields(req'[r]) = SentFields(req[r])
               /\ req'[r].phase = req[r].phase /\ req'[r].row = req[r].row
               /\ req'[r].out = req[r].out
               /\ req'[r].alone = (req[r].alone /\ r \notin OutOf(b))
    BY <1>2 DEF SentFields, Request
  <1>4. req'[next] = [Unsent EXCEPT !.browser = b, !.kind = kind, !.state = state,
                        !.sub = sub, !.cookie = session[b], !.copy = saved[b],
                        !.alone = OutOf(b) = {}, !.known = RowOf(sub) # {},
                        !.phase = "sent"]
    BY DEF Send
  <1>5. /\ SentFields(req'[next]) =
              <<b, kind, state, sub, session[b], saved[b], RowOf(sub) # {}>>
        /\ req'[next].alone = (OutOf(b) = {}) /\ req'[next].phase = "sent"
        /\ req'[next].row = FALSE /\ req'[next].out = NoSession
    BY <1>4 DEF SentFields, Unsent
  <1> QED BY <1>1, <1>3, <1>5

LEMMA Kept ==
  ASSUME TypeOK, Numbered, [Next]_vars, NEW r \in Requests, req[r].phase # "unsent"
  PROVE  /\ SentFields(req'[r]) = SentFields(req[r])
         /\ req'[r].phase # "unsent"
         /\ req[r].phase = "received" => req'[r].phase = "received"
         /\ req[r].row /\ (req[r].kind = "callback" \/ r \in rows) => req'[r].row
         /\ req'[r].alone => req[r].alone
  <1> DEFINE Goal == /\ SentFields(req'[r]) = SentFields(req[r])
                     /\ req'[r].phase # "unsent"
                     /\ req[r].phase = "received" => req'[r].phase = "received"
                     /\ req[r].row /\ (req[r].kind = "callback" \/ r \in rows) => req'[r].row
                     /\ req'[r].alone => req[r].alone
  <1>1. r # next
    BY DEF Numbered, TypeOK, Requests
  <1>2. ASSUME NEW b, NEW kind, NEW state, NEW sub, Send(b, kind, state, sub) PROVE Goal
    BY <1>1, <1>2, SendStays
  <1>3. ASSUME NEW b \in Browsers, SendCallback(b) \/ SendOther(b) PROVE Goal
    BY <1>2, <1>3 DEF SendCallback, SendOther
  <1>4. ASSUME NEW b \in Browsers, Lose(b) PROVE Goal
    BY <1>4 DEF Lose
  <1>5. ASSUME NEW q \in Requests,
               Receive(q) \/ Answer(q) \/ Callback(q) \/ LookUp(q) \/ Insert(q) \/ Rollback(q)
        PROVE  Goal
    BY <1>5, OthersStay DEF Rollback
  <1>6. ASSUME NEW q \in Requests, Commit(q) PROVE Goal
    BY <1>6 DEF Commit
  <1>7. CASE UNCHANGED vars
    BY <1>7 DEF vars
  <1> QED BY <1>3, <1>4, <1>5, <1>6, <1>7 DEF Next

--------------------------------------------------------------------------------
(***************************************************************************)
(* Users.                                                                  *)
(***************************************************************************)
Serves(q) ==
  Receive(q) \/ Answer(q) \/ Callback(q) \/ LookUp(q) \/ Insert(q) \/ Rollback(q)

LEMMA NumberedStep ==
  ASSUME TypeOK, Numbered, FreshIsUnsent, [Next]_vars
  PROVE  Numbered' /\ FreshIsUnsent'
  <1>1. ASSUME NEW b, NEW kind, NEW state, NEW sub, Send(b, kind, state, sub)
        PROVE  Numbered' /\ FreshIsUnsent'
    <2>1. next \in Nat /\ next' = next + 1 /\ Requests \subseteq Nat
      <3>1. next \in Requests /\ next' = next + 1
        BY <1>1 DEF Send
      <3> QED BY <3>1, LoginAssumption DEF Requests
    <2>2. \A r \in Requests : req'[r].phase = IF r = next THEN "sent" ELSE req[r].phase
      BY <1>1, SendStays
    <2>3. ASSUME NEW r \in Requests, r >= next' PROVE req'[r] = Unsent
      <3>1. r # next /\ req[r] = Unsent
        BY <2>1, <2>3 DEF FreshIsUnsent
      <3>2. r \notin OutOf(b)
        BY <3>1 DEF OutOf, Unsent
      <3>3. req'[r] = [req[r] EXCEPT !.alone = @ /\ r \notin OutOf(b)]
        BY <1>1, <3>1 DEF Send
      <3> DEFINE alone == Unsent.alone /\ r \notin OutOf(b)
      <3>5. alone = TRUE
        BY <3>2 DEF Unsent
      <3>6. req'[r] = [Unsent EXCEPT !.alone = alone]
        BY <3>1, <3>3
      <3>4. req'[r] = [Unsent EXCEPT !.alone = TRUE]
        <4> HIDE DEF alone
        <4> QED BY <3>5, <3>6
      <3> QED BY <3>4 DEF Unsent
    <2> QED BY <2>1, <2>2, <2>3 DEF Numbered, FreshIsUnsent
  <1>2. ASSUME NEW b \in Browsers, SendCallback(b) \/ SendOther(b)
        PROVE  Numbered' /\ FreshIsUnsent'
    BY <1>1, <1>2 DEF SendCallback, SendOther
  <1>3. ASSUME NEW q \in Requests, Serves(q) PROVE Numbered' /\ FreshIsUnsent'
    <2>0. \A r \in Requests \ {q} : req'[r] = req[r]
      BY <1>3, OthersStay DEF Serves
    <2>1. \A r \in Requests :
            \/ req'[r] = req[r]
            \/ req[r].phase # "unsent" /\ req'[r].phase # "unsent"
      <3> TAKE r \in Requests
      <3>1. CASE r = q
        BY <1>3, <3>1, OthersStay DEF Serves
      <3>2. CASE r # q
        <4>1. r \in Requests \ {q}
          BY <3>2
        <4> QED BY <2>0, <4>1
      <3> QED BY <3>1, <3>2
    <2>2. next' = next
      BY <1>3, OthersStay DEF Serves
    <2> QED BY <2>1, <2>2 DEF Numbered, FreshIsUnsent
  <1>4. ASSUME NEW q \in Requests, Commit(q) PROVE Numbered' /\ FreshIsUnsent'
    BY <1>4 DEF Commit, Numbered, FreshIsUnsent
  <1>5. ASSUME NEW b \in Browsers, Lose(b) PROVE Numbered' /\ FreshIsUnsent'
    BY <1>5 DEF Lose, Numbered, FreshIsUnsent
  <1>6. CASE UNCHANGED vars
    BY <1>6 DEF vars, Numbered, FreshIsUnsent
  <1> QED BY <1>2, <1>3, <1>4, <1>5, <1>6 DEF Next, Serves

\* Who has a row was sent and keeps its subject.
LEMMA RowsStay ==
  ASSUME RowInv, [Next]_vars
  PROVE  /\ \A r \in Requests : req[r].row => req[r].phase # "unsent"
         /\ rows \subseteq Requests /\ rows \subseteq rows'
         /\ RowsAreMade'
         /\ \A u \in rows : SubOf(u)' = SubOf(u)
         /\ \A sub : RowOf(sub) \subseteq RowOf(sub)'
  <1>1. ASSUME NEW r \in Requests, req[r].row PROVE req[r].phase # "unsent"
    <2>1. req[r].phase = "unsent" => req[r] = Unsent
      BY DEF RowInv, Numbered, FreshIsUnsent
    <2> QED BY <1>1, <2>1 DEF Unsent
  <1>2. rows \subseteq Requests
    BY DEF RowInv, TypeOK
  <1>3. \A u \in rows : req'[u].row /\ SubOf(u)' = SubOf(u)
    BY <1>1, <1>2, Kept DEF RowInv, RowsAreMade, SentFields, SubOf
  <1>4. rows' = rows \/ \E q \in Requests : Commit(q)
    <2>1. \A q \in Requests : Serves(q) => rows' = rows
      BY OthersStay DEF Serves, RowInv
    <2>2. (\E b \in Browsers : SendCallback(b) \/ SendOther(b) \/ Lose(b)) => rows' = rows
      BY DEF SendCallback, SendOther, Lose, Send
    <2> QED BY <2>1, <2>2 DEF Next, Serves, vars
  <1>5. rows \subseteq rows' /\ RowsAreMade'
    <2>1. CASE rows' = rows
      BY <1>3, <2>1 DEF RowsAreMade
    <2>2. ASSUME NEW q \in Requests, Commit(q) PROVE rows \subseteq rows' /\ RowsAreMade'
      BY <1>3, <2>2 DEF RowsAreMade, Commit
    <2> QED BY <1>4, <2>1, <2>2
  <1> QED BY <1>1, <1>2, <1>3, <1>5 DEF RowOf, SubOf

LEMMA ReturningStep ==
  ASSUME RowInv, [Next]_vars
  PROVE  ReturningFind'
  <1> DEFINE Meets(r) == /\ RowOf(SubOf(r))' # {}
                         /\ req'[r].phase \notin {"missing", "failed"}
                         /\ ~req'[r].row
  <1> SUFFICES ASSUME NEW r \in Requests, req'[r].known PROVE Meets(r)
    BY DEF ReturningFind
  <1> USE DEF RowInv
  <1>1. ASSUME req[r].phase # "unsent" PROVE RowOf(SubOf(r))' # {} /\ req[r].known
    BY <1>1, Kept, RowsStay DEF ReturningFind, SentFields, SubOf
  <1>2. ASSUME NEW b, NEW kind, NEW state, NEW sub, Send(b, kind, state, sub)
        PROVE  Meets(r)
    <2>1. CASE r = next
      <3>1. req'[r].known = (RowOf(sub) # {}) /\ req'[r].sub = sub
              /\ req'[r].phase = "sent" /\ req'[r].row = FALSE
        BY <1>2, <2>1, SendStays DEF SentFields
      <3> QED BY <3>1, RowsStay DEF SubOf
    <2>2. CASE r # next
      <3>1. req[r].known /\ req'[r].phase = req[r].phase /\ req'[r].row = req[r].row
        BY <1>2, <2>2, SendStays DEF SentFields
      <3>2. req[r].phase # "unsent"
        BY <3>1 DEF Numbered, FreshIsUnsent, Unsent
      <3> QED BY <1>1, <3>1, <3>2 DEF ReturningFind
    <2> QED BY <2>1, <2>2
  <1>3. ASSUME NEW b \in Browsers, SendCallback(b) \/ SendOther(b) PROVE Meets(r)
    BY <1>2, <1>3 DEF SendCallback, SendOther
  <1>4. ASSUME req'[r] = req[r] PROVE Meets(r)
    <2>1. req[r].phase # "unsent"
      BY <1>4 DEF Numbered, FreshIsUnsent, Unsent
    <2> QED BY <1>1, <1>4, <2>1 DEF ReturningFind
  <1>5. CASE Serves(r)
    <2>1. req[r].phase # "unsent"
      BY <1>5, OthersStay DEF Serves
    <2>2. RowOf(SubOf(r)) # {} /\ ~req[r].row /\ req[r].phase # "missing"
      BY <1>1, <2>1 DEF ReturningFind
    <2>3. req[r] \in Request
      BY CookieType
    <2>4. CASE Receive(r)
      BY <1>1, <2>1, <2>2, <2>3, <2>4 DEF Receive, TypeOK, Request
    <2>5. ASSUME NEW phase \in {"answered", "refused", "exchanged"}, NEW out,
                 Reply(r, phase, out)
          PROVE  Meets(r)
      BY <1>1, <2>1, <2>2, <2>3, <2>5 DEF Reply, TypeOK, Request
    <2>6. CASE Answer(r)
      BY <2>5, <2>6 DEF Answer
    <2>7. CASE Callback(r)
      BY <2>5, <2>7 DEF Callback
    <2>8. CASE LookUp(r)
      BY <2>2, <2>5, <2>8 DEF LookUp, Found, SubOf
    <2>9. CASE Insert(r) \/ Rollback(r)
      BY <2>2, <2>9 DEF Insert, Rollback
    <2> QED BY <1>5, <2>4, <2>6, <2>7, <2>8, <2>9 DEF Serves
  <1>6. ASSUME NEW q \in Requests, Serves(q), q # r PROVE Meets(r)
    BY <1>4, <1>6, OthersStay DEF Serves
  <1>7. ASSUME NEW q \in Requests, Commit(q) PROVE Meets(r)
    BY <1>4, <1>7 DEF Commit
  <1>8. ASSUME NEW b \in Browsers, Lose(b) PROVE Meets(r)
    BY <1>4, <1>8 DEF Lose
  <1>9. CASE UNCHANGED vars
    BY <1>4, <1>9 DEF vars
  <1> QED BY <1>3, <1>5, <1>6, <1>7, <1>8, <1>9 DEF Next, Serves

LEMMA DistinctStep ==
  ASSUME RowInv, [Next]_vars
  PROVE  UsersAreDistinct'
  <1> USE DEF RowInv
  <1>1. ASSUME \A r \in Requests : req'[r].row => req[r].row /\ SubOf(r)' = SubOf(r)
        PROVE  UsersAreDistinct'
    BY <1>1 DEF UsersAreDistinct
  <1>2. ASSUME NEW r \in Requests, req[r].phase # "unsent" PROVE SubOf(r)' = SubOf(r)
    BY <1>2, Kept DEF SentFields, SubOf
  <1>3. ASSUME \A r \in Requests : req'[r].row => req[r].row PROVE UsersAreDistinct'
    BY <1>1, <1>2, <1>3, RowsStay
  <1>4. ASSUME NEW b, NEW kind, NEW state, NEW sub, Send(b, kind, state, sub)
        PROVE  UsersAreDistinct'
    BY <1>3, <1>4, SendStays
  <1>5. ASSUME NEW b \in Browsers, SendCallback(b) \/ SendOther(b) PROVE UsersAreDistinct'
    BY <1>4, <1>5 DEF SendCallback, SendOther
  <1>6. ASSUME NEW q \in Requests, Serves(q), ~Insert(q) PROVE UsersAreDistinct'
    <2>1. req[q] \in Request /\ req \in [Requests -> Request]
      BY CookieType DEF TypeOK
    <2>2. ASSUME NEW phase, NEW out, Reply(q, phase, out) PROVE req'[q].row = req[q].row
      BY <2>1, <2>2 DEF Reply, Request
    <2>3. req'[q].row => req[q].row
      BY <1>6, <2>1, <2>2 DEF Serves, Receive, Answer, Callback, LookUp, Rollback, Request
    <2> QED BY <1>3, <1>6, <2>3, OthersStay DEF Serves
  <1>7. ASSUME NEW q \in Requests, Insert(q) PROVE UsersAreDistinct'
    <2>1. \A r \in Requests \ {q} : req'[r] = req[r]
      BY <1>7, OthersStay
    <2>2. SubOf(q)' = SubOf(q) /\ req[q] \in Request
      BY <1>2, <1>7, CookieType DEF Insert
    <2>3. CASE Refuses(q)
      BY <1>3, <1>7, <2>1, <2>2, <2>3 DEF Insert, Reply, TypeOK, Request
    <2>4. CASE ~Refuses(q)
      <3>1. \A v \in Requests : req[v].row => SubOf(v) # SubOf(q)
        BY <2>4 DEF Refuses, RowOf, Pending, SubOf
      <3> QED BY <2>1, <2>2, <3>1 DEF UsersAreDistinct, SubOf
    <2> QED BY <2>3, <2>4
  <1>8. ASSUME NEW q \in Requests, Commit(q) PROVE UsersAreDistinct'
    BY <1>8 DEF Commit, UsersAreDistinct, SubOf
  <1>9. ASSUME NEW b \in Browsers, Lose(b) PROVE UsersAreDistinct'
    BY <1>9 DEF Lose, UsersAreDistinct, SubOf
  <1>10. CASE UNCHANGED vars
    BY <1>10 DEF vars, UsersAreDistinct, SubOf
  <1> QED BY <1>5, <1>6, <1>7, <1>8, <1>9, <1>10 DEF Next, Serves

LEMMA RowsAtFirst == Init => RowInv
  <1> SUFFICES ASSUME Init PROVE RowInv OBVIOUS
  <1>1. TypeOK
    BY InitType
  <1>2. \A r \in Requests : r >= next /\ req[r] = Unsent
    BY DEF Init, Requests
  <1> QED BY <1>1, <1>2 DEF Init, RowInv, Numbered, FreshIsUnsent, RowsAreMade,
             ReturningFind, UsersAreDistinct, Unsent

LEMMA RowStep ==
  ASSUME RowInv, [Next]_vars
  PROVE  RowInv'
  <1>1. TypeOK'
    <2>1. CASE Next
      BY <2>1, TypeStep DEF RowInv
    <2>2. CASE UNCHANGED vars
      BY <2>2 DEF vars, RowInv, TypeOK
    <2> QED BY <2>1, <2>2
  <1> QED BY <1>1, NumberedStep, RowsStay, ReturningStep, DistinctStep DEF RowInv

--------------------------------------------------------------------------------
(***************************************************************************)
(* Sessions.                                                               *)
(***************************************************************************)
\* The user u came back to b from a login that b began.
CameBack(b, u) ==
  u # Nobody =>
    /\ req[u].row
    /\ \E c \in Requests : /\ Accepted(c, b) /\ SubOf(c) = SubOf(u)
                           /\ req[c].state \in BegunAt(b)

\* A callback whose answer brings its user along.
Brings(r) ==
  LET u == req[r].out.user
  IN  /\ req[r].kind = "callback" /\ req[r].phase \in {"answered", "received"}
      /\ req[r].state \in BegunAt(req[r].browser)
      /\ u \in Requests /\ req[u].row /\ SubOf(u) = SubOf(r)

KindsFit ==
  \A r \in Requests :
    /\ req[r].kind = "callback" => oidc
    /\ oidc /\ (req[r].row \/ req[r].phase \in {"exchanged", "missing"})
         => req[r].kind = "callback"

SessionsAreOwn ==
  \A b \in Browsers :
    session[b].states \cup saved[b] \subseteq BegunAt(b) /\ CameBack(b, session[b].user)

Own(r) ==
  LET b == req[r].browser
  IN  /\ b \in Browsers
      /\ req[r].cookie.states \cup req[r].copy \cup req[r].out.states \subseteq BegunAt(b)
      /\ CameBack(b, req[r].cookie.user)
      /\ CameBack(b, req[r].out.user) \/ Brings(r)
      /\ req[r].kind = "callback" /\ req[r].phase \in {"exchanged", "missing"}
           => req[r].state \in BegunAt(b)

RequestsAreOwn == \A r \in Requests : req[r].phase # "unsent" => Own(r)

OwnInv == KindsFit /\ SessionsAreOwn /\ RequestsAreOwn

\* A request that is out and alone is the newest of its browser, whose session is
\* the one it was sent with, or lost.
AloneIsNewest ==
  \A l \in Requests :
    req[l].alone /\ req[l].phase \notin {"unsent", "received"} =>
      /\ session[req[l].browser] \in {req[l].cookie, NoSession}
      /\ \A r \in Requests \ {l} :
           req[r].phase # "unsent" /\ req[r].browser = req[l].browser
             => r < l /\ req[r].phase = "received"

LogoutsAreEmpty ==
  \A l \in Requests :
    req[l].kind = "logout" =>
      req[l].phase \in {"sent", "answered", "received"} /\ req[l].out = NoSession

CameLater(l) == \E c \in Requests : c > l /\ Accepted(c, req[l].browser)

\* After a logout that was alone a user comes from a later callback only.
Ended(l) ==
  LET b == req[l].browser
  IN  /\ session[b].user # Nobody => CameLater(l)
      /\ \A r \in Requests :
           req[r].phase # "unsent" /\ req[r].browser = b =>
             /\ r < l => req[r].phase = "received"
             /\ r > l => /\ req[r].cookie.user # Nobody => CameLater(l)
                         /\ req[r].out.user # Nobody
                              => CameLater(l) \/ req[r].kind = "callback"

LogoutsEnd ==
  \A l \in Requests :
    req[l].kind = "logout" /\ req[l].phase = "received" /\ req[l].alone => Ended(l)

LogoutInv == AloneIsNewest /\ LogoutsAreEmpty /\ LogoutsEnd

--------------------------------------------------------------------------------
(***************************************************************************)
(* Every session is the browser's own.                                     *)
(***************************************************************************)
LEMMA RecordFields ==
  ASSUME RowInv, NEW r \in Requests
  PROVE  /\ req[r] \in Request /\ req[r].cookie \in Session /\ req[r].out \in Session
         /\ req[r].phase = "unsent" => req[r] = Unsent
         /\ req[r].out.user \in Requests \cup {Nobody}
         /\ req[r].cookie.user \in Requests \cup {Nobody}
         /\ Nobody \notin Requests
  <1>1. req[r] \in Request /\ req[r].cookie \in Session /\ req[r].out \in Session
    BY CookieType DEF RowInv
  <1>2. Nobody \notin Requests
    BY DEF Nobody, Requests
  <1>3. req[r].phase = "unsent" => req[r] = Unsent
    BY DEF RowInv, FreshIsUnsent, Numbered
  <1> QED BY <1>1, <1>2, <1>3 DEF Request, Session

\* What a browser began and who came back to it stays so.
LEMMA OwnStays ==
  ASSUME RowInv, OwnInv, [Next]_vars
  PROVE  /\ oidc' = oidc
         /\ \A b : BegunAt(b) \subseteq BegunAt(b)'
         /\ \A b : \A u \in Requests \cup {Nobody} : CameBack(b, u) => CameBack(b, u)'
  <1> USE DEF RowInv, OwnInv
  <1>1. oidc' = oidc
    BY DEF Next, vars, SendCallback, SendOther, Send, Lose, Receive, Answer, Callback,
           LookUp, Insert, Commit, Rollback, Reply
  <1>2. ASSUME NEW b, NEW s \in BegunAt(b) PROVE s \in BegunAt(b)'
    <2>1. s \in Requests /\ req[s].kind = "login" /\ req[s].browser = b
      BY DEF BegunAt
    <2>2. req[s].phase # "unsent"
      BY <2>1, RecordFields DEF Unsent
    <2>3. req'[s].kind = "login" /\ req'[s].browser = b
      BY <2>1, <2>2, Kept DEF SentFields
    <2> QED BY <2>1, <2>3 DEF BegunAt
  <1>3. ASSUME NEW b, NEW u \in Requests, CameBack(b, u) PROVE CameBack(b, u)'
    <2>1. /\ u # Nobody
          /\ req[u].row
      BY <1>3, RecordFields DEF CameBack
    <2>2. PICK c \in Requests : /\ Accepted(c, b) /\ SubOf(c) = SubOf(u)
                               /\ req[c].state \in BegunAt(b)
      BY <1>3, <2>1 DEF CameBack
    <2>3. oidc /\ req[u].kind = "callback"
      BY <2>1, <2>2 DEF KindsFit, Accepted
    <2>4. req'[u].row /\ SubOf(u)' = SubOf(u)
      BY <2>1, <2>3, RowsStay, Kept DEF SentFields, SubOf
    <2>5. /\ Accepted(c, b)' /\ SubOf(c)' = SubOf(c)
          /\ req'[c].state \in BegunAt(b)'
      BY <1>2, <2>2, Kept DEF SentFields, SubOf, Accepted
    <2> QED BY <2>2, <2>4, <2>5 DEF CameBack
  <1>4. ASSUME NEW b PROVE CameBack(b, Nobody)'
    BY DEF CameBack
  <1> QED BY <1>1, <1>2, <1>3, <1>4

\* A request that was sent stays its browser's own if its new answer does.
LEMMA OwnNew ==
  ASSUME RowInv, OwnInv, [Next]_vars, NEW r \in Requests, req[r].phase # "unsent",
         req'[r].out.states \subseteq BegunAt(req[r].browser)',
         CameBack(req[r].browser, req[r].out.user)' \/ Brings(r)',
         req[r].kind = "callback" /\ req'[r].phase \in {"exchanged", "missing"}
           => req[r].state \in BegunAt(req[r].browser)
  PROVE  Own(r)'
  <1>1. Own(r)
    BY DEF OwnInv, RequestsAreOwn
  <1>2. SentFields(req'[r]) = SentFields(req[r])
    BY Kept DEF RowInv
  <1>3. CameBack(req[r].browser, req[r].cookie.user)'
    <2> DEFINE b == req[r].browser
               u == req[r].cookie.user
    <2>1. CameBack(b, u) /\ u \in Requests \cup {Nobody}
      BY <1>1, RecordFields DEF Own, RowInv
    <2> QED BY <1>2, <2>1, OwnStays DEF SentFields
  <1> QED BY <1>1, <1>2, <1>3, OwnStays DEF Own, SentFields

LEMMA BringsStays ==
  ASSUME RowInv, OwnInv, [Next]_vars, NEW r \in Requests, Brings(r),
         req'[r].out = req[r].out, req'[r].phase \in {req[r].phase, "received"}
  PROVE  Brings(r)'
  <1> DEFINE u == req[r].out.user
  <1>1. /\ req[r].kind = "callback" /\ req[r].phase \in {"answered", "received"}
        /\ req[r].state \in BegunAt(req[r].browser)
        /\ u \in Requests /\ req[u].row /\ SubOf(u) = SubOf(r)
    BY DEF Brings
  <1>2. req[u].kind = "callback" /\ req[u].phase # "unsent"
    BY <1>1, RowsStay DEF OwnInv, KindsFit
  <1>3. req'[u].row /\ SubOf(u)' = SubOf(u)
    BY <1>1, <1>2, Kept DEF RowInv, SentFields, SubOf
  <1>4. /\ req'[r].kind = "callback" /\ req'[r].browser = req[r].browser
        /\ req'[r].state = req[r].state /\ SubOf(r)' = SubOf(r)
    <2>1. req[r].phase # "unsent"
      BY <1>1
    <2>2. SentFields(req'[r]) = SentFields(req[r])
      BY <2>1, Kept DEF RowInv
    <2> QED BY <1>1, <2>2 DEF SentFields, SubOf
  <1>5. BegunAt(req[r].browser) \subseteq BegunAt(req[r].browser)'
    BY <1>4, OwnStays
  <1> QED BY <1>1, <1>3, <1>4, <1>5 DEF Brings, SubOf

LEMMA OwnKept ==
  ASSUME RowInv, OwnInv, [Next]_vars, NEW r \in Requests, req[r].phase # "unsent",
         req'[r].out = req[r].out, req'[r].phase \in {req[r].phase, "received"}
  PROVE  Own(r)'
  <1> DEFINE b == req[r].browser
             u == req[r].out.user
  <1>1. Own(r)
    BY DEF OwnInv, RequestsAreOwn
  <1>2. SentFields(req'[r]) = SentFields(req[r])
    BY Kept DEF RowInv
  <1>3. req'[r].browser = b /\ BegunAt(b) \subseteq BegunAt(b)'
    BY <1>2, OwnStays DEF SentFields
  <1>4. req'[r].out.states \subseteq BegunAt(req[r].browser)'
    BY <1>1, <1>3 DEF Own
  <1>5. CASE CameBack(b, u)
    <2>1. u \in Requests \cup {Nobody}
      BY RecordFields
    <2>2. CameBack(req[r].browser, req[r].out.user)'
      BY <1>3, <1>5, <2>1, OwnStays
    <2> QED BY <1>1, <1>4, <2>2, OwnNew DEF Own
  <1>6. CASE Brings(r)
    BY <1>1, <1>4, <1>6, BringsStays, OwnNew DEF Own
  <1> QED BY <1>1, <1>5, <1>6 DEF Own

LEMMA OwnSend ==
  ASSUME RowInv, OwnInv, [Next]_vars, NEW b \in Browsers, NEW kind, NEW state, NEW sub,
         Send(b, kind, state, sub), kind = "callback" => oidc
  PROVE  OwnInv'
  <1>1. KindsFit'
    <2> SUFFICES ASSUME NEW r \in Requests
                 PROVE  /\ req'[r].kind = "callback" => oidc
                        /\ oidc /\ (req'[r].row \/ req'[r].phase \in {"exchanged", "missing"})
                             => req'[r].kind = "callback"
      BY OwnStays DEF KindsFit
    <2>1. CASE r = next
      <3>1. req'[r].row = FALSE /\ req'[r].phase = "sent"
        BY <2>1, SendStays DEF RowInv
      <3>2. SentFields(req'[r]) =
              <<b, kind, state, sub, session[b], saved[b], RowOf(sub) # {}>>
        BY <2>1, SendStays DEF RowInv
      <3>3. req'[r].kind = kind
        BY <3>2 DEF SentFields
      <3> QED BY <3>1, <3>3
    <2>2. CASE r # next
      <3>1. /\ req'[r].kind = req[r].kind /\ req'[r].row = req[r].row
            /\ req'[r].phase = req[r].phase
        BY <2>2, SendStays DEF RowInv, SentFields
      <3> QED BY <3>1 DEF OwnInv, KindsFit
    <2> QED BY <2>1, <2>2
  <1>2. \A a \in Browsers : /\ session[a].user \in Requests \cup {Nobody}
                           /\ session'[a] = session[a] /\ saved'[a] = saved[a]
    BY DEF RowInv, TypeOK, Session, Send
  <1>3. SessionsAreOwn'
    BY <1>2, OwnStays DEF SessionsAreOwn, OwnInv
  <1>4. ASSUME NEW r \in Requests, req'[r].phase # "unsent" PROVE Own(r)'
    <2>1. CASE r = next
      <3>1. /\ req'[r].browser = b /\ req'[r].cookie = session[b] /\ req'[r].copy = saved[b]
            /\ req'[r].out = NoSession /\ req'[r].phase = "sent"
        BY <2>1, SendStays DEF RowInv, SentFields
      <3>2. session[b].states \cup saved[b] \subseteq BegunAt(b)'
        BY OwnStays DEF OwnInv, SessionsAreOwn
      <3>3. CameBack(req[r].browser, req[r].cookie.user)'
        BY <1>2, <3>1, OwnStays DEF OwnInv, SessionsAreOwn
      <3>4. CameBack(req[r].browser, req[r].out.user)'
        BY <3>1 DEF CameBack, NoSession
      <3> QED BY <3>1, <3>2, <3>3, <3>4 DEF Own, NoSession
    <2>2. CASE r # next
      BY <1>4, <2>2, SendStays, OwnKept DEF RowInv
    <2> QED BY <2>1, <2>2
  <1> QED BY <1>1, <1>3, <1>4 DEF OwnInv, RequestsAreOwn

\* The answers of the server are the browser's own.
LEMMA OwnServe ==
  ASSUME RowInv, OwnInv, [Next]_vars, NEW q \in Requests,
         Answer(q) \/ Callback(q) \/ LookUp(q) \/ Insert(q)
  PROVE  Own(q)'
  <1> DEFINE b == req[q].browser
  <1>1. /\ req[q].phase # "unsent" /\ Own(q)
        /\ SentFields(req'[q]) = SentFields(req[q])
    BY OthersStay, Kept DEF RowInv, OwnInv, RequestsAreOwn
  <1>2. req'[q].browser = b /\ BegunAt(b) \subseteq BegunAt(b)'
    BY <1>1, OwnStays DEF SentFields
  <1>3. /\ req[q].cookie.states \subseteq BegunAt(b)
        /\ Restored(q) \subseteq BegunAt(b)
        /\ CameBack(b, req[q].cookie.user)
    BY <1>1 DEF Own, Restored
  <1>4. req[q] \in Request /\ req \in [Requests -> Request]
    BY RecordFields DEF RowInv, TypeOK
  <1>5. ASSUME NEW phase, NEW out, Reply(q, phase, out)
        PROVE  req'[q].phase = phase /\ req'[q].out = out
    BY <1>4, <1>5 DEF Reply, Request
  <1>6. ASSUME NEW phase, NEW out, Reply(q, phase, out),
               out.states \subseteq BegunAt(b), out.user = req[q].cookie.user,
               phase \in {"exchanged", "missing"} /\ req[q].kind = "callback"
                 => req[q].state \in BegunAt(b)
        PROVE  Own(q)'
    <2>1. req'[q].phase = phase /\ req'[q].out = out
      BY <1>5, <1>6
    <2>2. CameBack(req[q].browser, req[q].out.user)'
      <3> DEFINE u == req[q].cookie.user
      <3>1. CameBack(b, u)' /\ u \in Requests \cup {Nobody}
        BY <1>1, <1>2, <1>3, RecordFields, OwnStays DEF SentFields
      <3> QED BY <1>1, <1>2, <1>6, <2>1, <3>1 DEF SentFields
    <2> QED BY <1>1, <1>2, <1>6, <2>1, <2>2, OwnNew
  <1>7. CASE Answer(q)
    <2>1. CASE req[q].kind = "login"
      <3> DEFINE out == [req[q].cookie EXCEPT !.states = @ \cup {q}]
      <3>1. Reply(q, "answered", out)
        BY <1>7, <2>1 DEF Answer
      <3>2. q \in BegunAt(b)
        BY <2>1 DEF BegunAt
      <3>3. out.states \subseteq BegunAt(b) /\ out.user = req[q].cookie.user
        BY <1>3, <3>2, RecordFields DEF Session
      <3> QED BY <1>6, <3>1, <3>3
    <2>2. CASE req[q].kind = "logout"
      <3>1. Reply(q, "answered", NoSession)
        BY <1>7, <2>2 DEF Answer, AfterLogout
      <3>2. req'[q].out = NoSession /\ req'[q].phase = "answered"
        BY <1>5, <3>1
      <3> QED BY <1>1, <1>2, <3>2, OwnNew DEF NoSession, CameBack
    <2>3. CASE req[q].kind = "api"
      BY <1>3, <1>6, <1>7, <2>3 DEF Answer
    <2> QED BY <1>7, <2>1, <2>2, <2>3 DEF Answer
  <1>8. CASE Callback(q)
    <2> DEFINE with == [req[q].cookie EXCEPT !.states = Restored(q)]
               without == [with EXCEPT !.states = @ \ {req[q].state}]
    <2>1. /\ with.states \subseteq BegunAt(b) /\ with.user = req[q].cookie.user
          /\ without.states \subseteq BegunAt(b) /\ without.user = req[q].cookie.user
      BY <1>3, RecordFields DEF Session
    <2>2. MayExchange(q) => req[q].state \in BegunAt(b)
      BY <1>3 DEF MayExchange
    <2>3. \/ Reply(q, "refused", with)
          \/ Reply(q, "refused", without)
          \/ MayExchange(q) /\ Reply(q, "exchanged", without)
      BY <1>8 DEF Callback
    <2> QED BY <1>6, <2>1, <2>2, <2>3
  <1> DEFINE Brought(u) == /\ u \in Requests /\ req'[u].row /\ SubOf(u)' = SubOf(q)
                           /\ req'[q].phase = "answered" /\ req'[q].out = Entered(q, u)
                           /\ req[q].phase \in {"exchanged", "missing"} \/ req[q].kind # "callback"
  <1>9. ASSUME NEW u, Brought(u) PROVE Own(q)'
    <2>1. CASE req[q].kind = "callback"
      <3>1. req'[q].out.states = req[q].out.states /\ req'[q].out.user = u
        BY <1>9, <2>1, RecordFields DEF Entered, Session
      <3>2. req[q].out.states \subseteq BegunAt(b) /\ req[q].state \in BegunAt(b)
        BY <1>1, <1>9, <2>1 DEF Own
      <3>3. Brings(q)'
        BY <1>1, <1>2, <1>9, <2>1, <3>1, <3>2 DEF Brings, SentFields, SubOf
      <3> QED BY <1>1, <1>2, <1>9, <3>1, <3>2, <3>3, OwnNew
    <2>2. CASE req[q].kind # "callback"
      <3> DEFINE v == req[q].cookie.user
      <3>1. req'[q].out = req[q].cookie
        BY <1>9, <2>2 DEF Entered
      <3>2. CameBack(b, v)' /\ v \in Requests \cup {Nobody}
        BY <1>1, <1>2, <1>3, RecordFields, OwnStays DEF SentFields
      <3>3. CameBack(req[q].browser, req[q].out.user)'
        BY <1>1, <1>2, <3>1, <3>2 DEF SentFields
      <3> QED BY <1>1, <1>2, <1>3, <2>2, <3>1, <3>3, OwnNew
    <2> QED BY <2>1, <2>2
  <1>10. CASE LookUp(q)
    <2>1. CASE Found(q) = {}
      <3>1. Reply(q, "missing", req[q].out)
        BY <1>10, <2>1 DEF LookUp
      <3>2. /\ req'[q].out = req[q].out /\ req'[q].phase = "missing"
            /\ req[q].phase = "exchanged" \/ req[q].kind = "api"
            /\ req[q].phase \notin {"answered", "received"}
        BY <1>5, <1>10, <3>1 DEF LookUp
      <3> DEFINE v == req[q].out.user
      <3>3. CameBack(b, v) /\ v \in Requests \cup {Nobody}
        BY <1>1, <3>2, RecordFields DEF Own, Brings
      <3>4. CameBack(req[q].browser, req[q].out.user)'
        BY <1>2, <3>2, <3>3, OwnStays
      <3>5. /\ req'[q].out.states \subseteq BegunAt(b)
            /\ req[q].kind = "callback" => req[q].state \in BegunAt(b)
        BY <1>1, <3>2 DEF Own
      <3> QED BY <1>1, <1>2, <3>4, <3>5, OwnNew
    <2>2. CASE Found(q) # {}
      <3>1. PICK u \in Found(q) : Reply(q, "answered", Entered(q, u))
        BY <1>10, <2>2 DEF LookUp
      <3>2. u \in rows /\ u \in Requests /\ SubOf(u) = SubOf(q)
        BY <3>1, RowsStay DEF Found, RowOf, SubOf
      <3>3. req'[u].row /\ SubOf(u)' = SubOf(q)
        BY <3>2, RowsStay DEF RowsAreMade
      <3>4. req[q].phase = "exchanged" \/ req[q].kind # "callback"
        BY <1>10 DEF LookUp
      <3> QED BY <1>5, <1>9, <3>1, <3>2, <3>3, <3>4
    <2> QED BY <2>1, <2>2
  <1>11. CASE Insert(q)
    <2>1. CASE Refuses(q)
      <3>1. Reply(q, "failed", NoSession)
        BY <1>11, <2>1 DEF Insert
      <3>2. req'[q].out = NoSession /\ req'[q].phase = "failed"
        BY <1>5, <3>1
      <3> QED BY <1>1, <1>2, <3>2, OwnNew DEF NoSession, CameBack
    <2>2. CASE ~Refuses(q)
      <3>1. req'[q].row /\ req'[q].phase = "answered" /\ req'[q].out = Entered(q, q)
        BY <1>4, <1>11, <2>2 DEF Insert, Request
      <3> QED BY <1>1, <1>9, <1>11, <3>1 DEF Insert, SubOf, SentFields
    <2> QED BY <2>1, <2>2
  <1> QED BY <1>7, <1>8, <1>10, <1>11

LEMMA OwnStep ==
  ASSUME RowInv, OwnInv, [Next]_vars
  PROVE  OwnInv'
  <1>1. ASSUME UNCHANGED <<session, saved>> PROVE SessionsAreOwn'
    <2>1. \A b \in Browsers : session[b].user \in Requests \cup {Nobody}
      BY DEF RowInv, TypeOK, Session
    <2> QED BY <1>1, <2>1, OwnStays DEF OwnInv, SessionsAreOwn
  <1>2. ASSUME \A r \in Requests :
                 req'[r].phase # "unsent" =>
                   \/ Own(r)'
                   \/ /\ req[r].phase # "unsent" /\ req'[r].out = req[r].out
                      /\ req'[r].phase \in {req[r].phase, "received"}
        PROVE  RequestsAreOwn'
    BY <1>2, OwnKept DEF RequestsAreOwn
  <1>3. ASSUME \A r \in Requests :
                 /\ req'[r].kind = req[r].kind
                 /\ req'[r].row => req[r].row \/ req[r].phase = "missing"
                 /\ req'[r].phase \in {"exchanged", "missing"} =>
                      \/ req[r].phase \in {"exchanged", "missing"}
                      \/ req[r].kind = "callback" \/ ~oidc
        PROVE  KindsFit'
    BY <1>3, OwnStays DEF OwnInv, KindsFit
  <1>4. ASSUME NEW b \in Browsers, SendCallback(b) \/ SendOther(b) PROVE OwnInv'
    BY <1>4, OwnSend DEF SendCallback, SendOther
  <1>5. ASSUME NEW b \in Browsers, Lose(b) PROVE OwnInv'
    <2>1. req' = req
      BY <1>5 DEF Lose
    <2>2. SessionsAreOwn'
      <3> SUFFICES ASSUME NEW a \in Browsers
                   PROVE  /\ session'[a].states \cup saved'[a] \subseteq BegunAt(a)'
                          /\ CameBack(a, session[a].user)'
        BY DEF SessionsAreOwn
      <3>1. session'[a] \in {session[a], NoSession} /\ saved'[a] \in {saved[a], {}}
        BY <1>5 DEF Lose, RowInv, TypeOK
      <3>2. session[a].user \in Requests \cup {Nobody}
        BY DEF RowInv, TypeOK, Session
      <3>3. session'[a].states \cup saved'[a] \subseteq BegunAt(a)'
        BY <3>1, OwnStays DEF OwnInv, SessionsAreOwn, NoSession
      <3>4. CASE session'[a] = session[a]
        BY <3>2, <3>3, <3>4, OwnStays DEF OwnInv, SessionsAreOwn
      <3>5. CASE session'[a] = NoSession
        BY <3>3, <3>5 DEF CameBack, NoSession
      <3> QED BY <3>1, <3>4, <3>5
    <2> QED BY <1>2, <1>3, <2>1, <2>2 DEF OwnInv
  <1>6. ASSUME NEW q \in Requests, Serves(q) PROVE KindsFit'
    <2>1. req[q] \in Request /\ req \in [Requests -> Request]
      BY RecordFields DEF RowInv, TypeOK
    <2>2. \A r \in Requests \ {q} : req'[r] = req[r]
      BY <1>6, OthersStay DEF Serves, RowInv
    <2>3. req'[q].kind = req[q].kind
      BY <1>6, OthersStay DEF Serves, RowInv, SentFields
    <2>4. ASSUME NEW phase, NEW out, Reply(q, phase, out)
          PROVE  req'[q].phase = phase /\ req'[q].row = req[q].row
      BY <2>1, <2>4 DEF Reply, Request
    <2>5. /\ req'[q].row => req[q].row \/ req[q].phase = "missing"
          /\ req'[q].phase \in {"exchanged", "missing"} =>
               \/ req[q].phase \in {"exchanged", "missing"}
               \/ req[q].kind = "callback" \/ ~oidc
      <3>1. CASE Receive(q) \/ Rollback(q)
        BY <2>1, <3>1 DEF Receive, Rollback, Request
      <3>2. CASE Answer(q) \/ Callback(q)
        BY <2>4, <3>2 DEF Answer, Callback
      <3>3. CASE LookUp(q)
        BY <2>4, <3>3 DEF LookUp
      <3>4. CASE Insert(q)
        BY <2>1, <2>4, <3>4 DEF Insert, Request
      <3> QED BY <1>6, <3>1, <3>2, <3>3, <3>4 DEF Serves
    <2>6. ASSUME NEW r \in Requests
          PROVE  /\ req'[r].kind = req[r].kind
                 /\ req'[r].row => req[r].row \/ req[r].phase = "missing"
                 /\ req'[r].phase \in {"exchanged", "missing"} =>
                      \/ req[r].phase \in {"exchanged", "missing"}
                      \/ req[r].kind = "callback" \/ ~oidc
      <3>1. CASE r = q
        BY <2>3, <2>5, <3>1
      <3>2. CASE r # q
        <4>1. r \in Requests \ {q}
          BY <3>2
        <4> QED BY <2>2, <4>1
      <3> QED BY <3>1, <3>2
    <2> QED BY <1>3, <2>6
  <1>7. ASSUME NEW q \in Requests, Serves(q) PROVE RequestsAreOwn'
    <2> SUFFICES ASSUME NEW r \in Requests, req'[r].phase # "unsent"
                 PROVE  \/ Own(r)'
                        \/ /\ req[r].phase # "unsent" /\ req'[r].out = req[r].out
                           /\ req'[r].phase \in {req[r].phase, "received"}
      BY <1>2
    <2>1. req[q] \in Request /\ req \in [Requests -> Request] /\ req[q].phase # "unsent"
      BY <1>7, RecordFields, OthersStay DEF RowInv, TypeOK, Serves
    <2>2. CASE r # q
      <3>1. r \in Requests \ {q}
        BY <2>2
      <3>2. req'[r] = req[r]
        BY <1>7, <3>1, OthersStay DEF Serves, RowInv
      <3> QED BY <3>2
    <2>3. CASE r = q /\ (Receive(q) \/ Rollback(q))
      BY <2>1, <2>3 DEF Receive, Rollback, Request
    <2>4. CASE r = q /\ ~(Receive(q) \/ Rollback(q))
      BY <1>7, <2>4, OwnServe DEF Serves
    <2> QED BY <2>2, <2>3, <2>4
  <1>8. ASSUME NEW q \in Requests, Serves(q), ~Receive(q) PROVE SessionsAreOwn'
    <2>1. UNCHANGED <<session, saved>>
      BY <1>8 DEF Serves, Answer, Callback, LookUp, Insert, Rollback, Reply
    <2> QED BY <1>1, <2>1
  <1>9. ASSUME NEW q \in Requests, Receive(q) PROVE SessionsAreOwn'
    <2> DEFINE b == req[q].browser
    <2>1. /\ req[q].phase \in {"answered", "refused", "failed"}
          /\ req'[q] = [req[q] EXCEPT !.phase = "received"] /\ req[q] \in Request
      BY <1>9, RecordFields DEF Receive, RowInv, TypeOK
    <2>2. Own(q) /\ Own(q)' /\ req'[q].browser = b
      BY <1>7, <1>9, <2>1 DEF OwnInv, RequestsAreOwn, Serves, Request
    <2>3. \A a \in Browsers : session[a].user \in Requests \cup {Nobody}
      BY DEF RowInv, TypeOK, Session
    <2>4. \A a \in Browsers \ {b} : session'[a] = session[a] /\ saved'[a] = saved[a]
      BY <1>9 DEF Receive, RowInv, TypeOK
    <2>5. /\ session'[b] \in {session[b], req[q].out}
          /\ saved'[b] \in {saved[b], {}, req[q].out.states}
      BY <1>9, <2>2 DEF Receive, RowInv, TypeOK, Own
    <2>6. CameBack(b, session[b].user) /\ session[b].states \cup saved[b] \subseteq BegunAt(b)
      BY <2>2 DEF OwnInv, SessionsAreOwn, Own
    <2>7. BegunAt(req[q].browser) \subseteq BegunAt(req[q].browser)'
      BY <2>2, OwnStays
    <2>8. session'[b].states \cup saved'[b] \subseteq BegunAt(req[q].browser)'
      BY <2>2, <2>5, <2>6, <2>7 DEF Own
    <2>9. ASSUME NEW u \in Requests, u = req'[q].out.user, Brings(q)'
          PROVE  CameBack(req[q].browser, u)'
      <3>1. Accepted(q, req[q].browser)'
        BY <2>1, <2>9 DEF Accepted, Brings, Request
      <3>2. req'[q].state \in BegunAt(req[q].browser)' /\ req'[u].row /\ SubOf(u)' = SubOf(q)'
        BY <2>9 DEF Brings, SubOf
      <3> QED BY <3>1, <3>2 DEF CameBack
    <2>10. CameBack(req[q].browser, req[q].out.user)'
      <3>1. req'[q].out.user = req[q].out.user
        BY <2>1 DEF Request
      <3>2. CASE Brings(q)'
        BY <2>9, <3>2 DEF Brings
      <3> QED BY <2>2, <3>2 DEF Own
    <2> SUFFICES ASSUME NEW a \in Browsers
                 PROVE  /\ session'[a].states \cup saved'[a] \subseteq BegunAt(a)'
                        /\ CameBack(a, session[a].user)'
      BY DEF SessionsAreOwn
    <2>11. CASE a # b
      <3>1. a \in Browsers \ {b}
        BY <2>11
      <3> QED BY <2>3, <2>4, <3>1, OwnStays DEF OwnInv, SessionsAreOwn
    <2>12. CASE a = b
      <3>1. session'[a].states \cup saved'[a] \subseteq BegunAt(a)'
        BY <2>2, <2>8, <2>12
      <3>2. CASE session'[a] = session[a]
        <4>1. CameBack(a, session[a].user)
          BY DEF OwnInv, SessionsAreOwn
        <4> QED BY <2>3, <3>1, <3>2, <4>1, OwnStays
      <3>3. CASE session'[a] = req[q].out
        <4>1. session'[a].user = req'[q].out.user /\ req'[q].browser = a
          BY <2>1, <2>2, <2>12, <3>3 DEF Request
        <4> QED BY <2>10, <3>1, <4>1
      <3> QED BY <2>5, <2>12, <3>2, <3>3
    <2> QED BY <2>11, <2>12
  <1>10. ASSUME NEW q \in Requests, Serves(q) PROVE OwnInv'
    BY <1>6, <1>7, <1>8, <1>9, <1>10 DEF OwnInv
  <1>11. ASSUME NEW q \in Requests, Commit(q) PROVE OwnInv'
    BY <1>1, <1>2, <1>3, <1>11 DEF Commit, OwnInv
  <1>12. CASE UNCHANGED vars
    BY <1>1, <1>2, <1>3, <1>12 DEF vars, OwnInv
  <1> QED BY <1>4, <1>5, <1>10, <1>11, <1>12 DEF Next, Serves

--------------------------------------------------------------------------------
(***************************************************************************)
(* A logout that was alone ends the session.                               *)
(***************************************************************************)
\* The step of a request leaves the sessions of the other browsers alone, and
\* every session if it is not the receipt of an answer.
LEMMA SessionsStay ==
  ASSUME TypeOK, NEW q \in Requests, Serves(q), NEW a,
         Receive(q) => req[q].browser # a
  PROVE  session'[a] = session[a]
  <1>1. CASE Receive(q)
    BY <1>1 DEF Receive, TypeOK
  <1>2. CASE ~Receive(q)
    BY <1>2 DEF Serves, Answer, Callback, LookUp, Insert, Rollback, Reply
  <1> QED BY <1>1, <1>2

LEMMA AloneStep ==
  ASSUME RowInv, OwnInv, AloneIsNewest, [Next]_vars
  PROVE  AloneIsNewest'
  <1> DEFINE Newest(l) ==
        /\ session[req[l].browser] \in {req[l].cookie, NoSession}
        /\ \A r \in Requests \ {l} :
             req[r].phase # "unsent" /\ req[r].browser = req[l].browser
               => r < l /\ req[r].phase = "received"
  <1> SUFFICES ASSUME NEW l \in Requests, req'[l].alone,
                      req'[l].phase \notin {"unsent", "received"}
               PROVE  Newest(l)'
    BY DEF AloneIsNewest
  <1>1. ASSUME NEW b, NEW kind, NEW state, NEW sub, Send(b, kind, state, sub)
        PROVE  Newest(l)'
    <2>0. req'[next].browser = b
      BY <1>1, SendStays DEF RowInv, SentFields
    <2>1. session' = session
      BY <1>1 DEF Send
    <2>2. CASE l = next
      <3>1. /\ req'[l].browser = b /\ req'[l].cookie = session[b]
            /\ req'[l].alone = (OutOf(b) = {})
        BY <1>1, <2>2, SendStays DEF RowInv, SentFields
      <3>2. ASSUME NEW r \in Requests \ {l}, req'[r].phase # "unsent", req'[r].browser = b
            PROVE  r < l /\ req'[r].phase = "received"
        <4>1. req'[r].phase = req[r].phase /\ req[r].browser = b
          BY <1>1, <2>2, <3>2, SendStays DEF RowInv, SentFields
        <4>2. r \notin OutOf(b)
          BY <3>1
        <4>3. req[r].phase = "received"
          BY <3>2, <4>1, <4>2 DEF OutOf
        <4>4. ~(r >= next) /\ r # next /\ r \in Nat /\ next \in Nat
          BY <2>2, <3>2, <4>1, LoginAssumption DEF RowInv, Numbered, TypeOK, Requests
        <4> QED BY <2>2, <4>1, <4>3, <4>4
      <3> QED BY <2>1, <3>1, <3>2
    <2>3. CASE l # next
      <3>1. /\ SentFields(req'[l]) = SentFields(req[l]) /\ req'[l].phase = req[l].phase
            /\ req'[l].alone = (req[l].alone /\ l \notin OutOf(b))
        BY <1>1, <2>3, SendStays DEF RowInv
      <3>2. /\ req[l].alone /\ l \notin OutOf(b)
            /\ req[l].phase \notin {"unsent", "received"}
        BY <3>1
      <3>3. /\ req'[l].browser = req[l].browser /\ req'[l].cookie = req[l].cookie
            /\ req[l].browser # b
        BY <3>1, <3>2 DEF SentFields, OutOf
      <3>4. Newest(l)
        BY <3>2 DEF AloneIsNewest
      <3>5. ASSUME NEW r \in Requests \ {l}, req'[r].phase # "unsent",
                   req'[r].browser = req[l].browser
            PROVE  r < l /\ req'[r].phase = "received"
        <4>1. ASSUME r = next PROVE FALSE
          BY <2>0, <3>3, <3>5, <4>1
        <4>2. r \in Requests \ {next}
          BY <4>1
        <4>3. req'[r].phase = req[r].phase /\ SentFields(req'[r]) = SentFields(req[r])
          BY <1>1, <4>2, SendStays DEF RowInv
        <4>4. req'[r].browser = req[r].browser
          BY <4>3 DEF SentFields
        <4> QED BY <3>4, <3>5, <4>3, <4>4
      <3> QED BY <2>1, <3>3, <3>4, <3>5
    <2> QED BY <2>2, <2>3
  <1>2. ASSUME NEW b \in Browsers, SendCallback(b) \/ SendOther(b) PROVE Newest(l)'
    BY <1>1, <1>2 DEF SendCallback, SendOther
  <1>3. ASSUME req' = req, \A b \in Browsers : session'[b] \in {session[b], NoSession}
        PROVE  Newest(l)'
    <2>1. Newest(l)
      BY <1>3 DEF AloneIsNewest
    <2>2. req[l].browser \in Browsers
      BY <1>3 DEF OwnInv, RequestsAreOwn, Own
    <2> QED BY <1>3, <2>1, <2>2
  <1>4. ASSUME NEW q \in Requests, Serves(q) PROVE Newest(l)'
    <2>1. /\ req[q].phase \notin {"unsent", "received"}
          /\ \A r \in Requests \ {q} : req'[r] = req[r]
          /\ SentFields(req'[q]) = SentFields(req[q]) /\ req'[q].alone = req[q].alone
          /\ req'[q].phase # "unsent"
      BY <1>4, OthersStay DEF Serves, RowInv
    <2>2. /\ SentFields(req'[l]) = SentFields(req[l]) /\ req[l].alone
          /\ req[l].phase \notin {"unsent", "received"}
      <3>1. CASE l = q
        BY <2>1, <3>1
      <3>2. CASE l # q
        <4>1. l \in Requests \ {q}
          BY <3>2
        <4> QED BY <2>1, <4>1
      <3> QED BY <3>1, <3>2
    <2>3. Newest(l) /\ req'[l].browser = req[l].browser /\ req'[l].cookie = req[l].cookie
      BY <2>2 DEF AloneIsNewest, SentFields
    <2>4. ~Receive(q) \/ req[q].browser # req[l].browser
      <3>1. CASE q = l
        BY <3>1, RecordFields DEF Receive, RowInv, TypeOK, Request
      <3>2. CASE q # l
        BY <2>1, <2>3, <3>2
      <3> QED BY <3>1, <3>2
    <2>5. session'[req[l].browser] = session[req[l].browser]
      BY <1>4, <2>4, SessionsStay DEF RowInv
    <2>6. ASSUME NEW r \in Requests \ {l}, req'[r].phase # "unsent",
                 req'[r].browser = req[l].browser
          PROVE  r < l /\ req'[r].phase = "received"
      <3>1. req[r].phase # "unsent" /\ req[r].browser = req[l].browser
        <4>1. CASE r = q
          BY <2>1, <2>6, <4>1 DEF SentFields
        <4>2. CASE r # q
          <5>1. r \in Requests \ {q}
            BY <4>2
          <5> QED BY <2>1, <2>6, <5>1
        <4> QED BY <4>1, <4>2
      <3>2. r < l /\ req[r].phase = "received"
        BY <2>3, <3>1
      <3> QED BY <3>1, <3>2, Kept DEF RowInv
    <2> QED BY <2>3, <2>5, <2>6
  <1>5. ASSUME NEW b \in Browsers, Lose(b) PROVE Newest(l)'
    BY <1>3, <1>5 DEF Lose, RowInv, TypeOK
  <1>6. ASSUME NEW q \in Requests, Commit(q) PROVE Newest(l)'
    BY <1>3, <1>6 DEF Commit
  <1>7. CASE UNCHANGED vars
    BY <1>3, <1>7 DEF vars
  <1> QED BY <1>2, <1>4, <1>5, <1>6, <1>7 DEF Next, Serves

LEMMA EmptyStep ==
  ASSUME RowInv, LogoutsAreEmpty, [Next]_vars
  PROVE  LogoutsAreEmpty'
  <1> DEFINE Empty(l) == req[l].phase \in {"sent", "answered", "received"}
                           /\ req[l].out = NoSession
  <1> SUFFICES ASSUME NEW l \in Requests, req'[l].kind = "logout" PROVE Empty(l)'
    BY DEF LogoutsAreEmpty
  <1>1. ASSUME req'[l] = req[l] PROVE Empty(l)'
    BY <1>1 DEF LogoutsAreEmpty
  <1>2. ASSUME NEW b, NEW kind, NEW state, NEW sub, Send(b, kind, state, sub)
        PROVE  Empty(l)'
    <2>1. CASE l = next
      BY <1>2, <2>1, SendStays DEF RowInv
    <2>2. CASE l # next
      <3>1. /\ req'[l].kind = req[l].kind /\ req'[l].phase = req[l].phase
            /\ req'[l].out = req[l].out
        BY <1>2, <2>2, SendStays DEF RowInv, SentFields
      <3> QED BY <3>1 DEF LogoutsAreEmpty
    <2> QED BY <2>1, <2>2
  <1>3. ASSUME NEW b \in Browsers, SendCallback(b) \/ SendOther(b) PROVE Empty(l)'
    BY <1>2, <1>3 DEF SendCallback, SendOther
  <1>4. CASE Serves(l)
    <2>1. req[l].kind = "logout" /\ Empty(l)
      BY <1>4, OthersStay DEF Serves, RowInv, SentFields, LogoutsAreEmpty
    <2>2. req[l] \in Request /\ req \in [Requests -> Request]
      BY RecordFields DEF RowInv, TypeOK
    <2>3. CASE Receive(l)
      BY <2>1, <2>2, <2>3 DEF Receive, Request
    <2>4. CASE Answer(l)
      BY <2>1, <2>2, <2>4 DEF Answer, Reply, AfterLogout, Request
    <2>5. ~Callback(l) /\ ~LookUp(l) /\ ~Insert(l) /\ ~Rollback(l)
      BY <2>1 DEF Callback, LookUp, Insert, Rollback
    <2> QED BY <1>4, <2>3, <2>4, <2>5 DEF Serves
  <1>5. ASSUME NEW q \in Requests, Serves(q), q # l PROVE Empty(l)'
    BY <1>1, <1>5, OthersStay DEF Serves, RowInv
  <1>6. ASSUME NEW b \in Browsers, Lose(b) PROVE Empty(l)'
    BY <1>1, <1>6 DEF Lose
  <1>7. ASSUME NEW q \in Requests, Commit(q) PROVE Empty(l)'
    BY <1>1, <1>7 DEF Commit
  <1>8. CASE UNCHANGED vars
    BY <1>1, <1>8 DEF vars
  <1> QED BY <1>3, <1>4, <1>5, <1>6, <1>7, <1>8 DEF Next, Serves

LEMMA CameLaterStays ==
  ASSUME RowInv, [Next]_vars, NEW l \in Requests, req[l].phase # "unsent", CameLater(l)
  PROVE  CameLater(l)'
  <1>1. PICK c \in Requests : c > l /\ Accepted(c, req[l].browser)
    BY DEF CameLater
  <1>2. req'[l].browser = req[l].browser
    BY Kept DEF RowInv, SentFields
  <1>3. Accepted(c, req[l].browser)'
    BY <1>1, <1>2, Kept DEF RowInv, SentFields, Accepted
  <1> QED BY <1>1, <1>3 DEF CameLater

\* The receipt of its answer ends the session of a logout that is alone.
LEMMA LogoutReceived ==
  ASSUME RowInv, OwnInv, LogoutInv, [Next]_vars, NEW l \in Requests, Receive(l),
         req[l].kind = "logout", req[l].alone
  PROVE  Ended(l)'
  <1> DEFINE b == req[l].browser
  <1>1. /\ req[l].phase \in {"answered", "refused", "failed"}
        /\ req'[l] = [req[l] EXCEPT !.phase = "received"]
        /\ \A r \in Requests \ {l} : req'[r] = req[r]
    BY DEF Receive, RowInv, TypeOK
  <1>2. req'[l].browser = b /\ b \in Browsers
    BY <1>1, RecordFields DEF Request, OwnInv, RequestsAreOwn, Own
  <1>3. /\ session[b] \in {req[l].cookie, NoSession}
        /\ \A r \in Requests \ {l} :
             req[r].phase # "unsent" /\ req[r].browser = b => r < l /\ req[r].phase = "received"
        /\ req[l].phase = "answered" /\ req[l].out = NoSession
    BY <1>1 DEF LogoutInv, AloneIsNewest, LogoutsAreEmpty
  <1>4. session'[b] = NoSession
    <2>1. CASE req[l].cookie = NoSession
      BY <1>2, <1>3, <2>1 DEF Receive, RowInv, TypeOK
    <2>2. CASE req[l].cookie # NoSession
      BY <1>2, <1>3, <2>2 DEF Receive, RowInv, TypeOK
    <2> QED BY <2>1, <2>2
  <1>5. ASSUME NEW r \in Requests, req'[r].phase # "unsent", req'[r].browser = b, r # l
        PROVE  r < l /\ req'[r].phase = "received"
    <2>1. r \in Requests \ {l}
      BY <1>5
    <2> QED BY <1>1, <1>3, <1>5, <2>1
  <1>6. \A r \in Requests : r \in Nat
    BY LoginAssumption DEF Requests
  <1> QED BY <1>2, <1>4, <1>5, <1>6 DEF Ended, NoSession

\* What a step leaves of a logout that was alone and is over.
LEMMA EndedSend ==
  ASSUME RowInv, [Next]_vars, NEW l \in Requests, req[l].phase = "received", Ended(l),
         NEW b, NEW kind, NEW state, NEW sub, Send(b, kind, state, sub)
  PROVE  Ended(l)'
  <1>1. session' = session /\ next \in Requests
    BY DEF Send
  <1>2. req'[l].browser = req[l].browser
    BY Kept DEF RowInv, SentFields
  <1>3. CameLater(l) => CameLater(l)'
    BY CameLaterStays
  <1>4. l \in Nat /\ next \in Nat /\ l < next
    <2>1. l \in Nat /\ next \in Nat
      BY <1>1, LoginAssumption DEF Requests
    <2>2. ~(l >= next)
      BY DEF RowInv, Numbered
    <2> QED BY <2>1, <2>2
  <1>5. ASSUME NEW r \in Requests, req'[r].phase # "unsent", req'[r].browser = req[l].browser
        PROVE  /\ r < l => req'[r].phase = "received"
               /\ r > l => /\ req'[r].cookie.user # Nobody => CameLater(l)'
                           /\ req'[r].out.user # Nobody
                                => CameLater(l)' \/ req'[r].kind = "callback"
    <2>1. CASE r = next
      <3>1. /\ SentFields(req'[r]) =
                  <<b, kind, state, sub, session[b], saved[b], RowOf(sub) # {}>>
            /\ req'[r].out = NoSession
        <4>0. TypeOK
          BY DEF RowInv
        <4>1. /\ SentFields(req'[next]) =
                    <<b, kind, state, sub, session[b], saved[b], RowOf(sub) # {}>>
              /\ req'[next].out = NoSession
          BY <4>0, SendStays, ZenonT(60)
        <4> QED
          BY <2>1, <4>1, Zenon
      <3>2. req'[r].cookie = session[req[l].browser]
        BY <1>5, <3>1 DEF SentFields
      <3> QED BY <1>3, <1>4, <2>1, <3>1, <3>2 DEF Ended, NoSession
    <2>2. CASE r # next
      <3>1. r \in Requests \ {next}
        BY <2>2
      <3>2. /\ SentFields(req'[r]) = SentFields(req[r]) /\ req'[r].phase = req[r].phase
            /\ req'[r].out = req[r].out
        BY <3>1, SendStays DEF RowInv
      <3>3. /\ req'[r].browser = req[r].browser /\ req'[r].cookie = req[r].cookie
            /\ req'[r].kind = req[r].kind
        BY <3>2 DEF SentFields
      <3> QED BY <1>3, <1>5, <3>2, <3>3 DEF Ended
    <2> QED BY <2>1, <2>2
  <1> QED BY <1>1, <1>2, <1>3, <1>5 DEF Ended

LEMMA EndedServe ==
  ASSUME RowInv, OwnInv, [Next]_vars, NEW l \in Requests, req[l].phase = "received", Ended(l),
         NEW q \in Requests, Serves(q)
  PROVE  Ended(l)'
  <1> DEFINE b == req[l].browser
  <1>1. /\ req[q].phase \notin {"unsent", "received"} /\ q # l
        /\ \A r \in Requests \ {q} : req'[r] = req[r]
        /\ SentFields(req'[q]) = SentFields(req[q]) /\ req'[q].phase # "unsent"
    BY OthersStay DEF Serves, RowInv
  <1>2. /\ req'[l].browser = b /\ req'[q].browser = req[q].browser
        /\ req'[q].kind = req[q].kind /\ req'[q].cookie = req[q].cookie
    BY <1>1, Kept DEF RowInv, SentFields
  <1>3. CameLater(l) => CameLater(l)'
    BY CameLaterStays
  <1>4. req[q] \in Request /\ req \in [Requests -> Request]
    BY RecordFields DEF RowInv, TypeOK
  <1>5. q \in Nat /\ l \in Nat
    BY LoginAssumption DEF Requests
  <1>6. req[q].browser = b =>
          /\ q > l
          /\ req[q].cookie.user # Nobody => CameLater(l)
          /\ req[q].out.user # Nobody => CameLater(l) \/ req[q].kind = "callback"
    BY <1>1, <1>5 DEF Ended
  <1>7. session'[b].user # Nobody => CameLater(l)'
    <2>1. CASE Receive(q) /\ req[q].browser = b
      <3>1. session'[b] \in {session[b], req[q].out} /\ req'[q].phase = "received"
        BY <1>4, <2>1 DEF Receive, RowInv, TypeOK, Request
      <3>2. CASE session'[b] = session[b]
        BY <1>3, <3>2 DEF Ended
      <3>3. CASE session'[b] = req[q].out /\ req[q].kind = "callback"
        BY <1>2, <1>6, <2>1, <3>1, <3>3 DEF CameLater, Accepted
      <3>4. CASE session'[b] = req[q].out /\ req[q].kind # "callback"
        BY <1>3, <1>6, <2>1, <3>4
      <3> QED BY <3>1, <3>2, <3>3, <3>4
    <2>2. CASE Receive(q) => req[q].browser # b
      BY <1>3, <2>2, SessionsStay DEF RowInv, Ended
    <2> QED BY <2>1, <2>2
  <1>8. req[q].browser = b => (req'[q].out.user # Nobody => CameLater(l) \/ req[q].kind = "callback")
    <2> SUFFICES ASSUME req[q].browser = b, req[q].kind # "callback"
                 PROVE  req'[q].out.user # Nobody => CameLater(l)
      OBVIOUS
    <2>1. ASSUME NEW phase, NEW out, Reply(q, phase, out) PROVE req'[q].out = out
      BY <1>4, <2>1 DEF Reply, Request
    <2>2. /\ NoSession.user = Nobody /\ req[q].cookie \in Session
          /\ [req[q].cookie EXCEPT !.states = @ \cup {q}].user = req[q].cookie.user
      BY RecordFields DEF NoSession, Session
    <2>3. CASE Receive(q) \/ Rollback(q)
      BY <1>4, <1>6, <2>3 DEF Receive, Rollback, Request
    <2>4. CASE Answer(q)
      BY <1>6, <2>1, <2>2, <2>4 DEF Answer, AfterLogout
    <2>5. CASE LookUp(q)
      BY <1>6, <2>1, <2>5 DEF LookUp, Entered
    <2>6. CASE Insert(q)
      BY <1>4, <1>6, <2>1, <2>2, <2>6 DEF Insert, Entered, Request
    <2>7. ~Callback(q)
      BY DEF Callback
    <2> QED BY <2>3, <2>4, <2>5, <2>6, <2>7 DEF Serves
  <1>9. ASSUME NEW r \in Requests, req'[r].phase # "unsent", req'[r].browser = b
        PROVE  /\ r < l => req'[r].phase = "received"
               /\ r > l => /\ req'[r].cookie.user # Nobody => CameLater(l)'
                           /\ req'[r].out.user # Nobody
                                => CameLater(l)' \/ req'[r].kind = "callback"
    <2>1. CASE r = q
      BY <1>2, <1>3, <1>5, <1>6, <1>8, <1>9, <2>1
    <2>2. CASE r # q
      <3>1. r \in Requests \ {q}
        BY <2>2
      <3>2. req'[r] = req[r]
        BY <1>1, <3>1
      <3> QED BY <1>3, <1>9, <3>2 DEF Ended
    <2> QED BY <2>1, <2>2
  <1> QED BY <1>2, <1>7, <1>9 DEF Ended

LEMMA LogoutStep ==
  ASSUME RowInv, OwnInv, LogoutInv, [Next]_vars
  PROVE  LogoutInv'
  <1>1. AloneIsNewest' /\ LogoutsAreEmpty'
    BY AloneStep, EmptyStep DEF LogoutInv
  <1>2. ASSUME NEW l \in Requests, req'[l].kind = "logout", req'[l].phase = "received",
               req'[l].alone
        PROVE  Ended(l)'
    <2>1. ASSUME req[l].phase = "received" PROVE req[l].alone /\ Ended(l)
      <3>1. req[l].kind = "logout" /\ req[l].alone
        BY <1>2, <2>1, Kept DEF RowInv, SentFields
      <3> QED BY <2>1, <3>1 DEF LogoutInv, LogoutsEnd
    <2>2. ASSUME req' = req, \A b \in Browsers : session'[b] \in {session[b], NoSession}
          PROVE  Ended(l)'
      <3>1. Ended(l) /\ req[l].browser \in Browsers
        BY <1>2, <2>1, <2>2 DEF OwnInv, RequestsAreOwn, Own
      <3>2. session'[req[l].browser] \in {session[req[l].browser], NoSession}
        BY <2>2, <3>1
      <3> QED BY <2>2, <3>1, <3>2 DEF Ended, CameLater, Accepted, NoSession
    <2>3. ASSUME NEW b, NEW kind, NEW state, NEW sub, Send(b, kind, state, sub)
          PROVE  Ended(l)'
      <3>1. l \in Requests \ {next}
        BY <1>2, <2>3, SendStays DEF RowInv
      <3>2. req[l].phase = "received"
        BY <1>2, <2>3, <3>1, SendStays DEF RowInv
      <3> QED BY <2>1, <2>3, <3>2, EndedSend
    <2>4. ASSUME NEW b \in Browsers, SendCallback(b) \/ SendOther(b) PROVE Ended(l)'
      BY <2>3, <2>4 DEF SendCallback, SendOther
    <2>5. ASSUME NEW q \in Requests, Serves(q) PROVE Ended(l)'
      <3>1. CASE req[l].phase = "received"
        BY <2>1, <2>5, <3>1, EndedServe
      <3>2. CASE req[l].phase # "received"
        <4>1. q = l
          <5>1. CASE q # l
            <6>1. l \in Requests \ {q}
              BY <5>1
            <6> QED BY <1>2, <2>5, <3>2, <6>1, OthersStay DEF Serves, RowInv
          <5> QED BY <5>1
        <4>2. req[l].kind = "logout" /\ req[l].alone
          BY <1>2, <2>5, <4>1, OthersStay DEF Serves, RowInv, SentFields
        <4>3. req[l] \in Request /\ req \in [Requests -> Request]
          BY RecordFields DEF RowInv, TypeOK
        <4>4. Receive(l)
          <5>1. ASSUME NEW phase, NEW out, Reply(l, phase, out) PROVE req'[l].phase = phase
            BY <4>3, <5>1 DEF Reply, Request
          <5>2. ~Callback(l) /\ ~Insert(l) /\ ~LookUp(l) /\ ~Rollback(l)
            BY <4>2 DEF LogoutInv, LogoutsAreEmpty, Callback, Insert, LookUp, Rollback
          <5>3. ~Answer(l)
            BY <1>2, <5>1 DEF Answer
          <5> QED BY <2>5, <4>1, <5>2, <5>3 DEF Serves
        <4> QED BY <4>2, <4>4, LogoutReceived
      <3> QED BY <3>1, <3>2
    <2>6. ASSUME NEW b \in Browsers, Lose(b) PROVE Ended(l)'
      BY <2>2, <2>6 DEF Lose, RowInv, TypeOK
    <2>7. ASSUME NEW q \in Requests, Commit(q) PROVE Ended(l)'
      BY <2>2, <2>7 DEF Commit
    <2>8. CASE UNCHANGED vars
      BY <2>2, <2>8 DEF vars
    <2> QED BY <2>4, <2>5, <2>6, <2>7, <2>8 DEF Next, Serves
  <1> QED BY <1>1, <1>2 DEF LogoutInv, LogoutsEnd

--------------------------------------------------------------------------------
(***************************************************************************)
(* A login that is not overtaken is held until its callback.               *)
(***************************************************************************)
Quiet(b) == losses = 0 /\ \A r \in Requests : req[r].browser = b => req[r].alone

\* b began a later login, or the login s was called back already.
Overtaken(s, b) ==
  \/ \E r \in Requests : r > s /\ SentBy(b, r, "login")
  \/ \E d \in Requests : req[d].kind = "callback" /\ req[d].state = s

\* A callback has dropped the copy of the states, and a logout the session.
Dropped(s, b) ==
  \E d, l \in Requests : s < d /\ d < l /\ SentBy(b, d, "callback") /\ SentBy(b, l, "logout")

Left(b) == IF session[b].states # {} THEN session[b].states ELSE saved[b]

Held(s, b) ==
  /\ Dropped(s, b) \/ s \in Left(b)
  /\ s \in saved[b] \/ \E d \in Requests : d > s /\ SentBy(b, d, "callback")

Due(s, b) ==
  SentBy(b, s, "login") /\ req[s].phase = "received" /\ Quiet(b) /\ ~Overtaken(s, b)

LoginsAreHeld == \A s \in Requests, b \in Browsers : Due(s, b) => Held(s, b)

\* While no cookie is lost, a request that is out and alone has the browser's.
Current(r) ==
  LET b == req[r].browser
  IN  session[b] = req[r].cookie /\ saved[b] = req[r].copy

AloneIsCurrent ==
  \A r \in Requests :
    req[r].alone /\ req[r].phase \notin {"unsent", "received"} /\ losses = 0 => Current(r)

\* A callback answers with the states it was sent with but its own, any other
\* request but a logout with all of them.
Fits(r) ==
  /\ req[r].kind = "login" =>
       /\ req[r].phase \in {"sent", "answered", "received"}
       /\ req[r].phase # "sent" => req[r].out.states = req[r].cookie.states \cup {r}
  /\ req[r].kind = "api" =>
       /\ req[r].phase \notin {"exchanged", "refused"}
       /\ req[r].phase = "answered" => req[r].out = req[r].cookie
  /\ req[r].kind = "callback" /\ req[r].phase \in {"exchanged", "missing", "answered", "refused"}
       => Restored(r) \subseteq req[r].out.states \cup {req[r].state}

AnswersFit == \A r \in Requests : Fits(r)

\* A code the provider has taken was brought by a callback to the browser that
\* began the login.
Spent(s) ==
  \E d \in Requests :
    /\ req[d].kind = "callback" /\ req[d].state = s
    /\ req[d].browser = req[s].browser /\ req[d].phase \notin {"unsent", "sent"}

CodesAreSpent == \A code \in redeemed : code[1] \in Requests /\ Spent(code[1])

Began(s) == s \in Requests /\ req[s].kind = "login" /\ req[s].phase = "received"

CallbacksHold ==
  \A c \in Requests :
    req[c].kind = "callback" =>
      Began(req[c].state) /\ (MayBeRefused(c) \/ req[c].state \in Restored(c))

HoldInv == LoginsAreHeld /\ AloneIsCurrent /\ AnswersFit /\ CodesAreSpent /\ CallbacksHold
             /\ LoginsComplete

LEMMA SentByStays ==
  ASSUME RowInv, [Next]_vars, NEW r \in Requests
  PROVE  /\ \A b : \A kind \in {"login", "callback", "logout"} :
              SentBy(b, r, kind) => SentBy(b, r, kind)'
         /\ req[r].kind = "callback" => req'[r].kind = "callback" /\ req'[r].state = req[r].state
  <1>1. ASSUME req[r].phase # "unsent" PROVE SentFields(req'[r]) = SentFields(req[r])
    BY <1>1, Kept DEF RowInv
  <1>2. ASSUME req[r].kind # "api" PROVE req[r].phase # "unsent"
    BY <1>2, RecordFields DEF Unsent
  <1> QED BY <1>1, <1>2 DEF SentBy, SentFields

LEMMA LossesGrow ==
  ASSUME RowInv, [Next]_vars
  PROVE  /\ losses \in Nat /\ losses' \in Nat
         /\ losses' = losses \/ losses' > 0
         /\ losses' # 0 \/ losses = 0
         /\ losses > 0 => losses' > 0
  <1>1. losses \in Nat
    BY LoginAssumption DEF RowInv, TypeOK
  <1>2. losses' = losses \/ losses' = losses + 1
    BY DEF Next, vars, SendCallback, SendOther, Send, Lose, Receive, Answer, Callback,
           LookUp, Insert, Commit, Rollback, Reply
  <1> QED BY <1>1, <1>2

\* A browser is quiet only if it was.
LEMMA QuietWas ==
  ASSUME RowInv, [Next]_vars, NEW b, Quiet(b)'
  PROVE  Quiet(b)
  <1>1. losses = 0
    BY LossesGrow DEF Quiet
  <1>2. ASSUME NEW r \in Requests, req[r].browser = b PROVE req[r].alone
    <2>1. CASE req[r].phase = "unsent"
      BY <2>1, RecordFields DEF Unsent
    <2>2. CASE req[r].phase # "unsent"
      <3>1. req'[r].browser = b /\ (req'[r].alone => req[r].alone)
        BY <1>2, <2>2, Kept DEF RowInv, SentFields
      <3> QED BY <3>1 DEF Quiet
    <2> QED BY <2>1, <2>2
  <1> QED BY <1>1, <1>2 DEF Quiet

LEMMA OvertakenStays ==
  ASSUME RowInv, [Next]_vars, NEW s, NEW b
  PROVE  /\ Overtaken(s, b) => Overtaken(s, b)'
         /\ Dropped(s, b) => Dropped(s, b)'
         /\ (\E d \in Requests : d > s /\ SentBy(b, d, "callback"))
              => \E d \in Requests : d > s /\ SentBy(b, d, "callback")'
  BY SentByStays DEF Overtaken, Dropped

\* A login that was due stays held while the cookies of its browser stay.
LEMMA HeldKept ==
  ASSUME RowInv, [Next]_vars, LoginsAreHeld, NEW s \in Requests, NEW b \in Browsers,
         Due(s, b)', req[s].phase = "received",
         session'[b] = session[b], saved'[b] = saved[b]
  PROVE  Held(s, b)'
  <1>1. SentBy(b, s, "login")
    <2>1. SentFields(req'[s]) = SentFields(req[s])
      BY Kept DEF RowInv
    <2> QED BY <2>1 DEF Due, SentBy, SentFields
  <1>2. Quiet(b) /\ ~Overtaken(s, b)
    BY QuietWas, OvertakenStays DEF Due
  <1>3. Held(s, b)
    BY <1>1, <1>2 DEF LoginsAreHeld, Due
  <1> QED BY <1>3, OvertakenStays DEF Held, Left

LEMMA MayStays ==
  ASSUME RowInv, [Next]_vars, NEW c \in Requests, req[c].kind = "callback",
         Began(req[c].state), MayBeRefused(c)
  PROVE  MayBeRefused(c)'
  <1>0. PICK b, s : b = req[c].browser /\ s = req[c].state
    OBVIOUS
  <1>1. req'[c].browser = b /\ req'[c].state = s
    BY <1>0, SentByStays DEF SentBy
  <1>2. s \in Requests /\ req'[s].browser = req[s].browser
    BY <1>0, SentByStays DEF SentBy, Began
  <1>3. ASSUME NEW r \in Requests, req[r].browser = b, ~req[r].alone
        PROVE  req'[r].browser = b /\ ~req'[r].alone
    <2>1. req[r].phase # "unsent"
      BY <1>3, RecordFields DEF Unsent
    <2> QED BY <1>3, <2>1, Kept DEF RowInv, SentFields
  <1>4. losses > 0 => losses' > 0
    BY LossesGrow
  <1>5. \A r \in Requests, kind \in {"login", "callback", "logout"} :
          SentBy(b, r, kind) => SentBy(b, r, kind)'
    BY SentByStays
  <1>6. \A d \in Requests : req[d].kind = "callback" /\ req[d].state = s
          => req'[d].kind = "callback" /\ req'[d].state = s
    BY SentByStays
  <1>7. CASE losses > 0 \/ req[s].browser # b
    BY <1>0, <1>1, <1>2, <1>4, <1>7 DEF MayBeRefused
  <1>8. CASE \E r \in Requests : req[r].browser = b /\ ~req[r].alone
    BY <1>0, <1>1, <1>3, <1>8 DEF MayBeRefused
  <1>9. CASE \E r \in Requests : r > s /\ r < c /\ SentBy(b, r, "login")
    BY <1>0, <1>1, <1>5, <1>9 DEF MayBeRefused
  <1>10. CASE \E d \in Requests : d < c /\ req[d].kind = "callback" /\ req[d].state = s
    BY <1>0, <1>1, <1>6, <1>10 DEF MayBeRefused
  <1>11. CASE \E d, l \in Requests : /\ s < d /\ d < l /\ l < c
                                     /\ SentBy(b, d, "callback") /\ SentBy(b, l, "logout")
    BY <1>0, <1>1, <1>5, <1>11 DEF MayBeRefused
  <1> QED BY <1>0, <1>7, <1>8, <1>9, <1>10, <1>11 DEF MayBeRefused

\* The step of a request other than a receipt leaves the copies too.
LEMMA CookiesStay ==
  ASSUME TypeOK, NEW q \in Requests, Serves(q), NEW a,
         Receive(q) => req[q].browser # a
  PROVE  session'[a] = session[a] /\ saved'[a] = saved[a]
  <1>1. CASE Receive(q)
    BY <1>1 DEF Receive, TypeOK
  <1>2. CASE ~Receive(q)
    BY <1>2 DEF Serves, Answer, Callback, LookUp, Insert, Rollback, Reply
  <1> QED BY <1>1, <1>2

\* What AloneIsNewest says of a request.
LEMMA NewestIs ==
  ASSUME AloneIsNewest, NEW l \in Requests, req[l].alone,
         req[l].phase \notin {"unsent", "received"},
         NEW r \in Requests, r # l, req[r].phase # "unsent", req[r].browser = req[l].browser
  PROVE  r < l /\ req[r].phase = "received"
  BY DEF AloneIsNewest

LEMMA CurrentStep ==
  ASSUME RowInv, LogoutInv, AloneIsCurrent, [Next]_vars
  PROVE  AloneIsCurrent'
  <1> SUFFICES ASSUME NEW l \in Requests, req'[l].alone,
                      req'[l].phase \notin {"unsent", "received"}, losses' = 0
               PROVE  Current(l)'
    BY DEF AloneIsCurrent
  <1>1. losses = 0
    BY LossesGrow
  <1>2. ASSUME UNCHANGED <<session, saved>>, SentFields(req'[l]) = SentFields(req[l]),
               req[l].alone, req[l].phase \notin {"unsent", "received"}
        PROVE  Current(l)'
    <2>1. Current(l)
      BY <1>1, <1>2 DEF AloneIsCurrent
    <2> QED BY <1>2, <2>1 DEF Current, SentFields
  <1>3. ASSUME NEW b, NEW kind, NEW state, NEW sub, Send(b, kind, state, sub)
        PROVE  Current(l)'
    <2>1. UNCHANGED <<session, saved>>
      BY <1>3 DEF Send
    <2>2. CASE l = next
      BY <1>3, <2>1, <2>2, SendStays DEF RowInv, SentFields, Current
    <2>3. CASE l # next
      <3>1. /\ SentFields(req'[l]) = SentFields(req[l]) /\ req'[l].phase = req[l].phase
            /\ req[l].alone
        BY <1>3, <2>3, SendStays DEF RowInv
      <3> QED BY <1>2, <2>1, <3>1
    <2> QED BY <2>2, <2>3
  <1>4. ASSUME NEW b \in Browsers, SendCallback(b) \/ SendOther(b) PROVE Current(l)'
    BY <1>3, <1>4 DEF SendCallback, SendOther
  <1>5. ASSUME NEW q \in Requests, Serves(q) PROVE Current(l)'
    <2>1. /\ req[q].phase \notin {"unsent", "received"}
          /\ \A r \in Requests \ {q} : req'[r] = req[r]
          /\ SentFields(req'[q]) = SentFields(req[q]) /\ req'[q].alone = req[q].alone
      BY <1>5, OthersStay DEF Serves, RowInv
    <2>2. /\ SentFields(req'[l]) = SentFields(req[l]) /\ req[l].alone
          /\ req[l].phase \notin {"unsent", "received"}
      <3>1. CASE l = q
        BY <2>1, <3>1
      <3>2. CASE l # q
        <4>1. l \in Requests \ {q}
          BY <3>2
        <4> QED BY <2>1, <4>1
      <3> QED BY <3>1, <3>2
    <2>3. ~Receive(q) \/ req[q].browser # req[l].browser
      <3>1. CASE q = l
        BY <3>1, RecordFields DEF Receive, RowInv, TypeOK, Request
      <3>2. CASE q # l
        BY <2>1, <2>2, <3>2, NewestIs DEF LogoutInv
      <3> QED BY <3>1, <3>2
    <2>4. /\ session'[req[l].browser] = session[req[l].browser]
          /\ saved'[req[l].browser] = saved[req[l].browser]
      BY <1>5, <2>3, CookiesStay DEF RowInv
    <2>5. Current(l)
      BY <1>1, <2>2 DEF AloneIsCurrent
    <2> QED BY <2>2, <2>4, <2>5 DEF Current, SentFields
  <1>6. ASSUME NEW b \in Browsers, Lose(b) PROVE FALSE
    BY <1>1, <1>6 DEF Lose
  <1>7. ASSUME NEW q \in Requests, Commit(q) PROVE Current(l)'
    BY <1>2, <1>7 DEF Commit
  <1>8. CASE UNCHANGED vars
    BY <1>2, <1>8 DEF vars
  <1> QED BY <1>4, <1>5, <1>6, <1>7, <1>8 DEF Next, Serves

LEMMA FitStep ==
  ASSUME RowInv, AnswersFit, [Next]_vars
  PROVE  AnswersFit'
  <1> SUFFICES ASSUME NEW r \in Requests PROVE Fits(r)'
    BY DEF AnswersFit
  <1>0. Fits(r) /\ req[r] \in Request /\ req \in [Requests -> Request]
    BY RecordFields DEF AnswersFit, RowInv, TypeOK
  <1>1. ASSUME SentFields(req'[r]) = SentFields(req[r]), req'[r].phase = req[r].phase,
               req'[r].out = req[r].out
        PROVE  Fits(r)'
    BY <1>0, <1>1 DEF Fits, SentFields, Restored
  <1>2. ASSUME NEW b, NEW kind, NEW state, NEW sub, Send(b, kind, state, sub)
        PROVE  Fits(r)'
    <2>1. CASE r = next
      BY <1>2, <2>1, SendStays DEF RowInv, Fits
    <2>2. CASE r # next
      BY <1>1, <1>2, <2>2, SendStays DEF RowInv
    <2> QED BY <2>1, <2>2
  <1>3. ASSUME NEW b \in Browsers, SendCallback(b) \/ SendOther(b) PROVE Fits(r)'
    BY <1>2, <1>3 DEF SendCallback, SendOther
  <1>4. ASSUME NEW q \in Requests, Serves(q), q # r PROVE Fits(r)'
    <2>1. req'[r] = req[r]
      BY <1>4, OthersStay DEF Serves, RowInv
    <2> QED BY <1>1, <2>1
  <1>5. CASE Serves(r)
    <2>1. SentFields(req'[r]) = SentFields(req[r])
      BY <1>5, OthersStay DEF Serves, RowInv
    <2>2. /\ req'[r].kind = req[r].kind /\ req'[r].cookie = req[r].cookie
          /\ req'[r].state = req[r].state /\ Restored(r)' = Restored(r)
      BY <2>1 DEF SentFields, Restored
    <2>3. ASSUME NEW phase, NEW out, Reply(r, phase, out)
          PROVE  req'[r].phase = phase /\ req'[r].out = out
      BY <1>0, <2>3 DEF Reply, Request
    <2>4. CASE Receive(r)
      <3>1. /\ req[r].phase \in {"answered", "refused", "failed"}
            /\ req'[r].phase = "received" /\ req'[r].out = req[r].out
        BY <1>0, <2>4 DEF Receive, Request
      <3> QED BY <1>0, <2>2, <3>1 DEF Fits
    <2>5. CASE Rollback(r)
      BY <1>0, <1>1, <2>1, <2>5 DEF Rollback, Request
    <2>6. CASE Answer(r)
      <3>1. CASE req[r].kind = "login" /\ Reply(r, "answered", [req[r].cookie EXCEPT !.states = @ \cup {r}])
        <4>1. [req[r].cookie EXCEPT !.states = @ \cup {r}].states = req[r].cookie.states \cup {r}
          BY RecordFields DEF Session
        <4> QED BY <2>2, <2>3, <3>1, <4>1 DEF Fits
      <3>2. CASE req[r].kind = "logout"
        BY <2>2, <3>2 DEF Fits
      <3>3. CASE req[r].kind = "api" /\ Reply(r, "answered", req[r].cookie)
        BY <2>2, <2>3, <3>3 DEF Fits
      <3> QED BY <2>6, <3>1, <3>2, <3>3 DEF Answer
    <2>7. CASE Callback(r)
      <3> DEFINE with == [req[r].cookie EXCEPT !.states = Restored(r)]
                 without == [with EXCEPT !.states = @ \ {req[r].state}]
      <3>1. with.states = Restored(r) /\ without.states = Restored(r) \ {req[r].state}
        BY RecordFields DEF Session
      <3>2. req[r].kind = "callback" /\ req'[r].out \in {with, without}
        BY <2>3, <2>7 DEF Callback
      <3> QED BY <2>2, <3>1, <3>2 DEF Fits
    <2>8. CASE LookUp(r)
      <3>1. /\ req[r].kind = "api" \/ req[r].phase = "exchanged"
            /\ req'[r].phase \in {"missing", "answered"}
            /\ req[r].kind = "callback" => req'[r].out.states = req[r].out.states
            /\ req[r].kind = "api" /\ req'[r].phase = "answered" => req'[r].out = req[r].cookie
        <4>1. CASE Reply(r, "missing", req[r].out)
          BY <2>3, <2>8, <4>1 DEF LookUp
        <4>2. CASE \E u \in Found(r) : Reply(r, "answered", Entered(r, u))
          <5>1. PICK u \in Found(r) : Reply(r, "answered", Entered(r, u))
            BY <4>2
          <5>2. \A v : [req[r].out EXCEPT !.user = v].states = req[r].out.states
            BY RecordFields DEF Session
          <5> QED BY <2>3, <2>8, <5>1, <5>2 DEF LookUp, Entered
        <4> QED BY <2>8, <4>1, <4>2 DEF LookUp
      <3> QED BY <1>0, <2>2, <3>1 DEF Fits
    <2>9. CASE Insert(r)
      <3>1. /\ req[r].phase = "missing"
            /\ \/ req'[r].phase = "failed"
               \/ req'[r].phase = "answered" /\ req'[r].out = Entered(r, r)
        <4>1. req[r].phase = "missing" /\ (Refuses(r) => req'[r].phase = "failed")
          BY <2>3, <2>9 DEF Insert
        <4>2. CASE ~Refuses(r)
          <5> DEFINE new == [req[r] EXCEPT !.phase = "answered", !.row = TRUE,
                                           !.out = Entered(r, r)]
          <5>1. req'[r] = new
            <6>1. req' = [req EXCEPT ![r] = new]
              BY <2>9, <4>2 DEF Insert
            <6> QED BY <1>0, <6>1
          <5>2. new.phase = "answered" /\ new.out = Entered(r, r)
            BY <1>0 DEF Request
          <5> QED BY <4>1, <5>1, <5>2
        <4> QED BY <4>1, <4>2
      <3>2. [req[r].out EXCEPT !.user = r].states = req[r].out.states
        BY RecordFields DEF Session
      <3> QED BY <1>0, <2>2, <3>1, <3>2 DEF Fits, Entered
    <2> QED BY <1>5, <2>4, <2>5, <2>6, <2>7, <2>8, <2>9 DEF Serves
  <1>6. ASSUME NEW b \in Browsers, Lose(b) PROVE Fits(r)'
    BY <1>1, <1>6 DEF Lose
  <1>7. ASSUME NEW q \in Requests, Commit(q) PROVE Fits(r)'
    BY <1>1, <1>7 DEF Commit
  <1>8. CASE UNCHANGED vars
    BY <1>1, <1>8 DEF vars
  <1> QED BY <1>3, <1>4, <1>5, <1>6, <1>7, <1>8 DEF Next, Serves

LEMMA SpentStep ==
  ASSUME RowInv, OwnInv, CodesAreSpent, CallbacksHold, [Next]_vars
  PROVE  CodesAreSpent'
  <1>1. ASSUME NEW s \in Requests, Spent(s), req[s].phase # "unsent" PROVE Spent(s)'
    <2>1. PICK d \in Requests :
            /\ req[d].kind = "callback" /\ req[d].state = s
            /\ req[d].browser = req[s].browser /\ req[d].phase \notin {"unsent", "sent"}
      BY <1>1 DEF Spent
    <2>2. SentFields(req'[d]) = SentFields(req[d]) /\ SentFields(req'[s]) = SentFields(req[s])
      BY <1>1, <2>1, Kept DEF RowInv
    <2>3. req'[d].phase \notin {"unsent", "sent"}
      <3>1. ASSUME NEW b, NEW kind, NEW state, NEW sub, Send(b, kind, state, sub)
            PROVE  req'[d].phase = req[d].phase
        <4>1. d # next
          BY <2>1, <3>1, SendStays, LoginAssumption DEF RowInv, Numbered, Requests
        <4> QED BY <3>1, <4>1, SendStays DEF RowInv
      <3>2. ASSUME NEW b \in Browsers, SendCallback(b) \/ SendOther(b)
            PROVE  req'[d].phase = req[d].phase
        BY <3>1, <3>2 DEF SendCallback, SendOther
      <3>3. ASSUME NEW q \in Requests, Serves(q), q # d PROVE req'[d] = req[d]
        BY <3>3, OthersStay DEF Serves, RowInv
      <3>4. CASE Serves(d)
        <4>1. req[d] \in Request /\ req \in [Requests -> Request]
          BY RecordFields DEF RowInv, TypeOK
        <4>2. ASSUME NEW phase \in {"answered", "missing", "failed", "refused", "exchanged"},
                     NEW out, Reply(d, phase, out)
              PROVE  req'[d].phase = phase
          BY <4>1, <4>2 DEF Reply, Request
        <4>3. CASE Receive(d) \/ Rollback(d)
          BY <2>1, <4>1, <4>3 DEF Receive, Rollback, Request
        <4>4. CASE Answer(d) \/ Callback(d)
          BY <2>1, <4>4 DEF Answer, Callback
        <4>5. CASE LookUp(d)
          BY <4>2, <4>5 DEF LookUp
        <4>6. CASE Insert(d)
          BY <4>1, <4>2, <4>6 DEF Insert, Request
        <4> QED BY <3>4, <4>3, <4>4, <4>5, <4>6 DEF Serves
      <3>5. ASSUME NEW q \in Requests, Commit(q) PROVE req'[d] = req[d]
        BY <3>5 DEF Commit
      <3>6. ASSUME NEW b \in Browsers, Lose(b) PROVE req'[d] = req[d]
        BY <3>6 DEF Lose
      <3> QED BY <2>1, <3>2, <3>3, <3>4, <3>5, <3>6 DEF Next, vars, Serves
    <2> QED BY <2>1, <2>2, <2>3 DEF Spent, SentFields
  <1>2. \A code \in redeemed : code[1] \in Requests /\ Spent(code[1])
    BY DEF CodesAreSpent
  <1>3. ASSUME NEW s \in Requests, Spent(s) PROVE req[s].phase # "unsent"
    BY <1>3 DEF Spent, CallbacksHold, Began
  <1>4. ASSUME redeemed' = redeemed PROVE CodesAreSpent'
    BY <1>1, <1>2, <1>3, <1>4 DEF CodesAreSpent
  <1>5. ASSUME NEW c \in Requests, Callback(c) PROVE CodesAreSpent'
    <2> DEFINE s == req[c].state
    <2>1. CASE redeemed' = redeemed
      BY <1>4, <2>1
    <2>2. CASE redeemed' # redeemed
      <3>1. /\ req[c].kind = "callback" /\ req[c].phase = "sent" /\ MayExchange(c)
            /\ redeemed' = redeemed \cup {<<s, req[c].sub>>}
        BY <1>5, <2>2 DEF Callback
      <3>2. s \in BegunAt(req[c].browser)
        BY <3>1 DEF OwnInv, RequestsAreOwn, Own, MayExchange, Restored
      <3>3. s \in Requests /\ req[s].browser = req[c].browser /\ req[s].phase # "unsent"
        BY <3>1, <3>2 DEF BegunAt, CallbacksHold, Began
      <3>4. SentFields(req'[c]) = SentFields(req[c]) /\ SentFields(req'[s]) = SentFields(req[s])
        BY <3>1, <3>3, Kept DEF RowInv
      <3>5. req'[c].phase = "exchanged"
        <4>1. req[c] \in Request /\ req \in [Requests -> Request]
          BY RecordFields DEF RowInv, TypeOK
        <4> QED BY <1>5, <2>2, <4>1 DEF Callback, Reply, Request
      <3>6. req'[c].kind = "callback" /\ req'[c].state = s /\ req'[s].browser = req'[c].browser
        BY <3>1, <3>3, <3>4 DEF SentFields
      <3>7. PICK t : t = s
        OBVIOUS
      <3>8. Spent(t)'
        BY <3>5, <3>6, <3>7 DEF Spent
      <3> QED BY <1>1, <1>2, <1>3, <3>1, <3>3, <3>7, <3>8 DEF CodesAreSpent
    <2> QED BY <2>1, <2>2
  <1>6. CASE \A c \in Requests : ~Callback(c)
    BY <1>4, <1>6 DEF Next, vars, SendCallback, SendOther, Send, Lose, Receive, Answer,
           LookUp, Insert, Commit, Rollback, Reply
  <1> QED BY <1>5, <1>6

\* The receipt of an answer leaves a login that is due held.
LEMMA HeldReceive ==
  ASSUME RowInv, OwnInv, LogoutInv, HoldInv, [Next]_vars,
         NEW q \in Requests, Receive(q), NEW s \in Requests, NEW b \in Browsers,
         req[q].browser = b, Due(s, b)'
  PROVE  Held(s, b)'
  <1>1. /\ req[q].phase \in {"answered", "refused", "failed"}
        /\ req' = [req EXCEPT ![q].phase = "received"]
        /\ \A r \in Requests \ {q} : req'[r] = req[r]
    BY DEF Receive, RowInv, TypeOK
  <1>2. /\ \A r \in Requests : SentFields(req'[r]) = SentFields(req[r])
        /\ req[q] \in Request
    BY <1>1, RecordFields, OthersStay DEF RowInv, TypeOK
  <1>3. SentBy(b, s, "login") /\ Quiet(b) /\ ~Overtaken(s, b)
    BY <1>2, QuietWas, OvertakenStays DEF Due, SentBy, SentFields
  <1>4. /\ req[q].alone /\ session[b] = req[q].cookie /\ saved[b] = req[q].copy
        /\ Left(b) = Restored(q)
    BY <1>1, <1>3 DEF Quiet, HoldInv, AloneIsCurrent, Current, Left, Restored
  <1>5. \A r \in Requests : r # q /\ req[r].phase # "unsent" /\ req[r].browser = b => r < q
    BY <1>1, <1>4, NewestIs DEF LogoutInv
  <1>6. q \in Nat /\ s \in Nat /\ \A r \in Requests : r \in Nat
    BY LoginAssumption DEF Requests
  <1>7. Fits(q)
    BY DEF HoldInv, AnswersFit
  <1>8. CASE s = q
    <2>1. req[q].phase = "answered" /\ q \in req[q].out.states
      BY <1>1, <1>3, <1>7, <1>8 DEF SentBy, Fits
    <2>2. session'[b] = req[q].out /\ saved'[b] = req[q].out.states
      BY <1>3, <1>8, <2>1 DEF Receive, RowInv, TypeOK, NoSession, SentBy
    <2> QED BY <1>8, <2>1, <2>2 DEF Held, Left
  <1>9. CASE s # q
    <2>1. req[s].phase = "received" /\ s < q
      <3>1. s \in Requests \ {q}
        BY <1>9
      <3>2. req[s].phase = "received"
        BY <1>1, <3>1 DEF Due
      <3> QED BY <1>3, <1>5, <1>9, <3>2 DEF SentBy
    <2>2. Held(s, b)
      BY <1>3, <2>1 DEF HoldInv, LoginsAreHeld, Due
    <2>3. ASSUME session'[b] = session[b], saved'[b] = saved[b] PROVE Held(s, b)'
      BY <2>1, <2>3, HeldKept DEF HoldInv
    <2>4. CASE req[q].phase = "failed"
      BY <2>3, <2>4 DEF Receive
    <2>5. CASE req[q].phase # "failed" /\ req[q].kind = "login"
      BY <1>3, <1>6, <2>1, <2>5 DEF Overtaken, SentBy
    <2>6. CASE req[q].phase # "failed" /\ req[q].kind = "api"
      <3>1. req[q].phase = "answered" /\ req[q].out = session[b]
        BY <1>1, <1>4, <1>7, <2>6 DEF Fits
      <3>2. session'[b] = session[b] /\ saved'[b] = saved[b]
        BY <2>6, <3>1 DEF Receive, RowInv, TypeOK
      <3> QED BY <2>3, <3>2
    <2>7. CASE req[q].kind = "logout"
      <3>1. req[q].phase = "answered" /\ req[q].out = NoSession
        BY <1>1, <2>7 DEF LogoutInv, LogoutsAreEmpty
      <3>2. session'[b] = NoSession /\ saved'[b] = saved[b]
        <4>1. CASE req[q].cookie = NoSession
          BY <1>4, <2>7, <3>1, <4>1 DEF Receive, RowInv, TypeOK
        <4>2. CASE req[q].cookie # NoSession
          BY <1>4, <2>7, <3>1, <4>2 DEF Receive, RowInv, TypeOK
        <4> QED BY <4>1, <4>2
      <3>3. Left(b)' = saved[b]
        BY <3>2 DEF Left, NoSession
      <3>4. ASSUME NEW d \in Requests, d > s, SentBy(b, d, "callback") PROVE Dropped(s, b)
        <4>1. d # q /\ req[d].phase # "unsent"
          BY <2>7, <3>4, RecordFields DEF SentBy, Unsent
        <4>2. d < q
          BY <1>5, <3>4, <4>1 DEF SentBy
        <4> QED BY <2>7, <3>4, <4>2 DEF Dropped, SentBy
      <3> QED BY <2>2, <3>2, <3>3, <3>4, OvertakenStays DEF Held
    <2>8. CASE req[q].phase # "failed" /\ req[q].kind = "callback"
      <3>1. s # req[q].state
        BY <1>3, <2>8 DEF Overtaken
      <3>2. \E d \in Requests : d > s /\ SentBy(b, d, "callback")
        BY <1>6, <2>1, <2>8 DEF SentBy
      <3>3. CASE Dropped(s, b)
        BY <3>2, <3>3, OvertakenStays DEF Held
      <3>4. CASE ~Dropped(s, b)
        <4>1. s \in req[q].out.states
          BY <1>1, <1>4, <1>7, <2>2, <2>8, <3>1, <3>4 DEF Held, Fits
        <4>2. session'[b] = req[q].out
          BY <2>8, <4>1 DEF Receive, RowInv, TypeOK, NoSession
        <4>3. s \in Left(b)'
          BY <4>1, <4>2 DEF Left
        <4> QED BY <3>2, <4>3, OvertakenStays DEF Held
      <3> QED BY <3>3, <3>4
    <2> QED BY <1>2, <2>4, <2>5, <2>6, <2>7, <2>8 DEF Request
  <1> QED BY <1>8, <1>9

LEMMA HeldStep ==
  ASSUME RowInv, OwnInv, LogoutInv, HoldInv, [Next]_vars
  PROVE  LoginsAreHeld'
  <1> SUFFICES ASSUME NEW s \in Requests, NEW b \in Browsers, Due(s, b)' PROVE Held(s, b)'
    BY DEF LoginsAreHeld
  <1>1. ASSUME req[s].phase = "received", session'[b] = session[b], saved'[b] = saved[b]
        PROVE  Held(s, b)'
    BY <1>1, HeldKept DEF HoldInv
  <1>2. ASSUME NEW a, NEW kind, NEW state, NEW sub, Send(a, kind, state, sub)
        PROVE  Held(s, b)'
    <2>1. s # next
      BY <1>2, SendStays DEF RowInv, Due
    <2>2. req[s].phase = "received"
      BY <1>2, <2>1, SendStays DEF RowInv, Due
    <2> QED BY <1>1, <1>2, <2>2 DEF Send
  <1>3. ASSUME NEW a \in Browsers, SendCallback(a) \/ SendOther(a) PROVE Held(s, b)'
    BY <1>2, <1>3 DEF SendCallback, SendOther
  <1>4. ASSUME NEW q \in Requests, Serves(q) PROVE Held(s, b)'
    <2>1. CASE Receive(q) /\ req[q].browser = b
      BY <2>1, HeldReceive
    <2>2. CASE ~(Receive(q) /\ req[q].browser = b)
      <3>1. session'[b] = session[b] /\ saved'[b] = saved[b]
        BY <1>4, <2>2, CookiesStay DEF RowInv
      <3>2. req'[s].browser = b /\ req'[s].kind = "login" /\ req'[s].phase = "received"
        BY DEF Due, SentBy
      <3>3. req[s].phase = "received"
        <4>1. CASE s # q
          BY <1>4, <3>2, <4>1, OthersStay DEF Serves, RowInv
        <4>2. CASE s = q
          <5>1. req[s].browser = b /\ req[s].kind = "login"
            BY <1>4, <3>2, <4>2, OthersStay DEF Serves, RowInv, SentFields
          <5>2. req[s] \in Request /\ req \in [Requests -> Request]
            BY RecordFields DEF RowInv, TypeOK
          <5>3. Fits(s)
            BY DEF HoldInv, AnswersFit
          <5>4. ~Callback(s) /\ ~LookUp(s) /\ ~Insert(s) /\ ~Rollback(s)
            BY <5>1, <5>3 DEF Callback, LookUp, Insert, Rollback, Fits
          <5>5. ~Answer(s)
            BY <3>2, <5>2 DEF Answer, Reply, Request
          <5> QED BY <1>4, <2>2, <4>2, <5>1, <5>4, <5>5 DEF Serves
        <4> QED BY <4>1, <4>2
      <3> QED BY <1>1, <3>1, <3>3
    <2> QED BY <2>1, <2>2
  <1>5. ASSUME NEW a \in Browsers, Lose(a) PROVE FALSE
    BY <1>5, LossesGrow DEF Lose, Due, Quiet
  <1>6. ASSUME NEW q \in Requests, Commit(q) PROVE Held(s, b)'
    BY <1>1, <1>6 DEF Commit, Due
  <1>7. CASE UNCHANGED vars
    BY <1>1, <1>7 DEF vars, Due
  <1> QED BY <1>3, <1>4, <1>5, <1>6, <1>7 DEF Next, Serves

\* The fields of the request that is sent.
LEMMA SendNew ==
  ASSUME TypeOK, NEW b, NEW kind, NEW state, NEW sub, Send(b, kind, state, sub),
         NEW c \in Requests, c = next
  PROVE  /\ req'[c].browser = b /\ req'[c].kind = kind /\ req'[c].state = state
         /\ req'[c].cookie = session[b] /\ req'[c].copy = saved[b]
         /\ losses' = losses
  <1>1. SentFields(req'[next]) = <<b, kind, state, sub, session[b], saved[b], RowOf(sub) # {}>>
    BY SendStays, Zenon
  <1>2. SentFields(req'[c]) = <<b, kind, state, sub, session[b], saved[b], RowOf(sub) # {}>>
    BY <1>1
  <1>3. losses' = losses
    BY DEF Send
  <1> QED BY <1>2, <1>3 DEF SentFields

\* A callback is sent with its state, if it may not be refused.
LEMMA CallbackSent ==
  ASSUME RowInv, LoginsAreHeld, [Next]_vars, NEW b \in Browsers, NEW s \in Requests,
         NEW sub, Began(s), Send(b, "callback", s, sub), NEW c \in Requests, c = next
  PROVE  MayBeRefused(c)' \/ s \in Restored(c)'
  <1>1. /\ req'[c].browser = b /\ req'[c].state = s
        /\ req'[c].cookie = session[b] /\ req'[c].copy = saved[b]
        /\ losses' = losses
    BY SendNew DEF RowInv
  <1>2. Restored(c)' = Left(b)
    BY <1>1 DEF Restored, Left
  <1> SUFFICES ASSUME ~MayBeRefused(c)' PROVE s \in Left(b)
    BY <1>2
  <1>4. /\ s \in Nat /\ c \in Nat /\ s < c /\ losses \in Nat
        /\ \A r \in Requests : r \in Nat /\ (req[r].phase # "unsent" => r < c)
    <2>1. \A r \in Requests : r \in Nat
      BY LoginAssumption DEF Requests
    <2>2. \A r \in Requests : req[r].phase # "unsent" => r < c
      BY <2>1 DEF RowInv, Numbered
    <2>3. s < c
      BY <2>2 DEF Began
    <2> QED BY <2>1, <2>2, <2>3, LossesGrow
  <1>5. \A r \in Requests : r < c => SentFields(req'[r]) = SentFields(req[r])
    <2> TAKE r \in Requests
    <2> HAVE r < c
    <2>1. r \in Requests \ {next}
      BY <1>4
    <2> QED BY <2>1, SendStays DEF RowInv
  <1>6. /\ ~(losses' > 0) /\ req'[s].browser = b
        /\ \A r \in Requests : req'[r].browser = b => req'[r].alone
        /\ \A r \in Requests : r > s /\ r < c => ~SentBy(b, r, "login")'
        /\ \A d \in Requests : d < c => ~(req'[d].kind = "callback" /\ req'[d].state = s)
        /\ \A d, l \in Requests : s < d /\ d < l /\ l < c =>
             ~(SentBy(b, d, "callback")' /\ SentBy(b, l, "logout")')
    BY <1>1 DEF MayBeRefused
  <1>7. Quiet(b)
    <2>1. \A r \in Requests : req'[r].browser = b => req'[r].alone
      BY <1>6
    <2> QED BY <1>1, <1>4, <1>6, <2>1, QuietWas DEF Quiet
  <1>8. \A r \in Requests : req[r].kind # "api" => r < c
    <2>1. \A r \in Requests : req[r].phase = "unsent" => req[r].kind = "api"
      BY RecordFields DEF Unsent
    <2> QED BY <1>4, <2>1
  <1>9. ~Overtaken(s, b)
    <2>1. ASSUME NEW r \in Requests, r > s, SentBy(b, r, "login") PROVE FALSE
      BY <1>6, <1>8, <2>1, SentByStays DEF SentBy
    <2>2. ASSUME NEW d \in Requests, req[d].kind = "callback", req[d].state = s PROVE FALSE
      BY <1>6, <1>8, <2>2, SentByStays
    <2> QED BY <2>1, <2>2 DEF Overtaken
  <1>10. ~Dropped(s, b)
    <2>1. ASSUME NEW d \in Requests, NEW l \in Requests, s < d, d < l,
                 SentBy(b, d, "callback"), SentBy(b, l, "logout")
          PROVE  FALSE
      <3>1. SentBy(b, d, "callback")' /\ SentBy(b, l, "logout")'
        BY <2>1, SentByStays
      <3>2. l < c
        BY <1>8, <2>1 DEF SentBy
      <3> QED BY <1>6, <2>1, <3>1, <3>2
    <2> QED BY <2>1 DEF Dropped
  <1>11. SentBy(b, s, "login")
    BY <1>4, <1>5, <1>6 DEF Began, SentBy, SentFields
  <1> QED BY <1>7, <1>9, <1>10, <1>11 DEF LoginsAreHeld, Due, Held, Began

LEMMA CallbacksStep ==
  ASSUME RowInv, LoginsAreHeld, CallbacksHold, [Next]_vars
  PROVE  CallbacksHold'
  <1> DEFINE Holds(c) == Began(req[c].state) /\ (MayBeRefused(c) \/ req[c].state \in Restored(c))
  <1> SUFFICES ASSUME NEW c \in Requests, req'[c].kind = "callback" PROVE Holds(c)'
    BY DEF CallbacksHold
  <1>1. ASSUME NEW s, Began(s) PROVE Began(s)'
    BY <1>1, Kept DEF RowInv, Began, SentFields
  <1>2. ASSUME req[c].kind = "callback" PROVE Holds(c)'
    <2>1. Holds(c) /\ req[c].phase # "unsent"
      BY <1>2, RecordFields DEF CallbacksHold, Unsent
    <2>2. req'[c].state = req[c].state /\ Restored(c)' = Restored(c)
      BY <2>1, Kept DEF RowInv, SentFields, Restored
    <2>3. Began(req[c].state)'
      <3>1. PICK s : s = req[c].state
        OBVIOUS
      <3>2. Began(s)'
        BY <1>1, <2>1, <3>1
      <3> QED BY <2>2, <3>1, <3>2 DEF Began
    <2> QED BY <1>2, <2>1, <2>2, <2>3, MayStays
  <1>3. ASSUME req[c].kind # "callback" PROVE Holds(c)'
    <2>1. ASSUME NEW b, NEW kind, NEW state, NEW sub, Send(b, kind, state, sub)
          PROVE  c = next /\ req'[c].kind = kind /\ req'[c].state = state
      <3>1. CASE c = next
        BY <2>1, <3>1, SendNew DEF RowInv
      <3>2. CASE c # next
        <4>1. SentFields(req'[c]) = SentFields(req[c])
          BY <2>1, <3>2, SendStays DEF RowInv
        <4> QED BY <1>3, <4>1 DEF SentFields
      <3> QED BY <3>1, <3>2
    <2>2. ASSUME NEW b \in Browsers, SendCallback(b) PROVE Holds(c)'
      <3>1. PICK s \in Requests, sub \in Subjects \cup {Denied} :
              Began(s) /\ Send(b, "callback", s, sub)
        BY <2>2 DEF SendCallback, Began
      <3>2. c = next /\ req'[c].state = s
        BY <2>1, <3>1
      <3>3. MayBeRefused(c)' \/ s \in Restored(c)'
        BY <3>1, <3>2, CallbackSent
      <3>4. Began(s)'
        BY <1>1, <3>1
      <3> QED BY <3>2, <3>3, <3>4 DEF Began
    <2>3. ASSUME NEW b \in Browsers, SendOther(b) PROVE FALSE
      BY <2>1, <2>3 DEF SendOther
    <2>4. ASSUME NEW q \in Requests, Serves(q) PROVE FALSE
      BY <1>3, <2>4, OthersStay DEF Serves, RowInv, SentFields
    <2> QED BY <1>3, <2>2, <2>3, <2>4 DEF Next, vars, Serves, Lose, Commit
  <1> QED BY <1>2, <1>3

LEMMA CompleteStep ==
  ASSUME RowInv, OwnInv, LogoutInv, HoldInv, [Next]_vars
  PROVE  LoginsComplete'
  <1> SUFFICES ASSUME NEW c \in Requests, req'[c].kind = "callback",
                      req'[c].phase = "refused", req'[c].sub # Denied
               PROVE  MayBeRefused(c)'
    BY DEF LoginsComplete
  <1>1. ASSUME SentFields(req'[c]) = SentFields(req[c]), req[c].phase = "refused"
        PROVE  MayBeRefused(c)'
    <2>1. req[c].kind = "callback" /\ req[c].sub # Denied
      BY <1>1 DEF SentFields
    <2>2. MayBeRefused(c) /\ Began(req[c].state)
      BY <1>1, <2>1 DEF HoldInv, LoginsComplete, CallbacksHold
    <2> QED BY <2>1, <2>2, MayStays
  <1>2. CASE Callback(c)
    <2> DEFINE s == req[c].state
               b == req[c].browser
    <2>1. /\ req[c].kind = "callback" /\ req[c].phase = "sent" /\ req[c].sub # Denied
          /\ Began(s) /\ (MayBeRefused(c) \/ s \in Restored(c))
      BY <1>2, OthersStay DEF Callback, RowInv, SentFields, HoldInv, CallbacksHold
    <2>2. ASSUME s \in Restored(c) PROVE MayBeRefused(c)
      <3>1. <<s, req[c].sub>> \in redeemed
        <4>1. req[c] \in Request /\ req \in [Requests -> Request]
          BY RecordFields DEF RowInv, TypeOK
        <4> QED BY <1>2, <2>1, <2>2, <4>1 DEF Callback, Reply, Request, MayExchange
      <3>2. Spent(s)
        BY <3>1 DEF HoldInv, CodesAreSpent
      <3>3. PICK d \in Requests :
              /\ req[d].kind = "callback" /\ req[d].state = s
              /\ req[d].browser = req[s].browser /\ req[d].phase \notin {"unsent", "sent"}
        BY <3>2 DEF Spent
      <3>4. CASE req[s].browser # b \/ ~req[c].alone
        BY <3>4 DEF MayBeRefused
      <3>5. CASE req[s].browser = b /\ req[c].alone
        <4>1. d < c
          BY <2>1, <3>3, <3>5, NewestIs DEF LogoutInv
        <4> QED BY <3>3, <4>1 DEF MayBeRefused
      <3> QED BY <3>4, <3>5
    <2> QED BY <2>1, <2>2, MayStays
  <1>3. ASSUME NEW b, NEW kind, NEW state, NEW sub, Send(b, kind, state, sub)
        PROVE  MayBeRefused(c)'
    <2>1. c # next
      BY <1>3, SendStays DEF RowInv
    <2> QED BY <1>1, <1>3, <2>1, SendStays DEF RowInv
  <1>4. ASSUME NEW b \in Browsers, SendCallback(b) \/ SendOther(b) PROVE MayBeRefused(c)'
    BY <1>3, <1>4 DEF SendCallback, SendOther
  <1>5. ASSUME NEW q \in Requests, Serves(q), q # c PROVE MayBeRefused(c)'
    BY <1>1, <1>5, OthersStay DEF Serves, RowInv
  <1>6. CASE Serves(c)
    <2>1. /\ SentFields(req'[c]) = SentFields(req[c])
          /\ req[c] \in Request /\ req \in [Requests -> Request]
      BY <1>6, OthersStay, RecordFields DEF Serves, RowInv, TypeOK
    <2>2. ASSUME NEW phase, NEW out, Reply(c, phase, out) PROVE req'[c].phase = phase
      BY <2>1, <2>2 DEF Reply, Request
    <2>3. ~Receive(c) /\ ~Rollback(c)
      BY <2>1 DEF Receive, Rollback, Request
    <2>4. ~Answer(c)
      BY <2>2 DEF Answer
    <2>5. ~LookUp(c)
      BY <2>2 DEF LookUp
    <2>6. ~Insert(c)
      BY <2>1, <2>2 DEF Insert, Request
    <2> QED BY <1>2, <1>6, <2>3, <2>4, <2>5, <2>6 DEF Serves
  <1>7. ASSUME NEW b \in Browsers, Lose(b) PROVE MayBeRefused(c)'
    BY <1>1, <1>7 DEF Lose
  <1>8. ASSUME NEW q \in Requests, Commit(q) PROVE MayBeRefused(c)'
    BY <1>1, <1>8 DEF Commit
  <1>9. CASE UNCHANGED vars
    BY <1>1, <1>9 DEF vars
  <1> QED BY <1>4, <1>5, <1>6, <1>7, <1>8, <1>9 DEF Next, Serves

LEMMA HoldStep ==
  ASSUME RowInv, OwnInv, LogoutInv, HoldInv, [Next]_vars
  PROVE  HoldInv'
  BY HeldStep, CurrentStep, FitStep, SpentStep, CallbacksStep, CompleteStep DEF HoldInv

LEMMA HoldAtFirst == Init => HoldInv
  <1> SUFFICES ASSUME Init PROVE HoldInv
    OBVIOUS
  <1>1. \A r \in Requests : req[r] = Unsent
    BY DEF Init
  <1> QED BY <1>1 DEF HoldInv, LoginsAreHeld, Due, SentBy, AloneIsCurrent, AnswersFit, Fits,
             CodesAreSpent, CallbacksHold, LoginsComplete, Unsent, Init

--------------------------------------------------------------------------------
(***************************************************************************)
(* The theorems.                                                           *)
(***************************************************************************)
\* Rows, cookies and answers under way always fit together: what the requests of
\* auth.py and app.py, in any order, leave in the database and in the browsers
\* satisfies the four parts of the invariant.
THEOREM SessionsAreSound == Spec => [](RowInv /\ OwnInv /\ LogoutInv /\ HoldInv)
  <1>1. Init => RowInv /\ OwnInv /\ LogoutInv /\ HoldInv
    <2> SUFFICES ASSUME Init PROVE OwnInv /\ LogoutInv
      BY RowsAtFirst, HoldAtFirst
    <2>1. \A r \in Requests : req[r] = Unsent
      BY DEF Init
    <2>2. \A b \in Browsers : session[b] = NoSession /\ saved[b] = {}
      BY DEF Init
    <2>3. SessionsAreOwn
      <3>1. NoSession.user = Nobody /\ NoSession.states = {}
        BY DEF NoSession
      <3>2. \A b : CameBack(b, Nobody)
        BY DEF CameBack
      <3> QED BY <2>2, <3>1, <3>2 DEF SessionsAreOwn
    <2> QED BY <2>1, <2>3 DEF OwnInv, KindsFit, RequestsAreOwn, LogoutInv, AloneIsNewest,
               LogoutsAreEmpty, LogoutsEnd, Unsent
  <1>2. RowInv /\ OwnInv /\ LogoutInv /\ HoldInv /\ [Next]_vars
          => (RowInv /\ OwnInv /\ LogoutInv /\ HoldInv)'
    BY RowStep, OwnStep, LogoutStep, HoldStep
  <1> QED BY <1>1, <1>2, PTL DEF Spec

\* The variables keep the types of the cookies, requests and rows.
THEOREM TypeCorrect == Spec => []TypeOK
  <1>1. RowInv => TypeOK
    BY DEF RowInv
  <1> QED BY <1>1, SessionsAreSound, PTL

\* However many first requests of a subject race, one makes its row
\* (get_or_create_user under the unique constraint).
THEOREM UsersStayDistinct == Spec => []UsersAreDistinct
  <1>1. RowInv => UsersAreDistinct
    BY DEF RowInv
  <1> QED BY <1>1, SessionsAreSound, PTL

\* A user who had a row when the request was sent never meets the race of first
\* requests: the query of get_or_create_user finds the row.
THEOREM ReturningUsersAreServed == Spec => []ReturningUsersGetIn
  <1>1. RowInv => ReturningUsersGetIn
    BY DEF RowInv, ReturningFind, ReturningUsersGetIn
  <1> QED BY <1>1, SessionsAreSound, PTL

\* In whatever order the answers of a browser arrive, its session holds a user who
\* came back to it from a login it began (complete_oidc_login compares the state).
THEOREM LoginsStayHome == Spec => []SignedInWhereBegun
  <1>1. RowInv /\ OwnInv => SignedInWhereBegun
    <2> SUFFICES ASSUME RowInv, OwnInv, NEW b \in Browsers, session[b].user # Nobody
                 PROVE  /\ req[session[b].user].row
                        /\ \E c \in Requests : /\ Accepted(c, b)
                                               /\ SubOf(c) = SubOf(session[b].user)
                                               /\ req[c].state \in BegunAt(b)
      BY DEF SignedInWhereBegun
    <2> QED BY DEF OwnInv, SessionsAreOwn, CameBack
  <1> QED BY <1>1, SessionsAreSound, PTL

\* A logout with nothing else under way ends the session for good (logout clears
\* the session, and a later answer carries the cleared one).
THEOREM LogoutsAreFinal == Spec => []LogoutAloneIsFinal
  <1>1. LogoutInv => LogoutAloneIsFinal
    BY DEF LogoutInv, LogoutsEnd, Ended, CameLater, LogoutAloneIsFinal
  <1> QED BY <1>1, SessionsAreSound, PTL

\* A browser that sends one request at a time and loses no cookie is let in by the
\* first callback of its newest login, unless aft_oidc and then the session were
\* dropped in between (restore_oidc_state takes the copy when the session has none).
THEOREM LoginsAreCompleted == Spec => []LoginsComplete
  <1>1. HoldInv => LoginsComplete
    BY DEF HoldInv
  <1> QED BY <1>1, SessionsAreSound, PTL

================================================================================
