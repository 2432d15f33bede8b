--------------------------------- MODULE Login ---------------------------------
(***************************************************************************)
(* Signing in and out: webapp/auth.py with login, auth_callback and logout *)
(* of webapp/app.py, for browsers that have several requests out at once.  *)
(* The session lives in the browser: a request carries the cookies of the  *)
(* time it was sent, and its answer replaces them whenever it arrives.     *)
(*                                                                         *)
(* aft_session holds the user and the states of logins under way, aft_oidc *)
(* a copy of those states for 600 seconds.  External: the provider, which  *)
(* takes a code once, and the session middleware, which answers with the   *)
(* whole session.  FastAPI before 0.118 commits before it answers, later   *)
(* releases after: Commit may come on either side of the answer.           *)
(***************************************************************************)
EXTENDS Naturals

CONSTANTS Browsers, Subjects,
          MaxRequests,  \* requests in all
          MaxLosses     \* cookies lost or expired in all

ASSUME LoginAssumption == MaxRequests \in Nat /\ MaxLosses \in Nat

Requests == 1..MaxRequests  \* in the order they were sent; the number of a login
                            \* is its state, a user's that of the request that
                            \* made the row
Nobody   == 0
Local    == "local"         \* the subject of get_or_create_local_user
Denied   == "denied"        \* the provider sent an error, not a code
Subs     == Subjects \cup {Local, Denied}

VARIABLES
  oidc,     \* oidc_enabled()
  session,  \* aft_session of each browser
  saved,    \* aft_oidc of each browser
  next,     \* the number of the next request
  req,      \* the requests
  rows,     \* the users whose rows are committed
  redeemed, \* the codes the provider has taken: <<state, subject>>
  losses    \* cookies lost so far

vars == <<oidc, session, saved, next, req, rows, redeemed, losses>>

Session   == [user : Requests \cup {Nobody}, states : SUBSET Requests]
NoSession == [user |-> Nobody, states |-> {}]

\* alone: no other request of the browser is out while this one is.  known: the
\* subject had a row when it was sent.  row: its own, written and not rolled back.
Unsent == [browser |-> Nobody, kind |-> "api", state |-> Nobody,
           sub |-> Local, cookie |-> NoSession, copy |-> {}, alone |-> TRUE,
           known |-> FALSE, phase |-> "unsent", row |-> FALSE, out |-> NoSession]

Init ==
  /\ oidc \in BOOLEAN
  /\ session = [b \in Browsers |-> NoSession]
  /\ saved = [b \in Browsers |-> {}]
  /\ next = 1
  /\ req = [r \in Requests |-> Unsent]
  /\ rows = {}
  /\ redeemed = {}
  /\ losses = 0

SubOf(u) == req[u].sub
RowOf(sub) == {u \in rows : SubOf(u) = sub}
Pending(sub) == {u \in Requests : req[u].row /\ SubOf(u) = sub /\ u \notin rows}
OutOf(b) == {r \in Requests : req[r].browser = b /\ req[r].phase \notin {"unsent", "received"}}

--------------------------------------------------------------------------------
(***************************************************************************)
(* The browser.                                                            *)
(***************************************************************************)
Send(b, kind, state, sub) ==
  /\ next \in Requests
  /\ next' = next + 1
  /\ req' = [r \in Requests |->
       IF r = next
       THEN [Unsent EXCEPT !.browser = b, !.kind = kind, !.state = state, !.sub = sub,
                           !.cookie = session[b], !.copy = saved[b],
                           !.alone = OutOf(b) = {}, !.known = RowOf(sub) # {},
                           !.phase = "sent"]
       ELSE [req[r] EXCEPT !.alone = @ /\ r \notin OutOf(b)]]
  /\ UNCHANGED <<oidc, session, saved, rows, redeemed, losses>>

\* The provider sends the browser back with a code or an error; the link may be
\* opened again, and in another browser.
SendCallback(b) ==
  /\ oidc
  /\ \E s \in Requests, sub \in Subjects \cup {Denied} :
       /\ req[s].kind = "login" /\ req[s].phase = "received"
       /\ Send(b, "callback", s, sub)

SendOther(b) ==
  \E kind \in {"login", "logout", "api"} :
    /\ kind = "login" => oidc
    /\ Send(b, kind, Nobody, Local)

\* An answer sets both cookies; an exception nobody handles sets none.  The
\* middleware leaves aft_session alone if the session was and is empty.
Receive(r) ==
  LET b == req[r].browser
  IN
  /\ req[r].phase \in {"answered", "refused", "failed"}
  /\ req' = [req EXCEPT ![r].phase = "received"]
  /\ session' = IF req[r].phase = "failed" \/ {req[r].out, req[r].cookie} = {NoSession}
                THEN session ELSE [session EXCEPT ![b] = req[r].out]
  /\ saved' = IF req[r].phase # "answered" THEN saved
              ELSE IF req[r].kind = "login" THEN [saved EXCEPT ![b] = req[r].out.states]
              ELSE IF req[r].kind = "callback" THEN [saved EXCEPT ![b] = {}] ELSE saved
  /\ UNCHANGED <<oidc, next, rows, redeemed, losses>>

\* The session ends, or the copy of the states expires.
Lose(b) ==
  /\ losses < MaxLosses
  /\ losses' = losses + 1
  /\ \/ session' = [session EXCEPT ![b] = NoSession] /\ UNCHANGED saved
     \/ saved' = [saved EXCEPT ![b] = {}] /\ UNCHANGED session
  /\ UNCHANGED <<oidc, next, req, rows, redeemed>>

--------------------------------------------------------------------------------
(***************************************************************************)
(* The server.                                                             *)
(***************************************************************************)
Reply(r, phase, out) ==
  /\ req' = [req EXCEPT ![r].phase = phase, ![r].out = out]
  /\ UNCHANGED <<oidc, session, saved, next, rows, losses>>

\* Fault: the copy of the states is not looked at.
FromSession(r) == req[r].cookie.states

Restored(r) == IF req[r].cookie.states # {} THEN req[r].cookie.states ELSE req[r].copy

\* Fault: only the states are removed.
AfterLogoutOfStates(r) == [req[r].cookie EXCEPT !.states = {}]

AfterLogout(r) == NoSession

\* login, logout, and any other request when sign-in is configured.
Answer(r) ==
  /\ req[r].phase = "sent"
  /\ UNCHANGED redeemed
  /\ \/ req[r].kind = "login" /\ Reply(r, "answered", [req[r].cookie EXCEPT !.states = @ \cup {r}])
     \/ req[r].kind = "logout" /\ Reply(r, "answered", AfterLogout(r))
     \/ req[r].kind = "api" /\ oidc /\ Reply(r, "answered", req[r].cookie)

\* Fault: the state is not compared.
MayExchangeAny(r) == TRUE

MayExchange(r) == req[r].state \in Restored(r)

\* complete_oidc_login.  The state is used up before the code is exchanged.
Callback(r) ==
  LET code == <<req[r].state, req[r].sub>>
      with == [req[r].cookie EXCEPT !.states = Restored(r)]
      without == [with EXCEPT !.states = @ \ {req[r].state}]
  IN
  /\ req[r].phase = "sent" /\ req[r].kind = "callback"
  /\ IF req[r].sub = Denied \/ ~MayExchange(r)
     THEN Reply(r, "refused", with) /\ UNCHANGED redeemed
     ELSE IF code \in redeemed
     THEN Reply(r, "refused", without) /\ UNCHANGED redeemed
     ELSE Reply(r, "exchanged", without) /\ redeemed' = redeemed \cup {code}

Entered(r, u) ==
  IF req[r].kind = "callback" THEN [req[r].out EXCEPT !.user = u] ELSE req[r].cookie

\* Fault: the query asks for a key no row has.
FoundByNewKey(r) == {}

Found(r) == RowOf(req[r].sub)

\* get_or_create_user: the query, and the write when it found nothing.
LookUp(r) ==
  /\ \/ req[r].phase = "exchanged"
     \/ req[r].phase = "sent" /\ req[r].kind = "api" /\ ~oidc
  /\ UNCHANGED redeemed
  /\ IF Found(r) = {} THEN Reply(r, "missing", req[r].out)
     ELSE \E u \in Found(r) : Reply(r, "answered", Entered(r, u))

\* Fault: the table has no unique constraint.
RefusesNone(r) == FALSE

Refuses(r) == RowOf(req[r].sub) # {} \/ Pending(req[r].sub) # {}

\* The flush waits for another transaction with the same key; it fails when that
\* commits, and when it has waited too long.
Insert(r) ==
  /\ req[r].phase = "missing"
  /\ IF Refuses(r) THEN Reply(r, "failed", NoSession)
     ELSE /\ req' = [req EXCEPT ![r].phase = "answered", ![r].row = TRUE,
                                ![r].out = Entered(r, r)]
          /\ UNCHANGED <<oidc, session, saved, next, rows, losses>>
  /\ UNCHANGED redeemed

\* get_db, when the handler is done, or has raised: only requests other than a
\* callback do anything after the flush that may raise.
Commit(r) ==
  /\ req[r].row /\ r \notin rows
  /\ rows' = rows \cup {r}
  /\ UNCHANGED <<oidc, session, saved, next, req, redeemed, losses>>

Rollback(r) ==
  /\ req[r].row /\ r \notin rows /\ req[r].kind = "api" /\ req[r].phase = "answered"
  /\ req' = [req EXCEPT ![r].row = FALSE]
  /\ UNCHANGED <<oidc, session, saved, next, rows, redeemed, losses>>

Next ==
  \/ \E b \in Browsers : SendCallback(b) \/ SendOther(b) \/ Lose(b)
  \/ \E r \in Requests : Receive(r) \/ Answer(r) \/ Callback(r) \/ LookUp(r) \/ Insert(r)
                         \/ Commit(r) \/ Rollback(r)

Spec == Init /\ [][Next]_vars

--------------------------------------------------------------------------------
(***************************************************************************)
(* Properties.                                                             *)
(***************************************************************************)
Request ==
  [browser : Browsers \cup {Nobody}, kind : {"login", "callback", "logout", "api"},
   state : Requests \cup {Nobody}, sub : Subs, cookie : Session,
   copy : SUBSET Requests, alone : BOOLEAN, known : BOOLEAN,
   phase : {"unsent", "sent", "exchanged", "missing", "answered", "refused",
            "failed", "received"},
   row : BOOLEAN, out : Session]

\* The variables have the types of the cookies, requests and rows.
TypeOK ==
  /\ oidc \in BOOLEAN
  /\ session \in [Browsers -> Session]
  /\ saved \in [Browsers -> SUBSET Requests]
  /\ next \in 1..(MaxRequests + 1)
  /\ req \in [Requests -> Request]
  /\ rows \subseteq Requests
  /\ redeemed \subseteq Requests \X Subs
  /\ losses \in 0..MaxLosses

\* Two first requests of one subject that both find no row do not both make one,
\* committed or not (get_or_create_user looks first and writes later).
UsersAreDistinct ==
  \A u, v \in Requests :
    u # v /\ req[u].row /\ req[v].row => SubOf(u) # SubOf(v)

Accepted(c, b) ==
  req[c].kind = "callback" /\ req[c].browser = b /\ req[c].phase = "received"
BegunAt(b) == {s \in Requests : req[s].kind = "login" /\ req[s].browser = b}

\* The user of a browser's session has a row, or one about to be committed, and
\* came back to this browser from a login that this browser began.
SignedInWhereBegun ==
  \A b \in Browsers :
    LET u == session[b].user
    IN  u # Nobody =>
          /\ req[u].row
          /\ \E c \in Requests : /\ Accepted(c, b) /\ SubOf(c) = SubOf(u)
                                 /\ req[c].state \in BegunAt(b)

\* A logout whose answer came while no other request of the browser was out ends
\* the session until a later callback starts another.  (A request that was out
\* at the time brings the old session back: it carries the whole of it.)
LogoutAloneIsFinal ==
  \A l \in Requests :
    LET b == req[l].browser
    IN  req[l].kind = "logout" /\ req[l].phase = "received" /\ req[l].alone
          /\ session[b].user # Nobody
        => \E c \in Requests : c > l /\ Accepted(c, b)

SentBy(b, r, kind) == req[r].kind = kind /\ req[r].browser = b

\* Why the callback c may find that its state is not, or no longer, held.
MayBeRefused(c) ==
  LET b == req[c].browser
      s == req[c].state
  IN  \/ losses > 0
      \/ req[s].browser # b
      \/ \E r \in Requests : req[r].browser = b /\ ~req[r].alone
      \/ \E r \in Requests : r > s /\ r < c /\ SentBy(b, r, "login")
      \/ \E d \in Requests : d < c /\ req[d].kind = "callback" /\ req[d].state = s
      \/ \E d, l \in Requests : /\ s < d /\ d < l /\ l < c
                                 /\ SentBy(b, d, "callback") /\ SentBy(b, l, "logout")

\* A browser that sends one request at a time and loses no cookie is let in by
\* the first callback of its newest login, after a logout in between too: then
\* aft_oidc alone has the state, unless the callback of an older login has
\* dropped that copy before the logout.
LoginsComplete ==
  \A c \in Requests :
    req[c].kind = "callback" /\ req[c].phase = "refused" /\ req[c].sub # Denied
      => MayBeRefused(c)

\* Who had a row when the request was sent is not refused for being written a
\* second time: only first requests that race fail.
ReturningUsersGetIn ==
  \A r \in Requests : req[r].known => req[r].phase # "failed" /\ ~req[r].row
================================================================================
