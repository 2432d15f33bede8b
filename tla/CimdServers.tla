------------------------------ MODULE CimdServers ------------------------------
(***************************************************************************)
(* The client metadata servers of tools/oauth_helpers.py (_CIMD_SERVERS    *)
(* and _CIMD_URLS, under _CIMD_LOCK) and the web requests that use them:   *)
(* test_step, preview_step and test_sequence start servers through the     *)
(* prepare action cimd_metadata and stop every server in their `finally';  *)
(* start_run only stops them.  Starting is one action: it holds the lock   *)
(* throughout.  Stopping is not: it empties the registry under the lock    *)
(* and shuts the servers down, one by one, after releasing it.             *)
(*                                                                         *)
(* Servers are numbered in the order they were bound.                      *)
(***************************************************************************)
EXTENDS Naturals, Sequences, FiniteSets, Functions

CONSTANTS Requests,    \* web requests in progress
          Ports,       \* ports
          Asks         \* for each request, the ports its steps ask for

ASSUME AsksAssumption == Asks \subseteq [Requests -> Seq(Ports)]

VARIABLES
  wanted,    \* what each request asks for
  foreign,   \* ports held by other programs
  step,      \* position of each request in what it asks for
  phase,     \* "new", "steps", "closing" or "done"
  servers,   \* every server ever bound: its port and the request it serves
  open,      \* servers that still listen
  registry,  \* port -> server, 0 when there is none
  url,       \* the server whose URL each request was given last
  toClose,   \* servers a stopping request has still to shut down
  alone      \* history: requests that never ran beside another one

serverVars == <<wanted, foreign, step, phase, servers, open, registry, url, toClose, alone>>

Active(r) == phase[r] \in {"steps", "closing"}
BoundBy(p) == {s \in open : servers[s].port = p}
Free(p) == p \notin foreign /\ BoundBy(p) = {}
Registered == {registry[p] : p \in Ports} \ {0}

ServersInit ==
  /\ wanted \in Asks
  /\ foreign \in SUBSET Ports
  /\ step = [r \in Requests |-> 1]
  /\ phase = [r \in Requests |-> "new"]
  /\ servers = <<>>
  /\ open = {}
  /\ registry = [p \in Ports |-> 0]
  /\ url = [r \in Requests |-> 0]
  /\ toClose = [r \in Requests |-> {}]
  /\ alone = Requests

Begin(r) ==
  /\ phase[r] = "new"
  /\ phase' = [phase EXCEPT ![r] = "steps"]
  /\ alone' = IF \E q \in Requests \ {r} : Active(q)
              THEN {q \in alone \ {r} : ~Active(q)} ELSE alone
  /\ UNCHANGED <<wanted, foreign, step, servers, open, registry, url, toClose>>

Wanted(r) == wanted[r][step[r]]

\* A server is registered for that port: reuse it, with the metadata it has.
Reuse(r) ==
  /\ phase[r] = "steps"
  /\ step[r] <= Len(wanted[r])
  /\ registry[Wanted(r)] # 0
  /\ url' = [url EXCEPT ![r] = registry[Wanted(r)]]
  /\ step' = [step EXCEPT ![r] = @ + 1]
  /\ UNCHANGED <<wanted, foreign, phase, servers, open, registry, toClose, alone>>

\* Bind the requested port, or any free one when it is busy.
Bind(r) ==
  /\ phase[r] = "steps"
  /\ step[r] <= Len(wanted[r])
  /\ registry[Wanted(r)] = 0
  /\ \E q \in Ports :
       /\ Free(q)
       /\ Free(Wanted(r)) => q = Wanted(r)
       /\ LET s == Len(servers) + 1 IN
            /\ servers' = Append(servers, [port |-> q, for |-> r])
            /\ open' = open \cup {s}
            /\ registry' = [p \in Ports |->
                              IF p \in {Wanted(r), q} THEN s ELSE registry[p]]
            /\ url' = [url EXCEPT ![r] = s]
  /\ step' = [step EXCEPT ![r] = @ + 1]
  /\ UNCHANGED <<wanted, foreign, phase, toClose, alone>>

\* Fault: a request stops its own servers only, but empties the registry.
StopsItsOwn(r) == {registry[p] : p \in Range(wanted[r])} \ {0}

\* What stop_cimd_metadata_servers takes out of the registry ...
ToStop(r) == Registered

\* Fault: servers are shut down but stay registered.
StillRegistered == registry

\* ... and what it leaves there.
Cleared == [p \in Ports |-> 0]

\* The steps are over (all of them, or one failed): `finally' stops whatever
\* is registered, for whomever.
Stop(r) ==
  /\ phase[r] = "steps"
  /\ toClose' = [toClose EXCEPT ![r] = ToStop(r)]
  /\ registry' = Cleared
  /\ phase' = [phase EXCEPT ![r] = "closing"]
  /\ UNCHANGED <<wanted, foreign, step, servers, open, url, alone>>

Close(r) ==
  /\ phase[r] = "closing"
  /\ \E s \in toClose[r] :
       /\ open' = open \ {s}
       /\ toClose' = [toClose EXCEPT ![r] = @ \ {s}]
  /\ UNCHANGED <<wanted, foreign, step, phase, servers, registry, url, alone>>

Finish(r) ==
  /\ phase[r] = "closing"
  /\ toClose[r] = {}
  /\ phase' = [phase EXCEPT ![r] = "done"]
  /\ UNCHANGED <<wanted, foreign, step, servers, open, registry, url, toClose, alone>>

\* Another program takes or releases a port.
Foreign ==
  /\ \E p \in Ports : \/ Free(p) /\ foreign' = foreign \cup {p}
                      \/ p \in foreign /\ foreign' = foreign \ {p}
  /\ UNCHANGED <<wanted, step, phase, servers, open, registry, url, toClose, alone>>

RequestStep(r) ==
  Begin(r) \/ Reuse(r) \/ Bind(r) \/ Stop(r) \/ Close(r) \/ Finish(r)

ServersNext == (\E r \in Requests : RequestStep(r)) \/ Foreign

\* Every request is carried through: its steps have timeouts.
ServersSpec ==
  /\ ServersInit
  /\ [][ServersNext]_serverVars
  /\ \A r \in Requests : WF_serverVars(Stop(r)) /\ WF_serverVars(Close(r)) /\ WF_serverVars(Finish(r))

--------------------------------------------------------------------------------
(***************************************************************************)
(* Properties.                                                             *)
(***************************************************************************)
\* No server is ever lost: whichever requests start and stop servers at the
\* same time, a server that listens is registered, or some request is about
\* to shut it down.
NoServerIsLost ==
  open \subseteq Registered \cup UNION {toClose[r] : r \in Requests}

\* A registered server is live, so reusing it gives the URL of a live server,
\* and no two servers listen on one port.
RegisteredServersAreLive ==
  /\ Registered \subseteq open
  /\ \A s, t \in open : servers[s].port = servers[t].port => s = t

\* A request that never ran beside another one finds the server it was given
\* live until it stops it, and serving its own metadata, whatever is left of
\* earlier requests.
AloneIsServed ==
  \A r \in alone : phase[r] = "steps" /\ url[r] # 0 =>
    url[r] \in open /\ servers[url[r]].for = r

\* Whatever requests start and stop, in the end no server listens any more.
AllServersClose == <>[](open = {})
================================================================================
