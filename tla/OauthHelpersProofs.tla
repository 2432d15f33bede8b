--------------------------- MODULE OauthHelpersProofs ---------------------------
(***************************************************************************)
(* Safety of the two stores of tools/oauth_helpers.py: DpopKeys for every  *)
(* number of clients, every set of names and all proper flows, and         *)
(* CimdServers for every number of requests, every set of ports and        *)
(* whatever metadata servers the requests ask for.                         *)
(***************************************************************************)
EXTENDS DpopKeys, CimdServers, SequenceTheorems, TLAPS

(***************************************************************************)
(* The metadata servers: the inductive invariant, by parts.                *)
(***************************************************************************)
Server == [port : Ports, for : Requests]

\* Type invariant: the values every variable ranges over.
ServersTyped ==
  /\ wanted \in [Requests -> Seq(Ports)]
  /\ foreign \in SUBSET Ports
  /\ step \in [Requests -> Nat \ {0}]
  /\ phase \in [Requests -> {"new", "steps", "closing", "done"}]
  /\ servers \in Seq(Server)
  /\ open \in SUBSET (1..Len(servers))
  /\ registry \in [Ports -> 0..Len(servers)]
  /\ url \in [Requests -> Nat]
  /\ toClose \in [Requests -> SUBSET (1..Len(servers))]
  /\ alone \in SUBSET Requests

\* Every server that listens is registered at the port it is bound to, even
\* when it was asked for at another, or is about to be shut down.
OpenInv ==
  \A s \in open : registry[servers[s].port] = s \/ \E r \in Requests : s \in toClose[r]

\* A server that is registered anywhere listens, is registered at its own
\* port too, and nobody is about to shut it down.
RegistryInv ==
  \A p \in Ports : registry[p] # 0 =>
    /\ registry[p] \in open
    /\ registry[servers[registry[p]].port] = registry[p]
    /\ \A r \in Requests : registry[p] \notin toClose[r]

\* Two servers never listen on one port.
PortInv == \A s, t \in open : servers[s].port = servers[t].port => s = t

\* Only a request that has emptied the registry has servers to shut down, and
\* when no request is at its steps nothing is registered.
PhaseInv ==
  /\ \A r \in Requests : phase[r] # "closing" => toClose[r] = {}
  /\ (\A r \in Requests : phase[r] # "steps") => \A p \in Ports : registry[p] = 0
  /\ \A r \in Requests : phase[r] = "new" => url[r] = 0

\* What is registered beside a request that is alone is its own.
AloneInv ==
  \A r \in alone :
    /\ Active(r) => \A q \in Requests \ {r} : ~Active(q)
    /\ phase[r] = "steps" =>
         /\ \A p \in Ports : registry[p] # 0 => servers[registry[p]].for = r
         /\ url[r] # 0 => \E p \in Ports : registry[p] = url[r]

ServersInv == ServersTyped /\ OpenInv /\ RegistryInv /\ PortInv /\ PhaseInv /\ AloneInv

--------------------------------------------------------------------------------
LEMMA ServersStart == ServersInit => ServersInv
<1> SUFFICES ASSUME ServersInit PROVE ServersInv
  OBVIOUS
<1> USE AsksAssumption DEF ServersInit
<1>1. ServersTyped
  <2>1. servers \in Seq(Server) /\ Len(servers) = 0
    OBVIOUS
  <2> QED
    BY <2>1 DEF ServersTyped
<1>2. OpenInv /\ RegistryInv /\ PortInv /\ PhaseInv
  BY DEF OpenInv, RegistryInv, PortInv, PhaseInv
<1>3. AloneInv
  BY DEF AloneInv, Active
<1> QED
  BY <1>1, <1>2, <1>3 DEF ServersInv

\* Binding a server leaves those there are as they were.
LEMMA BoundServers ==
  ASSUME ServersTyped, NEW r \in Requests, NEW q \in Ports,
         servers' = Append(servers, [port |-> q, for |-> r])
  PROVE  /\ Len(servers) \in Nat
         /\ Len(servers') = Len(servers) + 1
         /\ servers' \in Seq(Server)
         /\ \A s \in 1..Len(servers) : servers'[s] = servers[s]
         /\ servers'[Len(servers) + 1].port = q
         /\ servers'[Len(servers) + 1].for = r
<1>1. servers \in Seq(Server) /\ [port |-> q, for |-> r] \in Server
  BY DEF ServersTyped, Server
<1> QED
  BY <1>1, AppendProperties

LEMMA BeginKeeps == ASSUME ServersInv, NEW r \in Requests, Begin(r) PROVE ServersInv'
<1> USE DEF ServersInv
<1>0. /\ phase[r] = "new" /\ phase' = [phase EXCEPT ![r] = "steps"]
      /\ UNCHANGED <<wanted, foreign, step, servers, open, registry, url, toClose>>
      /\ alone' \subseteq alone
  BY DEF Begin
<1>1. ServersTyped'
  BY <1>0 DEF ServersTyped
<1>2. OpenInv' /\ RegistryInv' /\ PortInv'
  BY <1>0 DEF OpenInv, RegistryInv, PortInv
<1>3. PhaseInv'
  BY <1>0 DEF PhaseInv, ServersTyped
<1>4. AloneInv'
  <2>1. CASE \E q \in Requests \ {r} : Active(q)
    <3>1. alone' = {q \in alone \ {r} : ~Active(q)}
      BY <2>1 DEF Begin
    <3>2. \A q \in alone' : q # r /\ ~Active(q) /\ q \in Requests
      BY <3>1 DEF ServersTyped
    <3>3. \A q \in Requests \ {r} : phase'[q] = phase[q]
      BY <1>0 DEF ServersTyped
    <3> QED
      BY <3>2, <3>3 DEF AloneInv, Active
  <2>2. CASE \A q \in Requests \ {r} : ~Active(q)
    <3>1. alone' = alone
      BY <2>2 DEF Begin
    <3>2. \A q \in Requests : phase[q] # "steps"
      BY <1>0, <2>2 DEF Active
    <3>3. \A p \in Ports : registry[p] = 0
      BY <3>2 DEF PhaseInv
    <3>4. url[r] = 0
      BY <1>0 DEF PhaseInv
    <3>5. \A q \in Requests \ {r} : ~Active(q)'
      BY <1>0, <2>2 DEF Active, ServersTyped
    <3>6. ASSUME NEW q \in alone', phase'[q] = "steps" PROVE q = r
      BY <3>5, <3>6, <3>1 DEF Active, ServersTyped
    <3> QED
      BY <1>0, <3>1, <3>3, <3>4, <3>5, <3>6 DEF AloneInv, ServersTyped
  <2> QED
    BY <2>1, <2>2
<1> QED
  BY <1>1, <1>2, <1>3, <1>4

LEMMA ReuseKeeps == ASSUME ServersInv, NEW r \in Requests, Reuse(r) PROVE ServersInv'
<1> USE DEF ServersInv
<1>0. /\ phase[r] = "steps" /\ Wanted(r) \in Ports /\ registry[Wanted(r)] # 0
      /\ url' = [url EXCEPT ![r] = registry[Wanted(r)]]
      /\ step' = [step EXCEPT ![r] = step[r] + 1]
      /\ UNCHANGED <<wanted, foreign, phase, servers, open, registry, toClose, alone>>
  BY DEF Reuse, Wanted, ServersTyped
<1>1. ServersTyped'
  <2>1. registry[Wanted(r)] \in Nat /\ step[r] + 1 \in Nat \ {0}
    BY <1>0 DEF ServersTyped
  <2> QED
    BY <1>0, <2>1 DEF ServersTyped
<1>2. OpenInv' /\ RegistryInv' /\ PortInv'
  BY <1>0 DEF OpenInv, RegistryInv, PortInv
<1>3. PhaseInv'
  BY <1>0 DEF PhaseInv, ServersTyped
<1>4. AloneInv'
  BY <1>0 DEF AloneInv, Active, ServersTyped
<1> QED
  BY <1>1, <1>2, <1>3, <1>4

LEMMA BindKeeps == ASSUME ServersInv, NEW r \in Requests, Bind(r) PROVE ServersInv'
<1> USE DEF ServersInv
<1> DEFINE n == Len(servers) + 1
<1> DEFINE w == Wanted(r)
<1>1. PICK q \in Ports :
        /\ Free(q)
        /\ servers' = Append(servers, [port |-> q, for |-> r])
        /\ open' = open \cup {n}
        /\ registry' = [p \in Ports |-> IF p \in {w, q} THEN n ELSE registry[p]]
        /\ url' = [url EXCEPT ![r] = n]
  BY DEF Bind
<1>2. /\ phase[r] = "steps" /\ w \in Ports /\ registry[w] = 0
      /\ step' = [step EXCEPT ![r] = step[r] + 1]
      /\ UNCHANGED <<wanted, foreign, phase, toClose, alone>>
  BY DEF Bind, Wanted, ServersTyped
<1>3. /\ n \in Nat \ {0} /\ Len(servers') = n
      /\ servers' \in Seq(Server)
      /\ \A s \in 1..Len(servers) : servers'[s] = servers[s] /\ s # n
      /\ servers'[n].port = q /\ servers'[n].for = r
  BY <1>1, BoundServers
<1>4. n \notin open /\ \A x \in Requests : n \notin toClose[x]
  BY <1>3 DEF ServersTyped
<1>5. \A s \in open : s \in 1..Len(servers) /\ servers[s].port # q
  BY <1>1 DEF Free, BoundBy, ServersTyped
<1>6. registry'[q] = n /\ registry'[w] = n
  BY <1>1, <1>2
<1>7. \A p \in Ports \ {w, q} : registry'[p] = registry[p]
  BY <1>1
<1> HIDE DEF n, w
<1>8. ServersTyped'
  <2>1. 1..Len(servers) \subseteq 1..n /\ n \in 1..n /\ 0..Len(servers) \subseteq 0..n
    BY <1>3 DEF n, ServersTyped
  <2>2. open' \in SUBSET (1..n)
    BY <1>1, <2>1 DEF ServersTyped
  <2>3. registry' \in [Ports -> 0..n]
    BY <1>1, <2>1 DEF ServersTyped
  <2>4. toClose' \in [Requests -> SUBSET (1..n)]
    BY <1>2, <2>1 DEF ServersTyped
  <2>5. url' \in [Requests -> Nat] /\ step' \in [Requests -> Nat \ {0}]
    <3>1. step[r] + 1 \in Nat \ {0}
      BY DEF ServersTyped
    <3> QED
      BY <1>1, <1>2, <1>3, <3>1 DEF ServersTyped
  <2> QED
    BY <1>2, <1>3, <2>2, <2>3, <2>4, <2>5 DEF ServersTyped
<1>9. \A s \in open : /\ servers'[s] = servers[s] /\ servers[s].port \in Ports \ {q}
                      /\ registry[servers[s].port] = s => servers[s].port \in Ports \ {w, q}
  <2> SUFFICES ASSUME NEW s \in open
               PROVE  /\ servers'[s] = servers[s] /\ servers[s].port \in Ports \ {q}
                      /\ registry[servers[s].port] = s => servers[s].port # w
    OBVIOUS
  <2>1. servers[s] \in Server /\ s \in 1..Len(servers)
    BY <1>5 DEF ServersTyped
  <2>2. s # 0
    BY <2>1
  <2> QED
    BY <1>2, <1>3, <1>5, <2>1, <2>2 DEF Server
<1>10. OpenInv'
  <2>1. ASSUME NEW s \in open
        PROVE  registry'[servers'[s].port] = s \/ \E x \in Requests : s \in toClose'[x]
    BY <1>2, <1>7, <1>9, <2>1 DEF OpenInv
  <2>2. registry'[servers'[n].port] = n
    BY <1>3, <1>6
  <2> QED
    BY <1>1, <2>1, <2>2 DEF OpenInv
<1>11. RegistryInv'
  <2> SUFFICES ASSUME NEW p \in Ports, registry'[p] # 0
               PROVE  /\ registry'[p] \in open'
                      /\ registry'[servers'[registry'[p]].port] = registry'[p]
                      /\ \A x \in Requests : registry'[p] \notin toClose'[x]
    BY DEF RegistryInv
  <2>1. CASE p \in {w, q}
    BY <1>1, <1>2, <1>3, <1>4, <1>6, <2>1
  <2>2. CASE p \in Ports \ {w, q}
    <3>1. registry'[p] = registry[p] /\ registry[p] \in open
      BY <1>7, <2>2 DEF RegistryInv
    <3>2. registry[servers[registry[p]].port] = registry[p]
      BY <2>2, <3>1 DEF RegistryInv
    <3>3. registry'[servers'[registry'[p]].port] = registry'[p]
      BY <1>7, <1>9, <3>1, <3>2
    <3> QED
      BY <1>1, <1>2, <3>1, <3>3, <2>2 DEF RegistryInv
  <2> QED
    BY <2>1, <2>2
<1>12. PortInv'
  BY <1>1, <1>3, <1>5, <1>9 DEF PortInv
<1>13. PhaseInv'
  <2>1. \A x \in Requests : phase[x] = "new" => url'[x] = url[x]
    BY <1>1, <1>2 DEF ServersTyped
  <2> QED
    BY <1>2, <2>1 DEF PhaseInv
<1>14. AloneInv'
  <2> SUFFICES ASSUME NEW x \in alone
               PROVE  /\ Active(x) => \A y \in Requests \ {x} : ~Active(y)
                      /\ phase[x] = "steps" =>
                           /\ \A p \in Ports : registry'[p] # 0 => servers'[registry'[p]].for = x
                           /\ url'[x] # 0 => \E p \in Ports : registry'[p] = url'[x]
    BY <1>2 DEF AloneInv, Active
  <2>1. Active(x) => \A y \in Requests \ {x} : ~Active(y)
    BY DEF AloneInv
  <2>2. ASSUME phase[x] = "steps"
        PROVE  /\ \A p \in Ports : registry'[p] # 0 => servers'[registry'[p]].for = x
               /\ url'[x] # 0 => \E p \in Ports : registry'[p] = url'[x]
    <3>1. x = r
      BY <1>2, <2>1, <2>2 DEF Active, ServersTyped
    <3>2. url'[r] = n
      BY <1>1 DEF ServersTyped
    <3>3. \A p \in Ports \ {w, q} : registry[p] # 0 =>
            registry[p] \in open /\ servers[registry[p]].for = x
      BY <2>2 DEF AloneInv, RegistryInv
    <3>4. ASSUME NEW p \in Ports, registry'[p] # 0 PROVE servers'[registry'[p]].for = x
      BY <1>3, <1>6, <1>7, <1>9, <3>1, <3>3, <3>4
    <3> QED
      BY <1>6, <3>1, <3>2, <3>4
  <2> QED
    BY <2>1, <2>2
<1> QED
  BY <1>8, <1>10, <1>11, <1>12, <1>13, <1>14

LEMMA StopKeeps == ASSUME ServersInv, NEW r \in Requests, Stop(r) PROVE ServersInv'
<1> USE DEF ServersInv
<1>1. /\ phase[r] = "steps" /\ phase' = [phase EXCEPT ![r] = "closing"]
      /\ toClose' = [toClose EXCEPT ![r] = Registered]
      /\ \A p \in Ports : registry'[p] = 0
      /\ UNCHANGED <<wanted, foreign, step, servers, open, url, alone>>
  BY DEF Stop, ToStop, Cleared
<1>2. toClose[r] = {}
  BY <1>1 DEF PhaseInv
<1>3. Registered \subseteq open
  BY DEF Registered, RegistryInv
<1>4. /\ toClose'[r] = Registered
      /\ \A q \in Requests \ {r} : toClose'[q] = toClose[q] /\ phase'[q] = phase[q]
      /\ phase'[r] = "closing"
  BY <1>1 DEF ServersTyped
<1>5. ServersTyped'
  <2>1. Registered \in SUBSET (1..Len(servers))
    BY <1>3 DEF ServersTyped
  <2>2. registry' \in [Ports -> 0..Len(servers)]
    <3>1. registry' = [p \in Ports |-> 0] /\ 0 \in 0..Len(servers)
      BY DEF Stop, Cleared, ServersTyped
    <3> QED
      BY <3>1
  <2> QED
    BY <1>1, <2>1, <2>2 DEF ServersTyped
<1>6. OpenInv'
  <2> SUFFICES ASSUME NEW s \in open PROVE \E q \in Requests : s \in toClose'[q]
    BY <1>1 DEF OpenInv
  <2>1. CASE registry[servers[s].port] = s
    <3>1. servers[s] \in Server /\ s # 0
      BY DEF ServersTyped
    <3>2. s \in Registered
      BY <2>1, <3>1 DEF Registered, Server
    <3> QED
      BY <1>4, <3>2
  <2>2. CASE \E q \in Requests : s \in toClose[q]
    BY <1>2, <1>4, <2>2
  <2> QED
    BY <2>1, <2>2 DEF OpenInv
<1>7. RegistryInv' /\ PortInv'
  BY <1>1 DEF RegistryInv, PortInv
<1>8. PhaseInv'
  BY <1>1, <1>4 DEF PhaseInv, ServersTyped
<1>9. AloneInv'
  <2>1. \A q \in Requests : Active(q)' <=> Active(q)
    BY <1>1, <1>4 DEF Active
  <2>2. \A x \in alone : phase'[x] = "steps" => FALSE
    BY <1>1, <1>4 DEF AloneInv, Active, ServersTyped
  <2> QED
    BY <1>1, <2>1, <2>2 DEF AloneInv, ServersTyped
<1> QED
  BY <1>5, <1>6, <1>7, <1>8, <1>9

LEMMA CloseKeeps == ASSUME ServersInv, NEW r \in Requests, Close(r) PROVE ServersInv'
<1> USE DEF ServersInv
<1>1. PICK s \in toClose[r] : open' = open \ {s} /\ toClose' = [toClose EXCEPT ![r] = @ \ {s}]
  BY DEF Close
<1>2. /\ phase[r] = "closing"
      /\ UNCHANGED <<wanted, foreign, step, phase, servers, registry, url, alone>>
  BY DEF Close
<1>3. \A q \in Requests : toClose'[q] \subseteq toClose[q] /\ toClose[q] \ {s} \subseteq toClose'[q]
  BY <1>1 DEF ServersTyped
<1>4. ServersTyped'
  BY <1>1, <1>2 DEF ServersTyped
<1>5. OpenInv'
  BY <1>1, <1>2, <1>3 DEF OpenInv
<1>6. RegistryInv'
  BY <1>1, <1>2, <1>3 DEF RegistryInv
<1>7. PortInv' /\ PhaseInv' /\ AloneInv'
  BY <1>1, <1>2, <1>3 DEF PortInv, PhaseInv, AloneInv, Active
<1> QED
  BY <1>4, <1>5, <1>6, <1>7

LEMMA FinishKeeps == ASSUME ServersInv, NEW r \in Requests, Finish(r) PROVE ServersInv'
<1> USE DEF ServersInv
<1>1. /\ phase[r] = "closing" /\ toClose[r] = {} /\ phase' = [phase EXCEPT ![r] = "done"]
      /\ UNCHANGED <<wanted, foreign, step, servers, open, registry, url, toClose, alone>>
  BY DEF Finish
<1>2. phase'[r] = "done" /\ \A q \in Requests \ {r} : phase'[q] = phase[q]
  BY <1>1 DEF ServersTyped
<1>3. ServersTyped' /\ OpenInv' /\ RegistryInv' /\ PortInv'
  BY <1>1 DEF ServersTyped, OpenInv, RegistryInv, PortInv
<1>4. PhaseInv'
  BY <1>1, <1>2 DEF PhaseInv
<1>5. AloneInv'
  <2>1. \A q \in Requests : Active(q)' => Active(q)
    BY <1>1, <1>2 DEF Active
  <2> QED
    BY <1>1, <1>2, <2>1 DEF AloneInv, ServersTyped
<1> QED
  BY <1>3, <1>4, <1>5

LEMMA ServersKeep == ServersInv /\ [ServersNext]_serverVars => ServersInv'
<1> SUFFICES ASSUME ServersInv, [ServersNext]_serverVars PROVE ServersInv'
  OBVIOUS
<1>1. CASE Foreign
  BY <1>1 DEF Foreign, ServersInv, ServersTyped, OpenInv, RegistryInv, PortInv, PhaseInv, AloneInv,
     Active
<1>2. CASE UNCHANGED serverVars
  BY <1>2 DEF serverVars, ServersInv, ServersTyped, OpenInv, RegistryInv, PortInv, PhaseInv, AloneInv,
     Active
<1>3. ASSUME NEW r \in Requests, RequestStep(r) PROVE ServersInv'
  BY <1>3, BeginKeeps, ReuseKeeps, BindKeeps, StopKeeps, CloseKeeps, FinishKeeps
  DEF RequestStep
<1> QED
  BY <1>1, <1>2, <1>3 DEF ServersNext

LEMMA ServersInvariant == ServersSpec => []ServersInv
  BY ServersStart, ServersKeep, PTL DEF ServersSpec

--------------------------------------------------------------------------------
(***************************************************************************)
(* The theorems about the metadata servers.                                *)
(***************************************************************************)
\* Every variable of the store of metadata servers always has its type.
THEOREM ServersAreTyped == ServersSpec => []ServersTyped
<1>1. ServersInv => ServersTyped
  BY DEF ServersInv
<1> QED
  BY <1>1, ServersInvariant, PTL

\* However requests start and stop servers beside each other, no server that
\* listens drops out of the registry before somebody is to shut it down.
THEOREM ServersAreKept == ServersSpec => []NoServerIsLost
<1>1. ServersInv => NoServerIsLost
  <2> SUFFICES ASSUME ServersInv, NEW s \in open
               PROVE  s \in Registered \cup UNION {toClose[r] : r \in Requests}
    BY DEF NoServerIsLost
  <2>1. servers[s] \in Server /\ s # 0
    BY DEF ServersInv, ServersTyped
  <2>2. servers[s].port \in Ports
    BY <2>1 DEF Server
  <2>3. CASE registry[servers[s].port] = s
    BY <2>1, <2>2, <2>3 DEF Registered
  <2>4. CASE \E r \in Requests : s \in toClose[r]
    BY <2>4
  <2> QED
    BY <2>3, <2>4 DEF ServersInv, OpenInv
<1> QED
  BY <1>1, ServersInvariant, PTL

\* Nobody is ever given the URL of a server that was shut down, and no two
\* servers share a port.
THEOREM ReuseIsSound == ServersSpec => []RegisteredServersAreLive
<1>1. ServersInv => RegisteredServersAreLive
  BY DEF ServersInv, RegisteredServersAreLive, Registered, RegistryInv, PortInv
<1> QED
  BY <1>1, ServersInvariant, PTL

\* A request that was never beside another one is served its own metadata by a
\* live server until it stops it.
THEOREM LoneRequestsAreServed == ServersSpec => []AloneIsServed
<1>1. ServersInv => AloneIsServed
  <2> SUFFICES ASSUME ServersInv, NEW r \in alone, phase[r] = "steps", url[r] # 0
               PROVE  url[r] \in open /\ servers[url[r]].for = r
    BY DEF AloneIsServed
  <2>1. PICK p \in Ports : registry[p] = url[r]
    BY DEF ServersInv, AloneInv
  <2> QED
    BY <2>1 DEF ServersInv, AloneInv, RegistryInv
<1> QED
  BY <1>1, ServersInvariant, PTL

--------------------------------------------------------------------------------
(***************************************************************************)
(* The keys: the inductive invariant, by parts.                            *)
(***************************************************************************)
\* Type invariant: the values every variable ranges over.
TypeOK ==
  /\ program \in Programs
  /\ at \in [Clients -> Nat \ {0}]
  /\ pc \in [Clients -> {"outside", "create", "take"}]
  /\ store \in [Names -> Nat]
  /\ made \in Nat
  /\ nonce \in [Clients -> {"none", "asked", "used"}]
  /\ proof \in [Clients -> Nat]
  /\ token \in [Clients -> Nat]
  /\ refused \in SUBSET Clients

\* At most one client is inside the lock; it is there for a key, and a nonce
\* is asked of a client only at its token request.
LockInv ==
  \A c \in Clients :
    /\ pc[c] # "outside" =>
         /\ Busy(c) /\ WantsKey(c)
         /\ \A d \in Clients \ {c} : pc[d] = "outside"
    /\ nonce[c] = "asked" => Busy(c) /\ Op(c) = "token"

\* A key is created over another one only by a reset.
KeyInv ==
  \A c \in Clients :
    /\ pc[c] = "create" => Op(c) = "reset" \/ store[Name(c)] = 0
    /\ pc[c] = "take" => store[Name(c)] # 0

\* A client has a proof, or a token, when it is past an operation that gets one.
Past(c, op) == \E j \in 1..(at[c] - 1) : program[c].ops[j] = op

PastInv ==
  \A c \in Clients :
    /\ Past(c, "proof") <=> proof[c] # 0
    /\ Past(c, "token") => token[c] # 0
    /\ token[c] # 0 => proof[c] # 0

\* A client that nobody else resets the key of holds proofs and a token by the
\* key in the store, and nothing is refused to it.
Undisturbed(c) ==
  \A d \in Clients \ {c} : Name(d) = Name(c) => ~Contains(program[d].ops, "reset")

BindingInv ==
  \A c \in Clients : Undisturbed(c) =>
    /\ proof[c] \in {0, store[Name(c)]}
    /\ token[c] \in {0, store[Name(c)]}
    /\ c \notin refused

IInv == TypeOK /\ LockInv /\ KeyInv /\ PastInv /\ BindingInv

--------------------------------------------------------------------------------
USE ProgramsAssumption

\* The flow of a client, and what it is at.
LEMMA Flows ==
  ASSUME TypeOK, NEW c \in Clients
  PROVE  /\ Name(c) \in Names
         /\ program[c].ops \in Seq(Ops)
         /\ Proper(program[c].ops)
         /\ Busy(c) => at[c] \in 1..Len(program[c].ops) /\ Op(c) \in Ops
<1>1. /\ program \in [Clients -> [key : Names, ops : Seq(Ops)]]
      /\ Proper(program[c].ops)
  BY DEF TypeOK
<1>2. program[c].ops \in Seq(Ops) /\ Name(c) \in Names
  BY <1>1 DEF Name
<1>3. Busy(c) => at[c] \in 1..Len(program[c].ops)
  BY <1>2 DEF TypeOK, Busy
<1> QED
  BY <1>1, <1>2, <1>3 DEF Op

LEMMA InitHolds == Init => IInv
<1> SUFFICES ASSUME Init PROVE IInv
  OBVIOUS
<1> USE DEF Init
<1>1. TypeOK
  BY DEF TypeOK
<1>2. LockInv /\ KeyInv
  BY DEF LockInv, KeyInv
<1>3. PastInv
  BY DEF PastInv, Past
<1>4. BindingInv
  BY DEF BindingInv
<1> QED
  BY <1>1, <1>2, <1>3, <1>4 DEF IInv

LEMMA EnterKeeps == ASSUME IInv, NEW c \in Clients, Enter(c) PROVE IInv'
<1> USE DEF IInv
<1>1. /\ Busy(c) /\ WantsKey(c) /\ MayEnter
      /\ pc' = [pc EXCEPT ![c] =
                  IF Op(c) = "reset" \/ store[Name(c)] = 0 THEN "create" ELSE "take"]
      /\ UNCHANGED <<program, at, store, made, nonce, proof, token, refused>>
  BY DEF Enter
<1>2. /\ \/ pc'[c] = "create" /\ (Op(c) = "reset" \/ store[Name(c)] = 0)
         \/ pc'[c] = "take" /\ store[Name(c)] # 0
      /\ \A d \in Clients \ {c} : pc'[d] = "outside"
  BY <1>1 DEF TypeOK, MayEnter
<1>3. TypeOK'
  <2>1. pc' \in [Clients -> {"outside", "create", "take"}]
    BY <1>1, <1>2 DEF TypeOK
  <2> QED
    BY <1>1, <2>1 DEF TypeOK
<1>4. LockInv'
  <2>1. \A d \in Clients : /\ Busy(d)' = Busy(d) /\ WantsKey(d)' = WantsKey(d)
                           /\ Op(d)' = Op(d) /\ nonce'[d] = nonce[d]
    BY <1>1 DEF Busy, Op, WantsKey, WantsProof
  <2> QED
    BY <1>1, <1>2, <2>1 DEF LockInv
<1>5. KeyInv'
  BY <1>1, <1>2 DEF KeyInv, Op, Name
<1>6. PastInv' /\ BindingInv'
  BY <1>1 DEF PastInv, Past, BindingInv, Undisturbed, Name
<1> QED
  BY <1>3, <1>4, <1>5, <1>6

LEMMA CreateKeeps == ASSUME IInv, NEW c \in Clients, Create(c) PROVE IInv'
<1> USE DEF IInv
<1>1. /\ pc[c] = "create"
      /\ made' = made + 1
      /\ store' = [store EXCEPT ![Name(c)] = made + 1]
      /\ pc' = [pc EXCEPT ![c] = "take"]
      /\ UNCHANGED <<program, at, nonce, proof, token, refused>>
  BY DEF Create
<1>2. Name(c) \in Names /\ made + 1 \in Nat \ {0}
  BY Flows DEF TypeOK
<1>3. /\ pc'[c] = "take" /\ store'[Name(c)] # 0
      /\ \A d \in Clients \ {c} : pc'[d] = "outside"
      /\ \A n \in Names \ {Name(c)} : store'[n] = store[n]
  BY <1>1, <1>2 DEF TypeOK, LockInv
<1>4. TypeOK'
  BY <1>1, <1>2 DEF TypeOK
<1>5. LockInv'
  BY <1>1, <1>3 DEF LockInv, Busy, Op, WantsKey, WantsProof
<1>6. KeyInv'
  BY <1>1, <1>3 DEF KeyInv, Op, Name
<1>7. PastInv'
  BY <1>1 DEF PastInv, Past
<1>8. BindingInv'
  <2> SUFFICES ASSUME NEW d \in Clients, Undisturbed(d)
               PROVE  /\ proof[d] \in {0, store'[Name(d)]}
                      /\ token[d] \in {0, store'[Name(d)]}
                      /\ d \notin refused
    BY <1>1 DEF BindingInv, Undisturbed, Name
  <2>1. /\ proof[d] \in {0, store[Name(d)]} /\ token[d] \in {0, store[Name(d)]}
        /\ d \notin refused
    BY DEF BindingInv
  <2>2. CASE Name(d) # Name(c)
    BY <1>3, <2>1, <2>2, Flows
  <2>3. CASE Name(d) = Name(c) /\ store[Name(c)] = 0
    BY <2>1, <2>3
  <2>4. CASE Name(d) = Name(c) /\ Op(c) = "reset"
    <3>1. at[c] \in 1..Len(program[c].ops) /\ program[c].ops[at[c]] = "reset"
      BY <1>1, <2>4, Flows DEF LockInv, Op
    <3>2. d = c
      BY <2>4, <3>1 DEF Undisturbed, Contains
    <3>3. Past(c, "proof") = FALSE
      BY <3>1, Flows DEF Proper, Past
    <3>4. proof[c] = 0 /\ token[c] = 0
      BY <3>3 DEF PastInv
    <3> QED
      BY <2>1, <3>2, <3>4
  <2> QED
    BY <1>1, <2>2, <2>3, <2>4 DEF KeyInv
<1> QED
  BY <1>4, <1>5, <1>6, <1>7, <1>8

LEMMA TakeKeeps == ASSUME IInv, NEW c \in Clients, Take(c) PROVE IInv'
<1> USE DEF IInv
<1>1. /\ pc[c] = "take"
      /\ pc' = [pc EXCEPT ![c] = "outside"]
      /\ proof' = IF WantsProof(c) THEN [proof EXCEPT ![c] = store[Name(c)]] ELSE proof
      /\ UNCHANGED <<program, store, made, token, refused>>
  BY DEF Take
<1>2. \/ nonce[c] = "asked" /\ nonce' = [nonce EXCEPT ![c] = "used"] /\ at' = at
      \/ nonce[c] # "asked" /\ nonce' = nonce /\ at' = [at EXCEPT ![c] = at[c] + 1]
  BY DEF Take
<1>3. /\ Busy(c) /\ at[c] \in 1..Len(program[c].ops)
      /\ Op(c) \in {"reset", "get", "proof"} \/ nonce[c] = "asked"
      /\ nonce[c] = "asked" => Op(c) = "token"
      /\ store[Name(c)] # 0 /\ Name(c) \in Names
      /\ \A d \in Clients : pc'[d] = "outside"
  BY <1>1, Flows DEF LockInv, KeyInv, WantsKey, WantsProof, TypeOK
<1>4. /\ proof'[c] = IF WantsProof(c) THEN store[Name(c)] ELSE proof[c]
      /\ \A d \in Clients \ {c} :
           proof'[d] = proof[d] /\ at'[d] = at[d] /\ nonce'[d] = nonce[d]
      /\ nonce'[c] # "asked"
      /\ at'[c] = IF nonce[c] = "asked" THEN at[c] ELSE at[c] + 1
  BY <1>1, <1>2 DEF TypeOK
<1>5. TypeOK'
  <2>1. at[c] + 1 \in Nat \ {0} /\ store[Name(c)] \in Nat
    BY <1>3 DEF TypeOK
  <2>2. at' \in [Clients -> Nat \ {0}] /\ nonce' \in [Clients -> {"none", "asked", "used"}]
    BY <1>2, <2>1 DEF TypeOK
  <2>3. proof' \in [Clients -> Nat]
    BY <1>1, <2>1 DEF TypeOK
  <2> QED
    BY <1>1, <2>2, <2>3 DEF TypeOK
<1>6. LockInv'
  BY <1>1, <1>3, <1>4 DEF LockInv, Busy, Op
<1>7. KeyInv'
  BY <1>3 DEF KeyInv
<1>8. PastInv'
  <2>1. \A d \in Clients \ {c} : \A op \in Ops : Past(d, op)' = Past(d, op)
    BY <1>1, <1>4 DEF Past
  <2>2. \A op \in Ops : Past(c, op)' <=>
          Past(c, op) \/ (nonce[c] # "asked" /\ Op(c) = op)
    <3>1. CASE nonce[c] = "asked"
      BY <1>1, <1>4, <3>1 DEF Past
    <3>2. CASE nonce[c] # "asked"
      <4>1. 1..(at'[c] - 1) = (1..(at[c] - 1)) \cup {at[c]}
        BY <1>3, <1>4, <3>2
      <4> QED
        BY <1>1, <3>2, <4>1 DEF Past, Op
    <3> QED
      BY <3>1, <3>2
  <2>3. nonce[c] = "asked" => Past(c, "proof")
    BY <1>3, Flows DEF Proper, Past, Op
  <2>4. Past(c, "proof")' <=> proof'[c] # 0
    BY <1>3, <1>4, <2>2, <2>3 DEF PastInv, WantsProof, Ops
  <2>5. Past(c, "token")' => token'[c] # 0
    BY <1>1, <1>3, <2>2 DEF PastInv, Ops
  <2>6. token'[c] # 0 => proof'[c] # 0
    BY <1>1, <1>3, <1>4 DEF PastInv
  <2> QED
    BY <1>1, <1>4, <2>1, <2>4, <2>5, <2>6 DEF PastInv, Ops
<1>9. BindingInv'
  BY <1>1, <1>4 DEF BindingInv, Undisturbed, Name
<1> QED
  BY <1>5, <1>6, <1>7, <1>8, <1>9

LEMMA DemandKeeps == ASSUME IInv, NEW c \in Clients, DemandNonce(c) PROVE IInv'
<1> USE DEF IInv
<1>1. /\ Busy(c) /\ Op(c) = "token" /\ nonce[c] = "none"
      /\ nonce' = [nonce EXCEPT ![c] = "asked"]
      /\ UNCHANGED <<program, at, pc, store, made, proof, token, refused>>
  BY DEF DemandNonce
<1>2. nonce'[c] = "asked" /\ \A d \in Clients \ {c} : nonce'[d] = nonce[d]
  BY <1>1 DEF TypeOK
<1>3. TypeOK'
  BY <1>1 DEF TypeOK
<1>4. LockInv'
  BY <1>1, <1>2 DEF LockInv, Busy, Op, WantsKey, WantsProof
<1>5. KeyInv' /\ PastInv' /\ BindingInv'
  BY <1>1 DEF KeyInv, Op, Name, PastInv, Past, BindingInv, Undisturbed
<1> QED
  BY <1>3, <1>4, <1>5

\* An operation outside the lock that moves one client on, past an operation
\* that gets it neither a key nor a proof.
LEMMA MovesOn ==
  ASSUME IInv, NEW c \in Clients, Busy(c), Op(c) \in {"token", "call"}, nonce[c] # "asked",
         at' = [at EXCEPT ![c] = at[c] + 1],
         UNCHANGED <<program, pc, store, made, proof>>,
         nonce'[c] # "asked", \A d \in Clients \ {c} : nonce'[d] = nonce[d]
  PROVE  /\ at' \in [Clients -> Nat \ {0}]
         /\ LockInv' /\ KeyInv'
         /\ \A d \in Clients : Past(d, "proof")' <=> Past(d, "proof")
         /\ \A d \in Clients : Past(d, "token")' <=>
              Past(d, "token") \/ (d = c /\ Op(c) = "token")
         /\ Past(c, "proof")
         /\ Op(c) = "call" => Past(c, "token")
<1> USE DEF IInv
<1>0. /\ pc[c] = "outside"
      /\ at[c] \in 1..Len(program[c].ops)
      /\ at'[c] = at[c] + 1
      /\ \A d \in Clients \ {c} : at'[d] = at[d]
  BY Flows DEF LockInv, WantsKey, WantsProof, TypeOK
<1>1. at' \in [Clients -> Nat \ {0}]
  <2>1. at[c] + 1 \in Nat \ {0}
    BY <1>0
  <2> QED
    BY <2>1 DEF TypeOK
<1>2. LockInv'
  <2>1. \A d \in Clients \ {c} : Busy(d)' = Busy(d) /\ Op(d)' = Op(d)
    BY <1>0 DEF Busy, Op
  <2>2. \A d \in Clients : pc[d] # "outside" => d \in Clients \ {c} /\ WantsKey(d)
    BY <1>0 DEF LockInv
  <2>3. \A d \in Clients : pc[d] # "outside" => WantsKey(d)'
    <3> SUFFICES ASSUME NEW d \in Clients, pc[d] # "outside" PROVE WantsKey(d)'
      OBVIOUS
    <3>1. CASE Op(d) \in {"reset", "get", "proof"}
      BY <2>1, <2>2, <3>1 DEF WantsKey, WantsProof
    <3>2. CASE nonce[d] = "asked"
      <4>1. nonce'[d] = "asked"
        BY <2>2, <3>2
      <4> QED
        BY <4>1 DEF WantsKey, WantsProof
    <3> QED
      BY <2>2, <3>1, <3>2 DEF WantsKey, WantsProof
  <2> QED
    BY <2>1, <2>2, <2>3 DEF LockInv
<1>3. KeyInv'
  <2>1. \A d \in Clients : pc[d] # "outside" => Op(d)' = Op(d)
    BY <1>0 DEF Op
  <2> QED
    BY <2>1 DEF KeyInv, Name
<1>4. \A d \in Clients, op \in Ops : Past(d, op)' <=> Past(d, op) \/ (d = c /\ Op(c) = op)
  <2>1. 1..(at'[c] - 1) = (1..(at[c] - 1)) \cup {at[c]}
    BY <1>0
  <2>2. \A op \in Ops : Past(c, op)' <=> Past(c, op) \/ Op(c) = op
    BY <2>1 DEF Past, Op
  <2>3. \A d \in Clients \ {c}, op \in Ops : Past(d, op)' = Past(d, op)
    BY <1>0 DEF Past
  <2> QED
    BY <2>2, <2>3
<1>5. Op(c) = "call" => Past(c, "token")
  BY <1>0, Flows DEF Proper, Past, Op
<1>6. Past(c, "proof")
  <2>1. CASE Op(c) = "token"
    BY <1>0, <2>1, Flows DEF Proper, Past, Op
  <2>2. CASE Op(c) = "call"
    BY <1>5, <2>2 DEF PastInv
  <2> QED
    BY <2>1, <2>2
<1>7. \A d \in Clients : Past(d, "proof")' <=> Past(d, "proof")
  BY <1>4 DEF Ops
<1>8. \A d \in Clients : Past(d, "token")' <=> Past(d, "token") \/ (d = c /\ Op(c) = "token")
  BY <1>4 DEF Ops
<1> QED
  BY <1>1, <1>2, <1>3, <1>5, <1>6, <1>7, <1>8

LEMMA IssueKeeps == ASSUME IInv, NEW c \in Clients, IssueToken(c) PROVE IInv'
<1> USE DEF IInv
<1>1. /\ Busy(c) /\ Op(c) = "token" /\ nonce[c] # "asked"
      /\ token' = [token EXCEPT ![c] = proof[c]]
      /\ nonce' = [nonce EXCEPT ![c] = "none"]
      /\ at' = [at EXCEPT ![c] = at[c] + 1]
      /\ UNCHANGED <<program, pc, store, made, proof, refused>>
  BY DEF IssueToken
<1>2. /\ nonce'[c] # "asked" /\ \A d \in Clients \ {c} : nonce'[d] = nonce[d]
      /\ token'[c] = proof[c] /\ \A d \in Clients \ {c} : token'[d] = token[d]
  BY <1>1 DEF TypeOK
<1>3. /\ at' \in [Clients -> Nat \ {0}] /\ LockInv' /\ KeyInv'
      /\ \A d \in Clients : Past(d, "proof")' <=> Past(d, "proof")
      /\ \A d \in Clients : Past(d, "token")' <=> Past(d, "token") \/ d = c
      /\ Past(c, "proof")
  BY <1>1, <1>2, MovesOn
<1>4. TypeOK'
  <2>1. token' \in [Clients -> Nat] /\ nonce' \in [Clients -> {"none", "asked", "used"}]
    BY <1>1 DEF TypeOK
  <2> QED
    BY <1>1, <1>3, <2>1 DEF TypeOK
<1>5. PastInv'
  BY <1>1, <1>2, <1>3 DEF PastInv
<1>6. BindingInv'
  BY <1>1, <1>2 DEF BindingInv, Undisturbed, Name
<1> QED
  BY <1>3, <1>4, <1>5, <1>6

LEMMA CallKeeps == ASSUME IInv, NEW c \in Clients, Call(c) PROVE IInv'
<1> USE DEF IInv
<1>1. /\ Busy(c) /\ Op(c) = "call"
      /\ refused' = IF proof[c] = token[c] THEN refused ELSE refused \cup {c}
      /\ at' = [at EXCEPT ![c] = at[c] + 1]
      /\ UNCHANGED <<program, pc, store, made, nonce, proof, token>>
  BY DEF Call
<1>2. nonce[c] # "asked"
  BY <1>1 DEF LockInv
<1>3. /\ at' \in [Clients -> Nat \ {0}] /\ LockInv' /\ KeyInv'
      /\ \A d \in Clients : Past(d, "proof")' <=> Past(d, "proof")
      /\ \A d \in Clients : Past(d, "token")' <=> Past(d, "token")
      /\ Past(c, "proof") /\ Past(c, "token")
  BY <1>1, <1>2, MovesOn
<1>4. TypeOK'
  <2>1. refused' \in SUBSET Clients
    BY <1>1 DEF TypeOK
  <2> QED
    BY <1>1, <1>3, <2>1 DEF TypeOK
<1>5. PastInv'
  BY <1>1, <1>3 DEF PastInv
<1>6. BindingInv'
  <2>1. Undisturbed(c) => proof[c] = token[c]
    <3>1. proof[c] # 0 /\ token[c] # 0
      BY <1>3 DEF PastInv
    <3> QED
      BY <3>1 DEF BindingInv
  <2>2. \A d \in Clients : Undisturbed(d)' = Undisturbed(d)
    BY <1>1 DEF Undisturbed, Name
  <2> QED
    BY <1>1, <2>1, <2>2 DEF BindingInv, Name
<1> QED
  BY <1>3, <1>4, <1>5, <1>6

LEMMA NextKeeps == IInv /\ [Next]_vars => IInv'
<1> SUFFICES ASSUME IInv, [Next]_vars PROVE IInv'
  OBVIOUS
<1>1. CASE UNCHANGED vars
  BY <1>1 DEF vars, IInv, TypeOK, LockInv, KeyInv, PastInv, Past, BindingInv, Undisturbed,
     Name, Busy, Op, WantsKey, WantsProof
<1>2. CASE \E c \in Clients : \/ Enter(c) \/ Create(c) \/ Take(c)
                             \/ DemandNonce(c) \/ IssueToken(c) \/ Call(c)
  BY <1>2, EnterKeeps, CreateKeeps, TakeKeeps, DemandKeeps, IssueKeeps, CallKeeps
<1> QED
  BY <1>1, <1>2 DEF Next, Over

LEMMA InvariantHolds == Spec => []IInv
  BY InitHolds, NextKeeps, PTL DEF Spec

--------------------------------------------------------------------------------
(***************************************************************************)
(* The theorems.                                                           *)
(***************************************************************************)
\* Every variable of the key store and its clients always has its type.
THEOREM TypeCorrect == Spec => []TypeOK
<1>1. IInv => TypeOK
  BY DEF IInv
<1> QED
  BY <1>1, InvariantHolds, PTL

\* A key of the store is generated over another one only by a reset, whatever
\* clients race for the first use of its name.
THEOREM KeysAreReplacedByResets ==
  Spec => [][\A n \in Names : store[n] # 0 /\ store'[n] # store[n] =>
               \E c \in Clients : Name(c) = n /\ Op(c) = "reset"]_vars
<1> DEFINE A == \A n \in Names : store[n] # 0 /\ store'[n] # store[n] =>
                  \E c \in Clients : Name(c) = n /\ Op(c) = "reset"
<1>1. IInv /\ [Next]_vars => [A]_vars
  <2> SUFFICES ASSUME IInv, [Next]_vars, NEW n \in Names, store[n] # 0,
                      store'[n] # store[n]
               PROVE  \E c \in Clients : Name(c) = n /\ Op(c) = "reset"
    OBVIOUS
  <2>1. PICK c \in Clients : Create(c)
    BY DEF Next, Over, vars, Enter, Take, DemandNonce, IssueToken, Call
  <2>2. Name(c) = n /\ pc[c] = "create"
    BY <2>1 DEF Create, IInv, TypeOK
  <2> QED
    BY <2>2 DEF IInv, KeyInv
<1> HIDE DEF A
<1>2. Spec => [][A]_vars
  BY <1>1, InvariantHolds, PTL DEF Spec
<1> QED
  BY <1>2 DEF A

\* A call of a client is refused only when another one replaced its key.
THEOREM RefusalsAreForeign == Spec => []RefusedOnlyAfterForeignReset
<1>1. IInv => RefusedOnlyAfterForeignReset
  BY DEF IInv, TypeOK, BindingInv, Undisturbed, RefusedOnlyAfterForeignReset
<1> QED
  BY <1>1, InvariantHolds, PTL
================================================================================
