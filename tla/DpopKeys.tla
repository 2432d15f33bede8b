-------------------------------- MODULE DpopKeys --------------------------------
(***************************************************************************)
(* The store of DPoP keys of tools/oauth_helpers.py (_DPOP_KEYS, under     *)
(* _DPOP_LOCK) and the clients that use it through the prepare actions     *)
(* dpop_key and dpop of run_prepare: the worker threads of a run, or the   *)
(* web requests that test steps.  The authorization server is external: it *)
(* binds an access token to the key of the proof sent with the token       *)
(* request (and may first demand a nonce, which makes run_step mint one    *)
(* more proof and repeat the request), and accepts a call only with a      *)
(* proof by that key.                                                      *)
(***************************************************************************)
EXTENDS Naturals, Sequences, SequencesExt

CONSTANTS Clients,   \* worker threads or web requests
          Names,     \* names of keys
          Programs   \* what the clients do: a key name and operations for each

Ops == {"reset",     \* dpop_key with reset
        "get",       \* dpop_key
        "proof",     \* dpop
        "token",     \* token request with the last proof
        "call"}      \* call with the token and the last proof

\* What a flow is for: the key is replaced, if at all, before the first proof
\* with it, a token is requested with a proof, and a call is made with a token.
Proper(ops) ==
  \A i \in 1..Len(ops) :
    /\ ops[i] = "reset" => \A j \in 1..(i - 1) : ops[j] # "proof"
    /\ ops[i] = "token" => \E j \in 1..(i - 1) : ops[j] = "proof"
    /\ ops[i] = "call"  => \E j \in 1..(i - 1) : ops[j] = "token"

ASSUME ProgramsAssumption ==
  /\ Programs \subseteq [Clients -> [key : Names, ops : Seq(Ops)]]
  /\ \A p \in Programs : \A c \in Clients : Proper(p[c].ops)

VARIABLES
  program,   \* what each client does
  at,        \* the operation each client is at
  pc,        \* "outside" the lock, or about to "create" or "take" a key
  store,     \* name -> key, 0 when there is none
  made,      \* keys generated so far
  nonce,     \* whether the server "asked" the client for a nonce
  proof,     \* the key that signed the last proof of each client
  token,     \* the key its token is bound to
  refused    \* clients that had a call refused

vars == <<program, at, pc, store, made, nonce, proof, token, refused>>

Name(c) == program[c].key
Busy(c) == at[c] <= Len(program[c].ops)
Op(c)   == program[c].ops[at[c]]

Init ==
  /\ program \in Programs
  /\ at = [c \in Clients |-> 1]
  /\ pc = [c \in Clients |-> "outside"]
  /\ store = [n \in Names |-> 0]
  /\ made = 0
  /\ nonce = [c \in Clients |-> "none"]
  /\ proof = [c \in Clients |-> 0]
  /\ token = [c \in Clients |-> 0]
  /\ refused = {}

--------------------------------------------------------------------------------
\* Fault: the store is tested and written without the lock.
NoLock == TRUE

\* The lock is free.
MayEnter == \A c \in Clients : pc[c] = "outside"

\* The operations that look a key up; dpop also for the retry with a nonce.
WantsProof(c) == Op(c) = "proof" \/ nonce[c] = "asked"
WantsKey(c)   == Op(c) \in {"reset", "get"} \/ WantsProof(c)

\* reset_dpop_key always generates a key, get_dpop_key when there is none.
Enter(c) ==
  /\ Busy(c)
  /\ pc[c] = "outside"
  /\ WantsKey(c)
  /\ MayEnter
  /\ pc' = [pc EXCEPT ![c] =
              IF Op(c) = "reset" \/ store[Name(c)] = 0 THEN "create" ELSE "take"]
  /\ UNCHANGED <<program, at, store, made, nonce, proof, token, refused>>

Create(c) ==
  /\ pc[c] = "create"
  /\ made' = made + 1
  /\ store' = [store EXCEPT ![Name(c)] = made + 1]
  /\ pc' = [pc EXCEPT ![c] = "take"]
  /\ UNCHANGED <<program, at, nonce, proof, token, refused>>

\* Return the key of the name; dpop signs a proof with it.
Take(c) ==
  /\ pc[c] = "take"
  /\ pc' = [pc EXCEPT ![c] = "outside"]
  /\ proof' = IF WantsProof(c) THEN [proof EXCEPT ![c] = store[Name(c)]] ELSE proof
  /\ IF nonce[c] = "asked"
     THEN nonce' = [nonce EXCEPT ![c] = "used"] /\ UNCHANGED at
     ELSE at' = [at EXCEPT ![c] = @ + 1] /\ UNCHANGED nonce
  /\ UNCHANGED <<program, store, made, token, refused>>

\* External: the server demands a nonce, once.
DemandNonce(c) ==
  /\ Busy(c)
  /\ Op(c) = "token"
  /\ nonce[c] = "none"
  /\ nonce' = [nonce EXCEPT ![c] = "asked"]
  /\ UNCHANGED <<program, at, pc, store, made, proof, token, refused>>

\* External: the server issues a token bound to the key of the proof.
IssueToken(c) ==
  /\ Busy(c)
  /\ Op(c) = "token"
  /\ nonce[c] # "asked"
  /\ token' = [token EXCEPT ![c] = proof[c]]
  /\ nonce' = [nonce EXCEPT ![c] = "none"]
  /\ at' = [at EXCEPT ![c] = @ + 1]
  /\ UNCHANGED <<program, pc, store, made, proof, refused>>

\* External: a call is refused when its proof is by another key.
Call(c) ==
  /\ Busy(c)
  /\ Op(c) = "call"
  /\ refused' = IF proof[c] = token[c] THEN refused ELSE refused \cup {c}
  /\ at' = [at EXCEPT ![c] = @ + 1]
  /\ UNCHANGED <<program, pc, store, made, nonce, proof, token>>

Over == (\A c \in Clients : ~Busy(c)) /\ UNCHANGED vars

Next ==
  \/ \E c \in Clients : \/ Enter(c) \/ Create(c) \/ Take(c)
                        \/ DemandNonce(c) \/ IssueToken(c) \/ Call(c)
  \/ Over

Spec == Init /\ [][Next]_vars

--------------------------------------------------------------------------------
(***************************************************************************)
(* Properties.                                                             *)
(***************************************************************************)
\* A call is refused only to a client whose key another client replaced:
\* without a foreign reset, first uses of a name that race never split the
\* clients over two keys, and a nonce retry never changes the key.
RefusedOnlyAfterForeignReset ==
  \A c \in refused : \E d \in Clients \ {c} :
    Name(d) = Name(c) /\ Contains(program[d].ops, "reset")
================================================================================
