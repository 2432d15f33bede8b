-------------------------------- MODULE Workspace --------------------------------
(***************************************************************************)
(* Collections, their scenarios, who they are shared with and the          *)
(* environment values of each user (webapp/workspace.py, explorer.py).     *)
(*                                                                         *)
(* The database is the variable rows: five tables, each a function from    *)
(* keys to rows.  A key is a tuple whose head is the collection the row    *)
(* belongs to, so that deleting the collection takes the row with it.  A   *)
(* request reads the rows and prepares its writes (Check); they take       *)
(* effect, or fail on a constraint, when its session commits               *)
(* (webapp/db.py): between the two, other users' requests take place.      *)
(*                                                                         *)
(* The document column of a collection is written as a whole.  The list of *)
(* scenarios in it is left out: every reader replaces it by the names of   *)
(* the scenario rows (collection_document_for_client), so that reordering  *)
(* only writes the document again.  Names of collections, positions and    *)
(* folders are left out too, and one environment stands for all.           *)
(***************************************************************************)
EXTENDS Naturals, FiniteSets, Sequences, Functions

CONSTANTS Users,
          Collections,  \* identities of collections
          Names,        \* names of files: those that safe_filename leaves alone
          collectionFile,  \* collection.json
          Reserved,     \* collection.json, suite.json
          Fold,         \* name -> the name without case
          Candidates,   \* name -> the names tried in turn by unique_scenario_name
          Docs,         \* contents of a document
          Values,       \* values of the environment
          Loads,        \* what the users may do
          blank,        \* the content of a new document
          none          \* no collection, no request

Load == [users : SUBSET Users, creators : SUBSET Users, ids : SUBSET Collections,
         slots : Nat,             \* bound: scenario rows of a collection
         names : SUBSET Names, docs : SUBSET Docs, values : SUBSET Values,
         grants : SUBSET [edit : BOOLEAN, env : BOOLEAN],
         library : SUBSET Names,  \* the files of the collection one may clone
         overlap : BOOLEAN]       \* may requests overlap

ASSUME BlankAssumption == blank \in Docs
ASSUME ReservedAssumption == collectionFile \in Reserved /\ Reserved \subseteq Names
ASSUME FoldAssumption == Names \subseteq DOMAIN Fold
ASSUME CandidatesAssumption == Candidates \in [Names -> Seq(Names)]
ASSUME NoneAssumption == none \notin Collections
ASSUME LoadsAssumption == Loads \subseteq Load

\* The collections of the library, which come with the program, list no two
\* files whose names differ only in their case: clone_library_path takes the
\* names as they are.
ASSUME LibraryAssumption ==
  \A l \in Loads : \A n, m \in l.library : Fold[n] = Fold[m] => n = m

VARIABLES
  load,  \* the load of this behaviour
  rows,  \* the tables
  tx     \* user -> what the user's request is about to write

vars == <<load, rows, tx>>

Tables == {"coll", "meta", "scen", "share", "val"}
Empty  == [x \in {} |-> none]

\* A table of one row; the rows f written over the table g.
Row(x, row) == [y \in {x} |-> row]
Over(f, g)  == [x \in DOMAIN f \cup DOMAIN g |-> IF x \in DOMAIN f THEN f[x] ELSE g[x]]

NoRows == [t \in Tables |-> Empty]
NoKeys == [t \in Tables |-> {}]

\* Inserted, updated and deleted rows; twice: one key is inserted twice; pull:
\* the collection that becomes like another one, and that one.
Writes == [ins |-> NoRows, upd |-> NoRows, del |-> NoKeys, twice |-> FALSE, pull |-> none]

--------------------------------------------------------------------------------
(***************************************************************************)
(* Access.                                                                 *)
(***************************************************************************)
Lives(k)     == <<k>> \in DOMAIN rows.coll
Owner(k)     == rows.coll[<<k>>].owner
Owns(u, k)   == Lives(k) /\ Owner(k) = u
Shared(u, k) == <<k, u>> \in DOMAIN rows.share

\* accessible_collection, to read and to write.
MayRead(u, k)  == Owns(u, k) \/ Shared(u, k)
MayWrite(u, k) == Owns(u, k) \/ (Shared(u, k) /\ rows.share[<<k, u>>].edit)

\* Whose values u reads and writes in k.
ValuesOwner(u, k) ==
  IF ~Owns(u, k) /\ Shared(u, k) /\ rows.share[<<k, u>>].env THEN Owner(k) ELSE u

--------------------------------------------------------------------------------
(***************************************************************************)
(* Scenarios of a collection.                                              *)
(***************************************************************************)
Members(k) == {s \in DOMAIN rows.scen : s[1] = k}
NamesIn(S) == {rows.scen[s].name : s \in S}
Named(k, n) == {s \in Members(k) : rows.scen[s].name = n}

\* Fault: the case of names counts.
TakenExactly(S, n) == n \in NamesIn(S)

Taken(S, n) == \E m \in NamesIn(S) : Fold[m] = Fold[n]

\* At most one element of S, which one makes no difference.
OneOf(S) == {x \in S : x = CHOOSE y \in S : TRUE}

\* Fresh identities: of no row and in no request.
Keys(w, t) == DOMAIN w.ins[t] \cup DOMAIN w.upd[t] \cup w.del[t]
Pending    == {tx[u] : u \in {v \in Users : tx[v] # none}}
Slots(k)   == {i \in 1 .. load.slots : /\ <<k, i>> \notin DOMAIN rows.scen
                                        /\ \A w \in Pending : <<k, i>> \notin Keys(w, "scen")}
NewIds     == {k \in load.ids : ~Lives(k) /\ \A w \in Pending :
                 /\ \A t \in Tables : k \notin {x[1] : x \in Keys(w, t)}
                 /\ w.pull # none => k # w.pull[2]}
NewId      == OneOf(NewIds)

\* Fault: the name is taken as it is.
NameAsIs(k, n) == {n}

\* The first candidate that no member has, apart from its case.
UniqueName(k, n) ==
  LET free == {i \in DOMAIN Candidates[n] : ~Taken(Members(k), Candidates[n][i])}
  IN  {Candidates[n][i] : i \in {j \in free : \A l \in free : j <= l}}

\* The document is written again, as it was read.
Again(k) == Row(<<k>>, rows.meta[<<k>>])

\* apply_collection_fields
SaveDocument(k, d) == [Writes EXCEPT !.upd.meta = Row(<<k>>, d)]

\* A new row, under a name that was free when it was read.
NewScenario(k, i, m, doc) ==
  [Writes EXCEPT !.ins.scen = Row(<<k, i>>, [name |-> m, doc |-> doc]), !.upd.meta = Again(k)]
Attach(k, n, doc) ==
  {NewScenario(k, i, m, doc) : i \in OneOf(Slots(k)), m \in UniqueName(k, n)}

\* New rows for the names N, as they are: f says which row a name gets.
Placed(k, N) == OneOf(Injection(N, Slots(k)))
NewRows(k, f, docs) ==
  [s \in {<<k, f[n]>> : n \in DOMAIN f} |->
    LET n == CHOOSE m \in DOMAIN f : f[m] = s[2] IN [name |-> n, doc |-> docs[n]]]

--------------------------------------------------------------------------------
(***************************************************************************)
(* Requests on files: what each may write, the empty set when refused.  A  *)
(* path names a collection and a file of it; the reserved names are the    *)
(* collection's own document, whatever scenarios are called.               *)
(***************************************************************************)
Doc(title, body) == [title |-> title, body |-> body]

NewCollection(u) ==
  { [Writes EXCEPT !.ins.coll = Row(<<k>>, [owner |-> u, source |-> none]),
                   !.ins.meta = Row(<<k>>, blank)] : k \in NewId }

\* clone_library_path: the collection and the files it names, or a scenario
\* that no collection names.
CloneLibrary(u, files) ==
  UNION {{ [w EXCEPT !.ins.scen = NewRows(k, f, [n \in files |-> Doc(n, blank)])] :
           f \in Placed(k, files), w \in NewCollection(u) } : k \in NewId}

\* Saving at the path of a scenario that is not there creates it.
SaveFile(u, k, n, isCollection, d) ==
  IF ~MayWrite(u, k) THEN {}
  ELSE IF isCollection \/ n \in Reserved THEN {SaveDocument(k, d)}
  ELSE IF Named(k, n) = {} THEN Attach(k, n, Doc(n, d))
  ELSE { [Writes EXCEPT !.upd.scen = Row(s, [name |-> n, doc |-> Doc(n, d)])] : s \in Named(k, n) }

CreateScenario(u, k, n) ==
  UNION { Attach(k, m, Doc(m, blank)) : m \in IF MayWrite(u, k) THEN UniqueName(k, n) ELSE {} }

\* Fault: the destination is only looked up.
CopyAnywhere(u, k, n, l) ==
  UNION { Attach(l, n, rows.scen[s].doc) :
          s \in IF MayRead(u, k) /\ n \notin Reserved /\ MayRead(u, l) THEN Named(k, n) ELSE {} }

CopyScenario(u, k, n, l) ==
  UNION { Attach(l, n, rows.scen[s].doc) :
          s \in IF MayRead(u, k) /\ n \notin Reserved /\ MayWrite(u, l) THEN Named(k, n) ELSE {} }

\* The new name must not be another scenario's, whatever its case.
RenameItem(u, k, n, m) ==
  IF n \in Reserved
  THEN {w \in {SaveDocument(k, rows.meta[<<k>>])} : Owns(u, k)}
  ELSE { [Writes EXCEPT !.upd.scen = Row(s, [name |-> m, doc |-> Doc(m, rows.scen[s].doc.body)]),
                        !.upd.meta = Again(k)] :
         s \in {r \in Named(k, n) : MayWrite(u, k) /\ ~Taken(Members(k) \ {r}, m)} }

DeleteItem(u, k, n) ==
  IF n \in Reserved
  THEN {w \in {[Writes EXCEPT !.del.coll = {<<k>>}]} : Owns(u, k)}
  ELSE { [Writes EXCEPT !.del.scen = {s}, !.upd.meta = Again(k)] :
         s \in {r \in Named(k, n) : MayWrite(u, k)} }

\* materialize_workspace_run: the files of a run, written in this order.
RunFiles(k) == Over([n \in NamesIn(Members(k)) |-> rows.scen[CHOOSE s \in Named(k, n) : TRUE].doc],
                    Row(collectionFile, rows.meta[<<k>>]))

\* reorder_collection_scenarios stores the names in the document and no more.
Reorder(u, k) == {w \in {SaveDocument(k, rows.meta[<<k>>])} : MayWrite(u, k)}

--------------------------------------------------------------------------------
(***************************************************************************)
(* Sharing, environment values, forks.                                     *)
(***************************************************************************)
\* Insert the row x of table t, or update it.
Upsert(t, x, row) ==
  IF x \in DOMAIN rows[t] THEN [Writes EXCEPT !.upd[t] = Row(x, row)]
                          ELSE [Writes EXCEPT !.ins[t] = Row(x, row)]

Share(u, k, v, grant) ==
  {w \in {Upsert("share", <<k, v>>, grant)} : Owns(u, k) /\ v # u}

\* A library collection is cloned and the clone shared, in one request.
ShareLibrary(u, v, grant) ==
  { [w EXCEPT !.ins.share = Row(<<k, v>>, grant)] :
    k \in NewId, w \in {x \in CloneLibrary(u, load.library) : v # u} }

UpdateShare(u, k, v, grant) ==
  {w \in {[Writes EXCEPT !.upd.share = Row(<<k, v>>, grant)]} : Owns(u, k) /\ Shared(v, k)}

\* Fault: the values of the recipient go with the share.
RevokeAll(u, k, v) ==
  {w \in {[Writes EXCEPT !.del.share = {<<k, v>>}, !.del.val = {<<k, v>>}]} :
   Owns(u, k) /\ Shared(v, k)}

RevokeShare(u, k, v) ==
  {w \in {[Writes EXCEPT !.del.share = {<<k, v>>}]} : Owns(u, k) /\ Shared(v, k)}

PutValues(u, k, x) == {w \in {Upsert("val", <<k, ValuesOwner(u, k)>>, x)} : MayWrite(u, k)}

\* The values that u reads.
Seen(u, k) ==
  LET x == <<k, ValuesOwner(u, k)>> IN IF x \in DOMAIN rows.val THEN rows.val[x] ELSE none

\* The values a fork takes along.
Copied(u, k) == {<<k, v>> : v \in {u, Owner(k)}} \cap DOMAIN rows.val

\* They all become the forker's.
Fork(u, k) ==
  { [Writes EXCEPT
      !.ins.coll  = Row(<<l>>, [owner |-> u, source |-> k]),
      !.ins.meta  = Row(<<l>>, rows.meta[<<k>>]),
      !.ins.scen  = [s \in {<<l, r[2]>> : r \in Members(k)} |-> rows.scen[<<k, s[2]>>]],
      !.ins.val   = [y \in {<<l, u>> : x \in Copied(u, k)} |->
                      rows.val[CHOOSE x \in Copied(u, k) : TRUE]],
      !.twice     = Cardinality(Copied(u, k)) > 1,
      !.pull      = <<l, k>>] :
    l \in IF MayRead(u, k) THEN NewId ELSE {} }

\* diff_collections: do l and k differ in contents?
Texts(k)      == [n \in NamesIn(Members(k)) |-> rows.scen[CHOOSE s \in Named(k, n) : TRUE].doc]
Differ(l, k)  == Texts(l) # Texts(k) \/ rows.meta[<<l>>] # rows.meta[<<k>>]

\* Fault: what the source does not have stays.
Dropped(l, k) == {}

\* Scenarios that the source does not have.
Gone(l, k) == {s \in Members(l) : rows.scen[s].name \notin NamesIn(Members(k))}

\* Names that l does not have.
NewNames(l, k) == NamesIn(Members(k)) \ NamesIn(Members(l))

SyncFrom(l, k, f) ==
  [Writes EXCEPT
    !.ins.scen = NewRows(l, f, Texts(k)),
    !.upd.scen = [s \in {r \in Members(l) : rows.scen[r].name \in NamesIn(Members(k))} |->
                   [rows.scen[s] EXCEPT !.doc = Texts(k)[rows.scen[s].name]]],
    !.del.scen = Gone(l, k),
    !.upd.meta = Row(<<l>>, rows.meta[<<k>>]),
    !.pull = <<l, k>>]

\* The owner of a fork whose source still exists and is accessible.
Sync(u, l) ==
  UNION {{SyncFrom(l, k, f) : f \in Placed(l, NewNames(l, k))} :
         k \in {j \in load.ids : Owns(u, l) /\ rows.coll[<<l>>].source = j /\ MayRead(u, j)}}

--------------------------------------------------------------------------------
(***************************************************************************)
(* Requests.                                                               *)
(***************************************************************************)
Init ==
  /\ load \in Loads
  /\ rows = NoRows
  /\ tx = [u \in Users |-> none]

MayRequest(u) == tx[u] = none /\ (load.overlap \/ \A v \in Users : tx[v] = none)

\* A request is served: it has read the rows and will write w.
Check(u, w) ==
  /\ tx' = [tx EXCEPT ![u] = w]
  /\ UNCHANGED <<load, rows>>

Live == {x[1] : x \in DOMAIN rows.coll}

CheckCreate(u)  == u \in load.creators /\ \E w \in NewCollection(u) : Check(u, w)
CheckClone(u)   == u \in load.creators /\ \E n \in load.library : \E f \in {load.library, {n}} :
                     \E w \in CloneLibrary(u, f) : Check(u, w)
CheckSave(u)    == \E k \in Live, n \in load.names, b \in BOOLEAN, d \in load.docs :
                     \E w \in SaveFile(u, k, n, b, d) : Check(u, w)
CheckNew(u)     == \E k \in Live, n \in load.names : \E w \in CreateScenario(u, k, n) : Check(u, w)
CheckCopy(u)    == \E k, l \in Live, n \in load.names : \E w \in CopyScenario(u, k, n, l) : Check(u, w)
CheckRename(u)  == \E k \in Live, n, m \in load.names : \E w \in RenameItem(u, k, n, m) : Check(u, w)
CheckDelete(u)  == \E k \in Live, n \in load.names : \E w \in DeleteItem(u, k, n) : Check(u, w)
CheckReorder(u) == \E k \in Live : \E w \in Reorder(u, k) : Check(u, w)
CheckShare(u)   == \E k \in Live, v \in load.users, g \in load.grants :
                     \E w \in Share(u, k, v, g) \cup UpdateShare(u, k, v, g) : Check(u, w)
CheckShareLib(u) == u \in load.creators /\ load.library # {} /\ \E v \in load.users, g \in load.grants :
                      \E w \in ShareLibrary(u, v, g) : Check(u, w)
CheckRevoke(u)  == \E k \in Live, v \in load.users : \E w \in RevokeShare(u, k, v) : Check(u, w)
CheckValues(u)  == \E k \in Live, x \in load.values : \E w \in PutValues(u, k, x) : Check(u, w)
CheckFork(u)    == \E k \in Live : \E w \in Fork(u, k) : Check(u, w)
CheckSync(u)    == \E l \in Live : \E w \in Sync(u, l) : Check(u, w)

\* Fault: only the row of the collection is deleted.
RowsAfter(w) ==
  [t \in Tables |-> LET f == Over(w.ins[t], Over(w.upd[t], rows[t]))
                    IN  Restrict(f, DOMAIN f \ w.del[t])]

\* The tables after the writes of w: a deleted collection takes its rows
\* with it, and forks of it lose their link.
After(w) ==
  LET dead == {x[1] : x \in w.del.coll}
      kept(f, gone) == Restrict(f, {x \in DOMAIN f : x[1] \notin dead /\ x \notin gone})
      new  == [t \in Tables |-> kept(Over(w.ins[t], Over(w.upd[t], rows[t])), w.del[t])]
  IN  [new EXCEPT !.coll = [x \in DOMAIN @ |->
        IF @[x].source \in dead THEN [@[x] EXCEPT !.source = none] ELSE @[x]]]

\* Rows to update are there, rows to insert are not, and belong to a
\* collection that is; a link leads to a collection.
KeysFit(w) ==
  /\ ~w.twice
  /\ \A t \in Tables : /\ DOMAIN w.upd[t] \subseteq DOMAIN rows[t]
                        /\ DOMAIN w.ins[t] \cap DOMAIN rows[t] = {}
                        /\ \A x \in DOMAIN w.ins[t] : Lives(x[1]) \/ <<x[1]>> \in DOMAIN w.ins.coll
  /\ \A x \in DOMAIN w.ins.coll : w.ins.coll[x].source = none \/ Lives(w.ins.coll[x].source)

\* (collection, name) is unique, with the case of the name.
NamesFit(w) ==
  LET scen == After(w).scen
  IN  \A s, r \in DOMAIN scen : (s[1] = r[1] /\ scen[s].name = scen[r].name) => s = r

MayCommit(w) == KeysFit(w) /\ NamesFit(w)

Commit(u) ==
  /\ tx[u] # none
  /\ MayCommit(tx[u])
  /\ rows' = After(tx[u])
  /\ tx' = [tx EXCEPT ![u] = none]
  /\ UNCHANGED load

\* The session is rolled back and the user told so (500).
RollBack(u) ==
  /\ tx[u] # none
  /\ ~MayCommit(tx[u])
  /\ tx' = [tx EXCEPT ![u] = none]
  /\ UNCHANGED <<load, rows>>

Next == \E u \in load.users :
  \/ MayRequest(u) /\ (\/ CheckCreate(u) \/ CheckClone(u) \/ CheckSave(u) \/ CheckNew(u)
                       \/ CheckCopy(u) \/ CheckRename(u) \/ CheckDelete(u) \/ CheckReorder(u)
                       \/ CheckShare(u) \/ CheckShareLib(u) \/ CheckRevoke(u) \/ CheckValues(u)
                       \/ CheckFork(u) \/ CheckSync(u))
  \/ Commit(u) \/ RollBack(u)

Spec == Init /\ [][Next]_vars

--------------------------------------------------------------------------------
(***************************************************************************)
(* Properties.                                                             *)
(***************************************************************************)
File == [name : Names, doc : [title : Names, body : Docs]]

\* Every row belongs to a collection that exists, nobody shares with himself,
\* and links lead to collections.
TypeOK ==
  /\ load \in Loads
  /\ DOMAIN rows.coll \subseteq {<<k>> : k \in Collections}
  /\ \A k \in Live : rows.coll[<<k>>] \in [owner : Users, source : (Live \cup {none}) \ {k}]
  /\ DOMAIN rows.meta = DOMAIN rows.coll /\ Range(rows.meta) \subseteq Docs
  /\ DOMAIN rows.scen \subseteq Live \X Nat /\ Range(rows.scen) \subseteq File
  /\ \A x \in DOMAIN rows.share : x[1] \in Live /\ x[2] \in Users \ {Owner(x[1])}
  /\ Range(rows.share) \subseteq [edit : BOOLEAN, env : BOOLEAN]
  /\ DOMAIN rows.val \subseteq Live \X Users /\ Range(rows.val) \subseteq Values

Alone == ~load.overlap

\* A run gets every document of the collection in a file of its own, however
\* requests overlap; when they come one at a time no two scenarios have names
\* that differ only in their case.  The exception: a scenario named as the
\* collection's file, which nothing refuses, is written over it.
FilesAreDistinct ==
  \A k \in Live : LET count == Cardinality(Members(k)) IN
    /\ collectionFile \notin NamesIn(Members(k)) => Cardinality(DOMAIN RunFiles(k)) = count + 1
    /\ Alone => Cardinality({Fold[n] : n \in NamesIn(Members(k))}) = count

\* A request that meets no other one is not answered with a server error: what
\* it checks is what the tables will require.  The exception is the fork of a
\* collection in which its owner and the forker both have values.
ServedAlone ==
  Alone => \A u \in load.users :
    tx[u] # none /\ ~MayCommit(tx[u]) =>
      \E x \in DOMAIN tx[u].ins.coll :
        LET k == tx[u].ins.coll[x].source
        IN  k # none /\ Owner(k) # u /\ {<<k, u>>, <<k, Owner(k)>>} \subseteq DOMAIN rows.val

\* The contents of a collection: what runs and forks are made of.
Contents(k) == <<rows.meta[<<k>>], {rows.scen[s] : s \in Members(k)}>>
Access(k)   == Restrict(rows.share, {x \in DOMAIN rows.share : x[1] = k})
Ended(u)    == tx[u] # none /\ tx'[u] = none

\* A collection changes only by requests of its owner and of those it is
\* shared with for editing; only its owner changes who that is, and deletes it.
\* (Requests one at a time: an overlapping one goes by what it has read.)
ChangedByAllowed ==
  \A u \in load.users, k \in Live : Ended(u) =>
    /\ (k \in Live' /\ Contents(k)' # Contents(k)) => MayWrite(u, k)
    /\ (k \notin Live' \/ Access(k)' # Access(k)) => Owns(u, k)

OnlyThoseAllowedChange == [][Alone => ChangedByAllowed]_vars

\* The values a user has stored for a collection stay until that user changes
\* them or the collection goes: neither a change of the share, nor its end, nor
\* a new one touches them.  Only those of the owner are also changed by others,
\* who may edit and read those very values.
ValuesKept ==
  \A x \in DOMAIN rows.val : LET k == x[1] IN
    (k \in Live' /\ (x \notin DOMAIN rows.val' \/ rows.val'[x] # rows.val[x])) =>
      \E u \in load.users :
         /\ Ended(u) /\ x \in DOMAIN rows.val'
         /\ u = x[2] \/ x[2] = Owner(k)
         /\ Alone => MayWrite(u, k) /\ Seen(u, k)' = rows.val'[x]

ValuesStay == [][ValuesKept]_vars

\* A pull leaves no difference to the source, whatever both sides did before,
\* and neither does a fork; the source is not touched.
PullsEverything ==
  [][Alone => \A u \in load.users : (Ended(u) /\ tx[u].pull # none /\ rows' # rows) =>
       \E l, k \in Live' : /\ <<l, k>> = tx[u].pull
                           /\ ~Differ(l, k)' /\ Contents(k)' = Contents(k)]_vars

================================================================================
