----------------------------- MODULE WorkspaceProofs -----------------------------
(***************************************************************************)
(* Safety of Workspace for any users, collections, names and loads.        *)
(***************************************************************************)
EXTENDS Workspace, TLAPS, FiniteSetTheorems, SequenceTheorems

(***************************************************************************)
(* The inductive invariant, by parts.                                      *)
(***************************************************************************)
CollRow == [owner : Users, source : Collections \cup {none}]

\* A collection has an owner and a document, and every row belongs to a
\* collection that is there.
RowsInv ==
  /\ \A x \in DOMAIN rows.coll :
       /\ x = <<x[1]>> /\ x[1] \in Collections
       /\ rows.coll[x] \in CollRow
       /\ x \in DOMAIN rows.meta
  /\ \A t \in Tables : \A x \in DOMAIN rows[t] : Lives(x[1])

\* What the writes of any request look like: a new collection comes with its
\* document, a document or somebody's values only go with the collection.
Form(w) ==
  /\ \A x \in DOMAIN w.ins.coll :
       /\ x = <<x[1]>> /\ x[1] \in Collections
       /\ w.ins.coll[x] \in CollRow
       /\ x \in DOMAIN w.ins.meta
  /\ DOMAIN w.upd.coll = {}
  /\ \A x \in w.del.coll : x = <<x[1]>>
  /\ w.del.meta = {} /\ w.del.val = {}

\* A collection that a request creates is not there yet, and no other request
\* writes to it.
Touches(w, k) == \E t \in Tables : \E x \in Keys(w, t) : x[1] = k

FreshInv ==
  \A u \in Users : tx[u] # none => \A x \in DOMAIN tx[u].ins.coll :
    /\ ~Lives(x[1])
    /\ \A v \in Users \ {u} : tx[v] # none => ~Touches(tx[v], x[1])

\* A request writes only values of its user and of the owner.
OwnValues(u, w) ==
  \A x \in DOMAIN w.ins.val \cup DOMAIN w.upd.val :
    x[2] = u \/ (Lives(x[1]) => x[2] = Owner(x[1]))

\* What a request may write, by the rows it has read.
Allowed(u, w) ==
  /\ \A x \in Keys(w, "scen") \cup Keys(w, "meta") : Lives(x[1]) => MayWrite(u, x[1])
  /\ \A x \in Keys(w, "share") \cup w.del.coll : Lives(x[1]) => Owns(u, x[1])
  /\ \A x \in DOMAIN w.upd.val :
       /\ MayWrite(u, x[1])
       /\ x = <<x[1], ValuesOwner(u, x[1])>>
       /\ Keys(w, "share") = {} /\ Keys(w, "coll") = {}

TxInv ==
  /\ load \in Load
  /\ tx = [u \in Users |-> tx[u]]
  /\ \A u \in Users : tx[u] # none => Form(tx[u]) /\ OwnValues(u, tx[u])
  /\ Alone => \A u, v \in Users : tx[u] # none /\ tx[v] # none => u = v
  /\ Alone => \A u \in Users : tx[u] # none => Allowed(u, tx[u])

\* A row of table t, and its key.
RowFits(t, x, row) ==
  /\ t = "coll"  => row \in CollRow /\ row.source # x[1]
  /\ t = "meta"  => x = <<x[1]>> /\ row \in Docs
  /\ t = "scen"  => x = <<x[1], x[2]>> /\ x[2] \in 1 .. load.slots /\ row \in File
  /\ t = "share" => x[2] \in Users /\ row \in [edit : BOOLEAN, env : BOOLEAN]
  /\ t = "val"   => x = <<x[1], x[2]>> /\ x[2] \in Users /\ row \in Values

\* No two scenarios of a collection have the same name; names that differ only
\* in their case.
Unique(scen)   == \A s, r \in DOMAIN scen : (s[1] = r[1] /\ scen[s].name = scen[r].name) => s = r
Distinct(scen) == \A s, r \in DOMAIN scen :
                    (s[1] = r[1] /\ Fold[scen[s].name] = Fold[scen[r].name]) => s = r

\* The rows are well-typed, links lead to collections, nobody shares with
\* himself, documents are of collections, and the names of scenarios differ.
TypedRows ==
  /\ \A t \in Tables : \A x \in DOMAIN rows[t] : RowFits(t, x, rows[t][x])
  /\ \A x \in DOMAIN rows.coll : rows.coll[x].source = none \/ Lives(rows.coll[x].source)
  /\ \A x \in DOMAIN rows.share : x[2] # Owner(x[1])
  /\ DOMAIN rows.meta \subseteq DOMAIN rows.coll
  /\ Unique(rows.scen)
  /\ Alone => Distinct(rows.scen)

\* So are the rows that a request will write.
Typed(w) ==
  /\ \A t \in Tables : /\ \A x \in DOMAIN w.ins[t] : RowFits(t, x, w.ins[t][x])
                       /\ \A x \in DOMAIN w.upd[t] : RowFits(t, x, w.upd[t][x])
  /\ DOMAIN w.ins.meta \subseteq DOMAIN w.ins.coll
  /\ \A x \in DOMAIN w.ins.share : \A y \in DOMAIN w.ins.coll :
       y[1] = x[1] => x[2] # w.ins.coll[y].owner

NotSelf(w) == \A x \in DOMAIN w.ins.share : Lives(x[1]) => x[2] # Owner(x[1])

\* A pull, or a fork: l gets the contents of k, and k is not touched.
RowsOf(scen, k) == {scen[s] : s \in {r \in DOMAIN scen : r[1] = k}}
PullFits(w) ==
  \E l, k : /\ w.pull = <<l, k>> /\ l # k
            /\ Lives(k) /\ ~Touches(w, k)
            /\ Lives(l) \/ <<l>> \in DOMAIN w.ins.coll
            /\ w.del.coll = {}
            /\ w.ins.meta = Row(<<l>>, rows.meta[<<k>>]) \/ w.upd.meta = Row(<<l>>, rows.meta[<<k>>])
            /\ DOMAIN w.ins.meta \cap DOMAIN w.upd.meta = {} /\ w.del.meta = {}
            /\ RowsOf(After(w).scen, l) = RowsOf(rows.scen, k)

\* The fork of a collection in which its owner and the forker have values.
ForksTwoValues(u, w) ==
  \E x \in DOMAIN w.ins.coll : LET k == w.ins.coll[x].source IN
    k # none /\ Owner(k) # u /\ {<<k, u>>, <<k, Owner(k)>>} \subseteq DOMAIN rows.val

\* A request that meets no other one is served, and does what it should.
Clean(u, w) ==
  /\ KeysFit(w) \/ ForksTwoValues(u, w)
  /\ Distinct(After(w).scen)
  /\ w.pull # none => PullFits(w)

SoundInv ==
  /\ load \in Loads
  /\ TypedRows
  /\ \A u \in Users : tx[u] # none =>
       Typed(tx[u]) /\ NotSelf(tx[u]) /\ (Alone => Clean(u, tx[u]))

AccessInv == RowsInv /\ FreshInv /\ TxInv
IInv      == AccessInv /\ SoundInv

\* What a request leaves in tx.
Prepared(u, w) ==
  /\ Form(w) /\ OwnValues(u, w) /\ Allowed(u, w)
  /\ \A x \in DOMAIN w.ins.coll : x[1] \in NewIds
  /\ \A t \in Tables : \A x \in Keys(w, t) : Lives(x[1]) \/ x[1] \in NewIds

--------------------------------------------------------------------------------
USE LoadsAssumption

\* The collections that live, and the identities that are free.
LEMMA LiveKeys ==
  ASSUME RowsInv
  PROVE  \A k : k \in Live <=> Lives(k)
  BY DEF RowsInv, Live, Lives

LEMMA NewIdFacts ==
  ASSUME load \in Load, NEW k \in NewId
  PROVE  /\ k \in NewIds /\ k \in Collections /\ ~Lives(k)
         /\ \A w \in Pending : ~Touches(w, k)
         /\ NewId = {k}
  BY DEF NewId, OneOf, NewIds, Load, Touches

\* A request that prepares nothing.
LEMMA NothingWritten ==
  \A t \in Tables : Writes.ins[t] = Empty /\ Writes.upd[t] = Empty /\ Writes.del[t] = {}
  BY DEF Writes, NoRows, NoKeys

LEMMA RowIs == \A x, r : DOMAIN Row(x, r) = {x} /\ Row(x, r)[x] = r
  BY DEF Row

LEMMA EmptyIs == DOMAIN Empty = {}
  BY DEF Empty

--------------------------------------------------------------------------------
(***************************************************************************)
(* What each request prepares.                                             *)
(***************************************************************************)
\* Writes to the scenarios and the document of one collection, by somebody
\* who may write there.
Within(w, k) ==
  /\ \A t \in {"coll", "share", "val"} : Keys(w, t) = {}
  /\ \A t \in {"scen", "meta"} : \A x \in Keys(w, t) : x[1] = k
  /\ w.del.meta = {}

LEMMA WithinIsPrepared ==
  ASSUME NEW u, NEW w, NEW k, Within(w, k), Lives(k), MayWrite(u, k)
  PROVE  Prepared(u, w)
<1>1. /\ DOMAIN w.ins.coll = {} /\ DOMAIN w.upd.coll = {} /\ w.del.coll = {}
      /\ DOMAIN w.ins.val = {} /\ DOMAIN w.upd.val = {} /\ w.del.val = {}
  BY DEF Within, Keys
<1>2. \A t \in Tables : \A x \in Keys(w, t) : x[1] = k
  BY DEF Within, Tables
<1>3. Form(w) /\ OwnValues(u, w)
  BY <1>1 DEF Form, OwnValues, Within
<1>4. Allowed(u, w)
  BY <1>1, <1>2 DEF Allowed, Within
<1> QED
  BY <1>1, <1>2, <1>3, <1>4 DEF Prepared

\* The keys of a table, by what is written to it.
LEMMA KeysAre ==
  ASSUME NEW w, NEW t
  PROVE  /\ w.ins[t] = Empty /\ w.upd[t] = Empty => Keys(w, t) = w.del[t]
         /\ \A x, r : w.ins[t] = Row(x, r) /\ w.upd[t] = Empty /\ w.del[t] = {} =>
              Keys(w, t) = {x}
         /\ \A x, r : w.ins[t] = Empty /\ w.upd[t] = Row(x, r) /\ w.del[t] = {} =>
              Keys(w, t) = {x}
<1>1. w.ins[t] = Empty /\ w.upd[t] = Empty => Keys(w, t) = w.del[t]
  BY EmptyIs DEF Keys
<1>2. ASSUME NEW x, NEW r, w.ins[t] = Row(x, r), w.upd[t] = Empty, w.del[t] = {}
      PROVE  Keys(w, t) = {x}
  BY <1>2, RowIs, EmptyIs DEF Keys
<1>3. ASSUME NEW x, NEW r, w.ins[t] = Empty, w.upd[t] = Row(x, r), w.del[t] = {}
      PROVE  Keys(w, t) = {x}
  BY <1>3, RowIs, EmptyIs DEF Keys
<1> QED
  BY <1>1, <1>2, <1>3

\* The scenarios that are inserted, updated and deleted, and the document.
Edits(w, ins, upd, del, doc) ==
  /\ \A t \in Tables \ {"scen"} : w.ins[t] = Empty /\ w.del[t] = {}
  /\ \A t \in Tables \ {"scen", "meta"} : w.upd[t] = Empty
  /\ w.ins["scen"] = ins /\ w.upd["scen"] = upd /\ w.del["scen"] = del
  /\ w.upd["meta"] = doc
  /\ ~w.twice

LEMMA EditsWithin ==
  ASSUME NEW w, NEW k, NEW ins, NEW upd, NEW del, NEW doc, Edits(w, ins, upd, del, doc),
         \A x \in DOMAIN ins \cup DOMAIN upd \cup del : x[1] = k,
         \A x \in DOMAIN doc : x = <<k>>
  PROVE  Within(w, k)
<1>1. \A t \in {"coll", "share", "val"} : Keys(w, t) = {}
  BY KeysAre DEF Edits, Tables
<1>2. \A x \in Keys(w, "scen") : x[1] = k
  BY DEF Edits, Keys
<1>3. w.ins["meta"] = Empty /\ w.del["meta"] = {} /\ w.upd["meta"] = doc
  BY DEF Edits, Tables
<1>4. \A x \in Keys(w, "meta") : x[1] = k
  BY <1>3, EmptyIs DEF Keys
<1> QED
  BY <1>1, <1>2, <1>3, <1>4 DEF Within

LEMMA SaveDocumentIs ==
  ASSUME NEW k, NEW d, NEW w, w = SaveDocument(k, d)
  PROVE  Edits(w, Empty, Empty, {}, Row(<<k>>, d)) /\ w.pull = none
  BY DEF SaveDocument, Edits, Writes, NoRows, NoKeys, Tables

LEMMA AttachIs ==
  ASSUME NEW k, NEW n, NEW doc, NEW w \in Attach(k, n, doc)
  PROVE  \E i \in Slots(k), m \in UniqueName(k, n) :
           /\ Edits(w, Row(<<k, i>>, [name |-> m, doc |-> doc]), Empty, {}, Again(k))
           /\ w.pull = none
<1>1. PICK i \in OneOf(Slots(k)), m \in UniqueName(k, n) :
        w = NewScenario(k, i, m, doc)
  BY DEF Attach
<1>2. i \in Slots(k)
  BY DEF OneOf
<1>3. /\ Edits(w, Row(<<k, i>>, [name |-> m, doc |-> doc]), Empty, {}, Again(k))
      /\ w.pull = none
  BY <1>1 DEF NewScenario, Edits, Writes, NoRows, NoKeys, Tables
<1> QED
  BY <1>2, <1>3

\* One scenario is written, in place, or deleted.
LEMMA UpdateIs ==
  ASSUME NEW k, NEW s, NEW row, NEW w
  PROVE  /\ w = [Writes EXCEPT !.upd.scen = Row(s, row)] =>
              Edits(w, Empty, Row(s, row), {}, Empty) /\ w.pull = none
         /\ w = [Writes EXCEPT !.upd.scen = Row(s, row), !.upd.meta = Again(k)] =>
              Edits(w, Empty, Row(s, row), {}, Again(k)) /\ w.pull = none
         /\ w = [Writes EXCEPT !.del.scen = {s}, !.upd.meta = Again(k)] =>
              Edits(w, Empty, Empty, {s}, Again(k)) /\ w.pull = none
<1>1. ASSUME w = [Writes EXCEPT !.upd.scen = Row(s, row)]
      PROVE  Edits(w, Empty, Row(s, row), {}, Empty) /\ w.pull = none
  BY <1>1 DEF Edits, Writes, NoRows, NoKeys, Tables
<1>2. ASSUME w = [Writes EXCEPT !.upd.scen = Row(s, row), !.upd.meta = Again(k)]
      PROVE  Edits(w, Empty, Row(s, row), {}, Again(k)) /\ w.pull = none
  BY <1>2 DEF Edits, Writes, NoRows, NoKeys, Tables
<1>3. ASSUME w = [Writes EXCEPT !.del.scen = {s}, !.upd.meta = Again(k)]
      PROVE  Edits(w, Empty, Empty, {s}, Again(k)) /\ w.pull = none
  BY <1>3 DEF Edits, Writes, NoRows, NoKeys, Tables
<1> QED
  BY <1>1, <1>2, <1>3

\* The owner of a collection may write to it.
LEMMA OwnerMayWrite == \A u, k : Owns(u, k) => MayWrite(u, k) /\ Lives(k)
  BY DEF Owns, MayWrite

\* A request on the files of k by somebody who may write there: the document,
\* a new scenario, a scenario that is saved or renamed, or that is deleted.
FileEdit(w, k) ==
  \/ \E d \in Docs : Edits(w, Empty, Empty, {}, Row(<<k>>, d))
  \/ \E i \in Slots(k), row \in File :
       Edits(w, Row(<<k, i>>, row), Empty, {}, Again(k)) /\ ~Taken(Members(k), row.name)
  \/ \E s \in Members(k), row \in File, doc \in {Empty, Again(k)} :
       /\ Edits(w, Empty, Row(s, row), {}, doc)
       /\ row.name = rows.scen[s].name \/ ~Taken(Members(k) \ {s}, row.name)
  \/ \E s \in Members(k) : Edits(w, Empty, Empty, {s}, Again(k))

LEMMA FileEditWithin ==
  ASSUME NEW w, NEW k, FileEdit(w, k)
  PROVE  Within(w, k)
<1>1. \A s \in Members(k) : s[1] = k
  BY DEF Members
<1>2. DOMAIN Again(k) = {<<k>>} /\ DOMAIN Empty = {} /\ \A x, r : DOMAIN Row(x, r) = {x}
  BY RowIs, EmptyIs DEF Again
<1>3. CASE \E d : Edits(w, Empty, Empty, {}, Row(<<k>>, d))
  BY <1>2, <1>3, EditsWithin
<1>4. CASE \E i, row : Edits(w, Row(<<k, i>>, row), Empty, {}, Again(k))
  <2>1. PICK i, row : Edits(w, Row(<<k, i>>, row), Empty, {}, Again(k))
    BY <1>4
  <2>2. PICK f : f = Row(<<k, i>>, row) /\ Edits(w, f, Empty, {}, Again(k))
    BY <2>1
  <2>3. DOMAIN f = {<<k, i>>}
    BY <2>2, RowIs
  <2> QED
    BY <1>2, <2>2, <2>3, EditsWithin
<1>5. CASE \E s \in Members(k) : \E row : \E doc \in {Empty, Again(k)} :
               Edits(w, Empty, Row(s, row), {}, doc)
  <2>1. PICK s \in Members(k) : \E row : \E doc \in {Empty, Again(k)} :
          Edits(w, Empty, Row(s, row), {}, doc)
    BY <1>5
  <2>1a. PICK row : \E doc \in {Empty, Again(k)} : Edits(w, Empty, Row(s, row), {}, doc)
    BY <2>1
  <2>1b. PICK doc \in {Empty, Again(k)} : Edits(w, Empty, Row(s, row), {}, doc)
    BY <2>1a
  <2>2. PICK f : f = Row(s, row) /\ Edits(w, Empty, f, {}, doc)
    BY <2>1b
  <2>3. DOMAIN f = {s} /\ s[1] = k
    BY <1>1, <2>2, RowIs
  <2> QED
    BY <1>2, <2>2, <2>3, EditsWithin
<1>6. CASE \E s \in Members(k) : Edits(w, Empty, Empty, {s}, Again(k))
  BY <1>1, <1>2, <1>6, EditsWithin
<1> QED
  BY <1>3, <1>4, <1>5, <1>6 DEF FileEdit

\* The names a new scenario may get are free.
LEMMA UniqueNameIsFree ==
  ASSUME NEW k, NEW n \in Names, NEW m \in UniqueName(k, n)
  PROVE  m \in Names /\ ~Taken(Members(k), m)
<1>1. Candidates[n] \in Seq(Names)
  BY CandidatesAssumption
<1>2. PICK i \in DOMAIN Candidates[n] :
        m = Candidates[n][i] /\ ~Taken(Members(k), Candidates[n][i])
  BY DEF UniqueName
<1>3. DOMAIN Candidates[n] = 1 .. Len(Candidates[n])
  BY <1>1, LenProperties
<1> QED
  BY <1>1, <1>2, <1>3, ElementOfSeq

LEMMA AttachEdits ==
  ASSUME NEW k, NEW n \in Names, NEW doc \in [title : Names, body : Docs],
         NEW w \in Attach(k, n, doc)
  PROVE  FileEdit(w, k) /\ w.pull = none
<1>1. PICK i \in Slots(k), m \in UniqueName(k, n) :
        /\ Edits(w, Row(<<k, i>>, [name |-> m, doc |-> doc]), Empty, {}, Again(k))
        /\ w.pull = none
  BY AttachIs
<1>2. PICK row : row = [name |-> m, doc |-> doc]
  OBVIOUS
<1>3. row \in File /\ row.name = m
  BY <1>2, UniqueNameIsFree DEF File
<1> QED
  BY <1>1, <1>2, <1>3, UniqueNameIsFree DEF FileEdit

LEMMA FilesAreEdited ==
  ASSUME RowsInv, TypedRows, NEW u, NEW k \in Live, NEW n \in Names, NEW w,
         \/ \E b : \E d \in Docs : w \in SaveFile(u, k, n, b, d)
         \/ w \in CreateScenario(u, k, n)
         \/ \E m \in Names : w \in RenameItem(u, k, n, m)
         \/ n \notin Reserved /\ w \in DeleteItem(u, k, n)
         \/ w \in Reorder(u, k)
  PROVE  MayWrite(u, k) /\ FileEdit(w, k) /\ w.pull = none
<1>1. /\ Lives(k) /\ \A m : \A s \in Named(k, m) : s \in Members(k) /\ rows.scen[s].name = m
      /\ rows.meta[<<k>>] \in Docs
      /\ \A s \in Members(k) : rows.scen[s] \in File
  <2>1. Lives(k) /\ <<k>> \in DOMAIN rows["meta"]
    BY LiveKeys DEF RowsInv, Lives
  <2>2. rows["meta"][<<k>>] \in Docs /\ \A s \in DOMAIN rows["scen"] : rows["scen"][s] \in File
    BY <2>1 DEF TypedRows, RowFits, Tables
  <2> QED
    BY <2>1, <2>2 DEF Named, Members
<1>2. \A d \in Docs : w = SaveDocument(k, d) => FileEdit(w, k) /\ w.pull = none
  BY SaveDocumentIs DEF FileEdit
<1>3. \A m \in Names, d \in Docs : Doc(m, d) \in [title : Names, body : Docs]
                                    /\ [name |-> m, doc |-> Doc(m, d)] \in File
                                    /\ [name |-> m, doc |-> Doc(m, d)].name = m
  BY DEF Doc, File
<1>4. ASSUME NEW b, NEW d \in Docs, w \in SaveFile(u, k, n, b, d)
      PROVE  MayWrite(u, k) /\ FileEdit(w, k) /\ w.pull = none
  <2>1. MayWrite(u, k)
    BY <1>4 DEF SaveFile
  <2>2. \/ w = SaveDocument(k, d)
        \/ w \in Attach(k, n, Doc(n, d))
        \/ \E s \in Named(k, n) :
             w = [Writes EXCEPT !.upd.scen = Row(s, [name |-> n, doc |-> Doc(n, d)])]
    BY <1>4 DEF SaveFile
  <2>3. ASSUME NEW s \in Named(k, n), NEW row, row = [name |-> n, doc |-> Doc(n, d)],
               w = [Writes EXCEPT !.upd.scen = Row(s, row)]
        PROVE  FileEdit(w, k) /\ w.pull = none
    <3>1. Edits(w, Empty, Row(s, row), {}, Empty) /\ w.pull = none
      BY <2>3, UpdateIs
    <3>2. row \in File /\ row.name = rows.scen[s].name /\ s \in Members(k)
      BY <1>1, <1>3, <2>3
    <3> QED
      BY <3>1, <3>2 DEF FileEdit
  <2> QED
    BY <1>2, <1>3, <2>1, <2>2, <2>3, AttachEdits
<1>5. CASE w \in CreateScenario(u, k, n)
  <2>1. PICK m \in UniqueName(k, n) : MayWrite(u, k) /\ w \in Attach(k, m, Doc(m, blank))
    BY <1>5 DEF CreateScenario
  <2>2. m \in Names
    BY UniqueNameIsFree
  <2> QED
    <3>1. PICK doc : doc = Doc(m, blank)
      OBVIOUS
    <3>2. doc \in [title : Names, body : Docs]
      BY <1>3, <2>2, <3>1, BlankAssumption
    <3> QED
      BY <2>1, <2>2, <3>1, <3>2, AttachEdits
<1>6. ASSUME NEW m \in Names, w \in RenameItem(u, k, n, m)
      PROVE  MayWrite(u, k) /\ FileEdit(w, k) /\ w.pull = none
  <2>1. CASE n \in Reserved
    BY <1>1, <1>2, <1>6, <2>1, OwnerMayWrite DEF RenameItem
  <2>2. CASE n \notin Reserved
    <3>1. PICK s \in {r \in Named(k, n) : MayWrite(u, k) /\ ~Taken(Members(k) \ {r}, m)} :
            w = [Writes EXCEPT
                   !.upd.scen = Row(s, [name |-> m, doc |-> Doc(m, rows.scen[s].doc.body)]),
                   !.upd.meta = Again(k)]
      BY <1>6, <2>2 DEF RenameItem
    <3>2. PICK row : row = [name |-> m, doc |-> Doc(m, rows.scen[s].doc.body)]
      OBVIOUS
    <3>3. s \in Members(k) /\ rows.scen[s].doc.body \in Docs
      BY <1>1, <3>1 DEF File
    <3>4. row \in File /\ row.name = m
      BY <1>3, <3>2, <3>3
    <3>5. Edits(w, Empty, Row(s, row), {}, Again(k)) /\ w.pull = none
      BY <3>1, <3>2, UpdateIs
    <3> QED
      BY <3>1, <3>3, <3>4, <3>5 DEF FileEdit
  <2> QED
    BY <2>1, <2>2
<1>7. CASE n \notin Reserved /\ w \in DeleteItem(u, k, n)
  <2>1. PICK s \in {r \in Named(k, n) : MayWrite(u, k)} :
          w = [Writes EXCEPT !.del.scen = {s}, !.upd.meta = Again(k)]
    BY <1>7 DEF DeleteItem
  <2> QED
    BY <1>1, <2>1, UpdateIs DEF FileEdit
<1>8. CASE w \in Reorder(u, k)
  BY <1>1, <1>2, <1>8 DEF Reorder
<1> QED
  BY <1>4, <1>5, <1>6, <1>7, <1>8

LEMMA CopiesAreEdits ==
  ASSUME TypedRows, NEW u, NEW k, NEW l, NEW n \in Names, NEW w \in CopyScenario(u, k, n, l)
  PROVE  MayWrite(u, l) /\ FileEdit(w, l) /\ w.pull = none
<1>1. PICK s \in Named(k, n) : MayWrite(u, l) /\ w \in Attach(l, n, rows.scen[s].doc)
  BY DEF CopyScenario
<1>2. rows["scen"][s] \in File
  BY DEF Named, Members, TypedRows, RowFits, Tables
<1> QED
  BY <1>1, <1>2, AttachEdits DEF File

LEMMA EditIsPrepared ==
  ASSUME NEW u, NEW w, NEW k, Lives(k), MayWrite(u, k), FileEdit(w, k)
  PROVE  Prepared(u, w)
  BY FileEditWithin, WithinIsPrepared

\* Deleting a collection deletes its row; the tables see to the others.
LEMMA DeletePrepared ==
  ASSUME RowsInv, NEW u, NEW k \in Live, NEW n \in Reserved, NEW w \in DeleteItem(u, k, n)
  PROVE  Prepared(u, w)
<1>1. Owns(u, k) /\ w = [Writes EXCEPT !.del.coll = {<<k>>}]
  BY DEF DeleteItem
<1>2. /\ \A t \in Tables : w.ins[t] = Empty /\ w.upd[t] = Empty
      /\ \A t \in Tables \ {"coll"} : w.del[t] = {}
      /\ w.del["coll"] = {<<k>>}
  BY <1>1 DEF Writes, NoRows, NoKeys, Tables
<1>3. Keys(w, "coll") = {<<k>>} /\ \A t \in Tables \ {"coll"} : Keys(w, t) = {}
  <2>1. Keys(w, "coll") = w.del["coll"]
    BY <1>2, KeysAre DEF Tables
  <2>2. \A t \in Tables \ {"coll"} : Keys(w, t) = {}
    BY <1>2, KeysAre
  <2> QED
    BY <1>2, <2>1, <2>2
<1>4. /\ DOMAIN w.ins.coll = {} /\ DOMAIN w.upd.coll = {} /\ w.del.coll = {<<k>>}
      /\ DOMAIN w.ins.val = {} /\ DOMAIN w.upd.val = {}
      /\ w.del.val = {} /\ w.del.meta = {}
  BY <1>2, EmptyIs DEF Tables
<1>5. Form(w) /\ OwnValues(u, w)
  BY <1>4 DEF Form, OwnValues
<1>6. Allowed(u, w)
  <2>1. Keys(w, "scen") = {} /\ Keys(w, "meta") = {} /\ Keys(w, "share") = {}
    BY <1>3 DEF Tables
  <2>2. Owns(u, k) /\ w.del.coll = {<<k>>} /\ DOMAIN w.upd.val = {}
    BY <1>1, <1>4
  <2> QED
    BY <2>1, <2>2 DEF Allowed
<1>7. \A t \in Tables : \A x \in Keys(w, t) : Lives(x[1])
  <2>1. Lives(k)
    BY LiveKeys
  <2>2. SUFFICES ASSUME NEW t \in Tables, NEW x \in Keys(w, t) PROVE x[1] = k
    BY <2>1
  <2> QED
    BY <1>3
<1> QED
  BY <1>4, <1>5, <1>6, <1>7 DEF Prepared

LEMMA SharePrepared ==
  ASSUME RowsInv, NEW u, NEW k \in Live, NEW v, NEW g, NEW w,
         w \in Share(u, k, v, g) \cup UpdateShare(u, k, v, g) \cup RevokeShare(u, k, v)
  PROVE  Prepared(u, w)
<1>1. Owns(u, k)
  BY DEF Share, UpdateShare, RevokeShare
<1>2. /\ \A t \in Tables \ {"share"} : w.ins[t] = Empty /\ w.upd[t] = Empty /\ w.del[t] = {}
      /\ \/ w.ins["share"] = Row(<<k, v>>, g) /\ w.upd["share"] = Empty /\ w.del["share"] = {}
         \/ w.ins["share"] = Empty /\ w.upd["share"] = Row(<<k, v>>, g) /\ w.del["share"] = {}
         \/ w.ins["share"] = Empty /\ w.upd["share"] = Empty /\ w.del["share"] = {<<k, v>>}
  <2>1. \/ w = [Writes EXCEPT !.upd["share"] = Row(<<k, v>>, g)]
        \/ w = [Writes EXCEPT !.ins["share"] = Row(<<k, v>>, g)]
        \/ w = [Writes EXCEPT !.del["share"] = {<<k, v>>}]
    BY DEF Share, UpdateShare, RevokeShare, Upsert
  <2> QED
    BY <2>1 DEF Writes, NoRows, NoKeys, Tables
<1>3. Keys(w, "share") = {<<k, v>>} /\ \A t \in Tables \ {"share"} : Keys(w, t) = {}
  BY <1>2, KeysAre DEF Tables
<1>4. /\ DOMAIN w.ins.coll = {} /\ DOMAIN w.upd.coll = {} /\ w.del.coll = {}
      /\ DOMAIN w.ins.val = {} /\ DOMAIN w.upd.val = {}
      /\ w.del.val = {} /\ w.del.meta = {}
  BY <1>2, EmptyIs DEF Tables
<1>5. Form(w) /\ OwnValues(u, w)
  BY <1>4 DEF Form, OwnValues
<1>6. Allowed(u, w)
  BY <1>1, <1>3, <1>4 DEF Allowed, Tables
<1>7. \A t \in Tables : \A x \in Keys(w, t) : Lives(x[1])
  BY <1>3, LiveKeys
<1> QED
  BY <1>4, <1>5, <1>6, <1>7 DEF Prepared

LEMMA ValuesPrepared ==
  ASSUME RowsInv, NEW u, NEW k \in Live, NEW v, NEW w \in PutValues(u, k, v)
  PROVE  Prepared(u, w)
<1> DEFINE x == <<k, ValuesOwner(u, k)>>
<1>1. MayWrite(u, k) /\ w = Upsert("val", x, v) /\ Lives(k)
  BY LiveKeys DEF PutValues
<1>2. /\ \A t \in Tables \ {"val"} : w.ins[t] = Empty /\ w.upd[t] = Empty /\ w.del[t] = {}
      /\ \/ w.ins["val"] = Row(x, v) /\ w.upd["val"] = Empty /\ w.del["val"] = {}
         \/ w.ins["val"] = Empty /\ w.upd["val"] = Row(x, v) /\ w.del["val"] = {}
  <2>1. \/ w = [Writes EXCEPT !.upd["val"] = Row(x, v)]
        \/ w = [Writes EXCEPT !.ins["val"] = Row(x, v)]
    BY <1>1 DEF Upsert
  <2> QED
    BY <2>1 DEF Writes, NoRows, NoKeys, Tables
<1>3. Keys(w, "val") = {x} /\ \A t \in Tables \ {"val"} : Keys(w, t) = {}
  BY <1>2, KeysAre DEF Tables
<1>4. /\ DOMAIN w.ins.coll = {} /\ DOMAIN w.upd.coll = {} /\ w.del.coll = {}
      /\ DOMAIN w.ins.val \cup DOMAIN w.upd.val = {x}
      /\ w.del.val = {} /\ w.del.meta = {}
  BY <1>2, RowIs, EmptyIs DEF Tables
<1>5. Form(w) /\ OwnValues(u, w)
  BY <1>4 DEF Form, OwnValues, ValuesOwner
<1>6. Allowed(u, w)
  BY <1>1, <1>3, <1>4 DEF Allowed, Tables
<1>7. \A t \in Tables : \A y \in Keys(w, t) : Lives(y[1])
  BY <1>1, <1>3
<1> QED
  BY <1>4, <1>5, <1>6, <1>7 DEF Prepared

--------------------------------------------------------------------------------
(***************************************************************************)
(* Requests that create a collection.                                      *)
(***************************************************************************)
\* Writes that belong to a new collection k of user u, all of them.
Creates(w, u, k) ==
  /\ \A t \in Tables : w.upd[t] = Empty /\ w.del[t] = {}
  /\ DOMAIN w.ins["coll"] = {<<k>>} /\ w.ins["coll"][<<k>>] \in CollRow
  /\ DOMAIN w.ins["meta"] = {<<k>>}
  /\ \A t \in Tables : \A x \in DOMAIN w.ins[t] : x[1] = k
  /\ \A x \in DOMAIN w.ins["val"] : x[2] = u

LEMMA CreatesIsPrepared ==
  ASSUME load \in Load, NEW u, NEW k \in NewId, NEW w, Creates(w, u, k)
  PROVE  Prepared(u, w)
<1>1. k \in NewIds /\ k \in Collections /\ Lives(k) = FALSE
  BY NewIdFacts
<1>2. \A t \in Tables : \A x \in Keys(w, t) : x[1] = k
  BY EmptyIs DEF Creates, Keys
<1>3. /\ DOMAIN w.ins.coll = {<<k>>} /\ w.ins.coll[<<k>>] \in CollRow
      /\ DOMAIN w.ins.meta = {<<k>>}
      /\ DOMAIN w.upd.coll = {} /\ w.del.coll = {}
      /\ DOMAIN w.upd.val = {} /\ \A x \in DOMAIN w.ins.val : x[2] = u
      /\ w.del.val = {} /\ w.del.meta = {}
  BY EmptyIs DEF Creates, Tables
<1>4. Form(w) /\ OwnValues(u, w)
  BY <1>1, <1>3 DEF Form, OwnValues
<1>5. Allowed(u, w)
  BY <1>1, <1>2, <1>3 DEF Allowed, Tables
<1> QED
  BY <1>1, <1>2, <1>3, <1>4, <1>5 DEF Prepared

\* A new collection, and what may come with it: its scenarios or a share.
NewWrites(u, k) == [Writes EXCEPT !.ins.coll = Row(<<k>>, [owner |-> u, source |-> none]),
                                  !.ins.meta = Row(<<k>>, blank)]

LEMMA NewCollectionIs ==
  ASSUME load \in Load, NEW u, NEW w \in NewCollection(u), NEW k \in NewId
  PROVE  w = NewWrites(u, k)
  BY NewIdFacts DEF NewCollection, NewWrites

LEMMA CreatesBy ==
  ASSUME load \in Load, NEW u \in Users, NEW k \in NewId, NEW w,
         \A t \in Tables : w.upd[t] = Empty /\ w.del[t] = {},
         w.ins["coll"] = Row(<<k>>, [owner |-> u, source |-> none]),
         w.ins["meta"] = Row(<<k>>, blank),
         w.ins["val"] = Empty,
         \A x \in DOMAIN w.ins["scen"] : x[1] = k,
         \A x \in DOMAIN w.ins["share"] : x[1] = k
  PROVE  Creates(w, u, k)
<1>1. [owner |-> u, source |-> none] \in CollRow
  BY DEF CollRow
<1>2. /\ DOMAIN w.ins["coll"] = {<<k>>} /\ w.ins["coll"][<<k>>] \in CollRow
      /\ DOMAIN w.ins["meta"] = {<<k>>} /\ DOMAIN w.ins["val"] = {}
  <2>1. \A x, r : r \in CollRow => DOMAIN Row(x, r) = {x} /\ Row(x, r)[x] \in CollRow
    BY RowIs
  <2> QED
    BY <1>1, <2>1, RowIs, EmptyIs
<1>3. \A t \in Tables : \A x \in DOMAIN w.ins[t] : x[1] = k
  BY <1>2 DEF Tables
<1> QED
  BY <1>2, <1>3 DEF Creates

\* The rows that a request inserts, by tables.
Five(a, b, c, d, e) == [NoRows EXCEPT !["coll"] = a, !["meta"] = b, !["scen"] = c,
                                      !["val"] = d, !["share"] = e]

LEMMA InsertedAre ==
  /\ \A t \in Tables : NoRows[t] = Empty /\ NoKeys[t] = {}
  /\ \A a, b, c, d, e :
       /\ Five(a, b, c, d, e)["coll"] = a /\ Five(a, b, c, d, e)["meta"] = b
       /\ Five(a, b, c, d, e)["scen"] = c /\ Five(a, b, c, d, e)["val"] = d
       /\ Five(a, b, c, d, e)["share"] = e
<1>1. DOMAIN NoRows = {"coll", "meta", "scen", "share", "val"}
  BY DEF NoRows, Tables
<1>2. \A t \in Tables : NoRows[t] = Empty /\ NoKeys[t] = {}
  BY DEF NoRows, NoKeys
<1> QED
  BY <1>1, <1>2 DEF Five

LEMMA FewerInserted ==
  ASSUME NEW a, NEW b, NEW c, NEW e
  PROVE  /\ [NoRows EXCEPT !["coll"] = a, !["meta"] = b] = Five(a, b, Empty, Empty, Empty)
         /\ [NoRows EXCEPT !["coll"] = a, !["meta"] = b, !["scen"] = c] =
            Five(a, b, c, Empty, Empty)
         /\ [NoRows EXCEPT !["coll"] = a, !["meta"] = b, !["scen"] = c, !["val"] = e] =
            Five(a, b, c, e, Empty)
         /\ [NoRows EXCEPT !["coll"] = a, !["meta"] = b, !["scen"] = c, !["share"] = e] =
            Five(a, b, c, Empty, e)
  BY DEF NoRows, Tables, Five

LEMMA NewPrepared ==
  ASSUME load \in Load, NEW u \in Users, NEW w \in NewCollection(u)
  PROVE  Prepared(u, w)
<1>1. PICK k \in NewId : TRUE
  BY DEF NewCollection
<1> DEFINE a == Row(<<k>>, [owner |-> u, source |-> none])
           b == Row(<<k>>, blank)
<1>2. w = [Writes EXCEPT !.ins.coll = a, !.ins.meta = b]
  <2>1. w = NewWrites(u, k)
    BY NewCollectionIs
  <2> QED
    BY <2>1 DEF NewWrites
<1> HIDE DEF a, b
<1>3. w.ins = Five(a, b, Empty, Empty, Empty)
  <2>1. w.ins = [NoRows EXCEPT !["coll"] = a, !["meta"] = b]
    BY <1>2 DEF Writes
  <2> QED
    BY <2>1, FewerInserted
<1>3a. w.upd = NoRows /\ w.del = NoKeys
  BY <1>2 DEF Writes
<1>4. /\ \A t \in Tables : w.upd[t] = Empty /\ w.del[t] = {}
      /\ w.ins["coll"] = a /\ w.ins["meta"] = b
      /\ w.ins["val"] = Empty /\ w.ins["scen"] = Empty /\ w.ins["share"] = Empty
  BY <1>3, <1>3a, InsertedAre
<1>5. Creates(w, u, k)
  BY <1>4, CreatesBy, EmptyIs DEF a, b
<1> QED
  BY <1>5, CreatesIsPrepared

HasFields(w) ==
  w = [ins |-> w.ins, upd |-> w.upd, del |-> w.del, twice |-> w.twice, pull |-> w.pull]

\* New rows, by the name that each gets.
LEMMA NewRowsIn == \A k, f, docs : \A x \in DOMAIN NewRows(k, f, docs) : x[1] = k
  BY DEF NewRows

LEMMA NewRowIs ==
  ASSUME NEW k, NEW N, NEW S, NEW f \in Injection(N, S), NEW docs, NEW n \in N
  PROVE  NewRows(k, f, docs)[<<k, f[n]>>] = [name |-> n, doc |-> docs[n]]
<1>1. f \in [N -> S] /\ \A m, r \in N : f[m] = f[r] => m = r
  BY DEF Injection, IsInjective
<1>2. n = CHOOSE m \in N : f[m] = f[n]
  BY <1>1
<1>3. DOMAIN f = N /\ <<k, f[n]>>[2] = f[n]
  BY <1>1
<1> QED
  BY <1>2, <1>3 DEF NewRows

\* A clone of library files, by its fields.
CloneOf(w, u, k, f) ==
  /\ w.ins = Five(Row(<<k>>, [owner |-> u, source |-> none]), Row(<<k>>, blank), f, Empty, Empty)
  /\ w.upd = NoRows /\ w.del = NoKeys /\ ~w.twice /\ w.pull = none

LibraryRows(k, f, files) == NewRows(k, f, [n \in files |-> Doc(n, blank)])

LEMMA CloneIs ==
  ASSUME load \in Load, NEW u, NEW files, NEW w \in CloneLibrary(u, files)
  PROVE  \E k \in NewId : \E f \in Injection(files, Slots(k)) :
           CloneOf(w, u, k, LibraryRows(k, f, files)) /\ HasFields(w)
<1>0. PICK k \in NewId : \E g \in Injection(files, Slots(k)) : \E v \in NewCollection(u) :
        w = [v EXCEPT !.ins.scen = LibraryRows(k, g, files)]
  BY DEF CloneLibrary, Placed, OneOf, LibraryRows
<1>1. PICK g \in Injection(files, Slots(k)), v \in NewCollection(u) :
        w = [v EXCEPT !.ins.scen = LibraryRows(k, g, files)]
  BY <1>0
<1> DEFINE f == LibraryRows(k, g, files)
           a == Row(<<k>>, [owner |-> u, source |-> none])
           b == Row(<<k>>, blank)
<1>3. w = [v EXCEPT !.ins.scen = f]
  BY <1>1
<1>4. v = [Writes EXCEPT !.ins.coll = a, !.ins.meta = b]
  <2>1. v = NewWrites(u, k)
    BY NewCollectionIs
  <2> QED
    BY <2>1 DEF NewWrites
<1> HIDE DEF f, a, b
<1>5. /\ v.ins = [NoRows EXCEPT !["coll"] = a, !["meta"] = b] /\ v.upd = NoRows /\ v.del = NoKeys
      /\ ~v.twice /\ v.pull = none
  BY <1>4 DEF Writes
<1>6. HasFields(v)
  BY <1>4 DEF Writes, HasFields
<1>7. /\ w.ins = [v.ins EXCEPT !["scen"] = f] /\ w.upd = v.upd /\ w.del = v.del
      /\ w.twice = v.twice /\ w.pull = v.pull
      /\ HasFields(w)
  BY <1>3, <1>6 DEF HasFields
<1>8. w.ins = [NoRows EXCEPT !["coll"] = a, !["meta"] = b, !["scen"] = f]
  BY <1>5, <1>7
<1>9. w.ins = Five(a, b, f, Empty, Empty)
  BY <1>8, FewerInserted
<1> QED
  BY <1>5, <1>7, <1>9 DEF CloneOf, a, b, f

LEMMA ClonePrepared ==
  ASSUME load \in Load, NEW u \in Users, NEW files, NEW w \in CloneLibrary(u, files)
  PROVE  Prepared(u, w)
<1>0. PICK k \in NewId : \E g \in Injection(files, Slots(k)) :
        CloneOf(w, u, k, LibraryRows(k, g, files))
  BY CloneIs
<1>1. PICK g \in Injection(files, Slots(k)) : CloneOf(w, u, k, LibraryRows(k, g, files))
  BY <1>0
<1>2. PICK f : f = LibraryRows(k, g, files) /\ CloneOf(w, u, k, f)
  BY <1>1
<1>2a. \A x \in DOMAIN f : x[1] = k
  BY <1>2, NewRowsIn DEF LibraryRows
<1>3. /\ \A t \in Tables : w.upd[t] = Empty /\ w.del[t] = {}
      /\ w.ins["coll"] = Row(<<k>>, [owner |-> u, source |-> none])
      /\ w.ins["meta"] = Row(<<k>>, blank)
      /\ w.ins["val"] = Empty /\ w.ins["scen"] = f /\ w.ins["share"] = Empty
  BY <1>2, InsertedAre DEF CloneOf
<1>4. Creates(w, u, k)
  BY <1>2a, <1>3, CreatesBy, EmptyIs
<1> QED
  BY <1>4, CreatesIsPrepared

LEMMA ShareLibraryIs ==
  ASSUME load \in Load, NEW u, NEW v, NEW g, NEW w \in ShareLibrary(u, v, g)
  PROVE  \E k, f, e : /\ k \in NewId /\ e = Row(<<k, v>>, g) /\ v # u
                      /\ \E h \in Injection(load.library, Slots(k)) :
                           f = LibraryRows(k, h, load.library)
                      /\ w.ins = Five(Row(<<k>>, [owner |-> u, source |-> none]), Row(<<k>>, blank),
                                      f, Empty, e)
                      /\ w.upd = NoRows /\ w.del = NoKeys /\ ~w.twice /\ w.pull = none
<1>1. PICK l \in NewId : v # u /\ \E c \in CloneLibrary(u, load.library) :
        w = [c EXCEPT !.ins.share = Row(<<l, v>>, g)]
  <2> DEFINE R(l) == Row(<<l, v>>, g)
  <2>1. ShareLibrary(u, v, g) = {[c EXCEPT !.ins.share = R(l)] :
                                 l \in NewId, c \in {x \in CloneLibrary(u, load.library) : v # u}}
    BY DEF ShareLibrary
  <2>2. \A l : R(l) = Row(<<l, v>>, g)
    OBVIOUS
  <2> HIDE DEF R
  <2> QED
    BY <2>1, <2>2
<1>2. PICK c \in CloneLibrary(u, load.library) : w = [c EXCEPT !.ins.share = Row(<<l, v>>, g)]
  BY <1>1
<1>2a. PICK k \in NewId : \E h \in Injection(load.library, Slots(k)) :
         CloneOf(c, u, k, LibraryRows(k, h, load.library)) /\ HasFields(c)
  BY CloneIs
<1>3. PICK h \in Injection(load.library, Slots(k)) :
        CloneOf(c, u, k, LibraryRows(k, h, load.library)) /\ HasFields(c)
  BY <1>2a
<1>4. PICK f : f = LibraryRows(k, h, load.library) /\ CloneOf(c, u, k, f) /\ HasFields(c)
  BY <1>3
<1>4a. \A x \in DOMAIN f : x[1] = k
  BY <1>4, NewRowsIn DEF LibraryRows
<1>5. l = k
  BY NewIdFacts
<1> DEFINE a == Row(<<k>>, [owner |-> u, source |-> none])
           b == Row(<<k>>, blank)
           e == Row(<<k, v>>, g)
<1>6. c.ins = Five(a, b, f, Empty, Empty)
  BY <1>4 DEF CloneOf
<1>7. w = [c EXCEPT !.ins.share = e]
  BY <1>2, <1>5
<1>8. PICK p, q, r : p = a /\ q = b /\ r = e
  OBVIOUS
<1> HIDE DEF a, b, e
<1>9. /\ w.ins = [c.ins EXCEPT !["share"] = r] /\ w.upd = c.upd /\ w.del = c.del
      /\ w.twice = c.twice /\ w.pull = c.pull
  BY <1>4, <1>7, <1>8 DEF HasFields
<1>10. w.ins = Five(p, q, f, Empty, r)
  <2>1. w.ins = [Five(p, q, f, Empty, Empty) EXCEPT !["share"] = r]
    BY <1>6, <1>8, <1>9
  <2> QED
    BY <2>1 DEF Five, NoRows, Tables
<1>11. w.upd = NoRows /\ w.del = NoKeys /\ ~w.twice /\ w.pull = none
  BY <1>4, <1>9 DEF CloneOf
<1> QED
  BY <1>1, <1>3, <1>4, <1>8, <1>10, <1>11 DEF a, b, e

LEMMA ShareLibraryPrepared ==
  ASSUME load \in Load, NEW u \in Users, NEW v, NEW g, NEW w \in ShareLibrary(u, v, g)
  PROVE  Prepared(u, w)
<1>1. PICK k, f, e : /\ k \in NewId /\ e = Row(<<k, v>>, g)
                     /\ \E h \in Injection(load.library, Slots(k)) :
                          f = LibraryRows(k, h, load.library)
                     /\ w.ins = Five(Row(<<k>>, [owner |-> u, source |-> none]), Row(<<k>>, blank),
                                     f, Empty, e)
                     /\ w.upd = NoRows /\ w.del = NoKeys
  BY ShareLibraryIs
<1>2. \A x \in DOMAIN f : x[1] = k
  BY <1>1, NewRowsIn DEF LibraryRows
<1>3. DOMAIN e = {<<k, v>>}
  BY <1>1, RowIs
<1>4. /\ \A t \in Tables : w.upd[t] = Empty /\ w.del[t] = {}
      /\ w.ins["coll"] = Row(<<k>>, [owner |-> u, source |-> none])
      /\ w.ins["meta"] = Row(<<k>>, blank)
      /\ w.ins["val"] = Empty /\ w.ins["scen"] = f /\ w.ins["share"] = e
  BY <1>1, InsertedAre
<1>5. Creates(w, u, k)
  BY <1>1, <1>2, <1>3, <1>4, CreatesBy
<1> QED
  BY <1>1, <1>5, CreatesIsPrepared

\* The scenarios and the values that the fork l of k gets.
ForkRows(l, k)      == [s \in {<<l, r[2]>> : r \in Members(k)} |-> rows.scen[<<k, s[2]>>]]
ForkValues(u, l, k) == [y \in {<<l, u>> : x \in Copied(u, k)} |->
                         rows.val[CHOOSE x \in Copied(u, k) : TRUE]]

LEMMA ForkIs ==
  ASSUME NEW u, NEW k, NEW w \in Fork(u, k)
  PROVE  \E l \in NewId :
           /\ MayRead(u, k)
           /\ w.ins = Five(Row(<<l>>, [owner |-> u, source |-> k]), Row(<<l>>, rows.meta[<<k>>]),
                           ForkRows(l, k), ForkValues(u, l, k), Empty)
           /\ w.upd = NoRows /\ w.del = NoKeys
           /\ w.twice = (Cardinality(Copied(u, k)) > 1) /\ w.pull = <<l, k>>
<1>1. PICK l \in NewId :
        /\ MayRead(u, k)
        /\ w = [Writes EXCEPT
                 !.ins.coll  = Row(<<l>>, [owner |-> u, source |-> k]),
                 !.ins.meta  = Row(<<l>>, rows.meta[<<k>>]),
                 !.ins.scen  = ForkRows(l, k),
                 !.ins.val   = ForkValues(u, l, k),
                 !.twice     = Cardinality(Copied(u, k)) > 1,
                 !.pull      = <<l, k>>]
  BY DEF Fork, ForkRows, ForkValues
<1>2. PICK a, b, f, h, q :
        /\ a = Row(<<l>>, [owner |-> u, source |-> k]) /\ b = Row(<<l>>, rows.meta[<<k>>])
        /\ f = ForkRows(l, k) /\ h = ForkValues(u, l, k) /\ q = (Cardinality(Copied(u, k)) > 1)
  OBVIOUS
<1>3. w = [Writes EXCEPT !.ins.coll = a, !.ins.meta = b, !.ins.scen = f, !.ins.val = h,
                         !.twice = q, !.pull = <<l, k>>]
  BY <1>1, <1>2
<1>4. w.ins = Five(a, b, f, h, Empty)
  <2>1. w.ins = [NoRows EXCEPT !["coll"] = a, !["meta"] = b, !["scen"] = f, !["val"] = h]
    BY <1>3 DEF Writes
  <2> QED
    BY <2>1, FewerInserted
<1>5. w.upd = NoRows /\ w.del = NoKeys /\ w.twice = q /\ w.pull = <<l, k>>
  BY <1>3 DEF Writes
<1> QED
  BY <1>1, <1>2, <1>4, <1>5

LEMMA ForkPrepared ==
  ASSUME RowsInv, load \in Load, NEW u \in Users, NEW k \in Live, NEW w \in Fork(u, k)
  PROVE  Prepared(u, w)
<1>1. PICK l \in NewId :
        /\ w.ins = Five(Row(<<l>>, [owner |-> u, source |-> k]), Row(<<l>>, rows.meta[<<k>>]),
                        ForkRows(l, k), ForkValues(u, l, k), Empty)
        /\ w.upd = NoRows /\ w.del = NoKeys
  BY ForkIs
<1>2. PICK a, b, f, h :
        /\ a = Row(<<l>>, [owner |-> u, source |-> k]) /\ b = Row(<<l>>, rows.meta[<<k>>])
        /\ f = ForkRows(l, k) /\ h = ForkValues(u, l, k)
  OBVIOUS
<1>3. /\ \A x \in DOMAIN f : x[1] = l
      /\ \A x \in DOMAIN h : x[1] = l /\ x[2] = u
  BY <1>2 DEF ForkRows, ForkValues
<1>4. DOMAIN a = {<<l>>} /\ a[<<l>>] \in CollRow /\ DOMAIN b = {<<l>>}
  <2>1. [owner |-> u, source |-> k] \in CollRow
    BY DEF CollRow, RowsInv, Live
  <2> QED
    BY <1>2, <2>1, RowIs
<1>5. w.ins = Five(a, b, f, h, Empty)
  BY <1>1, <1>2
<1>6. /\ \A t \in Tables : w.upd[t] = Empty /\ w.del[t] = {}
      /\ w.ins["coll"] = a /\ w.ins["meta"] = b
      /\ w.ins["val"] = h /\ w.ins["scen"] = f /\ w.ins["share"] = Empty
  BY <1>1, <1>5, InsertedAre
<1>7. \A t \in Tables : \A x \in DOMAIN w.ins[t] : x[1] = l
  <2>1. \A x \in DOMAIN a \cup DOMAIN b : x[1] = l
    BY <1>4
  <2> QED
    BY <1>3, <1>6, <2>1, EmptyIs DEF Tables
<1>8. Creates(w, u, l)
  BY <1>3, <1>4, <1>6, <1>7 DEF Creates
<1> QED
  BY <1>8, CreatesIsPrepared

\* A pull writes to the scenarios and the document of the fork.
Pulled(l, k) == [s \in {r \in Members(l) : rows.scen[r].name \in NamesIn(Members(k))} |->
                  [rows.scen[s] EXCEPT !.doc = Texts(k)[rows.scen[s].name]]]

LEMMA SyncIs ==
  ASSUME NEW u, NEW l, NEW w \in Sync(u, l)
  PROVE  /\ Owns(u, l)
         /\ \E k : \E f \in Injection(NewNames(l, k), Slots(l)) :
              /\ rows.coll[<<l>>].source = k /\ MayRead(u, k)
              /\ Edits(w, NewRows(l, f, Texts(k)), Pulled(l, k), Gone(l, k), Row(<<l>>, rows.meta[<<k>>]))
              /\ w.pull = <<l, k>>
<1>0. PICK k : \E f \in Injection(NewNames(l, k), Slots(l)) :
        /\ w = SyncFrom(l, k, f) /\ Owns(u, l)
        /\ rows.coll[<<l>>].source = k /\ MayRead(u, k)
  BY DEF Sync, Placed, OneOf
<1>1. PICK f \in Injection(NewNames(l, k), Slots(l)) :
        /\ w = SyncFrom(l, k, f) /\ Owns(u, l)
        /\ rows.coll[<<l>>].source = k /\ MayRead(u, k)
  BY <1>0
<1> DEFINE a == NewRows(l, f, Texts(k))
           b == Pulled(l, k)
           c == Gone(l, k)
           d == Row(<<l>>, rows.meta[<<k>>])
<1>2. w = [Writes EXCEPT !.ins.scen = a, !.upd.scen = b, !.del.scen = c, !.upd.meta = d,
                         !.pull = <<l, k>>]
  BY <1>1 DEF SyncFrom, Pulled
<1> HIDE DEF a, b, c, d
<1>3. /\ w.ins = [NoRows EXCEPT !["scen"] = a]
      /\ w.upd = [NoRows EXCEPT !["scen"] = b, !["meta"] = d]
      /\ w.del = [NoKeys EXCEPT !["scen"] = c]
      /\ ~w.twice /\ w.pull = <<l, k>>
  BY <1>2 DEF Writes
<1>4. Edits(w, a, b, c, d)
  BY <1>3 DEF Edits, NoRows, NoKeys, Tables
<1> QED
  BY <1>1, <1>3, <1>4 DEF a, b, c, d

LEMMA SyncPrepared ==
  ASSUME RowsInv, NEW u, NEW l \in Live, NEW w \in Sync(u, l)
  PROVE  Prepared(u, w)
<1>0. PICK k : \E f \in Injection(NewNames(l, k), Slots(l)) :
        Edits(w, NewRows(l, f, Texts(k)), Pulled(l, k), Gone(l, k), Row(<<l>>, rows.meta[<<k>>]))
  BY SyncIs
<1>1. PICK f \in Injection(NewNames(l, k), Slots(l)) :
        Edits(w, NewRows(l, f, Texts(k)), Pulled(l, k), Gone(l, k), Row(<<l>>, rows.meta[<<k>>]))
  BY <1>0
<1>2. \A x \in DOMAIN NewRows(l, f, Texts(k)) : x[1] = l
  BY NewRowsIn
<1>3. \A x \in DOMAIN Pulled(l, k) \cup Gone(l, k) : x[1] = l
  BY DEF Members, Gone, Pulled
<1>4. DOMAIN Row(<<l>>, rows.meta[<<k>>]) = {<<l>>}
  BY RowIs
<1>5. Within(w, l)
  BY <1>1, <1>2, <1>3, <1>4, EditsWithin
<1> QED
  BY <1>5, SyncIs, LiveKeys, OwnerMayWrite, WithinIsPrepared

--------------------------------------------------------------------------------
(***************************************************************************)
(* The parts about access: a step of any kind.                             *)
(***************************************************************************)
LEMMA CheckKeeps ==
  ASSUME AccessInv, NEW u \in Users, MayRequest(u), NEW w, Prepared(u, w), Check(u, w)
  PROVE  AccessInv'
<1>1. /\ tx[u] = none /\ tx' = [tx EXCEPT ![u] = w] /\ UNCHANGED <<load, rows>>
      /\ tx = [v \in Users |-> tx[v]] /\ load \in Load
  BY DEF MayRequest, Check, AccessInv, TxInv
<1>2. /\ tx' = [v \in Users |-> tx'[v]]
      /\ tx'[u] = w /\ \A v \in Users \ {u} : tx'[v] = tx[v]
  BY <1>1
<1>3. RowsInv'
  BY <1>1 DEF AccessInv, RowsInv, Lives
<1>4. ASSUME NEW x \in DOMAIN w.ins.coll
      PROVE  Lives(x[1]) = FALSE /\ \A v \in Users : tx[v] # none => ~Touches(tx[v], x[1])
  BY <1>4 DEF Prepared, NewIds, Pending, Touches
<1>5. ASSUME NEW v \in Users \ {u}, tx[v] # none, NEW x \in DOMAIN tx[v].ins.coll
      PROVE  ~Touches(w, x[1])
  <2>1. Lives(x[1]) = FALSE
    BY <1>5 DEF AccessInv, FreshInv
  <2>2. tx[v] \in Pending
    BY <1>5 DEF Pending
  <2>3. x \in Keys(tx[v], "coll")
    BY DEF Keys
  <2>4. x[1] \notin NewIds
    BY <2>2, <2>3 DEF NewIds, Tables
  <2> QED
    BY <2>1, <2>4 DEF Prepared, Touches
<1>6. FreshInv'
  <2> SUFFICES ASSUME NEW v \in Users, tx'[v] # none, NEW x \in DOMAIN tx'[v].ins.coll
               PROVE  /\ ~Lives(x[1])
                      /\ \A z \in Users \ {v} : tx'[z] # none => ~Touches(tx'[z], x[1])
    BY <1>1 DEF FreshInv, Lives
  <2>1. CASE v = u
    BY <1>2, <1>4, <2>1
  <2>2. CASE v # u
    <3>1. tx[v] # none /\ x \in DOMAIN tx[v].ins.coll
      BY <1>2, <2>2
    <3>2. ~Lives(x[1]) /\ \A z \in Users \ {v} : tx[z] # none => ~Touches(tx[z], x[1])
      BY <3>1 DEF AccessInv, FreshInv
    <3>3. ~Touches(w, x[1])
      BY <1>5, <2>2, <3>1
    <3> QED
      BY <1>2, <3>2, <3>3
  <2> QED
    BY <2>1, <2>2
<1>7. \A v \in Users : tx'[v] # none => Form(tx'[v]) /\ OwnValues(v, tx[v])'
  <2>1. \A v, z : OwnValues(v, z) => (OwnValues(v, z))'
    BY <1>1 DEF OwnValues, Lives, Owner
  <2> SUFFICES ASSUME NEW v \in Users, tx'[v] # none, NEW z, z = tx'[v]
               PROVE  Form(z) /\ (OwnValues(v, z))'
    OBVIOUS
  <2>2. Form(z) /\ OwnValues(v, z)
    BY <1>2 DEF Prepared, AccessInv, TxInv
  <2> QED
    BY <2>1, <2>2
<1>8. ASSUME Alone' PROVE \A v \in Users : tx'[v] # none => v = u
  <2>1. Alone /\ \A v \in Users : tx[v] = none
    BY <1>1, <1>8 DEF MayRequest, Alone
  <2> QED
    BY <1>2, <2>1
<1>9. (Allowed(u, w))'
  BY <1>1 DEF Prepared, Allowed, Lives, Owns, MayWrite, Shared, Owner, ValuesOwner
<1>10. ASSUME Alone' PROVE \A v \in Users : tx'[v] # none => (Allowed(v, tx[v]))'
  <2> SUFFICES ASSUME NEW v \in Users, tx'[v] # none PROVE (Allowed(v, tx[v]))'
    OBVIOUS
  <2>1. v = u
    BY <1>8, <1>10
  <2>2. ASSUME NEW z, z = tx'[v] PROVE (Allowed(v, z))'
    BY <1>2, <1>9, <2>1, <2>2
  <2> QED
    BY <2>2
<1>11. TxInv'
  BY <1>1, <1>2, <1>7, <1>8, <1>10 DEF TxInv
<1> QED
  BY <1>3, <1>6, <1>11 DEF AccessInv

--------------------------------------------------------------------------------
(***************************************************************************)
(* The tables after a request.                                             *)
(***************************************************************************)
Dead(w) == {x[1] : x \in w.del.coll}
Wrote(w, t) == DOMAIN w.ins[t] \cup DOMAIN w.upd[t] \cup DOMAIN rows[t]

LEMMA OverKeys == \A f, g : DOMAIN Over(f, g) = DOMAIN f \cup DOMAIN g
  BY DEF Over

LEMMA OverTwo ==
  \A f, g, h :
    /\ \A x \in DOMAIN f : Over(f, Over(g, h))[x] = f[x]
    /\ \A x \in DOMAIN g \ DOMAIN f : Over(f, Over(g, h))[x] = g[x]
    /\ \A x \in DOMAIN h \ (DOMAIN f \cup DOMAIN g) : Over(f, Over(g, h))[x] = h[x]
  BY DEF Over

LEMMA AfterIs ==
  ASSUME NEW w, NEW t \in Tables
  PROVE  /\ DOMAIN After(w)[t] = {x \in Wrote(w, t) : x[1] \notin Dead(w) /\ x \notin w.del[t]}
         /\ t # "coll" => \A x \in DOMAIN After(w)[t] :
              After(w)[t][x] = Over(w.ins[t], Over(w.upd[t], rows[t]))[x]
         /\ \A x \in DOMAIN After(w)["coll"] :
              LET r == Over(w.ins["coll"], Over(w.upd["coll"], rows["coll"]))[x]
              IN  After(w)["coll"][x] =
                    IF r.source \in Dead(w) THEN [r EXCEPT !.source = none] ELSE r
<1> DEFINE O(s) == Over(w.ins[s], Over(w.upd[s], rows[s]))
           K(s) == {x \in DOMAIN O(s) : x[1] \notin Dead(w) /\ x \notin w.del[s]}
           new == [s \in Tables |-> [x \in K(s) |-> O(s)[x]]]
           C == [x \in DOMAIN new["coll"] |->
                  IF new["coll"][x].source \in Dead(w)
                  THEN [new["coll"][x] EXCEPT !.source = none] ELSE new["coll"][x]]
<1>1. After(w) = [new EXCEPT !["coll"] = C]
  BY DEF After, Restrict, Dead
<1>2. \A s \in Tables : DOMAIN O(s) = Wrote(w, s)
  <2>1. ASSUME NEW s \in Tables PROVE DOMAIN O(s) = Wrote(w, s)
    <3>1. DOMAIN Over(w.upd[s], rows[s]) = DOMAIN w.upd[s] \cup DOMAIN rows[s]
      BY OverKeys
    <3>2. DOMAIN O(s) = DOMAIN w.ins[s] \cup DOMAIN Over(w.upd[s], rows[s])
      BY OverKeys
    <3> QED
      BY <3>1, <3>2 DEF Wrote
  <2> QED
    BY <2>1
<1>3. \A s \in Tables : DOMAIN new[s] = K(s) /\ \A x \in K(s) : new[s][x] = O(s)[x]
  OBVIOUS
<1>4. "coll" \in Tables
  BY DEF Tables
<1>5. /\ DOMAIN C = DOMAIN new["coll"]
      /\ \A x \in DOMAIN C : C[x] = IF new["coll"][x].source \in Dead(w)
                                    THEN [new["coll"][x] EXCEPT !.source = none]
                                    ELSE new["coll"][x]
  OBVIOUS
<1>6. DOMAIN new = Tables
  OBVIOUS
<1> HIDE DEF new, C
<1>7. /\ After(w)["coll"] = C
      /\ t # "coll" => After(w)[t] = new[t]
  BY <1>1, <1>4, <1>6
<1>8. DOMAIN After(w)[t] = K(t)
  BY <1>3, <1>4, <1>5, <1>7
<1>9. \A x \in DOMAIN After(w)["coll"] : new["coll"][x] = O("coll")[x]
  BY <1>3, <1>4, <1>5, <1>7
<1> QED
  BY <1>2, <1>3, <1>5, <1>7, <1>8, <1>9

\* What lives afterwards: what lived and is not deleted, and what is new.
LEMMA LivesAfter ==
  ASSUME RowsInv, NEW w, Form(w), KeysFit(w), rows' = After(w)
  PROVE  /\ \A k : Lives(k)' <=> /\ Lives(k) \/ <<k>> \in DOMAIN w.ins.coll
                                /\ k \notin Dead(w)
         /\ \A k : Lives(k) /\ Lives(k)' => Owner(k)' = Owner(k)
         /\ \A x \in DOMAIN rows.coll' : x = <<x[1]>> /\ x[1] \in Collections
                                        /\ rows.coll'[x] \in CollRow
<1> DEFINE F == Over(w.ins["coll"], Over(w.upd["coll"], rows["coll"]))
<1>0. "coll" \in Tables
  BY DEF Tables
<1>1. DOMAIN rows["coll"]' = {x \in Wrote(w, "coll") : x[1] \notin Dead(w) /\ x \notin w.del["coll"]}
  BY <1>0, AfterIs
<1>2. \A x \in DOMAIN rows["coll"]' :
        rows["coll"]'[x] = IF F[x].source \in Dead(w) THEN [F[x] EXCEPT !.source = none] ELSE F[x]
  BY <1>0, AfterIs
<1>3. Wrote(w, "coll") = DOMAIN w.ins["coll"] \cup DOMAIN rows["coll"]
  BY DEF Form, Wrote
<1>4. \A x \in w.del["coll"] : x[1] \in Dead(w)
  BY DEF Dead
<1>5. \A k : Lives(k)' <=> (Lives(k) \/ <<k>> \in DOMAIN w.ins["coll"]) /\ k \notin Dead(w)
  <2> SUFFICES ASSUME NEW k
               PROVE  <<k>> \in DOMAIN rows["coll"]' <=>
                        (<<k>> \in DOMAIN rows["coll"] \/ <<k>> \in DOMAIN w.ins["coll"]) /\ k \notin Dead(w)
    BY DEF Lives
  <2>1. <<k>>[1] = k
    OBVIOUS
  <2> QED
    BY <1>1, <1>3, <1>4, <2>1
<1>6. \A x \in DOMAIN rows["coll"] : F[x] = rows["coll"][x]
  <2>1. DOMAIN w.ins["coll"] \cap DOMAIN rows["coll"] = {} /\ DOMAIN w.upd["coll"] = {}
    BY <1>0 DEF KeysFit, Form
  <2> QED
    BY <2>1, OverTwo
<1>7. \A x \in DOMAIN w.ins["coll"] : F[x] = w.ins["coll"][x]
  BY OverTwo
<1> HIDE DEF F
<1>8. \A x \in Wrote(w, "coll") : x = <<x[1]>> /\ x[1] \in Collections /\ F[x] \in CollRow
  <2>1. \A x \in DOMAIN w.ins["coll"] :
          x = <<x[1]>> /\ x[1] \in Collections /\ w.ins["coll"][x] \in CollRow
    BY DEF Form
  <2>2. \A x \in DOMAIN rows["coll"] :
          x = <<x[1]>> /\ x[1] \in Collections /\ rows["coll"][x] \in CollRow
    BY DEF RowsInv
  <2> QED
    BY <1>3, <1>6, <1>7, <2>1, <2>2
<1>9. \A f \in CollRow : [f EXCEPT !.source = none] \in CollRow
                        /\ [f EXCEPT !.source = none].owner = f.owner
  BY DEF CollRow
<1>10. \A x \in DOMAIN rows["coll"]' : rows["coll"]'[x] \in CollRow /\ rows["coll"]'[x].owner = F[x].owner
  BY <1>1, <1>2, <1>8, <1>9
<1>11. \A k : Lives(k) /\ Lives(k)' => Owner(k)' = Owner(k)
  BY <1>6, <1>10 DEF Lives, Owner
<1> QED
  BY <1>1, <1>5, <1>8, <1>10, <1>11

LEMMA CommitKeeps ==
  ASSUME AccessInv, NEW u \in Users, Commit(u)
  PROVE  AccessInv'
<1> DEFINE w == tx[u]
<1>1. /\ w # none /\ KeysFit(w) /\ rows' = After(w) /\ load' = load
      /\ tx' = [tx EXCEPT ![u] = none]
      /\ tx = [v \in Users |-> tx[v]] /\ load \in Load
      /\ RowsInv /\ Form(w)
  BY DEF Commit, MayCommit, AccessInv, TxInv
<1>2. /\ tx' = [v \in Users |-> tx'[v]]
      /\ tx'[u] = none /\ \A v \in Users \ {u} : tx'[v] = tx[v]
  BY <1>1
<1>3. \A x \in DOMAIN w.ins.coll :
        \A v \in Users \ {u} : tx[v] # none => ~Touches(tx[v], x[1])
  BY <1>1 DEF AccessInv, FreshInv
<1> HIDE DEF w
<1>4. /\ \A k : Lives(k)' <=> (Lives(k) \/ <<k>> \in DOMAIN w.ins.coll) /\ k \notin Dead(w)
      /\ \A k : Lives(k) /\ Lives(k)' => Owner(k)' = Owner(k)
      /\ \A x \in DOMAIN rows.coll' : x = <<x[1]>> /\ x[1] \in Collections
                                     /\ rows.coll'[x] \in CollRow
  BY <1>1, LivesAfter
<1>5. \A t \in Tables : \A x \in DOMAIN rows[t]' : Lives(x[1])'
  <2> SUFFICES ASSUME NEW t \in Tables, NEW x \in DOMAIN rows[t]' PROVE Lives(x[1])'
    OBVIOUS
  <2>1. x \in Wrote(w, t) /\ x[1] \notin Dead(w)
    BY <1>1, AfterIs
  <2>2. Lives(x[1]) \/ <<x[1]>> \in DOMAIN w.ins.coll
    BY <1>1, <2>1 DEF Wrote, KeysFit, RowsInv
  <2> QED
    BY <1>4, <2>1, <2>2
<1>6. \A x \in DOMAIN rows.coll' : x \in DOMAIN rows.meta'
  <2> SUFFICES ASSUME NEW x \in DOMAIN rows.coll' PROVE x \in DOMAIN rows["meta"]'
    OBVIOUS
  <2>1. x \in Wrote(w, "coll") /\ x[1] \notin Dead(w)
    BY <1>1, AfterIs DEF Tables
  <2>2. x \in DOMAIN w.ins["coll"] \/ x \in DOMAIN rows["coll"]
    BY <1>1, <2>1 DEF Wrote, Form
  <2>3. x \in Wrote(w, "meta") /\ x \notin w.del["meta"]
    BY <1>1, <2>2 DEF Wrote, Form, RowsInv
  <2>4. DOMAIN rows["meta"]' = {y \in Wrote(w, "meta") : y[1] \notin Dead(w) /\ y \notin w.del["meta"]}
    BY <1>1, AfterIs DEF Tables
  <2> QED
    BY <2>1, <2>3, <2>4
<1>7. RowsInv'
  BY <1>4, <1>5, <1>6 DEF RowsInv
<1>8. ASSUME NEW v \in Users, tx'[v] # none
      PROVE  v # u /\ tx'[v] = tx[v] /\ tx[v] # none
  BY <1>2, <1>8
<1>9. FreshInv'
  <2> SUFFICES ASSUME NEW v \in Users, tx'[v] # none, NEW x \in DOMAIN tx'[v].ins.coll
               PROVE  /\ ~(Lives(x[1])')
                      /\ \A z \in Users \ {v} : tx'[z] # none => ~Touches(tx'[z], x[1])
    BY DEF FreshInv
  <2>1. v # u /\ tx[v] # none /\ x \in DOMAIN tx[v].ins.coll
    BY <1>8
  <2>2. ~Lives(x[1]) /\ \A z \in Users \ {v} : tx[z] # none => ~Touches(tx[z], x[1])
    BY <2>1 DEF AccessInv, FreshInv
  <2>3. <<x[1]>> \notin DOMAIN w.ins.coll
    <3>1. ~Touches(w, x[1])
      BY <1>1, <2>1, <2>2 DEF w
    <3>2. \A y \in DOMAIN w.ins.coll : y \in Keys(w, "coll")
      BY DEF Keys
    <3>3. <<x[1]>>[1] = x[1] /\ "coll" \in Tables
      BY DEF Tables
    <3> QED
      BY <3>1, <3>2, <3>3 DEF Touches
  <2>4. Lives(x[1])' = FALSE
    BY <1>4, <2>2, <2>3
  <2>5. \A z \in Users \ {v} : tx'[z] # none => ~Touches(tx'[z], x[1])
    BY <1>8, <2>2
  <2> QED
    BY <2>4, <2>5
<1>10. ASSUME NEW v \in Users, tx'[v] # none PROVE Form(tx'[v]) /\ (OwnValues(v, tx[v]))'
  <2> DEFINE z == tx[v]
  <2>1. v # u /\ tx'[v] = z /\ z # none
    BY <1>8, <1>10
  <2>2. Form(z) /\ OwnValues(v, z)
    BY <2>1 DEF AccessInv, TxInv
  <2>3. \A x \in DOMAIN z.ins.val \cup DOMAIN z.upd.val : <<x[1]>> \notin DOMAIN w.ins.coll
    <3> SUFFICES ASSUME NEW x \in DOMAIN z.ins.val \cup DOMAIN z.upd.val,
                        NEW y \in DOMAIN w.ins.coll, y = <<x[1]>>
                 PROVE  FALSE
      OBVIOUS
    <3>1. ~Touches(z, y[1])
      BY <1>3, <2>1
    <3>2. x \in Keys(z, "val") /\ "val" \in Tables /\ y[1] = x[1]
      BY DEF Keys, Tables
    <3> QED
      BY <3>1, <3>2 DEF Touches
  <2> HIDE DEF z
  <2>4. \A x \in DOMAIN z.ins.val \cup DOMAIN z.upd.val :
          x[2] = v \/ (Lives(x[1])' => x[2] = Owner(x[1])')
    <3> SUFFICES ASSUME NEW x \in DOMAIN z.ins.val \cup DOMAIN z.upd.val, Lives(x[1])', x[2] # v
                 PROVE  x[2] = Owner(x[1])'
      OBVIOUS
    <3>1. Lives(x[1])
      BY <1>4, <2>3
    <3>2. x[2] = Owner(x[1])
      BY <2>2, <3>1 DEF OwnValues
    <3> QED
      BY <1>4, <3>1, <3>2
  <2>5. ASSUME NEW y, y = tx'[v] PROVE Form(y) /\ (OwnValues(v, y))'
    BY <2>1, <2>2, <2>4, <2>5 DEF OwnValues
  <2> QED
    BY <2>5
<1>11. ASSUME Alone' PROVE \A v \in Users : tx'[v] = none
  <2>1. Alone
    BY <1>1, <1>11 DEF Alone
  <2>2. \A v, z \in Users : tx[v] # none /\ tx[z] # none => v = z
    BY <2>1 DEF AccessInv, TxInv
  <2> QED
    BY <1>1, <1>2, <2>2 DEF w
<1>12. TxInv'
  BY <1>1, <1>2, <1>10, <1>11 DEF TxInv
<1> QED
  BY <1>7, <1>9, <1>12 DEF AccessInv

LEMMA RollBackKeeps ==
  ASSUME AccessInv, NEW u \in Users, RollBack(u)
  PROVE  AccessInv'
<1>1. /\ tx' = [tx EXCEPT ![u] = none] /\ load' = load /\ rows' = rows
      /\ tx = [v \in Users |-> tx[v]]
  BY DEF RollBack, AccessInv, TxInv
<1>2. /\ tx' = [v \in Users |-> tx'[v]]
      /\ tx'[u] = none /\ \A v \in Users \ {u} : tx'[v] = tx[v]
  BY <1>1
<1>3. RowsInv'
  BY <1>1 DEF AccessInv, RowsInv, Lives
<1>4. ASSUME NEW v \in Users, tx'[v] # none
      PROVE  tx'[v] = tx[v] /\ tx[v] # none
  BY <1>2, <1>4
<1>5. FreshInv'
  BY <1>1, <1>4 DEF AccessInv, FreshInv, Lives
<1>6. ASSUME NEW v \in Users, tx'[v] # none
      PROVE  Form(tx'[v]) /\ (OwnValues(v, tx[v]))' /\ (Alone' => (Allowed(v, tx[v]))')
  <2>1. \A z : /\ OwnValues(v, z) => (OwnValues(v, z))'
               /\ Allowed(v, z) => (Allowed(v, z))'
    BY <1>1 DEF OwnValues, Allowed, Lives, Owner, Owns, MayWrite, Shared, ValuesOwner
  <2> SUFFICES ASSUME NEW z, z = tx'[v]
               PROVE  Form(z) /\ (OwnValues(v, z))' /\ (Alone' => (Allowed(v, z))')
    OBVIOUS
  <2>2. Form(z) /\ OwnValues(v, z) /\ (Alone => Allowed(v, z))
    BY <1>4, <1>6 DEF AccessInv, TxInv
  <2>3. Alone' <=> Alone
    BY <1>1 DEF Alone
  <2> QED
    BY <2>1, <2>2, <2>3
<1>7. ASSUME Alone' PROVE \A v, z \in Users : tx'[v] # none /\ tx'[z] # none => v = z
  BY <1>1, <1>4, <1>7 DEF Alone, AccessInv, TxInv
<1>8. load' \in Load
  BY <1>1 DEF AccessInv, TxInv
<1>9. TxInv'
  BY <1>2, <1>6, <1>7, <1>8 DEF TxInv
<1> QED
  BY <1>3, <1>5, <1>9 DEF AccessInv

--------------------------------------------------------------------------------
(***************************************************************************)
(* The rows that a request writes, and the scenarios they leave.           *)
(***************************************************************************)
Sound(u, w) == Typed(w) /\ NotSelf(w) /\ (Alone => Clean(u, w))

LEMMA EditsFit ==
  ASSUME RowsInv, NEW w, NEW k, NEW ins, NEW upd, NEW del, NEW doc,
         Edits(w, ins, upd, del, doc), Lives(k),
         \A x \in DOMAIN ins : x = <<k, x[2]>> /\ x[2] \in Slots(k) /\ ins[x] \in File,
         \A x \in DOMAIN upd : x \in Members(k) /\ x = <<k, x[2]>> /\ x[2] \in 1 .. load.slots
                                /\ upd[x] \in File,
         \A x \in DOMAIN doc : x = <<k>> /\ doc[x] \in Docs
  PROVE  Typed(w) /\ NotSelf(w) /\ KeysFit(w)
<1>1. /\ w.ins["coll"] = Empty /\ w.ins["meta"] = Empty /\ w.ins["share"] = Empty
      /\ w.ins["val"] = Empty /\ w.ins["scen"] = ins
      /\ w.upd["coll"] = Empty /\ w.upd["meta"] = doc /\ w.upd["share"] = Empty
      /\ w.upd["val"] = Empty /\ w.upd["scen"] = upd
      /\ ~w.twice
  BY DEF Edits, Tables
<1>2. \A t \in Tables : \A x \in DOMAIN w.ins[t] : t = "scen" /\ x \in DOMAIN ins
  BY <1>1, EmptyIs DEF Tables
<1>3. \A t \in Tables : \A x \in DOMAIN w.upd[t] :
        (t = "scen" /\ x \in DOMAIN upd) \/ (t = "meta" /\ x \in DOMAIN doc)
  <2> SUFFICES ASSUME NEW t \in Tables, NEW x \in DOMAIN w.upd[t]
               PROVE  (t = "scen" /\ x \in DOMAIN upd) \/ (t = "meta" /\ x \in DOMAIN doc)
    OBVIOUS
  <2>1. t \notin {"coll", "share", "val"}
    BY <1>1, EmptyIs
  <2> QED
    BY <1>1, <2>1 DEF Tables
<1>4. \A t \in Tables : \A x \in DOMAIN w.ins[t] : RowFits(t, x, w.ins[t][x])
  <2> SUFFICES ASSUME NEW t \in Tables, NEW x \in DOMAIN w.ins[t] PROVE RowFits(t, x, w.ins[t][x])
    OBVIOUS
  <2>1. t = "scen" /\ x \in DOMAIN ins
    BY <1>2
  <2>2. x[2] \in 1 .. load.slots
    BY <2>1 DEF Slots
  <2> QED
    BY <1>1, <2>1, <2>2 DEF RowFits
<1>5. \A t \in Tables : \A x \in DOMAIN w.upd[t] : RowFits(t, x, w.upd[t][x])
  <2> SUFFICES ASSUME NEW t \in Tables, NEW x \in DOMAIN w.upd[t] PROVE RowFits(t, x, w.upd[t][x])
    OBVIOUS
  <2>1. CASE t = "scen" /\ x \in DOMAIN upd
    BY <1>1, <2>1 DEF RowFits
  <2>2. CASE t = "meta" /\ x \in DOMAIN doc
    BY <1>1, <2>2 DEF RowFits
  <2> QED
    BY <1>3, <2>1, <2>2
<1>6. Typed(w) /\ NotSelf(w)
  BY <1>1, <1>4, <1>5, EmptyIs DEF Typed, NotSelf
<1>7. <<k>> \in DOMAIN rows["meta"]
  BY DEF RowsInv, Lives
<1>8. \A t \in Tables : DOMAIN w.upd[t] \subseteq DOMAIN rows[t]
  BY <1>3, <1>7 DEF Members
<1>9. \A t \in Tables : \A x \in DOMAIN w.ins[t] : x \notin DOMAIN rows[t] /\ Lives(x[1])
  <2> SUFFICES ASSUME NEW t \in Tables, NEW x \in DOMAIN w.ins[t]
               PROVE  x \notin DOMAIN rows[t] /\ Lives(x[1])
    OBVIOUS
  <2>1. t = "scen" /\ x = <<k, x[2]>> /\ x[2] \in Slots(k)
    BY <1>2
  <2>2. <<k, x[2]>> \notin DOMAIN rows["scen"]
    BY <2>1 DEF Slots
  <2> QED
    BY <2>1, <2>2
<1>10. DOMAIN w.ins["coll"] = {}
  BY <1>1, EmptyIs
<1>11. KeysFit(w)
  BY <1>1, <1>8, <1>9, <1>10 DEF KeysFit
<1> QED
  BY <1>6, <1>11

LEMMA EditsLeave ==
  ASSUME NEW w, NEW ins, NEW upd, NEW del, NEW doc, Edits(w, ins, upd, del, doc)
  PROVE  LET scen == After(w)["scen"]
         IN  /\ DOMAIN scen = (DOMAIN ins \cup DOMAIN upd \cup DOMAIN rows.scen) \ del
             /\ \A x \in DOMAIN scen :
                  scen[x] = IF x \in DOMAIN ins THEN ins[x]
                            ELSE IF x \in DOMAIN upd THEN upd[x] ELSE rows.scen[x]
<1>1. /\ w.ins["scen"] = ins /\ w.upd["scen"] = upd /\ w.del["scen"] = del /\ w.del["coll"] = {}
      /\ "scen" \in Tables
  BY DEF Edits, Tables
<1>2. Dead(w) = {}
  BY <1>1 DEF Dead
<1>3. DOMAIN After(w)["scen"] = (DOMAIN ins \cup DOMAIN upd \cup DOMAIN rows.scen) \ del
  BY <1>1, <1>2, AfterIs DEF Wrote
<1>4. \A x \in DOMAIN After(w)["scen"] : After(w)["scen"][x] = Over(ins, Over(upd, rows.scen))[x]
  BY <1>1, AfterIs
<1> QED
  BY <1>3, <1>4, OverTwo

\* An edit of files keeps the names apart.
LEMMA FileEditSound ==
  ASSUME RowsInv, TypedRows, NEW u, NEW w, NEW k, Lives(k), FileEdit(w, k), w.pull = none
  PROVE  Sound(u, w)
<1>1. /\ rows["meta"][<<k>>] \in Docs
      /\ \A s \in Members(k) : s = <<k, s[2]>> /\ s[2] \in 1 .. load.slots
                                /\ s \in DOMAIN rows.scen
  <2>1. <<k>> \in DOMAIN rows["meta"]
    BY DEF RowsInv, Lives
  <2>2. rows["meta"][<<k>>] \in Docs
    BY <2>1 DEF TypedRows, RowFits, Tables
  <2>3. \A s \in DOMAIN rows["scen"] : s = <<s[1], s[2]>> /\ s[2] \in 1 .. load.slots
    BY DEF TypedRows, RowFits, Tables
  <2> QED
    BY <2>2, <2>3 DEF Members
<1>2. \A x, r : DOMAIN Row(x, r) = {x} /\ Row(x, r)[x] = r
  BY RowIs
<1>2a. DOMAIN Again(k) = {<<k>>} /\ Again(k)[<<k>>] \in Docs
  BY <1>1, <1>2 DEF Again
<1>3. \A s, r \in DOMAIN rows.scen :
        (Alone /\ s[1] = r[1] /\ Fold[rows.scen[s].name] = Fold[rows.scen[r].name]) => s = r
  BY DEF TypedRows, Distinct
<1>4. ASSUME NEW ins, NEW upd, NEW del, NEW doc, Edits(w, ins, upd, del, doc),
             \A x \in DOMAIN ins : x = <<k, x[2]>> /\ x[2] \in Slots(k) /\ ins[x] \in File,
             \A x \in DOMAIN upd : x \in Members(k) /\ upd[x] \in File,
             \A x \in DOMAIN doc : x = <<k>> /\ doc[x] \in Docs,
             Alone => Distinct(After(w)["scen"])
      PROVE  Sound(u, w)
  <2>1. Typed(w) /\ NotSelf(w) /\ KeysFit(w)
    BY <1>1, <1>4, EditsFit
  <2> QED
    BY <1>4, <2>1 DEF Sound, Clean
<1>5. ASSUME NEW d \in Docs, Edits(w, Empty, Empty, {}, Row(<<k>>, d)) PROVE Sound(u, w)
  <2>1. Alone => Distinct(After(w)["scen"])
    BY <1>3, <1>5, EditsLeave, EmptyIs DEF Distinct
  <2>2. PICK doc : doc = Row(<<k>>, d)
    OBVIOUS
  <2>3. \A x \in DOMAIN doc : x = <<k>> /\ doc[x] \in Docs
    <3>1. DOMAIN doc = {<<k>>} /\ doc[<<k>>] = d
      BY <2>2, RowIs
    <3> QED
      BY <3>1
  <2> QED
    BY <1>4, <1>5, <2>1, <2>2, <2>3, EmptyIs
<1>6. ASSUME NEW i \in Slots(k), NEW row \in File, ~Taken(Members(k), row.name),
             NEW ins, ins = Row(<<k, i>>, row), Edits(w, ins, Empty, {}, Again(k))
      PROVE  Sound(u, w)
  <2>1. DOMAIN ins = {<<k, i>>} /\ ins[<<k, i>>] = row
    BY <1>2, <1>6
  <2>2. \A s \in Members(k) : Fold[rows.scen[s].name] # Fold[row.name]
    BY <1>6 DEF Taken, NamesIn
  <2>3. /\ DOMAIN After(w)["scen"] = {<<k, i>>} \cup DOMAIN rows.scen
        /\ \A x \in DOMAIN After(w)["scen"] :
             After(w)["scen"][x] = IF x = <<k, i>> THEN row ELSE rows.scen[x]
    BY <1>6, <2>1, EditsLeave, EmptyIs
  <2>4. \A s \in DOMAIN rows.scen : s[1] = k => s \in Members(k)
    BY DEF Members
  <2>5. Alone => Distinct(After(w)["scen"])
    BY <1>3, <2>2, <2>3, <2>4 DEF Distinct
  <2>6. \A x \in DOMAIN ins : x = <<k, x[2]>> /\ x[2] \in Slots(k) /\ ins[x] \in File
    BY <2>1
  <2> QED
    BY <1>2a, <1>4, <1>6, <2>5, <2>6, EmptyIs
<1>7. ASSUME NEW s \in Members(k), NEW row \in File, NEW doc \in {Empty, Again(k)},
             row.name = rows.scen[s].name \/ ~Taken(Members(k) \ {s}, row.name),
             NEW upd, upd = Row(s, row), Edits(w, Empty, upd, {}, doc)
      PROVE  Sound(u, w)
  <2>1. DOMAIN upd = {s} /\ upd[s] = row
    BY <1>2, <1>7
  <2>2. Alone => \A r \in Members(k) \ {s} : Fold[rows.scen[r].name] # Fold[row.name]
    <3>1. CASE ~Taken(Members(k) \ {s}, row.name)
      BY <3>1 DEF Taken, NamesIn
    <3>2. CASE row.name = rows.scen[s].name
      BY <1>1, <1>3, <3>2
    <3> QED
      BY <1>7, <3>1, <3>2
  <2>3. /\ DOMAIN After(w)["scen"] = DOMAIN rows.scen
        /\ \A x \in DOMAIN After(w)["scen"] :
             After(w)["scen"][x] = IF x = s THEN row ELSE rows.scen[x]
    <3>1. s \in DOMAIN rows.scen
      BY <1>1
    <3>2. DOMAIN After(w)["scen"] = (DOMAIN Empty \cup DOMAIN upd \cup DOMAIN rows.scen) \ {}
      BY <1>7, EditsLeave
    <3>3. \A x \in DOMAIN After(w)["scen"] :
            After(w)["scen"][x] = IF x \in DOMAIN Empty THEN Empty[x]
                                  ELSE IF x \in DOMAIN upd THEN upd[x] ELSE rows.scen[x]
      BY <1>7, EditsLeave
    <3> QED
      BY <2>1, <3>1, <3>2, <3>3, EmptyIs
  <2>4. s[1] = k /\ \A r \in DOMAIN rows.scen : r[1] = k => r \in Members(k)
    BY DEF Members
  <2>5. Alone => Distinct(After(w)["scen"])
    BY <1>3, <2>2, <2>3, <2>4 DEF Distinct
  <2>6. \A x \in DOMAIN doc : x = <<k>> /\ doc[x] \in Docs
    BY <1>2a, <1>7, EmptyIs
  <2> QED
    BY <1>4, <1>7, <2>1, <2>5, <2>6, EmptyIs
<1>8. ASSUME NEW s \in Members(k), Edits(w, Empty, Empty, {s}, Again(k)) PROVE Sound(u, w)
  <2>1. Alone => Distinct(After(w)["scen"])
    BY <1>3, <1>8, EditsLeave, EmptyIs DEF Distinct
  <2> QED
    BY <1>2a, <1>4, <1>8, <2>1, EmptyIs
<1> QED
  BY <1>5, <1>6, <1>7, <1>8 DEF FileEdit

--------------------------------------------------------------------------------
(***************************************************************************)
(* The contents that a pull and a fork leave.                              *)
(***************************************************************************)
\* The text of a name is the document of the only scenario of that name.
LEMMA TextIs ==
  ASSUME TypedRows, NEW k, NEW r \in Members(k)
  PROVE  [name |-> rows.scen[r].name, doc |-> Texts(k)[rows.scen[r].name]] = rows.scen[r]
<1> DEFINE n == rows.scen[r].name
<1>1. Named(k, n) = {r}
  BY DEF TypedRows, Unique, Named, Members
<1>2. n \in NamesIn(Members(k))
  BY DEF NamesIn
<1>3. Texts(k)[n] = rows.scen[r].doc
  BY <1>1, <1>2 DEF Texts
<1>4. rows["scen"][r] \in File
  BY DEF Members, TypedRows, RowFits, Tables
<1> QED
  BY <1>3, <1>4 DEF File

LEMMA SyncSound ==
  ASSUME RowsInv, TypedRows, NEW u, NEW l, Lives(l), NEW w \in Sync(u, l)
  PROVE  Sound(u, w)
<1>0. PICK k : \E f \in Injection(NewNames(l, k), Slots(l)) :
        /\ rows.coll[<<l>>].source = k /\ MayRead(u, k)
        /\ Edits(w, NewRows(l, f, Texts(k)), Pulled(l, k), Gone(l, k), Row(<<l>>, rows.meta[<<k>>]))
        /\ w.pull = <<l, k>>
  BY SyncIs
<1>0a. PICK f \in Injection(NewNames(l, k), Slots(l)) :
         /\ rows.coll[<<l>>].source = k /\ MayRead(u, k)
         /\ Edits(w, NewRows(l, f, Texts(k)), Pulled(l, k), Gone(l, k), Row(<<l>>, rows.meta[<<k>>]))
         /\ w.pull = <<l, k>>
  BY <1>0
<1>0b. PICK ins, upd, del, doc, N, docs, T :
         /\ N = NewNames(l, k) /\ docs = Texts(k) /\ ins = NewRows(l, f, docs)
         /\ upd = Pulled(l, k) /\ del = Gone(l, k) /\ doc = Row(<<l>>, rows.meta[<<k>>])
         /\ T = After(w)["scen"]
  OBVIOUS
<1>1. /\ rows.coll[<<l>>].source = k /\ MayRead(u, k) /\ w.pull = <<l, k>>
      /\ Edits(w, ins, upd, del, doc) /\ f \in Injection(N, Slots(l))
  BY <1>0a, <1>0b
<1>2. Lives(k) /\ l # k /\ rows["meta"][<<k>>] \in Docs
  <2>1. Lives(k)
    BY <1>1 DEF MayRead, Owns, Shared, RowsInv, Tables
  <2>2. <<l>> \in DOMAIN rows["coll"] /\ <<k>> \in DOMAIN rows["meta"]
    BY <2>1 DEF RowsInv, Lives
  <2>3. rows["coll"][<<l>>].source # <<l>>[1] /\ rows["meta"][<<k>>] \in Docs
    BY <2>2 DEF TypedRows, RowFits, Tables
  <2> QED
    BY <1>1, <2>1, <2>3
<1>3. /\ \A s \in DOMAIN rows["scen"] : /\ s = <<s[1], s[2]>> /\ s[2] \in 1 .. load.slots
                                         /\ rows["scen"][s] \in File
      /\ \A j : \A s : s \in Members(j) <=> s \in DOMAIN rows.scen /\ s[1] = j
  BY DEF TypedRows, RowFits, Tables, Members
<1>4. \A r \in Members(k) : [name |-> rows.scen[r].name, doc |-> docs[rows.scen[r].name]] = rows.scen[r]
  BY <1>0b, TextIs
<1>4a. /\ \A x \in DOMAIN ins : \E n \in N : x = <<l, f[n]>>
       /\ \A n \in N : <<l, f[n]>> \in DOMAIN ins
       /\ \A n \in N : ins[<<l, f[n]>>] = [name |-> n, doc |-> docs[n]]
       /\ \A n \in N : f[n] \in Slots(l)
       /\ \A n, m \in N : f[n] = f[m] => n = m
  <2>1. f \in Injection(N, Slots(l)) /\ ins = NewRows(l, f, docs)
    BY <1>0b, <1>1
  <2>2. \A x \in DOMAIN ins : \E n \in N : x = <<l, f[n]>>
    BY <2>1 DEF Injection, NewRows
  <2>2a. \A n \in N : <<l, f[n]>> \in DOMAIN ins
    <3>1. DOMAIN f = N /\ DOMAIN ins = {<<l, f[n]>> : n \in DOMAIN f}
      BY <2>1 DEF Injection, NewRows
    <3> QED
      BY <3>1
  <2>3. ASSUME NEW n \in N PROVE ins[<<l, f[n]>>] = [name |-> n, doc |-> docs[n]]
    <3>1. PICK S : S = Slots(l) /\ f \in Injection(N, S)
      BY <2>1
    <3>2. NewRows(l, f, docs)[<<l, f[n]>>] = [name |-> n, doc |-> docs[n]]
      BY <3>1, NewRowIs
    <3> QED
      BY <2>1, <3>2
  <2>4. (\A n \in N : f[n] \in Slots(l)) /\ (\A n, m \in N : f[n] = f[m] => n = m)
    BY <2>1 DEF Injection, IsInjective
  <2> QED
    BY <2>2, <2>2a, <2>3, <2>4
\* What is inserted.
<1>5. ASSUME NEW s \in DOMAIN ins
      PROVE  \E r \in Members(k) : /\ ins[s] = rows.scen[r] /\ rows.scen[r].name \in N
                                    /\ s = <<l, f[rows.scen[r].name]>>
                                    /\ f[rows.scen[r].name] \in Slots(l)
  <2>1. PICK n \in N : s = <<l, f[n]>> /\ f[n] \in Slots(l) /\ ins[s] = [name |-> n, doc |-> docs[n]]
    BY <1>4a
  <2>2. PICK r \in Members(k) : rows.scen[r].name = n
    BY <1>0b DEF NewNames, NamesIn
  <2> QED
    BY <1>4, <2>1, <2>2
\* What is updated.
<1>6. ASSUME NEW s \in DOMAIN upd
      PROVE  s \in Members(l) /\ \E r \in Members(k) : upd[s] = rows.scen[r]
                                                       /\ rows.scen[r].name = rows.scen[s].name
  <2>1. s \in Members(l) /\ upd[s] = [rows.scen[s] EXCEPT !.doc = docs[rows.scen[s].name]]
    BY <1>0b DEF Pulled
  <2>2. PICK r \in Members(k) : rows.scen[r].name = rows.scen[s].name
    BY <1>0b DEF Pulled, NamesIn
  <2>3. rows.scen[s] = [name |-> rows.scen[s].name, doc |-> rows.scen[s].doc]
    BY <1>3, <2>1 DEF File
  <2>4. upd[s] = [name |-> rows.scen[s].name, doc |-> docs[rows.scen[s].name]]
    BY <2>1, <2>3
  <2> QED
    BY <1>4, <2>1, <2>2, <2>4
<1>7. /\ DOMAIN T = (DOMAIN ins \cup DOMAIN upd \cup DOMAIN rows.scen) \ del
      /\ \A x \in DOMAIN T :
           T[x] = IF x \in DOMAIN ins THEN ins[x]
                  ELSE IF x \in DOMAIN upd THEN upd[x] ELSE rows.scen[x]
  BY <1>0b, <1>1, EditsLeave
<1>8. \A s \in DOMAIN rows.scen : s \in del <=> s[1] = l /\ s \notin DOMAIN upd
  BY <1>0b, <1>3 DEF Gone, Pulled
<1>8a. del \subseteq DOMAIN rows.scen
  BY <1>0b, <1>3 DEF Gone
<1>9. ASSUME NEW s \in DOMAIN ins PROVE s[1] = l /\ s \notin DOMAIN rows.scen
  <2>1. PICK i : i \in Slots(l) /\ s = <<l, i>>
    BY <1>5
  <2> QED
    BY <2>1 DEF Slots
<1>10. Typed(w) /\ NotSelf(w) /\ KeysFit(w)
  <2>1. \A x \in DOMAIN ins : x = <<l, x[2]>> /\ x[2] \in Slots(l) /\ ins[x] \in File
    <3> SUFFICES ASSUME NEW x \in DOMAIN ins
                 PROVE  x = <<l, x[2]>> /\ x[2] \in Slots(l) /\ ins[x] \in File
      OBVIOUS
    <3>1. PICK r \in Members(k) : /\ ins[x] = rows.scen[r]
                                   /\ x = <<l, f[rows.scen[r].name]>>
                                   /\ f[rows.scen[r].name] \in Slots(l)
      BY <1>5
    <3>2. rows.scen[r] \in File
      BY <1>3
    <3> QED
      BY <3>1, <3>2
  <2>2. \A x \in DOMAIN upd : /\ x \in Members(l) /\ x = <<l, x[2]>> /\ x[2] \in 1 .. load.slots
                               /\ upd[x] \in File
    BY <1>3, <1>6
  <2>3. DOMAIN doc = {<<l>>} /\ doc[<<l>>] \in Docs
    BY <1>0b, <1>2, RowIs
  <2> QED
    BY <1>1, <2>1, <2>2, <2>3, EditsFit
\* The scenarios of l afterwards, and those of the others.
<1>11. ASSUME NEW s \in DOMAIN T, s[1] # l
       PROVE  s \in DOMAIN rows.scen /\ T[s] = rows.scen[s]
  BY <1>3, <1>6, <1>7, <1>9, <1>11
<1>12. ASSUME NEW s \in DOMAIN T, s[1] = l
       PROVE  (s \in DOMAIN ins \/ s \in DOMAIN upd) /\ \E r \in Members(k) : T[s] = rows.scen[r]
  BY <1>5, <1>6, <1>7, <1>8, <1>12
<1>13. RowsOf(T, l) = RowsOf(rows.scen, k)
  <2>1. ASSUME NEW s \in DOMAIN T, s[1] = l PROVE T[s] \in RowsOf(rows.scen, k)
    BY <1>3, <1>12, <2>1 DEF RowsOf
  <2>2. ASSUME NEW r \in DOMAIN rows.scen, r[1] = k PROVE rows.scen[r] \in RowsOf(T, l)
    <3> DEFINE n == rows.scen[r].name
    <3>0. r \in Members(k) /\ n \in NamesIn(Members(k))
      BY <1>3, <2>2 DEF NamesIn
    <3>1. CASE n \in N
      <4>1. <<l, f[n]>> \in DOMAIN ins /\ ins[<<l, f[n]>>] = [name |-> n, doc |-> docs[n]]
        BY <3>1, <1>4a
      <4>2. ins[<<l, f[n]>>] = rows.scen[r]
        BY <1>4, <3>0, <4>1
      <4> HIDE DEF n
      <4>3. PICK s : s = <<l, f[n]>>
        OBVIOUS
      <4>4. s \in DOMAIN T /\ s[1] = l /\ T[s] = rows.scen[r]
        BY <1>7, <1>8a, <1>9, <4>1, <4>2, <4>3
      <4> QED
        BY <4>4 DEF RowsOf
    <3>2. CASE n \notin N
      <4>1. PICK s \in Members(l) : rows.scen[s].name = n
        BY <1>0b, <3>0, <3>2 DEF NewNames, NamesIn
      <4>2. s \in DOMAIN upd
        BY <1>0b, <3>0, <4>1 DEF Pulled
      <4>3. upd[s] = rows.scen[r]
        <5>1. PICK q \in Members(k) : upd[s] = rows.scen[q] /\ rows.scen[q].name = n
          BY <1>6, <4>1, <4>2
        <5>2. q = r
          BY <1>3, <3>0, <5>1 DEF TypedRows, Unique
        <5> QED
          BY <5>1, <5>2
      <4>4. s \in DOMAIN T /\ s[1] = l /\ T[s] = rows.scen[r]
        BY <1>3, <1>7, <1>8, <1>9, <4>1, <4>2, <4>3
      <4> QED
        BY <4>4 DEF RowsOf
    <3> QED
      BY <3>1, <3>2
  <2> QED
    BY <2>1, <2>2 DEF RowsOf
<1>14. ASSUME Alone PROVE Distinct(T)
  <2>0. \A s, r \in DOMAIN rows.scen :
          (s[1] = r[1] /\ Fold[rows.scen[s].name] = Fold[rows.scen[r].name]) => s = r
    BY <1>14 DEF TypedRows, Distinct
  <2>1. SUFFICES ASSUME NEW s \in DOMAIN T, NEW r \in DOMAIN T, s[1] = r[1],
                        Fold[T[s].name] = Fold[T[r].name]
                 PROVE  s = r
    BY DEF Distinct
  <2>2. CASE s[1] # l
    BY <1>11, <2>0, <2>1, <2>2
  <2>3. CASE s[1] = l
    <3>1. T[s].name = T[r].name
      <4>1. PICK p \in Members(k) : T[s] = rows.scen[p]
        BY <1>12, <2>3
      <4>2. PICK q \in Members(k) : T[r] = rows.scen[q]
        BY <1>12, <2>1, <2>3
      <4> QED
        BY <1>3, <2>0, <2>1, <4>1, <4>2
    <3>2. \A q \in DOMAIN ins : T[q] = ins[q] /\ ins[q].name \in N /\ q = <<l, f[ins[q].name]>>
      BY <1>5, <1>7, <1>8a, <1>9
    <3>3. ASSUME NEW q \in DOMAIN upd, q \in DOMAIN T, q \notin DOMAIN ins
          PROVE  q \in Members(l) /\ T[q].name = rows.scen[q].name /\ T[q].name \notin N
      <4>1. q \in Members(l) /\ T[q].name = rows.scen[q].name
        BY <1>6, <1>7, <3>3
      <4> QED
        BY <1>0b, <4>1 DEF NewNames, NamesIn
    <3>4. CASE s \in DOMAIN ins \/ r \in DOMAIN ins
      <4>1. s \in DOMAIN ins /\ r \in DOMAIN ins
        <5>1. \A q \in DOMAIN T : q[1] = l => (q \in DOMAIN ins <=> T[q].name \in N)
          <6> SUFFICES ASSUME NEW q \in DOMAIN T, q[1] = l
                       PROVE  q \in DOMAIN ins <=> T[q].name \in N
            OBVIOUS
          <6>1. CASE q \in DOMAIN ins
            BY <3>2, <6>1
          <6>2. CASE q \notin DOMAIN ins
            BY <1>12, <3>3, <6>2
          <6> QED
            BY <6>1, <6>2
        <5> QED
          BY <2>1, <2>3, <3>1, <3>4, <5>1
      <4>2. PICK n : n = ins[s].name /\ n = ins[r].name
        BY <3>1, <3>2, <4>1
      <4>3. s = <<l, f[n]>> /\ r = <<l, f[n]>>
        BY <3>2, <4>1, <4>2
      <4> QED
        BY <4>3
    <3>5. CASE s \notin DOMAIN ins /\ r \notin DOMAIN ins
      <4>1. s \in Members(l) /\ r \in Members(l) /\ rows.scen[s].name = rows.scen[r].name
        BY <1>12, <2>1, <2>3, <3>1, <3>3, <3>5
      <4> QED
        BY <1>3, <4>1, <2>0
    <3> QED
      BY <3>4, <3>5
  <2> QED
    BY <2>2, <2>3
<1>15. PullFits(w)
  <2>1. ~Touches(w, k)
    <3>1. \A x \in DOMAIN ins \cup DOMAIN upd \cup del : x[1] = l
      BY <1>3, <1>6, <1>8, <1>8a, <1>9
    <3>2. DOMAIN doc = {<<l>>}
      BY <1>0b, RowIs
    <3>3. Within(w, l)
      BY <1>1, <3>1, <3>2, EditsWithin
    <3> QED
      BY <1>2, <3>3 DEF Touches, Within, Tables
  <2>2. /\ w.del["coll"] = {} /\ w.upd["meta"] = Row(<<l>>, rows.meta[<<k>>])
        /\ w.ins["meta"] = Empty /\ w.del["meta"] = {}
    BY <1>0b, <1>1 DEF Edits, Tables
  <2>3. /\ w.del.coll = {} /\ w.upd.meta = Row(<<l>>, rows.meta[<<k>>])
        /\ DOMAIN w.ins.meta = {} /\ w.del.meta = {}
        /\ RowsOf(After(w).scen, l) = RowsOf(rows.scen, k)
    BY <1>0b, <1>13, <2>2, EmptyIs
  <2> QED
    BY <1>1, <1>2, <2>1, <2>3 DEF PullFits
<1> QED
  BY <1>0b, <1>10, <1>14, <1>15 DEF Sound, Clean

--------------------------------------------------------------------------------
(***************************************************************************)
(* Requests that create a collection, and requests on shares and values.   *)
(***************************************************************************)
\* Scenarios, when nothing is updated or deleted among them.
LEMMA InsertLeaves ==
  ASSUME NEW w, w.upd["scen"] = Empty, w.del["scen"] = {}
  PROVE  LET ins == w.ins["scen"]
             scen == After(w)["scen"]
         IN
         /\ DOMAIN scen = {x \in DOMAIN ins \cup DOMAIN rows.scen : x[1] \notin Dead(w)}
         /\ \A x \in DOMAIN scen : x \in DOMAIN ins => scen[x] = ins[x]
         /\ \A x \in DOMAIN scen : x \notin DOMAIN ins => scen[x] = rows.scen[x]
<1> DEFINE ins == w.ins["scen"]
           scen == After(w)["scen"]
<1>1. "scen" \in Tables
  BY DEF Tables
<1>2. DOMAIN scen = {x \in Wrote(w, "scen") : x[1] \notin Dead(w) /\ x \notin w.del["scen"]}
  BY <1>1, AfterIs
<1>3. \A x \in DOMAIN scen : scen[x] = Over(ins, Over(Empty, rows.scen))[x]
  BY <1>1, AfterIs
<1>4. Wrote(w, "scen") = DOMAIN ins \cup DOMAIN rows.scen
  BY EmptyIs DEF Wrote
<1>5. \A x \in DOMAIN scen : x \in DOMAIN ins \/ x \in DOMAIN rows.scen
  BY <1>2, <1>4
<1>6. \A x \in DOMAIN ins : Over(ins, Over(Empty, rows.scen))[x] = ins[x]
  BY OverTwo
<1>7. \A x \in DOMAIN rows.scen \ DOMAIN ins : Over(ins, Over(Empty, rows.scen))[x] = rows.scen[x]
  BY OverTwo, EmptyIs
<1> QED
  BY <1>2, <1>3, <1>4, <1>5, <1>6, <1>7

\* The rows of a new collection k of user u.
NewRowsFit(w, u, k) ==
  /\ \A t \in Tables : w.upd[t] = Empty /\ w.del[t] = {}
  /\ DOMAIN w.ins["coll"] = {<<k>>} /\ w.ins["coll"][<<k>>] \in CollRow
  /\ w.ins["coll"][<<k>>].owner = u /\ w.ins["coll"][<<k>>].source # k
  /\ w.ins["coll"][<<k>>].source = none \/ Lives(w.ins["coll"][<<k>>].source)
  /\ DOMAIN w.ins["meta"] = {<<k>>} /\ w.ins["meta"][<<k>>] \in Docs
  /\ \A x \in DOMAIN w.ins["scen"] : /\ x = <<k, x[2]>> /\ x[2] \in 1 .. load.slots
                                     /\ w.ins["scen"][x] \in File
  /\ \A x \in DOMAIN w.ins["share"] : /\ x[1] = k /\ x[2] \in Users \ {u}
                                      /\ w.ins["share"][x] \in [edit : BOOLEAN, env : BOOLEAN]
  /\ \A x \in DOMAIN w.ins["val"] : /\ x = <<k, x[2]>> /\ x[2] \in Users
                                    /\ w.ins["val"][x] \in Values

LEMMA CreationSound ==
  ASSUME RowsInv, TypedRows, load \in Load, NEW u \in Users, NEW k \in NewId, NEW w,
         NewRowsFit(w, u, k), Alone => Distinct(w.ins["scen"]),
         w.twice => ForksTwoValues(u, w), w.pull # none => PullFits(w)
  PROVE  Sound(u, w)
<1>1. ~Lives(k)
  BY NewIdFacts
<1>2. \A t \in Tables : \A x \in DOMAIN w.ins[t] : x[1] = k
  BY DEF NewRowsFit, Tables
<1>3. \A t \in Tables : \A x \in DOMAIN rows[t] : x[1] # k
  BY <1>1 DEF RowsInv
<1>4. \A t \in Tables : DOMAIN w.upd[t] = {}
  BY EmptyIs DEF NewRowsFit
<1>5. ASSUME NEW t \in Tables, NEW x \in DOMAIN w.ins[t] PROVE RowFits(t, x, w.ins[t][x])
  <2>1. CASE t = "coll"
    BY <1>5, <2>1 DEF NewRowsFit, RowFits
  <2>2. CASE t = "meta"
    BY <1>5, <2>2 DEF NewRowsFit, RowFits
  <2>3. CASE t = "scen"
    BY <1>5, <2>3 DEF NewRowsFit, RowFits
  <2>4. CASE t = "share"
    BY <1>5, <2>4 DEF NewRowsFit, RowFits
  <2>5. CASE t = "val"
    BY <1>5, <2>5 DEF NewRowsFit, RowFits
  <2> QED
    BY <2>1, <2>2, <2>3, <2>4, <2>5 DEF Tables
<1>6. Typed(w)
  <2>1. DOMAIN w.ins["meta"] \subseteq DOMAIN w.ins["coll"]
    BY DEF NewRowsFit
  <2>2. ASSUME NEW x \in DOMAIN w.ins["share"], NEW y \in DOMAIN w.ins["coll"]
        PROVE  x[2] # w.ins["coll"][y].owner
    BY <2>2 DEF NewRowsFit
  <2> QED
    BY <1>4, <1>5, <2>1, <2>2 DEF Typed
<1>7. NotSelf(w)
  <2>1. \A x \in DOMAIN w.ins["share"] : ~Lives(x[1])
    BY <1>1, <1>2 DEF Tables
  <2> QED
    BY <2>1 DEF NotSelf
<1>8. ~w.twice => KeysFit(w)
  <2>1. \A t \in Tables : DOMAIN w.ins[t] \cap DOMAIN rows[t] = {}
    BY <1>2, <1>3
  <2>2. \A t \in Tables : \A x \in DOMAIN w.ins[t] : <<x[1]>> \in DOMAIN w.ins["coll"]
    BY <1>2 DEF NewRowsFit
  <2>3. \A x \in DOMAIN w.ins["coll"] :
          w.ins["coll"][x].source = none \/ Lives(w.ins["coll"][x].source)
    BY DEF NewRowsFit
  <2> QED
    BY <1>4, <2>1, <2>2, <2>3 DEF KeysFit
<1>9. ASSUME Alone PROVE Distinct(After(w)["scen"])
  <2>1. PICK scen, ins : scen = After(w)["scen"] /\ ins = w.ins["scen"]
    OBVIOUS
  <2>2. w.upd["scen"] = Empty /\ w.del["scen"] = {}
    BY DEF NewRowsFit, Tables
  <2>3. /\ \A x \in DOMAIN scen : x \in DOMAIN ins \/ x \in DOMAIN rows.scen
        /\ \A x \in DOMAIN scen : x \in DOMAIN ins => scen[x] = ins[x]
        /\ \A x \in DOMAIN scen : x \notin DOMAIN ins => scen[x] = rows.scen[x]
    BY <2>1, <2>2, InsertLeaves
  <2>4. /\ \A x \in DOMAIN ins : x[1] = k
        /\ \A x \in DOMAIN rows.scen : x[1] # k
    BY <1>2, <1>3, <2>1 DEF Tables
  <2>5. Distinct(ins) /\ Distinct(rows.scen)
    BY <1>9, <2>1 DEF TypedRows
  <2> SUFFICES Distinct(scen)
    BY <2>1
  <2> QED
    BY <2>3, <2>4, <2>5 DEF Distinct
<1> QED
  BY <1>6, <1>7, <1>8, <1>9 DEF Sound, Clean

\* The scenarios of a clone: library files, under their own names.
LEMMA LibraryRowsFit ==
  ASSUME load \in Loads, NEW k, NEW files, files \subseteq load.library,
         NEW f \in Injection(files, Slots(k)), NEW ins, ins = LibraryRows(k, f, files)
  PROVE  /\ \A x \in DOMAIN ins : x = <<k, x[2]>> /\ x[2] \in 1 .. load.slots /\ ins[x] \in File
         /\ Distinct(ins)
<1>1. PICK docs : docs = [n \in files |-> Doc(n, blank)] /\ ins = NewRows(k, f, docs)
  BY DEF LibraryRows
<1>2. PICK S : S = Slots(k) /\ f \in Injection(files, S)
  OBVIOUS
<1>3. \A n \in files : NewRows(k, f, docs)[<<k, f[n]>>] = [name |-> n, doc |-> docs[n]]
  BY <1>2, NewRowIs
<1>4. \A x \in DOMAIN ins : \E n \in files : x = <<k, f[n]>>
  BY <1>1 DEF Injection, NewRows
<1>5. \A n \in files : f[n] \in S
  BY <1>2 DEF Injection
<1>6. files \subseteq Names /\ \A n, m \in files : Fold[n] = Fold[m] => n = m
  BY LibraryAssumption DEF Load
<1>7. ASSUME NEW x \in DOMAIN ins
      PROVE  \E n \in files : x = <<k, f[n]>> /\ ins[x] = [name |-> n, doc |-> docs[n]]
  <2>1. PICK n \in files : x = <<k, f[n]>>
    BY <1>4
  <2>2. ins[x] = [name |-> n, doc |-> docs[n]]
    BY <1>1, <1>3, <2>1
  <2> QED
    BY <2>1, <2>2
<1>8. ASSUME NEW x \in DOMAIN ins
      PROVE  x = <<k, x[2]>> /\ x[2] \in 1 .. load.slots /\ ins[x] \in File
  <2>1. PICK n \in files : x = <<k, f[n]>> /\ ins[x] = [name |-> n, doc |-> docs[n]]
    BY <1>7
  <2>2. f[n] \in 1 .. load.slots
    BY <1>2, <1>5 DEF Slots
  <2>3. ins[x] \in File
    BY <1>1, <1>6, <2>1, BlankAssumption DEF Doc, File
  <2> QED
    BY <2>1, <2>2, <2>3
<1>9. ASSUME NEW x \in DOMAIN ins, NEW y \in DOMAIN ins, Fold[ins[x].name] = Fold[ins[y].name]
      PROVE  x = y
  <2>1. PICK n \in files : x = <<k, f[n]>> /\ ins[x] = [name |-> n, doc |-> docs[n]]
    BY <1>7
  <2>2. PICK m \in files : y = <<k, f[m]>> /\ ins[y] = [name |-> m, doc |-> docs[m]]
    BY <1>7
  <2>3. n = m
    BY <1>6, <1>9, <2>1, <2>2
  <2> QED
    BY <2>1, <2>2, <2>3
<1> QED
  BY <1>8, <1>9 DEF Distinct

\* The inserted rows of a new collection, by tables.
LEMMA FiveFit ==
  ASSUME load \in Load, NEW u \in Users, NEW k, k \in NewId, NEW w, NEW a, NEW b, NEW c, NEW d, NEW e,
         w.ins = Five(a, b, c, d, e), w.upd = NoRows, w.del = NoKeys,
         NEW r, a = Row(<<k>>, r), r \in CollRow, r.owner = u, r.source # k,
         r.source = none \/ Lives(r.source),
         NEW doc \in Docs, b = Row(<<k>>, doc),
         \A x \in DOMAIN c : x = <<k, x[2]>> /\ x[2] \in 1 .. load.slots /\ c[x] \in File,
         \A x \in DOMAIN d : x = <<k, x[2]>> /\ x[2] \in Users /\ d[x] \in Values,
         \A x \in DOMAIN e : x[1] = k /\ x[2] \in Users \ {u} /\ e[x] \in [edit : BOOLEAN, env : BOOLEAN]
  PROVE  NewRowsFit(w, u, k)
<1>1. /\ \A t \in Tables : w.upd[t] = Empty /\ w.del[t] = {}
      /\ w.ins["coll"] = a /\ w.ins["meta"] = b
      /\ w.ins["val"] = d /\ w.ins["scen"] = c /\ w.ins["share"] = e
  BY InsertedAre
<1>2. DOMAIN a = {<<k>>} /\ a[<<k>>] = r /\ DOMAIN b = {<<k>>} /\ b[<<k>>] = doc
  BY RowIs
<1> QED
  BY <1>1, <1>2 DEF NewRowsFit

FilesFit(k, c) ==
  \A x \in DOMAIN c : x = <<k, x[2]>> /\ x[2] \in 1 .. load.slots /\ c[x] \in File
GrantsFit(k, u, e) ==
  \A x \in DOMAIN e : x[1] = k /\ x[2] \in Users \ {u} /\ e[x] \in [edit : BOOLEAN, env : BOOLEAN]

\* A new collection that is nobody's fork.
LEMMA PlainFit ==
  ASSUME load \in Load, NEW u \in Users, NEW k, k \in NewId, NEW w, NEW c, NEW e,
         w.ins = Five(Row(<<k>>, [owner |-> u, source |-> none]), Row(<<k>>, blank), c, Empty, e),
         w.upd = NoRows, w.del = NoKeys, FilesFit(k, c), GrantsFit(k, u, e)
  PROVE  NewRowsFit(w, u, k) /\ w.ins["scen"] = c
<1>1. PICK r : r = [owner |-> u, source |-> none]
  OBVIOUS
<1>2. r \in CollRow /\ r.owner = u /\ r.source = none /\ none # k
  BY <1>1, NewIdFacts, NoneAssumption DEF CollRow
<1>3. PICK a, b, d : a = Row(<<k>>, r) /\ b = Row(<<k>>, blank) /\ d = Empty
  OBVIOUS
<1>4. w.ins = Five(a, b, c, d, e)
  BY <1>1, <1>3
<1>5. \A x \in DOMAIN d : x = <<k, x[2]>> /\ x[2] \in Users /\ d[x] \in Values
  BY <1>3, EmptyIs
<1>6. w.ins["scen"] = c
  BY <1>4, InsertedAre
<1> QED
  BY <1>2, <1>3, <1>4, <1>5, <1>6, FiveFit, BlankAssumption DEF FilesFit, GrantsFit

LEMMA NewSound ==
  ASSUME RowsInv, TypedRows, load \in Loads, NEW u \in Users, NEW w \in NewCollection(u)
  PROVE  Sound(u, w)
<1>1. PICK k \in NewId : TRUE
  BY DEF NewCollection
<1>2. PICK a, b : a = Row(<<k>>, [owner |-> u, source |-> none]) /\ b = Row(<<k>>, blank)
  OBVIOUS
<1>3. w = [Writes EXCEPT !.ins.coll = a, !.ins.meta = b]
  <2>1. w = NewWrites(u, k)
    BY NewCollectionIs
  <2> QED
    BY <1>2, <2>1 DEF NewWrites
<1>4. w.ins = Five(a, b, Empty, Empty, Empty)
  <2>1. w.ins = [NoRows EXCEPT !["coll"] = a, !["meta"] = b]
    BY <1>3 DEF Writes
  <2> QED
    BY <2>1, FewerInserted
<1>5. w.upd = NoRows /\ w.del = NoKeys /\ ~w.twice /\ w.pull = none
  BY <1>3 DEF Writes
<1>6. NewRowsFit(w, u, k) /\ w.ins["scen"] = Empty
  <2>1. FilesFit(k, Empty) /\ GrantsFit(k, u, Empty)
    BY EmptyIs DEF FilesFit, GrantsFit
  <2>2. w.ins = Five(Row(<<k>>, [owner |-> u, source |-> none]), Row(<<k>>, blank), Empty, Empty, Empty)
    BY <1>2, <1>4
  <2> QED
    BY <1>5, <2>1, <2>2, PlainFit
<1>7. Distinct(w.ins["scen"])
  BY <1>6, EmptyIs DEF Distinct
<1> QED
  BY <1>5, <1>6, <1>7, CreationSound

LEMMA CloneSound ==
  ASSUME RowsInv, TypedRows, load \in Loads, NEW u \in Users, NEW files,
         files \subseteq load.library, NEW w \in CloneLibrary(u, files)
  PROVE  Sound(u, w)
<1>1. PICK k \in NewId : \E g \in Injection(files, Slots(k)) :
        CloneOf(w, u, k, LibraryRows(k, g, files))
  BY CloneIs
<1>2. PICK g \in Injection(files, Slots(k)) : CloneOf(w, u, k, LibraryRows(k, g, files))
  BY <1>1
<1>3. PICK f : f = LibraryRows(k, g, files) /\ CloneOf(w, u, k, f)
  BY <1>2
<1>4. /\ \A x \in DOMAIN f : x = <<k, x[2]>> /\ x[2] \in 1 .. load.slots /\ f[x] \in File
      /\ Distinct(f)
  BY <1>3, LibraryRowsFit
<1>5. FilesFit(k, f) /\ GrantsFit(k, u, Empty)
  BY <1>4, EmptyIs DEF FilesFit, GrantsFit
<1>6. /\ w.ins = Five(Row(<<k>>, [owner |-> u, source |-> none]), Row(<<k>>, blank), f, Empty, Empty)
      /\ w.upd = NoRows /\ w.del = NoKeys
      /\ ~w.twice /\ w.pull = none
  BY <1>3 DEF CloneOf
<1>7. NewRowsFit(w, u, k) /\ w.ins["scen"] = f
  BY <1>5, <1>6, PlainFit
<1> QED
  BY <1>4, <1>6, <1>7, CreationSound

LEMMA ShareLibrarySound ==
  ASSUME RowsInv, TypedRows, load \in Loads, NEW u \in Users, NEW v \in Users,
         NEW g \in [edit : BOOLEAN, env : BOOLEAN], NEW w \in ShareLibrary(u, v, g)
  PROVE  Sound(u, w)
<1>1. PICK k, f, e : /\ k \in NewId /\ e = Row(<<k, v>>, g) /\ v # u
                     /\ \E h \in Injection(load.library, Slots(k)) :
                          f = LibraryRows(k, h, load.library)
                     /\ w.ins = Five(Row(<<k>>, [owner |-> u, source |-> none]), Row(<<k>>, blank),
                                     f, Empty, e)
                     /\ w.upd = NoRows /\ w.del = NoKeys /\ ~w.twice /\ w.pull = none
  BY ShareLibraryIs
<1>2. /\ \A x \in DOMAIN f : x = <<k, x[2]>> /\ x[2] \in 1 .. load.slots /\ f[x] \in File
      /\ Distinct(f)
  <2>1. PICK h \in Injection(load.library, Slots(k)) : f = LibraryRows(k, h, load.library)
    BY <1>1
  <2>2. PICK files : files = load.library
    OBVIOUS
  <2> QED
    BY <2>1, <2>2, LibraryRowsFit
<1>4. FilesFit(k, f) /\ GrantsFit(k, u, e)
  <2>1. DOMAIN e = {<<k, v>>} /\ e[<<k, v>>] = g
    BY <1>1, RowIs
  <2> QED
    BY <1>1, <1>2, <2>1 DEF FilesFit, GrantsFit
<1>5. NewRowsFit(w, u, k) /\ w.ins["scen"] = f
  BY <1>1, <1>4, PlainFit
<1> QED
  BY <1>1, <1>2, <1>5, CreationSound

\* A fork has the scenarios of its source, and their names.
LEMMA ForkRowsFit ==
  ASSUME TypedRows, NEW k, NEW l, NEW f, f = ForkRows(l, k)
  PROVE  /\ FilesFit(l, f)
         /\ {f[s] : s \in DOMAIN f} = RowsOf(rows.scen, k)
         /\ Alone => Distinct(f)
<1>1. \A r \in DOMAIN rows["scen"] : /\ r = <<r[1], r[2]>> /\ r[2] \in 1 .. load.slots
                                     /\ rows["scen"][r] \in File
  BY DEF TypedRows, RowFits, Tables
<1>2. \A r : r \in Members(k) => r \in DOMAIN rows.scen /\ r[1] = k /\ r = <<k, r[2]>>
  BY <1>1 DEF Members
<1>3. DOMAIN f = {<<l, r[2]>> : r \in Members(k)}
      /\ \A s \in DOMAIN f : f[s] = rows.scen[<<k, s[2]>>]
  BY DEF ForkRows
<1>4. ASSUME NEW r \in Members(k) PROVE <<l, r[2]>> \in DOMAIN f /\ f[<<l, r[2]>>] = rows.scen[r]
  <2>1. <<l, r[2]>> \in DOMAIN f
    BY <1>3
  <2>2. f[<<l, r[2]>>] = rows.scen[<<k, r[2]>>]
    BY <1>3, <2>1
  <2> QED
    BY <1>2, <2>1, <2>2
<1>5. ASSUME NEW s \in DOMAIN f
      PROVE  \E r \in Members(k) : s = <<l, r[2]>> /\ f[s] = rows.scen[r]
  <2>1. PICK r \in Members(k) : s = <<l, r[2]>>
    BY <1>3
  <2> QED
    BY <1>4, <2>1
<1>6. FilesFit(l, f)
  <2> SUFFICES ASSUME NEW s \in DOMAIN f
               PROVE  s = <<l, s[2]>> /\ s[2] \in 1 .. load.slots /\ f[s] \in File
    BY DEF FilesFit
  <2>1. PICK r \in Members(k) : s = <<l, r[2]>> /\ f[s] = rows.scen[r]
    BY <1>5
  <2> QED
    BY <1>1, <1>2, <2>1
<1>7. {f[s] : s \in DOMAIN f} = RowsOf(rows.scen, k)
  <2>1. ASSUME NEW s \in DOMAIN f PROVE f[s] \in RowsOf(rows.scen, k)
    BY <1>2, <1>5 DEF RowsOf
  <2>2. ASSUME NEW r \in DOMAIN rows.scen, r[1] = k PROVE rows.scen[r] \in {f[s] : s \in DOMAIN f}
    BY <1>4, <2>2 DEF Members
  <2> QED
    BY <2>1, <2>2 DEF RowsOf
<1>8. ASSUME Alone PROVE Distinct(f)
  <2> SUFFICES ASSUME NEW s \in DOMAIN f, NEW t \in DOMAIN f, Fold[f[s].name] = Fold[f[t].name]
               PROVE  s = t
    BY DEF Distinct
  <2>1. PICK r \in Members(k) : s = <<l, r[2]>> /\ f[s] = rows.scen[r]
    BY <1>5
  <2>2. PICK q \in Members(k) : t = <<l, q[2]>> /\ f[t] = rows.scen[q]
    BY <1>5
  <2>3. r = q
    BY <1>2, <1>8, <2>1, <2>2 DEF TypedRows, Distinct
  <2> QED
    BY <2>1, <2>2, <2>3
<1> QED
  BY <1>6, <1>7, <1>8

\* Two values are copied only when both the owner and the forker have one.
LEMMA TwiceIs ==
  ASSUME NEW u, NEW k, Cardinality(Copied(u, k)) > 1
  PROVE  Owner(k) # u /\ {<<k, u>>, <<k, Owner(k)>>} \subseteq DOMAIN rows.val
<1>1. \A z : Copied(u, k) \subseteq {z} => Cardinality(Copied(u, k)) \leq 1
  <2> SUFFICES ASSUME NEW z, Copied(u, k) \subseteq {z} PROVE Cardinality(Copied(u, k)) \leq 1
    OBVIOUS
  <2>1. IsFiniteSet({z}) /\ Cardinality({z}) = 1
    BY FS_Singleton
  <2>2. Cardinality(Copied(u, k)) \leq Cardinality({z})
    BY <2>1, FS_Subset
  <2> QED
    BY <2>1, <2>2
<1>2. Cardinality(Copied(u, k)) \in Nat
  <2>1. IsFiniteSet({<<k, u>>}) /\ IsFiniteSet({<<k, Owner(k)>>})
    BY FS_Singleton
  <2>2. IsFiniteSet({<<k, u>>} \cup {<<k, Owner(k)>>})
    BY <2>1, FS_Union
  <2>3. Copied(u, k) \subseteq {<<k, u>>} \cup {<<k, Owner(k)>>}
    BY DEF Copied
  <2>4. IsFiniteSet(Copied(u, k))
    BY <2>2, <2>3, FS_Subset
  <2> QED
    BY <2>4, FS_CardinalityType
<1>3. \A z : ~(Copied(u, k) \subseteq {z})
  BY <1>1, <1>2
<1>4. \A x \in Copied(u, k) : (x = <<k, u>> \/ x = <<k, Owner(k)>>) /\ x \in DOMAIN rows.val
  BY DEF Copied
<1>5. <<k, u>> \in Copied(u, k) /\ <<k, Owner(k)>> \in Copied(u, k) /\ u # Owner(k)
  BY <1>3, <1>4
<1> QED
  BY <1>4, <1>5

LEMMA ForkSound ==
  ASSUME RowsInv, TypedRows, load \in Loads, NEW u \in Users, NEW k \in Live, NEW w \in Fork(u, k)
  PROVE  Sound(u, w)
<1>1. PICK l \in NewId :
        /\ w.ins = Five(Row(<<l>>, [owner |-> u, source |-> k]), Row(<<l>>, rows.meta[<<k>>]),
                        ForkRows(l, k), ForkValues(u, l, k), Empty)
        /\ w.upd = NoRows /\ w.del = NoKeys
        /\ w.twice = (Cardinality(Copied(u, k)) > 1) /\ w.pull = <<l, k>>
  BY ForkIs
<1>2. PICK a, b, f, h, r, doc :
        /\ r = [owner |-> u, source |-> k] /\ doc = rows.meta[<<k>>]
        /\ a = Row(<<l>>, r) /\ b = Row(<<l>>, doc)
        /\ f = ForkRows(l, k) /\ h = ForkValues(u, l, k)
  OBVIOUS
<1>3. Lives(k) /\ ~Lives(l) /\ k # l /\ k \in Collections /\ k # none
  <2>1. Lives(k) /\ ~Lives(l)
    BY LiveKeys, NewIdFacts
  <2>2. <<k>> \in DOMAIN rows.coll
    BY <2>1 DEF Lives
  <2>3. k \in Collections
    BY <2>2 DEF RowsInv
  <2> QED
    BY <2>1, <2>3, NoneAssumption
<1>4. r \in CollRow /\ r.owner = u /\ r.source = k /\ doc \in Docs
  <2>1. <<k>> \in DOMAIN rows["meta"]
    BY <1>3 DEF RowsInv, Lives
  <2>2. rows["meta"][<<k>>] \in Docs
    BY <2>1 DEF TypedRows, RowFits, Tables
  <2> QED
    BY <1>2, <1>3, <2>2 DEF CollRow
<1>5. FilesFit(l, f) /\ (Alone => Distinct(f)) /\ {f[s] : s \in DOMAIN f} = RowsOf(rows.scen, k)
  BY <1>2, ForkRowsFit
<1>6. \A x \in DOMAIN h : x = <<l, x[2]>> /\ x[2] \in Users /\ h[x] \in Values
  <2> SUFFICES ASSUME NEW x \in DOMAIN h PROVE x = <<l, u>> /\ h[x] \in Values
    OBVIOUS
  <2>1. x = <<l, u>> /\ Copied(u, k) # {} /\ h[x] = rows.val[CHOOSE y \in Copied(u, k) : TRUE]
    BY <1>2 DEF ForkValues
  <2>2. PICK y : y = (CHOOSE z \in Copied(u, k) : TRUE) /\ y \in Copied(u, k)
    BY <2>1
  <2>3. y \in DOMAIN rows["val"]
    BY <2>2 DEF Copied
  <2>4. rows["val"][y] \in Values
    BY <2>3 DEF TypedRows, RowFits, Tables
  <2> QED
    BY <2>1, <2>2, <2>4
<1>7. w.ins = Five(a, b, f, h, Empty)
  BY <1>1, <1>2
<1>8. NewRowsFit(w, u, l)
  <2>1. \A x \in DOMAIN f : x = <<l, x[2]>> /\ x[2] \in 1 .. load.slots /\ f[x] \in File
    BY <1>5 DEF FilesFit
  <2>2. PICK e : e = Empty
    OBVIOUS
  <2>3. \A x \in DOMAIN e : x[1] = l /\ x[2] \in Users \ {u} /\ e[x] \in [edit : BOOLEAN, env : BOOLEAN]
    BY <2>2, EmptyIs
  <2>4. w.ins = Five(a, b, f, h, e)
    BY <1>7, <2>2
  <2> QED
    BY <1>1, <1>2, <1>3, <1>4, <1>6, <2>1, <2>3, <2>4, FiveFit
<1>9. /\ w.ins["coll"] = a /\ w.ins["meta"] = b /\ w.ins["scen"] = f
      /\ \A t \in Tables : w.upd[t] = Empty /\ w.del[t] = {}
  BY <1>1, <1>7, InsertedAre
<1>10. DOMAIN a = {<<l>>} /\ a[<<l>>] = r /\ DOMAIN b = {<<l>>}
  BY <1>2, RowIs
<1>11. w.twice => ForksTwoValues(u, w)
  <2> SUFFICES ASSUME w.twice PROVE ForksTwoValues(u, w)
    OBVIOUS
  <2>1. Owner(k) # u /\ {<<k, u>>, <<k, Owner(k)>>} \subseteq DOMAIN rows.val
    BY <1>1, TwiceIs
  <2>2. <<l>> \in DOMAIN w.ins["coll"] /\ w.ins["coll"][<<l>>].source = k
    BY <1>4, <1>9, <1>10
  <2> QED
    BY <1>3, <2>1, <2>2 DEF ForksTwoValues
<1>12. PullFits(w)
  <2>1. ~Touches(w, k)
    <3>1. \A t \in Tables : Keys(w, t) = DOMAIN w.ins[t]
      BY <1>9, EmptyIs DEF Keys
    <3>2. \A t \in Tables : \A x \in DOMAIN w.ins[t] : x[1] = l
      BY <1>8 DEF NewRowsFit, Tables
    <3> QED
      BY <1>3, <3>1, <3>2 DEF Touches
  <2>2. w.del["coll"] = {} /\ w.del["meta"] = {} /\ w.upd["meta"] = Empty /\ w.ins["meta"] = Row(<<l>>, rows.meta[<<k>>])
    BY <1>2, <1>9 DEF Tables
  <2>3. RowsOf(After(w)["scen"], l) = RowsOf(rows.scen, k)
    <3>1. PICK scen : scen = After(w)["scen"]
      OBVIOUS
    <3>2. w.upd["scen"] = Empty /\ w.del["scen"] = {} /\ Dead(w) = {}
      BY <1>9, <2>2 DEF Tables, Dead
    <3>3. /\ DOMAIN scen = DOMAIN f \cup DOMAIN rows.scen
          /\ \A x \in DOMAIN scen : x \in DOMAIN f => scen[x] = f[x]
      BY <1>9, <3>1, <3>2, InsertLeaves
    <3>4. \A x \in DOMAIN rows["scen"] : x[1] # l
      BY <1>3 DEF RowsInv, Tables
    <3>5. \A x \in DOMAIN f : x[1] = l
      BY <1>5 DEF FilesFit
    <3>6. RowsOf(scen, l) = {f[s] : s \in DOMAIN f}
      BY <3>3, <3>4, <3>5 DEF RowsOf
    <3> QED
      BY <1>5, <3>1, <3>6
  <2>4. <<l>> \in DOMAIN w.ins["coll"]
    BY <1>9, <1>10
  <2> QED
    BY <1>1, <1>3, <2>1, <2>2, <2>3, <2>4, EmptyIs DEF PullFits
<1> QED
  BY <1>5, <1>8, <1>9, <1>11, <1>12, CreationSound

\* A request that writes no collection, document or scenario, and deletes at
\* most rows that go.
LEMMA AsideSound ==
  ASSUME RowsInv, TypedRows, NEW u, NEW w,
         \A t \in {"coll", "meta", "scen"} : w.ins[t] = Empty /\ w.upd[t] = Empty,
         \A t \in {"meta", "scen"} : w.del[t] = {},
         \A t \in {"share", "val"} :
           /\ \A x \in DOMAIN w.ins[t] : /\ x \notin DOMAIN rows[t] /\ Lives(x[1])
                                         /\ RowFits(t, x, w.ins[t][x])
           /\ \A x \in DOMAIN w.upd[t] : x \in DOMAIN rows[t] /\ RowFits(t, x, w.upd[t][x]),
         \A x \in DOMAIN w.ins["share"] : x[2] # Owner(x[1]),
         ~w.twice, w.pull = none
  PROVE  Sound(u, w)
<1>1. \A t \in {"coll", "meta", "scen"} : DOMAIN w.ins[t] = {} /\ DOMAIN w.upd[t] = {}
  BY EmptyIs
<1>2. \A t \in Tables : /\ \A x \in DOMAIN w.ins[t] : RowFits(t, x, w.ins[t][x])
                        /\ \A x \in DOMAIN w.upd[t] : RowFits(t, x, w.upd[t][x])
  BY <1>1 DEF Tables
<1>3. DOMAIN w.ins["coll"] = {} /\ DOMAIN w.ins["meta"] = {}
  BY <1>1
<1>4. Typed(w)
  BY <1>2, <1>3 DEF Typed
<1>5. NotSelf(w)
  BY DEF NotSelf
<1>6. \A t \in Tables : /\ DOMAIN w.upd[t] \subseteq DOMAIN rows[t]
                        /\ DOMAIN w.ins[t] \cap DOMAIN rows[t] = {}
                        /\ \A x \in DOMAIN w.ins[t] : Lives(x[1])
  <2> SUFFICES ASSUME NEW t \in Tables
               PROVE  /\ DOMAIN w.upd[t] \subseteq DOMAIN rows[t]
                      /\ DOMAIN w.ins[t] \cap DOMAIN rows[t] = {}
                      /\ \A x \in DOMAIN w.ins[t] : Lives(x[1])
    OBVIOUS
  <2>1. CASE t \in {"coll", "meta", "scen"}
    BY <1>1, <2>1
  <2>2. CASE t \in {"share", "val"}
    BY <2>2
  <2> QED
    BY <2>1, <2>2 DEF Tables
<1>7. KeysFit(w)
  BY <1>3, <1>6 DEF KeysFit
<1>8. ASSUME Alone PROVE Distinct(After(w)["scen"])
  <2>1. PICK scen : scen = After(w)["scen"]
    OBVIOUS
  <2>2. /\ w.ins["scen"] = Empty /\ w.upd["scen"] = Empty /\ w.del["scen"] = {}
        /\ DOMAIN w.ins["scen"] = {}
    BY <1>1
  <2>3. \A x \in DOMAIN scen : x \in DOMAIN rows.scen /\ scen[x] = rows.scen[x]
    BY <2>1, <2>2, InsertLeaves
  <2>4. Distinct(rows.scen)
    BY <1>8 DEF TypedRows
  <2>5. Distinct(scen)
    BY <2>3, <2>4 DEF Distinct
  <2> QED
    BY <2>1, <2>5
<1> QED
  BY <1>4, <1>5, <1>7, <1>8 DEF Sound, Clean

LEMMA DeleteSound ==
  ASSUME RowsInv, TypedRows, NEW u, NEW k \in Live, NEW n \in Reserved, NEW w \in DeleteItem(u, k, n)
  PROVE  Sound(u, w)
<1>1. w = [Writes EXCEPT !.del.coll = {<<k>>}]
  BY DEF DeleteItem
<1>2. /\ \A t \in Tables : w.ins[t] = Empty /\ w.upd[t] = Empty
      /\ \A t \in Tables \ {"coll"} : w.del[t] = {}
      /\ ~w.twice /\ w.pull = none
  BY <1>1 DEF Writes, NoRows, NoKeys, Tables
<1>3. \A t \in Tables : DOMAIN w.ins[t] = {} /\ DOMAIN w.upd[t] = {}
  BY <1>2, EmptyIs
<1>4. \A t \in {"coll", "meta", "scen"} : w.ins[t] = Empty /\ w.upd[t] = Empty
  BY <1>2 DEF Tables
<1>5. \A t \in {"meta", "scen"} : w.del[t] = {}
  BY <1>2 DEF Tables
<1>6. \A t \in {"share", "val"} : DOMAIN w.ins[t] = {} /\ DOMAIN w.upd[t] = {}
  BY <1>3 DEF Tables
<1>7. DOMAIN w.ins["share"] = {}
  BY <1>6
<1> QED
  BY <1>2, <1>4, <1>5, <1>6, <1>7, AsideSound

\* One row of table t, a share or a value, is inserted, updated or deleted.
LEMMA OneRowSound ==
  ASSUME RowsInv, TypedRows, NEW u, NEW t \in {"share", "val"}, NEW x, NEW row, NEW w,
         \A s \in Tables \ {t} : w.ins[s] = Empty /\ w.upd[s] = Empty /\ w.del[s] = {},
         \/ w.ins[t] = Row(x, row) /\ w.upd[t] = Empty /\ x \notin DOMAIN rows[t]
         \/ w.ins[t] = Empty /\ w.upd[t] = Row(x, row) /\ x \in DOMAIN rows[t]
         \/ w.ins[t] = Empty /\ w.upd[t] = Empty,
         Lives(x[1]), RowFits(t, x, row), t = "share" => x[2] # Owner(x[1]),
         ~w.twice, w.pull = none
  PROVE  Sound(u, w)
<1>1. PICK f : f = Row(x, row)
  OBVIOUS
<1>2. DOMAIN f = {x} /\ f[x] = row
  BY <1>1, RowIs
<1>3. \/ w.ins[t] = f /\ DOMAIN w.upd[t] = {} /\ x \notin DOMAIN rows[t]
      \/ DOMAIN w.ins[t] = {} /\ w.upd[t] = f /\ x \in DOMAIN rows[t]
      \/ DOMAIN w.ins[t] = {} /\ DOMAIN w.upd[t] = {}
  BY <1>1, EmptyIs
<1>4. \A y \in DOMAIN w.ins[t] : y \notin DOMAIN rows[t] /\ Lives(y[1]) /\ RowFits(t, y, w.ins[t][y])
                                  /\ (t = "share" => y[2] # Owner(y[1]))
  BY <1>2, <1>3
<1>5. \A y \in DOMAIN w.upd[t] : y \in DOMAIN rows[t] /\ RowFits(t, y, w.upd[t][y])
  BY <1>2, <1>3
<1>6. \A s \in {"share", "val"} \ {t} : DOMAIN w.ins[s] = {} /\ DOMAIN w.upd[s] = {}
  BY EmptyIs DEF Tables
<1>7. \A s \in {"share", "val"} :
        /\ \A y \in DOMAIN w.ins[s] : /\ y \notin DOMAIN rows[s] /\ Lives(y[1])
                                      /\ RowFits(s, y, w.ins[s][y])
        /\ \A y \in DOMAIN w.upd[s] : y \in DOMAIN rows[s] /\ RowFits(s, y, w.upd[s][y])
  <2> SUFFICES ASSUME NEW s \in {"share", "val"}
               PROVE  /\ \A y \in DOMAIN w.ins[s] : /\ y \notin DOMAIN rows[s] /\ Lives(y[1])
                                                    /\ RowFits(s, y, w.ins[s][y])
                      /\ \A y \in DOMAIN w.upd[s] : y \in DOMAIN rows[s] /\ RowFits(s, y, w.upd[s][y])
    OBVIOUS
  <2>1. CASE s = t
    BY <1>4, <1>5, <2>1
  <2>2. CASE s # t
    BY <1>6, <2>2
  <2> QED
    BY <2>1, <2>2
<1>8. \A y \in DOMAIN w.ins["share"] : y[2] # Owner(y[1])
  <2>1. CASE t = "share"
    BY <1>4, <2>1
  <2>2. CASE t # "share"
    BY <1>6, <2>2
  <2> QED
    BY <2>1, <2>2
<1>9. \A s \in {"coll", "meta", "scen"} : w.ins[s] = Empty /\ w.upd[s] = Empty
  BY DEF Tables
<1>10. \A s \in {"meta", "scen"} : w.del[s] = {}
  BY DEF Tables
<1> QED
  BY <1>7, <1>8, <1>9, <1>10, AsideSound

LEMMA ShareSound ==
  ASSUME RowsInv, TypedRows, NEW u, NEW k \in Live, NEW v \in Users,
         NEW g \in [edit : BOOLEAN, env : BOOLEAN], NEW w,
         w \in Share(u, k, v, g) \cup UpdateShare(u, k, v, g) \cup RevokeShare(u, k, v)
  PROVE  Sound(u, w)
<1>1. PICK x : x = <<k, v>>
  OBVIOUS
<1>2. Lives(k) /\ x[1] = k /\ x[2] = v /\ RowFits("share", x, g)
  BY <1>1, LiveKeys DEF RowFits
<1>3. x[2] # Owner(x[1])
  <2>1. CASE v # u /\ Owns(u, k)
    BY <1>1, <2>1 DEF Owns
  <2>2. CASE Shared(v, k)
    BY <1>1, <2>2 DEF Shared, TypedRows
  <2> QED
    BY <2>1, <2>2 DEF Share, UpdateShare, RevokeShare
<1>4. \/ w = [Writes EXCEPT !.upd["share"] = Row(x, g)] /\ x \in DOMAIN rows["share"]
      \/ w = [Writes EXCEPT !.ins["share"] = Row(x, g)] /\ x \notin DOMAIN rows["share"]
      \/ w = [Writes EXCEPT !.del["share"] = {x}]
  BY <1>1 DEF Share, UpdateShare, RevokeShare, Upsert, Shared
<1>5. /\ \A s \in Tables \ {"share"} : w.ins[s] = Empty /\ w.upd[s] = Empty /\ w.del[s] = {}
      /\ \/ w.ins["share"] = Row(x, g) /\ w.upd["share"] = Empty /\ x \notin DOMAIN rows["share"]
         \/ w.ins["share"] = Empty /\ w.upd["share"] = Row(x, g) /\ x \in DOMAIN rows["share"]
         \/ w.ins["share"] = Empty /\ w.upd["share"] = Empty
      /\ ~w.twice /\ w.pull = none
  BY <1>4 DEF Writes, NoRows, NoKeys, Tables
<1> QED
  BY <1>2, <1>3, <1>5, OneRowSound

LEMMA ValuesSound ==
  ASSUME RowsInv, TypedRows, NEW u \in Users, NEW k \in Live, NEW v \in Values, NEW w \in PutValues(u, k, v)
  PROVE  Sound(u, w)
<1>1. PICK x : x = <<k, ValuesOwner(u, k)>>
  OBVIOUS
<1>2. Lives(k) /\ Owner(k) \in Users
  BY LiveKeys DEF RowsInv, Lives, Owner, CollRow
<1>3. x[1] = k /\ RowFits("val", x, v)
  BY <1>1, <1>2 DEF RowFits, ValuesOwner
<1>4. \/ w = [Writes EXCEPT !.upd["val"] = Row(x, v)] /\ x \in DOMAIN rows["val"]
      \/ w = [Writes EXCEPT !.ins["val"] = Row(x, v)] /\ x \notin DOMAIN rows["val"]
  BY <1>1 DEF PutValues, Upsert
<1>5. /\ \A s \in Tables \ {"val"} : w.ins[s] = Empty /\ w.upd[s] = Empty /\ w.del[s] = {}
      /\ \/ w.ins["val"] = Row(x, v) /\ w.upd["val"] = Empty /\ x \notin DOMAIN rows["val"]
         \/ w.ins["val"] = Empty /\ w.upd["val"] = Row(x, v) /\ x \in DOMAIN rows["val"]
      /\ ~w.twice /\ w.pull = none
  BY <1>4 DEF Writes, NoRows, NoKeys, Tables
<1> QED
  BY <1>2, <1>3, <1>5, OneRowSound

--------------------------------------------------------------------------------
(***************************************************************************)
(* A request is served; what it will write is sound.                       *)
(***************************************************************************)
LEMMA CheckIsServed ==
  ASSUME IInv, NEW u \in load.users,
         \/ CheckCreate(u) \/ CheckClone(u) \/ CheckSave(u) \/ CheckNew(u)
         \/ CheckCopy(u) \/ CheckRename(u) \/ CheckDelete(u) \/ CheckReorder(u)
         \/ CheckShare(u) \/ CheckShareLib(u) \/ CheckRevoke(u) \/ CheckValues(u)
         \/ CheckFork(u) \/ CheckSync(u)
  PROVE  \E w : Prepared(u, w) /\ Sound(u, w) /\ Check(u, w)
<1>0. /\ RowsInv /\ TypedRows /\ load \in Load /\ load \in Loads /\ u \in Users
      /\ load.names \subseteq Names /\ load.docs \subseteq Docs /\ load.users \subseteq Users
      /\ load.values \subseteq Values /\ load.grants \subseteq [edit : BOOLEAN, env : BOOLEAN]
      /\ \A k \in Live : Lives(k)
  BY LiveKeys DEF IInv, AccessInv, SoundInv, TxInv, Load
\* Requests on files.
<1>1. ASSUME NEW k, Lives(k), NEW w, MayWrite(u, k), FileEdit(w, k), w.pull = none, Check(u, w)
      PROVE  Prepared(u, w) /\ Sound(u, w) /\ Check(u, w)
  BY <1>0, <1>1, EditIsPrepared, FileEditSound
<1>2. CASE CheckCreate(u)
  BY <1>0, <1>2, NewPrepared, NewSound DEF CheckCreate
<1>3. CASE CheckClone(u)
  <2>1. PICK n \in load.library : \E f \in {load.library, {n}} :
          \E w \in CloneLibrary(u, f) : Check(u, w)
    BY <1>3 DEF CheckClone
  <2>2. PICK f, w : f \subseteq load.library /\ w \in CloneLibrary(u, f) /\ Check(u, w)
    BY <2>1
  <2> QED
    BY <1>0, <2>2, ClonePrepared, CloneSound
<1>4. CASE CheckSave(u)
  <2>1. PICK k \in Live, n \in load.names, b \in BOOLEAN, d \in load.docs :
          \E w \in SaveFile(u, k, n, b, d) : Check(u, w)
    BY <1>4 DEF CheckSave
  <2>2. PICK w \in SaveFile(u, k, n, b, d) : Check(u, w)
    BY <2>1
  <2>3. MayWrite(u, k) /\ FileEdit(w, k) /\ w.pull = none
    BY <1>0, FilesAreEdited
  <2> QED
    BY <1>0, <1>1, <2>2, <2>3
<1>5. CASE CheckNew(u)
  <2>1. PICK k \in Live, n \in load.names : \E w \in CreateScenario(u, k, n) : Check(u, w)
    BY <1>5 DEF CheckNew
  <2> QED
    BY <1>0, <1>1, <2>1, FilesAreEdited
<1>6. CASE CheckCopy(u)
  <2>1. PICK k \in Live, l \in Live, n \in load.names : \E w \in CopyScenario(u, k, n, l) : Check(u, w)
    BY <1>6 DEF CheckCopy
  <2> QED
    BY <1>0, <1>1, <2>1, CopiesAreEdits
<1>7. CASE CheckRename(u)
  <2>1. PICK k \in Live, n \in load.names, m \in load.names :
          \E w \in RenameItem(u, k, n, m) : Check(u, w)
    BY <1>7 DEF CheckRename
  <2> QED
    BY <1>0, <1>1, <2>1, FilesAreEdited
<1>8. CASE CheckDelete(u)
  <2>1. PICK k \in Live, n \in load.names : \E w \in DeleteItem(u, k, n) : Check(u, w)
    BY <1>8 DEF CheckDelete
  <2>2. PICK w \in DeleteItem(u, k, n) : Check(u, w)
    BY <2>1
  <2>3. CASE n \in Reserved
    BY <1>0, <2>2, <2>3, DeletePrepared, DeleteSound
  <2>4. CASE n \notin Reserved
    BY <1>0, <1>1, <2>2, <2>4, FilesAreEdited
  <2> QED
    BY <2>3, <2>4
<1>9. CASE CheckReorder(u)
  <2>1. PICK k \in Live : \E w \in Reorder(u, k) : Check(u, w)
    BY <1>9 DEF CheckReorder
  <2> QED
    BY <1>0, <1>1, <2>1, FilesAreEdited, ReservedAssumption
<1>10. CASE CheckShare(u)
  <2>1. PICK k \in Live, v \in load.users, g \in load.grants :
          \E w \in Share(u, k, v, g) \cup UpdateShare(u, k, v, g) : Check(u, w)
    BY <1>10 DEF CheckShare
  <2> QED
    BY <1>0, <2>1, SharePrepared, ShareSound
<1>11. CASE CheckShareLib(u)
  <2>1. PICK v \in load.users, g \in load.grants : \E w \in ShareLibrary(u, v, g) : Check(u, w)
    BY <1>11 DEF CheckShareLib
  <2> QED
    BY <1>0, <2>1, ShareLibraryPrepared, ShareLibrarySound
<1>12. CASE CheckRevoke(u)
  <2>1. PICK k \in Live, v \in load.users : \E w \in RevokeShare(u, k, v) : Check(u, w)
    BY <1>12 DEF CheckRevoke
  <2>2. [edit |-> TRUE, env |-> TRUE] \in [edit : BOOLEAN, env : BOOLEAN]
    OBVIOUS
  <2> QED
    BY <1>0, <2>1, <2>2, SharePrepared, ShareSound
<1>13. CASE CheckValues(u)
  <2>1. PICK k \in Live, x \in load.values : \E w \in PutValues(u, k, x) : Check(u, w)
    BY <1>13 DEF CheckValues
  <2> QED
    BY <1>0, <2>1, ValuesPrepared, ValuesSound
<1>14. CASE CheckFork(u)
  <2>1. PICK k \in Live : \E w \in Fork(u, k) : Check(u, w)
    BY <1>14 DEF CheckFork
  <2> QED
    BY <1>0, <2>1, ForkPrepared, ForkSound
<1>15. CASE CheckSync(u)
  <2>1. PICK l \in Live : \E w \in Sync(u, l) : Check(u, w)
    BY <1>15 DEF CheckSync
  <2> QED
    BY <1>0, <2>1, SyncPrepared, SyncSound
<1> QED
  BY <1>2, <1>3, <1>4, <1>5, <1>6, <1>7, <1>8, <1>9, <1>10, <1>11, <1>12, <1>13, <1>14, <1>15

\* Rows that do not change stay sound, and so does what a request will write.
LEMMA SameRowsSame ==
  ASSUME rows' = rows, load' = load
  PROVE  /\ TypedRows => TypedRows'
         /\ \A v, z : Sound(v, z) => (Sound(v, z))'
<1>1. /\ \A k : (Lives(k)' <=> Lives(k)) /\ Owner(k)' = Owner(k)
      /\ Alone' <=> Alone
      /\ \A t, x, row : RowFits(t, x, row)' <=> RowFits(t, x, row)
  BY DEF Lives, Owner, Alone, RowFits
<1>2. TypedRows => TypedRows'
  BY <1>1 DEF TypedRows
<1>3. \A z : After(z)' = After(z)
  BY DEF After
<1>4. ASSUME NEW v, NEW z, Sound(v, z) PROVE (Sound(v, z))'
  <2>1. Typed(z) => (Typed(z))'
    BY <1>1 DEF Typed
  <2>2. NotSelf(z) => (NotSelf(z))'
    BY <1>1 DEF NotSelf
  <2>3. KeysFit(z) => (KeysFit(z))'
    BY <1>1 DEF KeysFit
  <2>4. ForksTwoValues(v, z) => (ForksTwoValues(v, z))'
    BY <1>1 DEF ForksTwoValues
  <2>5. PullFits(z) => (PullFits(z))'
    BY <1>1, <1>3 DEF PullFits
  <2>6. Clean(v, z) => (Clean(v, z))'
    BY <1>3, <2>3, <2>4, <2>5 DEF Clean
  <2> QED
    BY <1>1, <1>4, <2>1, <2>2, <2>6 DEF Sound
<1> QED
  BY <1>2, <1>4

LEMMA CheckKeepsSound ==
  ASSUME AccessInv, SoundInv, NEW u \in Users, MayRequest(u), NEW w, Sound(u, w), Check(u, w)
  PROVE  SoundInv'
<1>1. /\ tx' = [tx EXCEPT ![u] = w] /\ rows' = rows /\ load' = load
      /\ tx = [v \in Users |-> tx[v]]
  BY DEF Check, AccessInv, TxInv
<1>2. TypedRows' /\ load' \in Loads /\ (Sound(u, w))'
  BY <1>1, SameRowsSame DEF SoundInv
<1>3. ASSUME NEW v \in Users, NEW z, z = tx'[v], z # none PROVE (Sound(v, z))'
  <2>1. CASE v = u
    BY <1>1, <1>2, <1>3, <2>1
  <2>2. CASE v # u
    <3>1. z = tx[v]
      BY <1>1, <1>3, <2>2
    <3>2. Sound(v, z)
      BY <1>3, <3>1 DEF SoundInv, Sound
    <3> QED
      BY <1>1, <3>2, SameRowsSame
  <2> QED
    BY <2>1, <2>2
<1>4. \A v \in Users : tx'[v] # none => (Sound(v, tx[v]))'
  <2> SUFFICES ASSUME NEW v \in Users, tx'[v] # none PROVE (Sound(v, tx[v]))'
    OBVIOUS
  <2>1. ASSUME NEW z, z = tx'[v] PROVE (Sound(v, z))'
    BY <1>3, <2>1
  <2> QED
    BY <2>1
<1> QED
  BY <1>2, <1>4 DEF SoundInv, Sound

LEMMA RollBackKeepsSound ==
  ASSUME AccessInv, SoundInv, NEW u \in Users, RollBack(u)
  PROVE  SoundInv'
<1>1. /\ tx' = [tx EXCEPT ![u] = none] /\ rows' = rows /\ load' = load
      /\ tx = [v \in Users |-> tx[v]]
  BY DEF RollBack, AccessInv, TxInv
<1>2. TypedRows' /\ load' \in Loads
  BY <1>1, SameRowsSame DEF SoundInv
<1>3. ASSUME NEW v \in Users, NEW z, z = tx'[v], z # none PROVE (Sound(v, z))'
  <2>1. z = tx[v]
    BY <1>1, <1>3
  <2>2. Sound(v, z)
    BY <1>3, <2>1 DEF SoundInv, Sound
  <2> QED
    BY <1>1, <2>2, SameRowsSame
<1>4. \A v \in Users : tx'[v] # none => (Sound(v, tx[v]))'
  <2> SUFFICES ASSUME NEW v \in Users, tx'[v] # none PROVE (Sound(v, tx[v]))'
    OBVIOUS
  <2>1. ASSUME NEW z, z = tx'[v] PROVE (Sound(v, z))'
    BY <1>3, <2>1
  <2> QED
    BY <2>1
<1> QED
  BY <1>2, <1>4 DEF SoundInv, Sound

\* The rows that a commit leaves.
LEMMA CommitTypesRows ==
  ASSUME RowsInv, TypedRows, NEW u, NEW w, Form(w), Typed(w), NotSelf(w), Alone => Clean(u, w),
         KeysFit(w), NamesFit(w), rows' = After(w), load' = load
  PROVE  TypedRows'
<1> DEFINE O(t) == Over(w.ins[t], Over(w.upd[t], rows[t]))
<1>1. /\ \A k : Lives(k)' <=> (Lives(k) \/ <<k>> \in DOMAIN w.ins.coll) /\ k \notin Dead(w)
      /\ \A k : Lives(k) /\ Lives(k)' => Owner(k)' = Owner(k)
      /\ \A x \in DOMAIN rows.coll' : x = <<x[1]>> /\ x[1] \in Collections
                                     /\ rows.coll'[x] \in CollRow
  BY LivesAfter
<1>2. \A t \in Tables :
        DOMAIN rows[t]' = {x \in Wrote(w, t) : x[1] \notin Dead(w) /\ x \notin w.del[t]}
  BY AfterIs
<1>3. \A t \in Tables \ {"coll"} : \A x \in DOMAIN rows[t]' : rows[t]'[x] = O(t)[x]
  BY AfterIs
<1>4. \A x \in DOMAIN rows["coll"]' :
        rows["coll"]'[x] = IF O("coll")[x].source \in Dead(w)
                           THEN [O("coll")[x] EXCEPT !.source = none] ELSE O("coll")[x]
  BY AfterIs DEF Tables
<1>5. ASSUME NEW t \in Tables, NEW x \in Wrote(w, t) PROVE RowFits(t, x, O(t)[x])
  <2>1. CASE x \in DOMAIN w.ins[t]
    <3>1. O(t)[x] = w.ins[t][x]
      BY <2>1, OverTwo
    <3> QED
      BY <2>1, <3>1 DEF Typed
  <2>2. CASE x \notin DOMAIN w.ins[t] /\ x \in DOMAIN w.upd[t]
    <3>1. O(t)[x] = w.upd[t][x]
      BY <2>2, OverTwo
    <3> QED
      BY <2>2, <3>1 DEF Typed
  <2>3. CASE x \notin DOMAIN w.ins[t] /\ x \notin DOMAIN w.upd[t]
    <3>1. x \in DOMAIN rows[t]
      BY <2>3 DEF Wrote
    <3>2. O(t)[x] = rows[t][x]
      BY <2>3, <3>1, OverTwo
    <3> QED
      BY <3>1, <3>2 DEF TypedRows
  <2> QED
    BY <2>1, <2>2, <2>3
<1> HIDE DEF O
<1>6. ASSUME NEW x \in DOMAIN rows["coll"]'
      PROVE  /\ rows["coll"]'[x] \in CollRow /\ rows["coll"]'[x].source # x[1]
             /\ rows["coll"]'[x].owner = O("coll")[x].owner
             /\ rows["coll"]'[x].source = none \/ /\ rows["coll"]'[x].source = O("coll")[x].source
                                                  /\ O("coll")[x].source \notin Dead(w)
  <2>1. x \in Wrote(w, "coll")
    BY <1>2 DEF Tables
  <2>2. O("coll")[x] \in CollRow /\ O("coll")[x].source # x[1]
    BY <1>5, <2>1 DEF RowFits, Tables
  <2>3. x[1] # none
    BY <1>1, NoneAssumption
  <2> QED
    BY <1>1, <1>4, <2>2, <2>3 DEF CollRow
<1>7. \A t \in Tables : \A x \in DOMAIN rows[t]' : RowFits(t, x, rows[t]'[x])
  <2> SUFFICES ASSUME NEW t \in Tables, NEW x \in DOMAIN rows[t]' PROVE RowFits(t, x, rows[t]'[x])
    OBVIOUS
  <2>1. CASE t = "coll"
    BY <1>6, <2>1 DEF RowFits
  <2>2. CASE t # "coll"
    BY <1>2, <1>3, <1>5, <2>2
  <2> QED
    BY <2>1, <2>2
<1>8. ASSUME NEW x \in DOMAIN rows["coll"]', NEW k, k = rows["coll"]'[x].source, k # none
      PROVE  Lives(k)'
  <2>1. k = O("coll")[x].source /\ k \notin Dead(w)
    BY <1>6, <1>8
  <2>2. x \in Wrote(w, "coll") /\ DOMAIN w.upd["coll"] = {}
    BY <1>2 DEF Tables, Form
  <2>3. CASE x \in DOMAIN w.ins["coll"]
    <3>1. k = w.ins["coll"][x].source
      <4>1. O("coll")[x] = w.ins["coll"][x]
        BY <2>3, OverTwo DEF O
      <4> QED
        BY <2>1, <4>1
    <3>2. Lives(k)
      BY <1>8, <2>3, <3>1 DEF KeysFit
    <3> QED
      BY <1>1, <2>1, <3>2
  <2>4. CASE x \notin DOMAIN w.ins["coll"]
    <3>1. x \in DOMAIN rows["coll"]
      BY <2>2, <2>4 DEF Wrote
    <3>2. k = rows["coll"][x].source
      <4>1. O("coll")[x] = rows["coll"][x]
        BY <2>2, <2>4, <3>1, OverTwo DEF O
      <4> QED
        BY <2>1, <4>1
    <3>3. Lives(k)
      BY <1>8, <3>1, <3>2 DEF TypedRows
    <3> QED
      BY <1>1, <2>1, <3>3
  <2> QED
    BY <2>3, <2>4
<1>9. \A x \in DOMAIN rows["share"]' : x[2] # Owner(x[1])'
  <2> SUFFICES ASSUME NEW x \in DOMAIN rows["share"]' PROVE x[2] # Owner(x[1])'
    OBVIOUS
  <2>1. x \in Wrote(w, "share") /\ x[1] \notin Dead(w) /\ "share" \in Tables
    BY <1>2 DEF Tables
  <2>2. CASE x \in DOMAIN rows["share"]
    <3>1. Lives(x[1]) /\ x[2] # Owner(x[1])
      BY <2>1, <2>2 DEF RowsInv, TypedRows
    <3> QED
      BY <1>1, <2>1, <3>1
  <2>3. CASE x \notin DOMAIN rows["share"]
    <3>1. x \in DOMAIN w.ins["share"]
      BY <2>1, <2>3 DEF Wrote, KeysFit
    <3>2. CASE Lives(x[1])
      BY <1>1, <2>1, <3>1, <3>2 DEF NotSelf
    <3>3. CASE ~Lives(x[1])
      <4>1. PICK y : y = <<x[1]>>
        OBVIOUS
      <4>2. y \in DOMAIN w.ins["coll"] /\ y[1] = x[1]
        BY <2>1, <3>1, <3>3, <4>1 DEF KeysFit
      <4>3. x[2] # w.ins["coll"][y].owner
        BY <3>1, <4>2 DEF Typed
      <4>4. y \in DOMAIN rows["coll"]'
        BY <1>1, <2>1, <4>1, <4>2 DEF Lives
      <4>5. rows["coll"]'[y].owner = w.ins["coll"][y].owner
        <5>1. rows["coll"]'[y].owner = O("coll")[y].owner
          BY <1>6, <4>4
        <5>2. O("coll")[y] = w.ins["coll"][y]
          BY <4>2, OverTwo DEF O
        <5> QED
          BY <5>1, <5>2
      <4> QED
        BY <4>1, <4>3, <4>5 DEF Owner
    <3> QED
      BY <3>2, <3>3
  <2> QED
    BY <2>2, <2>3
<1>10. DOMAIN rows["meta"]' \subseteq DOMAIN rows["coll"]'
  <2> SUFFICES ASSUME NEW x \in DOMAIN rows["meta"]' PROVE x \in DOMAIN rows["coll"]'
    OBVIOUS
  <2>1. x \in Wrote(w, "meta") /\ x[1] \notin Dead(w) /\ "meta" \in Tables /\ "coll" \in Tables
    BY <1>2 DEF Tables
  <2>2. x \in DOMAIN w.ins["meta"] \/ x \in DOMAIN rows["meta"]
    BY <2>1 DEF Wrote, KeysFit
  <2>3. x \in Wrote(w, "coll")
    BY <2>2 DEF Wrote, Typed, TypedRows
  <2>4. x \notin w.del["coll"]
    BY <2>1 DEF Dead
  <2> QED
    BY <1>2, <2>1, <2>3, <2>4
<1>11. Unique(rows.scen)'
  BY DEF NamesFit, Unique
<1>12. Alone' => Distinct(rows.scen)'
  BY DEF Alone, Clean, Distinct
<1>13. \A t, x, row : RowFits(t, x, row)' <=> RowFits(t, x, row)
  BY DEF RowFits
<1>14. (\A t \in Tables : \A x \in DOMAIN rows[t] : RowFits(t, x, rows[t][x]))'
  BY <1>7, <1>13
<1>15. (\A x \in DOMAIN rows.coll : rows.coll[x].source = none \/ Lives(rows.coll[x].source))'
  BY <1>8 DEF Lives
<1>16. (\A x \in DOMAIN rows.share : x[2] # Owner(x[1]))' /\ (DOMAIN rows.meta \subseteq DOMAIN rows.coll)'
  BY <1>9, <1>10
<1> QED
  BY <1>11, <1>12, <1>14, <1>15, <1>16 DEF TypedRows

LEMMA CommitKeepsSound ==
  ASSUME AccessInv, SoundInv, NEW u \in Users, Commit(u)
  PROVE  SoundInv'
<1>1. PICK w : w = tx[u]
  OBVIOUS
<1>2. /\ w # none /\ KeysFit(w) /\ NamesFit(w) /\ rows' = After(w) /\ load' = load
      /\ tx' = [tx EXCEPT ![u] = none]
      /\ tx = [v \in Users |-> tx[v]]
      /\ RowsInv /\ Form(w) /\ TypedRows /\ load \in Loads
      /\ Typed(w) /\ NotSelf(w) /\ (Alone => Clean(u, w))
  BY <1>1 DEF Commit, MayCommit, AccessInv, SoundInv, TxInv
<1>3. TypedRows' /\ load' \in Loads
  BY <1>2, CommitTypesRows
<1>4. /\ \A k : Lives(k)' <=> (Lives(k) \/ <<k>> \in DOMAIN w.ins.coll) /\ k \notin Dead(w)
      /\ \A k : Lives(k) /\ Lives(k)' => Owner(k)' = Owner(k)
  BY <1>2, LivesAfter
<1>5. \A x \in DOMAIN w.ins.coll :
        \A v \in Users \ {u} : tx[v] # none => ~Touches(tx[v], x[1])
  BY <1>1, <1>2 DEF AccessInv, FreshInv
<1>6. ASSUME NEW v \in Users, NEW z, z = tx'[v], z # none PROVE (Typed(z) /\ NotSelf(z))' /\ ~Alone'
  <2>1. v # u /\ z = tx[v]
    BY <1>2, <1>6
  <2>2. Typed(z) /\ NotSelf(z)
    BY <1>6, <2>1 DEF SoundInv
  <2>3. ~Alone /\ (Alone' <=> Alone)
    BY <1>1, <1>2, <1>6, <2>1 DEF AccessInv, TxInv, Alone
  <2>4. (Typed(z))'
    <3>1. \A t, x, row : RowFits(t, x, row)' <=> RowFits(t, x, row)
      BY <1>2 DEF RowFits
    <3> QED
      BY <2>2, <3>1 DEF Typed
  <2>5. ASSUME NEW x \in DOMAIN z.ins["share"], Lives(x[1])' PROVE x[2] # Owner(x[1])'
    <3>1. <<x[1]>> \notin DOMAIN w.ins.coll
      <4> SUFFICES ASSUME NEW y \in DOMAIN w.ins.coll, y = <<x[1]>> PROVE FALSE
        OBVIOUS
      <4>1. ~Touches(z, y[1])
        BY <1>5, <1>6, <2>1
      <4>2. x \in Keys(z, "share") /\ "share" \in Tables /\ y[1] = x[1]
        BY DEF Keys, Tables
      <4> QED
        BY <4>1, <4>2 DEF Touches
    <3>2. Lives(x[1])
      BY <1>4, <2>5, <3>1
    <3>3. x[2] # Owner(x[1])
      BY <2>2, <3>2 DEF NotSelf
    <3> QED
      BY <1>4, <2>5, <3>2, <3>3
  <2>6. (NotSelf(z))'
    BY <2>5 DEF NotSelf
  <2> QED
    BY <2>3, <2>4, <2>6
<1>7. \A v \in Users : tx'[v] # none =>
        (Typed(tx[v]) /\ NotSelf(tx[v]) /\ (Alone => Clean(v, tx[v])))'
  <2> SUFFICES ASSUME NEW v \in Users, tx'[v] # none
               PROVE  (Typed(tx[v]) /\ NotSelf(tx[v]))' /\ ~Alone'
    OBVIOUS
  <2>1. ASSUME NEW z, z = tx'[v] PROVE (Typed(z) /\ NotSelf(z))' /\ ~Alone'
    BY <1>6, <2>1
  <2> QED
    BY <2>1
<1> QED
  BY <1>3, <1>7 DEF SoundInv

--------------------------------------------------------------------------------
(***************************************************************************)
(* The invariant, and what a step may change.                              *)
(***************************************************************************)
LEMMA InitHolds == ASSUME Init PROVE IInv
<1>1. load \in Load /\ tx = [v \in Users |-> tx[v]] /\ \A v \in Users : tx[v] = none
  BY DEF Init
<1>2. \A t \in Tables : DOMAIN rows[t] = {}
  BY EmptyIs DEF Init, NoRows
<1>3. DOMAIN rows["coll"] = {}
  BY <1>2 DEF Tables
<1>4. AccessInv
  BY <1>1, <1>2, <1>3 DEF AccessInv, RowsInv, FreshInv, TxInv
<1>5. TypedRows
  <2>1. DOMAIN rows["share"] = {} /\ DOMAIN rows["meta"] = {} /\ DOMAIN rows["scen"] = {}
    BY <1>2 DEF Tables
  <2> QED
    BY <1>2, <1>3, <2>1 DEF TypedRows, Unique, Distinct
<1>6. SoundInv
  BY <1>1, <1>5 DEF SoundInv, Init
<1> QED
  BY <1>4, <1>6 DEF IInv

\* Every step is a request served, a commit or a roll-back of one user.
LEMMA StepIs ==
  ASSUME IInv, Next
  PROVE  \E u \in load.users :
           /\ u \in Users
           /\ \/ MayRequest(u) /\ \E w : Prepared(u, w) /\ Sound(u, w) /\ Check(u, w)
              \/ Commit(u) \/ RollBack(u)
<1>1. PICK u \in load.users :
        \/ MayRequest(u) /\ (\/ CheckCreate(u) \/ CheckClone(u) \/ CheckSave(u) \/ CheckNew(u)
                             \/ CheckCopy(u) \/ CheckRename(u) \/ CheckDelete(u) \/ CheckReorder(u)
                             \/ CheckShare(u) \/ CheckShareLib(u) \/ CheckRevoke(u) \/ CheckValues(u)
                             \/ CheckFork(u) \/ CheckSync(u))
        \/ Commit(u) \/ RollBack(u)
  BY DEF Next
<1>2. u \in Users
  BY DEF IInv, AccessInv, TxInv, Load
<1> QED
  BY <1>1, <1>2, CheckIsServed

LEMMA NextKeeps == IInv /\ [Next]_vars => IInv'
<1> SUFFICES ASSUME IInv, [Next]_vars PROVE IInv'
  OBVIOUS
<1>1. CASE Next
  <2>1. PICK u \in load.users :
          /\ u \in Users
          /\ \/ MayRequest(u) /\ \E w : Prepared(u, w) /\ Sound(u, w) /\ Check(u, w)
             \/ Commit(u) \/ RollBack(u)
    BY <1>1, StepIs
  <2>2. CASE MayRequest(u) /\ \E w : Prepared(u, w) /\ Sound(u, w) /\ Check(u, w)
    BY <2>1, <2>2, CheckKeeps, CheckKeepsSound DEF IInv
  <2>3. CASE Commit(u)
    BY <2>1, <2>3, CommitKeeps, CommitKeepsSound DEF IInv
  <2>4. CASE RollBack(u)
    BY <2>1, <2>4, RollBackKeeps, RollBackKeepsSound DEF IInv
  <2> QED
    BY <2>1, <2>2, <2>3, <2>4
<1>2. CASE UNCHANGED vars
  <2>1. tx' = tx /\ rows' = rows /\ load' = load
    BY <1>2 DEF vars
  <2>2. AccessInv'
    BY <2>1 DEF IInv, AccessInv, RowsInv, FreshInv, TxInv, OwnValues, Allowed, Alone, Lives,
                Owner, Owns, MayWrite, Shared, ValuesOwner
  <2>3. TypedRows' /\ load' \in Loads
    BY <2>1, SameRowsSame DEF IInv, SoundInv
  <2>4. \A v \in Users : tx'[v] # none => (Sound(v, tx[v]))'
    <3> SUFFICES ASSUME NEW v \in Users, tx'[v] # none PROVE (Sound(v, tx[v]))'
      OBVIOUS
    <3>1. ASSUME NEW z, z = tx'[v] PROVE (Sound(v, z))'
      <4>1. Sound(v, z)
        BY <2>1, <3>1 DEF IInv, SoundInv, Sound
      <4> QED
        BY <2>1, <4>1, SameRowsSame
    <3> QED
      BY <3>1
  <2> QED
    BY <2>2, <2>3, <2>4 DEF IInv, SoundInv, Sound
<1> QED
  BY <1>1, <1>2

LEMMA SpecInv == Spec => []IInv
  BY InitHolds, NextKeeps, PTL DEF Spec

\* Every row of every table belongs to a collection that exists, and every
\* collection has its document, whatever requests overlap: the deletion of a
\* collection beside another user's request leaves nothing behind
\* (explorer.py delete_scenario, the foreign keys of models.py).
RowsAreOwned ==
  /\ \A t \in Tables : \A x \in DOMAIN rows[t] : Lives(x[1])
  /\ \A k : Lives(k) => <<k>> \in DOMAIN rows.meta

THEOREM NothingIsOrphaned == Spec => []RowsAreOwned
<1>1. IInv => RowsAreOwned
  BY DEF IInv, AccessInv, RowsInv, RowsAreOwned, Lives
<1> QED
  BY <1>1, SpecInv, PTL

\* Only a commit changes rows, and it ends its user's request.
LEMMA ChangesAreCommits ==
  ASSUME IInv, [Next]_vars, rows' # rows
  PROVE  \E u \in load.users : /\ u \in Users /\ Commit(u) /\ Ended(u)
                                /\ \A v : Ended(v) /\ v \in Users => v = u
<1>1. Next
  BY DEF vars
<1>2. PICK u \in load.users :
        /\ u \in Users
        /\ \/ MayRequest(u) /\ \E w : Prepared(u, w) /\ Sound(u, w) /\ Check(u, w)
           \/ Commit(u) \/ RollBack(u)
  BY <1>1, StepIs
<1>3. Commit(u)
  BY <1>2 DEF Check, RollBack
<1>4. /\ tx' = [tx EXCEPT ![u] = none] /\ tx = [v \in Users |-> tx[v]] /\ tx[u] # none
  BY <1>3 DEF Commit, IInv, AccessInv, TxInv
<1>5. Ended(u)
  BY <1>2, <1>4 DEF Ended
<1>6. \A v : Ended(v) /\ v \in Users => v = u
  BY <1>2, <1>4 DEF Ended
<1> QED
  BY <1>2, <1>3, <1>5, <1>6

\* A table in which a request writes nothing of collection k keeps its rows.
LEMMA RowsStay ==
  ASSUME NEW w, NEW t \in Tables \ {"coll"}, NEW k, k \notin Dead(w),
         \A x \in Keys(w, t) : x[1] # k, rows' = After(w)
  PROVE  /\ {x \in DOMAIN rows[t]' : x[1] = k} = {x \in DOMAIN rows[t] : x[1] = k}
         /\ \A x \in DOMAIN rows[t] : x[1] = k => rows[t]'[x] = rows[t][x]
<1>1. /\ DOMAIN rows[t]' = {x \in Wrote(w, t) : x[1] \notin Dead(w) /\ x \notin w.del[t]}
      /\ \A x \in DOMAIN rows[t]' : rows[t]'[x] = Over(w.ins[t], Over(w.upd[t], rows[t]))[x]
  BY AfterIs
<1>2. \A x : x[1] = k =>
        x \notin DOMAIN w.ins[t] /\ x \notin DOMAIN w.upd[t] /\ x \notin w.del[t]
  BY DEF Keys
<1>3. \A x : x[1] = k => (x \in DOMAIN rows[t]' <=> x \in DOMAIN rows[t])
  BY <1>1, <1>2 DEF Wrote
<1>4. ASSUME NEW x \in DOMAIN rows[t], x[1] = k PROVE rows[t]'[x] = rows[t][x]
  <2>1. x \in DOMAIN rows[t] \ (DOMAIN w.ins[t] \cup DOMAIN w.upd[t])
    BY <1>2, <1>4
  <2>2. Over(w.ins[t], Over(w.upd[t], rows[t]))[x] = rows[t][x]
    BY <2>1, OverTwo
  <2> QED
    BY <1>1, <1>3, <1>4, <2>2
<1> QED
  BY <1>3, <1>4

\* Contents and access of a collection change, and it goes, only by requests of
\* those allowed to: the checks of accessible_collection and
\* accessible_collection_for_write as they are used in explorer.py and
\* workspace.py, when requests come one at a time.
THEOREM AccessIsRespected == Spec => OnlyThoseAllowedChange
<1>1. IInv /\ [Next]_vars => (Alone => ChangedByAllowed) \/ UNCHANGED vars
  <2> SUFFICES ASSUME IInv, [Next]_vars, Alone, NEW u \in load.users, NEW k \in Live, Ended(u)
               PROVE  /\ (k \in Live' /\ Contents(k)' # Contents(k)) => MayWrite(u, k)
                      /\ (k \notin Live' \/ Access(k)' # Access(k)) => Owns(u, k)
    BY DEF ChangedByAllowed
  <2>0. Lives(k) /\ (k \in Live' <=> Lives(k)')
    BY NextKeeps, LiveKeys DEF IInv, AccessInv, Live, Lives, RowsInv
  <2>1. CASE rows' = rows
    BY <2>0, <2>1 DEF Contents, Access, Members, Lives, Restrict
  <2>2. CASE rows' # rows
    <3> DEFINE w == tx[u]
    <3>1. Commit(u) /\ u \in Users
      <4>1. u \in Users
        BY DEF IInv, AccessInv, TxInv, Load
      <4> QED
        BY <4>1, <2>2, ChangesAreCommits
    <3>2. w # none /\ KeysFit(w) /\ rows' = After(w) /\ Form(w) /\ Allowed(u, w)
      BY <3>1 DEF Commit, MayCommit, IInv, AccessInv, TxInv
    <3> HIDE DEF w
    <3>3. ASSUME ~Owns(u, k) PROVE k \notin Dead(w)
      BY <2>0, <3>2, <3>3 DEF Dead, Allowed
    <3>4. ASSUME ~Owns(u, k) PROVE Lives(k)'
      BY <2>0, <3>2, <3>3, <3>4, LivesAfter DEF IInv, AccessInv
    <3>5. ASSUME ~MayWrite(u, k), k \in Live' PROVE Contents(k)' = Contents(k)
      <4>1. k \notin Dead(w)
        BY <3>3, <3>5 DEF MayWrite
      <4>2. \A t \in {"scen", "meta"} : \A x \in Keys(w, t) : x[1] # k
        BY <2>0, <3>2, <3>5 DEF Allowed
      <4>3. /\ {x \in DOMAIN rows["scen"]' : x[1] = k} = {x \in DOMAIN rows["scen"] : x[1] = k}
            /\ \A x \in DOMAIN rows["scen"] : x[1] = k => rows["scen"]'[x] = rows["scen"][x]
        BY <3>2, <4>1, <4>2, RowsStay DEF Tables
      <4>4. \A x \in DOMAIN rows["meta"] : x[1] = k => rows["meta"]'[x] = rows["meta"][x]
        BY <3>2, <4>1, <4>2, RowsStay DEF Tables
      <4>5. <<k>> \in DOMAIN rows["meta"] /\ <<k>>[1] = k
        BY <2>0 DEF IInv, AccessInv, RowsInv, Lives
      <4> QED
        BY <4>3, <4>4, <4>5 DEF Contents, Members
    <3>6. ASSUME ~Owns(u, k) PROVE Access(k)' = Access(k)
      <4>1. \A x \in Keys(w, "share") : x[1] # k
        BY <2>0, <3>2, <3>6 DEF Allowed
      <4>2. /\ {x \in DOMAIN rows["share"]' : x[1] = k} = {x \in DOMAIN rows["share"] : x[1] = k}
            /\ \A x \in DOMAIN rows["share"] : x[1] = k => rows["share"]'[x] = rows["share"][x]
        BY <3>2, <3>3, <3>6, <4>1, RowsStay DEF Tables
      <4> QED
        BY <4>2 DEF Access, Restrict
    <3> QED
      BY <2>0, <3>4, <3>5, <3>6
  <2> QED
    BY <2>1, <2>2
<1> QED
  BY <1>1, SpecInv, PTL DEF Spec, OnlyThoseAllowedChange

\* The values a user has stored for a collection are changed by that user, or,
\* the owner's, by somebody who may edit and reads them; sharing does not touch
\* them (save_collection_env, share_collection, revoke_collection_share).
THEOREM ValuesAreKept == Spec => ValuesStay
<1>1. IInv /\ [Next]_vars => ValuesKept
  <2> SUFFICES ASSUME IInv, [Next]_vars, NEW x \in DOMAIN rows.val, NEW k, k = x[1], k \in Live',
                      x \notin DOMAIN rows.val' \/ rows.val'[x] # rows.val[x]
               PROVE  \E u \in load.users :
                        /\ Ended(u) /\ x \in DOMAIN rows.val'
                        /\ u = x[2] \/ x[2] = Owner(k)
                        /\ Alone => MayWrite(u, k) /\ Seen(u, k)' = rows.val'[x]
    BY DEF ValuesKept
  <2>1. rows' # rows
    OBVIOUS
  <2>2. PICK u \in load.users : u \in Users /\ Commit(u) /\ Ended(u)
    BY <2>1, ChangesAreCommits
  <2> DEFINE w == tx[u]
  <2>3. /\ w # none /\ KeysFit(w) /\ rows' = After(w) /\ Form(w) /\ OwnValues(u, w)
        /\ Alone => Allowed(u, w)
    BY <2>2 DEF Commit, MayCommit, IInv, AccessInv, TxInv
  <2> HIDE DEF w
  <2>4. "val" \in Tables \ {"coll"}
    BY DEF Tables
  <2>5. Lives(k) /\ Lives(k)'
    <3>1. Lives(k)
      BY <2>4 DEF IInv, AccessInv, RowsInv
    <3>2. RowsInv'
      BY NextKeeps DEF IInv, AccessInv
    <3> QED
      BY <3>1, <3>2 DEF Live, Lives, RowsInv
  <2>6. k \notin Dead(w)
    BY <2>3, <2>5, LivesAfter DEF IInv, AccessInv
  <2>7. /\ DOMAIN rows["val"]' = {y \in Wrote(w, "val") : y[1] \notin Dead(w) /\ y \notin w.del["val"]}
        /\ \A y \in DOMAIN rows["val"]' : rows["val"]'[y] = Over(w.ins["val"], Over(w.upd["val"], rows["val"]))[y]
    BY <2>3, <2>4, AfterIs
  <2>8. x \in DOMAIN rows["val"]'
    <3>1. w.del["val"] = {}
      BY <2>3 DEF Form
    <3>2. x \in Wrote(w, "val")
      BY DEF Wrote
    <3> QED
      BY <2>6, <2>7, <3>1, <3>2
  <2>9. x \in DOMAIN w.upd["val"]
    <3>1. x \notin DOMAIN w.ins["val"]
      BY <2>3, <2>4 DEF KeysFit
    <3>2. x \notin DOMAIN w.upd["val"] => Over(w.ins["val"], Over(w.upd["val"], rows["val"]))[x] = rows["val"][x]
      BY <3>1, OverTwo
    <3>3. rows["val"]'[x] # rows["val"][x]
      BY <2>8
    <3> QED
      BY <2>7, <2>8, <3>2, <3>3
  <2>10. u = x[2] \/ x[2] = Owner(k)
    BY <2>3, <2>5, <2>9 DEF OwnValues
  <2>11. ASSUME Alone PROVE MayWrite(u, k) /\ Seen(u, k)' = rows.val'[x]
    <3>1. MayWrite(u, k) /\ x = <<k, ValuesOwner(u, k)>> /\ Keys(w, "share") = {} /\ Keys(w, "coll") = {}
      BY <2>3, <2>9, <2>11 DEF Allowed
    <3>2. /\ {y \in DOMAIN rows["share"]' : y[1] = k} = {y \in DOMAIN rows["share"] : y[1] = k}
          /\ \A y \in DOMAIN rows["share"] : y[1] = k => rows["share"]'[y] = rows["share"][y]
      BY <2>3, <2>6, <3>1, RowsStay DEF Tables
    <3>3. Owner(k)' = Owner(k)
      BY <2>3, <2>5, LivesAfter DEF IInv, AccessInv
    <3>4. Owns(u, k)' <=> Owns(u, k)
      BY <2>5, <3>3 DEF Owns
    <3>5. /\ Shared(u, k)' <=> Shared(u, k)
          /\ Shared(u, k) => rows.share'[<<k, u>>] = rows.share[<<k, u>>]
      <4>1. <<k, u>>[1] = k
        OBVIOUS
      <4> QED
        BY <3>2, <4>1 DEF Shared
    <3>6. ValuesOwner(u, k)' = ValuesOwner(u, k)
      BY <3>3, <3>4, <3>5 DEF ValuesOwner
    <3> QED
      BY <2>8, <3>1, <3>6 DEF Seen
  <2> QED
    BY <2>2, <2>8, <2>10, <2>11
<1> QED
  BY <1>1, SpecInv, PTL DEF Spec, ValuesStay

--------------------------------------------------------------------------------
(***************************************************************************)
(* Types, names, and requests that meet no other one.                      *)
(***************************************************************************)
\* Rows are well-typed, belong to collections that exist, links lead to
\* collections and nobody shares with himself, whatever requests overlap: the
\* foreign keys and the checks of share_collection (models.py, explorer.py).
THEOREM TypeCorrect == Spec => []TypeOK
<1>1. IInv => TypeOK
  <2> SUFFICES ASSUME IInv PROVE TypeOK
    OBVIOUS
  <2>1. RowsInv /\ TypedRows /\ load \in Loads
    BY DEF IInv, AccessInv, SoundInv
  <2>2. \A k : k \in Live <=> Lives(k)
    BY <2>1, LiveKeys
  <2>3. \A t \in Tables : \A x \in DOMAIN rows[t] : RowFits(t, x, rows[t][x]) /\ x[1] \in Live
    BY <2>1, <2>2 DEF TypedRows, RowsInv
  <2>4. DOMAIN rows.coll \subseteq {<<k>> : k \in Collections}
    BY <2>1 DEF RowsInv
  <2>5. \A k \in Live : rows.coll[<<k>>] \in [owner : Users, source : (Live \cup {none}) \ {k}]
    <3> SUFFICES ASSUME NEW k \in Live
                 PROVE  rows.coll[<<k>>] \in [owner : Users, source : (Live \cup {none}) \ {k}]
      OBVIOUS
    <3>0. PICK x : x = <<k>>
      OBVIOUS
    <3>1. x = <<k>> /\ x[1] = k
      BY <3>0
    <3>2. x \in DOMAIN rows["coll"]
      BY <2>2, <3>1 DEF Lives
    <3>3. rows["coll"][x] \in CollRow /\ rows["coll"][x].source # k
      BY <2>3, <3>1, <3>2 DEF RowFits, Tables
    <3>4. rows["coll"][x].source = none \/ rows["coll"][x].source \in Live
      BY <2>1, <2>2, <3>2 DEF TypedRows
    <3> QED
      BY <3>1, <3>3, <3>4 DEF CollRow
  <2>6. DOMAIN rows.meta = DOMAIN rows.coll
    BY <2>1 DEF RowsInv, TypedRows
  <2>7. Range(rows.meta) \subseteq Docs
    BY <2>3 DEF Range, RowFits, Tables
  <2>8. DOMAIN rows.scen \subseteq Live \X Nat
    <3> SUFFICES ASSUME NEW x \in DOMAIN rows["scen"] PROVE x \in Live \X Nat
      OBVIOUS
    <3>1. x[1] \in Live /\ x = <<x[1], x[2]>> /\ x[2] \in 1 .. load.slots /\ load.slots \in Nat
      BY <2>1, <2>3 DEF RowFits, Tables, Load
    <3> QED
      BY <3>1
  <2>9. Range(rows.scen) \subseteq File
    BY <2>3 DEF Range, RowFits, Tables
  <2>10. \A x \in DOMAIN rows["share"] : x[1] \in Live /\ x[2] \in Users \ {Owner(x[1])}
    BY <2>1, <2>3 DEF TypedRows, RowFits, Tables
  <2>11. Range(rows.share) \subseteq [edit : BOOLEAN, env : BOOLEAN]
    BY <2>3 DEF Range, RowFits, Tables
  <2>12. DOMAIN rows.val \subseteq Live \X Users
    <3> SUFFICES ASSUME NEW x \in DOMAIN rows["val"] PROVE x \in Live \X Users
      OBVIOUS
    <3>1. x[1] \in Live /\ x = <<x[1], x[2]>> /\ x[2] \in Users
      BY <2>3 DEF RowFits, Tables
    <3> QED
      BY <3>1
  <2>13. Range(rows.val) \subseteq Values
    BY <2>3 DEF Range, RowFits, Tables
  <2> QED
    BY <2>1, <2>4, <2>5, <2>6, <2>7, <2>8, <2>9, <2>10, <2>11, <2>12, <2>13 DEF TypeOK
<1> QED
  BY <1>1, SpecInv, PTL

\* Different elements with different images are as many as their images.
LEMMA AsManyImages ==
  ASSUME NEW S, IsFiniteSet(S), NEW g, \A x, y \in S : g[x] = g[y] => x = y,
         NEW T, T = {g[x] : x \in S}
  PROVE  IsFiniteSet(T) /\ Cardinality(T) = Cardinality(S)
<1>1. PICK f : f = [x \in S |-> g[x]]
  OBVIOUS
<1>2. f \in Surjection(S, T)
  BY <1>1 DEF Surjection
<1>3. f \in Injection(S, T)
  BY <1>1 DEF Injection, IsInjective
<1> QED
  BY <1>2, <1>3, FS_Surjection

LEMMA MembersAreFinite ==
  ASSUME IInv, NEW k
  PROVE  IsFiniteSet(Members(k))
<1>1. \A s \in Members(k) : s = <<k, s[2]>> /\ s[2] \in 1 .. load.slots
  <2>1. \A s \in DOMAIN rows["scen"] : s = <<s[1], s[2]>> /\ s[2] \in 1 .. load.slots
    BY DEF IInv, SoundInv, TypedRows, RowFits, Tables
  <2> QED
    BY <2>1 DEF Members
<1>2. load.slots \in Nat
  BY DEF IInv, SoundInv, Load
<1>3. IsFiniteSet(1 .. load.slots)
  BY <1>2, FS_Interval
<1>4. PICK S, T : S = Members(k) /\ T = 1 .. load.slots
  OBVIOUS
<1>5. PICK f : f = [s \in S |-> s[2]]
  OBVIOUS
<1>6. f \in Injection(S, T)
  BY <1>1, <1>4, <1>5 DEF Injection, IsInjective
<1> QED
  BY <1>3, <1>4, <1>6, FS_Injection

\* A run gets every document of a collection in a file of its own, however the
\* requests before overlapped, and requests one at a time keep the names of a
\* collection apart without their case: unique_scenario_name, the clash tests
\* of rename_item, and the unique constraint on (collection, name)
\* (explorer.py, models.py).
THEOREM FilesStayDistinct == Spec => []FilesAreDistinct
<1>1. IInv => FilesAreDistinct
  <2> SUFFICES ASSUME IInv, NEW k \in Live
               PROVE  LET count == Cardinality(Members(k)) IN
                      /\ collectionFile \notin NamesIn(Members(k)) =>
                           Cardinality(DOMAIN RunFiles(k)) = count + 1
                      /\ Alone => Cardinality({Fold[n] : n \in NamesIn(Members(k))}) = count
    BY DEF FilesAreDistinct
  <2>1. PICK S, N : S = Members(k) /\ N = NamesIn(Members(k))
    OBVIOUS
  <2>2. IsFiniteSet(S)
    BY <2>1, MembersAreFinite
  <2>3. \A s \in S : s \in DOMAIN rows.scen /\ s[1] = k
    BY <2>1 DEF Members
  <2>4. IsFiniteSet(N) /\ Cardinality(N) = Cardinality(S)
    <3>1. PICK g : g = [s \in S |-> rows.scen[s].name]
      OBVIOUS
    <3>2. \A s, r \in S : g[s] = g[r] => s = r
      BY <2>3, <3>1 DEF IInv, SoundInv, TypedRows, Unique
    <3>3. N = {g[s] : s \in S}
      BY <2>1, <3>1 DEF NamesIn
    <3> QED
      BY <2>2, <3>2, <3>3, AsManyImages
  <2>5. DOMAIN RunFiles(k) = N \cup {collectionFile}
    <3>1. PICK f, g : /\ f = [n \in N |-> rows.scen[CHOOSE s \in Named(k, n) : TRUE].doc]
                      /\ g = Row(collectionFile, rows.meta[<<k>>])
      OBVIOUS
    <3>2. RunFiles(k) = Over(f, g)
      BY <2>1, <3>1 DEF RunFiles
    <3>3. DOMAIN f = N /\ DOMAIN g = {collectionFile}
      BY <3>1, RowIs
    <3> QED
      BY <3>2, <3>3, OverKeys
  <2>6. ASSUME collectionFile \notin N PROVE Cardinality(DOMAIN RunFiles(k)) = Cardinality(S) + 1
    BY <2>4, <2>5, <2>6, FS_AddElement
  <2>7. ASSUME Alone PROVE Cardinality({Fold[n] : n \in N}) = Cardinality(S)
    <3>1. PICK T : T = {Fold[n] : n \in N}
      OBVIOUS
    <3>2. ASSUME NEW n \in N, NEW m \in N, Fold[n] = Fold[m] PROVE n = m
      <4>1. PICK s \in S : n = rows.scen[s].name
        BY <2>1 DEF NamesIn
      <4>2. PICK r \in S : m = rows.scen[r].name
        BY <2>1 DEF NamesIn
      <4>3. s = r
        BY <2>3, <2>7, <3>2, <4>1, <4>2 DEF IInv, SoundInv, TypedRows, Distinct
      <4> QED
        BY <4>1, <4>2, <4>3
    <3>3. Cardinality(T) = Cardinality(N)
      BY <2>4, <3>1, <3>2, AsManyImages
    <3> QED
      BY <2>4, <3>1, <3>3
  <2> QED
    BY <2>1, <2>6, <2>7
<1> QED
  BY <1>1, SpecInv, PTL

\* What a request has checked is what the tables require: one that meets no
\* other is never answered with a server error, except the fork of a collection
\* in which its owner and the forker both have values (share_service.py
\* fork_collection; the unique constraints of models.py).
THEOREM LoneRequestsAreServed == Spec => []ServedAlone
<1>1. IInv => ServedAlone
  <2> SUFFICES ASSUME IInv, Alone, NEW u \in load.users, tx[u] # none, ~MayCommit(tx[u])
               PROVE  \E x \in DOMAIN tx[u].ins.coll :
                        LET k == tx[u].ins.coll[x].source
                        IN  k # none /\ Owner(k) # u /\ {<<k, u>>, <<k, Owner(k)>>} \subseteq DOMAIN rows.val
    BY DEF ServedAlone
  <2>1. PICK w : w = tx[u]
    OBVIOUS
  <2>2. u \in Users
    BY DEF IInv, AccessInv, TxInv, Load
  <2>3. Clean(u, w)
    BY <2>1, <2>2 DEF IInv, SoundInv
  <2>4. NamesFit(w)
    BY <2>3 DEF Clean, Distinct, NamesFit
  <2>5. ForksTwoValues(u, w)
    BY <2>1, <2>3, <2>4 DEF Clean, MayCommit
  <2> QED
    BY <2>1, <2>5 DEF ForksTwoValues
<1> QED
  BY <1>1, SpecInv, PTL

--------------------------------------------------------------------------------
(***************************************************************************)
(* Pulls and forks.                                                        *)
(***************************************************************************)
\* Two collections with the same scenarios do not differ in them.
TextsOf(scen, k) == [n \in {scen[s].name : s \in {r \in DOMAIN scen : r[1] = k}} |->
  scen[CHOOSE s \in {r \in DOMAIN scen : r[1] = k /\ scen[r].name = n} : TRUE].doc]

LEMMA SameRowsSameTexts ==
  ASSUME NEW scen, Unique(scen), NEW l, NEW k, RowsOf(scen, l) = RowsOf(scen, k)
  PROVE  TextsOf(scen, l) = TextsOf(scen, k)
<1> DEFINE N(j) == {scen[s].name : s \in {r \in DOMAIN scen : r[1] = j}}
           At(j, n) == {r \in DOMAIN scen : r[1] = j /\ scen[r].name = n}
<1>1. ASSUME NEW i, NEW j, RowsOf(scen, i) = RowsOf(scen, j), NEW n \in N(i)
      PROVE  \E s \in DOMAIN scen, r \in DOMAIN scen :
               At(i, n) = {s} /\ At(j, n) = {r} /\ scen[s] = scen[r]
  <2>1. PICK s \in DOMAIN scen : s[1] = i /\ scen[s].name = n
    OBVIOUS
  <2>2. scen[s] \in RowsOf(scen, j)
    BY <1>1, <2>1 DEF RowsOf
  <2>3. PICK r \in DOMAIN scen : r[1] = j /\ scen[r] = scen[s]
    BY <2>2 DEF RowsOf
  <2>4. At(i, n) = {s} /\ At(j, n) = {r}
    BY <2>1, <2>3 DEF Unique
  <2> QED
    BY <2>3, <2>4
<1>2. \A n : n \in N(l) => n \in N(k)
  <2> SUFFICES ASSUME NEW n \in N(l) PROVE n \in N(k)
    OBVIOUS
  <2>1. PICK r \in DOMAIN scen : r \in At(k, n)
    BY <1>1
  <2> QED
    BY <2>1
<1>3. \A n : n \in N(k) => n \in N(l)
  <2> SUFFICES ASSUME NEW n \in N(k) PROVE n \in N(l)
    OBVIOUS
  <2>1. PICK r \in DOMAIN scen : r \in At(l, n)
    BY <1>1
  <2> QED
    BY <2>1
<1>4. ASSUME NEW n \in N(l)
      PROVE  scen[CHOOSE s \in At(l, n) : TRUE].doc = scen[CHOOSE s \in At(k, n) : TRUE].doc
  BY <1>1
<1>5. N(l) = N(k)
  BY <1>2, <1>3
<1>6. PICK f : f = TextsOf(scen, l)
  OBVIOUS
<1>7. PICK g : g = TextsOf(scen, k)
  OBVIOUS
<1>8. /\ f = [n \in N(l) |-> f[n]] /\ DOMAIN f = N(l)
      /\ \A n \in N(l) : f[n] = scen[CHOOSE s \in At(l, n) : TRUE].doc
  BY <1>6 DEF TextsOf
<1>9. /\ g = [n \in N(k) |-> g[n]] /\ DOMAIN g = N(k)
      /\ \A n \in N(k) : g[n] = scen[CHOOSE s \in At(k, n) : TRUE].doc
  BY <1>7 DEF TextsOf
<1> HIDE DEF N, At
<1>10. \A n \in N(l) : f[n] = g[n]
  BY <1>4, <1>5, <1>8, <1>9
<1>11. f = g
  BY <1>5, <1>8, <1>9, <1>10
<1> QED
  BY <1>6, <1>7, <1>11

\* A pull leaves no difference to the source, and neither does a fork; the
\* source is not touched (share_service.py fork_collection, pull_from_source,
\* diff_collections), when requests come one at a time.
THEOREM PullsAreComplete == Spec => PullsEverything
<1>1. IInv /\ [Next]_vars =>
        (Alone => \A u \in load.users : (Ended(u) /\ tx[u].pull # none /\ rows' # rows) =>
           \E l, k \in Live' : /\ <<l, k>> = tx[u].pull
                               /\ ~Differ(l, k)' /\ Contents(k)' = Contents(k))
  <2> SUFFICES ASSUME IInv, [Next]_vars, Alone, NEW u \in load.users, Ended(u),
                      tx[u].pull # none, rows' # rows
               PROVE  \E l, k \in Live' : /\ <<l, k>> = tx[u].pull
                                          /\ ~Differ(l, k)' /\ Contents(k)' = Contents(k)
    OBVIOUS
  <2>1. u \in Users
    BY DEF IInv, AccessInv, TxInv, Load
  <2>2. Commit(u)
    BY <2>1, ChangesAreCommits
  <2>3. PICK w : w = tx[u]
    OBVIOUS
  <2>4. /\ w # none /\ KeysFit(w) /\ NamesFit(w) /\ rows' = After(w) /\ Form(w) /\ RowsInv
        /\ Clean(u, w) /\ w.pull # none
    BY <2>1, <2>2, <2>3 DEF Commit, MayCommit, IInv, AccessInv, SoundInv, TxInv
  <2>5. PICK l, k :
          /\ w.pull = <<l, k>> /\ l # k
          /\ Lives(k) /\ ~Touches(w, k)
          /\ Lives(l) \/ <<l>> \in DOMAIN w.ins.coll
          /\ w.del.coll = {}
          /\ w.ins.meta = Row(<<l>>, rows.meta[<<k>>]) \/ w.upd.meta = Row(<<l>>, rows.meta[<<k>>])
          /\ DOMAIN w.ins.meta \cap DOMAIN w.upd.meta = {} /\ w.del.meta = {}
          /\ RowsOf(After(w).scen, l) = RowsOf(rows.scen, k)
    BY <2>4 DEF Clean, PullFits
  <2>6. Dead(w) = {}
    BY <2>5 DEF Dead
  <2>7. Lives(l)' /\ Lives(k)'
    BY <2>4, <2>5, <2>6, LivesAfter
  <2>8. l \in Live' /\ k \in Live'
    <3>1. RowsInv'
      BY NextKeeps DEF IInv, AccessInv
    <3> QED
      BY <2>7, <3>1 DEF Live, Lives, RowsInv
  <2>9. \A t \in {"scen", "meta"} : \A x \in Keys(w, t) : x[1] # k
    BY <2>5 DEF Touches, Tables
  <2>10. /\ {x \in DOMAIN rows["scen"]' : x[1] = k} = {x \in DOMAIN rows["scen"] : x[1] = k}
         /\ \A x \in DOMAIN rows["scen"] : x[1] = k => rows["scen"]'[x] = rows["scen"][x]
    BY <2>4, <2>6, <2>9, RowsStay DEF Tables
  <2>11. \A x \in DOMAIN rows["meta"] : x[1] = k => rows["meta"]'[x] = rows["meta"][x]
    <3>1. PICK t : t = "meta"
      OBVIOUS
    <3>2. t \in Tables \ {"coll"} /\ k \notin Dead(w) /\ \A x \in Keys(w, t) : x[1] # k
      BY <2>6, <2>9, <3>1 DEF Tables
    <3>3. rows' = After(w)
      BY <2>4
    <3>4. \A x \in DOMAIN rows[t] : x[1] = k => rows'[t][x] = rows[t][x]
      BY <3>2, <3>3, RowsStay
    <3> QED
      BY <3>1, <3>4
  <2>12. <<k>> \in DOMAIN rows["meta"] /\ rows["meta"]'[<<k>>] = rows["meta"][<<k>>]
    <3>1. <<k>> \in DOMAIN rows["meta"] /\ <<k>>[1] = k
      BY <2>4, <2>5 DEF RowsInv, Lives
    <3> QED
      BY <2>11, <3>1
  <2>13. Contents(k)' = Contents(k)
    BY <2>10, <2>12 DEF Contents, Members
  <2>14. rows["meta"]'[<<l>>] = rows["meta"][<<k>>]
    <3>1. PICK d, f, g, O : /\ d = rows.meta[<<k>>] /\ f = w.ins["meta"] /\ g = w.upd["meta"]
                            /\ O = Over(f, Over(g, rows["meta"]))
      OBVIOUS
    <3>2. DOMAIN Row(<<l>>, d) = {<<l>>} /\ Row(<<l>>, d)[<<l>>] = d
      BY RowIs
    <3>3. \/ <<l>> \in DOMAIN f /\ f[<<l>>] = d
          \/ <<l>> \in DOMAIN g /\ <<l>> \notin DOMAIN f /\ g[<<l>>] = d
      <4>1. f = Row(<<l>>, d) \/ (g = Row(<<l>>, d) /\ DOMAIN f \cap DOMAIN g = {})
        BY <2>5, <3>1
      <4> QED
        BY <3>2, <4>1
    <3>4. O[<<l>>] = d
      BY <3>1, <3>3, OverTwo
    <3>5. <<l>> \in Wrote(w, "meta") /\ w.del["meta"] = {} /\ "meta" \in Tables
      BY <2>5, <3>1, <3>3 DEF Wrote, Tables
    <3>6. <<l>> \in DOMAIN After(w)["meta"]
      BY <2>6, <3>5, AfterIs
    <3>7. After(w)["meta"][<<l>>] = O[<<l>>]
      BY <3>1, <3>5, <3>6, AfterIs
    <3> QED
      BY <2>4, <3>1, <3>4, <3>7
  <2>15. Texts(l)' = Texts(k)'
    <3>1. PICK scen : scen = rows["scen"]'
      OBVIOUS
    <3>2. Unique(scen)
      BY <2>4, <3>1 DEF NamesFit, Unique
    <3>3. RowsOf(scen, l) = RowsOf(rows.scen, k)
      BY <2>4, <2>5, <3>1
    <3>4. RowsOf(scen, k) = RowsOf(rows.scen, k)
      BY <2>10, <3>1 DEF RowsOf
    <3>5. TextsOf(scen, l) = TextsOf(scen, k)
      BY <3>2, <3>3, <3>4, SameRowsSameTexts
    <3>6. ASSUME NEW j PROVE Texts(j)' = TextsOf(rows["scen"]', j)
      BY DEF Texts, TextsOf, NamesIn, Named, Members
    <3> QED
      BY <3>1, <3>5, <3>6
  <2>16. ~Differ(l, k)'
    BY <2>12, <2>14, <2>15 DEF Differ
  <2> QED
    BY <2>3, <2>5, <2>8, <2>13, <2>16
<1> QED
  BY <1>1, SpecInv, PTL DEF Spec, PullsEverything
================================================================================
