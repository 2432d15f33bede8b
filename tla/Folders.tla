--------------------------------- MODULE Folders ---------------------------------
(***************************************************************************)
(* The folders of one user's workspace (webapp/explorer.py).  A folder row *)
(* holds its name and its parent as a PATH, not as a reference, and so     *)
(* does a collection: moving or renaming a folder rewrites the paths of    *)
(* everything below it.  A request reads the rows, decides, and writes     *)
(* when its session commits (webapp/db.py, autoflush off): here Check and  *)
(* Commit, between which the requests of other clients take place.         *)
(*                                                                         *)
(* A path is a sequence of segments (the empty segment of a stray slash is *)
(* left out).  Clients use the paths that the explorer shows, but for one  *)
(* request: POST /api/workspace/collections (webapp/workspace.py) stores   *)
(* any folder it is given, there or not.  Slug is folder_slug: what it     *)
(* keeps of a name.  Positions are left out: they only order what is       *)
(* shown.                                                                  *)
(***************************************************************************)
EXTENDS Naturals, FiniteSets, Sequences, SequencesExt, Functions

CONSTANTS Clients,      \* requests served at a time
          Folders,      \* identities of folders
          Collections,  \* identities of collections
          Names,        \* names typed for a folder
          Slug,         \* folder_slug, over Names and the slugs
          Loads,        \* what the clients may do: how many at a time, with what
          none          \* no request, no folder

ASSUME IdentityAssumption == Folders \cap Collections = {}
ASSUME SlugAssumption == \A n \in Names : Slug[n] \in DOMAIN Slug

Load == [clients : SUBSET Clients,
         ids : SUBSET (Folders \cup Collections),  \* bound: rows ever created
         names : SUBSET Names,
         depth : Nat]                \* bound: segments of a stored path
ASSUME LoadsAssumption == Loads \subseteq Load

VARIABLES
  load,     \* the load of this behaviour
  parent,   \* folder -> stored path of its parent
  name,     \* folder -> stored name
  filed,    \* collection -> stored path of its folder
  ever,     \* identities given so far (they are never given again)
  tx        \* client -> what its request is about to write

vars == <<load, parent, name, filed, ever, tx>>

Live  == DOMAIN parent
Slugs == Range(Slug)

--------------------------------------------------------------------------------
(***************************************************************************)
(* Paths.                                                                  *)
(***************************************************************************)
Normal(p) == [i \in 1 .. Len(p) |-> Slug[p[i]]]

Join(p, n) == Append(Normal(p), Slug[n])

\* The folders the lookup by path returns (one at most, the table is unique).
Found(p) == LET q == Normal(p)
            IN  IF q = <<>> THEN {}
                ELSE {f \in Live : parent[f] = Front(q) /\ name[f] = Last(q)}

FullPath(f) == Join(parent[f], name[f])

\* Fault: only what is directly inside is rewritten.
RewriteTop(p, old, new) == IF p = old THEN new ELSE p

Rewrite(p, old, new) ==
  IF IsPrefix(old, p) THEN new \o SubSeq(p, Len(old) + 1, Len(p)) ELSE p

--------------------------------------------------------------------------------
(***************************************************************************)
(* What a request writes: new values of rows and the rows it deletes.      *)
(***************************************************************************)
Empty     == [x \in {} |-> <<>>]
Row(x, v) == [y \in {x} |-> v]

\* The values f written over the values g.
Over(f, g) == [x \in DOMAIN f \cup DOMAIN g |-> IF x \in DOMAIN f THEN f[x] ELSE g[x]]

\* Only the rows whose value changes are written.
Changed(new, old) == Restrict(new, {x \in DOMAIN old : new[x] # old[x]})

Writes == [parent |-> Empty, name |-> Empty, filed |-> Empty,
           fresh |-> {}, gone |-> {}, moves |-> none]

Stored(n) == Slug[n]

\* A new folder, in a folder that exists, under a name that is free.
CreateFolder(n, at) ==
  LET home == Normal(at) IN
  { [Writes EXCEPT !.parent = Row(f, home), !.name = Row(f, Stored(n)), !.fresh = {f}] :
      f \in IF (home = <<>> \/ Found(home) # {}) /\ Found(Join(home, Stored(n))) = {}
            THEN (Folders \cap load.ids) \ ever ELSE {} }

CreateCollection(at) ==
  LET home == Normal(at) IN
  { [Writes EXCEPT !.filed = Row(k, home), !.fresh = {k}] :
      k \in IF home = <<>> \/ Found(home) # {} THEN (Collections \cap load.ids) \ ever ELSE {} }

\* The other way to make one: the folder is stored as sent, and not looked up.
PostCollection(at) ==
  { [Writes EXCEPT !.filed = Row(k, at), !.fresh = {k}] : k \in (Collections \cap load.ids) \ ever }

\* The folder is looked up by its normalised path, the path is stored as sent.
MoveCollection(k, at) ==
  { [Writes EXCEPT !.filed = Row(k, at), !.moves = k] :
      g \in IF at = <<>> THEN {none} ELSE Found(at) }

DeleteCollection(k) == { [Writes EXCEPT !.gone = {k}] }

\* What a changed path of a folder does to every other row.
Rewritten(f, old, new) ==
  [Writes EXCEPT
    !.parent = Changed([g \in Live |->
                         IF g = f THEN parent[f] ELSE Rewrite(parent[g], old, new)], parent),
    !.filed  = Changed([k \in DOMAIN filed |-> Rewrite(filed[k], old, new)], filed)]

\* Fault: a folder may be moved below itself.
MaySink(path, dest) == TRUE

\* The destination is not the folder itself or below it.
MayMove(path, dest) == ~IsPrefix(path, dest)

MoveFolder(path, dest) ==
  { LET new == Join(dest, name[f])
        w   == Rewritten(f, path, new)
    IN  [w EXCEPT !.parent = Over(Row(f, dest), @), !.moves = f] :
    f \in { g \in Found(path) :
              /\ dest = <<>> \/ Found(dest) # {}
              /\ MayMove(path, dest)
              /\ Found(Join(dest, name[g])) = {} } }

RenameFolder(path, n) ==
  { LET new == Join(parent[f], Slug[n])
    IN  [Rewritten(f, path, new) EXCEPT !.name = Row(f, Slug[n])] :
    f \in { g \in Found(path) :
              Slug[n] # name[g] /\ Found(Join(parent[g], Slug[n])) = {} } }

\* Contents are looked for at the path as it was sent.
Occupied(path) ==
  \/ \E k \in DOMAIN filed : filed[k] = path
  \/ \E g \in Live : parent[g] = path

DeleteFolder(path) ==
  { [Writes EXCEPT !.gone = {f}] : f \in IF Occupied(path) THEN {} ELSE Found(path) }

--------------------------------------------------------------------------------
(***************************************************************************)
(* Requests.                                                               *)
(***************************************************************************)
\* The paths a client can name: those of the tree it was shown, and what it
\* makes up below them.
Paths    == {FullPath(f) : f \in Live}
Homes    == {<<>>} \cup Paths
Anywhere == Homes \cup {Append(p, n) : p \in Homes, n \in load.names}

Init ==
  /\ load \in Loads
  /\ parent = Empty
  /\ name = Empty
  /\ filed = Empty
  /\ ever = {}
  /\ tx = [c \in Clients |-> none]

Shallow(paths) == \A p \in Range(paths) : Len(p) <= load.depth

\* A request reads the rows and finds that it may write w.
Check(c, w) ==
  /\ tx[c] = none
  /\ Shallow(w.parent) /\ Shallow(w.filed)
  /\ tx' = [tx EXCEPT ![c] = w]
  /\ ever' = ever \cup w.fresh
  /\ UNCHANGED <<load, parent, name, filed>>

CheckCreateFolder(c)     == \E n \in load.names, p \in Homes : \E w \in CreateFolder(n, p) : Check(c, w)
CheckCreateCollection(c) == \E p \in Homes : \E w \in CreateCollection(p) : Check(c, w)
CheckPostCollection(c)   == \E p \in Anywhere : \E w \in PostCollection(p) : Check(c, w)
CheckMoveCollection(c)   == \E k \in DOMAIN filed, p \in Homes :
                              \E w \in MoveCollection(k, p) : Check(c, w)
CheckDeleteCollection(c) == \E k \in DOMAIN filed : \E w \in DeleteCollection(k) : Check(c, w)
CheckMoveFolder(c)       == \E p \in Paths, q \in Homes : \E w \in MoveFolder(p, q) : Check(c, w)
CheckRenameFolder(c)     == \E p \in Paths, n \in load.names : \E w \in RenameFolder(p, n) : Check(c, w)
CheckDeleteFolder(c)     == \E p \in Paths : \E w \in DeleteFolder(p) : Check(c, w)

\* The rows after the writes of w.
Without(f, gone) == Restrict(f, DOMAIN f \ gone)
ParentsAfter(w)  == Without(Over(w.parent, parent), w.gone)
NamesAfter(w)    == Without(Over(w.name, name), w.gone)
FiledAfter(w)    == Without(Over(w.filed, filed), w.gone)

\* Every row to update is still there.
RowsExist(w) ==
  /\ (DOMAIN w.parent \cup DOMAIN w.name) \ w.fresh \subseteq Live
  /\ DOMAIN w.filed \ w.fresh \subseteq DOMAIN filed

\* Fault: nothing keeps (owner, parent, name) unique.
MayCommitTwice(w) == RowsExist(w)

\* (owner, parent, name) is unique.
MayCommit(w) ==
  /\ RowsExist(w)
  /\ \A f, g \in DOMAIN ParentsAfter(w) :
       (ParentsAfter(w)[f] = ParentsAfter(w)[g] /\ NamesAfter(w)[f] = NamesAfter(w)[g]) => f = g

Commit(c) ==
  /\ tx[c] # none
  /\ MayCommit(tx[c])
  /\ parent' = ParentsAfter(tx[c])
  /\ name' = NamesAfter(tx[c])
  /\ filed' = FiledAfter(tx[c])
  /\ tx' = [tx EXCEPT ![c] = none]
  /\ UNCHANGED <<load, ever>>

\* The session is rolled back and the client told so (500).
RollBack(c) ==
  /\ tx[c] # none
  /\ ~MayCommit(tx[c])
  /\ tx' = [tx EXCEPT ![c] = none]
  /\ UNCHANGED <<load, parent, name, filed, ever>>

Next == \E c \in load.clients :
  \/ CheckCreateFolder(c) \/ CheckCreateCollection(c) \/ CheckPostCollection(c)
  \/ CheckMoveCollection(c) \/ CheckDeleteCollection(c)
  \/ CheckMoveFolder(c) \/ CheckRenameFolder(c) \/ CheckDeleteFolder(c)
  \/ Commit(c) \/ RollBack(c)

Spec == Init /\ [][Next]_vars

--------------------------------------------------------------------------------
(***************************************************************************)
(* Properties.                                                             *)
(***************************************************************************)
\* No request overlaps another one.
Alone == \A c, d \in load.clients : c = d

\* When requests come one at a time, workspace_tree shows every folder: it
\* descends from the root and takes the rows whose stored path is the full
\* path of a folder it has reached.  A parent's path is shorter than its own,
\* so a chain of parents that exist ends at the root.  A collection is shown
\* where it is filed, unless it was posted with a folder that is not there.
Whole       == \A f \in Live : parent[f] \in Homes
TreeIsWhole == Alone => Whole

\* The path the explorer gives to a folder finds that folder and no other,
\* also when requests that checked for the same free name commit together.
FoldersAreAddressable == \A f \in Live : Found(FullPath(f)) = {f}

\* Where things are: the folder a row is in, by identity, none for the root; no
\* folder at all if it is outside the tree.
InFolder(p)   == IF p = <<>> THEN {none} ELSE {f \in Live : FullPath(f) = p}
Containing(x) == IF x \in Live THEN InFolder(parent[x]) ELSE InFolder(filed[x])
Things        == Live \cup DOMAIN filed

\* However folders are renamed, moved and deleted, a folder or a collection that
\* the tree shows stays in the folder it is in, until it is deleted or itself
\* moved to another that is there, when requests come one at a time.
StayTogether ==
  \A x \in Things \cap Things' :
    Containing(x) # {} /\ Containing(x)' # Containing(x) =>
      /\ Containing(x)' # {}
      /\ \E c \in load.clients : tx[c] # none /\ tx[c].moves = x
ContentsStayTogether == [][Alone => StayTogether]_vars

================================================================================
