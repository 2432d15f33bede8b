------------------------------ MODULE FoldersProofs ------------------------------
(***************************************************************************)
(* Safety of Folders for any clients, folders, collections and loads, and  *)
(* all names that folder_slug leaves as it made them.                      *)
(***************************************************************************)
EXTENDS Folders, SequenceTheorems, TLAPS

\* What names become, and that they stay so when they are looked up: the names
\* that folder_slug does not cut.
Seg    == {Slug[n] : n \in Names}
Stable == \A n \in Names : Slug[Slug[n]] = Slug[n]

\* What a path that was posted may hold.
Word == Seg \cup Names

(***************************************************************************)
(* The inductive invariant, by parts.                                      *)
(***************************************************************************)
\* The rows of folders hold normal paths and names, those of collections any path.
RowsInv ==
  /\ parent \in [Live -> Seq(Seg)]
  /\ name \in [Live -> Seg]
  /\ filed \in [DOMAIN filed -> Seq(Word)]
  /\ Live \subseteq Folders \cap ever
  /\ DOMAIN filed \subseteq Collections \cap ever

UniqueInv == \A f, g \in Live : parent[f] = parent[g] /\ name[f] = name[g] => f = g

\* What any request writes.
Form(w) ==
  /\ w.parent \in [DOMAIN w.parent -> Seq(Seg)]
  /\ w.name \in [DOMAIN w.name -> Seg]
  /\ w.filed \in [DOMAIN w.filed -> Seq(Word)]
  /\ DOMAIN w.parent \subseteq Folders
  /\ DOMAIN w.name \subseteq Folders
  /\ DOMAIN w.filed \subseteq Collections
  /\ w.fresh \cap DOMAIN w.parent = w.fresh \cap DOMAIN w.name

\* The rows a request leaves, when nothing changed since it read them: a new
\* folder in one that is there,
Adds(w) ==
  \E f \in Folders \ Live :
    /\ DOMAIN ParentsAfter(w) = Live \cup {f}
    /\ ParentsAfter(w)[f] \in Homes
    /\ \A g \in Live : ParentsAfter(w)[g] = parent[g] /\ NamesAfter(w)[g] = name[g]
    /\ FiledAfter(w) = filed

\* a collection that is new, or filed elsewhere in the tree, or is gone,
Files(w) ==
  \E k \in Collections, p \in Seq(Word) :
    /\ ParentsAfter(w) = parent /\ NamesAfter(w) = name
    /\ FiledAfter(w) = Over(Row(k, p), filed)
    /\ k \in DOMAIN filed => w.moves = k /\ p \in Homes

Drops(w) ==
  \E k \in DOMAIN filed :
    /\ ParentsAfter(w) = parent /\ NamesAfter(w) = name
    /\ FiledAfter(w) = Without(filed, {k})

\* an empty folder that is gone,
Removes(w) ==
  \E f \in Live :
    /\ ParentsAfter(w) = Without(parent, {f}) /\ NamesAfter(w) = Without(name, {f})
    /\ FiledAfter(w) = filed
    /\ \A g \in Live : parent[g] # FullPath(f)
    /\ \A k \in DOMAIN filed : filed[k] # FullPath(f)

\* or a folder with a new path, which the paths of all below it begin with.
Sinks(f, p) == IsPrefix(FullPath(f), p)

Moves(w) ==
  \E f \in Live, new \in Seq(Seg) :
    /\ DOMAIN ParentsAfter(w) = Live
    /\ DOMAIN FiledAfter(w) = DOMAIN filed
    /\ \A g \in Live \ {f} : /\ ParentsAfter(w)[g] = Rewrite(parent[g], FullPath(f), new)
                             /\ NamesAfter(w)[g] = name[g]
    /\ \A k \in DOMAIN filed : FiledAfter(w)[k] = Rewrite(filed[k], FullPath(f), new)
    /\ new = Append(ParentsAfter(w)[f], NamesAfter(w)[f])
    /\ \/ ParentsAfter(w)[f] = parent[f]
       \/ /\ w.moves = f
          /\ ParentsAfter(w)[f] \in Homes
          /\ ~Sinks(f, ParentsAfter(w)[f])

Prepared(w) == Adds(w) \/ Files(w) \/ Drops(w) \/ Removes(w) \/ Moves(w)

Pending(w) == w # none /\ \E c \in load.clients : tx[c] = w

TxInv ==
  /\ load \in Load
  /\ tx = [c \in Clients |-> tx[c]]
  /\ \A c \in Clients : tx[c] # none => Form(tx[c]) /\ tx[c].fresh \subseteq ever
  /\ Alone => \A w : Pending(w) => Prepared(w)

WholeInv == Alone => Whole

IInv == Stable /\ RowsInv /\ UniqueInv /\ TxInv /\ WholeInv

--------------------------------------------------------------------------------
(***************************************************************************)
(* Paths.                                                                  *)
(***************************************************************************)
LEMMA SegStays == Stable => \A s \in Seg : Slug[s] = s
BY DEF Stable, Seg

\* What is normal stays as it is.
LEMMA NormalIs ==
  ASSUME Stable, NEW p \in Seq(Seg)
  PROVE  Normal(p) = p
<1>1. \A i \in 1 .. Len(p) : Slug[p[i]] = p[i]
  BY SegStays, ElementOfSeq
<1>2. p = [i \in 1 .. Len(p) |-> p[i]]
  BY LenProperties
<1> QED
  BY <1>1, <1>2 DEF Normal

\* A sequence is its front with its last element.
LEMMA Ends ==
  ASSUME NEW S, NEW p \in Seq(S), p # <<>>, NEW q \in Seq(S), NEW e \in S
  PROVE  Append(q, e) = p <=> q = Front(p) /\ e = Last(p)
<1>1. PICK s \in Seq(S), d \in S : p = Append(s, d)
  BY SequenceEmptyOrAppend
<1>2. Len(p) = Len(s) + 1 /\ Len(s) \in Nat /\ p[Len(s) + 1] = d
  BY <1>1, AppendProperties, LenProperties
<1>3. Last(p) = d
  BY <1>2 DEF Last
<1>4. Front(p) = SubSeq(p, 1, Len(s))
  BY <1>2 DEF Front
<1>5. Front(p) \in Seq(S) /\ Len(Front(p)) = Len(s) /\ \A i \in 1 .. Len(s) : Front(p)[i] = p[i]
  <2>1. \A i \in 1 .. Len(s) : p[i] \in S
    BY <1>2, ElementOfSeq
  <2> QED BY <2>1, <1>2, <1>4, SubSeqProperties
<1>6. \A i \in 1 .. Len(s) : p[i] = s[i]
  BY <1>1, AppendProperties
<1>7. Front(p) = s
  BY <1>5, <1>6, SeqEqual
<1> QED
  BY <1>1, <1>3, <1>7, AppendInjective

\* The full path of a folder is its parent's with its name.
LEMMA PathIs ==
  ASSUME Stable, RowsInv, NEW f \in Live
  PROVE  /\ FullPath(f) = Append(parent[f], name[f])
         /\ FullPath(f) \in Seq(Seg) /\ FullPath(f) # <<>>
         /\ Len(FullPath(f)) = Len(parent[f]) + 1
<1>1. parent[f] \in Seq(Seg) /\ name[f] \in Seg
  BY DEF RowsInv
<1>2. FullPath(f) = Append(parent[f], name[f])
  BY <1>1, NormalIs, SegStays DEF FullPath, Join
<1> QED
  BY <1>1, <1>2, AppendProperties

LEMMA SegsAreWords == Seq(Seg) \subseteq Seq(Word)
BY SeqDef DEF Word

LEMMA HomesAreNormal ==
  ASSUME Stable, RowsInv
  PROVE  Homes \subseteq Seq(Seg)
<1>1. \A f \in Live : FullPath(f) \in Seq(Seg)
  BY PathIs
<1> QED
  BY <1>1, EmptySeq DEF Homes, Paths

\* The lookup finds the folders that have the path.
LEMMA FoundIs ==
  ASSUME Stable, RowsInv, NEW p \in Seq(Seg)
  PROVE  Found(p) = IF p = <<>> THEN {} ELSE InFolder(p)
<1>1. Normal(p) = p
  BY NormalIs
<1>2. CASE p = <<>>
  BY <1>1, <1>2 DEF Found
<1>3. CASE p # <<>>
  <2>1. ASSUME NEW f \in Live
        PROVE  FullPath(f) = p <=> parent[f] = Front(p) /\ name[f] = Last(p)
    <3>1. parent[f] \in Seq(Seg) /\ name[f] \in Seg
      BY DEF RowsInv
    <3>2. FullPath(f) = Append(parent[f], name[f])
      BY PathIs
    <3> QED BY <1>3, <3>1, <3>2, Ends
  <2> QED BY <1>1, <1>3, <2>1 DEF Found, InFolder
<1> QED
  BY <1>2, <1>3

\* Different folders have different paths.
LEMMA PathsDiffer ==
  ASSUME Stable, RowsInv, UniqueInv, NEW f \in Live, NEW g \in Live, FullPath(f) = FullPath(g)
  PROVE  f = g
<1>1. Append(parent[f], name[f]) = Append(parent[g], name[g])
  BY PathIs
<1>2. /\ parent[f] \in Seq(Seg) /\ name[f] \in Seg
      /\ parent[g] \in Seq(Seg) /\ name[g] \in Seg
  BY DEF RowsInv
<1>3. parent[f] = parent[g] /\ name[f] = name[g]
  <2> DEFINE q == parent[f]  e == name[f]  r == parent[g]  d == name[g]
  <2>1. q \in Seq(Seg) /\ e \in Seg /\ r \in Seq(Seg) /\ d \in Seg /\ Append(q, e) = Append(r, d)
    BY <1>1, <1>2
  <2> HIDE DEF q, e, r, d
  <2>2. q = r /\ e = d
    BY <2>1, AppendInjective
  <2> QED BY <2>2 DEF q, e, r, d
<1> QED
  BY <1>3 DEF UniqueInv

\* A prefix, element by element.
LEMMA PrefixIs ==
  ASSUME NEW S, NEW s \in Seq(S), NEW t \in Seq(S)
  PROVE  IsPrefix(s, t) <=> Len(s) <= Len(t) /\ \A i \in 1 .. Len(s) : s[i] = t[i]
<1>1. Len(s) \in Nat /\ Len(t) \in Nat
  BY LenProperties
<1>2. \A i \in 1 .. Len(s) : s[i] \in S
  BY ElementOfSeq
<1>3. SubSeq(s, 1, Len(s)) = s
  BY SubSeqFull
<1>4. ASSUME Len(s) <= Len(t)
      PROVE  s = SubSeq(t, 1, Len(s)) <=> \A i \in 1 .. Len(s) : s[i] = t[i]
  <2>1. \A i \in 1 .. Len(s) : t[i] \in S
    BY <1>1, <1>4, ElementOfSeq
  <2> DEFINE u == SubSeq(t, 1, Len(s))
  <2>2. u \in Seq(S) /\ Len(u) = Len(s) /\ \A i \in 1 .. Len(s) : u[i] = t[i]
    BY <2>1, <1>1, SubSeqProperties
  <2> HIDE DEF u
  <2>3. s = u <=> \A i \in 1 .. Len(s) : s[i] = u[i]
    BY <2>2, SeqEqual
  <2> QED BY <2>2, <2>3 DEF u
<1> QED
  BY <1>3, <1>4 DEF IsPrefix

\* What a rewritten path consists of.
LEMMA Rest ==
  ASSUME NEW S, NEW p \in Seq(S), NEW m \in Nat, m <= Len(p)
  PROVE  /\ SubSeq(p, m + 1, Len(p)) \in Seq(S)
         /\ Len(SubSeq(p, m + 1, Len(p))) = Len(p) - m
         /\ \A i \in 1 .. Len(p) - m : SubSeq(p, m + 1, Len(p))[i] = p[m + i]
<1>1. Len(p) \in Nat
  BY LenProperties
<1>2. \A i \in m + 1 .. Len(p) : p[i] \in S
  BY <1>1, ElementOfSeq
<1> QED
  BY <1>1, <1>2, SubSeqProperties

LEMMA RewriteIn ==
  ASSUME NEW S, NEW p \in Seq(S), NEW old \in Seq(S), NEW new \in Seq(S)
  PROVE  Rewrite(p, old, new) \in Seq(S)
<1>1. ASSUME IsPrefix(old, p)
      PROVE  SubSeq(p, Len(old) + 1, Len(p)) \in Seq(S)
  BY <1>1, PrefixIs, Rest, LenProperties
<1> QED
  BY <1>1, ConcatProperties DEF Rewrite

\* The folder's own path becomes the new one,
LEMMA RewriteWhole ==
  ASSUME NEW S, NEW old \in Seq(S), NEW new \in Seq(S)
  PROVE  Rewrite(old, old, new) = new
<1>1. IsPrefix(old, old)
  BY PrefixIs, LenProperties
<1>2. SubSeq(old, Len(old) + 1, Len(old)) = <<>>
  BY LenProperties, SubSeqEmpty
<1> QED
  BY <1>1, <1>2, ConcatEmptySeq DEF Rewrite

\* a shorter one stays,
LEMMA RewriteShort ==
  ASSUME NEW S, NEW p \in Seq(S), NEW old \in Seq(S), NEW new, Len(p) < Len(old)
  PROVE  Rewrite(p, old, new) = p
BY PrefixIs, LenProperties DEF Rewrite

\* and the path of any other folder becomes its parent's new path with its name.
LEMMA RewriteBelow ==
  ASSUME NEW S, NEW p \in Seq(S), NEW n \in S, NEW old \in Seq(S), NEW new \in Seq(S),
         Append(p, n) # old
  PROVE  Rewrite(Append(p, n), old, new) = Append(Rewrite(p, old, new), n)
<1> DEFINE q == Append(p, n)
           L == Len(old)
<1>1. /\ q \in Seq(S) /\ Len(q) = Len(p) + 1 /\ q[Len(p) + 1] = n
      /\ \A i \in 1 .. Len(p) : q[i] = p[i]
  BY AppendProperties
<1>2. Len(p) \in Nat /\ L \in Nat /\ Len(new) \in Nat
  BY LenProperties
<1>3. q # old
  OBVIOUS
<1> HIDE DEF q
<1>4. CASE IsPrefix(old, p)
  <2>1. L <= Len(p) /\ \A i \in 1 .. L : old[i] = p[i]
    BY <1>4, PrefixIs
  <2>2. IsPrefix(old, q)
    BY <2>1, <1>1, <1>2, PrefixIs
  <2> DEFINE a == SubSeq(p, L + 1, Len(p))
             b == SubSeq(q, L + 1, Len(q))
  <2>3. a \in Seq(S) /\ Len(a) = Len(p) - L /\ \A i \in 1 .. Len(p) - L : a[i] = p[L + i]
    BY <2>1, <1>2, Rest
  <2>4. b \in Seq(S) /\ Len(b) = Len(q) - L /\ \A i \in 1 .. Len(q) - L : b[i] = q[L + i]
    BY <2>1, <1>1, <1>2, Rest
  <2>5. Rewrite(p, old, new) = new \o a /\ Rewrite(q, old, new) = new \o b
    BY <1>4, <2>2 DEF Rewrite
  <2> HIDE DEF a, b
  <2>6. /\ new \o a \in Seq(S) /\ Len(new \o a) = Len(new) + Len(a)
        /\ \A i \in 1 .. Len(new) + Len(a) :
             (new \o a)[i] = IF i <= Len(new) THEN new[i] ELSE a[i - Len(new)]
    BY <2>3, ConcatProperties
  <2>7. /\ new \o b \in Seq(S) /\ Len(new \o b) = Len(new) + Len(b)
        /\ \A i \in 1 .. Len(new) + Len(b) :
             (new \o b)[i] = IF i <= Len(new) THEN new[i] ELSE b[i - Len(new)]
    BY <2>4, ConcatProperties
  <2> DEFINE c == new \o a
             d == new \o b
             e == Append(c, n)
  <2>8. /\ e \in Seq(S) /\ Len(e) = Len(c) + 1 /\ e[Len(c) + 1] = n
        /\ \A i \in 1 .. Len(c) : e[i] = c[i]
    BY <2>6, AppendProperties
  <2>9. Len(d) = Len(e)
    BY <2>3, <2>4, <2>6, <2>7, <2>8, <1>1, <1>2
  <2>10. ASSUME NEW i \in 1 .. Len(d)
         PROVE  d[i] = e[i]
    <3>1. CASE i <= Len(new)
      BY <3>1, <2>3, <2>4, <2>6, <2>7, <2>8, <1>1, <1>2, <2>1
    <3>2. CASE i > Len(new) /\ i <= Len(c)
      <4>1. i - Len(new) \in 1 .. Len(p) - L
        BY <3>2, <2>3, <2>6, <1>2
      <4>2. L + (i - Len(new)) \in 1 .. Len(p)
        BY <4>1, <1>2
      <4>3. a[i - Len(new)] = p[L + (i - Len(new))]
        BY <4>1, <2>3
      <4>4. b[i - Len(new)] = q[L + (i - Len(new))]
        BY <4>1, <2>4, <1>1, <1>2
      <4>5. b[i - Len(new)] = a[i - Len(new)]
        BY <4>2, <4>3, <4>4, <1>1
      <4>6. d[i] = b[i - Len(new)]
        BY <3>2, <2>7, <2>9, <2>8, <1>2
      <4>7. i \in 1 .. Len(c) /\ c[i] = a[i - Len(new)]
        BY <3>2, <2>3, <2>6, <1>2
      <4> QED BY <4>5, <4>6, <4>7, <2>8
    <3>3. CASE i = Len(c) + 1
      <4>1. i - Len(new) = Len(q) - L /\ i - Len(new) \in 1 .. Len(q) - L
        BY <3>3, <2>1, <2>3, <2>6, <1>1, <1>2
      <4>2. L + (i - Len(new)) = Len(p) + 1
        BY <4>1, <1>1, <1>2
      <4>3. b[i - Len(new)] = n
        BY <4>1, <4>2, <2>4, <1>1
      <4>4. d[i] = b[i - Len(new)]
        BY <3>3, <4>1, <2>4, <2>7, <1>1, <1>2
      <4> QED BY <3>3, <4>3, <4>4, <2>8
    <3>4. Len(c) \in Nat /\ i \in 1 .. Len(c) + 1
      BY <2>1, <2>3, <2>6, <2>8, <2>9, <1>2
    <3>5. i <= Len(new) \/ (i > Len(new) /\ i <= Len(c)) \/ i = Len(c) + 1
      BY <3>4, <1>2
    <3> QED BY <3>1, <3>2, <3>3, <3>5
  <2>11. d = e
    BY <2>7, <2>8, <2>9, <2>10, SeqEqual
  <2> QED BY <2>5, <2>11 DEF q
<1>5. CASE ~IsPrefix(old, p)
  <2>1. ~IsPrefix(old, q)
    <3> SUFFICES ASSUME IsPrefix(old, q)
                 PROVE  FALSE
      OBVIOUS
    <3>1. L <= Len(p) + 1 /\ \A i \in 1 .. L : old[i] = q[i]
      BY <1>1, PrefixIs
    <3>2. CASE L = Len(p) + 1
      BY <3>1, <3>2, <1>1, <1>3, SeqEqual
    <3>3. CASE L <= Len(p)
      BY <3>1, <3>3, <1>1, <1>2, <1>5, PrefixIs
    <3> QED BY <3>1, <3>2, <3>3, <1>2
  <2> QED BY <1>5, <2>1 DEF Rewrite, q
<1> QED
  BY <1>4, <1>5

--------------------------------------------------------------------------------
(***************************************************************************)
(* What requests prepare.                                                  *)
(***************************************************************************)
LEMMA AfterIs ==
  ASSUME NEW w
  PROVE  /\ DOMAIN ParentsAfter(w) = (DOMAIN w.parent \cup Live) \ w.gone
         /\ \A x \in (DOMAIN w.parent \cup Live) \ w.gone :
              ParentsAfter(w)[x] = IF x \in DOMAIN w.parent THEN w.parent[x] ELSE parent[x]
         /\ DOMAIN NamesAfter(w) = (DOMAIN w.name \cup DOMAIN name) \ w.gone
         /\ \A x \in (DOMAIN w.name \cup DOMAIN name) \ w.gone :
              NamesAfter(w)[x] = IF x \in DOMAIN w.name THEN w.name[x] ELSE name[x]
         /\ DOMAIN FiledAfter(w) = (DOMAIN w.filed \cup DOMAIN filed) \ w.gone
         /\ \A x \in (DOMAIN w.filed \cup DOMAIN filed) \ w.gone :
              FiledAfter(w)[x] = IF x \in DOMAIN w.filed THEN w.filed[x] ELSE filed[x]
BY DEF ParentsAfter, NamesAfter, FiledAfter, Without, Over, Restrict, Live

LEMMA NothingAfter ==
  ASSUME NEW g, NEW S, g \in [DOMAIN g -> S]
  PROVE  Without(Over(Empty, g), {}) = g
<1>1. DOMAIN Empty = {}
  BY DEF Empty
<1>2. Without(Over(Empty, g), {}) = [x \in DOMAIN g |-> g[x]]
  BY <1>1 DEF Without, Over, Restrict
<1> QED
  BY <1>2

\* Writing only what changes leaves what writing everything would.
LEMMA ChangedAfter ==
  ASSUME NEW N, NEW g
  PROVE  /\ DOMAIN Changed(N, g) \subseteq DOMAIN g
         /\ \A x \in DOMAIN g : (IF x \in DOMAIN Changed(N, g) THEN Changed(N, g)[x] ELSE g[x]) = N[x]
         /\ \A x \in DOMAIN Changed(N, g) : Changed(N, g)[x] = N[x]
         /\ Changed(N, g) = [x \in DOMAIN Changed(N, g) |-> Changed(N, g)[x]]
BY DEF Changed, Restrict

\* The rows, where a request writes nothing to them.
LEMMA RowsStay ==
  ASSUME RowsInv, NEW w, w.gone = {}
  PROVE  /\ w.parent = Empty => ParentsAfter(w) = parent
         /\ w.name = Empty => NamesAfter(w) = name
         /\ w.filed = Empty => FiledAfter(w) = filed
<1>1. Without(Over(Empty, parent), {}) = parent
  BY NothingAfter DEF RowsInv
<1>2. DOMAIN name = Live /\ name \in [DOMAIN name -> Seg]
  BY DEF RowsInv
<1>3. Without(Over(Empty, name), {}) = name
  BY <1>2, NothingAfter
<1>4. Without(Over(Empty, filed), {}) = filed
  BY NothingAfter DEF RowsInv
<1> QED
  BY <1>1, <1>3, <1>4 DEF ParentsAfter, NamesAfter, FiledAfter

Typed == Stable /\ RowsInv /\ load \in Load

LEMMA EmptyIs ==
  /\ Empty \in [DOMAIN Empty -> Seq(Seg)] /\ Empty \in [DOMAIN Empty -> Seq(Word)]
  /\ Empty \in [DOMAIN Empty -> Seg] /\ DOMAIN Empty = {}
BY DEF Empty

LEMMA CreateFolderIs ==
  ASSUME Typed, NEW n \in load.names, NEW at \in Homes, NEW w \in CreateFolder(n, at)
  PROVE  Form(w) /\ Adds(w)
<1>1. at \in Seq(Seg) /\ Normal(at) = at
  BY HomesAreNormal, NormalIs DEF Typed
<1>2. Stored(n) \in Seg
  BY DEF Typed, Load, Stored, Seg
<1>3. PICK f \in (Folders \cap load.ids) \ ever :
        w = [Writes EXCEPT !.parent = Row(f, at), !.name = Row(f, Stored(n)), !.fresh = {f}]
  BY <1>1 DEF CreateFolder
<1>4. /\ w.parent = Row(f, at) /\ w.name = Row(f, Stored(n)) /\ w.filed = Empty
      /\ w.fresh = {f} /\ w.gone = {}
  BY <1>3 DEF Writes
<1>5. /\ DOMAIN w.parent = {f} /\ w.parent[f] = at /\ w.parent \in [{f} -> Seq(Seg)]
      /\ DOMAIN w.name = {f} /\ w.name \in [{f} -> Seg]
  BY <1>1, <1>2, <1>4 DEF Row
<1>6. Form(w)
  BY <1>4, <1>5, EmptyIs DEF Form
<1>7. f \in Folders \ Live
  BY DEF Typed, RowsInv
<1>8. FiledAfter(w) = filed
  BY <1>4, RowsStay DEF Typed
<1>9. DOMAIN ParentsAfter(w) = Live \cup {f} /\ ParentsAfter(w)[f] = at
  BY <1>4, <1>5, AfterIs
<1>10. \A g \in Live : ParentsAfter(w)[g] = parent[g]
  BY <1>4, <1>5, <1>7, AfterIs
<1>11. \A g \in Live : NamesAfter(w)[g] = name[g]
  <2>1. DOMAIN name = Live
    BY DEF Typed, RowsInv
  <2> QED BY <2>1, <1>4, <1>5, <1>7, AfterIs
<1> QED
  BY <1>6, <1>7, <1>8, <1>9, <1>10, <1>11 DEF Adds

\* A collection filed anywhere, or filed again at a path that is shown.
LEMMA FilesIs ==
  ASSUME Typed, NEW k \in Collections, NEW p \in Seq(Word), NEW w,
         w.filed = Row(k, p), w.parent = Empty, w.name = Empty, w.gone = {},
         k \in DOMAIN filed => w.moves = k /\ p \in Homes
  PROVE  Form(w) /\ Files(w)
<1>1. DOMAIN w.filed = {k} /\ w.filed \in [{k} -> Seq(Word)]
  BY DEF Row
<1>2. Form(w)
  BY <1>1, EmptyIs DEF Form
<1>3. FiledAfter(w) = Over(Row(k, p), filed)
  BY DEF FiledAfter, Without, Over, Restrict
<1>4. ParentsAfter(w) = parent /\ NamesAfter(w) = name
  BY RowsStay DEF Typed
<1> QED
  BY <1>2, <1>3, <1>4 DEF Files

LEMMA CreateCollectionIs ==
  ASSUME Typed, NEW at \in Homes, NEW w \in CreateCollection(at)
  PROVE  Form(w) /\ Files(w)
<1>1. Normal(at) = at /\ at \in Seq(Word)
  BY HomesAreNormal, NormalIs, SegsAreWords DEF Typed
<1>2. PICK k \in (Collections \cap load.ids) \ ever : w = [Writes EXCEPT !.filed = Row(k, at), !.fresh = {k}]
  BY <1>1 DEF CreateCollection
<1>3. w.filed = Row(k, at) /\ w.parent = Empty /\ w.name = Empty /\ w.gone = {}
  BY <1>2 DEF Writes
<1>4. k \notin DOMAIN filed
  BY DEF Typed, RowsInv
<1> QED
  BY <1>1, <1>3, <1>4, FilesIs

LEMMA PostCollectionIs ==
  ASSUME Typed, NEW at \in Anywhere, NEW w \in PostCollection(at)
  PROVE  Form(w) /\ Files(w)
<1>1. at \in Seq(Word)
  <2>1. Homes \subseteq Seq(Word)
    BY HomesAreNormal, SegsAreWords DEF Typed
  <2>2. ASSUME NEW p \in Homes, NEW n \in load.names
        PROVE  Append(p, n) \in Seq(Word)
    <3>1. n \in Word
      BY DEF Typed, Load, Word
    <3> QED BY <2>1, <3>1, AppendProperties
  <2> QED BY <2>1, <2>2 DEF Anywhere
<1>2. PICK k \in (Collections \cap load.ids) \ ever : w = [Writes EXCEPT !.filed = Row(k, at), !.fresh = {k}]
  BY DEF PostCollection
<1>3. w.filed = Row(k, at) /\ w.parent = Empty /\ w.name = Empty /\ w.gone = {}
  BY <1>2 DEF Writes
<1>4. k \notin DOMAIN filed
  BY DEF Typed, RowsInv
<1> QED
  BY <1>1, <1>3, <1>4, FilesIs

LEMMA MoveCollectionIs ==
  ASSUME Typed, NEW k \in DOMAIN filed, NEW at \in Homes, NEW w \in MoveCollection(k, at)
  PROVE  Form(w) /\ Files(w)
<1>1. w = [Writes EXCEPT !.filed = Row(k, at), !.moves = k]
  BY DEF MoveCollection
<1>2. w.filed = Row(k, at) /\ w.parent = Empty /\ w.name = Empty /\ w.gone = {} /\ w.moves = k
  BY <1>1 DEF Writes
<1>3. k \in Collections /\ at \in Seq(Word)
  BY HomesAreNormal, SegsAreWords DEF Typed, RowsInv
<1> QED
  BY <1>2, <1>3, FilesIs

\* Rows without one that is not among them.
LEMMA WithoutOther ==
  ASSUME NEW g, NEW S, g \in [DOMAIN g -> S], NEW x, x \notin DOMAIN g
  PROVE  Without(Over(Empty, g), {x}) = g
<1>1. DOMAIN Empty = {}
  BY DEF Empty
<1>2. Without(Over(Empty, g), {x}) = [y \in DOMAIN g |-> g[y]]
  BY <1>1 DEF Without, Over, Restrict
<1> QED
  BY <1>2

LEMMA WithoutOne ==
  ASSUME NEW g, NEW x
  PROVE  Without(Over(Empty, g), {x}) = Without(g, {x})
<1>1. DOMAIN Empty = {}
  BY DEF Empty
<1> QED
  BY <1>1 DEF Without, Over, Restrict

LEMMA DeleteCollectionIs ==
  ASSUME Typed, NEW k \in DOMAIN filed, NEW w \in DeleteCollection(k)
  PROVE  Form(w) /\ Drops(w)
<1>1. /\ w.gone = {k} /\ w.parent = Empty /\ w.name = Empty /\ w.filed = Empty
      /\ w.fresh = {}
  BY DEF DeleteCollection, Writes
<1>2. Form(w)
  BY <1>1, EmptyIs DEF Form
<1>3. k \notin Live /\ k \notin DOMAIN name
  BY IdentityAssumption DEF Typed, RowsInv
<1>4. ParentsAfter(w) = parent
  BY <1>1, <1>3, WithoutOther DEF ParentsAfter, Typed, RowsInv, Live
<1>5. NamesAfter(w) = name
  <2>1. name \in [DOMAIN name -> Seg]
    BY DEF Typed, RowsInv
  <2> QED BY <2>1, <1>1, <1>3, WithoutOther DEF NamesAfter
<1>6. FiledAfter(w) = Without(filed, {k})
  BY <1>1, WithoutOne DEF FiledAfter
<1> QED
  BY <1>2, <1>4, <1>5, <1>6 DEF Drops

LEMMA DeleteFolderIs ==
  ASSUME Typed, NEW path \in Paths, NEW w \in DeleteFolder(path)
  PROVE  Form(w) /\ Removes(w)
<1>1. path \in Seq(Seg)
  BY HomesAreNormal DEF Homes, Typed
<1>2. ~Occupied(path)
  BY DEF DeleteFolder
<1>3. PICK f \in Found(path) : w = [Writes EXCEPT !.gone = {f}]
  BY <1>2 DEF DeleteFolder
<1>4. f \in Live /\ FullPath(f) = path
  BY <1>1, FoundIs DEF InFolder, Typed
<1>5. /\ w.gone = {f} /\ w.parent = Empty /\ w.name = Empty /\ w.filed = Empty
      /\ w.fresh = {}
  BY <1>3 DEF Writes
<1>6. Form(w)
  BY <1>5, EmptyIs DEF Form
<1>7. f \notin DOMAIN filed
  BY <1>4, IdentityAssumption DEF Typed, RowsInv
<1>8. FiledAfter(w) = filed
  BY <1>5, <1>7, WithoutOther DEF FiledAfter, Typed, RowsInv
<1>9. ParentsAfter(w) = Without(parent, {f}) /\ NamesAfter(w) = Without(name, {f})
  BY <1>5, WithoutOne DEF ParentsAfter, NamesAfter
<1> QED
  BY <1>2, <1>4, <1>6, <1>8, <1>9 DEF Removes, Occupied

\* The rows after a request that neither adds nor deletes any.
LEMMA SameRows ==
  ASSUME NEW w, w.gone = {}, DOMAIN w.parent \subseteq Live, DOMAIN w.filed \subseteq DOMAIN filed
  PROVE  /\ DOMAIN ParentsAfter(w) = Live /\ DOMAIN FiledAfter(w) = DOMAIN filed
         /\ \A g \in Live : ParentsAfter(w)[g] = IF g \in DOMAIN w.parent THEN w.parent[g] ELSE parent[g]
         /\ \A k \in DOMAIN filed : FiledAfter(w)[k] = IF k \in DOMAIN w.filed THEN w.filed[k] ELSE filed[k]
<1>1. (DOMAIN w.parent \cup Live) \ w.gone = Live /\ (DOMAIN w.filed \cup DOMAIN filed) \ w.gone = DOMAIN filed
  OBVIOUS
<1> QED
  BY <1>1, AfterIs

\* What a rewriting of paths prepares.
LEMMA RewrittenIs ==
  ASSUME Typed, NEW f \in Live, NEW new \in Seq(Seg)
  PROVE  LET w == Rewritten(f, FullPath(f), new) IN
         /\ Form(w)
         /\ w.name = Empty /\ w.fresh = {} /\ w.gone = {}
         /\ DOMAIN w.parent \subseteq Live /\ DOMAIN w.filed \subseteq DOMAIN filed
         /\ \A g \in Live : (IF g \in DOMAIN w.parent THEN w.parent[g] ELSE parent[g])
                            = IF g = f THEN parent[f] ELSE Rewrite(parent[g], FullPath(f), new)
         /\ \A k \in DOMAIN filed : (IF k \in DOMAIN w.filed THEN w.filed[k] ELSE filed[k])
                                    = Rewrite(filed[k], FullPath(f), new)
<1> DEFINE old == FullPath(f)
           w == Rewritten(f, old, new)
           P == [g \in Live |-> IF g = f THEN parent[f] ELSE Rewrite(parent[g], old, new)]
           F == [k \in DOMAIN filed |-> Rewrite(filed[k], old, new)]
<1>1. /\ w.parent = Changed(P, parent) /\ w.filed = Changed(F, filed)
      /\ w.name = Empty /\ w.fresh = {} /\ w.gone = {}
  BY DEF Rewritten, Writes
<1>2. old \in Seq(Seg)
  BY PathIs DEF Typed
<1>3. \A g \in Live : P[g] \in Seq(Seg)
  BY <1>2, RewriteIn DEF Typed, RowsInv
<1>4. \A k \in DOMAIN filed : F[k] \in Seq(Word)
  BY <1>2, RewriteIn, SegsAreWords DEF Typed, RowsInv
<1>5. /\ DOMAIN w.parent \subseteq Live
      /\ \A g \in Live : (IF g \in DOMAIN w.parent THEN w.parent[g] ELSE parent[g]) = P[g]
      /\ w.parent \in [DOMAIN w.parent -> Seq(Seg)]
  <2> HIDE DEF P
  <2>1. DOMAIN w.parent \subseteq Live
    BY <1>1, ChangedAfter DEF Live
  <2>2. \A g \in Live : (IF g \in DOMAIN w.parent THEN w.parent[g] ELSE parent[g]) = P[g]
    BY <1>1, ChangedAfter DEF Live
  <2>3. /\ \A g \in DOMAIN w.parent : w.parent[g] = P[g]
        /\ w.parent = [g \in DOMAIN w.parent |-> w.parent[g]]
    BY <1>1, ChangedAfter
  <2> QED BY <2>1, <2>2, <2>3, <1>3
<1>6. /\ DOMAIN w.filed \subseteq DOMAIN filed
      /\ \A k \in DOMAIN filed : (IF k \in DOMAIN w.filed THEN w.filed[k] ELSE filed[k]) = F[k]
      /\ w.filed \in [DOMAIN w.filed -> Seq(Word)]
  <2> HIDE DEF F
  <2>1. DOMAIN w.filed \subseteq DOMAIN filed
    BY <1>1, ChangedAfter
  <2>2. \A k \in DOMAIN filed : (IF k \in DOMAIN w.filed THEN w.filed[k] ELSE filed[k]) = F[k]
    BY <1>1, ChangedAfter
  <2>3. /\ \A k \in DOMAIN w.filed : w.filed[k] = F[k]
        /\ w.filed = [k \in DOMAIN w.filed |-> w.filed[k]]
    BY <1>1, ChangedAfter
  <2> QED BY <2>1, <2>2, <2>3, <1>4
<1> HIDE DEF w
<1>7. Form(w)
  BY <1>1, <1>5, <1>6, EmptyIs DEF Form, Typed, RowsInv
<1> QED
  BY <1>1, <1>5, <1>6, <1>7 DEF w

LEMMA MoveFolderIs ==
  ASSUME Typed, NEW path \in Paths, NEW dest \in Homes, NEW w \in MoveFolder(path, dest)
  PROVE  Form(w) /\ Moves(w)
<1>1. path \in Seq(Seg) /\ dest \in Seq(Seg)
  BY HomesAreNormal DEF Homes, Typed
<1>2. PICK f \in Found(path) :
        /\ MayMove(path, dest)
        /\ w = [Rewritten(f, path, Join(dest, name[f])) EXCEPT !.parent = Over(Row(f, dest), @), !.moves = f]
  BY DEF MoveFolder
<1>3. f \in Live /\ FullPath(f) = path
  BY <1>1, FoundIs DEF InFolder, Typed
<1>4. name[f] \in Seg
  BY <1>3 DEF Typed, RowsInv
<1> DEFINE new == Append(dest, name[f])
<1>5. Join(dest, name[f]) = new /\ new \in Seq(Seg)
  BY <1>1, <1>4, NormalIs, SegStays, AppendProperties DEF Join, Typed
<1> DEFINE v == Rewritten(f, path, new)
<1>6. /\ Form(v)
      /\ v.name = Empty /\ v.fresh = {} /\ v.gone = {}
      /\ DOMAIN v.parent \subseteq Live /\ DOMAIN v.filed \subseteq DOMAIN filed
      /\ \A g \in Live : (IF g \in DOMAIN v.parent THEN v.parent[g] ELSE parent[g])
                         = IF g = f THEN parent[f] ELSE Rewrite(parent[g], path, new)
      /\ \A k \in DOMAIN filed : (IF k \in DOMAIN v.filed THEN v.filed[k] ELSE filed[k])
                                 = Rewrite(filed[k], path, new)
  BY <1>3, <1>5, RewrittenIs
<1>7. /\ w.parent = Over(Row(f, dest), v.parent) /\ w.name = v.name /\ w.filed = v.filed
      /\ w.fresh = v.fresh /\ w.gone = v.gone /\ w.moves = f
  BY <1>2, <1>5 DEF Rewritten, Writes
<1> HIDE DEF v
<1>8. /\ DOMAIN w.parent = {f} \cup DOMAIN v.parent
      /\ w.parent[f] = dest
      /\ \A g \in DOMAIN v.parent \ {f} : w.parent[g] = v.parent[g]
      /\ w.parent = [g \in DOMAIN w.parent |-> w.parent[g]]
  BY <1>7 DEF Over, Row
<1>9. Form(w)
  <2>1. w.parent \in [DOMAIN w.parent -> Seq(Seg)]
    BY <1>1, <1>6, <1>8 DEF Form
  <2>2. DOMAIN w.parent \subseteq Folders
    BY <1>3, <1>6, <1>8 DEF Typed, RowsInv
  <2> QED BY <2>1, <2>2, <1>6, <1>7, EmptyIs DEF Form
<1>10. w.gone = {} /\ DOMAIN w.parent \subseteq Live /\ DOMAIN w.filed \subseteq DOMAIN filed
  BY <1>3, <1>6, <1>7, <1>8
<1>11. /\ DOMAIN ParentsAfter(w) = Live /\ DOMAIN FiledAfter(w) = DOMAIN filed
       /\ \A g \in Live : ParentsAfter(w)[g] = IF g \in DOMAIN w.parent THEN w.parent[g] ELSE parent[g]
       /\ \A k \in DOMAIN filed : FiledAfter(w)[k] = IF k \in DOMAIN w.filed THEN w.filed[k] ELSE filed[k]
  BY <1>10, SameRows
<1>12. NamesAfter(w) = name
  BY <1>6, <1>7, RowsStay DEF Typed
<1>13. /\ ParentsAfter(w)[f] = dest
       /\ \A g \in Live \ {f} : ParentsAfter(w)[g] = Rewrite(parent[g], path, new)
  BY <1>3, <1>6, <1>8, <1>11
<1>14. \A k \in DOMAIN filed : FiledAfter(w)[k] = Rewrite(filed[k], path, new)
  BY <1>6, <1>7, <1>11
<1>15. ~Sinks(f, dest)
  BY <1>2, <1>3 DEF MayMove, Sinks
<1>16. new = Append(ParentsAfter(w)[f], NamesAfter(w)[f])
  BY <1>12, <1>13
<1> HIDE DEF new
<1>17. \A g \in Live \ {f} : /\ ParentsAfter(w)[g] = Rewrite(parent[g], FullPath(f), new)
                            /\ NamesAfter(w)[g] = name[g]
  BY <1>3, <1>12, <1>13
<1>18. \A k \in DOMAIN filed : FiledAfter(w)[k] = Rewrite(filed[k], FullPath(f), new)
  BY <1>3, <1>14
<1>19. w.moves = f /\ ParentsAfter(w)[f] \in Homes /\ ~Sinks(f, ParentsAfter(w)[f])
  BY <1>7, <1>13, <1>15
<1>20. Moves(w)
  BY <1>3, <1>5, <1>11, <1>16, <1>17, <1>18, <1>19 DEF Moves
<1> QED
  BY <1>9, <1>20

LEMMA RenameFolderIs ==
  ASSUME Typed, NEW path \in Paths, NEW n \in load.names, NEW w \in RenameFolder(path, n)
  PROVE  Form(w) /\ Moves(w)
<1>1. path \in Seq(Seg) /\ Slug[n] \in Seg
  BY HomesAreNormal DEF Homes, Typed, Load, Seg
<1>2. PICK f \in Found(path) :
        w = [Rewritten(f, path, Join(parent[f], Slug[n])) EXCEPT !.name = Row(f, Slug[n])]
  BY DEF RenameFolder
<1>3. f \in Live /\ FullPath(f) = path
  BY <1>1, FoundIs DEF InFolder, Typed
<1>4. parent[f] \in Seq(Seg)
  BY <1>3 DEF Typed, RowsInv
<1> DEFINE new == Append(parent[f], Slug[n])
<1>5. Join(parent[f], Slug[n]) = new /\ new \in Seq(Seg)
  BY <1>1, <1>4, NormalIs, SegStays, AppendProperties DEF Join, Typed
<1> HIDE DEF new
<1> DEFINE v == Rewritten(f, path, new)
<1>6. /\ Form(v)
      /\ v.name = Empty /\ v.fresh = {} /\ v.gone = {}
      /\ DOMAIN v.parent \subseteq Live /\ DOMAIN v.filed \subseteq DOMAIN filed
      /\ \A g \in Live : (IF g \in DOMAIN v.parent THEN v.parent[g] ELSE parent[g])
                         = IF g = f THEN parent[f] ELSE Rewrite(parent[g], path, new)
      /\ \A k \in DOMAIN filed : (IF k \in DOMAIN v.filed THEN v.filed[k] ELSE filed[k])
                                 = Rewrite(filed[k], path, new)
  BY <1>3, <1>5, RewrittenIs
<1>7. /\ w.parent = v.parent /\ w.name = Row(f, Slug[n]) /\ w.filed = v.filed
      /\ w.fresh = v.fresh /\ w.gone = v.gone
  BY <1>2, <1>5 DEF Rewritten, Writes
<1> HIDE DEF v
<1>8. DOMAIN w.name = {f} /\ w.name[f] = Slug[n] /\ w.name \in [{f} -> Seg]
  BY <1>1, <1>7 DEF Row
<1>9. Form(w)
  BY <1>3, <1>6, <1>7, <1>8 DEF Form, Typed, RowsInv
<1>10. w.gone = {} /\ DOMAIN w.parent \subseteq Live /\ DOMAIN w.filed \subseteq DOMAIN filed
  BY <1>6, <1>7
<1>11. /\ DOMAIN ParentsAfter(w) = Live /\ DOMAIN FiledAfter(w) = DOMAIN filed
       /\ \A g \in Live : ParentsAfter(w)[g] = IF g \in DOMAIN w.parent THEN w.parent[g] ELSE parent[g]
       /\ \A k \in DOMAIN filed : FiledAfter(w)[k] = IF k \in DOMAIN w.filed THEN w.filed[k] ELSE filed[k]
  BY <1>10, SameRows
<1>12. DOMAIN name = Live
  BY DEF Typed, RowsInv
<1>13. NamesAfter(w)[f] = Slug[n] /\ \A g \in Live \ {f} : NamesAfter(w)[g] = name[g]
  BY <1>3, <1>8, <1>10, <1>12, AfterIs
<1>14. /\ ParentsAfter(w)[f] = parent[f]
       /\ \A g \in Live \ {f} : ParentsAfter(w)[g] = Rewrite(parent[g], path, new)
  BY <1>3, <1>6, <1>7, <1>11
<1>15. \A k \in DOMAIN filed : FiledAfter(w)[k] = Rewrite(filed[k], path, new)
  BY <1>6, <1>7, <1>11
<1>16. new = Append(ParentsAfter(w)[f], NamesAfter(w)[f])
  BY <1>13, <1>14 DEF new
<1>17. Moves(w)
  BY <1>3, <1>5, <1>11, <1>13, <1>14, <1>15, <1>16 DEF Moves
<1> QED
  BY <1>9, <1>17

--------------------------------------------------------------------------------
(***************************************************************************)
(* Commits.                                                                *)
(***************************************************************************)
Written(w) == parent' = ParentsAfter(w) /\ name' = NamesAfter(w) /\ filed' = FiledAfter(w)

LEMMA RowsAfter ==
  ASSUME RowsInv, NEW w, Form(w), w.fresh \subseteq ever, MayCommit(w), Written(w), ever' = ever
  PROVE  RowsInv' /\ UniqueInv'
<1>1. /\ (DOMAIN w.parent \cup DOMAIN w.name) \ w.fresh \subseteq Live
      /\ DOMAIN w.filed \ w.fresh \subseteq DOMAIN filed
  BY DEF MayCommit, RowsExist
<1>2. DOMAIN name = Live
  BY DEF RowsInv
<1>3. /\ Live' = (DOMAIN w.parent \cup Live) \ w.gone
      /\ DOMAIN name' = (DOMAIN w.name \cup Live) \ w.gone
      /\ DOMAIN filed' = (DOMAIN w.filed \cup DOMAIN filed) \ w.gone
  BY <1>2, AfterIs DEF Written, Live
<1>4. DOMAIN name' = Live'
  BY <1>1, <1>3 DEF Form
<1>5. /\ parent' = [x \in Live' |-> parent'[x]]
      /\ name' = [x \in DOMAIN name' |-> name'[x]]
      /\ filed' = [x \in DOMAIN filed' |-> filed'[x]]
  BY DEF Written, ParentsAfter, NamesAfter, FiledAfter, Without, Restrict, Live
<1>6. ASSUME NEW x \in Live'
      PROVE  parent'[x] \in Seq(Seg)
  <2>1. parent'[x] = IF x \in DOMAIN w.parent THEN w.parent[x] ELSE parent[x]
    BY <1>3, AfterIs DEF Written
  <2>2. x \notin DOMAIN w.parent => x \in Live
    BY <1>3
  <2>3. x \in DOMAIN w.parent => w.parent[x] \in Seq(Seg)
    BY DEF Form
  <2> QED BY <2>1, <2>2, <2>3 DEF RowsInv
<1>7. \A x \in DOMAIN name' : name'[x] \in Seg
  BY <1>2, <1>3, AfterIs DEF Written, Form, RowsInv
<1>8. ASSUME NEW x \in DOMAIN filed'
      PROVE  filed'[x] \in Seq(Word)
  <2>1. filed'[x] = IF x \in DOMAIN w.filed THEN w.filed[x] ELSE filed[x]
    BY <1>3, AfterIs DEF Written
  <2>2. x \notin DOMAIN w.filed => x \in DOMAIN filed
    BY <1>3
  <2>3. x \in DOMAIN w.filed => w.filed[x] \in Seq(Word)
    BY DEF Form
  <2> QED BY <2>1, <2>2, <2>3 DEF RowsInv
<1>9. Live' \subseteq Folders \cap ever' /\ DOMAIN filed' \subseteq Collections \cap ever'
  BY <1>1, <1>3 DEF Form, RowsInv
<1>10. RowsInv'
  BY <1>4, <1>5, <1>6, <1>7, <1>8, <1>9 DEF RowsInv
<1>11. UniqueInv'
  BY DEF UniqueInv, MayCommit, Written, Live
<1> QED
  BY <1>10, <1>11

\* The path of a folder after a step.
LEMMA NextPathIs ==
  ASSUME Stable, RowsInv', NEW f \in Live'
  PROVE  FullPath(f)' = Append(parent'[f], name'[f])
<1>1. parent'[f] \in Seq(Seg) /\ name'[f] \in Seg
  BY DEF RowsInv
<1>2. Normal(parent'[f]) = parent'[f]
  BY <1>1, NormalIs
<1>3. Slug[name'[f]] = name'[f]
  BY <1>1, SegStays
<1> QED
  BY <1>2, <1>3 DEF FullPath, Join

\* p and q are the paths, before and after a step, of one place: of the root or
\* of one folder.
SamePlace(p, q) ==
  \/ p = <<>> /\ q = <<>>
  \/ \E h \in Live \cap Live' : p = FullPath(h) /\ q = FullPath(h)'

\* What was in the tree and was not moved itself is where it was; what was moved
\* is somewhere in it, and so is a folder that is new.
Placed(w) ==
  /\ \A x \in Live' :
       \/ x \in Live /\ SamePlace(parent[x], parent'[x])
       \/ (x \in Live => w.moves = x) /\ parent'[x] \in Homes'
  /\ \A k \in DOMAIN filed' \cap DOMAIN filed :
       \/ filed[k] \in Homes => SamePlace(filed[k], filed'[k])
       \/ w.moves = k /\ filed'[k] \in Homes'

LEMMA NextHomes ==
  /\ <<>> \in Homes'
  /\ \A f \in Live' : FullPath(f)' \in Homes'
  /\ \A p, q : SamePlace(p, q) => q \in Homes'
<1>1. Homes' = {<<>>} \cup {FullPath(f)' : f \in Live'}
  BY DEF Homes, Paths
<1> QED
  BY <1>1 DEF SamePlace

LEMMA HomeIs == \A p \in Homes : p = <<>> \/ \E h \in Live : p = FullPath(h)
BY DEF Homes, Paths

\* When the paths of all folders stay, so do all places.
LEMMA PlacesStay ==
  ASSUME \A h \in Live : h \in Live' /\ FullPath(h)' = FullPath(h), NEW p \in Homes
  PROVE  SamePlace(p, p)
BY HomeIs DEF SamePlace

Context(w) == Stable /\ RowsInv /\ UniqueInv /\ Whole /\ Written(w) /\ RowsInv'

LEMMA SamePaths ==
  ASSUME NEW w, Context(w), NEW h \in Live, h \in Live', parent'[h] = parent[h], name'[h] = name[h]
  PROVE  FullPath(h)' = FullPath(h)
BY PathIs, NextPathIs DEF Context

LEMMA AddsPlaced ==
  ASSUME NEW w, Context(w), Adds(w)
  PROVE  Placed(w)
<1>1. PICK f \in Folders \ Live :
        /\ DOMAIN ParentsAfter(w) = Live \cup {f}
        /\ ParentsAfter(w)[f] \in Homes
        /\ \A g \in Live : ParentsAfter(w)[g] = parent[g] /\ NamesAfter(w)[g] = name[g]
        /\ FiledAfter(w) = filed
  BY DEF Adds
<1>2. /\ Live' = Live \cup {f} /\ parent'[f] \in Homes /\ filed' = filed
      /\ \A g \in Live : parent'[g] = parent[g] /\ name'[g] = name[g]
  BY <1>1 DEF Context, Written, Live
<1>3. \A h \in Live : h \in Live' /\ FullPath(h)' = FullPath(h)
  BY <1>2, SamePaths
<1>4. \A p \in Homes : SamePlace(p, p) /\ p \in Homes'
  BY <1>3, PlacesStay, NextHomes
<1>5. ASSUME NEW x \in Live'
      PROVE  \/ x \in Live /\ SamePlace(parent[x], parent'[x])
             \/ (x \in Live => w.moves = x) /\ parent'[x] \in Homes'
  BY <1>1, <1>2, <1>4 DEF Context, Whole
<1>6. \A k \in DOMAIN filed : filed[k] \in Homes => SamePlace(filed[k], filed'[k])
  BY <1>2, <1>4
<1> QED
  BY <1>5, <1>6 DEF Placed

LEMMA FilesPlaced ==
  ASSUME NEW w, Context(w), Files(w)
  PROVE  Placed(w)
<1>1. PICK k \in Collections, p \in Seq(Word) :
        /\ ParentsAfter(w) = parent /\ NamesAfter(w) = name
        /\ FiledAfter(w) = Over(Row(k, p), filed)
        /\ k \in DOMAIN filed => w.moves = k /\ p \in Homes
  BY DEF Files
<1>2. parent' = parent /\ name' = name /\ filed' = Over(Row(k, p), filed)
  BY <1>1 DEF Context, Written
<1>3. /\ DOMAIN filed' = {k} \cup DOMAIN filed /\ filed'[k] = p
      /\ \A l \in DOMAIN filed \ {k} : filed'[l] = filed[l]
  BY <1>2 DEF Over, Row
<1>4. \A h \in Live : h \in Live' /\ FullPath(h)' = FullPath(h)
  BY <1>2 DEF FullPath, Live
<1>5. \A q \in Homes : SamePlace(q, q) /\ q \in Homes'
  BY <1>4, PlacesStay, NextHomes
<1>6. ASSUME NEW x \in Live'
      PROVE  x \in Live /\ SamePlace(parent[x], parent'[x])
  BY <1>2, <1>5 DEF Context, Whole, Live
<1>7. ASSUME NEW l \in DOMAIN filed
      PROVE  \/ filed[l] \in Homes => SamePlace(filed[l], filed'[l])
             \/ w.moves = l /\ filed'[l] \in Homes'
  BY <1>1, <1>3, <1>5
<1> QED
  BY <1>6, <1>7 DEF Placed

LEMMA DropsPlaced ==
  ASSUME NEW w, Context(w), Drops(w)
  PROVE  Placed(w)
<1>1. PICK k \in DOMAIN filed :
        ParentsAfter(w) = parent /\ NamesAfter(w) = name /\ FiledAfter(w) = Without(filed, {k})
  BY DEF Drops
<1>2. parent' = parent /\ name' = name /\ filed' = Without(filed, {k})
  BY <1>1 DEF Context, Written
<1>3. DOMAIN filed' \subseteq DOMAIN filed /\ \A l \in DOMAIN filed' : filed'[l] = filed[l]
  BY <1>2 DEF Without, Restrict
<1>4. \A h \in Live : h \in Live' /\ FullPath(h)' = FullPath(h)
  BY <1>2 DEF FullPath, Live
<1>5. \A q \in Homes : SamePlace(q, q)
  BY <1>4, PlacesStay
<1>6. \A x \in Live' : x \in Live /\ SamePlace(parent[x], parent'[x])
  BY <1>2, <1>5 DEF Context, Whole, Live
<1>7. \A l \in DOMAIN filed' : filed[l] \in Homes => SamePlace(filed[l], filed'[l])
  BY <1>3, <1>5
<1> QED
  BY <1>6, <1>7 DEF Placed

LEMMA RemovesPlaced ==
  ASSUME NEW w, Context(w), Removes(w)
  PROVE  Placed(w)
<1>1. PICK f \in Live :
        /\ ParentsAfter(w) = Without(parent, {f}) /\ NamesAfter(w) = Without(name, {f})
        /\ FiledAfter(w) = filed
        /\ \A g \in Live : parent[g] # FullPath(f)
        /\ \A k \in DOMAIN filed : filed[k] # FullPath(f)
  BY DEF Removes
<1>2. DOMAIN name = Live
  BY DEF Context, RowsInv
<1>3. /\ Live' = Live \ {f} /\ filed' = filed
      /\ \A g \in Live' : parent'[g] = parent[g] /\ name'[g] = name[g]
  BY <1>1, <1>2 DEF Context, Written, Without, Restrict, Live
<1>4. \A h \in Live' : h \in Live /\ FullPath(h)' = FullPath(h)
  BY <1>3, SamePaths
<1>5. \A p \in Homes : p # FullPath(f) => SamePlace(p, p)
  BY <1>3, <1>4, HomeIs DEF SamePlace
<1>6. \A x \in Live' : x \in Live /\ SamePlace(parent[x], parent'[x])
  BY <1>1, <1>3, <1>5 DEF Context, Whole
<1>7. \A l \in DOMAIN filed' : filed[l] \in Homes => SamePlace(filed[l], filed'[l])
  BY <1>1, <1>3, <1>5
<1> QED
  BY <1>6, <1>7 DEF Placed

LEMMA MovesPlaced ==
  ASSUME NEW w, Context(w), Moves(w)
  PROVE  Placed(w)
<1>1. PICK f \in Live, new \in Seq(Seg) :
        /\ DOMAIN ParentsAfter(w) = Live
        /\ DOMAIN FiledAfter(w) = DOMAIN filed
        /\ \A g \in Live \ {f} : /\ ParentsAfter(w)[g] = Rewrite(parent[g], FullPath(f), new)
                                 /\ NamesAfter(w)[g] = name[g]
        /\ \A k \in DOMAIN filed : FiledAfter(w)[k] = Rewrite(filed[k], FullPath(f), new)
        /\ new = Append(ParentsAfter(w)[f], NamesAfter(w)[f])
        /\ \/ ParentsAfter(w)[f] = parent[f]
           \/ /\ w.moves = f
              /\ ParentsAfter(w)[f] \in Homes
              /\ ~Sinks(f, ParentsAfter(w)[f])
  BY DEF Moves
<1> DEFINE old == FullPath(f)
           R(p) == Rewrite(p, old, new)
<1>2. /\ Live' = Live /\ DOMAIN filed' = DOMAIN filed
      /\ \A g \in Live \ {f} : parent'[g] = R(parent[g]) /\ name'[g] = name[g]
      /\ \A k \in DOMAIN filed : filed'[k] = R(filed[k])
      /\ new = Append(parent'[f], name'[f])
      /\ \/ parent'[f] = parent[f]
         \/ w.moves = f /\ parent'[f] \in Homes /\ ~IsPrefix(old, parent'[f])
  BY <1>1 DEF Context, Written, Live, Sinks
<1>3. old \in Seq(Seg) /\ Len(old) = Len(parent[f]) + 1 /\ parent[f] \in Seq(Seg)
  BY PathIs DEF Context, RowsInv
<1>4. ASSUME NEW h \in Live
      PROVE  FullPath(h)' = R(FullPath(h))
  <2>1. CASE h = f
    BY <2>1, <1>2, <1>3, NextPathIs, RewriteWhole DEF Context
  <2>2. CASE h # f
    <3>1. FullPath(h)' = Append(R(parent[h]), name[h])
      BY <2>2, <1>2, NextPathIs DEF Context
    <3>2. FullPath(h) = Append(parent[h], name[h]) /\ parent[h] \in Seq(Seg) /\ name[h] \in Seg
      BY PathIs DEF Context, RowsInv
    <3>3. FullPath(h) # old
      BY <2>2, PathsDiffer DEF Context
    <3> DEFINE q == parent[h]  n == name[h]
    <3>4. q \in Seq(Seg) /\ n \in Seg /\ Append(q, n) # old
      BY <3>2, <3>3
    <3>5. old \in Seq(Seg)
      BY <1>3
    <3> HIDE DEF old, q, n
    <3>6. Rewrite(Append(q, n), old, new) = Append(Rewrite(q, old, new), n)
      BY <3>4, <3>5, RewriteBelow
    <3>7. R(Append(parent[h], name[h])) = Append(R(parent[h]), name[h])
      BY <3>6 DEF q, n
    <3> QED BY <3>1, <3>2, <3>7
  <2> QED BY <2>1, <2>2
<1>5. ASSUME NEW p \in Homes
      PROVE  SamePlace(p, R(p))
  <2>1. CASE p = <<>>
    <3>1. <<>> \in Seq(Seg) /\ Len(<<>>) = 0 /\ Len(old) > 0
      BY <1>3, EmptySeq, LenProperties
    <3>2. R(<<>>) = <<>>
      BY <3>1, <1>3, RewriteShort
    <3> QED BY <2>1, <3>2 DEF SamePlace
  <2>2. CASE \E h \in Live : p = FullPath(h)
    BY <2>2, <1>2, <1>4 DEF SamePlace
  <2> QED BY <2>1, <2>2, HomeIs
<1>6. ASSUME NEW x \in Live'
      PROVE  \/ x \in Live /\ SamePlace(parent[x], parent'[x])
             \/ (x \in Live => w.moves = x) /\ parent'[x] \in Homes'
  <2>1. x \in Live /\ parent[x] \in Homes
    BY <1>2 DEF Context, Whole
  <2>2. CASE x # f
    BY <2>1, <2>2, <1>2, <1>5
  <2>3. CASE x = f /\ parent'[f] = parent[f]
    <3>1. R(parent[f]) = parent[f]
      BY <1>3, RewriteShort, LenProperties
    <3> QED BY <2>1, <2>3, <3>1, <1>5
  <2>4. CASE x = f /\ w.moves = f /\ parent'[f] \in Homes /\ ~IsPrefix(old, parent'[f])
    <3>1. R(parent'[f]) = parent'[f]
      BY <2>4 DEF Rewrite
    <3>2. SamePlace(parent'[f], parent'[f])
      BY <2>4, <3>1, <1>5
    <3> QED BY <2>4, <3>2, NextHomes
  <2> QED BY <1>2, <2>2, <2>3, <2>4
<1>7. \A k \in DOMAIN filed : filed[k] \in Homes => SamePlace(filed[k], filed'[k])
  BY <1>2, <1>5
<1> QED
  BY <1>6, <1>7 DEF Placed

\* A commit of what was prepared from the rows as they are puts every row
\* somewhere.
LEMMA CommitPlaces ==
  ASSUME NEW w, Context(w), Prepared(w)
  PROVE  Placed(w) /\ Whole'
<1>1. Placed(w)
  BY AddsPlaced, FilesPlaced, DropsPlaced, RemovesPlaced, MovesPlaced DEF Prepared
<1>2. Whole'
  BY <1>1, NextHomes DEF Placed, Whole
<1> QED
  BY <1>1, <1>2

--------------------------------------------------------------------------------
(***************************************************************************)
(* The invariant.                                                          *)
(***************************************************************************)
LEMMA InitHolds == Stable /\ Init => IInv
<1> SUFFICES ASSUME Stable, Init
             PROVE  IInv
  OBVIOUS
<1>1. Live = {} /\ DOMAIN filed = {} /\ load \in Load
  BY LoadsAssumption DEF Init, Empty, Live
<1>2. RowsInv
  BY <1>1 DEF RowsInv, Init, Empty, Live
<1>3. UniqueInv /\ WholeInv
  BY <1>1 DEF UniqueInv, WholeInv, Whole
<1>4. TxInv
  <2>1. load.clients \subseteq Clients
    BY <1>1 DEF Load
  <2> QED BY <1>1, <2>1 DEF TxInv, Init, Pending
<1> QED
  BY <1>2, <1>3, <1>4 DEF IInv

\* While nothing is written to the rows, what was prepared stays prepared.
LEMMA RowsUntouched ==
  ASSUME parent' = parent, name' = name, filed' = filed
  PROVE  /\ \A w : Prepared(w)' <=> Prepared(w)
         /\ Whole' <=> Whole
         /\ UniqueInv' <=> UniqueInv
BY DEF Prepared, Adds, Files, Drops, Removes, Moves, Sinks, ParentsAfter, NamesAfter, FiledAfter,
       Homes, Paths, FullPath, Live, Whole, UniqueInv

LEMMA CheckHolds ==
  ASSUME IInv, NEW c \in load.clients, NEW w, Form(w), Prepared(w), Check(c, w)
  PROVE  IInv'
<1>1. /\ load' = load /\ parent' = parent /\ name' = name /\ filed' = filed
      /\ ever' = ever \cup w.fresh /\ tx' = [tx EXCEPT ![c] = w]
  BY DEF Check
<1>2. c \in Clients
  BY DEF IInv, TxInv, Load
<1>3. RowsInv'
  BY <1>1 DEF IInv, RowsInv, Live
<1>4. UniqueInv' /\ WholeInv'
  BY <1>1, RowsUntouched DEF IInv, WholeInv, Alone
<1>5. \A d \in Clients : tx'[d] = IF d = c THEN w ELSE tx[d]
  BY <1>1, <1>2 DEF IInv, TxInv
<1>6. TxInv'
  <2>1. load' \in Load /\ tx' = [d \in Clients |-> tx'[d]]
    BY <1>1 DEF IInv, TxInv
  <2>2. ASSUME NEW d \in Clients, tx'[d] # none
        PROVE  Form(tx'[d]) /\ tx'[d].fresh \subseteq ever'
    BY <1>1, <1>5, <2>2 DEF IInv, TxInv
  <2>3. ASSUME Alone', NEW v, Pending(v)'
        PROVE  Prepared(v)'
    <3>1. PICK d \in load'.clients : tx'[d] = v
      BY <2>3 DEF Pending
    <3>2. d = c
      BY <1>1, <2>3 DEF Alone
    <3>3. v = w
      BY <3>1, <3>2, <1>2, <1>5
    <3> QED BY <3>3, <1>1, RowsUntouched
  <2> QED BY <2>1, <2>2, <2>3 DEF TxInv
<1> QED
  BY <1>3, <1>4, <1>6 DEF IInv

LEMMA CommitHolds ==
  ASSUME IInv, NEW c \in load.clients, Commit(c)
  PROVE  IInv' /\ (Alone => Placed(tx[c]) /\ RowsInv' /\ UniqueInv')
<1> DEFINE w == tx[c]
<1>1. /\ w # none /\ MayCommit(w) /\ Written(w) /\ tx' = [tx EXCEPT ![c] = none]
      /\ load' = load /\ ever' = ever
  BY DEF Commit, Written
<1>2. c \in Clients
  BY DEF IInv, TxInv, Load
<1>3. Form(w) /\ w.fresh \subseteq ever
  BY <1>1, <1>2 DEF IInv, TxInv
<1>4. RowsInv' /\ UniqueInv'
  <2> HIDE DEF w
  <2> QED BY <1>1, <1>3, RowsAfter DEF IInv
<1>5. ASSUME Alone
      PROVE  Placed(w) /\ Whole'
  <2>1. Prepared(w)
    BY <1>1, <1>5 DEF IInv, TxInv, Pending
  <2>2. Context(w)
    BY <1>1, <1>4, <1>5 DEF IInv, WholeInv, Context
  <2> HIDE DEF w
  <2> QED BY <2>1, <2>2, CommitPlaces
<1>6. WholeInv'
  BY <1>1, <1>5 DEF WholeInv, Alone
<1>7. \A d \in Clients : tx'[d] = IF d = c THEN none ELSE tx[d]
  BY <1>1, <1>2 DEF IInv, TxInv
<1>8. TxInv'
  <2>1. load' \in Load /\ tx' = [d \in Clients |-> tx'[d]]
    BY <1>1 DEF IInv, TxInv
  <2>2. ASSUME NEW d \in Clients, tx'[d] # none
        PROVE  Form(tx'[d]) /\ tx'[d].fresh \subseteq ever'
    BY <1>1, <1>7, <2>2 DEF IInv, TxInv
  <2>3. ASSUME Alone', NEW v
        PROVE  ~Pending(v)'
    BY <1>1, <1>2, <1>7, <2>3 DEF Alone, Pending
  <2> QED BY <2>1, <2>2, <2>3 DEF TxInv
<1> QED
  BY <1>4, <1>5, <1>6, <1>8 DEF IInv

\* Steps that leave the rows.
LEMMA QuietHolds ==
  ASSUME IInv, UNCHANGED <<load, parent, name, filed, ever>>,
         \/ tx' = tx
         \/ \E c \in load.clients : tx' = [tx EXCEPT ![c] = none]
  PROVE  IInv'
<1>1. RowsInv'
  BY DEF IInv, RowsInv, Live
<1>2. UniqueInv' /\ WholeInv'
  BY RowsUntouched DEF IInv, WholeInv, Alone
<1>3. tx' = [d \in Clients |-> tx'[d]] /\ \A d \in Clients : tx'[d] \in {none, tx[d]}
  BY DEF IInv, TxInv
<1>4. TxInv'
  <2>1. \A d \in Clients : tx'[d] # none => Form(tx'[d]) /\ tx'[d].fresh \subseteq ever'
    BY <1>3 DEF IInv, TxInv
  <2>2. ASSUME Alone', NEW v, Pending(v)'
        PROVE  Prepared(v)'
    <3>1. PICK d \in load'.clients : tx'[d] = v /\ v # none
      BY <2>2 DEF Pending
    <3>2. Pending(v)
      BY <1>3, <3>1 DEF IInv, TxInv, Load, Pending
    <3>3. Prepared(v)
      BY <2>2, <3>2 DEF IInv, TxInv, Alone
    <3> QED BY <3>3, RowsUntouched
  <2>3. load' \in Load
    BY DEF IInv, TxInv
  <2> QED BY <2>3, <1>3, <2>1, <2>2 DEF TxInv, IInv
<1> QED
  BY <1>1, <1>2, <1>4 DEF IInv

LEMMA StepHolds == IInv /\ [Next]_vars => IInv'
<1> SUFFICES ASSUME IInv, [Next]_vars
             PROVE  IInv'
  OBVIOUS
<1>0. Typed
  BY DEF IInv, TxInv, Typed
<1>1. CASE UNCHANGED vars
  BY <1>1, QuietHolds DEF vars
<1>2. CASE Next
  <2> PICK c \in load.clients :
        \/ CheckCreateFolder(c) \/ CheckCreateCollection(c) \/ CheckPostCollection(c)
        \/ CheckMoveCollection(c) \/ CheckDeleteCollection(c)
        \/ CheckMoveFolder(c) \/ CheckRenameFolder(c) \/ CheckDeleteFolder(c)
        \/ Commit(c) \/ RollBack(c)
    BY <1>2 DEF Next
  <2>1. CASE CheckCreateFolder(c)
    <3> PICK n \in load.names, p \in Homes : \E w \in CreateFolder(n, p) : Check(c, w)
      BY <2>1 DEF CheckCreateFolder
    <3> QED BY <1>0, CreateFolderIs, CheckHolds DEF Prepared
  <2>2. CASE CheckCreateCollection(c)
    <3> PICK p \in Homes : \E w \in CreateCollection(p) : Check(c, w)
      BY <2>2 DEF CheckCreateCollection
    <3> QED BY <1>0, CreateCollectionIs, CheckHolds DEF Prepared
  <2>10. CASE CheckPostCollection(c)
    <3> PICK p \in Anywhere : \E w \in PostCollection(p) : Check(c, w)
      BY <2>10 DEF CheckPostCollection
    <3> QED BY <1>0, PostCollectionIs, CheckHolds DEF Prepared
  <2>3. CASE CheckMoveCollection(c)
    <3> PICK k \in DOMAIN filed, p \in Homes : \E w \in MoveCollection(k, p) : Check(c, w)
      BY <2>3 DEF CheckMoveCollection
    <3> QED BY <1>0, MoveCollectionIs, CheckHolds DEF Prepared
  <2>4. CASE CheckDeleteCollection(c)
    <3> PICK k \in DOMAIN filed : \E w \in DeleteCollection(k) : Check(c, w)
      BY <2>4 DEF CheckDeleteCollection
    <3> QED BY <1>0, DeleteCollectionIs, CheckHolds DEF Prepared
  <2>5. CASE CheckMoveFolder(c)
    <3> PICK p \in Paths, q \in Homes : \E w \in MoveFolder(p, q) : Check(c, w)
      BY <2>5 DEF CheckMoveFolder
    <3> QED BY <1>0, MoveFolderIs, CheckHolds DEF Prepared
  <2>6. CASE CheckRenameFolder(c)
    <3> PICK p \in Paths, n \in load.names : \E w \in RenameFolder(p, n) : Check(c, w)
      BY <2>6 DEF CheckRenameFolder
    <3> QED BY <1>0, RenameFolderIs, CheckHolds DEF Prepared
  <2>7. CASE CheckDeleteFolder(c)
    <3> PICK p \in Paths : \E w \in DeleteFolder(p) : Check(c, w)
      BY <2>7 DEF CheckDeleteFolder
    <3> QED BY <1>0, DeleteFolderIs, CheckHolds DEF Prepared
  <2>8. CASE Commit(c)
    BY <2>8, CommitHolds
  <2>9. CASE RollBack(c)
    BY <2>9, QuietHolds DEF RollBack
  <2> QED BY <2>1, <2>2, <2>3, <2>4, <2>5, <2>6, <2>7, <2>8, <2>9, <2>10
<1> QED
  BY <1>1, <1>2

\* Of all that happens only a commit touches the rows.
LEMMA OnlyCommits ==
  ASSUME Next
  PROVE  \/ \E c \in load.clients : Commit(c)
         \/ UNCHANGED <<parent, name, filed>>
BY DEF Next, CheckCreateFolder, CheckCreateCollection, CheckPostCollection, CheckMoveCollection, CheckDeleteCollection,
       CheckMoveFolder, CheckRenameFolder, CheckDeleteFolder, Check, RollBack

\* One place has the same folder in it before and after.
LEMMA SamePlaceIs ==
  ASSUME Stable, RowsInv, UniqueInv, RowsInv', UniqueInv', NEW p, NEW q, SamePlace(p, q)
  PROVE  InFolder(p) = IF q = <<>> THEN {none} ELSE {f \in Live' : FullPath(f)' = q}
<1>1. CASE p = <<>> /\ q = <<>>
  BY <1>1 DEF InFolder
<1>2. ASSUME NEW h \in Live \cap Live', p = FullPath(h), q = FullPath(h)'
      PROVE  InFolder(p) = IF q = <<>> THEN {none} ELSE {f \in Live' : FullPath(f)' = q}
  <2>1. p # <<>> /\ InFolder(p) = {h}
    BY <1>2, PathIs, PathsDiffer DEF InFolder
  <2>2. ASSUME NEW f \in Live'
        PROVE  /\ parent'[f] \in Seq(Seg) /\ name'[f] \in Seg
               /\ FullPath(f)' = Append(parent'[f], name'[f])
    BY NextPathIs DEF RowsInv
  <2>3. q # <<>>
    BY <1>2, <2>2, AppendProperties
  <2>4. ASSUME NEW f \in Live', FullPath(f)' = q
        PROVE  f = h
    <3> DEFINE a == parent'[f]  m == name'[f]  b == parent'[h]  n == name'[h]
    <3>1. a \in Seq(Seg) /\ m \in Seg /\ b \in Seq(Seg) /\ n \in Seg /\ Append(a, m) = Append(b, n)
      BY <1>2, <2>2, <2>4
    <3> HIDE DEF a, m, b, n
    <3>2. a = b /\ m = n
      BY <3>1, AppendInjective
    <3> QED BY <3>2, <2>4 DEF a, m, b, n, UniqueInv
  <2> QED BY <1>2, <2>1, <2>3, <2>4
<1> QED
  BY <1>1, <1>2 DEF SamePlace

\* and something is in every place of the tree, and nowhere else.
LEMMA PlaceHolds ==
  /\ \A p : p \in Homes <=> InFolder(p) # {}
  /\ \A q : q \in Homes' <=> (IF q = <<>> THEN {none} ELSE {f \in Live' : FullPath(f)' = q}) # {}
<1>1. Homes' = {<<>>} \cup {FullPath(f)' : f \in Live'}
  BY DEF Homes, Paths
<1> QED
  BY <1>1 DEF Homes, Paths, InFolder

LEMMA ContentsKept ==
  ASSUME IInv, [Next]_vars, Alone
  PROVE  StayTogether
<1> SUFFICES ASSUME NEW x \in Things \cap Things', Containing(x) # {}, Containing(x)' # Containing(x)
             PROVE  /\ Containing(x)' # {}
                    /\ \E c \in load.clients : tx[c] # none /\ tx[c].moves = x
  BY DEF StayTogether
<1>1. CASE UNCHANGED <<parent, name, filed>>
  BY <1>1 DEF Containing, InFolder, FullPath, Live
<1>2. ASSUME NEW c \in load.clients, Commit(c)
      PROVE  /\ Containing(x)' # {}
             /\ \E d \in load.clients : tx[d] # none /\ tx[d].moves = x
  <2>1. Placed(tx[c]) /\ RowsInv' /\ UniqueInv' /\ tx[c] # none
    BY <1>2, CommitHolds DEF Commit
  <2>2. Stable /\ RowsInv /\ UniqueInv
    BY DEF IInv
  <2> DEFINE p == IF x \in Live THEN parent[x] ELSE filed[x]
             q == IF x \in Live' THEN parent'[x] ELSE filed'[x]
  <2>3. x \in Live <=> x \in Live'
    BY <2>1, <2>2, IdentityAssumption DEF Things, RowsInv
  <2>4. Containing(x) = InFolder(p)
    BY DEF Containing
  <2>5. Containing(x)' = IF q = <<>> THEN {none} ELSE {f \in Live' : FullPath(f)' = q}
    BY DEF Containing, InFolder
  <2>6. p \in Homes
    BY <2>4, PlaceHolds
  <2>7. SamePlace(p, q) \/ (tx[c].moves = x /\ q \in Homes')
    <3>1. CASE x \in Live
      BY <3>1, <2>1, <2>3 DEF Placed
    <3>2. CASE x \notin Live
      BY <3>2, <2>1, <2>3, <2>6 DEF Placed, Things
    <3> QED BY <3>1, <3>2
  <2> HIDE DEF p, q
  <2>8. ~SamePlace(p, q)
    BY <2>1, <2>2, <2>4, <2>5, SamePlaceIs
  <2> QED BY <2>1, <2>5, <2>7, <2>8, PlaceHolds
<1> QED
  BY <1>1, <1>2, OnlyCommits DEF vars

--------------------------------------------------------------------------------
(***************************************************************************)
(* The theorems.                                                           *)
(***************************************************************************)
LEMMA InvariantHolds == Stable /\ Spec => []IInv
BY InitHolds, StepHolds, PTL DEF Spec

\* The rows of folders keep normal paths and names, and no two folders share both, however
\* requests overlap (the unique constraint of workspace_folders).
THEOREM TypeCorrect == Stable /\ Spec => [](RowsInv /\ UniqueInv)
<1>1. IInv => RowsInv /\ UniqueInv
  BY DEF IInv
<1> QED
  BY <1>1, InvariantHolds, PTL

\* The path the explorer gives to a folder always finds that folder and no other
\* (get_workspace_folder), for names that folder_slug leaves alone.
THEOREM PathsFindTheirFolder == Stable /\ Spec => []FoldersAreAddressable
<1>1. ASSUME IInv, NEW f \in Live
      PROVE  Found(FullPath(f)) = {f}
  <2>1. Stable /\ RowsInv /\ UniqueInv
    BY <1>1 DEF IInv
  <2>2. FullPath(f) \in Seq(Seg) /\ FullPath(f) # <<>>
    BY <2>1, PathIs
  <2>3. Found(FullPath(f)) = InFolder(FullPath(f))
    BY <2>1, <2>2, FoundIs
  <2>4. InFolder(FullPath(f)) = {f}
    BY <2>1, <2>2, PathsDiffer DEF InFolder
  <2> QED BY <2>3, <2>4
<1>2. IInv => FoldersAreAddressable
  BY <1>1 DEF FoldersAreAddressable
<1> QED
  BY <1>2, InvariantHolds, PTL

\* Renaming, moving and deleting folders never leaves a folder outside the tree,
\* at any depth, when requests come one at a time (rename_workspace_folder and
\* move_workspace_folder rewrite every path below the folder, and
\* delete_workspace_folder refuses one that holds a folder).
THEOREM TheTreeIsWhole == Stable /\ Spec => []TreeIsWhole
<1>1. IInv => TreeIsWhole
  BY DEF IInv, WholeInv, TreeIsWhole
<1> QED
  BY <1>1, InvariantHolds, PTL

\* What the tree shows stays in the folder it is in through every rename and move
\* of it or of a folder above it, until it is deleted or itself moved to another
\* that is there: wherever a collection was posted, nothing that is shown gets lost.
THEOREM ContentsAreKept == Stable /\ Spec => ContentsStayTogether
<1> DEFINE A == Alone => StayTogether
<1>1. IInv /\ [Next]_vars => A
  BY ContentsKept
<1> HIDE DEF A
<1>2. Stable /\ Spec => [][A]_vars
  BY <1>1, InvariantHolds, PTL DEF Spec
<1> QED
  BY <1>2 DEF A, ContentsStayTogether
================================================================================
