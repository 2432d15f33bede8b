------------------------------- MODULE MCWorkspace -------------------------------
(***************************************************************************)
(* Instances of Workspace for TLC.                                         *)
(***************************************************************************)
EXTENDS Workspace, TLC

CONSTANTS o, r, e,   \* users
          k1, k2     \* collections

\* Two scenarios, one of them in two spellings; a number is added to the second.
MCNames      == {"a", "A", "b", "collection"}
MCFold       == [n \in MCNames |-> IF n = "A" THEN "a" ELSE n]
MCCandidates == "a" :> <<"a">> @@ "A" :> <<"A", "b">>
                @@ "b" :> <<"b">> @@ "collection" :> <<"collection">>

Grants(es, vs) == [edit : es, env : vs]
Base == [users |-> {o, r}, creators |-> {o}, ids |-> {k1, k2}, slots |-> 0,
         names |-> {"collection"}, docs |-> {1}, values |-> {},
         grants |-> Grants(BOOLEAN, BOOLEAN), library |-> {}, overlap |-> FALSE]

\* Values: two users, a collection and a fork of it; three users, one collection.
MCForked == [Base EXCEPT !.values = {1}]
MCThree  == [Base EXCEPT !.users = {o, r, e}, !.ids = {k1}, !.values = {1, 2}]

\* A collection and its fork, with one scenario named as the collection's own
\* file; a collection with a reader or editor, and two spellings of one name.
MCFiles    == [Base EXCEPT !.users = {o}, !.slots = 2, !.names = {"a", "collection"},
                           !.docs = {1, 2}]
MCSpelling == [Base EXCEPT !.ids = {k1}, !.slots = 2, !.names = {"a", "A", "b"},
                           !.grants = Grants(BOOLEAN, {FALSE}), !.library = {"a", "b"}]

\* Two users at a time: in one collection; forking it while it may go.
MCOverlap  == [Base EXCEPT !.ids = {k1}, !.slots = 2, !.names = {"a", "A"}, !.values = {1},
                           !.grants = Grants({TRUE}, BOOLEAN), !.overlap = TRUE]
MCForking  == [Base EXCEPT !.grants = Grants({TRUE}, {FALSE}), !.overlap = TRUE]

MCLoads == {MCForked, MCThree, MCFiles, MCSpelling, MCOverlap, MCForking}
================================================================================
