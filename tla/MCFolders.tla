-------------------------------- MODULE MCFolders --------------------------------
(***************************************************************************)
(* Instances of Folders for TLC.                                           *)
(***************************************************************************)
EXTENDS Folders, TLC

CONSTANTS f1, f2, f3,  \* folders
          k1           \* a collection

\* Two slugs, and a name that slugs to one of them.
MCNames == {"a", "b", "a!"}
MCSlug  == "a" :> "a" @@ "b" :> "b" @@ "a!" :> "a"

\* One request at a time in a tree of three levels, or two at a time in one
\* of two levels.
MCOneClient  == [clients |-> {1}, ids |-> {f1, f2, f3, k1},
                 names |-> MCNames, depth |-> 3]
MCTwoClients == [clients |-> {1, 2}, ids |-> {f1, f2},
                 names |-> {"a", "b"}, depth |-> 2]
MCLoads      == {MCOneClient, MCTwoClients}
================================================================================
