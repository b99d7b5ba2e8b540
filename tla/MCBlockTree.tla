----------------------------- MODULE MCBlockTree -----------------------------
(* Two libraries, one of which may be in the other, and two other blocks.  *)
EXTENDS BlockTree, TLC

CONSTANTS L1, L2, b1, b2

MCBlocks == {L1, L2, b1, b2}
MCLibraries == {L1, L2}
MCDeletable == {L1, L2, b1}
\* L2 is of a sub-class of that of L1, b1 and b2 are of unrelated classes.
MCClasses == {"Block", "Library", "Module", "Other"}
MCClassOf == L1 :> "Library" @@ L2 :> "Module" @@ b1 :> "Block" @@ b2 :> "Other"
MCSuperClass == "Block" :> NoLibrary @@ "Library" :> "Block" @@ "Module" :> "Library" @@ "Other" :> "Block"
ByInsert == {"insertBlock"}
ByAnyCall == {"addBlock", "insertBlock"}
=============================================================================
