-------------------------------- MODULE MCUnion --------------------------------
(* An entry that is read from the tree and two of the structure to be sent. *)
EXTENDS UnionProperties

MCApis == {[e \in Entries |-> IF e = "read" THEN "Tree" ELSE "Structure"]}
MCGivens ==
    {{"name"}, {"name", "id"}, {"name", "description", "monitors", "components"}}
=============================================================================
