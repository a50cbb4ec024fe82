----------------------------- MODULE MCArtCache -----------------------------
(***************************************************************************)
(* An instance of ArtCache for TLC: an entry with a thumb and a cover      *)
(* between two with big thumbs, one of which has a cover that does not     *)
(* decode.  The big ones do not fit into the budget together, and each     *)
(* fits with the files of the entry between them.                          *)
(***************************************************************************)
EXTENDS ArtCache

Files    == {"big1", "bad1", "thumb2", "cover2", "big3"}
Pictures == <<<<"big1", "bad1">>, <<"thumb2", "cover2">>, <<"big3">>>>
Covers   == <<"bad1", "cover2", "nothing">>
Sizes    == [few \in SUBSET Files |->
                Cardinality(few) + 2 * Cardinality(few \cap {"big1", "big3"})]
Bad      == {"bad1"}
=============================================================================
