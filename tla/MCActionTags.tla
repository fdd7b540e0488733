---------------------------- MODULE MCActionTags ----------------------------
(***************************************************************************)
(* ActionTags on tags that tie (v1, v1.0), differ in a late component, or  *)
(* have more digits than components, each with and without a peeled line.  *)
(***************************************************************************)
EXTENDS ActionTagsProperties

CONSTANTS c1, c2

MCNames == {<<1>>, <<1, 0>>, <<1, 1>>, <<10>>}

MCPins ==
    {[version |-> v, excluded |-> e, commit |-> c1] :
        v \in MCNames \union {None}, e \in {None, <<1, 0>>, <<1, 1>>, <<10>>}}
=============================================================================
