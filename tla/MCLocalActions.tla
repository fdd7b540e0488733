--------------------------- MODULE MCLocalActions ---------------------------
(***************************************************************************)
(* LocalActions on every repository of three actions with at most two      *)
(* references each: chains, diamonds, self-references and cycles.  The     *)
(* three use up the bytes exactly; a fourth, behind the third, is one byte *)
(* or one action too many.                                                 *)
(***************************************************************************)
EXTENDS LocalActionsProperties, TLC

CONSTANTS w1, w2, u, a, b, c, d, p, m

MCWorkflows == <<w1, w2>>
MCSize == (a :> 1) @@ (b :> 1) @@ (c :> 3) @@ (d :> 2)

\* At most two references, in one order where the order cannot matter.
Lists == {<<>>, <<a>>, <<b>>, <<c>>, <<p>>, <<m>>, <<a, b>>, <<b, c>>, <<c, a>>,
          <<a, p>>, <<p, b>>, <<c, p>>, <<p, p>>, <<p, m>>, <<b, b>>}

MCRepositories ==
    {[f \in {w1, w2, a, b, c, d} |->
        CASE f = w1 -> <<a, w2>> [] f = w2 -> root
          [] f = a -> la [] f = b -> lb [] f = c -> lc [] f = d -> <<>>] :
        root \in {<<>>, <<b, p>>, <<u>>}, la, lb \in Lists,
        lc \in Lists \union {<<d>>}}
=============================================================================
