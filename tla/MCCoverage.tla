----------------------------- MODULE MCCoverage -----------------------------
(***************************************************************************)
(* Coverage with integers up to 25: decimals at, below and above that      *)
(* limit, sums that cross it, and profiles up to one row past MaxRows.     *)
(***************************************************************************)
EXTENDS CoverageProperties

MCDigits == {<<0>>, <<3>>, <<2, 5>>, <<2, 6>>, <<0, 1>>, <<>>}
MCCounts == {<<0>>, <<1>>, <<9, 9>>}

MCRows == [valid : {TRUE}, statements : MCDigits, count : MCCounts]
            \union [valid : {FALSE}, statements : {<<3>>}, count : {<<1>>}]
FewRows == [valid : {TRUE}, statements : {<<0>>, <<3>>}, count : {<<0>>, <<1>>}]

MCProfiles ==
    [mode : {FALSE}, rows : {<<>>}]
        \union [mode : {TRUE}, rows : {<<>>} \union [1 .. 1 -> MCRows]
                                        \union [1 .. 2 -> MCRows] \union [1 .. 3 -> FewRows]]
=============================================================================
