------------------------- MODULE CoverageProperties -------------------------
(***************************************************************************)
(* What the coverage operation must guarantee.                             *)
(***************************************************************************)
EXTENDS Coverage

-----------------------------------------------------------------------------
(* The reference definition: decimals and sums without a width *)

Number(digits) == FoldLeft(LAMBDA n, digit : 10 * n + digit, 0, digits)
Canonical(digits) == digits # <<>> /\ (Len(digits) > 1 => digits[1] # 0)

Total(ps) == FoldLeft(LAMBDA n, row : n + Number(row.statements), 0, ps)
UncoveredRows == {i \in DOMAIN profile.rows :
                    /\ Number(profile.rows[i].statements) # 0
                    /\ Number(profile.rows[i].count) = 0}

-----------------------------------------------------------------------------
\* The verdict is that of the profile.  Success: the profile was read to its end,
\* every line was well-formed and every number fits its width, the totals are the
\* true sums, every declared statement ran, and both the tool's output and the
\* summary were written.  Incomplete: a statement did not run, and the row named
\* is the first such row.
CoverageIsExact ==
    /\ phase = "returned" /\ errors = {} =>
        /\ profile.mode
        /\ \A i \in DOMAIN profile.rows :
            LET row == profile.rows[i] IN
                /\ row.valid
                /\ \A digits \in {row.statements, row.count} :
                    Canonical(digits) /\ Number(digits) <= MaxUint
        /\ statements = Total(profile.rows) /\ statements > 0
        /\ covered = statements
        /\ rows = Len(profile.rows)
        /\ UncoveredRows = {}
        /\ output = <<"output", "text">>
    /\ "incomplete" \in errors =>
        /\ uncovered \in UncoveredRows
        /\ \A i \in UncoveredRows : uncovered <= i

\* The temporary file never outlives the call unnoticed: it is gone, was never
\* created, or the error says that it could not be removed.
NoProfileLeft ==
    phase = "returned" => file # "present" \/ "remove" \in errors

\* A caller that cancelled before the profile was checked is never told that
\* coverage is complete.
CancelledIsNotCovered ==
    [](ended /\ phase \notin {"text", "remove", "returned"} =>
        [](phase = "returned" => errors # {}))
=============================================================================
