------------------------------ MODULE Coverage ------------------------------
(***************************************************************************)
(* The coverage operation: runCoverageWith                                 *)
(* (src/goverify/repository_operations.go) runs the tests of one scope     *)
(* with a coverage profile in a temporary file and CheckCoverage           *)
(* (src/goverify/coverage.go) reads that profile line by line.  Every step *)
(* may fail and the caller may cancel at any point; the file is removed on *)
(* the way out, whatever happened.                                         *)
(*                                                                         *)
(* A profile is what the test process left in the file: its mode line and  *)
(* its rows.  Unsigned integers end at MaxUint, decimals are digit by digit.*)
(***************************************************************************)
EXTENDS Integers, Sequences, SequencesExt

CONSTANTS
    Profiles,  \* [mode : BOOLEAN, rows : Seq(Row)], see Row below
    MaxUint,   \* math.MaxUint64
    MaxRows    \* MaxCoverageRows

\* A row: whether its line is well-formed, its two decimals, and its source range.
Rows(digits) == [valid : BOOLEAN, statements : digits, count : digits]

ASSUME CoverageAssumption ==
    /\ \A p \in Profiles : p.mode \in BOOLEAN /\ p.rows \in Seq(Rows(Seq(0 .. 9)))
    /\ MaxUint \in Nat /\ MaxRows \in Nat

VARIABLES
    ended,       \* the caller's context has ended
    phase,       \* the next thing runCoverageWith does
    file,        \* the temporary file: "none", "present" or "removed"
    profile,     \* what is in it
    statements, covered, rows,  \* Coverage; rows is also the position in the profile
    uncovered,   \* the first uncovered row, 0 for none
    errors,      \* the returned error as the set of what it joins
    output       \* what was completely written

sums == <<statements, covered, rows, uncovered>>
vars == <<ended, phase, file, profile, sums, errors, output>>

Empty == [mode |-> FALSE, rows |-> <<>>]

Init ==
    /\ ended = FALSE
    /\ phase = "create"
    /\ file = "none"
    /\ profile = Empty
    /\ statements = 0 /\ covered = 0 /\ rows = 0 /\ uncovered = 0
    /\ errors = {}
    /\ output = <<>>

-----------------------------------------------------------------------------
(* unsignedDecimal: the digits, or Overflow *)

Overflow == -1

\* One digit more, unless the result would not fit.
TimesTen(n, digit) ==
    IF n = Overflow \/ digit > MaxUint \/ n > (MaxUint - digit) \div 10 THEN Overflow
    ELSE n * 10 + digit

UnsignedDecimal(digits) ==
    IF digits = <<>> \/ (Len(digits) > 1 /\ digits[1] = 0) THEN Overflow
    ELSE FoldLeft(TimesTen, 0, digits)

-----------------------------------------------------------------------------
EndContext ==
    /\ phase # "returned"
    /\ ~ended
    /\ ended' = TRUE
    /\ UNCHANGED <<phase, file, profile, sums, errors, output>>

\* The next step, or an early return through the deferred removal.
Goto(next) == phase' = next /\ UNCHANGED errors
Fail(why) == phase' = "remove" /\ errors' = errors \union {why}

Create ==
    /\ phase = "create"
    /\ \/ file' = "present" /\ Goto("close")
       \/ file' = "none" /\ phase' = "returned" /\ errors' = {"create"}
    /\ UNCHANGED <<ended, profile, sums, output>>

\* Closing the file, admitting the command.
Prepare ==
    /\ \/ phase = "close" /\ (Goto("validate") \/ Fail("close"))
       \/ phase = "validate" /\ (Goto("run") \/ Fail("validate"))
    /\ UNCHANGED <<ended, file, profile, sums, output>>

\* The test process ends: successfully, leaving any profile or none at all in
\* the file, or not.
RunTests ==
    /\ phase = "run"
    /\ \E p \in Profiles : profile' = p
    /\ file' \in {"present", "removed"}
    /\ \E successful \in BOOLEAN :
        phase' = IF successful THEN "output" ELSE "failed_output"
    /\ UNCHANGED <<ended, sums, errors, output>>

\* What the process printed is written first, then its result is looked at.
WriteOutput ==
    /\ phase \in {"output", "failed_output"}
    /\ \/ /\ output' = Append(output, "output")
          /\ IF phase = "output" THEN Goto("context") ELSE Fail("failed")
       \/ /\ UNCHANGED output
          /\ Fail("output")
    /\ UNCHANGED <<ended, file, profile, sums>>

\* Mutant: the context is looked at only before the profile is opened.
CheckContextOnce ==
    /\ \/ /\ phase = "context"
          /\ IF ended THEN Fail("context") ELSE Goto("open")
       \/ phase = "checked_context" /\ Goto("text")
    /\ UNCHANGED <<ended, file, profile, sums, output>>

CheckContext ==
    /\ \/ /\ phase = "context"
          /\ IF ended THEN Fail("context") ELSE Goto("open")
       \/ /\ phase = "checked_context"
          /\ IF ended THEN Fail("context") ELSE Goto("text")
    /\ UNCHANGED <<ended, file, profile, sums, output>>

Open ==
    /\ phase = "open"
    /\ \/ file = "present" /\ Goto("mode")
       \/ Fail("open")
    /\ UNCHANGED <<ended, file, profile, sums, output>>

\* CheckCoverage hands its error to the close of the profile; both are joined.
CheckFails(why) == phase' = "profile_close" /\ errors' = errors \union {why}

ReadMode ==
    /\ phase = "mode"
    /\ IF profile.mode THEN Goto("rows") ELSE CheckFails("profile")
    /\ UNCHANGED <<ended, file, profile, sums, output>>

HasRow == phase = "rows" /\ rows < Len(profile.rows)
Row == profile.rows[rows + 1]
Declared == UnsignedDecimal(Row.statements)
Count == UnsignedDecimal(Row.count)

\* Mutant: the sum may wrap around.
AcceptableWrapping == Row.valid /\ rows < MaxRows /\ Declared >= 0 /\ Count >= 0

\* The row is well-formed and there is room for it in every counter.
Acceptable ==
    /\ Row.valid
    /\ rows < MaxRows
    /\ Declared >= 0
    /\ Declared <= MaxUint - statements
    /\ Count >= 0

FirstUncovered ==
    IF Count = 0 /\ Declared # 0 /\ uncovered = 0 THEN rows + 1 ELSE uncovered

AddRow ==
    /\ HasRow
    /\ Acceptable
    /\ rows' = rows + 1
    /\ statements' = (statements + Declared) % (MaxUint + 1)
    /\ covered' = IF Count # 0 THEN (covered + Declared) % (MaxUint + 1) ELSE covered
    /\ uncovered' = FirstUncovered
    /\ UNCHANGED <<ended, phase, file, profile, errors, output>>

\* The reader fails, or the line is refused.
RejectRow ==
    /\ phase = "rows"
    /\ CheckFails("profile")
    /\ UNCHANGED <<ended, file, profile, sums, output>>

\* The end of the profile.
Summarise ==
    /\ phase = "rows"
    /\ rows = Len(profile.rows)
    /\ IF rows = 0 \/ statements = 0 THEN CheckFails("profile")
       ELSE IF covered # statements THEN CheckFails("incomplete")
       ELSE Goto("profile_close")
    /\ UNCHANGED <<ended, file, profile, sums, output>>

CloseProfile ==
    /\ phase = "profile_close"
    /\ \/ IF errors = {} THEN Goto("checked_context") ELSE phase' = "remove" /\ UNCHANGED errors
       \/ Fail("profile_close")
    /\ UNCHANGED <<ended, file, profile, sums, output>>

WriteText ==
    /\ phase = "text"
    /\ \/ /\ output' = Append(output, "text")
          /\ Goto("remove")
       \/ /\ UNCHANGED output
          /\ Fail("text")
    /\ UNCHANGED <<ended, file, profile, sums>>

\* Mutant: the outcome of the removal is dropped.
RemoveQuietly ==
    /\ phase = "remove"
    /\ phase' = "returned"
    /\ file' \in {"removed", file}
    /\ UNCHANGED <<ended, profile, sums, errors, output>>

\* The deferred removal; a file that is gone already is no error.
RemoveFile ==
    /\ phase = "remove"
    /\ phase' = "returned"
    /\ \/ file' = "removed" /\ UNCHANGED errors
       \/ UNCHANGED file /\ errors' = errors \union {"remove"}
    /\ UNCHANGED <<ended, profile, sums, output>>

Returned == phase = "returned" /\ UNCHANGED vars

Next ==
    \/ EndContext
    \/ Create \/ Prepare \/ RunTests \/ WriteOutput \/ CheckContext \/ Open
    \/ ReadMode \/ AddRow \/ RejectRow \/ Summarise \/ CloseProfile
    \/ WriteText \/ RemoveFile \/ Returned

Spec == Init /\ [][Next]_vars
=============================================================================
