-------------------------- MODULE OutputProperties --------------------------
(***************************************************************************)
(* What a report must be for its readers: the person who wants the         *)
(* control's output and the runner that acts on lines that look like       *)
(* commands.                                                               *)
(***************************************************************************)
EXTENDS Output

-----------------------------------------------------------------------------
(* The reference rendering, place by place *)

LineStart(text, i) ==
    \E j \in 0 .. i - 1 :
        /\ j = 0 \/ text[j] = LineFeed
        /\ \A k \in j + 1 .. i - 1 : text[k] \in Blank
IsCommand(text, i) ==
    \/ Prefix(text, i - 1, <<Colon, Colon>>) /\ LineStart(text, i)
    \/ \E opener \in Openers : Prefix(text, i - 1, <<Hash, Hash, opener>>)

Rendered(text) ==
    FlattenSeq([i \in DOMAIN text |->
                    IF text[i] \in Unsafe \/ IsCommand(text, i) THEN Escaped(text[i])
                    ELSE Printed(text[i])])
      \o (IF text # <<>> /\ Last(text) # LineFeed THEN Printed(LineFeed) ELSE <<>>)
Report == FlattenSeq([t \in DOMAIN texts |-> Rendered(texts[t])])

\* The report is exact: at any time it is a beginning of the escaped texts, each on
\* lines of its own, whatever the buffer holds and however the writer splits what
\* it takes, and when nothing failed it is all of them.
ReportIsExact ==
    /\ IsPrefix(written, Report)
    /\ phase = "done" => written = Report

-----------------------------------------------------------------------------
(* The runner: it sees printed symbols, and an escaped byte as text *)

ASSUME TextAssumption ==
    "text" \notin {LineFeed, Colon, Hash} \union Blank \union Unsafe \union Openers

Seen(units) == [i \in DOMAIN units |-> IF units[i][2] = 0 THEN units[i][1] ELSE "text"]
IsInert(units) ==
    LET shown == Seen(units) IN
    \A i \in DOMAIN shown : shown[i] \notin Unsafe /\ ~IsCommand(shown, i)

\* Nothing in the report, complete or cut off, is a command to the runner, and an
\* error's text is printed on one line that is none either.
ReportIsInert ==
    /\ IsInert(written)
    /\ \A t \in DOMAIN texts :
        LET line == Diagnostic(texts[t]) IN
        IsInert(line) /\ \A i \in DOMAIN line : line[i] \notin {<<LineFeed, 0>>, <<Tab, 0>>}
=============================================================================
