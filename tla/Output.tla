------------------------------- MODULE Output -------------------------------
(***************************************************************************)
(* Output encoding (src/internal/safeoutput, exactwrite): what a control   *)
(* wrote to its stdout, then to its stderr, goes to a report that a CI     *)
(* runner may scan for workflow commands.  Safe text is written as it is;  *)
(* other text goes, escaped, through a small buffer.  The writer may take  *)
(* any part of what it is given, and fail.                                 *)
(*                                                                         *)
(* A text is a sequence of symbols of one byte.  In the report a symbol is *)
(* <<symbol, 0>> when printed and <<symbol, 1>> to <<symbol, 4>> when      *)
(* escaped: the four bytes of \xHH.                                        *)
(***************************************************************************)
EXTENDS Integers, SequencesExt

CONSTANTS
    Texts,       \* the pairs of texts considered
    Blank,       \* printable white space
    Unsafe,      \* symbols that are never printed
    LineFeed, Tab,
    Colon, Hash,
    Openers,     \* what follows ## in a command: [ and vso[
    BufferBytes

ASSUME OutputAssumption ==
    /\ Texts \subseteq Seq(Seq(STRING)) \ {<<>>}
    /\ BufferBytes \in Nat \ {0}
    /\ {LineFeed, Colon, Hash} \intersect (Blank \union Unsafe) = {} /\ Blank \intersect Unsafe = {}
    /\ LineFeed \notin {Colon, Hash} \union Openers

VARIABLES
    texts,           \* never changes
    turn,            \* the text being written
    phase,
    index,           \* how much of it has been read
    lineWhitespace,  \* the line holds only white space so far
    lastLineFeed,    \* the last symbol read was a line feed
    waiting,         \* what is to be appended to the buffer
    buffer,
    chunk,           \* what is being written
    written          \* what the writer has taken

vars == <<texts, turn, phase, index, lineWhitespace, lastLineFeed, waiting, buffer, chunk, written>>

Init ==
    /\ texts \in Texts
    /\ turn = 1
    /\ phase = "start"
    /\ index = 0 /\ lineWhitespace = TRUE /\ lastLineFeed = FALSE
    /\ waiting = <<>> /\ buffer = <<>> /\ chunk = <<>>
    /\ written = <<>>

Text == texts[turn]
Printed(symbol) == <<<<symbol, 0>>>>
Escaped(symbol) == [i \in 1 .. 4 |-> <<symbol, i>>]

-----------------------------------------------------------------------------
(* Reading *)

Prefix(text, i, symbols) ==
    i + Len(symbols) <= Len(text) /\ SubSeq(text, i + 1, i + Len(symbols)) = symbols

\* Mutant: only a colon in the first column is taken for a command.
WorkflowCommandFirst(text, i, whitespace) ==
    \/ i = 0 /\ Prefix(text, i, <<Colon, Colon>>)
    \/ \E opener \in Openers : Prefix(text, i, <<Hash, Hash, opener>>)

WorkflowCommand(text, i, whitespace) ==
    \/ whitespace /\ Prefix(text, i, <<Colon, Colon>>)
    \/ \E opener \in Openers : Prefix(text, i, <<Hash, Hash, opener>>)

NextLineWhitespace(current, symbol) ==
    symbol = LineFeed \/ (current /\ symbol \in Blank)

\* safe: no command and nothing unsafe, as far as each line tells.
StateAfter(text) ==
    FoldLeft(LAMBDA whitespace, i :
                Append(whitespace, NextLineWhitespace(Last(whitespace), text[i])),
             <<TRUE>>, [i \in DOMAIN text |-> i])
Safe(text) ==
    \A i \in 0 .. Len(text) - 1 :
        ~WorkflowCommand(text, i, StateAfter(text)[i + 1]) /\ text[i + 1] \notin Unsafe

-----------------------------------------------------------------------------
(* Write *)

BeginEmpty ==
    /\ phase = "start" /\ Text = <<>>
    /\ phase' = "end"
    /\ UNCHANGED <<texts, turn, index, lineWhitespace, lastLineFeed, waiting, buffer, chunk,
                   written>>

\* Safe text is written as it is, and then a line feed if it lacks one.
BeginSafe ==
    /\ phase = "start" /\ Text # <<>> /\ Safe(Text)
    /\ chunk' = [i \in DOMAIN Text |-> <<Text[i], 0>>]
    /\ phase' = IF Last(Text) = LineFeed THEN "end" ELSE "line"
    /\ UNCHANGED <<texts, turn, index, lineWhitespace, lastLineFeed, waiting, buffer, written>>

SafeLine ==
    /\ phase = "line" /\ chunk = <<>>
    /\ chunk' = Printed(LineFeed)
    /\ phase' = "end"
    /\ UNCHANGED <<texts, turn, index, lineWhitespace, lastLineFeed, waiting, buffer, written>>

BeginEscaped ==
    /\ phase = "start" /\ Text # <<>> /\ ~Safe(Text)
    /\ index' = 0 /\ lineWhitespace' = TRUE /\ lastLineFeed' = FALSE
    /\ phase' = "escape"
    /\ UNCHANGED <<texts, turn, waiting, buffer, chunk, written>>

\* writeEscaped: the next symbol, once the one before is in the buffer.
Ready == phase = "escape" /\ waiting = <<>> /\ chunk = <<>>
Symbol == Text[index + 1]

EscapeCommand ==
    /\ Ready /\ index < Len(Text)
    /\ WorkflowCommand(Text, index, lineWhitespace)
    /\ waiting' = Escaped(Symbol)
    /\ index' = index + 1
    /\ lineWhitespace' = FALSE /\ lastLineFeed' = FALSE
    /\ UNCHANGED <<texts, turn, phase, buffer, chunk, written>>

AppendSymbol ==
    /\ Ready /\ index < Len(Text)
    /\ ~WorkflowCommand(Text, index, lineWhitespace)
    /\ waiting' = IF Symbol \in Unsafe THEN Escaped(Symbol) ELSE Printed(Symbol)
    /\ index' = index + 1
    /\ lineWhitespace' = NextLineWhitespace(lineWhitespace, Symbol)
    /\ lastLineFeed' = (Symbol = LineFeed)
    /\ UNCHANGED <<texts, turn, phase, buffer, chunk, written>>

EndText ==
    /\ Ready /\ index = Len(Text)
    /\ waiting' = IF lastLineFeed THEN <<>> ELSE Printed(LineFeed)
    /\ phase' = "flush"
    /\ UNCHANGED <<texts, turn, index, lineWhitespace, lastLineFeed, buffer, chunk, written>>

\* appendByte
AppendByte ==
    /\ phase \in {"escape", "flush"} /\ waiting # <<>> /\ chunk = <<>>
    /\ Len(buffer) < BufferBytes
    /\ buffer' = Append(buffer, Head(waiting))
    /\ waiting' = Tail(waiting)
    /\ UNCHANGED <<texts, turn, phase, index, lineWhitespace, lastLineFeed, chunk, written>>

FlushFull ==
    /\ phase \in {"escape", "flush"} /\ waiting # <<>> /\ chunk = <<>>
    /\ Len(buffer) = BufferBytes
    /\ chunk' = buffer
    /\ buffer' = <<>>
    /\ UNCHANGED <<texts, turn, phase, index, lineWhitespace, lastLineFeed, waiting, written>>

FlushLast ==
    /\ phase = "flush" /\ waiting = <<>> /\ chunk = <<>>
    /\ chunk' = buffer
    /\ buffer' = <<>>
    /\ phase' = "end"
    /\ UNCHANGED <<texts, turn, index, lineWhitespace, lastLineFeed, waiting, written>>

\* Mutant: a short write is taken for a complete one.
TakeOnce ==
    /\ chunk # <<>> /\ phase # "failed"
    /\ \E n \in 1 .. Len(chunk) :
        written' = written \o SubSeq(chunk, 1, n)
    /\ chunk' = <<>>
    /\ UNCHANGED <<texts, turn, phase, index, lineWhitespace, lastLineFeed, waiting, buffer>>

\* exactwrite.Bytes: the writer takes part of the chunk; it is called again for
\* the rest unless it fails or takes nothing.
Take ==
    /\ chunk # <<>> /\ phase # "failed"
    /\ \E n \in 1 .. Len(chunk) :
        /\ written' = written \o SubSeq(chunk, 1, n)
        /\ chunk' = SubSeq(chunk, n + 1, Len(chunk))
    /\ UNCHANGED <<texts, turn, phase, index, lineWhitespace, lastLineFeed, waiting, buffer>>

TakeAndFail ==
    /\ chunk # <<>> /\ phase # "failed"
    /\ \E n \in 0 .. Len(chunk) :
        written' = written \o SubSeq(chunk, 1, n)
    /\ phase' = "failed"
    /\ UNCHANGED <<texts, turn, index, lineWhitespace, lastLineFeed, waiting, buffer, chunk>>

\* writeControlOutput: stdout, then stderr.
NextText ==
    /\ phase = "end" /\ chunk = <<>>
    /\ phase' = IF turn < Len(texts) THEN "start" ELSE "done"
    /\ turn' = IF turn < Len(texts) THEN turn + 1 ELSE turn
    /\ UNCHANGED <<texts, index, lineWhitespace, lastLineFeed, waiting, buffer, chunk, written>>

Finished == phase \in {"done", "failed"} /\ UNCHANGED vars

Next ==
    \/ BeginEmpty \/ BeginSafe \/ SafeLine \/ BeginEscaped
    \/ EscapeCommand \/ AppendSymbol \/ EndText
    \/ AppendByte \/ FlushFull \/ FlushLast
    \/ Take \/ TakeAndFail
    \/ NextText
    \/ Finished

Spec == Init /\ [][Next]_vars

-----------------------------------------------------------------------------
(* Diagnostic: the same for an error's text, without line feeds and tabs *)

Diagnostic(text) ==
    FoldLeft(LAMBDA acc, i :
                IF WorkflowCommand(text, i - 1, acc.whitespace)
                THEN [line |-> acc.line \o Escaped(text[i]), whitespace |-> FALSE]
                ELSE [line |-> acc.line \o
                         (IF text[i] \in Unsafe \union {LineFeed, Tab} THEN Escaped(text[i])
                          ELSE Printed(text[i])),
                      whitespace |-> NextLineWhitespace(acc.whitespace, text[i])],
             [line |-> <<>>, whitespace |-> TRUE], [i \in DOMAIN text |-> i]).line
=============================================================================
