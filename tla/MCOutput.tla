------------------------------ MODULE MCOutput ------------------------------
(***************************************************************************)
(* Every stdout of up to three symbols and some of four or five, with a    *)
(* stderr that would be a command, or part of one, on an open line.        *)
(***************************************************************************)
EXTENDS OutputProperties

Alphabet == {":", "#", "[", " ", "TAB", "LF", "!"}
First == SeqOf(Alphabet, 3)
           \union {<<a>> \o s : a \in Alphabet, s \in {<<"#", "#", "[">>, <<"LF", ":", ":">>,
                      <<" ", ":", ":">>, <<":", ":", ":">>, <<"#", "#", "[", ":">>, <<"!", "!", "LF">>}}
Second == {<<>>, <<":", ":">>, <<"#", "[">>, <<"LF", "!">>}
MCTexts == {<<first, second>> : first \in First, second \in Second}
=============================================================================
