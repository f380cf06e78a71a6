-------------------------------- MODULE Gemtext --------------------------------
(***************************************************************************)
(* crates/gemini-protocol/src/gemtext.rs: a document, line by line, with   *)
(* the fence that both gemtext and scrolltext put around preformatted      *)
(* text. A line is a sequence of tokens; the fence, "=>" and "=:" are one   *)
(* token each.                                                             *)
(***************************************************************************)
EXTENDS Lines

Fence == <<"FENCE">>
Arrow == <<"=>">>
PromptArrow == <<"=:">>

Closes(line) == IsPrefix(Fence, line)

\* The loop of both parsers: inside a block every line but a fence is kept as it is, a
\* block that is still open at the end is flushed. Classify gives what a line outside a
\* block yields, Block an item from the fence's text and the lines.
Fenced(lines, Classify(_), Block(_, _)) ==
    LET start == [out |-> <<>>, open |-> FALSE, tag |-> <<>>, lines |-> <<>>]
        closed(s) == [start EXCEPT !.out = Append(s.out, Block(s.tag, s.lines))]
        step(s, line) ==
            CASE s.open /\ Closes(line) -> closed(s)
              [] s.open /\ ~Closes(line) -> [s EXCEPT !.lines = Append(@, line)]
              [] ~s.open /\ IsPrefix(Fence, line) ->
                   [s EXCEPT !.open = TRUE, !.tag = Trim(After(line, Fence), White)]
              [] OTHER -> [s EXCEPT !.out = @ \o Classify(line)]
        state[i \in 0..Len(lines)] == IF i = 0 THEN start ELSE step(state[i - 1], lines[i])
        end == state[Len(lines)]
    IN [items |-> IF end.open THEN closed(end).out ELSE end.out, open |-> end.open]

----------------------------------------------------------------------------
Item(kind, level, text) == [kind |-> kind, level |-> level, text |-> text]
Link(url, label) == [kind |-> "link", url |-> url, label |-> label]
Pre(alt, lines) == [kind |-> "pre", alt |-> alt, lines |-> lines]

\* parse_link: a bare arrow is dropped.
ParseLink(rest) ==
    LET words == SplitWhite(TrimStart(rest, White))
    IN IF words[1] = <<>> THEN <<>>
       ELSE <<Link(words[1], IF Len(words) = 2 THEN Trim(words[2], White) ELSE <<>>)>>

Hashes(n) == [i \in 1..n |-> "#"] \o <<SP>>
Heading(line) == {n \in 1..3 : IsPrefix(Hashes(n), line)}

\* The classification of a line outside a block.
Classify(line) ==
    CASE Heading(line) # {} ->
           LET n == CHOOSE n \in Heading(line) : TRUE
           IN <<Item("heading", n, Trim(After(line, Hashes(n)), White))>>
      [] IsPrefix(Arrow, line) -> ParseLink(After(line, Arrow))
      [] IsPrefix(<<"*", SP>>, line) -> <<Item("item", 0, Trim(After(line, <<"*", SP>>), White))>>
      [] IsPrefix(<<">", SP>>, line) -> <<Item("quote", 0, Trim(After(line, <<">", SP>>), White))>>
      [] line = <<>> -> <<Item("blank", 0, <<>>)>>
      [] OTHER -> <<Item("text", 0, line)>>

Parse(lines) == Fenced(lines, Classify, Pre)
=============================================================================
