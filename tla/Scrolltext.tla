------------------------------ MODULE Scrolltext ------------------------------
(***************************************************************************)
(* crates/scroll-protocol/src/scrolltext.rs: the line types of scrolltext, *)
(* its escape, the relation of a link, the ordinal of a list item, and the *)
(* spans of a line's inline markup.                                        *)
(***************************************************************************)
EXTENDS Lines

M == INSTANCE Gemtext

Backslash == "BS"
Break == <<"---">>

Item(kind, level, text) == [kind |-> kind, level |-> level, text |-> text]
Text(line) == Item("text", 0, line)
CodeBlock(tag, lines) == [kind |-> "code", tag |-> tag, lines |-> lines]
Link(url, label, relation) ==
    [kind |-> "link", url |-> url, label |-> label, relation |-> relation]
InputLink(url, prompt) == [kind |-> "input", url |-> url, prompt |-> prompt]
ListItem(depth, ordinal, text) ==
    [kind |-> "item", depth |-> depth, ordinal |-> ordinal, text |-> text]

\* is_escapable.
IsEscapable(line) ==
    \/ Leading(line, "*") \in 1..4
    \/ Leading(line, "#") \in 1..5
    \/ line # <<>> /\ Head(line) \in {">", "=>", "=:", "FENCE"}
    \/ line = Break

\* split_link: the label is trimmed only when there is one.
SplitLink(rest) ==
    LET words == SplitWhite(TrimStart(rest, White))
    IN <<words[1], IF Len(words) = 2 THEN Trim(words[2], White) ELSE <<>> >>

\* split_relation: the last bracket of the label, when it is closed at the end. A sign is
\* the polarity; empty brackets are no relation.
NoRelation == <<>>
SplitRelation(label) ==
    LET text == TrimEnd(label, White)
        open == LastOf({i \in DOMAIN text : text[i] = "["})
        inner == SubSeq(text, open + 1, Len(text) - 1)
    IN IF open = 0 \/ Last(text) # "]" \/ inner = <<>>
       THEN <<label, NoRelation>>
       ELSE <<TrimEnd(SubSeq(text, 1, open - 1), White), inner>>

\* split_ordinal: digits or one letter, and a dot.
Letters == {"a", "b"}
SplitOrdinal(text) ==
    LET digits == FirstOf({i \in DOMAIN Append(text, SP) : ~IsDigit(Append(text, SP)[i])}) - 1
        marker == IF digits > 0 THEN digits
                  ELSE IF text # <<>> /\ Head(text) \in Letters THEN 1 ELSE 0
    IN IF marker > 0 /\ marker < Len(text) /\ text[marker + 1] = "."
       THEN <<SubSeq(text, 1, marker + 1), TrimStart(From(text, marker + 2), White)>>
       ELSE << <<>>, text>>

\* A backslash before a recognised prefix goes, any other stays.
Unescape(line) == IF IsEscapable(Tail(line)) THEN Tail(line) ELSE line

\* parse_line.
ParseLine(raw) ==
    LET stars == Leading(raw, "*")
        hashes == Leading(raw, "#")
        quotes == Leading(raw, ">")
        listed == SplitOrdinal(From(raw, stars + 2))
        link == SplitLink(Tail(raw))
        related == SplitRelation(link[2])
    IN CASE Trim(raw, White) = <<>> -> Item("blank", 0, <<>>)
         [] Trim(raw, White) # <<>> /\ Head(raw) = Backslash -> Text(Unescape(raw))
         [] raw = Break -> Item("break", 0, <<>>)
         [] hashes \in 1..5 -> Item("heading", hashes, TrimStart(From(raw, hashes + 1), White))
         [] quotes > 0 ->
              Item("quote", IF quotes < 255 THEN quotes ELSE 255,
                   TrimStart(From(raw, quotes + 1), White))
         [] IsPrefix(<<"=>">>, raw) -> Link(link[1], related[1], related[2])
         [] IsPrefix(<<"=:">>, raw) -> InputLink(link[1], link[2])
         [] stars \in 1..4 /\ stars < Len(raw) /\ raw[stars + 1] \in {SP, TAB} ->
              ListItem(stars, listed[1], listed[2])
         [] OTHER -> Text(raw)

Parse(lines) == M!Fenced(lines, LAMBDA line : <<ParseLine(line)>>, CodeBlock)

----------------------------------------------------------------------------
\* spans: what each toggle character opens.
Toggles == [c \in {"*", "_", "TICK"} |->
                CASE c = "*" -> "strong" [] c = "_" -> "emphasis" [] c = "TICK" -> "code"]
Symbols == {"*", "_", "TICK", ".", "#", ">"}

\* Whether the character at i toggles while the style is kind: inside code only a backtick
\* does; otherwise a neighbour must be text, and not both of them symbols.
TogglesAt(line, i, kind) ==
    LET neighbours == {line[j] : j \in {i - 1, i + 1} \cap DOMAIN line}
    IN /\ line[i] \in DOMAIN Toggles
       /\ kind = "code" => line[i] = "TICK"
       /\ \E n \in neighbours : n \notin White \cup {line[i]}
       /\ ~({i - 1, i + 1} \subseteq DOMAIN line /\ neighbours \subseteq Symbols)

Spans(line) ==
    LET start == [out |-> <<>>, text |-> <<>>, kind |-> "plain"]
        flush(s) ==
            IF s.text = <<>> THEN s
            ELSE [s EXCEPT !.out = Append(@, [kind |-> s.kind, text |-> s.text]), !.text = <<>>]
        turn(s, kind) == [flush(s) EXCEPT !.kind = IF @ = kind THEN "plain" ELSE kind]
        step(s, i) ==
            IF TogglesAt(line, i, s.kind) THEN turn(s, Toggles[line[i]])
            ELSE [s EXCEPT !.text = Append(@, line[i])]
        state[i \in 0..Len(line)] == IF i = 0 THEN start ELSE step(state[i - 1], i)
    IN flush(state[Len(line)]).out
=============================================================================
