------------------------------ MODULE GopherMenu ------------------------------
(***************************************************************************)
(* What a gopher client reads: menus (menu.rs) and the attribute blocks of *)
(* Gopher+ with their views and forms (plus.rs).                           *)
(***************************************************************************)
EXTENDS Lines

EndLine == <<".">>
Optional(items) == SelectSeq(items, LAMBDA item : item.kind # "none")
NoItem == [kind |-> "none"]

\* The lines before the period.
Before(lines) ==
    LET end == FirstOf({i \in DOMAIN lines : lines[i] = EndLine})
    IN IF end = 0 THEN lines ELSE SubSeq(lines, 1, end - 1)

\* kind_of.
KindOf(type) ==
    CASE type = "0" -> "text" [] type = "1" -> "submenu" [] type = "7" -> "search"
      [] type = "9" -> "binary" [] type \in {"g", "I"} -> "image" [] type = "s" -> "sound"
      [] type = "T" -> "telnet" [] OTHER -> "other"

\* GopherPlus::from_field: what is neither mark is no mark.
Mark(field) == IF Trim(field, White) \in { <<"+">>, <<"?">> } THEN Trim(field, White) ELSE <<>>

\* synthesise_gopher_url: the text of the URL, without the default port.
GopherUrl(type, host, port, selector) ==
    <<"gopher://">> \o host \o (IF port \in {<<>>, <<"7", "0">>} THEN <<>> ELSE <<":">> \o port)
        \o <<"/", type>> \o selector
NoUrl == <<>>

\* The display text, the selector, the host, the port and the marker.
Fields(line) == SplitN(Tail(line), TAB, 5)

\* parse_line: an item that goes nowhere is dropped.
ParseItem(line) ==
    LET fields == Fields(line)
        field(i, default) == IF i <= Len(fields) THEN fields[i] ELSE default
        type == Head(line)
        selector == field(2, <<>>)
        target == Trim(IF IsPrefix(<<"URL:">>, selector) THEN Tail(selector) ELSE selector, White)
        item(kind, url) ==
            [kind |-> kind, display |-> fields[1], url |-> url, plus |-> Mark(field(5, <<>>))]
    IN CASE type = "i" -> item("info", NoUrl)
         [] type = "3" -> item("error", NoUrl)
         [] type = "h" -> IF target = <<>> THEN NoItem ELSE item("url", target)
         [] OTHER ->
              IF field(3, <<>>) = <<>> THEN NoItem
              ELSE item(KindOf(type), GopherUrl(type, fields[3], field(4, <<"7", "0">>), selector))

\* parse: to the period, without the blank lines.
ParseMenu(lines) ==
    LET shown == SelectSeq(Before(lines), LAMBDA line : line # <<>>)
    IN Optional([i \in DOMAIN shown |-> ParseItem(shown[i])])

----------------------------------------------------------------------------
\* parse_attributes: a plus opens a block, a space continues it, anything else is skipped.
Opens(lines) ==
    InOrder({i \in DOMAIN lines : lines[i] # <<>> /\ Head(lines[i]) = "+"}, Len(lines))
Continuations(lines) ==
    LET kept == SelectSeq(lines, LAMBDA line : line # <<>> /\ Head(line) = SP)
    IN [i \in DOMAIN kept |-> Tail(kept[i])]
AttributeBlock(lines) ==
    LET parts == SplitOnce(Tail(lines[1]), ":")
    IN [name |-> Trim(parts[1], White),
        head |-> IF Len(parts) = 2 THEN Trim(parts[2], White) ELSE <<>>,
        lines |-> Continuations(Tail(lines))]
ParseAttributes(text) ==
    LET lines == Before(text)
        bounds == Append(Opens(lines), Len(lines) + 1)
    IN [i \in 1..(Len(bounds) - 1) |-> AttributeBlock(SubSeq(lines, bounds[i], bounds[i + 1] - 1))]

\* The two halves of a line around its colon.
Halves(line) ==
    LET parts == SplitOnce(line, ":")
    IN [label |-> Trim(parts[1], White), rest |-> IF Len(parts) = 2 THEN parts[2] ELSE <<>>]

\* parse_views.
View(line) ==
    LET halves == Halves(line)
        words == SplitWhite(halves.label)
    IN IF halves.label = <<>> THEN NoItem
       ELSE [kind |-> "view", mime |-> words[1],
             language |-> IF Len(words) = 2 THEN Trim(words[2], White) ELSE <<>>,
             size |-> Trim(halves.rest, White)]
ParseViews(block) == Optional([i \in DOMAIN block.lines |-> View(block.lines[i])])

\* parse_ask: one directive a line, the unknown ones kept.
Questions == {"Ask", "AskP", "AskL", "AskF"}
Selections == {"Select", "Choose"}
Directive(line) ==
    LET halves == Halves(line)
        rest == TrimStart(halves.rest, White)
        fields == [i \in DOMAIN Split(rest, TAB) |-> Trim(Split(rest, TAB)[i], White)]
        tail == SelectSeq(Tail(fields), LAMBDA f : f # <<>>)
        name == IF Len(halves.label) = 1 THEN halves.label[1] ELSE "unknown"
    IN CASE name \in Questions ->
              [directive |-> halves.label, prompt |-> fields[1],
               options |-> SubSeq(tail, 1, IF tail = <<>> THEN 0 ELSE 1)]
         [] name \in Selections -> [directive |-> halves.label, prompt |-> fields[1], options |-> tail]
         [] name = "ChooseF" -> [directive |-> halves.label, prompt |-> fields[1], options |-> <<>>]
         [] name = "Note" ->
              [directive |-> halves.label, prompt |-> Trim(rest, White), options |-> <<>>]
         [] OTHER -> [directive |-> halves.label, prompt |-> rest, options |-> <<>>]
ParseAsk(block) == [i \in DOMAIN block.lines |-> Directive(block.lines[i])]
=============================================================================
