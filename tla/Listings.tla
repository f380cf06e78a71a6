------------------------------- MODULE Listings -------------------------------
(***************************************************************************)
(* The link lines of the smaller formats: nex directory listings           *)
(* (listing.rs), spartan's prompt line (lib.rs) and the body of a text     *)
(* protocol response (lib.rs).                                             *)
(***************************************************************************)
EXTENDS Lines

Text(line) == [kind |-> "text", text |-> line]
Link(url, label) == [kind |-> "link", url |-> url, label |-> label]

\* The URL and the trimmed label of what follows a marker.
Target(rest) ==
    LET words == SplitWhite(TrimStart(rest, White))
    IN Link(words[1], IF Len(words) = 2 THEN Trim(words[2], White) ELSE <<>>)

\* parse_listing: only an arrow, a space and something after them make a link.
NexArrow == <<"=>", SP>>
ParseListing(lines) ==
    [i \in DOMAIN lines |->
        LET line == TrimEnd(lines[i], {CR})
            rest == After(line, NexArrow)
        IN IF IsPrefix(NexArrow, line) /\ Trim(rest, White) # <<>> THEN Target(rest) ELSE Text(line)]

\* parse_prompt_line; a line it does not accept stays text.
ParsePrompts(lines) ==
    [i \in DOMAIN lines |->
        LET rest == After(lines[i], <<"=:">>)
        IN IF IsPrefix(<<"=:">>, lines[i]) /\ TrimStart(rest, White) # <<>>
           THEN Target(rest) ELSE Text(lines[i])]

\* parse_link of the text protocol: tokens with an equals sign are attributes until the
\* label has begun.
IsAttribute(token) == Find(token, "=") > 1
ParseTextLink(rest) ==
    LET tokens == Tokens(rest)
        words == IF tokens = <<>> THEN <<>> ELSE Tail(tokens)
        label == FirstOf({i \in DOMAIN words : ~IsAttribute(words[i])})
        attributes == IF label = 0 THEN words ELSE SubSeq(words, 1, label - 1)
    IN [kind |-> "link",
        url |-> IF tokens = <<>> THEN <<>> ELSE tokens[1],
        attributes |-> [i \in DOMAIN attributes |-> SplitOnce(attributes[i], "=")],
        label |-> IF label = 0 THEN <<>> ELSE From(words, label)]
ParseBody(lines) ==
    [i \in DOMAIN lines |->
        IF IsPrefix(<<"=>">>, lines[i]) THEN ParseTextLink(Tail(lines[i])) ELSE Text(lines[i])]
=============================================================================
