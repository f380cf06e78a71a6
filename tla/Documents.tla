------------------------------- MODULE Documents -------------------------------
(***************************************************************************)
(* Everything the crates parse beyond the exchange itself: documents that  *)
(* arrive line by line and may be cut at any line, blocks, spans, mail and *)
(* the paths of requests. An input grows piece by piece, so that every     *)
(* sequence of pieces up to a bound is looked at, each together with the   *)
(* inputs it began as.                                                     *)
(***************************************************************************)
EXTENDS Lines

CONSTANTS
    PiecesOf,       \* by format, the pieces an input is made of
    MaxPieces,      \* by format, how many
    Base,           \* of the length fields of a scorpion document
    MaxLine,        \* of the gopher server
    Dirs, RegularFiles, EntryOrder  \* the served tree, and its entries in sorted order

VARIABLES
    format, input,  \* what has arrived, and of which format it is
    shown           \* what the parser makes of it

vars == <<format, input, shown>>

GT == INSTANCE Gemtext
ST == INSTANCE Scrolltext
LT == INSTANCE Listings
GM == INSTANCE GopherMenu
GO == INSTANCE Gopher
SD == INSTANCE ScorpionDocument
ML == INSTANCE Gemmail
FH == INSTANCE FileHandlers

\* What a reader has of an input: its items in order, and how many of them are settled; a
\* block that is still open may grow.
View(items, settled) == [items |-> items, settled |-> settled, fields |-> {}]
Whole(items) == View(items, Len(items))
Growing(items) == View(items, IF items = <<>> THEN 0 ELSE Len(items) - 1)
Opened(parsed) == IF parsed.open THEN Growing(parsed.items) ELSE Whole(parsed.items)

Forms(blocks) ==
    [i \in DOMAIN blocks |->
        [block |-> blocks[i], views |-> GM!ParseViews(blocks[i]), form |-> GM!ParseAsk(blocks[i])]]

\* Of a message, also the fields that are set.
Fields(mail) == {<<n, mail[n]>> : n \in {n \in {"sender", "recipients", "timestamp"} : mail[n] # <<>>}}
Letter(mail) == [Whole(mail.body) EXCEPT !.fields = Fields(mail)]

ViewOf(f, in) ==
    CASE f = "gemtext" -> Opened(GT!Parse(in))
      [] f = "scrolltext" -> Opened(ST!Parse(in))
      [] f = "listing" -> Whole(LT!ParseListing(in))
      [] f = "prompts" -> Whole(LT!ParsePrompts(in))
      [] f = "body" -> Whole(LT!ParseBody(in))
      [] f = "menu" -> Whole(GM!ParseMenu(in))
      [] f = "attributes" -> Growing(Forms(GM!ParseAttributes(in)))
      [] f = "gemmail" -> Letter(ML!ParseGemmail(ML!Join(in)))
      [] OTHER -> Whole(<<>>)

Init ==
    /\ format \in DOMAIN PiecesOf
    /\ input = <<>>
    /\ shown = ViewOf(format, <<>>)

Grow(piece) ==
    /\ Len(input) < MaxPieces[format]
    /\ input' = Append(input, piece)
    /\ shown' = ViewOf(format, Append(input, piece))
    /\ UNCHANGED format

Next == \E piece \in PiecesOf[format] : Grow(piece)

Spec == Init /\ [][Next]_vars

----------------------------------------------------------------------------
\* A longer input says more and takes nothing back: what a reader was shown of a document
\* that was cut stays true when the rest arrives. Only a block that is still open grows,
\* nothing follows the period of a menu, and a mail's metadata is what came first.
OnlyExtends ==
    [][/\ IsPrefix(SubSeq(shown.items, 1, shown.settled), shown'.items)
       /\ shown.fields \subseteq shown'.fields]_vars

----------------------------------------------------------------------------
\* The documents as an author would write their items again.
GemtextSource(item) ==
    CASE item.kind = "heading" -> << GT!Hashes(item.level) \o item.text >>
      [] item.kind = "item" -> << <<"*", SP>> \o item.text >>
      [] item.kind = "quote" -> << <<">", SP>> \o item.text >>
      [] item.kind = "link" -> << <<"=>", SP>> \o item.url \o <<SP>> \o item.label >>
      [] item.kind = "pre" -> << GT!Fence \o item.alt >> \o item.lines \o << GT!Fence >>
      [] OTHER -> << item.text >>

\* A text that would be something else without a backslash.
NeedsEscape(text) == ST!ParseLine(text) # ST!Text(text) \/ GT!Closes(text)

Repeat(c, n) == [i \in 1..n |-> c]
ScrolltextSource(item) ==
    CASE item.kind = "heading" -> << Repeat("#", item.level) \o <<SP>> \o item.text >>
      [] item.kind = "quote" -> << Repeat(">", item.level) \o <<SP>> \o item.text >>
      [] item.kind = "break" -> << ST!Break >>
      [] item.kind = "item" ->
           << Repeat("*", item.depth) \o <<SP>> \o item.ordinal
                \o (IF item.ordinal = <<>> THEN <<>> ELSE <<SP>>) \o item.text >>
      [] item.kind = "link" ->
           << <<"=>", SP>> \o item.url \o <<SP>> \o item.label
                \o (IF item.relation = <<>> THEN <<>> ELSE <<SP, "[">> \o item.relation \o <<"]">>) >>
      [] item.kind = "input" -> << <<"=:", SP>> \o item.url \o <<SP>> \o item.prompt >>
      [] item.kind = "code" -> << GT!Fence \o item.tag >> \o item.lines \o << GT!Fence >>
      [] item.kind = "text" ->
           << IF NeedsEscape(item.text) THEN <<ST!Backslash>> \o item.text ELSE item.text >>
      [] OTHER -> << <<>> >>

Rewritten(items, Source(_)) == FlattenSeq([i \in DOMAIN items |-> Source(items[i])])

\* What must be left of the lines of a document: inside a fence the lines as they are,
\* outside it the lines without their white space, and no text behind a closing fence.
\* Gemtext drops an arrow that leads nowhere, scrolltext a backslash that nothing needs.
Inside(lines, i) == Cardinality({j \in 1..(i - 1) : GT!Closes(lines[j])}) % 2 = 1
Bare(line) == SelectSeq(line, LAMBDA c : c \notin White)
Dropped(line) == format = "gemtext" /\ Bare(line) = GT!Arrow
Unforced(line) ==
    IF /\ format = "scrolltext" /\ line # <<>> /\ Head(line) = ST!Backslash
       /\ ST!IsEscapable(Tail(line)) /\ ~NeedsEscape(Tail(line))
    THEN Tail(line) ELSE line
Content(lines) ==
    LET left == Picked(lines, {i \in DOMAIN lines : Inside(lines, i) \/ ~Dropped(lines[i])})
        line(i) == CASE ~Inside(left, i) -> Bare(Unforced(left[i]))
                     [] Inside(left, i) /\ GT!Closes(left[i]) -> GT!Fence
                     [] Inside(left, i) /\ ~GT!Closes(left[i]) -> left[i]
    IN [i \in DOMAIN left |-> line(i)]
          \o (IF Inside(left, Len(left) + 1) THEN << GT!Fence >> ELSE <<>>)

\* Every line of the input is in an item, in order; and the items written out again read
\* the same.
LinesKept(Parsed(_), Source(_)) ==
    LET items == Parsed(input).items
        again == Rewritten(items, Source)
    IN Content(again) = Content(input) /\ Parsed(again).items = items

\* Every character that marks nothing is in one of the spans, in order.
Unmarked(line) == SelectSeq(line, LAMBDA c : c \notin DOMAIN ST!Toggles)
SpansKeepText ==
    Unmarked(FlattenSeq([i \in DOMAIN ST!Spans(input) |-> ST!Spans(input)[i].text])) = Unmarked(input)

\* However many bytes of a document arrive, the blocks that are whole are read, and one
\* that is not ends them with one error.
Bytes(blocks) == Len(SD!Encode(blocks))
BlocksSurvive ==
    LET bytes == SD!Encode(input)
    IN SD!Encodable(input) =>
          \A k \in 0..Len(bytes) :
             LET whole == {n \in 0..Len(input) : Bytes(SubSeq(input, 1, n)) <= k}
                 n == CHOOSE m \in whole : \A l \in whole : l <= m
             IN SD!Items(SubSeq(bytes, 1, k)) =
                   [blocks |-> SubSeq(input, 1, n), truncated |-> Bytes(SubSeq(input, 1, n)) < k]

\* A message that is rendered and parsed again is the same, except that one blank line
\* at its end is lost, and that an empty recipients line, which is not rendered, lets a
\* later one through.
MailSurvives ==
    LET mail == ML!ParseGemmail(ML!Join(input))
        again == ML!ParseGemmail(ML!ToGemtext(mail))
        first == ML!FirstLine(input, ML!IsRecipients)
    IN \/ again = mail
       \/ mail.body # <<>> /\ Last(mail.body) = LF /\ again = [mail EXCEPT !.body = Front(@)]
       \/ first # 0 /\ ML!Recipients(input[first]) = <<>>

\* A selector that a URL leaves as it is: no space, nothing that begins a query or a
\* fragment, and no segment of dots.
Verbatim(type, selector) ==
    LET segments == Split(<<type>> \o selector, "/")
    IN /\ \A i \in DOMAIN selector : selector[i] \notin White \cup {"?", "#"}
       /\ \A i \in DOMAIN segments : segments[i] \notin { <<".">>, <<".", ".">> }

\* A client that is given the URL of a menu item goes to the item's host and port, whatever
\* a Gopher+ server has put behind the port, and sends the item's selector if a URL can
\* carry it (menu.rs, fetch).
ItemsLead ==
    \A i \in DOMAIN input :
        LET line == input[i]
            fields == Split(Tail(line), TAB)
            item == GM!ParseItem(line)
            url == GO!ParseUrl(item.url)
        IN line # <<>> /\ Head(line) \notin {"i", "3", "h", "."} /\ item.kind # "none" =>
              /\ url.host = fields[3]
              /\ IF Len(fields) = 3 \/ fields[4] = <<"7", "0">> THEN url.port = <<>>
                 ELSE url.port = fields[4]
              /\ Verbatim(Head(line), fields[2]) =>
                    /\ GO!SplitPath(url.path)[1] = Head(line)
                    /\ GO!PlainLine(url) = fields[2] \o CRLF

\* Nothing of a document is lost or moved: every line and every character of a span is in
\* what the parser returns, and what is encoded is decoded, to the last byte and from any
\* part of it.
RoundTrips ==
    /\ format = "gemtext" => LinesKept(GT!Parse, GemtextSource)
    /\ format = "scrolltext" => LinesKept(ST!Parse, ScrolltextSource)
    /\ format = "spans" => SpansKeepText
    /\ format = "blocks" => BlocksSurvive
    /\ format = "gemmail" => MailSurvives
    /\ format = "menu" => ItemsLead

----------------------------------------------------------------------------
\* Where the path leads when a file system follows it: the names below the root, and
\* whether it ever leaves the root.
Follow(s, segment) ==
    CASE segment \in FH!Skipped -> s
      [] segment = <<".", ".">> ->
           IF s.names = <<>> THEN [s EXCEPT !.left = TRUE] ELSE [s EXCEPT !.names = Front(@)]
      [] OTHER -> [s EXCEPT !.names = Append(@, segment)]
Followed(path) ==
    LET segments == Split(PercentDecode(path), "/")
        state[i \in 0..Len(segments)] ==
            IF i = 0 THEN [names |-> <<>>, left |-> FALSE] ELSE Follow(state[i - 1], segments[i])
    IN state[Len(segments)]

\* The trees the handlers serve as they say. No directory has the name of an index:
\* spartan would redirect to it for ever, guppy would look for an index within the index.
\* And no name has white space in it, which ends the URL of a listing's link.
PlainTree ==
    /\ Dirs \cup RegularFiles \subseteq Seq(Seq(STRING)) /\ Dirs \cap RegularFiles = {}
    /\ EntryOrder \in Seq((Dirs \cup RegularFiles) \ {<<>>})
    /\ \A p \in (Dirs \cup RegularFiles) \ {<<>>} :
          /\ \E i \in DOMAIN EntryOrder : EntryOrder[i] = p
          /\ Last(p) # <<>> /\ \A i \in DOMAIN Last(p) : Last(p)[i] \notin White
    /\ \A dir \in Dirs \ {<<>>} : Last(dir) \notin {FH!Index("spartan"), FH!Index("guppy")}

\* What the reader of a listing finds: a link for each entry of the directory, the blank
\* line, and on top the path, which is a link itself only when it begins like one.
ListsEntries(path, dir) ==
    LET read == LT!ParseListing(FH!Listing(path, dir, EntryOrder))
        linked == {i \in DOMAIN read : read[i].kind = "link"}
    IN /\ linked \ {1} = DOMAIN read \ {1, 2}
       /\ {read[i].url : i \in linked \ {1}} =
             {Last(p) \o (IF p \in Dirs THEN <<"/">> ELSE <<>>) : p \in FH!Entries(dir)}
       /\ 1 \in linked => IsPrefix(<<"=>", SP>>, TrimEnd(path, {CR}))

\* A handler serves the file that the decoded path names and no other, refuses every path
\* that leaves the root, and redirects a directory to where its index is, not in a circle;
\* a listing names the entries of the directory, as links its reader finds again.
ServedFromRoot ==
    format = "path" =>
        \A server \in FH!Servers :
            LET got == FH!Handle(server, input, <<>>)
                names == Followed(input).names
            IN /\ Followed(input).left => got.kind = "refused"
               /\ got.kind = "file" =>
                     /\ got.path \in RegularFiles
                     /\ got.path \in {names, Append(names, FH!Index(server))}
               /\ names \in RegularFiles /\ input # <<>> /\ ~FH!EndsWithSlash(PercentDecode(input)) =>
                     got.kind \in {"refused", "file"}
               /\ got.kind = "redirect" =>
                     FH!Handle(server, got.path, <<>>) =
                        FH!ReadFile(server, Append(names, FH!Index(server)))
               /\ got.kind = "listing" => ListsEntries(input, names)
=============================================================================
