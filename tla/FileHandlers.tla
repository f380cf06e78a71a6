----------------------------- MODULE FileHandlers -----------------------------
(***************************************************************************)
(* The three static-file handlers, of spartan (files.rs), nex and guppy    *)
(* (server.rs). A path is a sequence of tokens, a resolved path a sequence *)
(* of names below the root.                                                *)
(***************************************************************************)
EXTENDS Lines

CONSTANTS Dirs, RegularFiles    \* the tree: sequences of names below the root

Servers == {"spartan", "nex", "guppy"}
Index(server) == IF server = "nex" THEN <<"index.nex">> ELSE <<"index.gmi">>

\* Mutant: the segments are looked at before they are decoded.
SegmentsRaw(path) ==
    LET pieces == Split(path, "/") IN [i \in DOMAIN pieces |-> PercentDecode(pieces[i])]

\* resolve decodes first, and splits what it has decoded.
Segments(path) == Split(PercentDecode(path), "/")

Skipped == {<<>>, <<".">>}
Refuses(segment) == segment = <<".", ".">> \/ Contains(segment, "BS") \/ Contains(segment, ":")
IsRefused(path) == \E i \in DOMAIN Segments(path) : Refuses(Segments(path)[i])

\* The names that are pushed onto the root, each of one segment.
Kept(segments) == {i \in DOMAIN segments : segments[i] \notin Skipped}
Pushed(path) == Picked(Segments(path), Kept(Segments(path)))

\* spartan and guppy append the index to a path that ends with a slash, spartan to an
\* empty one too.
EndsWithSlash(path) == path # <<>> /\ Last(path) = "/"
Resolve(server, path) ==
    LET decoded == PercentDecode(path)
    IN Pushed(path)
       \o (IF \/ server # "nex" /\ EndsWithSlash(decoded)
              \/ server = "spartan" /\ decoded = <<>>
           THEN <<Index(server)>> ELSE <<>>)

\* spartan's handler takes no uploads.
Declines(server, path, data) == IsRefused(path) \/ (server = "spartan" /\ data # <<>>)

\* handle: refused, a redirect, a file, a directory's listing, nothing there, or an error.
Outcome(kind, path) == [kind |-> kind, path |-> path]

\* A file that is not there: spartan blames the client, and itself for any other error, as
\* for a path that goes on below a file; nex and guppy have one answer.
BelowFile(path) == \E n \in 1..(Len(path) - 1) : SubSeq(path, 1, n) \in RegularFiles
Failure(server, path) == IF server = "spartan" /\ BelowFile(path) THEN "server error" ELSE "missing"
ReadFile(server, path) ==
    Outcome(IF path \in RegularFiles THEN "file" ELSE Failure(server, path), path)

HandleSpartan(path, resolved) ==
    IF resolved \in Dirs THEN Outcome("redirect", Append(path, "/")) ELSE ReadFile("spartan", resolved)
HandleGuppy(resolved) ==
    ReadFile("guppy", IF resolved \in Dirs THEN Append(resolved, Index("guppy")) ELSE resolved)
HandleNex(path, resolved) ==
    LET index == Append(resolved, Index("nex"))
    IN IF path = <<>> \/ EndsWithSlash(path) \/ resolved \in Dirs
       THEN Outcome(IF index \in RegularFiles THEN "file" ELSE "listing",
                    IF index \in RegularFiles THEN index ELSE resolved)
       ELSE ReadFile("nex", resolved)
Handle(server, path, data) ==
    LET resolved == Resolve(server, path)
    IN IF Declines(server, path, data) THEN Outcome("refused", <<>>)
       ELSE CASE server = "spartan" -> HandleSpartan(path, resolved)
              [] server = "guppy" -> HandleGuppy(resolved)
              [] server = "nex" -> HandleNex(path, resolved)

\* listing_for: the names of the directory's entries, sorted, those of directories with a
\* slash. Something that cannot be read as a directory has none.
Entries(dir) ==
    IF dir \notin Dirs THEN {}
    ELSE {p \in Dirs \cup RegularFiles : p # <<>> /\ Front(p) = dir}
EntryLinks(dir, order) ==
    LET entries == Picked(order, {i \in DOMAIN order : order[i] \in Entries(dir)})
    IN [i \in DOMAIN entries |->
           <<"=>", SP>> \o Last(entries[i]) \o (IF entries[i] \in Dirs THEN <<"/">> ELSE <<>>)]

\* The path as it was sent, or a slash, and a blank line stand above the links.
Heading(path) == IF path = <<>> THEN <<"/">> ELSE path
Listing(path, dir, order) == << Heading(path), <<>> >> \o EntryLinks(dir, order)
=============================================================================
