-------------------------------- MODULE Gemmail --------------------------------
(***************************************************************************)
(* crates/misfin/src/gemmail.rs, with MisfinAddress::parse of lib.rs and   *)
(* split_once_whitespace of helpers.rs: a message is its sender, its       *)
(* recipients, its timestamp and a body; None is the empty sequence.       *)
(***************************************************************************)
EXTENDS Lines

\* str::to_ascii_lowercase of a host.
Lower(s) == [i \in DOMAIN s |-> IF s[i] = "H" THEN "h" ELSE s[i]]

\* MisfinAddress::parse: both halves of the address are needed.
IsAddress(text) ==
    LET halves == SplitOnce(text, "@")
    IN Len(halves) = 2 /\ halves[1] # <<>> /\ halves[2] # <<>>
Address(text) ==
    LET halves == SplitOnce(text, "@")
    IN [mailbox |-> halves[1], host |-> Lower(halves[2])]
AddrSpec(address) == address.mailbox \o <<"@">> \o address.host

\* What follows the mark of a metadata line.
Marked(line, mark) == line # <<>> /\ Head(line) = mark
Rest(line) == Trim(Tail(line), White)

\* parse_sender_line, parse_recipients_line and parse_timestamp_line.
IsSender(line) == Marked(line, "<") /\ Rest(line) # <<>> /\ IsAddress(SplitWhite(Rest(line))[1])
Sender(line) ==
    LET words == SplitWhite(Rest(line))
    IN [address |-> Address(words[1]),
        blurb |-> IF Len(words) = 2 THEN Trim(words[2], White) ELSE <<>>]
IsRecipients(line) ==
    Marked(line, ":") /\ \A i \in DOMAIN Tokens(Rest(line)) : IsAddress(Tokens(Rest(line))[i])
Recipients(line) ==
    [i \in DOMAIN Tokens(Rest(line)) |-> Address(Tokens(Rest(line))[i])]
IsTimestamp(line) == Marked(line, "@") /\ Rest(line) # <<>>

\* The first line each test accepts.
FirstLine(lines, Is(_)) == FirstOf({i \in DOMAIN lines : Is(lines[i])})

\* Mutant: a later line of a kind replaces an earlier one.
LastOfEach(lines) ==
    [sender |-> LastOf({i \in DOMAIN lines : IsSender(lines[i])}),
     recipients |-> LastOf({i \in DOMAIN lines : IsRecipients(lines[i])}),
     timestamp |-> LastOf({i \in DOMAIN lines : IsTimestamp(lines[i])})]

\* The lines that are metadata and leave the body: only the first of each kind.
FirstOfEach(lines) ==
    [sender |-> FirstLine(lines, IsSender), recipients |-> FirstLine(lines, IsRecipients),
     timestamp |-> FirstLine(lines, IsTimestamp)]

\* str::join and str::lines.
Join(lines) ==
    FlattenSeq([i \in DOMAIN lines |-> IF i = 1 THEN lines[i] ELSE <<LF>> \o lines[i]])
TextLines(text) ==
    LET pieces == Split(text, LF)
    IN IF Last(pieces) = <<>> THEN Front(pieces) ELSE pieces

\* parse_gemmail.
Subject(lines) ==
    LET heading(line) == {n \in 1..3 : IsPrefix([i \in 1..n |-> "#"] \o <<SP>>, line)}
        at == FirstLine(lines, LAMBDA line : heading(line) # {})
    IN IF at = 0 THEN <<>>
       ELSE Trim(From(lines[at], (CHOOSE n \in heading(lines[at]) : TRUE) + 2), White)
ParseGemmail(text) ==
    LET texts == TextLines(text)
        lines == [i \in DOMAIN texts |-> TrimEnd(texts[i], {CR})]
        at == FirstOfEach(lines)
        kept == InOrder({i \in DOMAIN lines : \A kind \in DOMAIN at : i # at[kind]}, Len(lines))
        body == [i \in DOMAIN kept |-> lines[kept[i]]]
    IN [sender |-> IF at.sender = 0 THEN <<>> ELSE <<Sender(lines[at.sender])>>,
        recipients |-> IF at.recipients = 0 THEN <<>> ELSE Recipients(lines[at.recipients]),
        timestamp |-> IF at.timestamp = 0 THEN <<>> ELSE Rest(lines[at.timestamp]),
        subject |-> Subject(body), body |-> Join(body)]

\* to_gemtext: every field that is there on a line of its own, then the body.
ToGemtext(mail) ==
    (IF mail.sender = <<>> THEN <<>>
     ELSE <<"<", SP>> \o AddrSpec(mail.sender[1].address)
          \o (IF mail.sender[1].blurb = <<>> THEN <<>> ELSE <<SP>> \o mail.sender[1].blurb) \o <<LF>>)
    \o (IF mail.recipients = <<>> THEN <<>>
        ELSE <<":">> \o FlattenSeq([i \in DOMAIN mail.recipients |->
                                       <<SP>> \o AddrSpec(mail.recipients[i])]) \o <<LF>>)
    \o (IF mail.timestamp = <<>> THEN <<>> ELSE <<"@", SP>> \o mail.timestamp \o <<LF>>)
    \o mail.body
=============================================================================
