--------------------------------- MODULE Lines ---------------------------------
(***************************************************************************)
(* What the line protocols share: bytes as tokens, the string operations   *)
(* of the standard library they parse with, and the outcomes of a reader.  *)
(*                                                                         *)
(* A byte is a token: a separator, a digit, or a name that stands for a    *)
(* piece of text. Lengths and limits count tokens.                         *)
(***************************************************************************)
EXTENDS Integers, Sequences, SequencesExt

CR == "CR"
LF == "LF"
SP == "SP"
TAB == "TAB"
CRLF == <<CR, LF>>

\* char::is_whitespace.
White == {CR, LF, SP, TAB}

\* A byte that no UTF-8 text holds.
NotUtf8 == "xFF"
IsUtf8(s) == \A i \in DOMAIN s : s[i] # NotUtf8

----------------------------------------------------------------------------
\* str::find, trim_end_matches, trim_start_matches, split_once, split and splitn.
FirstOf(at) == IF at = {} THEN 0 ELSE CHOOSE i \in at : \A j \in at : i <= j
LastOf(at) == IF at = {} THEN 0 ELSE CHOOSE i \in at : \A j \in at : j <= i
From(s, k) == SubSeq(s, k, Len(s))

Find(s, c) == FirstOf({i \in DOMAIN s : s[i] = c})
TrimEnd(s, C) == SubSeq(s, 1, LastOf({i \in DOMAIN s : s[i] \notin C}))
TrimStart(s, C) ==
    LET k == FirstOf({i \in DOMAIN s : s[i] \notin C})
    IN IF k = 0 THEN <<>> ELSE From(s, k)
Trim(s, C) == TrimStart(TrimEnd(s, C), C)

\* The text before and after the first c; the pair is shorter when there is no c.
SplitOnce(s, c) ==
    LET k == Find(s, c)
    IN IF k = 0 THEN <<s>> ELSE <<SubSeq(s, 1, k - 1), From(s, k + 1)>>

\* The positions in order, up to n; the pieces of s between its separators.
InOrder(at, n) ==
    LET positions[i \in 0..n] ==
            IF i = 0 THEN <<>>
            ELSE IF i \in at THEN Append(positions[i - 1], i) ELSE positions[i - 1]
    IN positions[n]
Pieces(s, separators) ==
    LET bounds == <<0>> \o separators \o <<Len(s) + 1>>
    IN [i \in 1..(Len(bounds) - 1) |-> SubSeq(s, bounds[i] + 1, bounds[i + 1] - 1)]
Split(s, c) == Pieces(s, InOrder({i \in DOMAIN s : s[i] = c}, Len(s)))

\* filter: the elements at some of the positions, in order.
Picked(s, at) == LET order == InOrder(at, Len(s)) IN [i \in DOMAIN order |-> s[order[i]]]

\* At most n fields, the last of which keeps its separators.
SplitN(s, c, n) ==
    LET at == InOrder({i \in DOMAIN s : s[i] = c}, Len(s))
    IN Pieces(s, SubSeq(at, 1, IF Len(at) < n THEN Len(at) ELSE n - 1))

\* split_once(char::is_whitespace) and split_whitespace.
WhiteAt(s) == InOrder({i \in DOMAIN s : s[i] \in White}, Len(s))
SplitWhite(s) == LET at == WhiteAt(s) IN Pieces(s, SubSeq(at, 1, IF at = <<>> THEN 0 ELSE 1))
Tokens(s) == SelectSeq(Pieces(s, WhiteAt(s)), LAMBDA piece : piece # <<>>)

\* strip_prefix, and how often a character stands at the front.
After(s, prefix) == From(s, Len(prefix) + 1)
Leading(s, c) == Len(s) - Len(TrimStart(s, {c}))

\* The text before the first CRLF and what follows it.
SplitHeader(s) ==
    LET k == FirstOf({i \in 1..(Len(s) - 1) : s[i] = CR /\ s[i + 1] = LF})
    IN IF k = 0 THEN <<s>> ELSE <<SubSeq(s, 1, k - 1), From(s, k + 2)>>

----------------------------------------------------------------------------
\* Numbers: {n} and str::parse of an unsigned or a signed type.
Digits == <<"0", "1", "2", "3", "4", "5", "6", "7", "8", "9">>
IsDigit(c) == c \in {"0", "1", "2", "3", "4", "5", "6", "7", "8", "9"}
DigitValue(c) == CHOOSE n \in 0..9 : Digits[n + 1] = c

Decimal[n \in Nat] ==
    IF n < 10 THEN <<Digits[n + 1]>> ELSE Append(Decimal[n \div 10], Digits[(n % 10) + 1])

Unsigned(s) == IF s # <<>> /\ Head(s) = "+" THEN Tail(s) ELSE s
IsNumber(s) == Unsigned(s) # <<>> /\ \A i \in DOMAIN Unsigned(s) : IsDigit(Unsigned(s)[i])
Number(s) ==
    LET digits == Unsigned(s)
        value[i \in 0..Len(digits)] ==
            IF i = 0 THEN 0 ELSE 10 * value[i - 1] + DigitValue(digits[i])
    IN value[Len(digits)]

IsNegative(s) == s # <<>> /\ Head(s) = "-"
IsInteger(s) == IF IsNegative(s) THEN IsNumber(Tail(s)) /\ Head(Tail(s)) # "+" ELSE IsNumber(s)
Integer(s) == IF IsNegative(s) THEN 0 - Number(Tail(s)) ELSE Number(s)
Signed(n) == IF n < 0 THEN <<"-">> \o Decimal[0 - n] ELSE Decimal[n]

----------------------------------------------------------------------------
\* Percent-decoding: an escape is one token.
Escapes == [e \in {"%/", "%.", "%a"} |-> CASE e = "%/" -> "/" [] e = "%." -> "." [] e = "%a" -> "a"]
PercentDecode(s) == [i \in DOMAIN s |-> IF s[i] \in DOMAIN Escapes THEN Escapes[s[i]] ELSE s[i]]

----------------------------------------------------------------------------
\* What a reader makes of the bytes so far: it goes on reading, or it is done.
More == [kind |-> "more"]

\* A server hands the request to its handler, answers itself, closes the
\* connection without a reply, or gives up with an I/O error.
Ask(request) == [kind |-> "ask", request |-> request]
Answer(reply) == [kind |-> "reply", reply |-> reply]
Close == [kind |-> "close"]
Fail == [kind |-> "fail"]

\* A client returns a response or an error.
Ok(response) == [kind |-> "ok", response |-> response]
Err(error) == [kind |-> "error", error |-> error]

\* A reader that waits for the end of the stream.
AtEnd(end, outcome) ==
    CASE end = "eof" -> outcome
      [] end = "error" -> Err("io")
      [] OTHER -> More

\* A server has a whole line; its stream may end before that, and with an error it is
\* dropped; and where a request must be whole, so it is at any end.
HasLine(bytes) == bytes # <<>> /\ Last(bytes) = LF
AtClose(end, outcome) ==
    CASE end = "eof" -> outcome
      [] end = "error" -> Fail
      [] OTHER -> More
UnlessEnded(end) == IF end = "open" THEN More ELSE Fail

\* A header read byte by byte: a line feed or the end of the stream ends it.
Line(text, rest) == [kind |-> "line", text |-> text, rest |-> rest]
ReadLine(bytes, end, limit) ==
    LET parts == SplitOnce(bytes, LF)
    IN CASE Len(parts[1]) > limit -> Err("protocol")
         [] Len(parts[1]) <= limit /\ Len(parts) = 2 ->
              IF IsUtf8(parts[1]) THEN Line(parts[1], parts[2]) ELSE Err("protocol")
         [] Len(parts[1]) <= limit /\ Len(parts) = 1 ->
              AtEnd(end, IF IsUtf8(bytes) THEN Line(bytes, <<>>) ELSE Err("protocol"))

\* The body of a declared length as take(n).read_to_end leaves it: no more than n bytes,
\* and fewer when the stream ends early.
Take(rest, n) == SubSeq(rest, 1, IF n < Len(rest) THEN n ELSE Len(rest))
TakeEnds(rest, n, end) == Len(rest) >= n \/ end = "eof"

\* The end of a stream as read sees it: bytes may still come, zero bytes, or an error.
Ends == {"open", "eof", "error"}
=============================================================================
