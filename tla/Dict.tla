--------------------------------- MODULE Dict ---------------------------------
(***************************************************************************)
(* The DICT session of crates/dict-protocol: status lines, quoting and     *)
(* dot-stuffed text blocks (wire.rs), and the client's Session, which      *)
(* issues one command after another over a connection that stays open      *)
(* (client.rs). A session outlives a call that failed or was dropped, and  *)
(* what that call left unread is what the next one reads.                  *)
(*                                                                         *)
(* The server is external: it reads commands by the grammar of RFC 2229,   *)
(* not by the client's, answers them in order, line by line, and may close *)
(* the connection within any line. A line is a sequence of tokens without  *)
(* its line end, which every reader here trims.                            *)
(***************************************************************************)
EXTENDS Lines

CONSTANTS
    Commands,       \* the calls a user of the session may make
    Answers,        \* what the server may have to say, by operation
    MaxLine,        \* MAX_LINE, the longest command
    MaxCalls,       \* how many calls a session sees
    Cuts            \* how much of a line may be written when a call is dropped within it

ASSUME DictAssumption == {MaxLine, MaxCalls} \subseteq Nat /\ Cuts \subseteq Nat

VARIABLES
    call,           \* pc, the command, the lines and definitions read so far, the result
    up,             \* the command lines the server has not read
    half,           \* what a call dropped while it was writing has left of its line
    answered,       \* every command the server has read, with its answer
    pending,        \* the lines of that answer still to be written
    down,           \* the lines the client has not read, and whether the stream has ended
    made,           \* the commands sent, in order
    astray          \* a call ended in the middle of its command or of its response

vars == <<call, up, half, answered, pending, down, made, astray>>

----------------------------------------------------------------------------
Quotation == "QT"
Apostrophe == "AP"
Backslash == "BS"
Dot == "."

\* The characters: any token, and by name the ones that the definitions here write.
Chars ==
    STRING \cup {Quotation, Apostrophe, Backslash, Dot, SP, CR, "0", "1", "2", "3", "5",
                 "SHOW", "DB", "STRAT", "DEFINE", "MATCH", "CLIENT", "QUIT"}

\* Mutant: a quotation mark is not escaped.
EscapeBackslash(param) ==
    FlattenSeq([i \in DOMAIN param |->
                   IF param[i] = Backslash THEN <<Backslash, param[i]>> ELSE <<param[i]>>])

Escape(param) ==
    FlattenSeq([i \in DOMAIN param |->
                   IF param[i] \in {Backslash, Quotation} THEN <<Backslash, param[i]>> ELSE <<param[i]>>])

\* quote: only a parameter that would split, or vanish, is quoted.
Quoted(param) == param = <<>> \/ \E i \in DOMAIN param : param[i] \in White \cup {Quotation}
Quote(param) ==
    IF Quoted(param) THEN <<Quotation>> \o Escape(param) \o <<Quotation>> ELSE param

\* What opens and closes a quoted text, and whether a backslash escapes outside of one, too:
\* for split_params, which reads what a server writes, and, external, for a server that
\* reads commands by RFC 2229 (its dqstring, sqstring and quoted-pair).
ClientGrammar == [marks |-> {Quotation}, everywhere |-> FALSE]
ServerGrammar == [marks |-> {Quotation, Apostrophe}, everywhere |-> TRUE]

\* split_params: the variables of the loop, a parameter that is complete, one character,
\* and all the characters of a text. "within" is the mark that opened the quoted text.
Outside == "none"
SplitStart ==
    [params |-> <<>>, current |-> <<>>, within |-> Outside, escaped |-> FALSE, started |-> FALSE]
SplitPush(s) ==
    IF s.started \/ s.current # <<>>
    THEN [s EXCEPT !.params = Append(@, s.current), !.current = <<>>, !.started = FALSE]
    ELSE s
SplitStep(grammar, s, c) ==
    LET escapes == c = Backslash /\ (s.within # Outside \/ grammar.everywhere)
        opens == c \in grammar.marks /\ s.within = Outside
        closes == c \in grammar.marks /\ s.within = c
    IN CASE s.escaped -> [s EXCEPT !.current = Append(@, c), !.escaped = FALSE]
         [] ~s.escaped /\ escapes -> [s EXCEPT !.escaped = TRUE]
         [] ~s.escaped /\ opens -> [s EXCEPT !.within = c, !.started = TRUE]
         [] ~s.escaped /\ closes -> [s EXCEPT !.within = Outside, !.started = TRUE]
         [] ~s.escaped /\ c \in White /\ s.within = Outside -> SplitPush(s)
         [] OTHER -> [s EXCEPT !.current = Append(@, c)]
SplitRun(grammar, start, text) ==
    LET state[i \in 0..Len(text)] ==
            IF i = 0 THEN start ELSE SplitStep(grammar, state[i - 1], text[i])
    IN state[Len(text)]
SplitAs(grammar, text) == SplitPush(SplitRun(grammar, SplitStart, text)).params
SplitParams(text) == SplitAs(ClientGrammar, text)

\* Mutant: the client forgets the stuffing.
UnstuffNothing(line) == line

\* unstuff and stuff.
Unstuff(line) ==
    IF Len(line) >= 2 /\ line[1] = Dot /\ line[2] = Dot THEN Tail(line) ELSE line

Stuff(line) == IF line # <<>> /\ Head(line) = Dot THEN <<Dot>> \o line ELSE line

IsTerminator(line) == line = <<Dot>>

\* parse_status.
IsStatus(line) == Len(line) >= 3 /\ \A i \in 1..3 : IsDigit(line[i])
Code(line) == SubSeq(line, 1, 3)
Text(line) == TrimStart(From(line, 4), White)
IsSuccess(code) == code[1] = "2"

DatabasesFollow == <<"1", "1", "0">>
StrategiesFollow == <<"1", "1", "1">>
DefinitionsFollow == <<"1", "5", "0">>
DefinitionFollows == <<"1", "5", "1">>
MatchesFollow == <<"1", "5", "2">>
Banner == <<"2", "2", "0">>
OkCode == <<"2", "5", "0">>
NoMatch == <<"5", "5", "2">>

\* parse_databases, parse_matches and parse_definition_header.
Param(params, i) == IF i <= Len(params) THEN params[i] ELSE <<>>
Entry(name, text) == [name |-> name, text |-> text]
Keeps(op, params) ==
    IF op = "matches" THEN Len(params) >= 2 ELSE params # <<>> /\ params[1] # <<>>
ParseEntries(op, lines) ==
    LET entries[i \in 0..Len(lines)] ==
            IF i = 0 THEN <<>>
            ELSE LET params == SplitParams(lines[i])
                 IN IF Keeps(op, params)
                    THEN Append(entries[i - 1], Entry(params[1], Param(params, 2)))
                    ELSE entries[i - 1]
    IN entries[Len(lines)]

Definition(params, text) ==
    [word |-> params[1], database |-> params[2], description |-> Param(params, 3), text |-> text]
GoodHeader(params) == Len(params) >= 2

----------------------------------------------------------------------------
\* A command is [op, params]; the line of it, as the methods of Session format it.
Words == [databases |-> <<"SHOW", SP, "DB">>, strategies |-> <<"SHOW", SP, "STRAT">>,
          define |-> <<"DEFINE">>, matches |-> <<"MATCH">>, announce |-> <<"CLIENT">>,
          quit |-> <<"QUIT">>]
CommandLine(command) ==
    Words[command.op]
        \o FlattenSeq([i \in DOMAIN command.params |->
                          <<SP>> \o (IF command.op = "announce" THEN command.params[i]
                                     ELSE Quote(command.params[i]))])

\* What a method does with its first status: a block follows, definitions follow, there
\* is nothing to report, or the server has refused.
Follows == [databases |-> DatabasesFollow, strategies |-> StrategiesFollow,
            matches |-> MatchesFollow]
Nothing == [databases |-> <<"5", "5", "4">>, strategies |-> <<"5", "5", "5">>,
            matches |-> NoMatch, define |-> NoMatch]

Idle(result) ==
    [pc |-> "idle", command |-> [op |-> "quit", params |-> <<>>], lines |-> <<>>,
     header |-> <<>>, definitions |-> <<>>, result |-> result]
Refused(code) == [kind |-> "refused", code |-> code]

Init ==
    /\ call = [Idle(More) EXCEPT !.pc = "banner"]
    /\ up = <<>>
    /\ half = <<>>
    /\ answered = <<>>
    /\ pending \in {<<Banner>>, << <<"5", "3", "0">> >>}
    /\ down = [lines |-> <<>>, ended |-> FALSE]
    /\ made = <<>>
    /\ astray = FALSE

----------------------------------------------------------------------------
\* A call returns; the session is as far into the stream as the call was.
Return(result) ==
    call' = [Idle(result) EXCEPT !.command = call.command,
                                 !.pc = IF call.command.op = "quit" THEN "over" ELSE "idle"]
InStep == UNCHANGED astray
LosesStep == astray' = TRUE

Sending == call.pc = "idle" /\ Len(made) < MaxCalls
TooLong(command) == Len(CommandLine(command)) + 2 > MaxLine
Gives(command, result) ==
    call' = [Idle(result) EXCEPT !.command = command,
                                 !.pc = IF command.op = "quit" THEN "over" ELSE "idle"]

\* A line of which part was left by the call before.
Torn == [op |-> "torn", params |-> <<>>]

\* command: a line that is too long is refused before it is sent.
Send(command) ==
    /\ Sending
    /\ IF TooLong(command)
       THEN Gives(command, Err("protocol")) /\ UNCHANGED <<up, half, made>>
       ELSE /\ call' = [Idle(More) EXCEPT !.pc = "status", !.command = command]
            /\ up' = Append(up, half \o CommandLine(command))
            /\ made' = Append(made, IF half = <<>> THEN command ELSE Torn)
            /\ half' = <<>>
    /\ UNCHANGED <<answered, pending, down, astray>>

\* The caller drops the call while write_all waits: some of the line has been written, or
\* nothing, and the line end has not. Bound: only a session in step leaves a line unfinished.
DropSend(command) ==
    /\ Sending /\ ~TooLong(command) /\ ~astray
    /\ \E k \in Cuts :
          /\ k <= Len(CommandLine(command)) + 1
          /\ half' = SubSeq(Append(CommandLine(command), CR), 1, k)
          /\ astray' = (k > 0)
    /\ Gives(command, Err("dropped"))
    /\ UNCHANGED <<up, answered, pending, down, made>>

\* The connection is gone, and the write fails; nobody reads what it has written.
SendFails(command) ==
    /\ Sending /\ ~TooLong(command) /\ down.ended
    /\ Gives(command, Err("io"))
    /\ UNCHANGED <<up, half, answered, pending, down, made, astray>>

\* The first status of a response.
ReadFirst(line) ==
    LET op == call.command.op
        code == Code(line)
    IN \/ ~IsStatus(line) /\ Return(Err("protocol")) /\ LosesStep
       \/ /\ IsStatus(line) /\ InStep
          /\ CASE op \in DOMAIN Follows /\ code = Follows[op] ->
                    call' = [call EXCEPT !.pc = "block"]
               [] op = "define" /\ code = DefinitionsFollow ->
                    call' = [call EXCEPT !.pc = "definitions"]
               [] op \in DOMAIN Nothing /\ code = Nothing[op] -> Return(Ok(<<>>))
               [] op \in {"announce", "quit"} /\ IsSuccess(code) -> Return(Ok(<<>>))
               [] OTHER -> Return(Refused(code))

\* Mutant: a command is done with the last line of its block.
AfterBlockAtOnce(lines) == Return(Ok(ParseEntries(call.command.op, lines)))

\* The block is whole: a definition joins the others, a list waits for its 250.
AfterBlock(lines) ==
    IF call.command.op = "define"
    THEN call' = [call EXCEPT !.pc = "definitions", !.lines = <<>>,
                              !.definitions = Append(@, Definition(call.header, lines))]
    ELSE call' = [call EXCEPT !.pc = "closing"]

\* read_text_block.
ReadBlock(line) ==
    /\ IF IsTerminator(line)
       THEN AfterBlock(call.lines)
       ELSE call' = [call EXCEPT !.lines = Append(@, Unstuff(line))]
    /\ InStep

\* The loop of define: the header of a definition, or the end.
ReadDefinition(line) ==
    LET code == Code(line)
        params == SplitParams(Text(line))
    IN \/ ~IsStatus(line) /\ Return(Err("protocol")) /\ LosesStep
       \/ /\ IsStatus(line) /\ code = DefinitionFollows /\ GoodHeader(params)
          /\ call' = [call EXCEPT !.pc = "block", !.header = params] /\ InStep
       \/ /\ IsStatus(line) /\ code = DefinitionFollows /\ ~GoodHeader(params)
          /\ Return(Err("protocol")) /\ LosesStep
       \/ /\ IsStatus(line) /\ code # DefinitionFollows /\ InStep
          /\ Return(IF IsSuccess(code) THEN Ok(call.definitions) ELSE Refused(code))

\* expect_ok.
ReadClosing(line) ==
    \/ ~IsStatus(line) /\ Return(Err("protocol")) /\ LosesStep
    \/ /\ IsStatus(line) /\ InStep
       /\ Return(IF IsSuccess(Code(line))
                 THEN Ok(ParseEntries(call.command.op, call.lines))
                 ELSE Refused(Code(line)))

\* over: a session begins with a banner.
ReadBanner(line) ==
    /\ call' = IF IsStatus(line) /\ Code(line) = Banner
               THEN Idle(More) ELSE [Idle(Err("protocol")) EXCEPT !.pc = "over"]
    /\ InStep

\* read_line, and what the call makes of the line.
Read ==
    LET line == Head(down.lines)
    IN /\ down.lines # <<>>
       /\ down' = [down EXCEPT !.lines = Tail(@)]
       /\ \/ call.pc = "banner" /\ ReadBanner(line)
          \/ call.pc = "status" /\ ReadFirst(line)
          \/ call.pc = "block" /\ ReadBlock(line)
          \/ call.pc = "definitions" /\ ReadDefinition(line)
          \/ call.pc = "closing" /\ ReadClosing(line)
       /\ UNCHANGED <<up, half, answered, pending, made>>

\* The stream has ended.
ReadEnd ==
    /\ call.pc \notin {"idle", "over"} /\ down.lines = <<>> /\ down.ended
    /\ IF call.pc = "banner" THEN call' = [Idle(Err("protocol")) EXCEPT !.pc = "over"]
       ELSE Return(Err("protocol"))
    /\ LosesStep
    /\ UNCHANGED <<up, half, answered, pending, down, made>>

\* The caller drops the call before it has returned, a timeout for one; the session stays.
\* (Part of a line that read_line holds is lost with it; nothing is said of what is read after.)
Drop ==
    /\ call.pc \in {"status", "block", "definitions", "closing"}
    /\ Return(Err("dropped"))
    /\ LosesStep
    /\ UNCHANGED <<up, half, answered, pending, down, made>>

----------------------------------------------------------------------------
\* External: an answer is a single status, a list, definitions, or lines out of grammar,
\* and the code that ends it.
Row(entry) == Quote(entry.name) \o <<SP>> \o Quote(entry.text)
Block(lines) == [i \in DOMAIN lines |-> Stuff(lines[i])] \o << <<Dot>> >>
DefinitionLines(d) ==
    << DefinitionFollows \o <<SP>> \o Quote(d.word) \o <<SP>> \o Quote(d.database)
           \o <<SP>> \o Quote(d.description) >> \o Block(d.text)
AnswerLines(op, answer) ==
    CASE answer.kind = "code" -> <<answer.end>>
      [] answer.kind = "list" ->
           <<Follows[op]>> \o Block([i \in DOMAIN answer.list |-> Row(answer.list[i])]) \o <<answer.end>>
      [] answer.kind = "definitions" ->
           <<DefinitionsFollow>>
               \o FlattenSeq([i \in DOMAIN answer.list |-> DefinitionLines(answer.list[i])])
               \o <<answer.end>>
      [] answer.kind = "broken" -> answer.lines

\* A call is made with text of one line.
ASSUME CommandsAssumption ==
    \A c \in Commands : c \in [op : DOMAIN Words, params : Seq(Seq(Chars \ {CR, LF}))]

\* What RFC 2229 lets a server answer: one status that announces nothing more, or a list
\* or definitions and the status that ends them.
DefinitionRecord == [word : Seq(Chars), database : Seq(Chars), description : Seq(Chars),
                     text : Seq(Seq(Chars))]
InGrammar(op, answer) ==
    /\ answer.end \in Seq(Chars) /\ Len(answer.end) = 3 /\ IsStatus(answer.end)
    /\ \/ /\ answer.kind = "code" /\ answer.end # DefinitionsFollow
          /\ op \in DOMAIN Follows => answer.end # Follows[op]
       \/ /\ answer.kind = "list" /\ op \in DOMAIN Follows
          /\ answer.list \in Seq([name : Seq(Chars), text : Seq(Chars)])
          /\ op # "matches" => \A i \in DOMAIN answer.list : answer.list[i].name # <<>>
       \/ /\ answer.kind = "definitions" /\ op = "define" /\ answer.end # DefinitionFollows
          /\ answer.list \in Seq(DefinitionRecord)

\* A response that goes wrong, in its first line or where its first definition begins.
OutOfGrammar(op, answer) ==
    /\ answer.kind = "broken" /\ answer.lines \in Seq(Seq(Chars)) /\ answer.lines # <<>>
    /\ \/ ~IsStatus(answer.lines[1])
       \/ /\ op = "define" /\ answer.lines[1] = DefinitionsFollow /\ Len(answer.lines) >= 2
          /\ \/ ~IsStatus(answer.lines[2])
             \/ /\ Code(answer.lines[2]) = DefinitionFollows
                /\ ~GoodHeader(SplitParams(Text(answer.lines[2])))

ASSUME AnswersAssumption ==
    \A op \in DOMAIN Words : \A answer \in Answers[op] :
        InGrammar(op, answer) \/ OutOfGrammar(op, answer)

\* The command as a server reads it: the words of a command it knows, as they stand or
\* with parameters after them.
Begins(words, line) ==
    IsPrefix(words, line) /\ (Len(line) = Len(words) \/ line[Len(words) + 1] \in White)
ReadCommand(line) ==
    LET known == {op \in DOMAIN Words : Begins(Words[op], line)}
        op == CHOOSE o \in known : TRUE
    IN IF known = {} THEN [op |-> "unknown", params |-> <<>>]
       ELSE [op |-> op, params |-> SplitAs(ServerGrammar, From(line, Len(Words[op]) + 1))]

Unrecognised == [kind |-> "code", end |-> <<"5", "0", "0">>]
AnswersTo(op) == IF op = "unknown" THEN {Unrecognised} ELSE Answers[op]

ServerAnswers ==
    /\ up # <<>> /\ pending = <<>> /\ ~down.ended
    /\ LET command == ReadCommand(Head(up))
       IN \E answer \in AnswersTo(command.op) :
             /\ answered' = Append(answered, [command |-> command, answer |-> answer])
             /\ pending' = AnswerLines(command.op, answer)
    /\ up' = Tail(up)
    /\ UNCHANGED <<call, half, down, made, astray>>

ServerWrites ==
    /\ pending # <<>> /\ ~down.ended
    /\ down' = [down EXCEPT !.lines = Append(@, Head(pending))]
    /\ pending' = Tail(pending)
    /\ UNCHANGED <<call, up, half, answered, made, astray>>

\* The connection ends, with part of the next line or without.
ServerCloses ==
    /\ ~down.ended
    /\ down' = [down EXCEPT !.ended = TRUE]
       \/ \E k \in 1..(IF pending = <<>> THEN 0 ELSE Len(Head(pending))) :
             down' = [lines |-> Append(down.lines, SubSeq(Head(pending), 1, k)), ended |-> TRUE]
    /\ pending' = <<>>
    /\ UNCHANGED <<call, up, half, answered, made, astray>>

Next ==
    \/ \E command \in Commands : Send(command) \/ DropSend(command) \/ SendFails(command)
    \/ Read \/ ReadEnd \/ Drop
    \/ ServerAnswers \/ ServerWrites \/ ServerCloses

Spec == Init /\ [][Next]_vars

----------------------------------------------------------------------------
\* What a call should return for an answer that arrived whole.
Meaning(op, answer) ==
    CASE answer.kind = "code" /\ \/ op \in DOMAIN Nothing /\ answer.end = Nothing[op]
                                 \/ op \in {"announce", "quit"} /\ IsSuccess(answer.end)
           -> Ok(<<>>)
      [] answer.kind \in {"list", "definitions"} /\ IsSuccess(answer.end) -> Ok(answer.list)
      [] OTHER -> Refused(answer.end)

Returned == call.pc \in {"idle", "over"} /\ call.result.kind \in {"ok", "refused"}

\* A call that returns a value returns the answer to its own command, with the stuffing
\* and the quoting undone, as long as no earlier call ended within its command or its
\* response. That holds however the stream is cut: a truncated response is never a shorter result.
AnswersOwn ==
    Returned /\ ~astray =>
        /\ Len(answered) = Len(made)
        /\ call.result = Meaning(call.command.op, answered[Len(made)].answer)

\* Between calls the session is at the end of a response, unless a call lost its place:
\* no path through a response that the grammar allows leaves a line unread, refusals and
\* commands that are too long included.
BetweenResponses ==
    call.pc \in {"idle", "over"} /\ ~astray /\ made # <<>> =>
        /\ up = <<>> /\ down.lines = <<>>
        /\ answered # <<>> /\ answered[Len(answered)].answer.kind # "broken" => pending = <<>>

\* What quote leaves as it is holds no quotation mark and no backslash of the grammar.
Survives(grammar, param) ==
    Quoted(param)
        \/ \A i \in DOMAIN param : /\ param[i] \notin grammar.marks
                                   /\ grammar.everywhere => param[i] # Backslash

\* A server that reads by RFC 2229 reads the command that was meant: its words whatever its
\* parameters contain, and each parameter unless it holds an apostrophe or a backslash and
\* nothing that makes quote protect it. Only a line that a dropped call began is excepted.
CommandAsMeant ==
    \A i \in DOMAIN answered : made[i] # Torn =>
        /\ answered[i].command.op = made[i].op
        /\ made[i].op # "announce"
              /\ (\A j \in DOMAIN made[i].params : Survives(ServerGrammar, made[i].params[j]))
           => answered[i].command.params = made[i].params
=============================================================================
