-------------------------------- MODULE MCDict --------------------------------
(***************************************************************************)
(* Commands and answers at the edges of quoting, stuffing and the grammar. *)
(***************************************************************************)
EXTENDS Dict

Command(op, params) == [op |-> op, params |-> params]
MCCommands ==
    {Command(op, <<>>) : op \in {"databases", "strategies", "quit"}}
    \cup {Command("define", << <<"*">>, <<"w">> >>), Command("define", << <<>>, <<"a", SP, "b">> >>),
           Command("define", << <<Backslash>>, <<Quotation, Backslash, Apostrophe>> >>),
           Command("define", << <<"*">>, <<"n", Apostrophe, "t">> >>),
           Command("define", << <<"*">>, <<"w", "w", "w", "w", "w", "w", "w", "w">> >>)}
    \cup {Command("matches", << <<"*">>, <<".">>, <<Quotation>> >>), Command("announce", << <<"me">> >>)}

One(code) == [kind |-> "code", end |-> code]
List(list, code) == [kind |-> "list", list |-> list, end |-> code]
Definitions(list, code) == [kind |-> "definitions", list |-> list, end |-> code]
Broken(lines) == [kind |-> "broken", lines |-> lines, end |-> <<>>]
Def(text) == Definition(<< <<"w">>, <<"d">>, <<"a", SP, "b">> >>, text)
Shutdown == <<"4", "2", "0">>

MCAnswers ==
    [databases |-> {List(<<Entry(<<"d">>, <<"a", SP, Quotation>>), Entry(<<".">>, <<>>)>>, OkCode),
                    List(<<>>, Shutdown), One(<<"5", "5", "4">>)},
     strategies |-> {List(<<Entry(<<"s">>, <<"t">>)>>, OkCode), One(<<"5", "5", "5">>)},
     matches |-> {List(<<Entry(<<"d">>, <<>>)>>, OkCode), One(NoMatch), One(<<"5", "5", "1">>)},
     define |-> {Definitions(<<Def(<< <<>>, <<Dot>>, <<Dot, Dot>>, <<"2", "5", "0">> >>), Def(<<>>)>>, OkCode),
                 Definitions(<<Def(<< <<Dot, "x">> >>)>>, Shutdown),
                 One(NoMatch), One(<<"5", "5", "0">>),
                 Broken(<<DefinitionsFollow, DefinitionFollows \o <<SP, "w">>, <<"x">>, <<Dot>>, OkCode>>),
                 Broken(<< <<"x">>, NoMatch >>)},
     announce |-> {One(OkCode), One(<<"5", "0", "2">>)},
     quit |-> {One(<<"2", "2", "1">>)}]
=============================================================================
