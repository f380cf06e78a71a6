------------------------------ MODULE MCDocuments ------------------------------
(***************************************************************************)
(* The lines, blocks and characters that Documents is checked with: every  *)
(* prefix a format knows, what almost is one, and a small tree of files.   *)
(***************************************************************************)
EXTENDS Documents

Backslash == "BS"
B(type, attribute, body) == SD!Block(type, <<"pc", 0>>, attribute, body)

MCPieces ==
    [gemtext |-> {<<>>, <<"x">>, <<"#", "#", SP, "x">>, <<"#", "x">>, <<"=>", SP, "u", SP, SP, "l">>, <<"=>", "u">>, <<"=>">>,
                  <<"*", SP>>, <<">", SP, "x">>, <<"FENCE">>, <<"FENCE", SP, "a">>},
     scrolltext |-> {<<SP>>, <<"FENCE", "a">>, <<"#", "#", "#", "#", "#", "x">>, <<"#", SP, "#">>,
                     <<"#", "#", "#", "#", "#", "#">>, <<">", ">", "x">>, <<"*", SP, "1", ".", "a">>,
                     <<"*", "*", SP, SP, "a", ".">>, <<"*", "x">>, <<"*", "*", "*", "*", "*", SP>>, <<"---">>,
                     <<Backslash, "---">>, <<Backslash, "#", "x">>, <<Backslash, Backslash, ">">>,
                     <<Backslash, "FENCE">>, <<Backslash, "*", "x">>, <<"=>">>, <<"=>", "u", SP, "l", SP, "[", "-", "t", "]">>,
                     <<"=>", "u", SP, "[", "]">>, <<"=>", "u", SP, "[", "+", "]">>, <<"=:", "u", TAB, "q">>},
     listing |-> {<<"=>", SP, "u">>, <<"=>", "u">>, <<"=>", SP, SP>>, <<"=>", SP, "u", SP, "l", CR>>, <<"x", CR>>},
     prompts |-> {<<"=:", "u">>, <<"=:", SP>>, <<"=:", SP, "u", TAB, "l">>, <<"x">>},
     body |-> {<<"=>">>, <<"=>", "u", SP, "k", "=", "v", SP, "=", SP, "k", "=">>, <<"=>", SP, "u", TAB, "l">>, <<"x">>},
     menu |-> {<<>>, <<".">>, <<"i", "x">>, <<"0", "d", TAB, "s", TAB, "h", TAB, "7", "0">>,
               <<"7", TAB, TAB, "h", TAB, "7", TAB, "+">>, <<"1", "d", TAB, "s", TAB, "h", TAB, "7", "0", TAB, "?", "?">>,
               <<"0", "d", TAB, "/", "s", "/", TAB, "h", TAB, "7">>, <<"0", "d", TAB, "s", SP, "t", TAB, "h", TAB, "7">>,
               <<"1", "d", TAB, "/", ".", ".", "/", "s", TAB, "h", TAB, "7">>, <<"1", "d", TAB, "s", "?", "q", TAB, "h", TAB, "7">>,
               <<"1", "d", TAB, "s", "#", "/", "?", TAB, "h", TAB, "7">>, <<"h", "d", TAB, "URL:", "u">>, <<"h", "d">>, <<"1", "d", TAB, "s">>, <<"1", "d", TAB, "s", TAB, "h">>},
     attributes |-> {<<".">>, <<"x">>, <<"+", "INFO", ":", SP, "i">>, <<"+", "VIEWS">>,
                     <<SP, "m", SP, "De", ":", SP, "n">>, <<SP, ":", "n">>,
                     <<SP, "Choose", ":", SP, "q", TAB, "y", TAB, TAB, "n">>, <<SP, "Ask", ":", "q">>},
     gemmail |-> {<<>>, <<"<", SP, "a", "@", "H", SP, "n">>, <<"<", "a">>, <<"<", "b", "@", "h">>, <<":">>,
                  <<":", SP, "a", "@", "h", SP, "b", "@", "h">>, <<":", "a">>, <<"@", SP, "t">>, <<"@">>,
                  <<"#", SP, "s">>, <<"x", CR>>},
     spans |-> {"a", SP, "*", "_", "TICK", "."},
     blocks |-> {B(<<"paragraph", 0>>, <<>>, <<>>), B(<<"heading", 6>>, <<1>>, <<7>>),
                 B(<<"link", 0>>, <<1, 0, 1>>, <<0, 0, 0, 0, 0, 0, 0>>), B(<<"unknown", 7>>, <<>>, <<1, 1>>),
                 B(<<"link", 0>>, <<1, 1, 1, 1>>, <<>>),
                 SD!Block(<<"metadata", 0>>, <<"unknown", 15>>, <<>>, <<2, 2, 2, 2, 2, 2, 2, 2>>)},
     path |-> {"/", ".", "%.", "%/", "a", "%a", "c", ":", "=>", SP}]

MCMaxPieces == [f \in DOMAIN MCPieces |-> CASE f \in {"scrolltext"} -> 3 [] f \in {"spans", "path"} -> 5 [] OTHER -> 4]

\* /  a/  a/a (a file)  a/index.gmi  c (a file)  a/c/ without an index
MCDirs == {<<>>, << <<"a">> >>, << <<"a">>, <<"c">> >>}
MCFiles == {<< <<"a">>, <<"a">> >>, << <<"a">>, <<"index.gmi">> >>, << <<"c">> >>, << <<"index.gmi">> >>,
            << <<"a">>, <<"c">>, <<"index.nex">> >>}
MCEntryOrder == << << <<"a">> >>, << <<"a">>, <<"a">> >>, << <<"a">>, <<"c">> >>,
                   << <<"a">>, <<"c">>, <<"index.nex">> >>, << <<"a">>, <<"index.gmi">> >>,
                   << <<"c">> >>, << <<"index.gmi">> >> >>

ASSUME MCTreeAssumption == PlainTree
=============================================================================
