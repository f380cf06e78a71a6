------------------------------ MODULE MCExchange ------------------------------
(***************************************************************************)
(* The calls and replies that Exchange is checked with: per protocol a     *)
(* plain request, the edges of its grammar and of its limits, and raw      *)
(* bytes that its client would never send.                                 *)
(***************************************************************************)
EXTENDS Exchange

Own(p, inputs) == {[proto |-> p, own |-> TRUE, input |-> i] : i \in inputs}
Raw(p, lines) == {[proto |-> p, own |-> FALSE, input |-> l] : l \in lines}

\* A URL or a path of n tokens.
Long(scheme, n) == <<scheme>> \o [i \in 1..(n - 1) |-> "h"]
Url(host, path, query) == [host |-> host, path |-> path, query |-> query]

MCCalls ==
    \* around the longest the client sends
    Own("gemini", {Long("gemini://", n) : n \in {2, MaxLine - 2, MaxLine - 1, MaxLine}}
                  \cup {<<"gemini://", "h", "#", "f">>})
    \cup Raw("gemini", {<<"gemini://", "h", "#", LF>>, <<NotUtf8, LF>>, [i \in 1..(MaxLine + 1) |-> "h"]})
    \cup Own("titan", {[url |-> <<"gemini://", "h">>, body |-> <<"x", "y">>, mime |-> <<"m">>, token |-> <<"t">>]})
    \cup Own("spartan", {S!FetchRequest(Url(<<"h">>, <<>>, <<>>)),
                         S!FetchRequest(Url(<<"h">>, <<"/">>, <<"%a">>)),
                         S!SubmitRequest(Url(<<"%a">>, <<"/", "p">>, <<>>), <<"x", LF, "1">>),
                         S!SubmitRequest(Url(<<"h">>, <<>>, <<>>), <<"x", "x", "x", "x">>)}
                        \cup {S!FetchRequest(Url(<<"h">>, Long("/", n), <<>>)) : n \in {MaxLine - 6, MaxLine - 5}})
    \cup Raw("spartan", {<<"h", SP, "/", SP, "1", "0">> \o CRLF, <<"h", SP, "p", SP, "0">> \o CRLF,
                         [i \in 1..MaxLine |-> "h"]})
    \cup Own("nex", {<<>>, <<"/", "p">>, Long("/", MaxLine - 2), Long("/", MaxLine - 1)})
    \cup Raw("nex", {[i \in 1..MaxLine |-> "/"]})
    \cup Own("finger", {F!Query(u, v) : u \in {<<>>, <<"u">>}, v \in BOOLEAN}
                        \cup {F!QueryFromUrl([path |-> p, username |-> <<"n">>]) : p \in {<<>>, <<"u">>}}
                        \cup {F!Query(Long("u", n), FALSE) : n \in {MaxLine - 2, MaxLine - 1}})
    \cup Own("text", {<<"text://", "h">>})
    \cup Own("kepler", {K!Request(<<"kepler://", "h">>, 0, <<"en">>)}
                        \cup {K!Request(Long("kepler://", n), 0, <<"en">>) : n \in {MaxUri - 4, MaxUri - 3}})
    \cup Own("keplers", {K!Request(<<"kepler://", "h">>, 12, <<"en">>),
                         K!Request(Long("kepler://", MaxUri + 1), 0, <<>>)})
    \cup Own("scroll", {C!Request(<<"scroll://", "h">>, l, m) : l \in {<<>>, << <<"en">>, <<"de">> >>}, m \in BOOLEAN})
    \cup Own("scorpion", {P!Request("R", P!NoParameter, <<"scorpion", ":", "h", "#", "f">>),
                          P!Request("R", P!RangeOf(1, 3), <<"scorpion", ":", "h">>),
                          P!Request("R", P!RangeOf(1, MaxBody + 2), <<"scorpion", ":", "h">>),
                          P!Request("R", P!RangeOf(1, P!NoEnd), <<"scorpion", ":", "h">>),
                          P!Request("S", P!Hmac(<<"k">>, <<>>), <<"scorpion", ":", "h">>),
                          P!Request("M", P!Text("type", <<"m">>), <<"scorpion", ":", "h">>)}
                         \cup {P!Request("R", P!NoParameter, <<"scorpion", ":">> \o Long("h", n))
                                  : n \in {MaxLine - 5, MaxLine - 4}})
    \cup Raw("scorpion", {<<"R", SP, "/", LF>>, <<NotUtf8, LF>>, [i \in 1..(MaxLine + 1) |-> "R"]})
    \cup Own("gopher", {H!Url(<<>>, <<>>, <<>>), H!Url(<<"7", "s">>, <<"q">>, <<>>),
                        H!Url(<<"0", "s">>, <<>>, <<"+", "v">>), H!Url(<<"1", "s">>, <<"q">>, <<"$">>)}
                       \cup {H!Url(<<"0">> \o Long("s", n), <<>>, <<>>) : n \in {MaxLine - 2, MaxLine - 1}})
    \cup Own("gopherplus", {H!Url(<<"0", "s">>, <<>>, <<"!">>)})

MCReplies ==
    [gemini |-> {G!Header(<<"3", "0">>, <<"u">>), G!Response(<<"2", "0">>, <<"m">>, <<"x", CR, LF>>)},
     titan |-> {G!Response(<<"2", "0">>, <<"m">>, <<"x">>)},
     spartan |-> {S!Response("2", <<"m">>, <<"x", CR, LF>>), S!Response("3", <<"/", "p">>, <<>>),
                  S!Response("2", <<"m">>, [i \in 1..MaxBody |-> "x"])},
     nex |-> {N!Response(<<>>), N!Response(<<"x", LF>>), N!Response([i \in 1..(MaxBody + 1) |-> "x"])},
     finger |-> {F!Response(<<"x", LF>>)},
     text |-> {T!Response(<<"2", "0">>, <<"m">>, <<"x", LF>>), T!Response(<<"3", "0">>, <<"u", "v">>, <<>>)},
     kepler |-> {K!Response(<<"2", "0">>, <<2, -1, 10>>, <<"m">>, <<"x", "y">>)},
     keplers |-> {K!Response(<<"2", "0">>, <<2, -1, 10>>, <<"m">>, <<"x", "y">>),
                  K!Response(<<"2", "0">>, <<-1, 0, -1>>, <<"m">>, <<"x", LF>>),
                  K!Response(<<"7", "0">>, <<12>>, <<>>, <<>>), K!Response(<<"4", "0">>, <<>>, <<>>, <<>>)},
     scroll |-> {C!Response(<<"2", "4">>, <<"m">>, << <<"a">>, <<>>, <<"d">> >>, <<"x", LF>>),
                 C!Response(<<"1", "1">>, <<"q">>, <<>>, <<>>)},
     scorpion |-> {P!Content(<<"x", LF>>, <<"m">>, <<>>), P!Content(<<>>, <<"m">>, << <<"v">> >>),
                   P!Content([i \in 1..(MaxBody + 1) |-> "x"], <<"m">>, <<>>),
                   P!Partial(<<"x", "y">>, 9, <<"m">>),
                   P!Partial([i \in 1..(MaxBody + 1) |-> "x"], 10, <<"m">>),
                   P!Response(<<"2", "0">>, << <<"?">>, <<"m">> >>, [i \in 1..(MaxBody + 1) |-> "x"]),
                   P!Redirect(<<"u">>, TRUE),
                   P!Input(<<"q", SP, "q">>), P!Status(<<"5", "1">>, <<>>), P!BadRequest},
     gopher |-> {[body |-> <<"x", LF, "y">>]},
     gopherplus |-> {[header |-> <<"+", "-", "1">>, body |-> <<"x">> \o CRLF],
                    [header |-> <<"+", "-", "2">>, body |-> <<"x">>],
                    [header |-> <<"-", "-", "1">>, body |-> <<"x">> \o CRLF]}]
=============================================================================
