------------------------------ MODULE GuppyFetch ------------------------------
(***************************************************************************)
(* What a guppy transaction promises its caller: a fetch that was issued   *)
(* returns one of the answers the handler gave to this socket, whole, or   *)
(* fails; it returns once. The datagrams, sequence numbers, windows and    *)
(* retransmissions of Guppy.tla are not visible here.                      *)
(***************************************************************************)
CONSTANTS Ports, Answers, Pending, Failed

VARIABLES
    asked,      \* the sockets a request was sent from
    given,      \* [Ports -> SUBSET Answers]: what the handler answered
    outcome     \* [Ports -> Answers \cup {Pending, Failed}]

vars == <<asked, given, outcome>>

Init ==
    /\ asked = {}
    /\ given = [p \in Ports |-> {}]
    /\ outcome = [p \in Ports |-> Pending]

Ask(p) ==
    /\ p \notin asked
    /\ asked' = asked \cup {p}
    /\ UNCHANGED <<given, outcome>>

Answer(p) ==
    /\ p \in asked
    /\ \E a \in Answers : given' = [given EXCEPT ![p] = @ \cup {a}]
    /\ UNCHANGED <<asked, outcome>>

Return(p) ==
    /\ outcome[p] = Pending
    /\ \E a \in given[p] : outcome' = [outcome EXCEPT ![p] = a]
    /\ UNCHANGED <<asked, given>>

Fail(p) ==
    /\ p \in asked /\ outcome[p] = Pending
    /\ outcome' = [outcome EXCEPT ![p] = Failed]
    /\ UNCHANGED <<asked, given>>

Next == \E p \in Ports : Ask(p) \/ Answer(p) \/ Return(p) \/ Fail(p)

Spec == Init /\ [][Next]_vars

============================================================================
