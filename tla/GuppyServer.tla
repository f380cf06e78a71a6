----------------------------- MODULE GuppyServer -----------------------------
(***************************************************************************)
(* The guppy server (crates/guppy-protocol/src/server.rs): one receive     *)
(* loop, a table of sessions keyed by the peer's address, a window of      *)
(* unacknowledged packets per session and a retransmission tick.           *)
(*                                                                         *)
(* Clock readings are abstracted: whether a session is old enough to be    *)
(* dropped or to be retransmitted is chosen by the tick.                   *)
(***************************************************************************)
EXTENDS GuppyWire

CONSTANTS
    Window,         \* ServerConfig::window
    MaxSessions,    \* ServerConfig::max_sessions
    MaxSendErrors,  \* bound on the failing send_to calls of a behaviour
    NoSession       \* a peer with no entry in the session table

VARIABLES
    sessions,       \* HashMap<SocketAddr, Session>
    sendErrors,     \* send_to calls that have failed so far
    answered        \* history: what the handler answered each peer, and, for a
                    \* success, the first sequence number drawn for it

serverVars == <<sessions, sendErrors, answered>>

\* packets is a function of doc and base; next is next_unsent, done is done_at.is_some().
Session ==
    [ doc : Docs, base : Seqs, next : Nat, unacked : SUBSET Seqs, done : BOOLEAN ]

ASSUME ServerAssumption ==
    /\ Window \in Nat
    /\ MaxSessions \in Nat
    /\ MaxSendErrors \in Nat
    /\ NoSession \notin Session

Live == {p \in Ports : sessions[p] # NoSession}

BuiltSession(d, base) ==
    [doc |-> d, base |-> base, next |-> 0, unacked |-> {}, done |-> FALSE]

----------------------------------------------------------------------------
(* open_window: send until the window is full or a send fails. n is the    *)
(* number of packets that went out.                                        *)

\* Mutant: the window is counted per call, not over what is in flight.
WindowRoomPerCall(s) == AtMost(Window, TotalPackets(s.doc) - s.next)

WindowRoom(s) ==
    AtMost(IF Cardinality(s.unacked) < Window THEN Window - Cardinality(s.unacked) ELSE 0,
           TotalPackets(s.doc) - s.next)

OpenWindow(s, n) ==
    [s EXCEPT !.next = @ + n,
              !.unacked = @ \cup {s.base + i : i \in s.next .. s.next + n - 1}]

WindowPackets(p, s, n) ==
    {Packet(p, s.doc, s.base, i) : i \in s.next .. s.next + n - 1}

\* What open_window may have sent: all there is room for, or less when a send failed.
Sent(s, n) ==
    \/ n = WindowRoom(s) /\ sendErrors' = sendErrors
    \/ /\ n \in 0 .. WindowRoom(s) - 1
       /\ sendErrors < MaxSendErrors
       /\ sendErrors' = sendErrors + 1

----------------------------------------------------------------------------
(* The three arms of serve's receive branch and its tick branch.           *)

\* ClientDatagram::Ack: acknowledge().
ReceiveAck(m) ==
    /\ m \in net /\ m.kind = "ack"
    /\ \E rest \in Received(m) :
         \/ /\ sessions[m.port] = NoSession
            /\ net' = rest
            /\ UNCHANGED <<sessions, sendErrors>>
         \/ /\ sessions[m.port] # NoSession
            /\ LET s == [sessions[m.port] EXCEPT !.unacked = @ \ {m.seq}]
               IN  \/ /\ s.next = TotalPackets(s.doc) /\ s.unacked = {}
                      /\ sessions' = [sessions EXCEPT ![m.port] = [s EXCEPT !.done = TRUE]]
                      /\ net' = rest
                      /\ UNCHANGED sendErrors
                   \/ /\ ~ (s.next = TotalPackets(s.doc) /\ s.unacked = {})
                      /\ \E n \in 0 .. WindowRoom(s) :
                           /\ Sent(s, n)
                           /\ sessions' = [sessions EXCEPT ![m.port] = OpenWindow(s, n)]
                           /\ net' = rest \cup WindowPackets(m.port, s, n)
    /\ UNCHANGED answered

\* Mutant: a repeated request restarts the session.
AdmitsAgain(p) == p \in Live \/ Cardinality(Live) < MaxSessions

\* The two checks a request passes before the handler is asked.
Admits(p) == p \notin Live /\ Cardinality(Live) < MaxSessions

\* A request from a peer that has a session, or that finds the table full, is
\* dropped before the handler sees it.
IgnoreRequest(m) ==
    /\ m \in net /\ m.kind = "request"
    /\ ~ Admits(m.port)
    /\ net' \in Received(m)
    /\ UNCHANGED serverVars

\* The handler (external: any answer) runs inline; a success opens a session.
AnswerSuccess(m) ==
    /\ m \in net /\ m.kind = "request"
    /\ Admits(m.port)
    /\ \E rest \in Received(m), d \in Docs :
       \E base \in FirstSeqs(d) :
         LET s == BuiltSession(d, base)
         IN  \E n \in 0 .. WindowRoom(s) :
               /\ Sent(s, n)
               /\ sessions' = [sessions EXCEPT ![m.port] = OpenWindow(s, n)]
               /\ net' = rest \cup WindowPackets(m.port, s, n)
               /\ answered' = [answered EXCEPT ![m.port] = @ \cup {<<d, base>>}]

\* A prompt, redirect or error is one packet and leaves no session; a failed
\* send is ignored, like a datagram lost on the way.
AnswerSpecial(m) ==
    /\ m \in net /\ m.kind = "request"
    /\ Admits(m.port)
    /\ \E rest \in Received(m), a \in Specials :
         /\ net' = rest \cup {Special(m.port, a)}
         /\ answered' = [answered EXCEPT ![m.port] = @ \cup {<<a, NoSeq>>}]
    /\ UNCHANGED <<sessions, sendErrors>>

\* Mutant: nothing is sent twice.
RetransmissionOfNothing(p) == {}

\* retransmit: everything sent and not acknowledged goes again.
Retransmission(p) ==
    {Packet(p, sessions[p].doc, sessions[p].base, s - sessions[p].base)
        : s \in sessions[p].unacked}

\* tick: drop the sessions that are too old or have lingered, then retransmit
\* those of the rest whose last send is old enough.
Tick(dropped, due) ==
    /\ dropped \subseteq Live
    /\ due \subseteq {p \in Live \ dropped : ~ sessions[p].done}
    /\ sessions' = [p \in Ports |-> IF p \in dropped THEN NoSession ELSE sessions[p]]
    /\ net' = net \cup UNION {Retransmission(p) : p \in due}
    /\ UNCHANGED <<sendErrors, answered>>

ServerInit ==
    /\ sessions = [p \in Ports |-> NoSession]
    /\ sendErrors = 0
    /\ answered = [p \in Ports |-> {}]

============================================================================
