-------------------------------- MODULE Guppy --------------------------------
(***************************************************************************)
(* A guppy server, its clients and the network between them.               *)
(***************************************************************************)
EXTENDS GuppyServer, GuppyClient

\* When DeadlinesRace is FALSE the deadlines (FetchOptions::timeout and
\* ServerConfig::session_timeout, 30 s each) are longer than any fetch; when it
\* is TRUE they may pass at any moment of a transfer.
CONSTANT DeadlinesRace

ASSUME RaceAssumption == DeadlinesRace \in BOOLEAN

vars == <<net, sessions, sendErrors, answered, client>>

\* The sessions the tick may find expired (session_timeout) or lingered (DONE_LINGER).
Droppable == {p \in Live : DeadlinesRace \/ sessions[p].done \/ client[p].phase = "ended"}

Init ==
    /\ net = {}
    /\ ServerInit
    /\ ClientInit

ServerNext ==
    \/ \E m \in net :
         \/ ReceiveAck(m)
         \/ IgnoreRequest(m)
         \/ AnswerSuccess(m)
         \/ AnswerSpecial(m)
    \/ \E dropped \in SUBSET Droppable, due \in SUBSET Live : Tick(dropped, due)

ClientNext ==
    \/ \E p \in Ports :
         \/ Fetch(p)
         \/ Stall(p)
         \/ DeadlinesRace /\ GiveUp(p)
    \/ \E m \in net :
         \/ ReceiveSpecial(m)
         \/ ReceiveFirst(m)
         \/ IgnoreContinuation(m)
         \/ ReceiveEof(m)
         \/ ReceiveData(m)

Next ==
    \/ ServerNext /\ UNCHANGED client
    \/ ClientNext /\ UNCHANGED serverVars
    \/ \E m \in net : Lose(m) /\ UNCHANGED <<serverVars, client>>

Spec == Init /\ [][Next]_vars

----------------------------------------------------------------------------
(* Safety.                                                                 *)

\* Every datagram, session and reassembly is well formed; in particular every
\* sequence number that random_seq and build_session hand out is in MinSeq..MaxSeq.
TypeOK ==
    /\ net \subseteq Datagrams
    /\ sessions \in [Ports -> Session \cup {NoSession}]
    /\ sendErrors \in 0 .. MaxSendErrors
    /\ answered \in [Ports -> SUBSET ((Docs \cup Specials) \X (Seqs \cup {NoSeq}))]
    /\ client \in [Ports -> Client]

\* The sessions the server ever built for p, as <<document, first sequence number>>.
Built(p) == {x \in answered[p] : x[1] \in Docs}

\* The reassembly holds the chunks of d, all of them and nothing else, from base on.
HoldsWhole(c, d, base) ==
    \A s \in Seqs :
        c.chunks[s] = IF s \in base .. base + EofIndex(d) - 1
                      THEN DataOf(d, s - base) ELSE NoData

\* A fetch that returns a success returns the body the handler gave, byte for byte,
\* whatever was lost, duplicated or reordered (transact, Reassembly::into_response),
\* as long as the server built one session for the socket.
BodyExact ==
    \A p \in Ports : \A d \in Docs, base \in Seqs :
        (Built(p) = {<<d, base>>} /\ client[p].result = "success")
            => HoldsWhole(client[p], d, base)

\* done_at is set only when the client has the whole response: every packet that
\* the server counts as acknowledged was received, and the fetch has returned it.
DoneMeansDelivered ==
    \A p \in Ports :
        ( /\ p \in Live /\ sessions[p].done
          /\ Built(p) = {<<sessions[p].doc, sessions[p].base>>} )
        => client[p].result = "success"

\* At most Window packets are unacknowledged, and all of them were sent
\* (open_window, acknowledge): retransmit sends no packet ahead of the window.
WindowRespected ==
    \A p \in Live :
        /\ Cardinality(sessions[p].unacked) <= Window
        /\ sessions[p].unacked \subseteq
               sessions[p].base .. sessions[p].base + sessions[p].next - 1

\* The reassembly buffer outgrows max_body by one chunk at most (transact checks
\* the size after every packet), duplicates and stray chunks included.
BufferBounded ==
    \A p \in Ports : client[p].buffered <= MaxBody + EffectiveChunk

\* A body is refused as too large only if it is: FetchOptions::max_body is "Refuse
\* reassembled bodies larger than this". Reassembly::insert adds the length of a
\* chunk it already holds as well, so a body within max_body is refused after a
\* retransmission.
RefusedOnlyIfLarger ==
    \A p \in Ports :
        client[p].result = "too large" => \E x \in Built(p) : BodyLen[x[1]] > MaxBody

\* The session table never holds more than max_sessions peers.
SessionCap == Cardinality(Live) <= MaxSessions

\* A step on a live session keeps its response and never goes back: a repeated
\* request is ignored, an acknowledged packet is not sent as new, done stays done.
SessionStable ==
    [][\A p \in Ports :
         (sessions[p] # NoSession /\ sessions'[p] # NoSession) =>
            /\ sessions'[p].doc = sessions[p].doc
            /\ sessions'[p].base = sessions[p].base
            /\ sessions'[p].next >= sessions[p].next
            /\ sessions[p].done => sessions'[p] = sessions[p]]_vars

----------------------------------------------------------------------------
(* Refinement: with deadlines longer than a fetch, the whole machinery is  *)
(* the one-answer transaction of GuppyFetch.                               *)

\* What a fetch returned, as its caller sees it: a body only if it is some
\* document's, whole. "mangled" is a body nobody served.
Outcome(p) ==
    LET c == client[p]
        whole == {d \in Docs : \E base \in Seqs : c.first = base /\ HoldsWhole(c, d, base)}
    IN  CASE c.result = "success" /\ whole # {} -> CHOOSE d \in whole : TRUE
          [] c.result = "success" /\ whole = {} -> "mangled"
          [] c.result \in Failures              -> "failed"
          [] OTHER                              -> c.result

Transaction ==
    INSTANCE GuppyFetch WITH
        Answers <- Docs \cup Specials,
        Pending <- "pending",
        Failed  <- "failed",
        asked   <- {p \in Ports : client[p].phase # "idle"},
        given   <- [p \in Ports |-> {x[1] : x \in answered[p]}],
        outcome <- [p \in Ports |-> Outcome(p)]

\* Every step of the server, the clients and the network is a step of the
\* one-answer transaction, or invisible in it (fetch, serve).
RefinesTransaction == Transaction!Spec

----------------------------------------------------------------------------
(* Liveness.                                                               *)

\* Nothing is on its way to the client: its receive timeout runs out.
Quiet(p) == \A m \in net : m.port = p => m.kind \in {"request", "ack"}

\* The network is fair-lossy: a datagram that is sent over and over gets
\* through. The timers of both sides go off: the client's when nothing
\* arrives, the server's tick always.
Fairness ==
    \A p \in Ports :
        /\ WF_vars(Quiet(p) /\ Stall(p) /\ UNCHANGED serverVars)
        /\ WF_vars(Tick({}, {p}) /\ UNCHANGED client)
        /\ SF_vars((AnswerSuccess(Request(p)) \/ AnswerSpecial(Request(p))) /\ UNCHANGED client)
        /\ SF_vars(\E m \in net : m.port = p /\ ReceiveSpecial(m) /\ UNCHANGED serverVars)
        /\ SF_vars(\E m \in net : m.port = p /\ ReceiveFirst(m) /\ UNCHANGED serverVars)
        /\ \A s \in Seqs :
             /\ SF_vars(ReceiveAck(Ack(p, s)) /\ UNCHANGED client)
             /\ SF_vars(\E m \in net : /\ m.port = p /\ m.kind = "continuation" /\ m.seq = s
                                       /\ ReceiveEof(m) \/ ReceiveData(m)
                                       /\ UNCHANGED serverVars)

LiveSpec == Spec /\ Fairness

\* Lost packets are handled by retransmission on both sides: a fetch whose
\* deadline does not pass ends with what the handler answered, the whole body or
\* the special answer (transact, retransmit, acknowledge). The one exception: the
\* chunks handed to it, those that came twice counted twice, exceed max_body.
FetchServed ==
    \A p \in Ports :
        (client[p].phase = "waiting")
            ~> (Outcome(p) \in Docs \cup Specials \/ client[p].buffered > MaxBody)

============================================================================
