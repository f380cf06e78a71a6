-------------------------------- MODULE Misfin --------------------------------
(***************************************************************************)
(* Misfin deliveries (crates/misfin): senders that run client.rs's send,   *)
(* the server's tasks, one for each connection (server.rs), and the store  *)
(* they share. A dispatch takes up to three transactions, and other tasks, *)
(* the operator and a crash may come between them.                         *)
(***************************************************************************)
EXTENDS MisfinMailbox

CONSTANTS
    Served,                 \* MisfinServerConfig::served
    Claim,                  \* [Fingerprints -> address in the certificate, or NoAddress]
    Expired,                \* the certificates outside their validity window
    RequireSenderIdentity,  \* MisfinServerConfig::require_sender_identity
    RejectChangedSender,    \* MisfinServerConfig::reject_changed_sender
    NoCert                  \* a handshake without a client certificate

VARIABLES
    conns,                  \* [Conns -> Conn]
    released                \* history: the fingerprints the operator released

vars == <<messages, mailboxIndex, nextSeq, senders, pins, conns, released>>

ASSUME ServerAssumption ==
    /\ Served \subseteq Addresses
    /\ Claim \in [Fingerprints -> Addresses \cup {NoAddress}]
    /\ Expired \subseteq Fingerprints
    /\ NoCert \notin Fingerprints
    /\ RequireSenderIdentity \in BOOLEAN /\ RejectChangedSender \in BOOLEAN

\* The request line: an address to deliver to, a line that split_request or
\* parse_recipient rejects, or one that is too long or not UTF-8.
Malformed == <<"malformed">>
Unreadable == <<"unreadable">>
Bad == {Malformed, Unreadable}

Refusals == {51, 53, 59, 60, 62, 63}

\* What the sender ends with besides a receipt's status: FingerprintMismatch, or any
\* of the other SendErrors. (0 stands for no result yet; no status is below 10.)
Mismatched == 1
Failed == 2

\* server says where the task is: reading, in dispatch before each of its three
\* transactions, writing the reply, or gone. status is the reply, 0 until then.
Conn ==
    [ client : {"idle", "waiting", "done"},
      server : {"none", "reading", "identity", "sender", "store", "reply"},
      cert : Fingerprints \cup {NoCert},
      target : Addresses \cup Bad,
      status : {0, 20, 40} \cup Refusals,
      result : {0, 20, 40} \cup Refusals \cup {Mismatched, Failed} ]

Answer(c, status) == [conns EXCEPT ![c].server = "reply", ![c].status = status]

Advance(c, step) == [conns EXCEPT ![c].server = step]

----------------------------------------------------------------------------
(* The sender.                                                             *)

\* send: connect, present the certificate, write the request.
Send(c, cert, target) ==
    /\ conns[c].client = "idle"
    /\ conns' = [conns EXCEPT ![c].client = "waiting", ![c].server = "reading",
                              ![c].cert = cert, ![c].target = target]
    /\ UNCHANGED <<storeVars, released>>

\* The server's fingerprint is not the expected one: the sender closes without a
\* request, and the server's task reads an empty line.
Mismatch(c, cert) ==
    /\ conns[c].client = "idle"
    /\ conns' = [conns EXCEPT ![c].client = "done", ![c].result = Mismatched,
                              ![c].server = "reading", ![c].cert = cert]
    /\ UNCHANGED <<storeVars, released>>

\* A timeout, or a connection that closed: no receipt. The server's task goes on.
SendFails(c) ==
    /\ conns[c].client = "waiting"
    /\ conns' = [conns EXCEPT ![c].client = "done", ![c].result = Failed]
    /\ UNCHANGED <<storeVars, released>>

----------------------------------------------------------------------------
(* handle_connection, read_request and Dispatcher::dispatch.               *)

ServesHost(host) == \E a \in Served : a[2] = host

\* Mutant: the validity window is not looked at.
RefusalIgnoringExpiry(conn) ==
    IF conn.target = Unreadable THEN 59
    ELSE IF conn.cert = NoCert THEN 60
    ELSE IF conn.target = Malformed THEN 59
    ELSE IF ~ ServesHost(conn.target[2]) THEN 53
    ELSE IF conn.target \notin Served THEN 51
    ELSE IF Claim[conn.cert] = NoAddress /\ RequireSenderIdentity THEN 62
    ELSE 0

\* The answer that the early returns give, in their order; 0 when none applies.
Refusal(conn) ==
    IF conn.target = Unreadable THEN 59
    ELSE IF conn.cert = NoCert THEN 60
    ELSE IF conn.target = Malformed THEN 59
    ELSE IF ~ ServesHost(conn.target[2]) THEN 53
    ELSE IF conn.target \notin Served THEN 51
    ELSE IF conn.cert \in Expired THEN 62
    ELSE IF Claim[conn.cert] = NoAddress /\ RequireSenderIdentity THEN 62
    ELSE 0

\* The request is read and passes, or is answered by, dispatch's early returns.
\* A certificate without an address is not checked against the pins.
Read(c) ==
    LET conn == conns[c] IN
    /\ conn.server = "reading"
    /\ conns' = IF Refusal(conn) # 0 THEN Answer(c, Refusal(conn))
                ELSE IF Claim[conn.cert] = NoAddress THEN Advance(c, "sender")
                ELSE Advance(c, "identity")
    /\ UNCHANGED <<storeVars, released>>

\* The read fails or times out: the task ends without an answer.
ReadFails(c) ==
    /\ conns[c].server = "reading"
    /\ conns' = Advance(c, "none")
    /\ UNCHANGED <<storeVars, released>>

\* A transaction of the dispatch does not commit: 40 and the table is as before.
StorageFails(c) ==
    /\ conns[c].server \in {"identity", "sender", "store"}
    /\ conns' = Answer(c, 40)
    /\ UNCHANGED <<storeVars, released>>

\* First transaction: check_and_record_identity.
Identify(c) ==
    LET f == conns[c].cert
        a == Claim[f]
    IN
    /\ conns[c].server = "identity"
    /\ CheckAndRecordIdentity(a, f)
    /\ conns' = IF IdentityCheck(a, f) = "changed" /\ RejectChangedSender
                THEN Answer(c, 63) ELSE Advance(c, "sender")
    /\ UNCHANGED released

\* Second transaction: record_sender.
Record(c) ==
    /\ conns[c].server = "sender"
    /\ RecordSender(conns[c].cert)
    /\ conns' = Advance(c, "store")
    /\ UNCHANGED released

\* Mutant: the answer does not wait for the commit.
DeliverUncommitted(c) ==
    /\ conns[c].server = "store"
    /\ conns' = Answer(c, 20)
    /\ UNCHANGED <<storeVars, released>>

\* Third transaction: store, and the answer 20.
Deliver(c) ==
    LET conn == conns[c] IN
    /\ conn.server = "store"
    /\ Store(conn.target, conn.cert, Claim[conn.cert], c)
    /\ conns' = Answer(c, 20)
    /\ UNCHANGED released

\* write_all, then shutdown. The sender may be gone, or the write may fail.
Reply(c) ==
    /\ conns[c].server = "reply"
    /\ \/ /\ conns[c].client = "waiting"
          /\ conns' = [conns EXCEPT ![c].server = "none", ![c].client = "done",
                                    ![c].result = conns[c].status]
       \/ conns' = Advance(c, "none")
    /\ UNCHANGED <<storeVars, released>>

\* The operator releases a pin while tasks are under way.
Forget(a) ==
    /\ pins[a] # NoPin
    /\ ForgetSenderIdentity(a)
    /\ released' = [released EXCEPT ![a] = @ \cup {pins[a]}]
    /\ UNCHANGED conns

\* The server crashes and restarts: its tasks are gone, its tables are not.
Crash ==
    /\ \E c \in Conns : conns[c].server # "none"
    /\ conns' = [c \in Conns |-> [conns[c] EXCEPT !.server = "none"]]
    /\ UNCHANGED <<storeVars, released>>

Init ==
    /\ StoreInit
    /\ conns = [c \in Conns |-> [ client |-> "idle", server |-> "none", cert |-> NoCert,
                                  target |-> Malformed, status |-> 0, result |-> 0 ]]
    /\ released = [a \in Addresses |-> {}]

Next ==
    \/ \E c \in Conns :
         \/ \E cert \in Fingerprints \cup {NoCert}, target \in Addresses \cup Bad :
               Send(c, cert, target)
         \/ \E cert \in Fingerprints \cup {NoCert} : Mismatch(c, cert)
         \/ SendFails(c)
         \/ Read(c)
         \/ ReadFails(c)
         \/ StorageFails(c)
         \/ Identify(c)
         \/ Record(c)
         \/ Deliver(c)
         \/ Reply(c)
    \/ \E a \in Addresses : Forget(a)
    \/ Crash

Spec == Init /\ [][Next]_vars

----------------------------------------------------------------------------
(* Safety.                                                                 *)

\* The tables and connections are well formed; the messages' sequence numbers
\* have no gap and none is used twice.
TypeOK ==
    /\ nextSeq \in Nat
    /\ messages \in [0 .. nextSeq - 1 -> ReceivedMessage]
    /\ mailboxIndex \in [Addresses -> SUBSET (0 .. nextSeq - 1)]
    /\ senders \subseteq Fingerprints
    /\ pins \in [Addresses -> Fingerprints \cup {NoPin}]
    /\ conns \in [Conns -> Conn]
    /\ released \in [Addresses -> SUBSET Fingerprints]

Brought(c) == {s \in DOMAIN messages : messages[s].body = c}

\* A receipt can be believed, over crashes and whatever other tasks do: with 20 the
\* message is in the recipient's list, once, under the sender's fingerprint and
\* address; with any other status it was not stored (dispatch, store).
ReceiptHonest ==
    \A c \in Conns :
        LET conn == conns[c] IN
        /\ conn.result = 20 =>
              \E s \in List(conn.target) :
                 /\ Brought(c) = {s}
                 /\ messages[s].sender_fingerprint = conn.cert
                 /\ messages[s].sender_address = Claim[conn.cert]
        /\ conn.result \in Refusals \cup {40, Mismatched} => Brought(c) = {}

\* Nothing reaches a mailbox that dispatch should have refused, and one connection
\* leaves one message at most, also when its reply was lost.
MailAdmissible ==
    \A s \in DOMAIN messages :
        LET m == messages[s] IN
        /\ m.recipient \in Served
        /\ m.sender_fingerprint \in senders \ Expired
        /\ RequireSenderIdentity => m.sender_address # NoAddress
        /\ Brought(m.body) = {s}

\* "the stored fingerprint is never silently overwritten": mail under a claimed
\* address bears the pinned fingerprint or one that the operator has released,
\* whoever else was making first contact at the same time.
PinHonoured ==
    RejectChangedSender =>
        \A s \in DOMAIN messages :
            LET m == messages[s] IN
            m.sender_address # NoAddress =>
                m.sender_fingerprint \in released[m.sender_address] \cup {pins[m.sender_address]}

\* list shows a mailbox's messages, all of them and no others.
IndexExact ==
    \A a \in Addresses : List(a) = {s \in DOMAIN messages : messages[s].recipient = a}

\* A pin is set on first contact and changes only by the operator's hand.
PinStable ==
    [][\A a \in Addresses :
         pins[a] # NoPin => pins'[a] = pins[a] \/ pins[a] \in released'[a]]_vars

\* A delivered message stays, under its sequence number, as it was.
AppendOnly ==
    [][\A s \in DOMAIN messages : s \in DOMAIN messages' /\ messages'[s] = messages[s]]_vars

============================================================================
