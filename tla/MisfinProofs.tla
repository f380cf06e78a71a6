----------------------------- MODULE MisfinProofs -----------------------------
(***************************************************************************)
(* Proofs about Misfin for every set of connections, addresses and         *)
(* certificates, and both settings of the two switches; and, at the end,   *)
(* about the identity files of MisfinIdentity.                             *)
(***************************************************************************)
EXTENDS Misfin, MisfinIdentity, TLAPS

----------------------------------------------------------------------------
(* The inductive invariant: the tables are sound, and every connection     *)
(* agrees with them, wherever its task is.                                 *)

\* The fingerprint f may speak for its address: it is pinned, or was until the
\* operator released it.
Trusted(f) ==
    (RejectChangedSender /\ Claim[f] # NoAddress)
        => f \in released[Claim[f]] \cup {pins[Claim[f]]}

\* The message of connection c, whose record is conn, is in its mailbox, once.
Delivered(c, conn) ==
    \E s \in mailboxIndex[conn.target] :
        /\ Brought(c) = {s}
        /\ messages[s].sender_fingerprint = conn.cert
        /\ messages[s].sender_address = Claim[conn.cert]

\* What a task has established by the time it is where it is.
TaskSound(conn) ==
    /\ conn.server \in {"reading", "identity", "sender", "store"} => conn.status = 0
    /\ conn.server = "reply" => conn.status # 0
    /\ conn.server \in {"identity", "sender", "store"} => Refusal(conn) = 0
    /\ conn.server = "identity" => Claim[conn.cert] # NoAddress
    /\ conn.server \in {"sender", "store"} => Trusted(conn.cert)
    /\ conn.server = "store" => conn.cert \in senders

\* What the answer, and the sender who has got it, may rely on.
AnswerSound(c, conn) ==
    /\ conn.client = "idle" => conn.server = "none" /\ conn.status = 0 /\ conn.target = Malformed
    /\ conn.client \in {"idle", "waiting"} <=> conn.result = 0
    /\ conn.result \in {0, Mismatched, Failed} \cup {conn.status}
    /\ conn.result = Mismatched => conn.target = Malformed /\ conn.status # 20
    /\ conn.status = 20 => Delivered(c, conn)
    /\ conn.status # 20 => Brought(c) = {}

MailSound ==
    \A s \in DOMAIN messages :
        LET m == messages[s] IN
        /\ m.recipient \in Served
        /\ m.sender_fingerprint \in senders \ Expired
        /\ m.sender_address = Claim[m.sender_fingerprint]
        /\ RequireSenderIdentity => m.sender_address # NoAddress
        /\ Trusted(m.sender_fingerprint)
        /\ Brought(m.body) = {s}

IndInv ==
    /\ TypeOK
    /\ IndexExact
    /\ MailSound
    /\ \A c \in Conns : TaskSound(conns[c]) /\ AnswerSound(c, conns[c])

----------------------------------------------------------------------------

\* What dispatch's early returns leave: a served mailbox and a usable certificate.
LEMMA Admitted ==
  ASSUME NEW conn \in Conn, Refusal(conn) = 0
  PROVE  /\ conn.target \in Served /\ conn.target \in Addresses
         /\ conn.cert \in Fingerprints \ Expired
         /\ RequireSenderIdentity => Claim[conn.cert] # NoAddress
         /\ conn.target # Malformed
  BY ServerAssumption DEF Refusal, Conn

\* Empty tables and idle connections are sound.
LEMMA InitEstablishes == Init => IndInv
  <1> SUFFICES ASSUME Init PROVE IndInv
    OBVIOUS
  <1> USE DEF Init, StoreInit
  <1>1. DOMAIN messages = {} /\ nextSeq = 0 /\ 0 .. nextSeq - 1 = {}
    OBVIOUS
  <1>2. messages \in [0 .. nextSeq - 1 -> ReceivedMessage]
    BY <1>1
  <1>3. conns \in [Conns -> Conn]
    BY DEF Conn, Bad
  <1>4. TypeOK
    BY <1>1, <1>2, <1>3 DEF TypeOK
  <1>5. \A c \in Conns : TaskSound(conns[c]) /\ AnswerSound(c, conns[c])
    BY <1>1 DEF TaskSound, AnswerSound, Brought, Mismatched, Failed
  <1> QED
    BY <1>1, <1>4, <1>5 DEF IndInv, IndexExact, List, MailSound

\* A step of one connection that leaves the tables alone.
LEMMA OneConnection ==
  ASSUME IndInv, UNCHANGED <<storeVars, released>>, NEW c \in Conns, NEW b \in Conn,
         conns' = [conns EXCEPT ![c] = b], TaskSound(b), AnswerSound(c, b)
  PROVE  IndInv'
  <1> USE DEF IndInv
  <1>1. UNCHANGED <<messages, mailboxIndex, nextSeq, senders, pins, released>>
    BY DEF storeVars
  <1>2. conns \in [Conns -> Conn]
    BY DEF TypeOK
  <1>3. TypeOK'
    BY <1>1, <1>2 DEF TypeOK
  <1>4. IndexExact'
    BY <1>1 DEF IndexExact, List
  <1>5. MailSound'
    BY <1>1 DEF MailSound, Trusted, Brought
  <1>6. ASSUME NEW d \in Conns
        PROVE  TaskSound(conns'[d]) /\ AnswerSound(d, conns'[d])
    BY <1>2
  <1>7. \A d \in Conns : TaskSound(conns[d])' /\ AnswerSound(d, conns[d])'
    BY <1>1, <1>6 DEF TaskSound, AnswerSound, Trusted, Delivered, Brought
  <1> QED
    BY <1>3, <1>4, <1>5, <1>7

\* The steps of sender and server that only move a connection on.
LEMMA QuietSteps ==
  ASSUME IndInv, NEW c \in Conns,
         \/ \E cert \in Fingerprints \cup {NoCert}, target \in Addresses \cup Bad :
               Send(c, cert, target)
         \/ \E cert \in Fingerprints \cup {NoCert} : Mismatch(c, cert)
         \/ SendFails(c) \/ Read(c) \/ ReadFails(c) \/ StorageFails(c) \/ Reply(c)
  PROVE  IndInv'
  <1> DEFINE conn == conns[c]
  <1>1. /\ conn \in Conn /\ conns \in [Conns -> Conn]
        /\ TaskSound(conn) /\ AnswerSound(c, conn)
    BY DEF IndInv, TypeOK
  <1>2. ASSUME NEW cert \in Fingerprints \cup {NoCert}, NEW target \in Addresses \cup Bad,
               Send(c, cert, target)
        PROVE  IndInv'
    <2> DEFINE e == [conn EXCEPT !.client = "waiting", !.server = "reading", !.cert = cert]
               b == [e EXCEPT !.target = target]
    <2>1. conns' = [conns EXCEPT ![c] = b] /\ UNCHANGED <<storeVars, released>>
          /\ conn.client = "idle"
      BY <1>1, <1>2 DEF Send
    <2>2. /\ e \in Conn /\ e.client = "waiting" /\ e.server = "reading"
          /\ e.status = conn.status /\ e.result = conn.result
      BY <1>1, <1>2 DEF Conn
    <2> HIDE DEF e
    <2>3. /\ b \in Conn /\ b.client = "waiting" /\ b.server = "reading"
          /\ b.status = conn.status /\ b.result = conn.result
      BY <1>2, <2>2 DEF Conn
    <2> HIDE DEF b
    <2>4. TaskSound(b) /\ AnswerSound(c, b)
      BY <1>1, <2>1, <2>3 DEF TaskSound, AnswerSound, Mismatched
    <2> QED
      BY <2>1, <2>3, <2>4, OneConnection
  <1>3. ASSUME NEW cert \in Fingerprints \cup {NoCert}, Mismatch(c, cert) PROVE IndInv'
    <2> DEFINE e == [conn EXCEPT !.client = "done", !.result = Mismatched]
               b == [e EXCEPT !.server = "reading", !.cert = cert]
    <2>1. conns' = [conns EXCEPT ![c] = b] /\ UNCHANGED <<storeVars, released>>
          /\ conn.client = "idle"
      BY <1>1, <1>3 DEF Mismatch
    <2>2. /\ e \in Conn /\ e.client = "done" /\ e.target = conn.target
          /\ e.status = conn.status /\ e.result = Mismatched
      BY <1>1 DEF Conn
    <2> HIDE DEF e
    <2>3. /\ b \in Conn /\ b.client = "done" /\ b.server = "reading" /\ b.target = conn.target
          /\ b.status = conn.status /\ b.result = Mismatched
      BY <1>3, <2>2 DEF Conn
    <2> HIDE DEF b
    <2>4. TaskSound(b) /\ AnswerSound(c, b)
      BY <1>1, <2>1, <2>3 DEF TaskSound, AnswerSound, Mismatched
    <2> QED
      BY <2>1, <2>3, <2>4, OneConnection
  <1>4. CASE SendFails(c)
    <2> DEFINE b == [conn EXCEPT !.client = "done", !.result = Failed]
    <2>1. conns' = [conns EXCEPT ![c] = b] /\ UNCHANGED <<storeVars, released>>
          /\ conn.client = "waiting"
      BY <1>1, <1>4 DEF SendFails
    <2>2. /\ b \in Conn /\ b.client = "done" /\ b.server = conn.server /\ b.cert = conn.cert
          /\ b.target = conn.target /\ b.status = conn.status /\ b.result = Failed
      BY <1>1 DEF Conn
    <2>3. TaskSound(b) /\ AnswerSound(c, b)
      BY <1>1, <2>1, <2>2 DEF TaskSound, AnswerSound, Refusal, Delivered, Mismatched, Failed
    <2> QED
      BY <2>1, <2>2, <2>3, OneConnection
  <1>5. ASSUME NEW step, step \in {"none", "identity", "sender"},
               conns' = Advance(c, step), UNCHANGED <<storeVars, released>>,
               conn.server \in {"reading", "reply"},
               step # "none" => conn.server = "reading" /\ Refusal(conn) = 0,
               step = "identity" <=> step # "none" /\ Claim[conn.cert] # NoAddress
        PROVE  IndInv'
    <2> DEFINE b == [conn EXCEPT !.server = step]
    <2>1. conns' = [conns EXCEPT ![c] = b]
      BY <1>1, <1>5 DEF Advance
    <2>2. /\ b \in Conn /\ b.client = conn.client /\ b.server = step /\ b.cert = conn.cert
          /\ b.target = conn.target /\ b.status = conn.status /\ b.result = conn.result
      BY <1>1, <1>5 DEF Conn
    <2>3. TaskSound(b)
      BY <1>1, <1>5, <2>2 DEF TaskSound, Refusal, Trusted
    <2>4. AnswerSound(c, b)
      BY <1>1, <1>5, <2>2 DEF AnswerSound, Delivered
    <2> QED
      BY <1>5, <2>1, <2>2, <2>3, <2>4, OneConnection
  <1>6. ASSUME NEW n \in {40} \cup Refusals, conns' = Answer(c, n), UNCHANGED <<storeVars, released>>,
               conn.server \in {"reading", "identity", "sender", "store"}
        PROVE  IndInv'
    <2> DEFINE b == [conn EXCEPT !.server = "reply", !.status = n]
    <2>1. conns' = [conns EXCEPT ![c] = b]
      BY <1>1, <1>6 DEF Answer
    <2>2. /\ b \in Conn /\ b.client = conn.client /\ b.server = "reply"
          /\ b.status = n /\ b.result = conn.result
      BY <1>1, <1>6 DEF Conn
    <2>3. TaskSound(b) /\ AnswerSound(c, b)
      BY <1>1, <1>6, <2>2 DEF TaskSound, AnswerSound, Refusals, Mismatched, Failed
    <2> QED
      BY <1>6, <2>1, <2>2, <2>3, OneConnection
  <1>7. CASE Read(c)
    <2>1. conn.server = "reading" /\ UNCHANGED <<storeVars, released>>
      BY <1>7 DEF Read
    <2>2. CASE Refusal(conn) # 0
      <3>1. Refusal(conn) \in Refusals
        BY <2>2 DEF Refusal, Refusals
      <3>2. conns' = Answer(c, Refusal(conn))
        BY <1>7, <2>2 DEF Read
      <3> QED
        BY <2>1, <3>1, <3>2, <1>6
    <2>3. CASE Refusal(conn) = 0
      BY <1>5, <1>7, <2>1, <2>3 DEF Read
    <2> QED
      BY <2>2, <2>3
  <1>8. CASE ReadFails(c)
    BY <1>5, <1>8 DEF ReadFails
  <1>9. CASE StorageFails(c)
    BY <1>6, <1>9 DEF StorageFails
  <1>10. CASE Reply(c)
    <2>1. conn.server = "reply" /\ UNCHANGED <<storeVars, released>>
      BY <1>10 DEF Reply
    <2>2. CASE conns' = Advance(c, "none")
      BY <1>5, <2>1, <2>2
    <2>3. CASE ~ (conns' = Advance(c, "none"))
      <3> DEFINE b == [conn EXCEPT !.server = "none", !.client = "done", !.result = conn.status]
      <3>1. conns' = [conns EXCEPT ![c] = b] /\ conn.client = "waiting"
        BY <1>1, <1>10, <2>3 DEF Reply
      <3>2. /\ b \in Conn /\ b.client = "done" /\ b.server = "none" /\ b.cert = conn.cert
            /\ b.target = conn.target /\ b.status = conn.status /\ b.result = conn.status
        BY <1>1 DEF Conn
      <3> HIDE DEF b
      <3>3. conn.status \in {20, 40} \cup Refusals
        BY <1>1, <2>1 DEF TaskSound, Conn
      <3>4. conn.status # 0 /\ conn.status # Mismatched
        BY <3>3 DEF Refusals, Mismatched
      <3>5. TaskSound(b)
        BY <3>2 DEF TaskSound
      <3>6. AnswerSound(c, b)
        BY <1>1, <3>1, <3>2, <3>4 DEF AnswerSound, Delivered
      <3> QED
        BY <2>1, <3>1, <3>2, <3>5, <3>6, OneConnection
    <2> QED
      BY <2>2, <2>3
  <1> QED
    BY <1>2, <1>3, <1>4, <1>7, <1>8, <1>9, <1>10

\* check_and_record_identity: the first to come is pinned, and whoever goes on from
\* here is pinned.
LEMMA IdentifyPreserves ==
  ASSUME IndInv, NEW c \in Conns, Identify(c)
  PROVE  IndInv'
  <1> USE DEF IndInv
  <1> DEFINE conn == conns[c]
             f == conn.cert
             a == Claim[f]
  <1>1. /\ conn \in Conn /\ conns \in [Conns -> Conn] /\ conn.server = "identity"
        /\ TaskSound(conn) /\ AnswerSound(c, conn)
        /\ pins \in [Addresses -> Fingerprints \cup {NoPin}]
    BY DEF TypeOK, Identify
  <1>2. f \in Fingerprints /\ a \in Addresses /\ Refusal(conn) = 0 /\ conn.status = 0
    <2>1. Refusal(conn) = 0 /\ a # NoAddress /\ conn.status = 0
      BY <1>1 DEF TaskSound
    <2>2. f \in Fingerprints
      BY <1>1, <2>1, Admitted
    <2> QED
      BY <2>1, <2>2, ServerAssumption
  <1>3. /\ pins' = IF pins[a] = NoPin THEN [pins EXCEPT ![a] = f] ELSE pins
        /\ UNCHANGED <<messages, mailboxIndex, nextSeq, senders, released>>
    <2>1. IdentityCheck(a, f) = "first" <=> pins[a] = NoPin
      BY DEF IdentityCheck
    <2> QED
      BY <2>1 DEF Identify, CheckAndRecordIdentity
  <1>4. \/ /\ RejectChangedSender /\ pins[a] \notin {NoPin, f} /\ conns' = Answer(c, 63)
        \/ /\ RejectChangedSender => pins[a] \in {NoPin, f}
           /\ conns' = Advance(c, "sender")
    <2>1. IdentityCheck(a, f) = "changed" <=> pins[a] \notin {NoPin, f}
      BY DEF IdentityCheck
    <2> QED
      BY <2>1 DEF Identify
  <1>5. \A x \in Addresses : pins[x] # NoPin => pins'[x] = pins[x]
    BY <1>1, <1>2, <1>3
  <1>6. ASSUME NEW g \in Fingerprints, Trusted(g) PROVE Trusted(g)'
    <2>1. SUFFICES ASSUME RejectChangedSender, Claim[g] # NoAddress
                   PROVE  g \in released[Claim[g]] \cup {pins'[Claim[g]]}
      BY <1>3 DEF Trusted
    <2>2. Claim[g] \in Addresses /\ g # NoPin
      BY <2>1, ServerAssumption, MailboxAssumption
    <2> QED
      BY <1>5, <1>6, <2>1, <2>2 DEF Trusted
  <1>7. PICK b \in Conn :
          /\ conns' = [conns EXCEPT ![c] = b]
          /\ b.client = conn.client /\ b.cert = f /\ b.target = conn.target /\ b.result = conn.result
          /\ \/ b.server = "reply" /\ b.status = 63
             \/ /\ b.server = "sender" /\ b.status = 0
                /\ RejectChangedSender => pins'[a] = f
    <2>1. CASE conns' = Answer(c, 63)
      <3> DEFINE b == [conn EXCEPT !.server = "reply", !.status = 63]
      <3>3. 63 \in Refusals
        BY DEF Refusals
      <3>1. conns' = [conns EXCEPT ![c] = b]
        BY <1>1, <2>1 DEF Answer
      <3>2. /\ b \in Conn /\ b.client = conn.client /\ b.cert = f /\ b.target = conn.target
            /\ b.result = conn.result /\ b.server = "reply" /\ b.status = 63
        BY <1>1, <3>3 DEF Conn
      <3> QED
        BY <3>1, <3>2
    <2>2. CASE conns' = Advance(c, "sender") /\ (RejectChangedSender => pins[a] \in {NoPin, f})
      <3> DEFINE b == [conn EXCEPT !.server = "sender"]
      <3>1. conns' = [conns EXCEPT ![c] = b]
        BY <1>1, <2>2 DEF Advance
      <3>2. /\ b \in Conn /\ b.client = conn.client /\ b.cert = f /\ b.target = conn.target
            /\ b.result = conn.result /\ b.server = "sender" /\ b.status = 0
        BY <1>1, <1>2 DEF Conn
      <3>3. RejectChangedSender => pins'[a] = f
        BY <1>1, <1>2, <1>3, <2>2
      <3> QED
        BY <3>1, <3>2, <3>3
    <2> QED
      BY <1>4, <2>1, <2>2
  <1>8. TypeOK'
    <2>1. pins' \in [Addresses -> Fingerprints \cup {NoPin}]
      BY <1>1, <1>2, <1>3
    <2>2. conns' \in [Conns -> Conn]
      BY <1>1, <1>7
    <2> QED
      BY <1>3, <2>1, <2>2 DEF TypeOK
  <1>9. IndexExact'
    BY <1>3 DEF IndexExact, List
  <1>10. MailSound'
    <2>1. \A s \in DOMAIN messages : messages[s].sender_fingerprint \in Fingerprints
      BY DEF TypeOK, ReceivedMessage
    <2> QED
      BY <1>3, <1>6, <2>1 DEF MailSound, Brought
  <1>11. ASSUME NEW d \in Conns PROVE TaskSound(conns[d])' /\ AnswerSound(d, conns[d])'
    <2>1. CASE d = c
      <3>1. conns'[d] = b
        BY <1>1, <1>7, <2>1
      <3>2. TaskSound(b)'
        BY <1>2, <1>3, <1>7 DEF TaskSound, Refusal, Trusted
      <3>3. AnswerSound(d, b)'
        BY <1>1, <1>2, <1>3, <1>7, <2>1 DEF AnswerSound, Delivered, Brought, Mismatched, Failed
      <3> QED
        BY <3>1, <3>2, <3>3 DEF TaskSound, AnswerSound, Trusted, Delivered, Brought
    <2>2. CASE d # c
      <3>1. conns'[d] = conns[d] /\ conns[d] \in Conn
        BY <1>1, <1>7, <2>2
      <3>2. conns[d].server \in {"sender", "store"} => conns[d].cert \in Fingerprints
        BY <3>1, Admitted DEF TaskSound
      <3>3. conns[d].server \in {"sender", "store"} => Trusted(conns[d].cert)'
        BY <1>6, <3>1, <3>2 DEF TaskSound, Trusted
      <3>4. TaskSound(conns[d])'
        BY <1>3, <3>1, <3>3 DEF TaskSound, Trusted
      <3>5. AnswerSound(d, conns[d])'
        BY <1>3, <3>1 DEF AnswerSound, Delivered, Brought
      <3> QED
        BY <3>4, <3>5
    <2> QED
      BY <2>1, <2>2
  <1> QED
    BY <1>8, <1>9, <1>10, <1>11

\* record_sender: the fingerprint is on file before the message is.
LEMMA RecordPreserves ==
  ASSUME IndInv, NEW c \in Conns, Record(c)
  PROVE  IndInv'
  <1> USE DEF IndInv
  <1> DEFINE conn == conns[c]
  <1>1. /\ conn \in Conn /\ conns \in [Conns -> Conn] /\ conn.server = "sender"
        /\ TaskSound(conn) /\ AnswerSound(c, conn)
    BY DEF TypeOK, Record
  <1>2. Refusal(conn) = 0 /\ conn.status = 0 /\ Trusted(conn.cert)
    BY <1>1 DEF TaskSound
  <1>3. conn.cert \in Fingerprints
    BY <1>1, <1>2, Admitted
  <1>4. /\ senders' = senders \cup {conn.cert}
        /\ UNCHANGED <<messages, mailboxIndex, nextSeq, pins, released>>
    BY DEF Record, RecordSender
  <1>5. PICK b \in Conn :
          /\ conns' = [conns EXCEPT ![c] = b]
          /\ b.client = conn.client /\ b.server = "store" /\ b.cert = conn.cert
          /\ b.target = conn.target /\ b.status = conn.status /\ b.result = conn.result
    <2> DEFINE e == [conn EXCEPT !.server = "store"]
    <2>1. conns' = [conns EXCEPT ![c] = e]
      BY <1>1 DEF Record, Advance
    <2>2. /\ e \in Conn /\ e.client = conn.client /\ e.server = "store" /\ e.cert = conn.cert
          /\ e.target = conn.target /\ e.status = conn.status /\ e.result = conn.result
      BY <1>1 DEF Conn
    <2> QED
      BY <2>1, <2>2
  <1>6. TypeOK'
    <2>1. conns' \in [Conns -> Conn] /\ senders' \subseteq Fingerprints
      BY <1>1, <1>3, <1>4, <1>5 DEF TypeOK
    <2> QED
      BY <1>4, <2>1 DEF TypeOK
  <1>7. IndexExact'
    BY <1>4 DEF IndexExact, List
  <1>8. MailSound'
    BY <1>4 DEF MailSound, Trusted, Brought
  <1>9. ASSUME NEW d \in Conns PROVE TaskSound(conns[d])' /\ AnswerSound(d, conns[d])'
    <2>1. CASE d = c
      <3>1. conns'[d] = b
        BY <1>1, <1>5, <2>1
      <3>2. TaskSound(b)'
        BY <1>2, <1>4, <1>5 DEF TaskSound, Refusal, Trusted
      <3>3. AnswerSound(d, b)'
        BY <1>1, <1>2, <1>4, <1>5, <2>1 DEF AnswerSound, Delivered, Brought
      <3> QED
        BY <3>1, <3>2, <3>3 DEF TaskSound, AnswerSound, Trusted, Delivered, Brought
    <2>2. CASE d # c
      <3>1. conns'[d] = conns[d]
        BY <1>1, <1>5, <2>2
      <3> QED
        BY <1>4, <3>1 DEF TaskSound, AnswerSound, Trusted, Delivered, Brought
    <2> QED
      BY <2>1, <2>2
  <1> QED
    BY <1>6, <1>7, <1>8, <1>9

\* store: the new message takes a fresh number, and no other connection's message
\* is disturbed.
LEMMA DeliverPreserves ==
  ASSUME IndInv, NEW c \in Conns, Deliver(c)
  PROVE  IndInv'
  <1> USE DEF IndInv
  <1> DEFINE conn == conns[c]
             n == nextSeq
             m == [ seq |-> n, recipient |-> conn.target, sender_fingerprint |-> conn.cert,
                    sender_address |-> Claim[conn.cert], body |-> c ]
  <1>1. /\ conn \in Conn /\ conns \in [Conns -> Conn] /\ conn.server = "store"
        /\ TaskSound(conn) /\ AnswerSound(c, conn) /\ n \in Nat
        /\ messages \in [0 .. n - 1 -> ReceivedMessage]
        /\ mailboxIndex \in [Addresses -> SUBSET (0 .. n - 1)]
    BY DEF TypeOK, Deliver
  <1>2. /\ Refusal(conn) = 0 /\ conn.status = 0 /\ Trusted(conn.cert)
        /\ conn.cert \in senders /\ Brought(c) = {}
    BY <1>1 DEF TaskSound, AnswerSound
  <1>3. /\ conn.target \in Served /\ conn.target \in Addresses
        /\ conn.cert \in Fingerprints \ Expired
        /\ RequireSenderIdentity => Claim[conn.cert] # NoAddress
        /\ conn.target # Malformed
    BY <1>1, <1>2, Admitted
  <1>4. /\ nextSeq' = n + 1
        /\ messages' = [s \in DOMAIN messages \cup {n} |-> IF s = n THEN m ELSE messages[s]]
        /\ mailboxIndex' = [mailboxIndex EXCEPT ![conn.target] = @ \cup {n}]
        /\ UNCHANGED <<senders, pins, released>>
    BY DEF Deliver, Store, Advanced, Indexed
  <1>5. m \in ReceivedMessage /\ m.recipient = conn.target /\ m.sender_fingerprint = conn.cert
        /\ m.sender_address = Claim[conn.cert] /\ m.body = c
    BY <1>1, <1>3, ServerAssumption DEF ReceivedMessage
  <1> HIDE DEF m
  <1>6. /\ DOMAIN messages' = DOMAIN messages \cup {n} /\ n \notin DOMAIN messages
        /\ messages'[n] = m /\ \A s \in DOMAIN messages : messages'[s] = messages[s]
    BY <1>1, <1>4
  <1>7. 0 .. n + 1 - 1 = (0 .. n - 1) \cup {n}
    BY <1>1
  <1>8. messages' \in [0 .. n + 1 - 1 -> ReceivedMessage]
    BY <1>1, <1>4, <1>5, <1>7
  <1>9. mailboxIndex' \in [Addresses -> SUBSET (0 .. n + 1 - 1)]
    BY <1>1, <1>3, <1>4, <1>7
  <1>10. PICK b \in Conn :
           /\ conns' = [conns EXCEPT ![c] = b]
           /\ b.client = conn.client /\ b.server = "reply" /\ b.cert = conn.cert
           /\ b.target = conn.target /\ b.status = 20 /\ b.result = conn.result
    <2> DEFINE e == [conn EXCEPT !.server = "reply", !.status = 20]
    <2>1. conns' = [conns EXCEPT ![c] = e]
      BY <1>1 DEF Deliver, Answer
    <2>2. /\ e \in Conn /\ e.client = conn.client /\ e.server = "reply" /\ e.cert = conn.cert
          /\ e.target = conn.target /\ e.status = 20 /\ e.result = conn.result
      BY <1>1 DEF Conn
    <2> QED
      BY <2>1, <2>2
  <1>11. TypeOK'
    <2>1. conns' \in [Conns -> Conn] /\ nextSeq' \in Nat
      BY <1>1, <1>4, <1>10
    <2> QED
      BY <1>4, <1>8, <1>9, <2>1 DEF TypeOK
  <1>12. Brought(c)' = {n}
    BY <1>2, <1>5, <1>6 DEF Brought
  <1>13. ASSUME NEW d, d # c PROVE Brought(d)' = Brought(d)
    BY <1>5, <1>6, <1>13 DEF Brought
  <1>14. IndexExact'
    <2> SUFFICES ASSUME NEW a \in Addresses
                 PROVE  List(a)' = {s \in DOMAIN messages' : messages'[s].recipient = a}
      BY DEF IndexExact
    <2>1. List(a) = {s \in DOMAIN messages : messages[s].recipient = a}
      BY DEF IndexExact
    <2>2. CASE a = conn.target
      <3>1. mailboxIndex'[a] = mailboxIndex[a] \cup {n}
        BY <1>1, <1>4, <2>2
      <3> QED
        BY <1>5, <1>6, <2>1, <2>2, <3>1 DEF List
    <2>3. CASE a # conn.target
      <3>1. mailboxIndex'[a] = mailboxIndex[a] /\ n \notin mailboxIndex[a]
        BY <1>1, <1>4, <2>3
      <3> QED
        BY <1>5, <1>6, <2>1, <2>3, <3>1 DEF List
    <2> QED
      BY <2>2, <2>3
  <1>15. MailSound'
    <2>1. UNCHANGED <<senders, pins, released>>
      BY <1>4
    <2> SUFFICES ASSUME NEW s \in DOMAIN messages', NEW x, x = messages'[s].body
                 PROVE  /\ messages'[s].recipient \in Served
                        /\ messages'[s].sender_fingerprint \in senders \ Expired
                        /\ messages'[s].sender_address = Claim[messages'[s].sender_fingerprint]
                        /\ RequireSenderIdentity => messages'[s].sender_address # NoAddress
                        /\ Trusted(messages'[s].sender_fingerprint)
                        /\ Brought(x)' = {s}
      BY <2>1 DEF MailSound, Trusted, Brought
    <2>2. CASE s = n
      BY <1>2, <1>3, <1>5, <1>6, <1>12, <2>2
    <2>3. CASE s \in DOMAIN messages
      <3>1. messages'[s] = messages[s]
        BY <1>6, <2>3
      <3>2. x # c
        BY <1>2, <2>3, <3>1 DEF Brought
      <3>3. Brought(x)' = Brought(x)
        BY <1>13, <3>2
      <3> QED
        BY <2>3, <3>1, <3>3 DEF MailSound
    <2> QED
      BY <1>6, <2>2, <2>3
  <1>16. ASSUME NEW d \in Conns PROVE TaskSound(conns[d])' /\ AnswerSound(d, conns[d])'
    <2>1. CASE d = c
      <3>1. conns'[d] = b
        BY <1>1, <1>10, <2>1
      <3>2. TaskSound(b)'
        BY <1>10 DEF TaskSound
      <3>3. n \in mailboxIndex'[b.target]
        BY <1>1, <1>3, <1>4, <1>10
      <3>4. Delivered(c, b)'
        BY <1>5, <1>6, <1>10, <1>12, <3>3 DEF Delivered
      <3>5. AnswerSound(c, b)'
        BY <1>1, <1>2, <1>3, <1>10, <3>4 DEF AnswerSound
      <3> QED
        BY <2>1, <3>1, <3>2, <3>5 DEF TaskSound, AnswerSound, Trusted, Delivered, Brought
    <2>2. CASE d # c
      <3>1. conns'[d] = conns[d] /\ conns[d] \in Conn /\ TaskSound(conns[d]) /\ AnswerSound(d, conns[d])
        BY <1>1, <1>10, <2>2
      <3>2. TaskSound(conns[d])'
        BY <1>4, <3>1 DEF TaskSound, Trusted
      <3>3. Brought(d)' = Brought(d)
        BY <1>13, <2>2
      <3>4. ASSUME Delivered(d, conns[d]) PROVE Delivered(d, conns[d])'
        <4>1. PICK s \in mailboxIndex[conns[d].target] :
                 /\ Brought(d) = {s} /\ messages[s].sender_fingerprint = conns[d].cert
                 /\ messages[s].sender_address = Claim[conns[d].cert]
          BY <3>4 DEF Delivered
        <4>2. s \in DOMAIN messages
          BY <4>1 DEF Brought
        <4>3. s \in mailboxIndex'[conns[d].target]
          BY <1>1, <1>3, <1>4, <4>1
        <4> QED
          BY <1>6, <3>1, <3>3, <4>1, <4>2, <4>3 DEF Delivered
      <3> QED
        BY <3>1, <3>2, <3>3, <3>4 DEF AnswerSound
    <2> QED
      BY <2>1, <2>2
  <1> QED
    BY <1>11, <1>14, <1>15, <1>16

\* forget_sender_identity: a released fingerprint is remembered as such.
LEMMA ForgetPreserves ==
  ASSUME IndInv, NEW a \in Addresses, Forget(a)
  PROVE  IndInv'
  <1> USE DEF IndInv
  <1>1. /\ pins \in [Addresses -> Fingerprints \cup {NoPin}] /\ pins[a] \in Fingerprints
        /\ released \in [Addresses -> SUBSET Fingerprints]
        /\ pins' = [pins EXCEPT ![a] = NoPin]
        /\ released' = [released EXCEPT ![a] = @ \cup {pins[a]}]
        /\ UNCHANGED <<messages, mailboxIndex, nextSeq, senders, conns>>
    BY DEF TypeOK, Forget, ForgetSenderIdentity
  <1>2. TypeOK'
    BY <1>1 DEF TypeOK
  <1>3. ASSUME NEW g \in Fingerprints, Trusted(g) PROVE Trusted(g)'
    <2>1. SUFFICES ASSUME RejectChangedSender, Claim[g] # NoAddress
                   PROVE  g \in released'[Claim[g]] \cup {pins'[Claim[g]]}
      BY DEF Trusted
    <2>2. Claim[g] \in Addresses
      BY <2>1, ServerAssumption
    <2> QED
      BY <1>1, <1>3, <2>1, <2>2 DEF Trusted
  <1>4. IndexExact'
    BY <1>1 DEF IndexExact, List
  <1>5. MailSound'
    <2>1. \A s \in DOMAIN messages : messages[s].sender_fingerprint \in Fingerprints
      BY DEF TypeOK, ReceivedMessage
    <2> QED
      BY <1>1, <1>3, <2>1 DEF MailSound, Brought
  <1>6. ASSUME NEW d \in Conns PROVE TaskSound(conns[d])' /\ AnswerSound(d, conns[d])'
    <2>1. conns[d] \in Conn /\ TaskSound(conns[d]) /\ AnswerSound(d, conns[d])
      BY DEF TypeOK
    <2>2. conns[d].server \in {"sender", "store"} => conns[d].cert \in Fingerprints
      BY <2>1, Admitted DEF TaskSound
    <2>3. conns[d].server \in {"sender", "store"} => Trusted(conns[d].cert)'
      BY <1>1, <1>3, <2>1, <2>2 DEF TaskSound, Trusted
    <2>4. TaskSound(conns[d])'
      BY <1>1, <2>1, <2>3 DEF TaskSound, Trusted
    <2>5. AnswerSound(d, conns[d])'
      BY <1>1, <2>1 DEF AnswerSound, Delivered, Brought
    <2> QED
      BY <2>4, <2>5
  <1> QED
    BY <1>2, <1>4, <1>5, <1>6

\* A crash ends the tasks and leaves the tables.
LEMMA CrashPreserves ==
  ASSUME IndInv, Crash
  PROVE  IndInv'
  <1> USE DEF IndInv
  <1>1. /\ conns' = [c \in Conns |-> [conns[c] EXCEPT !.server = "none"]]
        /\ UNCHANGED <<messages, mailboxIndex, nextSeq, senders, pins, released>>
    BY DEF Crash, storeVars
  <1>2. ASSUME NEW d \in Conns
        PROVE  /\ conns'[d] \in Conn /\ conns'[d].server = "none"
               /\ conns'[d].client = conns[d].client /\ conns'[d].cert = conns[d].cert
               /\ conns'[d].target = conns[d].target /\ conns'[d].status = conns[d].status
               /\ conns'[d].result = conns[d].result
    <2>1. conns[d] \in Conn /\ conns'[d] = [conns[d] EXCEPT !.server = "none"]
      BY <1>1 DEF TypeOK
    <2> QED
      BY <2>1 DEF Conn
  <1>3. conns' \in [Conns -> Conn]
    BY <1>1, <1>2
  <1>4. TypeOK'
    BY <1>1, <1>3 DEF TypeOK
  <1>5. IndexExact'
    BY <1>1 DEF IndexExact, List
  <1>6. MailSound'
    BY <1>1 DEF MailSound, Trusted, Brought
  <1>7. ASSUME NEW d \in Conns PROVE TaskSound(conns[d])' /\ AnswerSound(d, conns[d])'
    <2>1. TaskSound(conns[d])'
      BY <1>2 DEF TaskSound
    <2>2. AnswerSound(d, conns[d])'
      BY <1>1, <1>2 DEF AnswerSound, Delivered, Brought
    <2> QED
      BY <2>1, <2>2
  <1> QED
    BY <1>4, <1>5, <1>6, <1>7

\* Every step preserves the invariant.
LEMMA NextPreserves == IndInv /\ [Next]_vars => IndInv'
  <1> SUFFICES ASSUME IndInv, [Next]_vars PROVE IndInv'
    OBVIOUS
  <1>1. CASE UNCHANGED vars
    BY <1>1 DEF vars, IndInv, TypeOK, IndexExact, List, MailSound, TaskSound, AnswerSound,
                Trusted, Delivered, Brought
  <1>2. ASSUME NEW c \in Conns,
               \/ \E cert \in Fingerprints \cup {NoCert}, target \in Addresses \cup Bad :
                     Send(c, cert, target)
               \/ \E cert \in Fingerprints \cup {NoCert} : Mismatch(c, cert)
         \/ SendFails(c) \/ Read(c) \/ ReadFails(c) \/ StorageFails(c) \/ Reply(c)
        PROVE  IndInv'
    BY <1>2, QuietSteps
  <1>3. ASSUME NEW c \in Conns, Identify(c) PROVE IndInv'
    BY <1>3, IdentifyPreserves
  <1>4. ASSUME NEW c \in Conns, Record(c) PROVE IndInv'
    BY <1>4, RecordPreserves
  <1>5. ASSUME NEW c \in Conns, Deliver(c) PROVE IndInv'
    BY <1>5, DeliverPreserves
  <1>6. ASSUME NEW a \in Addresses, Forget(a) PROVE IndInv'
    BY <1>6, ForgetPreserves
  <1>7. CASE Crash
    BY <1>7, CrashPreserves
  <1> QED
    BY <1>1, <1>2, <1>3, <1>4, <1>5, <1>6, <1>7 DEF Next

----------------------------------------------------------------------------

\* IndInv holds in every reachable state.
THEOREM Invariance == Spec => []IndInv
  BY InitEstablishes, NextPreserves, PTL DEF Spec

\* The tables and connections keep their types; sequence numbers have no gap.
THEOREM TypeCorrect == Spec => []TypeOK
  <1>1. IndInv => TypeOK
    BY DEF IndInv
  <1> QED
    BY <1>1, Invariance, PTL

\* A receipt can be believed: 20 means stored once, as sent; a refusal, not stored.
THEOREM ReceiptsAreHonest == Spec => []ReceiptHonest
  <1>1. ASSUME IndInv, NEW c \in Conns, conns[c].result = 20
        PROVE  \E s \in List(conns[c].target) :
                 /\ Brought(c) = {s}
                 /\ messages[s].sender_fingerprint = conns[c].cert
                 /\ messages[s].sender_address = Claim[conns[c].cert]
    <2>1. Delivered(c, conns[c])
      BY <1>1 DEF IndInv, AnswerSound, Mismatched, Failed
    <2> QED
      BY <2>1 DEF Delivered, List, Brought
  <1>2. ASSUME IndInv, NEW c \in Conns,
               conns[c].result \in Refusals \cup {40, Mismatched}
        PROVE  Brought(c) = {}
    <2>1. conns[c].status # 20
      BY <1>2 DEF IndInv, AnswerSound, Refusals, Mismatched, Failed
    <2> QED
      BY <2>1, <1>2 DEF IndInv, AnswerSound
  <1>3. IndInv => ReceiptHonest
    BY <1>1, <1>2 DEF ReceiptHonest
  <1> QED
    BY <1>3, Invariance, PTL

\* No mail that dispatch should have refused, and one message for a connection.
THEOREM MailIsAdmissible == Spec => []MailAdmissible
  <1>1. IndInv => MailAdmissible
    BY DEF IndInv, MailSound, MailAdmissible
  <1> QED
    BY <1>1, Invariance, PTL

\* Mail bears the pinned fingerprint, or one that the operator released.
THEOREM PinsAreHonoured == Spec => []PinHonoured
  <1>1. IndInv => PinHonoured
    BY DEF IndInv, MailSound, PinHonoured, Trusted
  <1> QED
    BY <1>1, Invariance, PTL

\* list shows each mailbox's messages, all and no others.
THEOREM IndexIsExact == Spec => []IndexExact
  <1>1. IndInv => IndexExact
    BY DEF IndInv
  <1> QED
    BY <1>1, Invariance, PTL

\* A pin changes only by the operator's hand: no two deliveries, in whatever order
\* their transactions come, overwrite one.
THEOREM PinsAreStable == Spec => PinStable
  <1> DEFINE Stable == \A a \in Addresses :
                          pins[a] # NoPin => pins'[a] = pins[a] \/ pins[a] \in released'[a]
  <1>1. ASSUME IndInv, Next PROVE Stable
    <2>1. CASE UNCHANGED pins
      BY <2>1
    <2>2. ASSUME NEW c \in Conns, Identify(c) PROVE Stable
      BY <1>1, <2>2 DEF IndInv, TypeOK, Identify, CheckAndRecordIdentity, IdentityCheck
    <2>3. ASSUME NEW a \in Addresses, Forget(a) PROVE Stable
      BY <1>1, <2>3 DEF IndInv, TypeOK, Forget, ForgetSenderIdentity
    <2> QED
      BY <1>1, <2>1, <2>2, <2>3 DEF Next, Send, Mismatch, SendFails, Read, ReadFails, StorageFails,
         Record, RecordSender, Deliver, Store, Reply, Crash, storeVars
  <1>2. IndInv /\ [Next]_vars => [Stable]_vars
    BY <1>1
  <1> QED
    BY <1>2, Invariance, PTL DEF Spec, PinStable

\* Delivered mail is never lost, replaced or renumbered.
THEOREM MailIsAppendOnly == Spec => AppendOnly
  <1> DEFINE Kept == \A s \in DOMAIN messages : s \in DOMAIN messages' /\ messages'[s] = messages[s]
  <1>1. ASSUME IndInv, Next PROVE Kept
    <2>1. CASE UNCHANGED messages
      BY <2>1
    <2>2. ASSUME NEW c \in Conns, Deliver(c) PROVE Kept
      <3>1. nextSeq \notin DOMAIN messages
        BY <1>1 DEF IndInv, TypeOK
      <3> QED
        BY <2>2, <3>1 DEF Deliver, Store
    <2> QED
      BY <1>1, <2>1, <2>2 DEF Next, Send, Mismatch, SendFails, Read, ReadFails, StorageFails, Identify,
         CheckAndRecordIdentity, Record, RecordSender, Reply, Forget, ForgetSenderIdentity, Crash,
         storeVars
  <1>2. IndInv /\ [Next]_vars => [Kept]_vars
    BY <1>1
  <1> QED
    BY <1>2, Invariance, PTL DEF Spec, AppendOnly

----------------------------------------------------------------------------
(* MisfinIdentity, for any number of processes, specs and keys. The        *)
(* inductive invariant says who may be at a file whose calls have not been *)
(* in each other's way: a call that creates or replaces it is alone, and   *)
(* calls that share it find it whole.                                      *)

FileType == [state : {"absent", "torn", "whole"}, address : Specs \cup {<<>>}, key : 0..MaxKeys]
ProcType ==
    [pc : Pcs, op : Ops, address : Specs \cup {<<>>}, key : 0..MaxKeys, linked : BOOLEAN,
     result : [kind : {"nothing", "error", "ok"}, key : 0..MaxKeys]]

\* A process at work has been given one of the addresses.
AddressKnown == \A p \in Procs : proc[p].pc # "idle" => proc[p].address \in Specs

\* Only rotate and forget remove.
RemovesToReplace ==
    \A p \in Procs : proc[p].pc \in {"removable", "remove"} => proc[p].op \in Replacing

\* A call under way has not returned anything.
Unanswered == \A p \in Procs : proc[p].pc # "idle" => proc[p].result = Nothing

\* Whoever creates or replaces a calm file is the only one at it.
Alone ==
    \A p, q \in Procs :
        /\ p # q /\ proc[p].pc # "idle" /\ proc[q].pc # "idle"
        /\ Path(p) = Path(q) /\ Path(p) \in calm
        => /\ proc[p].pc \notin {"open", "write"} /\ proc[p].op \notin Replacing
           /\ file[Path(p)].state = "whole"

\* What the creator of a calm file finds there, step by step.
CreatesFresh ==
    \A p \in Procs :
        Path(p) \in calm =>
            /\ proc[p].pc = "open" => file[Path(p)].state = "absent"
            /\ proc[p].pc = "write" => proc[p].linked /\ file[Path(p)].state = "torn"

\* What a rotate finds at a calm file after it has removed the old identity.
RotatesFresh ==
    \A p \in Procs :
        proc[p].op = "rotate" /\ Path(p) \in calm =>
            /\ proc[p].pc = "exists" => file[Path(p)].state = "absent"
            /\ proc[p].pc # "read"
            /\ proc[p].pc \in {"inspect", "report"} =>
                  /\ file[Path(p)].state = "whole"
                  /\ file[Path(p)].key = proc[p].key
                  /\ kept[Path(p)] = 0

IInv ==
    /\ IdentityTypeOK /\ AddressKnown /\ RemovesToReplace /\ Unanswered
    /\ Alone /\ CreatesFresh /\ RotatesFresh /\ IdentityKept

----------------------------------------------------------------------------
\* Every address has a file, and an idle process is at none that matters.
LEMMA PathInFiles ==
    ASSUME NEW a \in Specs
    PROVE  PathOf(a) \in Files
BY DEF Files

\* What a call returns has its type.
LEMMA ResultTypes ==
    ASSUME NEW k \in 0..MaxKeys, NEW r \in [kind : {"nothing", "error", "ok"}, key : 0..MaxKeys]
    PROVE  /\ Ok(k) \in [kind : {"nothing", "error", "ok"}, key : 0..MaxKeys]
           /\ Error \in [kind : {"nothing", "error", "ok"}, key : 0..MaxKeys]
           /\ Nothing \in [kind : {"nothing", "error", "ok"}, key : 0..MaxKeys]
           /\ Idle(r) \in ProcType
           /\ Idle(r).pc = "idle" /\ Idle(r).op = "status" /\ Idle(r).result = r
BY IdentityAssumption DEF Ok, Error, Nothing, Idle, ProcType, Pcs, Ops

----------------------------------------------------------------------------
\* A process of its own type that changes by itself leaves the others as they were.
Basics == IdentityTypeOK /\ AddressKnown /\ RemovesToReplace

LEMMA OneMoves ==
    ASSUME Basics, NEW p \in Procs, NEW x \in ProcType, proc' = [proc EXCEPT ![p] = x],
           x.pc # "idle" => x.address \in Specs,
           x.pc \in {"removable", "remove"} => x.op \in Replacing,
           file' \in [Files -> FileType], minted' \in 0..MaxKeys, kept' \in [Files -> 0..MaxKeys],
           calm' \subseteq Files
    PROVE  Basics'
<1>1. proc' \in [Procs -> ProcType]
  BY DEF Basics, IdentityTypeOK, ProcType
<1>2. IdentityTypeOK'
  BY <1>1 DEF IdentityTypeOK, ProcType, FileType
<1>3. \A q \in Procs : proc'[q] = IF q = p THEN x ELSE proc[q]
  BY DEF Basics, IdentityTypeOK
<1> QED
  BY <1>2, <1>3 DEF Basics, AddressKnown, RemovesToReplace

\* The same for a process that returns.
LEMMA OneReturns ==
    ASSUME Basics, NEW p \in Procs, NEW r \in [kind : {"nothing", "error", "ok"}, key : 0..MaxKeys],
           Return(p, r), UNCHANGED <<file, minted, calm>>, kept' \in [Files -> 0..MaxKeys]
    PROVE  Basics'
<1>1. Idle(r) \in ProcType /\ Idle(r).pc = "idle"
  BY ResultTypes, IdentityAssumption
<1>2. file' \in [Files -> FileType] /\ minted' \in 0..MaxKeys /\ calm' \subseteq Files
  BY DEF Basics, IdentityTypeOK, FileType
<1> QED
  BY <1>1, <1>2, OneMoves DEF Return

LEMMA BasicsStep ==
    ASSUME Basics, [IdentityNext]_identityVars
    PROVE  Basics'
<1>0. ASSUME UNCHANGED identityVars PROVE Basics'
  BY <1>0 DEF identityVars, Basics, IdentityTypeOK, AddressKnown, RemovesToReplace
<1> SUFFICES ASSUME NEW p \in Procs,
                    \/ \E op \in Ops, a \in Specs : Call(p, op, a)
                    \/ Exists(p) \/ ReadFile(p) \/ Open(p) \/ Write(p) \/ CreateFails(p)
                    \/ Inspect(p) \/ Report(p)
                    \/ Removable(p) \/ Remove(p) \/ RemoveFails(p)
                    \/ ProcessDies(p)
             PROVE  Basics'
  BY <1>0 DEF IdentityNext
<1>t. /\ file \in [Files -> FileType] /\ proc \in [Procs -> ProcType] /\ minted \in 0..MaxKeys
      /\ kept \in [Files -> 0..MaxKeys] /\ calm \subseteq Files
  BY DEF Basics, IdentityTypeOK, FileType, ProcType
<1>r. /\ Error \in [kind : {"nothing", "error", "ok"}, key : 0..MaxKeys]
      /\ Nothing \in [kind : {"nothing", "error", "ok"}, key : 0..MaxKeys]
      /\ \A k \in 0..MaxKeys : Ok(k) \in [kind : {"nothing", "error", "ok"}, key : 0..MaxKeys]
      /\ 0 \in 0..MaxKeys
  BY IdentityAssumption DEF Error, Nothing, Ok
<1>b. /\ proc[p].pc # "idle" => proc[p].address \in Specs /\ Path(p) \in Files
      /\ proc[p].pc \in {"removable", "remove"} => proc[p].op \in Replacing
      /\ proc[p] \in ProcType
  BY <1>t, PathInFiles DEF Basics, AddressKnown, RemovesToReplace, Path
<1>s. ASSUME NEW pc \in Pcs, Step(p, pc), proc[p].pc # "idle",
             pc \in {"removable", "remove"} => proc[p].op \in Replacing,
             UNCHANGED <<file, kept, calm>>, minted' \in 0..MaxKeys
      PROVE  Basics'
  <2>1. proc' = [proc EXCEPT ![p] = [proc[p] EXCEPT !.pc = pc]]
    BY <1>s, <1>t DEF Step
  <2>2. /\ [proc[p] EXCEPT !.pc = pc] \in ProcType
        /\ [proc[p] EXCEPT !.pc = pc].pc = pc
        /\ [proc[p] EXCEPT !.pc = pc].op = proc[p].op
        /\ [proc[p] EXCEPT !.pc = pc].address = proc[p].address
    BY <1>b, <1>s DEF ProcType
  <2> QED
    BY <2>1, <2>2, <1>s, <1>t, <1>b, OneMoves
<1>l. ASSUME NEW k \in 0..MaxKeys, Loaded(p, k), proc[p].pc # "idle",
             file' \in [Files -> FileType], UNCHANGED <<minted, calm>>
      PROVE  Basics'
  <2>1. CASE proc[p].op = "material"
    <3>1. kept' \in [Files -> 0..MaxKeys]
      BY <2>1, <1>l, <1>t, <1>b DEF Loaded, Hand
    <3>2. proc' = [proc EXCEPT ![p] = Idle(Ok(k))] /\ Idle(Ok(k)) \in ProcType /\ Idle(Ok(k)).pc = "idle"
      BY <2>1, <1>l, <1>r, ResultTypes DEF Loaded, Return
    <3> QED
      BY <3>1, <3>2, <1>l, <1>t, OneMoves
  <2>2. CASE proc[p].op # "material"
    <3> DEFINE x == [proc[p] EXCEPT !.pc = "inspect", !.key = k]
    <3>1. proc' = [proc EXCEPT ![p] = x]
      BY <2>2, <1>l, <1>t DEF Loaded
    <3>2. x \in ProcType /\ x.pc = "inspect" /\ x.address = proc[p].address
      BY <1>b, <1>l DEF ProcType, Pcs
    <3> QED
      BY <2>2, <3>1, <3>2, <1>l, <1>t, <1>b, OneMoves DEF Loaded
  <2> QED
    BY <2>1, <2>2
<1>1. ASSUME NEW op \in Ops, NEW a \in Specs, Call(p, op, a) PROVE Basics'
  <2> DEFINE x == [pc |-> FirstStep(op), op |-> op, address |-> a, key |-> 0, linked |-> FALSE,
                   result |-> Nothing]
  <2>1. FirstStep(op) \in Pcs /\ (FirstStep(op) \in {"removable", "remove"} => op \in Replacing)
    BY DEF FirstStep, Ops, Pcs, Replacing
  <2>2. x \in ProcType /\ x.address = a /\ x.pc = FirstStep(op) /\ x.op = op
    BY <2>1, <1>r DEF ProcType
  <2>3. calm' \subseteq Files /\ UNCHANGED <<file, minted, kept>> /\ proc' = [proc EXCEPT ![p] = x]
    BY <1>1, <1>t DEF Call
  <2> QED
    BY <2>1, <2>2, <2>3, <1>t, OneMoves
<1>2. ASSUME Exists(p) PROVE Basics'
  <2>1. CASE Found(Path(p)) /\ Step(p, "read") /\ UNCHANGED minted
    BY <2>1, <1>2, <1>s, <1>t DEF Exists, At, Pcs
  <2>2. CASE minted < MaxKeys /\ minted' = minted + 1
             /\ proc' = [proc EXCEPT ![p].pc = "open", ![p].key = minted + 1]
    <3> DEFINE x == [proc[p] EXCEPT !.pc = "open", !.key = minted + 1]
    <3>1. minted + 1 \in 0..MaxKeys
      BY <2>2, <1>t, IdentityAssumption
    <3>2. proc' = [proc EXCEPT ![p] = x]
      BY <2>2, <1>t
    <3>3. x \in ProcType /\ x.pc = "open" /\ x.address = proc[p].address
      BY <1>b, <3>1 DEF ProcType, Pcs
    <3>4. proc[p].pc # "idle" /\ UNCHANGED <<file, kept, calm>>
      BY <1>2 DEF Exists, At
    <3> QED
      BY <2>2, <3>1, <3>2, <3>3, <3>4, <1>t, <1>b, OneMoves
  <2> QED
    BY <2>1, <2>2, <1>2 DEF Exists
<1>3. ASSUME ReadFile(p) PROVE Basics'
  <2>1. proc[p].pc # "idle" /\ UNCHANGED <<file, minted, calm>>
    BY <1>3 DEF ReadFile, At
  <2>2. file[Path(p)].key \in 0..MaxKeys
    BY <2>1, <1>b, <1>t DEF FileType
  <2>3. CASE Loaded(p, file[Path(p)].key)
    BY <2>1, <2>2, <2>3, <1>l, <1>t
  <2>4. CASE Return(p, Error) /\ UNCHANGED kept
    BY <2>1, <2>4, <1>r, <1>t, OneReturns
  <2> QED
    BY <2>3, <2>4, <1>3 DEF ReadFile
<1>4. ASSUME Open(p) PROVE Basics'
  <2> DEFINE x == [proc[p] EXCEPT !.pc = "write", !.linked = TRUE]
  <2>1. proc[p].pc # "idle" /\ UNCHANGED <<minted, kept, calm>> /\ proc' = [proc EXCEPT ![p] = x]
    BY <1>4, <1>t DEF Open, At
  <2>2. x \in ProcType /\ x.pc = "write" /\ x.address = proc[p].address
    BY <1>b DEF ProcType, Pcs
  <2>3. file' \in [Files -> FileType]
    BY <1>4, <1>t, <1>r DEF Open, Torn, FileType
  <2> QED
    BY <2>1, <2>2, <2>3, <1>t, <1>b, OneMoves
<1>5. ASSUME Write(p) PROVE Basics'
  <2>1. /\ proc[p].pc # "idle" /\ proc[p].key \in 0..MaxKeys /\ proc[p].address \in Specs
        /\ Loaded(p, proc[p].key) /\ UNCHANGED <<minted, calm>>
    BY <1>5, <1>b DEF Write, At, ProcType
  <2>2. Whole(proc[p].address, proc[p].key) \in FileType /\ Torn \in FileType
    BY <2>1, <1>r DEF Whole, Torn, FileType
  <2>3. file' \in [Files -> FileType]
    BY <2>2, <1>5, <1>t DEF Write
  <2> QED
    BY <2>1, <2>3, <1>l
<1>6. ASSUME CreateFails(p) PROVE Basics'
  BY <1>6, <1>r, <1>t, OneReturns DEF CreateFails
<1>7. ASSUME Inspect(p) PROVE Basics'
  <2>1. CASE Step(p, "report") /\ UNCHANGED kept
    BY <2>1, <1>7, <1>s, <1>t DEF Inspect, At, Pcs
  <2>2. CASE Return(p, Ok(0)) /\ UNCHANGED kept
    BY <2>2, <1>7, <1>r, <1>t, OneReturns DEF Inspect
  <2> QED
    BY <2>1, <2>2, <1>7 DEF Inspect
<1>8. ASSUME Report(p) PROVE Basics'
  <2>1. proc[p].pc # "idle" /\ UNCHANGED <<file, minted, calm>>
    BY <1>8 DEF Report, At
  <2>2. file[Path(p)].key \in 0..MaxKeys
    BY <2>1, <1>b, <1>t DEF FileType
  <2>3. CASE Return(p, Ok(file[Path(p)].key)) /\ Hand(p, file[Path(p)].key)
    <3>1. kept' \in [Files -> 0..MaxKeys]
      BY <2>2, <2>3, <1>t DEF Hand
    <3> QED
      BY <2>1, <2>2, <2>3, <3>1, <1>r, OneReturns
  <2>4. CASE Return(p, Error) /\ UNCHANGED kept
    BY <2>1, <2>4, <1>r, <1>t, OneReturns
  <2> QED
    BY <2>3, <2>4, <1>8 DEF Report
<1>9. ASSUME Removable(p) PROVE Basics'
  <2>1. CASE Step(p, "remove")
    BY <2>1, <1>9, <1>s, <1>t, <1>b DEF Removable, At, Pcs
  <2>2. CASE Step(p, "exists")
    BY <2>2, <1>9, <1>s, <1>t, <1>b DEF Removable, At, Pcs
  <2>3. CASE Return(p, Ok(0))
    BY <2>3, <1>9, <1>r, <1>t, OneReturns DEF Removable
  <2> QED
    BY <2>1, <2>2, <2>3, <1>9 DEF Removable, Removed
<1>10. ASSUME Remove(p) PROVE Basics'
  <2> DEFINE x == IF proc[p].op = "rotate" THEN [proc[p] EXCEPT !.pc = "exists"] ELSE Idle(Ok(0))
             y(q) == [proc[q] EXCEPT !.linked = @ /\ Path(q) # Path(p)]
  <2>1. /\ proc[p].pc = "remove" /\ UNCHANGED <<minted, calm>>
        /\ proc' = [[q \in Procs |-> y(q)] EXCEPT ![p] = x]
        /\ file' = [file EXCEPT ![Path(p)] = Absent] /\ kept' = [kept EXCEPT ![Path(p)] = 0]
    BY <1>10 DEF Remove, At
  <2>2. Idle(Ok(0)) \in ProcType /\ Idle(Ok(0)).pc = "idle"
    BY <1>r, ResultTypes
  <2>3. /\ x \in ProcType /\ x.pc \in {"idle", "exists"}
        /\ x.pc # "idle" => x.address = proc[p].address
    BY <2>2, <1>b DEF ProcType, Pcs
  <2>4. \A q \in Procs : /\ y(q) \in ProcType /\ y(q).pc = proc[q].pc
                          /\ y(q).op = proc[q].op /\ y(q).address = proc[q].address
    BY <1>t DEF ProcType
  <2>5. \A q \in Procs : proc'[q] = IF q = p THEN x ELSE y(q)
    BY <2>1
  <2>6. proc' \in [Procs -> ProcType]
    BY <2>1, <2>3, <2>4
  <2>7. file' \in [Files -> FileType] /\ kept' \in [Files -> 0..MaxKeys]
    BY <2>1, <1>t, <1>r DEF Absent, FileType
  <2>8. IdentityTypeOK'
    BY <2>1, <2>6, <2>7, <1>t DEF IdentityTypeOK, ProcType, FileType
  <2>9. AddressKnown' /\ RemovesToReplace'
    BY <2>1, <2>3, <2>4, <2>5, <1>b DEF Basics, AddressKnown, RemovesToReplace
  <2> QED
    BY <2>8, <2>9 DEF Basics
<1>11. ASSUME RemoveFails(p) PROVE Basics'
  BY <1>11, <1>r, <1>t, OneReturns DEF RemoveFails
<1>12. ASSUME ProcessDies(p) PROVE Basics'
  BY <1>12, <1>r, <1>t, OneReturns DEF ProcessDies
<1> QED
  BY <1>1, <1>2, <1>3, <1>4, <1>5, <1>6, <1>7, <1>8, <1>9, <1>10, <1>11, <1>12

----------------------------------------------------------------------------
Fresh == Alone /\ CreatesFresh /\ RotatesFresh /\ IdentityKept

\* What each process is at after p alone has become x.
LEMMA Moved ==
    ASSUME Basics, NEW p \in Procs, NEW x, proc' = [proc EXCEPT ![p] = x]
    PROVE  /\ proc'[p] = x /\ Path(p)' = PathOf(x.address)
           /\ \A q \in Procs : q # p => proc'[q] = proc[q] /\ Path(q)' = Path(q)
BY DEF Basics, IdentityTypeOK, Path

\* A process that returns and leaves the file as it is disturbs nobody, and the key it
\* hands over, if any, is the one in the file.
LEMMA FreshWhenReturning ==
    ASSUME Basics, Fresh, NEW p \in Procs, NEW r, Return(p, r), proc[p].pc # "idle",
           UNCHANGED <<file, calm>>,
           \/ UNCHANGED kept
           \/ /\ file[Path(p)].state = "whole"
              /\ kept' = [kept EXCEPT ![Path(p)] = file[Path(p)].key]
    PROVE  Fresh'
<1>1. /\ proc'[p] = Idle(r)
      /\ \A q \in Procs : q # p => proc'[q] = proc[q] /\ Path(q)' = Path(q)
  BY Moved DEF Return
<1>2. proc'[p].pc = "idle" /\ proc'[p].op = "status"
  BY <1>1 DEF Idle
<1>3. Path(p) \in Files /\ calm \subseteq Files /\ kept \in [Files -> 0..MaxKeys]
  BY PathInFiles DEF Basics, AddressKnown, Path, IdentityTypeOK
<1>4. \A f \in Files : kept'[f] = kept[f] \/ (f = Path(p) /\ file[f].state = "whole" /\ kept'[f] = file[f].key)
  BY <1>3
<1>5. Alone'
  BY <1>1, <1>2 DEF Fresh, Alone
<1>6. CreatesFresh'
  BY <1>1, <1>2 DEF Fresh, CreatesFresh
<1>7. RotatesFresh'
  <2> SUFFICES ASSUME NEW q \in Procs, q # p, proc[q].op = "rotate", Path(q) \in calm
               PROVE  /\ proc[q].pc = "exists" => file[Path(q)].state = "absent"
                      /\ proc[q].pc # "read"
                      /\ proc[q].pc \in {"inspect", "report"} =>
                            /\ file[Path(q)].state = "whole"
                            /\ file[Path(q)].key = proc[q].key
                            /\ kept'[Path(q)] = 0
    BY <1>1, <1>2 DEF RotatesFresh
  <2>1. proc[q].pc # "idle" => Path(q) # Path(p)
    BY DEF Fresh, Alone, Replacing
  <2> QED
    BY <2>1, <1>3, <1>4 DEF Fresh, RotatesFresh
<1>8. IdentityKept'
  BY <1>3, <1>4 DEF Fresh, IdentityKept
<1> QED
  BY <1>5, <1>6, <1>7, <1>8 DEF Fresh

\* A process that goes on to a step where it neither creates nor removes.
LEMMA FreshWhenLooking ==
    ASSUME Basics, Fresh, NEW p \in Procs, NEW x, proc' = [proc EXCEPT ![p] = x],
           proc[p].pc # "idle", x.address = proc[p].address, x.op = proc[p].op, x.pc \notin {"open", "write"},
           x.op = "rotate" /\ Path(p) \in calm =>
               /\ x.pc = "exists" => file[Path(p)].state = "absent"
               /\ x.pc # "read"
               /\ x.pc \in {"inspect", "report"} =>
                     file[Path(p)].state = "whole" /\ file[Path(p)].key = x.key /\ kept[Path(p)] = 0,
           UNCHANGED <<file, kept, calm>>
    PROVE  Fresh'
<1>1. /\ proc'[p] = x /\ Path(p)' = Path(p)
      /\ \A q \in Procs : q # p => proc'[q] = proc[q] /\ Path(q)' = Path(q)
  BY Moved DEF Path
<1>2. Alone'
  BY <1>1 DEF Fresh, Alone
<1>3. CreatesFresh'
  BY <1>1 DEF Fresh, CreatesFresh
<1>4. RotatesFresh'
  BY <1>1 DEF Fresh, RotatesFresh
<1>5. IdentityKept'
  BY DEF Fresh, IdentityKept
<1> QED
  BY <1>2, <1>3, <1>4, <1>5 DEF Fresh

LEMMA FreshCall ==
    ASSUME Basics, Fresh, NEW p \in Procs, NEW op \in Ops, NEW a \in Specs, Call(p, op, a)
    PROVE  Fresh'
<1> DEFINE x == [pc |-> FirstStep(op), op |-> op, address |-> a, key |-> 0, linked |-> FALSE,
                 result |-> Nothing]
           f == PathOf(a)
<1>1. /\ proc[p].pc = "idle" /\ proc' = [proc EXCEPT ![p] = x]
      /\ calm' \subseteq calm /\ (f \in calm' => Quiet(f, op)) /\ UNCHANGED <<file, minted, kept>>
  BY DEF Call, At
<1>2. /\ proc'[p] = x /\ Path(p)' = f
      /\ \A q \in Procs : q # p => proc'[q] = proc[q] /\ Path(q)' = Path(q)
  BY <1>1, Moved
<1>3. /\ x.pc \in {"exists", "inspect", "removable"} /\ x.op = op
      /\ op = "rotate" => x.pc = "removable"
  BY DEF FirstStep, Ops, Replacing
<1>4. ASSUME NEW q \in Procs, q # p, proc[q].pc # "idle", Path(q) = f, f \in calm'
      PROVE  /\ file[f].state = "whole" /\ op \notin Replacing /\ proc[q].op \notin Replacing
             /\ proc[q].pc \notin {"open", "write"}
  <2>1. q \in Busy(f)
    BY <1>4 DEF Busy
  <2>2. file[f].state = "whole" /\ op \notin Replacing /\ proc[q].op \notin Replacing
    BY <1>1, <1>4, <2>1 DEF Quiet
  <2> QED
    BY <1>1, <1>4, <2>2 DEF Fresh, CreatesFresh
<1>5. Alone'
  <2> SUFFICES ASSUME NEW q1 \in Procs, NEW q2 \in Procs, q1 # q2,
                      proc'[q1].pc # "idle", proc'[q2].pc # "idle",
                      Path(q1)' = Path(q2)', Path(q1)' \in calm'
               PROVE  /\ proc'[q1].pc \notin {"open", "write"} /\ proc'[q1].op \notin Replacing
                      /\ file'[Path(q1)'].state = "whole"
    BY DEF Alone
  <2>1. CASE q1 # p /\ q2 # p
    BY <2>1, <1>1, <1>2 DEF Fresh, Alone
  <2>2. CASE q1 = p
    BY <2>2, <1>1, <1>2, <1>3, <1>4
  <2>3. CASE q2 = p
    BY <2>3, <1>1, <1>2, <1>3, <1>4
  <2> QED
    BY <2>1, <2>2, <2>3
<1>6. CreatesFresh'
  BY <1>1, <1>2, <1>3 DEF Fresh, CreatesFresh
<1>7. RotatesFresh'
  BY <1>1, <1>2, <1>3 DEF Fresh, RotatesFresh
<1>8. IdentityKept'
  BY <1>1 DEF Fresh, IdentityKept
<1> QED
  BY <1>5, <1>6, <1>7, <1>8 DEF Fresh

LEMMA FreshExists ==
    ASSUME Basics, Fresh, NEW p \in Procs, Exists(p)
    PROVE  Fresh'
<1>0. /\ proc[p].pc = "exists" /\ UNCHANGED <<file, kept, calm>> /\ proc \in [Procs -> ProcType]
      /\ calm \subseteq Files /\ file \in [Files -> FileType]
  BY DEF Exists, At, Basics, IdentityTypeOK, ProcType, FileType
<1>1. CASE Found(Path(p)) /\ Step(p, "read")
  <2> DEFINE x == [proc[p] EXCEPT !.pc = "read"]
  <2>1. proc' = [proc EXCEPT ![p] = x] /\ x.pc = "read" /\ x.op = proc[p].op /\ x.address = proc[p].address
    BY <1>0, <1>1 DEF Step, ProcType
  <2>2. ~(proc[p].op = "rotate" /\ Path(p) \in calm)
    BY <1>0, <1>1 DEF Fresh, RotatesFresh, Found
  <2> QED
    BY <1>0, <2>1, <2>2, FreshWhenLooking
<1>2. CASE ~Found(Path(p)) /\ proc' = [proc EXCEPT ![p].pc = "open", ![p].key = minted + 1]
  <2> DEFINE x == [proc[p] EXCEPT !.pc = "open", !.key = minted + 1]
  <2>1. proc' = [proc EXCEPT ![p] = x] /\ x.pc = "open" /\ x.op = proc[p].op /\ x.address = proc[p].address
    BY <1>0, <1>2 DEF ProcType
  <2>2. /\ proc'[p] = x /\ Path(p)' = Path(p)
        /\ \A q \in Procs : q # p => proc'[q] = proc[q] /\ Path(q)' = Path(q)
    BY <2>1, Moved DEF Path
  <2>3. file[Path(p)].state = "absent"
    BY <1>2 DEF Found
  <2>4. \A q \in Procs : q # p /\ proc[q].pc # "idle" /\ Path(p) \in calm => Path(q) # Path(p)
    BY <1>0, <2>3 DEF Fresh, Alone
  <2>5. Alone'
    BY <1>0, <2>1, <2>2, <2>4 DEF Fresh, Alone
  <2>6. CreatesFresh'
    BY <1>0, <2>1, <2>2, <2>3 DEF Fresh, CreatesFresh
  <2>7. RotatesFresh'
    BY <1>0, <2>1, <2>2 DEF Fresh, RotatesFresh
  <2>8. IdentityKept'
    BY <1>0 DEF Fresh, IdentityKept
  <2> QED
    BY <2>5, <2>6, <2>7, <2>8 DEF Fresh
<1> QED
  BY <1>1, <1>2 DEF Exists

LEMMA FreshRead ==
    ASSUME Basics, Fresh, NEW p \in Procs, ReadFile(p)
    PROVE  Fresh'
<1>0. /\ proc[p].pc = "read" /\ UNCHANGED <<file, calm>> /\ proc \in [Procs -> ProcType]
  BY DEF ReadFile, At, Basics, IdentityTypeOK, ProcType
<1>1. CASE Return(p, Error) /\ UNCHANGED kept
  BY <1>0, <1>1, FreshWhenReturning
<1>2. CASE file[Path(p)].state = "whole" /\ Loaded(p, file[Path(p)].key)
  <2>1. CASE proc[p].op = "material"
    BY <1>0, <1>2, <2>1, FreshWhenReturning DEF Loaded, Hand
  <2>2. CASE proc[p].op # "material"
    <3> DEFINE x == [proc[p] EXCEPT !.pc = "inspect", !.key = file[Path(p)].key]
    <3>1. /\ proc' = [proc EXCEPT ![p] = x] /\ UNCHANGED kept
          /\ x.pc = "inspect" /\ x.op = proc[p].op /\ x.address = proc[p].address
      BY <1>0, <1>2, <2>2 DEF Loaded, ProcType
    <3>2. ~(proc[p].op = "rotate" /\ Path(p) \in calm)
      BY <1>0 DEF Fresh, RotatesFresh
    <3> QED
      BY <1>0, <3>1, <3>2, FreshWhenLooking
  <2> QED
    BY <2>1, <2>2
<1> QED
  BY <1>1, <1>2 DEF ReadFile

LEMMA FreshOpen ==
    ASSUME Basics, Fresh, NEW p \in Procs, Open(p)
    PROVE  Fresh'
<1> DEFINE x == [proc[p] EXCEPT !.pc = "write", !.linked = TRUE]
<1>0. /\ proc[p].pc = "open" /\ UNCHANGED <<kept, calm>> /\ proc \in [Procs -> ProcType]
      /\ file' = [file EXCEPT ![Path(p)] = Torn] /\ file \in [Files -> FileType]
      /\ calm \subseteq Files
  BY DEF Open, At, Basics, IdentityTypeOK, ProcType, FileType
<1>1. /\ proc' = [proc EXCEPT ![p] = x] /\ x.pc = "write" /\ x.linked /\ x.op = proc[p].op
      /\ x.address = proc[p].address
  BY <1>0 DEF Open, ProcType
<1>2. /\ proc'[p] = x /\ Path(p)' = Path(p)
      /\ \A q \in Procs : q # p => proc'[q] = proc[q] /\ Path(q)' = Path(q)
  BY <1>1, Moved DEF Path
<1>3. \A f \in Files : file'[f] = IF f = Path(p) THEN Torn ELSE file[f]
  BY <1>0
<1>4. \A q \in Procs : q # p /\ proc[q].pc # "idle" /\ Path(p) \in calm => Path(q) # Path(p)
  BY <1>0 DEF Fresh, Alone
<1>5. Alone'
  BY <1>0, <1>1, <1>2, <1>3, <1>4 DEF Fresh, Alone
<1>6. CreatesFresh'
  BY <1>0, <1>1, <1>2, <1>3, <1>4 DEF Fresh, CreatesFresh, Torn
<1>7. RotatesFresh'
  BY <1>0, <1>1, <1>2, <1>3, <1>4 DEF Fresh, RotatesFresh
<1>8. IdentityKept'
  BY <1>0, <1>3 DEF Fresh, IdentityKept, CreatesFresh
<1> QED
  BY <1>5, <1>6, <1>7, <1>8 DEF Fresh

LEMMA FreshWrite ==
    ASSUME Basics, Fresh, NEW p \in Procs, Write(p)
    PROVE  Fresh'
<1> DEFINE mine == Whole(proc[p].address, proc[p].key)
<1>0. /\ proc[p].pc = "write" /\ UNCHANGED calm /\ proc \in [Procs -> ProcType]
      /\ file \in [Files -> FileType] /\ kept \in [Files -> 0..MaxKeys]
      /\ calm \subseteq Files /\ Path(p) \in Files /\ Loaded(p, proc[p].key)
  BY PathInFiles DEF Write, At, Basics, IdentityTypeOK, ProcType, FileType, AddressKnown, Path
<1>1. Path(p) \in calm => /\ file' = [file EXCEPT ![Path(p)] = mine]
                          /\ file[Path(p)].state = "torn" /\ kept[Path(p)] = 0
  BY <1>0 DEF Write, Fresh, CreatesFresh, IdentityKept
<1>2. \A f \in Files : f # Path(p) => file'[f] = file[f]
  BY <1>0 DEF Write
<1>3. Path(p) \in calm => file'[Path(p)].state = "whole" /\ file'[Path(p)].key = proc[p].key
  BY <1>0, <1>1 DEF Whole
<1>4. \A q \in Procs : q # p /\ proc[q].pc # "idle" /\ Path(p) \in calm => Path(q) # Path(p)
  BY <1>0 DEF Fresh, Alone
<1>5. PICK x : /\ proc' = [proc EXCEPT ![p] = x]
               /\ \/ x.pc = "idle" /\ x.op = "status" /\ kept' = [kept EXCEPT ![Path(p)] = proc[p].key]
                  \/ /\ x.pc = "inspect" /\ x.op = proc[p].op /\ x.address = proc[p].address
                     /\ x.key = proc[p].key /\ UNCHANGED kept
  <2>1. CASE proc[p].op = "material"
    BY <1>0, <2>1 DEF Loaded, Return, Hand, Idle
  <2>2. CASE proc[p].op # "material"
    <3> DEFINE x == [proc[p] EXCEPT !.pc = "inspect", !.key = proc[p].key]
    <3>1. \A k : Loaded(p, k) => /\ proc' = [proc EXCEPT ![p] = [proc[p] EXCEPT !.pc = "inspect", !.key = k]]
                                 /\ UNCHANGED kept
      BY <1>0, <2>2 DEF Loaded
    <3>2. x.pc = "inspect" /\ x.op = proc[p].op /\ x.address = proc[p].address /\ x.key = proc[p].key
      BY <1>0 DEF ProcType
    <3> QED
      BY <1>0, <3>1, <3>2
  <2> QED
    BY <2>1, <2>2
<1>6. /\ proc'[p] = x /\ (x.pc # "idle" => Path(p)' = Path(p))
      /\ \A q \in Procs : q # p => proc'[q] = proc[q] /\ Path(q)' = Path(q)
  BY <1>5, Moved DEF Path
<1>7. \A f \in Files : \/ kept'[f] = kept[f]
                       \/ f = Path(p) /\ x.pc = "idle" /\ kept'[f] = proc[p].key
  BY <1>0, <1>5
<1>8. Alone'
  BY <1>0, <1>2, <1>4, <1>5, <1>6 DEF Fresh, Alone
<1>9. CreatesFresh'
  BY <1>0, <1>2, <1>4, <1>5, <1>6 DEF Fresh, CreatesFresh
<1>10. RotatesFresh'
  <2> SUFFICES ASSUME NEW q \in Procs, proc'[q].op = "rotate", Path(q)' \in calm
               PROVE  /\ proc'[q].pc = "exists" => file'[Path(q)'].state = "absent"
                      /\ proc'[q].pc # "read"
                      /\ proc'[q].pc \in {"inspect", "report"} =>
                            /\ file'[Path(q)'].state = "whole"
                            /\ file'[Path(q)'].key = proc'[q].key
                            /\ kept'[Path(q)'] = 0
    BY <1>0 DEF RotatesFresh
  <2>1. CASE q = p
    BY <2>1, <1>0, <1>1, <1>3, <1>5, <1>6, <1>7
  <2>2. CASE q # p /\ Path(q) # Path(p)
    BY <2>2, <1>0, <1>2, <1>6, <1>7 DEF Fresh, RotatesFresh
  <2>3. CASE q # p /\ Path(q) = Path(p)
    BY <2>3, <1>0, <1>4, <1>6
  <2> QED
    BY <2>1, <2>2, <2>3
<1>11. IdentityKept'
  <2> SUFFICES ASSUME NEW f \in calm, kept'[f] # 0
               PROVE  file'[f].state = "whole" /\ file'[f].key = kept'[f]
    BY <1>0 DEF IdentityKept
  <2>1. CASE f = Path(p)
    BY <2>1, <1>0, <1>1, <1>3, <1>7
  <2>2. CASE f # Path(p)
    BY <2>2, <1>0, <1>2, <1>7 DEF Fresh, IdentityKept
  <2> QED
    BY <2>1, <2>2
<1> QED
  BY <1>8, <1>9, <1>10, <1>11 DEF Fresh

LEMMA FreshInspect ==
    ASSUME Basics, Fresh, NEW p \in Procs, Inspect(p)
    PROVE  Fresh'
<1>0. proc[p].pc = "inspect" /\ UNCHANGED <<file, calm, kept>> /\ proc \in [Procs -> ProcType]
  BY DEF Inspect, At, Basics, IdentityTypeOK, ProcType
<1>1. CASE Return(p, Ok(0))
  BY <1>0, <1>1, FreshWhenReturning
<1>2. CASE Step(p, "report")
  <2> DEFINE x == [proc[p] EXCEPT !.pc = "report"]
  <2>1. /\ proc' = [proc EXCEPT ![p] = x] /\ x.pc = "report" /\ x.op = proc[p].op
        /\ x.address = proc[p].address /\ x.key = proc[p].key
    BY <1>0, <1>2 DEF Step, ProcType
  <2>2. proc[p].op = "rotate" /\ Path(p) \in calm =>
            file[Path(p)].state = "whole" /\ file[Path(p)].key = x.key /\ kept[Path(p)] = 0
    BY <1>0, <2>1 DEF Fresh, RotatesFresh
  <2> QED
    BY <1>0, <2>1, <2>2, FreshWhenLooking
<1> QED
  BY <1>1, <1>2 DEF Inspect

LEMMA FreshRemovable ==
    ASSUME Basics, Fresh, NEW p \in Procs, Removable(p)
    PROVE  Fresh'
<1>0. proc[p].pc = "removable" /\ UNCHANGED <<file, calm, kept>> /\ proc \in [Procs -> ProcType]
  BY DEF Removable, At, Basics, IdentityTypeOK, ProcType
<1>1. CASE Return(p, Ok(0))
  BY <1>0, <1>1, FreshWhenReturning
<1>2. ASSUME NEW pc \in {"remove", "exists"}, Step(p, pc), pc = "exists" => ~Found(Path(p)) PROVE Fresh'
  <2> DEFINE x == [proc[p] EXCEPT !.pc = pc]
  <2>1. /\ proc' = [proc EXCEPT ![p] = x] /\ x.pc = pc /\ x.op = proc[p].op
        /\ x.address = proc[p].address
    BY <1>0, <1>2 DEF Step, ProcType
  <2> QED
    BY <1>0, <1>2, <2>1, FreshWhenLooking DEF Found
<1> QED
  BY <1>1, <1>2 DEF Removable, Removed

LEMMA FreshRemove ==
    ASSUME Basics, Fresh, NEW p \in Procs, Remove(p)
    PROVE  Fresh'
<1> DEFINE f == Path(p)
           y(q) == [proc[q] EXCEPT !.linked = @ /\ Path(q) # f]
           x == IF proc[p].op = "rotate" THEN [proc[p] EXCEPT !.pc = "exists"] ELSE Idle(Ok(0))
<1>0. /\ proc[p].pc = "remove" /\ UNCHANGED calm /\ proc \in [Procs -> ProcType]
      /\ file \in [Files -> FileType] /\ kept \in [Files -> 0..MaxKeys]
      /\ calm \subseteq Files /\ f \in Files /\ proc[p].op \in Replacing
  BY PathInFiles DEF Remove, At, Basics, IdentityTypeOK, ProcType, FileType, AddressKnown, RemovesToReplace, Path
<1>1. /\ proc' = [[q \in Procs |-> y(q)] EXCEPT ![p] = x]
      /\ file' = [file EXCEPT ![f] = Absent] /\ kept' = [kept EXCEPT ![f] = 0]
  BY DEF Remove
<1>2. \A g \in Files : /\ file'[g] = IF g = f THEN Absent ELSE file[g]
                       /\ kept'[g] = IF g = f THEN 0 ELSE kept[g]
  BY <1>0, <1>1
<1>3. \A q \in Procs : q # p /\ proc[q].pc # "idle" /\ f \in calm => Path(q) # f
  BY <1>0 DEF Fresh, Alone
<1>4. proc'[p] = x /\ \A q \in Procs : q # p => proc'[q] = y(q)
  BY <1>1
<1>5. \A q \in Procs : q # p => /\ proc'[q].pc = proc[q].pc /\ proc'[q].op = proc[q].op
                                /\ proc'[q].key = proc[q].key /\ proc'[q].address = proc[q].address
                                /\ Path(q) # f /\ proc[q].linked => proc'[q].linked
                                /\ Path(q)' = Path(q)
  <2> SUFFICES ASSUME NEW q \in Procs, q # p
               PROVE  /\ proc'[q].pc = proc[q].pc /\ proc'[q].op = proc[q].op
                      /\ proc'[q].key = proc[q].key /\ proc'[q].address = proc[q].address
                      /\ Path(q) # f /\ proc[q].linked => proc'[q].linked
                      /\ Path(q)' = Path(q)
    OBVIOUS
  <2>1. proc'[q] = y(q) /\ proc[q] \in ProcType
    BY <1>0, <1>4
  <2>2. \A b : LET z == [proc[q] EXCEPT !.linked = b]
               IN z.pc = proc[q].pc /\ z.op = proc[q].op /\ z.key = proc[q].key
                  /\ z.address = proc[q].address /\ z.linked = b
    BY <2>1 DEF ProcType
  <2>3. y(q).linked = (proc[q].linked /\ Path(q) # f)
    BY <2>2
  <2> HIDE DEF y
  <2>4. /\ proc'[q].pc = proc[q].pc /\ proc'[q].op = proc[q].op
        /\ proc'[q].key = proc[q].key /\ proc'[q].address = proc[q].address
    BY <2>1, <2>2 DEF y
  <2> QED
    BY <2>1, <2>3, <2>4 DEF Path
<1>6. \/ x.pc = "idle" /\ x.op = "status"
      \/ x.pc = "exists" /\ x.op = "rotate" /\ x.address = proc[p].address
  BY <1>0 DEF Idle, ProcType
<1>7. x.pc # "idle" => Path(p)' = f
  BY <1>4, <1>6 DEF Path
<1>8. Alone'
  BY <1>0, <1>2, <1>3, <1>4, <1>5, <1>6, <1>7 DEF Fresh, Alone
<1> HIDE DEF x, y
<1>9. CreatesFresh'
  <2> SUFFICES ASSUME NEW q \in Procs, Path(q)' \in calm, proc'[q].pc \in {"open", "write"}
               PROVE  /\ proc'[q].pc = "open" => file'[Path(q)'].state = "absent"
                      /\ proc'[q].pc = "write" => proc'[q].linked /\ file'[Path(q)'].state = "torn"
    BY <1>0 DEF CreatesFresh
  <2>1. q # p /\ Path(q)' = Path(q) /\ Path(q) # f
    BY <1>0, <1>3, <1>4, <1>5, <1>6
  <2>2. /\ proc[q].pc = "open" => file[Path(q)].state = "absent"
        /\ proc[q].pc = "write" => proc[q].linked /\ file[Path(q)].state = "torn"
    BY <1>0, <2>1 DEF Fresh, CreatesFresh
  <2>3. file'[Path(q)'] = file[Path(q)]
    BY <1>0, <1>2, <2>1
  <2> QED
    BY <1>5, <2>1, <2>2, <2>3
<1>10. RotatesFresh'
  <2> SUFFICES ASSUME NEW q \in Procs, proc'[q].op = "rotate", Path(q)' \in calm
               PROVE  /\ proc'[q].pc = "exists" => file'[Path(q)'].state = "absent"
                      /\ proc'[q].pc # "read"
                      /\ proc'[q].pc \in {"inspect", "report"} =>
                            /\ file'[Path(q)'].state = "whole"
                            /\ file'[Path(q)'].key = proc'[q].key
                            /\ kept'[Path(q)'] = 0
    BY <1>0 DEF RotatesFresh
  <2>1. CASE q = p
    BY <2>1, <1>0, <1>2, <1>4, <1>6, <1>7 DEF Absent
  <2>2. CASE q # p /\ Path(q) # f
    BY <2>2, <1>0, <1>2, <1>5 DEF Fresh, RotatesFresh
  <2>3. CASE q # p /\ Path(q) = f
    BY <2>3, <1>0, <1>3, <1>5
  <2> QED
    BY <2>1, <2>2, <2>3
<1>11. IdentityKept'
  BY <1>0, <1>2 DEF Fresh, IdentityKept
<1> QED
  BY <1>8, <1>9, <1>10, <1>11 DEF Fresh

\* No step but a return gives a process its result.
LEMMA UnansweredStep ==
    ASSUME Basics, Unanswered, [IdentityNext]_identityVars
    PROVE  Unanswered'
<1>0. ASSUME UNCHANGED identityVars PROVE Unanswered'
  BY <1>0 DEF identityVars, Unanswered
<1>t. proc \in [Procs -> ProcType]
  BY DEF Basics, IdentityTypeOK, ProcType
<1>1. ASSUME NEW p \in Procs, NEW x, proc' = [proc EXCEPT ![p] = x], x.pc # "idle" => x.result = Nothing
      PROVE  Unanswered'
  BY <1>1, <1>t DEF Unanswered
<1>2. ASSUME NEW p \in Procs, NEW r, Return(p, r) PROVE Unanswered'
  BY <1>2, <1>1 DEF Return, Idle
<1>3. ASSUME NEW p \in Procs, NEW pc, Step(p, pc), proc[p].pc # "idle" PROVE Unanswered'
  <2>1. proc' = [proc EXCEPT ![p] = [proc[p] EXCEPT !.pc = pc]]
    BY <1>3, <1>t DEF Step
  <2>2. [proc[p] EXCEPT !.pc = pc].result = Nothing
    BY <1>3, <1>t DEF Unanswered, ProcType
  <2> QED
    BY <2>1, <2>2, <1>1
<1>4. ASSUME NEW p \in Procs, NEW k, Loaded(p, k), proc[p].pc # "idle" PROVE Unanswered'
  <2>1. CASE proc[p].op = "material"
    BY <2>1, <1>4, <1>2 DEF Loaded
  <2>2. CASE proc[p].op # "material"
    <3>1. proc' = [proc EXCEPT ![p] = [proc[p] EXCEPT !.pc = "inspect", !.key = k]]
      BY <2>2, <1>4, <1>t DEF Loaded
    <3>2. [proc[p] EXCEPT !.pc = "inspect", !.key = k].result = Nothing
      BY <1>4, <1>t DEF Unanswered, ProcType
    <3> QED
      BY <3>1, <3>2, <1>1
  <2> QED
    BY <2>1, <2>2
<1> SUFFICES ASSUME NEW p \in Procs,
                    \/ \E op \in Ops, a \in Specs : Call(p, op, a)
                    \/ Exists(p) \/ ReadFile(p) \/ Open(p) \/ Write(p) \/ CreateFails(p)
                    \/ Inspect(p) \/ Report(p)
                    \/ Removable(p) \/ Remove(p) \/ RemoveFails(p)
                    \/ ProcessDies(p)
             PROVE  Unanswered'
  BY <1>0 DEF IdentityNext
<1>5. ASSUME NEW op \in Ops, NEW a \in Specs, Call(p, op, a) PROVE Unanswered'
  BY <1>5, <1>1 DEF Call
<1>6. ASSUME Exists(p) PROVE Unanswered'
  <2>1. CASE Step(p, "read")
    BY <2>1, <1>6, <1>3 DEF Exists, At
  <2>2. CASE proc' = [proc EXCEPT ![p].pc = "open", ![p].key = minted + 1]
    <3>1. proc' = [proc EXCEPT ![p] = [proc[p] EXCEPT !.pc = "open", !.key = minted + 1]]
      BY <2>2, <1>t
    <3>2. [proc[p] EXCEPT !.pc = "open", !.key = minted + 1].result = Nothing
      BY <1>6, <1>t DEF Exists, At, Unanswered, ProcType
    <3> QED
      BY <3>1, <3>2, <1>1
  <2> QED
    BY <2>1, <2>2, <1>6 DEF Exists
<1>7. ASSUME Open(p) PROVE Unanswered'
  <2>1. proc' = [proc EXCEPT ![p] = [proc[p] EXCEPT !.pc = "write", !.linked = TRUE]]
    BY <1>7, <1>t DEF Open
  <2>2. [proc[p] EXCEPT !.pc = "write", !.linked = TRUE].result = Nothing
    BY <1>7, <1>t DEF Open, At, Unanswered, ProcType
  <2> QED
    BY <2>1, <2>2, <1>1
<1>8. ASSUME ReadFile(p) \/ Write(p) \/ Inspect(p) \/ Report(p) \/ Removable(p) PROVE Unanswered'
  BY <1>8, <1>2, <1>3, <1>4 DEF ReadFile, Write, Inspect, Report, Removable, Removed, At
<1>9. ASSUME Remove(p) PROVE Unanswered'
  <2> DEFINE x == IF proc[p].op = "rotate" THEN [proc[p] EXCEPT !.pc = "exists"] ELSE Idle(Ok(0))
             y(q) == [proc[q] EXCEPT !.linked = @ /\ Path(q) # Path(p)]
  <2>1. \A q \in Procs : proc'[q] = IF q = p THEN x ELSE y(q)
    BY <1>9 DEF Remove
  <2>2. x.pc # "idle" => x.result = Nothing
    BY <1>9, <1>t DEF Remove, At, Unanswered, Idle, ProcType
  <2>3. \A q \in Procs : y(q).pc = proc[q].pc /\ y(q).result = proc[q].result
    BY <1>t DEF ProcType
  <2> HIDE DEF x, y
  <2> QED
    BY <2>1, <2>2, <2>3 DEF Unanswered
<1> QED
  BY <1>2, <1>5, <1>6, <1>7, <1>8, <1>9 DEF CreateFails, RemoveFails, ProcessDies

LEMMA FreshStep ==
    ASSUME Basics, Fresh, [IdentityNext]_identityVars
    PROVE  Fresh'
<1>0. ASSUME UNCHANGED identityVars PROVE Fresh'
  BY <1>0 DEF identityVars, Fresh, Alone, CreatesFresh, RotatesFresh, IdentityKept, Path
<1> SUFFICES ASSUME NEW p \in Procs,
                    \/ \E op \in Ops, a \in Specs : Call(p, op, a)
                    \/ Exists(p) \/ ReadFile(p) \/ Open(p) \/ Write(p) \/ CreateFails(p)
                    \/ Inspect(p) \/ Report(p)
                    \/ Removable(p) \/ Remove(p) \/ RemoveFails(p)
                    \/ ProcessDies(p)
             PROVE  Fresh'
  BY <1>0 DEF IdentityNext
<1>1. ASSUME CreateFails(p) PROVE Fresh'
  BY <1>1, FreshWhenReturning DEF CreateFails
<1>2. ASSUME Report(p) PROVE Fresh'
  BY <1>2, FreshWhenReturning DEF Report, At, Hand
<1>3. ASSUME RemoveFails(p) PROVE Fresh'
  BY <1>3, FreshWhenReturning DEF RemoveFails, At
<1>4. ASSUME ProcessDies(p) PROVE Fresh'
  BY <1>4, FreshWhenReturning DEF ProcessDies, At
<1> QED
  BY <1>1, <1>2, <1>3, <1>4, FreshCall, FreshExists, FreshRead, FreshOpen, FreshWrite, FreshInspect,
     FreshRemovable, FreshRemove

----------------------------------------------------------------------------
\* Initially no process is at work and no identity exists.
LEMMA InitIInv == IdentityInit => IInv
<1> SUFFICES ASSUME IdentityInit PROVE IInv
  OBVIOUS
<1>1. /\ file \in [Files -> FileType] /\ kept \in [Files -> 0..MaxKeys] /\ minted \in 0..MaxKeys
      /\ calm \subseteq Files
  BY IdentityAssumption DEF IdentityInit, Absent, FileType
<1>2. proc \in [Procs -> ProcType] /\ \A p \in Procs : proc[p].pc = "idle" /\ proc[p].op = "status"
  BY IdentityAssumption DEF IdentityInit, Idle, Nothing, ProcType, Pcs, Ops
<1>3. \A f \in calm : kept[f] = 0
  BY DEF IdentityInit
<1> QED
  BY <1>1, <1>2, <1>3
  DEF IInv, IdentityTypeOK, AddressKnown, RemovesToReplace, Unanswered, Alone, CreatesFresh, RotatesFresh,
      IdentityKept, FileType, ProcType

\* The inductive invariant holds in every state.
THEOREM IdentityInvariance == IdentitySpec => []IInv
<1>1. IInv /\ [IdentityNext]_identityVars => IInv'
  BY BasicsStep, UnansweredStep, FreshStep DEF IInv, Basics, Fresh
<1> QED
  BY InitIInv, <1>1, PTL DEF IdentitySpec

\* Files, processes and results keep their types, for any number of processes.
THEOREM IdentityTypeCorrect == IdentitySpec => []IdentityTypeOK
<1>1. IInv => IdentityTypeOK
  BY DEF IInv
<1> QED
  BY IdentityInvariance, <1>1, PTL

\* The identity that callers were given stays on disk, whatever crashes or fails, at every
\* file whose calls were not in each other's way.
THEOREM IdentityIsKept == IdentitySpec => []IdentityKept
<1>1. IInv => IdentityKept
  BY DEF IInv
<1> QED
  BY IdentityInvariance, <1>1, PTL

\* A file that is there, whole or torn, is only ever removed: nothing overwrites it.
THEOREM NothingIsOverwritten == IdentitySpec => NothingOverwritten
<1> DEFINE Stays == \A f \in calm :
              file[f].state # "absent" /\ ~BeingWritten(f) =>
                  /\ ~BeingWritten(f)'
                  /\ file'[f] \in {file[f], Absent}
<1>1. IInv /\ [IdentityNext]_identityVars => [Stays]_identityVars
  <2> SUFFICES ASSUME IInv, IdentityNext, NEW f \in calm, file[f].state # "absent", ~BeingWritten(f)
               PROVE  ~BeingWritten(f)' /\ file'[f] \in {file[f], Absent}
    OBVIOUS
  <2>t. f \in Files /\ file \in [Files -> FileType] /\ proc \in [Procs -> ProcType]
    BY DEF IInv, IdentityTypeOK, FileType, ProcType
  <2>0. PICK p \in Procs :
             \/ \E op \in Ops, a \in Specs : Call(p, op, a)
             \/ Exists(p) \/ ReadFile(p) \/ Open(p) \/ Write(p) \/ CreateFails(p)
             \/ Inspect(p) \/ Report(p)
             \/ Removable(p) \/ Remove(p) \/ RemoveFails(p)
             \/ ProcessDies(p)
    BY DEF IdentityNext
  <2>1. Open(p) => Path(p) # f
    BY DEF IInv, CreatesFresh, Open, At
  <2>2. Write(p) => Path(p) # f
    BY DEF Write, BeingWritten
  <2>3. file'[f] \in {file[f], Absent}
    BY <2>0, <2>1, <2>2, <2>t DEF Call, Exists, ReadFile, Open, Write, CreateFails, Inspect, Report,
       Removable, Remove, RemoveFails, ProcessDies
  <2>4. ASSUME NEW q \in Procs, proc'[q].pc = "write"
        PROVE  Path(q)' # f
    <3>1. CASE Open(p)
      <4>1. proc'[q].address = proc[q].address /\ (q # p => proc'[q].pc = proc[q].pc)
        BY <3>1, <2>t DEF Open, ProcType
      <4>2. Path(q)' = Path(q)
        BY <4>1 DEF Path
      <4> QED
        BY <2>1, <2>4, <3>1, <4>1, <4>2 DEF BeingWritten, At
    <3>2. CASE Remove(p)
      <4>1. proc'[q].address = proc[q].address /\ proc[q].pc = "write"
        BY <2>4, <2>t, <3>2 DEF Remove, ProcType, Idle
      <4> QED
        BY <4>1 DEF BeingWritten, At, Path
    <3>3. CASE ~Open(p) /\ ~Remove(p)
      <4>1. proc'[q] = proc[q]
        BY <2>0, <2>4, <2>t, <3>3 DEF Call, FirstStep, Exists, ReadFile, Write, CreateFails, Inspect, Report,
           Removable, RemoveFails, ProcessDies, Loaded, Removed, Return, Step, Idle, ProcType, Ops, Replacing
      <4> QED
        BY <2>4, <4>1 DEF BeingWritten, At, Path
    <3> QED
      BY <3>1, <3>2, <3>3
  <2> QED
    BY <2>3, <2>4 DEF BeingWritten, At
<1> QED
  BY IdentityInvariance, <1>1, PTL DEF IdentitySpec, NothingOverwritten

\* A rotate that succeeds reports the identity it has minted itself.
THEOREM RotateRenewsHolds == IdentitySpec => RotateRenews
<1> DEFINE Renews == \A p \in Procs :
              At(p, "report") /\ proc[p].op = "rotate" /\ Path(p) \in calm /\ proc'[p].result.kind = "ok" =>
                  /\ kept[Path(p)] = 0
                  /\ proc'[p].result.key = proc[p].key
<1>1. IInv /\ [IdentityNext]_identityVars => [Renews]_identityVars
  <2> SUFFICES ASSUME IInv, IdentityNext, NEW p \in Procs,
                      At(p, "report"), proc[p].op = "rotate", Path(p) \in calm, proc'[p].result.kind = "ok"
               PROVE  kept[Path(p)] = 0 /\ proc'[p].result.key = proc[p].key
    OBVIOUS
  <2>t. proc \in [Procs -> ProcType]
    BY DEF IInv, IdentityTypeOK, ProcType
  <2>1. /\ file[Path(p)].key = proc[p].key /\ kept[Path(p)] = 0
        /\ proc[p].pc = "report" /\ proc[p].result.kind = "nothing"
    BY DEF IInv, RotatesFresh, At, Unanswered, Nothing
  <2>2. PICK q \in Procs :
             \/ \E op \in Ops, a \in Specs : Call(q, op, a)
             \/ Exists(q) \/ ReadFile(q) \/ Open(q) \/ Write(q) \/ CreateFails(q)
             \/ Inspect(q) \/ Report(q)
             \/ Removable(q) \/ Remove(q) \/ RemoveFails(q)
             \/ ProcessDies(q)
    BY DEF IdentityNext
  <2>3. q = p
    <3> SUFFICES ASSUME q # p PROVE proc'[p].result = proc[p].result
      BY <2>1
    <3>1. CASE Remove(q)
      <4> DEFINE y == [proc[p] EXCEPT !.linked = @ /\ Path(p) # Path(q)]
      <4>1. proc'[p] = y
        BY <3>1 DEF Remove
      <4>2. y.result = proc[p].result
        BY <2>t DEF ProcType
      <4> QED
        BY <4>1, <4>2
    <3>2. CASE ~Remove(q)
      BY <2>2, <2>t, <3>2 DEF Call, Exists, ReadFile, Open, Write, CreateFails, Inspect, Report, Removable,
         RemoveFails, ProcessDies, Loaded, Removed, Return, Step
    <3> QED
      BY <3>1, <3>2
  <2>4. Report(p) \/ ProcessDies(p)
    BY <2>1, <2>2, <2>3 DEF Call, Exists, ReadFile, Open, Write, CreateFails, Inspect, Removable, Remove,
       RemoveFails, At
  <2>5. \E r \in {Ok(file[Path(p)].key), Error, Nothing} : Return(p, r)
    BY <2>4 DEF Report, ProcessDies
  <2>6. \E r \in {Ok(file[Path(p)].key), Error, Nothing} : proc'[p].result = r
    BY <2>5, <2>t DEF Return, Idle
  <2> QED
    BY <2>1, <2>6 DEF Ok, Error, Nothing
<1> QED
  BY IdentityInvariance, <1>1, PTL DEF IdentitySpec, RotateRenews
=============================================================================
