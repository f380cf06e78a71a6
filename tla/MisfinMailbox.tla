---------------------------- MODULE MisfinMailbox ----------------------------
(***************************************************************************)
(* The misfin server's durable store (crates/misfin/src/mailbox.rs): five  *)
(* redb tables and the transactions on them. A transaction is one step:    *)
(* redb (external) serialises writers and commits all of a transaction or  *)
(* nothing of it, and what is committed survives a crash.                  *)
(*                                                                         *)
(* First-seen and delivery times are left out: nothing is decided by them. *)
(***************************************************************************)
EXTENDS Integers, FiniteSets

CONSTANTS
    Addresses,      \* mailbox@host addr-specs, as pairs <<mailbox, host>>
    Fingerprints,   \* SHA-256 fingerprints of sender certificates
    Conns,          \* connections; a message body is known by the connection
                    \* that brought it
    NoAddress,      \* a certificate that claims no misfin address
    NoPin           \* an address with no entry in sender_identities

VARIABLES
    messages,       \* table messages: sequence -> ReceivedMessage
    mailboxIndex,   \* multimap mailbox_index: addr-spec -> sequences
    nextSeq,        \* table meta, key next_seq
    senders,        \* table senders: the fingerprints that were seen
    pins            \* table sender_identities: addr-spec -> pinned fingerprint

storeVars == <<messages, mailboxIndex, nextSeq, senders, pins>>

ASSUME MailboxAssumption == NoPin \notin Fingerprints /\ NoAddress \notin Addresses

ReceivedMessage ==
    [ seq : Nat, recipient : Addresses, sender_fingerprint : Fingerprints,
      sender_address : Addresses \cup {NoAddress}, body : Conns ]

----------------------------------------------------------------------------
(* The transactions. Each says what it does when it commits.               *)

\* Mutant: the sequence number is read but not moved on.
NotAdvanced == nextSeq

Advanced == nextSeq + 1

\* Mutant: the index is a table with one entry for each mailbox.
IndexedAsTable(recipient) == [mailboxIndex EXCEPT ![recipient] = {nextSeq}]

Indexed(recipient) == [mailboxIndex EXCEPT ![recipient] = @ \cup {nextSeq}]

\* store: allot a sequence number, insert the message under it, index it.
Store(recipient, f, sender, body) ==
    /\ nextSeq' = Advanced
    /\ messages' = [s \in DOMAIN messages \cup {nextSeq} |->
                       IF s = nextSeq
                       THEN [ seq |-> nextSeq, recipient |-> recipient, sender_fingerprint |-> f,
                              sender_address |-> sender, body |-> body ]
                       ELSE messages[s]]
    /\ mailboxIndex' = Indexed(recipient)
    /\ UNCHANGED <<senders, pins>>

\* record_sender: the first time a fingerprint is seen.
RecordSender(f) ==
    /\ senders' = senders \cup {f}
    /\ UNCHANGED <<messages, mailboxIndex, nextSeq, pins>>

\* Mutant: a fingerprint other than the pinned one is taken for a match.
IdentityCheckLax(a, f) == IF pins[a] = NoPin THEN "first" ELSE "match"

\* The three results of check_and_record_identity.
IdentityCheck(a, f) ==
    IF pins[a] = NoPin THEN "first" ELSE IF pins[a] = f THEN "match" ELSE "changed"

\* Mutant: a changed fingerprint replaces the pin.
CheckAndOverwriteIdentity(a, f) ==
    /\ pins' = [pins EXCEPT ![a] = f]
    /\ UNCHANGED <<messages, mailboxIndex, nextSeq, senders>>

\* check_and_record_identity: pin on first contact, never overwrite.
CheckAndRecordIdentity(a, f) ==
    /\ pins' = IF IdentityCheck(a, f) = "first" THEN [pins EXCEPT ![a] = f] ELSE pins
    /\ UNCHANGED <<messages, mailboxIndex, nextSeq, senders>>

\* forget_sender_identity: the operator releases a pin.
ForgetSenderIdentity(a) ==
    /\ pins' = [pins EXCEPT ![a] = NoPin]
    /\ UNCHANGED <<messages, mailboxIndex, nextSeq, senders>>

\* list: the sequences that a mailbox's owner sees, in their order.
List(a) == {s \in mailboxIndex[a] : s \in DOMAIN messages}

\* init_tables: every table exists and is empty.
StoreInit ==
    /\ messages = [s \in {} |-> s]
    /\ mailboxIndex = [a \in Addresses |-> {}]
    /\ nextSeq = 0
    /\ senders = {}
    /\ pins = [a \in Addresses |-> NoPin]

============================================================================
