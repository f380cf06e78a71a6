--------------------------------- MODULE Tofu ---------------------------------
(***************************************************************************)
(* Trust on first use in crates/gemini-protocol: concurrent fetches that   *)
(* go through tofu_connect (client.rs; scroll's client is one more caller) *)
(* and pin certificates in the installed store (tofu.rs), and titan        *)
(* uploads (titan.rs), which use another connector (tls.rs).               *)
(*                                                                         *)
(* tofu_connect reads the pin, awaits a connection and a handshake, and    *)
(* then writes the pin: these are separate steps, and other fetches come   *)
(* between them.                                                           *)
(***************************************************************************)
EXTENDS FiniteSets

CONSTANTS
    Fetches,        \* calls of fetch and upload; each is made once
    Hosts,
    Certs,          \* fingerprints of leaf certificates
    Presents,       \* [Hosts -> SUBSET Certs]: what a host's address may present
    Stores,         \* the TofuStores of the process
    Permissive,     \* PermissiveTofu, installed when nothing else is
    NoPin,          \* first contact: TofuStore::fingerprint gave None
    NoHost, NoCert

VARIABLES
    installed,      \* TRUST_STORE
    pins,           \* [Stores -> [Hosts -> Certs \cup {NoPin}]]
    fetch,          \* [Fetches -> Fetch]
    overlap         \* history: the pairs of fetches whose contacts overlapped

vars == <<installed, pins, fetch, overlap>>

ASSUME TofuAssumption ==
    /\ Presents \in [Hosts -> SUBSET Certs]
    /\ Permissive \in Stores
    /\ NoPin \notin Certs /\ NoCert \notin Certs /\ NoHost \notin Hosts

\* connecting: from the lookup of the pin to the end of the handshake; shaken: before
\* the pin is written; streaming: the request goes out. "consented" is a change that
\* the embedder has accepted. held is history: the host's pin at the handshake.
Fetch ==
    [ kind : {"tofu", "titan"},
      phase : {"idle", "connecting", "shaken", "streaming", "done"},
      host : Hosts \cup {NoHost},
      store : Stores,
      pinned : Certs \cup {NoPin},
      seen : Certs \cup {NoCert},
      held : Certs \cup {NoPin},
      result : {"none", "answered", "changed", "consented", "failed"} ]

\* A call that has got as far as its connection.
Dialing(kind, h, pinned) ==
    [ kind |-> kind, phase |-> "connecting", host |-> h, store |-> installed,
      pinned |-> pinned, seen |-> NoCert, held |-> NoPin, result |-> "none" ]

\* Two fetches of one host against one store.
Together(f, g) ==
    /\ fetch[f].kind = "tofu" /\ fetch[g].kind = "tofu"
    /\ fetch[f].host = fetch[g].host /\ fetch[f].store = fetch[g].store

----------------------------------------------------------------------------

\* set_trust_store: the most recent call wins, for the fetches that start after it.
SetTrustStore(s) ==
    /\ installed' = s
    /\ UNCHANGED <<pins, fetch, overlap>>

\* Mutant: the pin is looked up, and nobody looks at it.
LookupBlind(f, h) ==
    /\ fetch[f].phase = "idle"
    /\ fetch' = [fetch EXCEPT ![f] = Dialing("tofu", h, NoPin)]
    /\ UNCHANGED <<installed, pins, overlap>>

\* The head of tofu_connect: the installed store, and the host's pin in it.
Lookup(f, h) ==
    /\ fetch[f].phase = "idle"
    /\ fetch' = [fetch EXCEPT ![f] = Dialing("tofu", h, pins[installed][h])]
    /\ overlap' = overlap \cup
          {{f, g} : g \in {g \in Fetches \ {f} :
                              /\ fetch[g].phase \in {"connecting", "shaken"}
                              /\ fetch[g].kind = "tofu"
                              /\ fetch[g].host = h /\ fetch[g].store = installed}}
    /\ UNCHANGED <<installed, pins>>

\* upload_inner up to its connection: no store is consulted.
Upload(f, h) ==
    /\ fetch[f].phase = "idle"
    /\ fetch' = [fetch EXCEPT ![f] = Dialing("titan", h, NoPin)]
    /\ UNCHANGED <<installed, pins, overlap>>

\* Mutant: the verifier accepts only what is pinned, never a first contact.
VerifiedStrict(f, cert) == fetch[f].pinned = cert

\* PinningVerifier::verify_server_cert; an upload's connector accepts any certificate.
Verified(f, cert) == fetch[f].kind = "titan" \/ fetch[f].pinned \in {NoPin, cert}

\* The handshake: whoever answers for the host presents a certificate. A pin that
\* does not match ends the call with CertificateChanged.
Handshake(f, cert) ==
    /\ fetch[f].phase = "connecting"
    /\ cert \in Presents[fetch[f].host]
    /\ fetch' = [fetch EXCEPT
          ![f].seen = cert,
          ![f].held = pins[fetch[f].store][fetch[f].host],
          ![f].phase = IF ~Verified(f, cert) THEN "done"
                       ELSE IF fetch[f].kind = "tofu" THEN "shaken" ELSE "streaming",
          ![f].result = IF Verified(f, cert) THEN "none" ELSE "changed"]
    /\ UNCHANGED <<installed, pins, overlap>>

\* Mutant: the permissive store keeps what it is given.
RecordedAlways(s, h, cert) == [pins EXCEPT ![s][h] = cert]

\* Mutant: one pin for every host.
RecordedForAll(s, h, cert) ==
    IF s = Permissive THEN pins ELSE [pins EXCEPT ![s] = [x \in Hosts |-> cert]]

\* TofuStore::pin: InMemoryTofu overwrites, PermissiveTofu forgets.
Recorded(s, h, cert) ==
    IF s = Permissive THEN pins ELSE [pins EXCEPT ![s][h] = cert]

\* The tail of tofu_connect: pin the fingerprint if there was none at the lookup,
\* hand the stream on, and send the request.
PinFirst(f) ==
    LET c == fetch[f] IN
    /\ c.phase = "shaken"
    /\ pins' = IF c.pinned = NoPin THEN Recorded(c.store, c.host, c.seen) ELSE pins
    /\ fetch' = [fetch EXCEPT ![f].phase = "streaming"]
    /\ UNCHANGED <<installed, overlap>>

\* The connection or the handshake fails, or the exchange does.
Fails(f) ==
    /\ fetch[f].phase \in {"connecting", "streaming"}
    /\ fetch' = [fetch EXCEPT ![f].phase = "done", ![f].result = "failed"]
    /\ UNCHANGED <<installed, pins, overlap>>

\* exchange: the response is read.
Answered(f) ==
    /\ fetch[f].phase = "streaming"
    /\ fetch' = [fetch EXCEPT ![f].phase = "done", ![f].result = "answered"]
    /\ UNCHANGED <<installed, pins, overlap>>

\* The embedder accepts the change that CertificateChanged reported, and pins it.
AcceptChange(f) ==
    LET c == fetch[f] IN
    /\ c.result = "changed"
    /\ pins' = Recorded(c.store, c.host, c.seen)
    /\ fetch' = [fetch EXCEPT ![f].result = "consented"]
    /\ UNCHANGED <<installed, overlap>>

Init ==
    /\ installed = Permissive
    /\ pins = [s \in Stores |-> [h \in Hosts |-> NoPin]]
    /\ fetch = [f \in Fetches |->
          [ kind |-> "tofu", phase |-> "idle", host |-> NoHost, store |-> Permissive,
            pinned |-> NoPin, seen |-> NoCert, held |-> NoPin, result |-> "none" ]]
    /\ overlap = {}

Next ==
    \/ \E s \in Stores : SetTrustStore(s)
    \/ \E f \in Fetches :
         \/ \E h \in Hosts : Lookup(f, h) \/ Upload(f, h)
         \/ \E cert \in Certs : Handshake(f, cert)
         \/ PinFirst(f)
         \/ Fails(f)
         \/ Answered(f)
         \/ AcceptChange(f)

Spec == Init /\ [][Next]_vars

----------------------------------------------------------------------------

\* Store, pins and fetches are well formed, and the permissive store is empty.
TypeOK ==
    /\ installed \in Stores
    /\ pins \in [Stores -> [Hosts -> Certs \cup {NoPin}]]
    /\ \A h \in Hosts : pins[Permissive][h] = NoPin
    /\ fetch \in [Fetches -> Fetch]
    /\ overlap \subseteq SUBSET Fetches

\* The call's handshake was accepted, by the verifier or in the end by the embedder.
Trusting(f) ==
    /\ fetch[f].phase \in {"streaming", "done"}
    /\ fetch[f].seen # NoCert /\ fetch[f].result # "changed"

\* A pin is a certificate that the host's address presented to a fetch of that host
\* through that store, which passed or whose change the embedder accepted: no pin
\* comes from another host, another store or an upload (TofuStore::pin, tofu_connect).
PinProvenance ==
    \A s \in Stores, h \in Hosts :
        pins[s][h] # NoPin =>
            \E f \in Fetches :
                /\ Trusting(f) /\ fetch[f].kind = "tofu"
                /\ fetch[f].store = s /\ fetch[f].host = h /\ fetch[f].seen = pins[s][h]

\* tofu_connect raises CertificateChanged only for a host that did change: another
\* fetch of it, through the same store, trusted the certificate that this one misses.
NoFalseAlarm ==
    \A f \in Fetches :
        fetch[f].result = "changed" =>
            \E g \in Fetches \ {f} :
                /\ Together(f, g) /\ Trusting(g)
                /\ fetch[g].seen = fetch[f].pinned /\ fetch[g].seen # fetch[f].seen

\* What tofu_connect's lookup-then-pin guarantees under concurrency: only fetches
\* that overlapped can both have taken their certificate as a first contact.
FirstContactOnce ==
    \A f, g \in Fetches :
        ( /\ f # g /\ Together(f, g) /\ fetch[f].store # Permissive
          /\ Trusting(f) /\ Trusting(g)
          /\ fetch[f].pinned = NoPin /\ fetch[g].pinned = NoPin )
        => {f, g} \in overlap

\* As tofu.rs documents it: once a host's certificate is pinned, every later visit must
\* present the same one. A handshake made while a pin is held is accepted only if it
\* matches that pin.
LaterVisitsMatch ==
    \A f \in Fetches :
        fetch[f].kind = "tofu" /\ Trusting(f) /\ fetch[f].result # "consented"
            => fetch[f].held \in {NoPin, fetch[f].seen}

=============================================================================
