------------------------------ MODULE TofuProofs ------------------------------
(***************************************************************************)
(* Proofs about Tofu, for any number of fetches, hosts, certificates and   *)
(* stores. The inductive invariant adds to the properties what each phase  *)
(* of a call has already established, and that a pin, once there, is never *)
(* taken back: pins only ever go from none to some certificate, or from    *)
(* one certificate to another.                                             *)
(***************************************************************************)
EXTENDS Tofu, TLAPS

\* What a call knows in each phase.
Phases ==
    \A f \in Fetches :
        LET c == fetch[f] IN
        /\ c.phase # "idle" => c.host \in Hosts
        /\ c.phase \in {"idle", "connecting"} => c.seen = NoCert /\ c.result = "none"
        /\ c.phase \in {"shaken", "streaming"} => c.seen \in Certs /\ c.result = "none"
        /\ c.phase = "shaken" => c.kind = "tofu"
        /\ c.pinned # NoPin => c.phase # "idle" /\ c.kind = "tofu"
        /\ c.result = "changed" =>
              /\ c.phase = "done" /\ c.kind = "tofu"
              /\ c.seen \in Certs /\ c.pinned \notin {NoPin, c.seen}

\* A pin that a fetch found at its lookup had been trusted by another fetch before.
FoundWasTrusted ==
    \A f \in Fetches :
        fetch[f].pinned # NoPin =>
            \E g \in Fetches \ {f} :
                Together(f, g) /\ Trusting(g) /\ fetch[g].seen = fetch[f].pinned

\* A host that a fetch found pinned, or left pinned, stays pinned.
StaysPinned ==
    \A f \in Fetches :
        /\ fetch[f].pinned # NoPin => pins[fetch[f].store][fetch[f].host] # NoPin
        /\ (fetch[f].kind = "tofu" /\ Trusting(f) /\ fetch[f].store # Permissive)
              => pins[fetch[f].store][fetch[f].host] # NoPin

\* The call is under way, or was trusted.
Live(f) == fetch[f].phase \in {"connecting", "shaken"} \/ Trusting(f)

\* FirstContactOnce, from the lookup on.
OverlapsRecorded ==
    \A f, g \in Fetches :
        ( /\ f # g /\ Together(f, g) /\ fetch[f].store # Permissive
          /\ Live(f) /\ Live(g)
          /\ fetch[f].pinned = NoPin /\ fetch[g].pinned = NoPin )
        => {f, g} \in overlap

Inv ==
    /\ TypeOK /\ Phases
    /\ PinProvenance /\ FoundWasTrusted
    /\ StaysPinned /\ OverlapsRecorded

\* The actions of one call.
CallStep(f) ==
    \/ \E h \in Hosts : Lookup(f, h) \/ Upload(f, h)
    \/ \E cert \in Certs : Handshake(f, cert)
    \/ PinFirst(f)
    \/ Fails(f)
    \/ Answered(f)
    \/ AcceptChange(f)

----------------------------------------------------------------------------

\* The initial state satisfies the invariant: nothing is pinned and no call is made.
LEMMA InitInv == Init => Inv
BY TofuAssumption
   DEF Init, Inv, TypeOK, Fetch, Phases, PinProvenance, FoundWasTrusted, StaysPinned,
       OverlapsRecorded, Live, Trusting, Together

\* The fields of a call's record.
LEMMA Fields ==
    ASSUME TypeOK, NEW f \in Fetches
    PROVE  /\ fetch[f] \in Fetch /\ fetch[f].store \in Stores
           /\ fetch[f].pinned \in Certs \cup {NoPin} /\ fetch[f].held \in Certs \cup {NoPin}
           /\ fetch[f].seen \in Certs \cup {NoCert} /\ fetch[f].host \in Hosts \cup {NoHost}
BY DEF TypeOK, Fetch

\* A call's step touches no other call, and pins at most the call's own host, in its
\* own store, with the certificate it saw.
LEMMA OneCall ==
    ASSUME TypeOK, Phases, NEW f \in Fetches, CallStep(f)
    PROVE  /\ \A g \in Fetches \ {f} : fetch'[g] = fetch[g]
           /\ installed' = installed
           /\ \/ pins' = pins
              \/ /\ fetch[f].phase = "shaken" \/ fetch[f].result = "changed"
                 /\ fetch[f].store \in Stores \ {Permissive}
                 /\ fetch[f].host \in Hosts /\ fetch[f].seen \in Certs
                 /\ pins' = [pins EXCEPT ![fetch[f].store][fetch[f].host] = fetch[f].seen]
<1>1. fetch[f].store \in Stores
  BY Fields
<1>2. fetch[f].phase = "shaken" \/ fetch[f].result = "changed"
         => fetch[f].host \in Hosts /\ fetch[f].seen \in Certs
  BY DEF Phases
<1> QED BY <1>1, <1>2
           DEF TypeOK, CallStep, Lookup, Upload, Handshake, PinFirst, Fails, Answered,
               AcceptChange, Recorded

\* What each action makes of its call's record.
LEMMA Becomes ==
    ASSUME TypeOK, NEW f \in Fetches
    PROVE  /\ \A h : Lookup(f, h) => fetch'[f] = Dialing("tofu", h, pins[installed][h])
           /\ \A h : Upload(f, h) => fetch'[f] = Dialing("titan", h, NoPin)
           /\ \A cert : Handshake(f, cert) => fetch'[f] = [fetch[f] EXCEPT
                !.seen = cert,
                !.held = pins[fetch[f].store][fetch[f].host],
                !.phase = IF ~Verified(f, cert) THEN "done"
                          ELSE IF fetch[f].kind = "tofu" THEN "shaken" ELSE "streaming",
                !.result = IF Verified(f, cert) THEN "none" ELSE "changed"]
           /\ PinFirst(f) => fetch'[f] = [fetch[f] EXCEPT !.phase = "streaming"]
           /\ Fails(f) => fetch'[f] = [fetch[f] EXCEPT !.phase = "done", !.result = "failed"]
           /\ Answered(f) =>
                fetch'[f] = [fetch[f] EXCEPT !.phase = "done", !.result = "answered"]
           /\ AcceptChange(f) => fetch'[f] = [fetch[f] EXCEPT !.result = "consented"]
BY DEF TypeOK, Lookup, Upload, Handshake, PinFirst, Fails, Answered, AcceptChange

\* Types are kept.
LEMMA TypeStep == TypeOK /\ Phases /\ [Next]_vars => TypeOK'
<1> SUFFICES ASSUME TypeOK, Phases, [Next]_vars
    PROVE  TypeOK'
    OBVIOUS
<1>1. ASSUME NEW s \in Stores, SetTrustStore(s)
      PROVE  TypeOK'
      BY <1>1 DEF SetTrustStore, TypeOK
<1>2. ASSUME NEW f \in Fetches, CallStep(f)
      PROVE  TypeOK'
  <2>1. installed' \in Stores
    BY <1>2, OneCall DEF TypeOK
  <2>2. /\ pins' \in [Stores -> [Hosts -> Certs \cup {NoPin}]]
        /\ \A h \in Hosts : pins'[Permissive][h] = NoPin
    <3>1. \/ pins' = pins
          \/ /\ fetch[f].store \in Stores \ {Permissive}
             /\ fetch[f].host \in Hosts /\ fetch[f].seen \in Certs
             /\ pins' = [pins EXCEPT ![fetch[f].store][fetch[f].host] = fetch[f].seen]
      BY <1>2, OneCall
    <3>2. CASE pins' = pins
      BY <3>2 DEF TypeOK
    <3>3. CASE /\ fetch[f].store \in Stores \ {Permissive}
               /\ fetch[f].host \in Hosts /\ fetch[f].seen \in Certs
               /\ pins' = [pins EXCEPT ![fetch[f].store][fetch[f].host] = fetch[f].seen]
      <4>1. pins' = [pins EXCEPT ![fetch[f].store] =
                        [pins[fetch[f].store] EXCEPT ![fetch[f].host] = fetch[f].seen]]
        BY <3>3 DEF TypeOK
      <4>2. [pins[fetch[f].store] EXCEPT ![fetch[f].host] = fetch[f].seen]
               \in [Hosts -> Certs \cup {NoPin}]
        BY <3>3 DEF TypeOK
      <4>3. pins'[Permissive] = pins[Permissive]
        BY <3>3, <4>1, TofuAssumption DEF TypeOK
      <4> QED BY <4>1, <4>2, <4>3 DEF TypeOK
    <3> QED BY <3>1, <3>2, <3>3
  <2>3. overlap' \subseteq SUBSET Fetches
    <3>1. CASE \E h \in Hosts : Lookup(f, h)
      BY <3>1 DEF TypeOK, Lookup
    <3>2. CASE overlap' = overlap
      BY <3>2 DEF TypeOK
    <3> QED BY <1>2, <3>1, <3>2
               DEF CallStep, Upload, Handshake, PinFirst, Fails, Answered, AcceptChange
  <2>4. fetch'[f] \in Fetch
    <3>1. CASE \E h \in Hosts : Lookup(f, h) \/ Upload(f, h)
      <4>1. PICK h \in Hosts : Lookup(f, h) \/ Upload(f, h)
        BY <3>1
      <4>2. installed \in Stores /\ pins[installed][h] \in Certs \cup {NoPin}
        BY DEF TypeOK
      <4>3. \/ fetch'[f] = Dialing("tofu", h, pins[installed][h])
            \/ fetch'[f] = Dialing("titan", h, NoPin)
        BY <4>1, Becomes
      <4> QED BY <4>2, <4>3 DEF Dialing, Fetch
    <3>2. CASE \E cert \in Certs : Handshake(f, cert)
      <4>1. PICK cert \in Certs : Handshake(f, cert)
        BY <3>2
      <4>2. fetch[f].host \in Hosts
        BY <4>1 DEF Handshake, Phases
      <4>3. pins[fetch[f].store][fetch[f].host] \in Certs \cup {NoPin}
        BY <4>2, Fields DEF TypeOK
      <4>4. fetch[f] \in Fetch
        BY Fields
      <4>5. \E p \in {"done", "shaken", "streaming"}, r \in {"none", "changed"} :
               fetch'[f] = [fetch[f] EXCEPT !.seen = cert,
                              !.held = pins[fetch[f].store][fetch[f].host],
                              !.phase = p, !.result = r]
        BY <4>1, Becomes
      <4> QED BY <4>3, <4>4, <4>5 DEF Fetch
    <3>3. CASE PinFirst(f) \/ Fails(f) \/ Answered(f) \/ AcceptChange(f)
      <4>1. fetch[f] \in Fetch
        BY Fields
      <4>2. \/ fetch'[f] = [fetch[f] EXCEPT !.phase = "streaming"]
            \/ fetch'[f] = [fetch[f] EXCEPT !.phase = "done", !.result = "failed"]
            \/ fetch'[f] = [fetch[f] EXCEPT !.phase = "done", !.result = "answered"]
            \/ fetch'[f] = [fetch[f] EXCEPT !.result = "consented"]
        BY <3>3, Becomes
      <4> QED BY <4>1, <4>2 DEF Fetch
    <3> QED BY <1>2, <3>1, <3>2, <3>3 DEF CallStep
  <2>5. fetch' = [fetch EXCEPT ![f] = fetch'[f]]
    BY <1>2 DEF TypeOK, CallStep, Lookup, Upload, Handshake, PinFirst, Fails, Answered,
                AcceptChange
  <2>6. fetch' \in [Fetches -> Fetch]
    BY <2>4, <2>5 DEF TypeOK
  <2> QED BY <2>1, <2>2, <2>3, <2>6 DEF TypeOK
<1>3. CASE UNCHANGED vars
  BY <1>3 DEF vars, TypeOK
<1> QED BY <1>1, <1>2, <1>3 DEF Next, CallStep

\* A call that was trusted stays so, with the host, store and certificate it had.
LEMMA TrustStable ==
    ASSUME TypeOK, Phases, NEW f \in Fetches, CallStep(f), NEW g \in Fetches, Trusting(g)
    PROVE  /\ Trusting(g)' /\ fetch'[g].kind = fetch[g].kind
           /\ fetch'[g].host = fetch[g].host /\ fetch'[g].store = fetch[g].store
           /\ fetch'[g].seen = fetch[g].seen /\ fetch'[g].pinned = fetch[g].pinned
<1>1. CASE f # g
  BY <1>1, OneCall DEF Trusting
<1>2. CASE f = g
  <2>1. Fails(f) \/ Answered(f)
    BY <1>2 DEF CallStep, Trusting, Lookup, Upload, Handshake, PinFirst, AcceptChange, Phases
  <2>2. fetch[f] \in Fetch
    BY Fields
  <2>3. \/ fetch'[f] = [fetch[f] EXCEPT !.phase = "done", !.result = "failed"]
        \/ fetch'[f] = [fetch[f] EXCEPT !.phase = "done", !.result = "answered"]
    BY <2>1, Becomes
  <2> QED BY <1>2, <2>2, <2>3 DEF Trusting, Fetch
<1> QED BY <1>1, <1>2

\* What each phase has established is kept.
LEMMA PhasesStep ==
    ASSUME TypeOK, Phases, NEW f \in Fetches, CallStep(f)
    PROVE  Phases'
<1> DEFINE Good(c) ==
        /\ c.phase # "idle" => c.host \in Hosts
        /\ c.phase \in {"idle", "connecting"} => c.seen = NoCert /\ c.result = "none"
        /\ c.phase \in {"shaken", "streaming"} => c.seen \in Certs /\ c.result = "none"
        /\ c.phase = "shaken" => c.kind = "tofu"
        /\ c.pinned # NoPin => c.phase # "idle" /\ c.kind = "tofu"
        /\ c.result = "changed" =>
              /\ c.phase = "done" /\ c.kind = "tofu"
              /\ c.seen \in Certs /\ c.pinned \notin {NoPin, c.seen}
<1>1. \A g \in Fetches : Good(fetch[g])
  BY DEF Phases
<1>2. fetch[f] \in Fetch /\ Good(fetch[f])
  BY <1>1, Fields
<1>3. Good(fetch'[f])
  <2>1. CASE \E h \in Hosts : Lookup(f, h) \/ Upload(f, h)
    <3>1. PICK h \in Hosts : Lookup(f, h) \/ Upload(f, h)
      BY <2>1
    <3>2. \/ fetch'[f] = Dialing("tofu", h, pins[installed][h])
          \/ fetch'[f] = Dialing("titan", h, NoPin)
      BY <3>1, Becomes
    <3> QED BY <3>2 DEF Dialing
  <2>2. CASE \E cert \in Certs : Handshake(f, cert)
    <3>1. PICK cert \in Certs : Handshake(f, cert)
      BY <2>2
    <3>2. /\ fetch[f].phase = "connecting" /\ fetch[f].kind \in {"tofu", "titan"}
          /\ fetch[f].host \in Hosts
      BY <3>1, <1>2 DEF Handshake, Fetch
    <3>3. CASE Verified(f, cert)
      <4>1. fetch'[f] = [fetch[f] EXCEPT
               !.seen = cert, !.held = pins[fetch[f].store][fetch[f].host],
               !.phase = IF fetch[f].kind = "tofu" THEN "shaken" ELSE "streaming",
               !.result = "none"]
        BY <3>1, <3>3, Becomes
      <4> QED BY <1>2, <3>2, <4>1 DEF Fetch
    <3>4. CASE ~Verified(f, cert)
      <4>1. fetch'[f] = [fetch[f] EXCEPT
               !.seen = cert, !.held = pins[fetch[f].store][fetch[f].host],
               !.phase = "done", !.result = "changed"]
        BY <3>1, <3>4, Becomes
      <4>2. fetch[f].kind = "tofu" /\ fetch[f].pinned \notin {NoPin, cert}
        BY <3>2, <3>4 DEF Verified
      <4> QED BY <1>2, <3>2, <4>1, <4>2 DEF Fetch
    <3> QED BY <3>3, <3>4
  <2>3. CASE PinFirst(f)
    <3>1. fetch'[f] = [fetch[f] EXCEPT !.phase = "streaming"] /\ fetch[f].phase = "shaken"
      BY <2>3, Becomes DEF PinFirst
    <3> QED BY <1>2, <3>1 DEF Fetch
  <2>4. CASE Fails(f) \/ Answered(f)
    <3>1. \/ fetch'[f] = [fetch[f] EXCEPT !.phase = "done", !.result = "failed"]
          \/ fetch'[f] = [fetch[f] EXCEPT !.phase = "done", !.result = "answered"]
      BY <2>4, Becomes
    <3>2. fetch[f].phase # "idle"
      BY <2>4 DEF Fails, Answered
    <3> QED BY <1>2, <3>1, <3>2 DEF Fetch
  <2>5. CASE AcceptChange(f)
    <3>1. fetch'[f] = [fetch[f] EXCEPT !.result = "consented"] /\ fetch[f].result = "changed"
      BY <2>5, Becomes DEF AcceptChange
    <3> QED BY <1>2, <3>1 DEF Fetch
  <2> QED BY <2>1, <2>2, <2>3, <2>4, <2>5 DEF CallStep
<1>4. \A g \in Fetches : Good(fetch'[g])
  <2>1. \A g \in Fetches \ {f} : fetch'[g] = fetch[g]
    BY OneCall
  <2> QED BY <1>1, <1>3, <2>1
<1> QED BY <1>4 DEF Phases

\* A step that writes a pin leaves its call trusted, with the certificate it pinned.
LEMMA PinnerTrusts ==
    ASSUME TypeOK, Phases, NEW f \in Fetches, CallStep(f), pins' # pins
    PROVE  /\ Trusting(f)' /\ fetch'[f].kind = "tofu"
           /\ fetch'[f].host = fetch[f].host /\ fetch'[f].store = fetch[f].store
           /\ fetch'[f].seen = fetch[f].seen /\ fetch'[f].pinned = fetch[f].pinned
<1>1. PinFirst(f) \/ AcceptChange(f)
  BY DEF CallStep, Lookup, Upload, Handshake, Fails, Answered
<1>2. fetch[f] \in Fetch
  BY Fields
<1>3. fetch[f].kind = "tofu" /\ fetch[f].seen \in Certs
  BY <1>1 DEF Phases, PinFirst, AcceptChange
<1>4. CASE PinFirst(f)
  <2>1. fetch[f].result = "none"
    BY <1>4 DEF PinFirst, Phases
  <2>2. fetch'[f] = [fetch[f] EXCEPT !.phase = "streaming"]
    BY <1>4, Becomes
  <2> QED BY <1>2, <1>3, <2>1, <2>2, TofuAssumption DEF Trusting, Fetch
<1>5. CASE AcceptChange(f)
  <2>1. fetch[f].phase = "done"
    BY <1>5 DEF AcceptChange, Phases
  <2>2. fetch'[f] = [fetch[f] EXCEPT !.result = "consented"]
    BY <1>5, Becomes
  <2> QED BY <1>2, <1>3, <2>1, <2>2, TofuAssumption DEF Trusting, Fetch
<1> QED BY <1>1, <1>4, <1>5

\* Every pin still comes from a trusted fetch of its host.
LEMMA ProvenanceStep ==
    ASSUME TypeOK, Phases, PinProvenance, NEW f \in Fetches, CallStep(f)
    PROVE  PinProvenance'
<1> SUFFICES ASSUME NEW s \in Stores, NEW h \in Hosts, pins'[s][h] # NoPin
    PROVE  \E g \in Fetches :
              /\ Trusting(g)' /\ fetch'[g].kind = "tofu" /\ fetch'[g].store = s
              /\ fetch'[g].host = h /\ fetch'[g].seen = pins'[s][h]
    BY DEF PinProvenance
<1>1. CASE pins'[s][h] = pins[s][h]
  <2>1. PICK g \in Fetches :
           /\ Trusting(g) /\ fetch[g].kind = "tofu" /\ fetch[g].store = s
           /\ fetch[g].host = h /\ fetch[g].seen = pins[s][h]
    BY <1>1 DEF PinProvenance
  <2> QED BY <1>1, <2>1, TrustStable
<1>2. CASE pins'[s][h] # pins[s][h]
  <2>1. /\ fetch[f].store = s /\ fetch[f].host = h
        /\ pins'[s][h] = fetch[f].seen
    <3>1. /\ fetch[f].store \in Stores /\ fetch[f].host \in Hosts
          /\ pins' = [pins EXCEPT ![fetch[f].store][fetch[f].host] = fetch[f].seen]
      BY <1>2, OneCall
    <3> QED BY <1>2, <3>1 DEF TypeOK
  <2>2. pins' # pins
    BY <1>2
  <2> QED BY <2>1, <2>2, PinnerTrusts
<1> QED BY <1>1, <1>2

\* No step takes a pin back.
LEMMA NoPinLost ==
    ASSUME TypeOK, Phases, NEW f \in Fetches, CallStep(f),
           NEW s \in Stores, NEW h \in Hosts, pins[s][h] # NoPin
    PROVE  pins'[s][h] # NoPin
<1>1. \/ pins' = pins
      \/ /\ fetch[f].store \in Stores /\ fetch[f].host \in Hosts /\ fetch[f].seen \in Certs
         /\ pins' = [pins EXCEPT ![fetch[f].store][fetch[f].host] = fetch[f].seen]
  BY OneCall
<1> QED BY <1>1, TofuAssumption DEF TypeOK

\* The host and the store of a call change only at its lookup.
LEMMA CallStable ==
    ASSUME TypeOK, NEW f \in Fetches, CallStep(f), fetch[f].phase # "idle"
    PROVE  /\ fetch'[f].kind = fetch[f].kind /\ fetch'[f].pinned = fetch[f].pinned
           /\ fetch'[f].host = fetch[f].host /\ fetch'[f].store = fetch[f].store
<1>1. fetch[f] \in Fetch
  BY Fields
<1>2. CASE \E cert \in Certs : Handshake(f, cert)
  <2>1. PICK cert \in Certs : Handshake(f, cert)
    BY <1>2
  <2>2. fetch'[f] = [fetch[f] EXCEPT
           !.seen = cert,
           !.held = pins[fetch[f].store][fetch[f].host],
           !.phase = IF ~Verified(f, cert) THEN "done"
                     ELSE IF fetch[f].kind = "tofu" THEN "shaken" ELSE "streaming",
           !.result = IF Verified(f, cert) THEN "none" ELSE "changed"]
    BY <2>1, Becomes
  <2> QED BY <1>1, <2>2 DEF Fetch
<1>3. CASE PinFirst(f) \/ Fails(f) \/ Answered(f) \/ AcceptChange(f)
  <2>1. \/ fetch'[f] = [fetch[f] EXCEPT !.phase = "streaming"]
        \/ fetch'[f] = [fetch[f] EXCEPT !.phase = "done", !.result = "failed"]
        \/ fetch'[f] = [fetch[f] EXCEPT !.phase = "done", !.result = "answered"]
        \/ fetch'[f] = [fetch[f] EXCEPT !.result = "consented"]
    BY <1>3, Becomes
  <2> QED BY <1>1, <2>1 DEF Fetch
<1> QED BY <1>2, <1>3 DEF CallStep, Lookup, Upload

\* A call that starts is not yet trusted, and knows the pin its store holds, or none.
LEMMA CallStarts ==
    ASSUME TypeOK, NEW f \in Fetches, CallStep(f), fetch[f].phase = "idle", Phases
    PROVE  \E h \in Hosts :
              /\ fetch'[f].host = h /\ fetch'[f].store = installed
              /\ ~Trusting(f)' /\ pins' = pins
              /\ \/ fetch'[f].kind = "titan" /\ fetch'[f].pinned = NoPin
                 \/ Lookup(f, h) /\ fetch'[f].kind = "tofu" /\ fetch'[f].pinned = pins[installed][h]
<1>1. PICK h \in Hosts : Lookup(f, h) \/ Upload(f, h)
  BY DEF CallStep, Handshake, PinFirst, Fails, Answered, AcceptChange, Phases
<1>2. \/ Lookup(f, h) /\ fetch'[f] = Dialing("tofu", h, pins[installed][h])
      \/ fetch'[f] = Dialing("titan", h, NoPin)
  BY <1>1, Becomes
<1>3. pins' = pins
  BY <1>1 DEF Lookup, Upload
<1> QED BY <1>2, <1>3 DEF Dialing, Trusting

\* A pin found at the lookup has been trusted.
LEMMA FoundStep ==
    ASSUME TypeOK, Phases, PinProvenance, FoundWasTrusted, NEW f \in Fetches, CallStep(f)
    PROVE  FoundWasTrusted'
<1> SUFFICES ASSUME NEW k \in Fetches, fetch'[k].pinned # NoPin
    PROVE  \E g \in Fetches \ {k} :
              /\ fetch'[k].kind = "tofu" /\ fetch'[g].kind = "tofu"
              /\ fetch'[k].host = fetch'[g].host /\ fetch'[k].store = fetch'[g].store
              /\ Trusting(g)' /\ fetch'[g].seen = fetch'[k].pinned
    BY DEF FoundWasTrusted, Together
<1>1. CASE k = f /\ fetch[f].phase = "idle"
  <2>1. PICK h \in Hosts :
           /\ fetch'[f].host = h /\ fetch'[f].store = installed /\ fetch'[f].kind = "tofu"
           /\ fetch'[f].pinned = pins[installed][h]
    BY <1>1, CallStarts
  <2>2. PICK g \in Fetches :
           /\ Trusting(g) /\ fetch[g].kind = "tofu" /\ fetch[g].store = installed
           /\ fetch[g].host = h /\ fetch[g].seen = pins[installed][h]
    BY <1>1, <2>1 DEF PinProvenance, TypeOK
  <2>3. g # f
    BY <1>1, <2>2 DEF Trusting
  <2> QED BY <1>1, <2>1, <2>2, <2>3, TrustStable
<1>2. CASE ~(k = f /\ fetch[f].phase = "idle")
  <2>1. /\ fetch'[k].kind = fetch[k].kind /\ fetch'[k].pinned = fetch[k].pinned
        /\ fetch'[k].host = fetch[k].host /\ fetch'[k].store = fetch[k].store
    BY <1>2, CallStable, OneCall
  <2>2. PICK g \in Fetches \ {k} :
           Together(k, g) /\ Trusting(g) /\ fetch[g].seen = fetch[k].pinned
    BY <2>1 DEF FoundWasTrusted
  <2>3. /\ Trusting(g)' /\ fetch'[g].kind = fetch[g].kind
        /\ fetch'[g].host = fetch[g].host /\ fetch'[g].store = fetch[g].store
        /\ fetch'[g].seen = fetch[g].seen
    BY <2>2, TrustStable
  <2> QED BY <2>1, <2>2, <2>3 DEF Together
<1> QED BY <1>1, <1>2

\* Pins that a call has found or left stay.
LEMMA StaysStep ==
    ASSUME TypeOK, Phases, StaysPinned, NEW f \in Fetches, CallStep(f)
    PROVE  StaysPinned'
<1> SUFFICES ASSUME NEW k \in Fetches
    PROVE  /\ fetch'[k].pinned # NoPin => pins'[fetch'[k].store][fetch'[k].host] # NoPin
           /\ (fetch'[k].kind = "tofu" /\ Trusting(k)' /\ fetch'[k].store # Permissive)
                 => pins'[fetch'[k].store][fetch'[k].host] # NoPin
    BY DEF StaysPinned
<1>1. CASE k = f /\ fetch[f].phase = "idle"
  BY <1>1, CallStarts
<1>2. CASE ~(k = f /\ fetch[f].phase = "idle")
  <2>1. /\ fetch'[k].kind = fetch[k].kind /\ fetch'[k].pinned = fetch[k].pinned
        /\ fetch'[k].host = fetch[k].host /\ fetch'[k].store = fetch[k].store
    BY <1>2, CallStable, OneCall
  <2>2. fetch[k].store \in Stores
    BY Fields
  <2>3. CASE /\ fetch[k].host \in Hosts
             /\ pins[fetch[k].store][fetch[k].host] # NoPin
    BY <2>1, <2>2, <2>3, NoPinLost
  <2>4. fetch[k].phase # "idle" => fetch[k].host \in Hosts
    BY DEF Phases
  <2>5. fetch[k].pinned # NoPin => fetch[k].phase # "idle"
    BY DEF Phases
  <2>6. Trusting(k) => fetch[k].phase # "idle"
    BY DEF Trusting
  <2>7. CASE fetch[k].pinned # NoPin \/
             (fetch[k].kind = "tofu" /\ Trusting(k) /\ fetch[k].store # Permissive)
    BY <2>3, <2>4, <2>5, <2>6, <2>7 DEF StaysPinned
  <2>8. CASE fetch[k].pinned = NoPin /\ ~Trusting(k) /\ Trusting(k)'
             /\ fetch[k].kind = "tofu" /\ fetch[k].store # Permissive
    <3>1. k = f
      BY <2>8, OneCall DEF Trusting
    <3>2. PinFirst(f) \/ AcceptChange(f)
      <4>1. fetch[f] \in Fetch
        BY Fields
      <4>2. CASE Fails(f) \/ Answered(f)
        <5>1. /\ fetch'[f].seen = fetch[f].seen
              /\ fetch[f].phase \in {"connecting", "streaming"}
          <6>1. \/ fetch'[f] = [fetch[f] EXCEPT !.phase = "done", !.result = "failed"]
                \/ fetch'[f] = [fetch[f] EXCEPT !.phase = "done", !.result = "answered"]
            BY <4>2, Becomes
          <6>2. fetch[f].phase \in {"connecting", "streaming"}
            BY <4>2 DEF Fails, Answered
          <6> QED BY <4>1, <6>1, <6>2 DEF Fetch
        <5> QED BY <2>8, <3>1, <5>1 DEF Trusting, Phases
      <4>3. CASE \E cert \in Certs : Handshake(f, cert)
        <5>1. fetch'[f].phase \in {"shaken"} \/ fetch'[f].result = "changed"
          <6>1. PICK cert \in Certs : Handshake(f, cert)
            BY <4>3
          <6>2. fetch'[f] = [fetch[f] EXCEPT
                   !.seen = cert,
                   !.held = pins[fetch[f].store][fetch[f].host],
                   !.phase = IF ~Verified(f, cert) THEN "done"
                             ELSE IF fetch[f].kind = "tofu" THEN "shaken" ELSE "streaming",
                   !.result = IF Verified(f, cert) THEN "none" ELSE "changed"]
            BY <6>1, Becomes
          <6>3. fetch[f].kind = "tofu"
            BY <2>8, <3>1
          <6> QED BY <4>1, <6>2, <6>3 DEF Fetch
        <5> QED BY <2>8, <3>1, <5>1 DEF Trusting
      <4> QED BY <1>2, <3>1, <4>2, <4>3 DEF CallStep, Lookup, Upload
    <3>3. ~AcceptChange(f)
      BY <2>8, <3>1 DEF AcceptChange, Phases
    <3>4. /\ fetch[f].host \in Hosts /\ fetch[f].seen \in Certs
          /\ pins' = [pins EXCEPT ![fetch[f].store][fetch[f].host] = fetch[f].seen]
      BY <2>8, <3>1, <3>2, <3>3 DEF PinFirst, Recorded, Phases
    <3>5. pins'[fetch[f].store][fetch[f].host] = fetch[f].seen
      BY <2>2, <3>1, <3>4 DEF TypeOK
    <3> QED BY <2>1, <3>1, <3>4, <3>5, TofuAssumption
  <2> QED BY <2>1, <2>7, <2>8
<1> QED BY <1>1, <1>2

\* Overlapping first contacts are on record.
LEMMA OverlapStep ==
    ASSUME TypeOK, Phases, StaysPinned, OverlapsRecorded, NEW f \in Fetches, CallStep(f)
    PROVE  OverlapsRecorded'
<1> DEFINE First(k) == Live(k) /\ fetch[k].pinned = NoPin /\ fetch[k].kind = "tofu"
<1>1. overlap \subseteq overlap'
  BY DEF CallStep, Lookup, Upload, Handshake, PinFirst, Fails, Answered, AcceptChange
<1>2. \A k \in Fetches \ {f} : fetch'[k] = fetch[k]
  BY OneCall
\* A call already made was a first contact before the step.
<1>3. ASSUME NEW k \in Fetches, ~(k = f /\ fetch[f].phase = "idle"), First(k)'
      PROVE  /\ First(k) /\ fetch'[k].host = fetch[k].host /\ fetch'[k].store = fetch[k].store
  <2>1. /\ fetch'[k].kind = fetch[k].kind /\ fetch'[k].pinned = fetch[k].pinned
        /\ fetch'[k].host = fetch[k].host /\ fetch'[k].store = fetch[k].store
    BY <1>2, <1>3, CallStable
  <2>2. Live(k)
    <3>1. CASE k # f
      BY <1>2, <1>3, <3>1 DEF Live, Trusting
    <3>2. CASE k = f
      <4>1. ~AcceptChange(f)
        BY <1>3, <2>1, <3>2 DEF AcceptChange, Phases
      <4>2. fetch[f].phase \in {"connecting", "shaken", "streaming"}
        BY <1>3, <3>2, <4>1
           DEF CallStep, Lookup, Upload, Handshake, PinFirst, Fails, Answered
      <4> QED BY <3>2, <4>2, TofuAssumption DEF Live, Trusting, Phases
    <3> QED BY <3>1, <3>2
  <2> QED BY <1>3, <2>1, <2>2
\* Against a call that starts now.
<1>4. ASSUME NEW k \in Fetches \ {f}, fetch[f].phase = "idle", First(f)', First(k)',
             fetch'[f].host = fetch'[k].host, fetch'[f].store = fetch'[k].store,
             fetch'[f].store # Permissive
      PROVE  {f, k} \in overlap'
  <2>1. PICK h \in Hosts :
           /\ Lookup(f, h) /\ fetch'[f].host = h /\ fetch'[f].store = installed
           /\ pins[installed][h] = NoPin
    BY <1>4, CallStarts
  <2>2. /\ fetch[k].kind = "tofu" /\ fetch[k].host = h /\ fetch[k].store = installed
        /\ Live(k)
    BY <1>2, <1>4, <2>1 DEF Live, Trusting
  <2>3. ~Trusting(k)
    BY <1>4, <2>1, <2>2 DEF StaysPinned
  <2>4. fetch[k].phase \in {"connecting", "shaken"}
    BY <2>2, <2>3 DEF Live
  <2> QED BY <2>1, <2>2, <2>4 DEF Lookup
<1>5. ASSUME NEW k \in Fetches, NEW l \in Fetches, k # l, First(k)', First(l)',
             fetch'[k].host = fetch'[l].host, fetch'[k].store = fetch'[l].store,
             fetch'[k].store # Permissive
      PROVE  {k, l} \in overlap'
  <2>1. CASE k = f /\ fetch[f].phase = "idle"
    BY <1>4, <1>5, <2>1
  <2>2. CASE l = f /\ fetch[f].phase = "idle"
    <3>1. {l, k} \in overlap'
      BY <1>4, <1>5, <2>2
    <3>2. {l, k} = {k, l}
      OBVIOUS
    <3> QED BY <3>1, <3>2
  <2>3. CASE ~(k = f /\ fetch[f].phase = "idle") /\ ~(l = f /\ fetch[f].phase = "idle")
    <3>1. /\ First(k) /\ fetch'[k].host = fetch[k].host /\ fetch'[k].store = fetch[k].store
          /\ First(l) /\ fetch'[l].host = fetch[l].host /\ fetch'[l].store = fetch[l].store
      BY <1>3, <1>5, <2>3
    <3>2. {k, l} \in overlap
      BY <1>5, <3>1 DEF OverlapsRecorded, Together
    <3> QED BY <1>1, <3>2
  <2> QED BY <2>1, <2>2, <2>3
<1> QED BY <1>5 DEF OverlapsRecorded, Together

\* Every step keeps the invariant.
LEMMA NextInv == Inv /\ [Next]_vars => Inv'
<1> SUFFICES ASSUME Inv, [Next]_vars
    PROVE  Inv'
    OBVIOUS
<1> USE DEF Inv
<1>1. TypeOK'
  BY TypeStep
<1>2. ASSUME NEW f \in Fetches, CallStep(f)
      PROVE  Inv'
  BY <1>1, <1>2, PhasesStep, ProvenanceStep, FoundStep, StaysStep, OverlapStep
<1>3. CASE UNCHANGED <<pins, fetch, overlap>>
  BY <1>1, <1>3
     DEF Phases, PinProvenance, FoundWasTrusted, StaysPinned, OverlapsRecorded, Live,
         Trusting, Together
<1> QED BY <1>2, <1>3 DEF Next, CallStep, SetTrustStore, vars

\* Every reachable state satisfies the invariant.
THEOREM Invariance == Spec => []Inv
<1>1. Init => Inv
  BY InitInv
<1>2. Inv /\ [Next]_vars => Inv'
  BY NextInv
<1> QED BY <1>1, <1>2, PTL DEF Spec

\* Stores, pins and calls are well formed, and the permissive store never keeps a pin
\* (tofu.rs, PermissiveTofu).
THEOREM TypeCorrect == Spec => []TypeOK
<1>1. Inv => TypeOK
  BY DEF Inv
<1> QED BY <1>1, Invariance, PTL

\* Every pin was presented to a fetch of its own host, through its own store, that
\* trusted it: neither an upload nor another host's contact sets one (tofu_connect).
THEOREM PinsHaveProvenance == Spec => []PinProvenance
<1>1. Inv => PinProvenance
  BY DEF Inv
<1> QED BY <1>1, Invariance, PTL

\* CertificateChanged always means that the host showed another certificate to a fetch
\* that trusted it, however the fetches interleave (tofu_connect).
THEOREM AlarmsAreReal == Spec => []NoFalseAlarm
<1>1. Inv => NoFalseAlarm
  <2> SUFFICES ASSUME Inv, NEW f \in Fetches, fetch[f].result = "changed"
      PROVE  \E g \in Fetches \ {f} :
                /\ Together(f, g) /\ Trusting(g)
                /\ fetch[g].seen = fetch[f].pinned /\ fetch[g].seen # fetch[f].seen
      BY DEF NoFalseAlarm
  <2>1. fetch[f].pinned \notin {NoPin, fetch[f].seen}
    BY DEF Inv, Phases
  <2> QED BY <2>1 DEF Inv, FoundWasTrusted
<1> QED BY <1>1, Invariance, PTL

\* Two fetches of a host that both took its certificate as a first contact, in a store
\* that keeps pins, overlapped (tofu_connect's lookup, handshake and pin).
THEOREM FirstContactsOverlap == Spec => []FirstContactOnce
<1>1. Inv => FirstContactOnce
  BY DEF Inv, OverlapsRecorded, FirstContactOnce, Live
<1> QED BY <1>1, Invariance, PTL
=============================================================================
