-------------------------- MODULE PeerSessionsProofs --------------------------
(***************************************************************************)
(* Pairing and trust for any devices, handshakes and changes of trust.     *)
(*                                                                         *)
(* What is stored at the end of a handshake was said at its beginning and  *)
(* decided on both sides in between.  The invariant follows a handshake    *)
(* through the packets of its stream: what each packet can be when each    *)
(* side is at each phase, and that the two sides, while they talk, have    *)
(* one transcript.  Streams break and are made again while the listener is *)
(* still busy with an old one; a new stream holds no decision.             *)
(***************************************************************************)
EXTENDS PeerSessions, TLAPS

(***************************************************************************)
(* The shape of the state.                                                 *)
(***************************************************************************)
MaybeIdentity == Identities \cup {NoIdentity}
Packet ==
    [kind : {"initial"}, identity : MaybeIdentity]
    \cup [kind : {"reply"}, identity : MaybeIdentity, transcript : Nat]
    \cup [kind : {"accepted", "rejected"}]
PairingState ==
    [phase : PairingPhases, own : MaybeIdentity, with : Devices \cup {None},
     peer : MaybeIdentity, transcript : Nat, approved : BOOLEAN]
StreamState == [ends : SUBSET Devices, toListener : Seq(Packet), toInitiator : Seq(Packet)]

PairingShape ==
    /\ identityFile \in [Devices -> MaybeIdentity]
    /\ pairing \in [Devices -> PairingState]
    /\ stream \in [Initiators -> StreamState]
    /\ trusted \in [Devices -> SUBSET Rows]
    /\ handshakes \in 0..MaxHandshakes
    /\ approvals \subseteq Devices \X (0..handshakes)
    /\ \A d \in Devices : pairing[d].transcript <= handshakes

(***************************************************************************)
(* What holds of a handshake.                                              *)
(***************************************************************************)
OwnOf(d) == {Generated(d, kind) : kind \in Kinds}

\* The identity that every process of d uses.
Has(d, identity) == identity = identityFile[d] /\ identity \in OwnOf(d)

OwnIdentity(d) ==
    /\ identityFile[d] \in OwnOf(d) \cup {NoIdentity}
    /\ pairing[d].phase = "creating" => pairing[d].own = Generated(d, "pair")
    /\ pairing[d].phase \notin {"idle", "creating"} => Has(d, pairing[d].own)

Initial(i) == [kind |-> "initial", identity |-> identityFile[i]]
Reply(n) == [kind |-> "reply", identity |-> identityFile[Listener], transcript |-> n]

\* The listener is in a handshake with i.
Answering(i) ==
    pairing[Listener].phase \in {"confirming", "deciding"} /\ pairing[Listener].with = i

\* The transcript of i is that of the listener, if the listener is with i.
SameTranscript(i, n) == Answering(i) => pairing[Listener].transcript = n

\* A stream that the listener holds and has not answered.
Queued(i) ==
    Listener \in stream[i].ends =>
       /\ pairing[Listener].phase \in Bound
       /\ pairing[Listener].phase = "accepting" =>
             /\ stream[i].toListener = <<Initial(i)>> /\ Has(i, identityFile[i])
             /\ stream[i].toInitiator = << >>
             /\ pairing[i].phase \notin {"confirming", "awaiting"}

Greeting(i) ==
    /\ stream[i].toListener # << >> =>
          stream[i].toListener = <<Initial(i)>> /\ Has(i, identityFile[i])
    /\ stream[i].toInitiator # << >> =>
          \E m \in 0..handshakes :
             /\ stream[i].toListener = << >>
             /\ stream[i].toInitiator = <<Reply(m)>> /\ SameTranscript(i, m)
             /\ Has(Listener, identityFile[Listener])

Confirming(i) ==
    /\ stream[i].toListener = << >> /\ stream[i].toInitiator = << >>
    /\ SameTranscript(i, pairing[i].transcript)

Awaiting(i) ==
    /\ stream[i].toListener \in {<< >>, <<Answers("accepted")>>}
    /\ stream[i].toInitiator \in {<< >>, <<Answers("accepted")>>, <<Answers("rejected")>>}
    /\ SameTranscript(i, pairing[i].transcript)
    /\ Answering(i) => stream[i].toInitiator = << >>
    /\ stream[i].toInitiator = <<Answers("accepted")>> =>
          <<Listener, pairing[i].transcript>> \in approvals

InitiatorKnows(i) ==
    /\ pairing[i].phase = "greeting" => Greeting(i)
    /\ pairing[i].phase = "confirming" => Confirming(i)
    /\ pairing[i].phase = "awaiting" => Awaiting(i)
    /\ pairing[i].phase \in {"confirming", "awaiting", "paired"} =>
          Has(Listener, pairing[i].peer)
    /\ pairing[i].phase \in {"awaiting", "paired"} =>
          <<i, pairing[i].transcript>> \in approvals
    /\ pairing[i].phase = "paired" => <<Listener, pairing[i].transcript>> \in approvals

\* What the listener that waits for a decision can find instead of it.
Decision(i, n) ==
    /\ stream[i].toListener \in
          {<< >>, <<Answers("accepted")>>, <<Answers("rejected")>>, <<Initial(i)>>}
    /\ stream[i].toListener = <<Answers("accepted")>> => <<i, n>> \in approvals

ListenerKnows ==
    LET i == pairing[Listener].with
        n == pairing[Listener].transcript
    IN  /\ pairing[Listener].phase \in {"confirming", "deciding", "paired"} =>
             i \in Initiators /\ Has(i, pairing[Listener].peer)
        /\ pairing[Listener].phase \in {"confirming", "deciding"} => Decision(i, n)
        /\ pairing[Listener].phase = "deciding" /\ pairing[Listener].approved =>
             <<Listener, n>> \in approvals
        /\ pairing[Listener].phase = "paired" => {<<i, n>>, <<Listener, n>>} \subseteq approvals

\* A row was stored by a handshake that both users approved.
StoredRow(d, row) ==
    LET e == row.peer[1]
    IN  /\ e \in Devices /\ (d = Listener <=> e # Listener)
        /\ Has(e, row.peer)
        /\ ApprovedTogether(d, e, row.by)

Trust ==
    \A d \in Devices :
       /\ \A row \in trusted[d] : StoredRow(d, row)
       /\ \A row, other \in trusted[d] : row.peer = other.peer => row = other

PairingInv ==
    /\ PairingShape
    /\ \A d \in Devices : OwnIdentity(d)
    /\ \A i \in Initiators : Queued(i) /\ InitiatorKnows(i)
    /\ ListenerKnows
    /\ Trust

(***************************************************************************)
(* What holds of the sessions.                                             *)
(***************************************************************************)
SessionState == [phase : SessionPhases, own : MaybeIdentity, pinned : MaybeIdentity]

\* The identity a session is pinned to belongs to a device with which the users
\* have approved a handshake.
PinnedIsApproved(d) ==
    \E e \in Devices, n \in 0..handshakes :
        /\ d = Listener <=> e # Listener
        /\ Has(e, session[d].pinned) /\ ApprovedTogether(d, e, n)

SessionKnows(d) ==
    /\ session[d].phase = "creating" => session[d].own = Generated(d, "session")
    /\ session[d].phase \in {"ready", "open", "hello", "active"} => Has(d, session[d].own)
    /\ session[d].phase \in {"open", "hello", "active"} => PinnedIsApproved(d)

Linkage ==
    link # None =>
       /\ {session[link].phase, session[Listener].phase} \subseteq {"hello", "active"}
       /\ BothPinned(link)

SessionInv ==
    /\ session \in [Devices -> SessionState]
    /\ link \in Initiators \cup {None}
    /\ received \in 0..MaxEvents
    /\ changes \in 0..MaxChanges
    /\ \A d \in Devices : SessionKnows(d)
    /\ Linkage

PeerInv == PairingInv /\ SessionInv

(***************************************************************************)
(* Facts about identities and packets.                                     *)
(***************************************************************************)
LEMMA IdentityFacts ==
  ASSUME NEW d \in Devices, NEW identity \in OwnOf(d)
  PROVE  identity \in Identities /\ identity # NoIdentity /\ identity[1] = d
  BY PairingAssumption DEF OwnOf, Generated, Identities, NoIdentity

LEMMA PacketFacts ==
  ASSUME NEW p \in Packet
  PROVE  /\ <<p>> \in Seq(Packet) /\ << >> \in Seq(Packet) /\ <<p>> # << >>
         /\ Head(<<p>>) = p /\ Tail(<<p>>) = << >> /\ Append(<< >>, p) = <<p>>
  OBVIOUS

LEMMA PacketKinds ==
  /\ \A kind \in {"accepted", "rejected"} : Answers(kind) \in Packet
  /\ \A i \in Initiators : Has(i, identityFile[i]) => Initial(i) \in Packet
  /\ \A n \in Nat : Has(Listener, identityFile[Listener]) => Reply(n) \in Packet
  <1>1. \A kind \in {"accepted", "rejected"} : Answers(kind) \in Packet
    BY DEF Answers, Packet
  <1>2. \A i \in Initiators : Has(i, identityFile[i]) => Initial(i) \in Packet
    BY IdentityFacts DEF Has, Initial, Packet, MaybeIdentity, Initiators
  <1>3. \A n \in Nat : Has(Listener, identityFile[Listener]) => Reply(n) \in Packet
    BY IdentityFacts, PairingAssumption DEF Has, Reply, Packet, MaybeIdentity
  <1> QED BY <1>1, <1>2, <1>3

LEMMA PacketsDiffer ==
  ASSUME NEW i \in Initiators
  PROVE  /\ <<Initial(i)>> # <<Answers("accepted")>> /\ <<Initial(i)>> # <<Answers("rejected")>>
         /\ <<Answers("accepted")>> # <<Answers("rejected")>>
         /\ Answers("accepted").kind = "accepted" /\ Answers("rejected").kind = "rejected"
         /\ Initial(i).kind = "initial"
  <1>1. Initial(i).kind = "initial" /\ Answers("accepted").kind = "accepted"
        /\ Answers("rejected").kind = "rejected"
    BY DEF Initial, Answers
  <1> QED BY <1>1

(***************************************************************************)
(* What a step leaves alone.  An identity file is written once, and        *)
(* handshakes and approvals only grow; so what is known of a side stays    *)
(* known while that side does nothing, or ends what it does.               *)
(***************************************************************************)
Grown ==
    /\ \A d \in Devices :
          \/ identityFile'[d] = identityFile[d]
          \/ identityFile[d] = NoIdentity /\ identityFile'[d] \in OwnOf(d)
    /\ handshakes <= handshakes' /\ handshakes' \in 0..MaxHandshakes
    /\ approvals \subseteq approvals'

LEMMA HasStays ==
  ASSUME Grown, NEW d \in Devices, NEW identity, Has(d, identity)
  PROVE  Has(d, identity)' /\ identityFile'[d] = identityFile[d]
  BY IdentityFacts DEF Grown, Has

LEMMA UnchangedGrows ==
  ASSUME PairingShape, UNCHANGED <<identityFile, handshakes, approvals>>
  PROVE  Grown
  BY DEF Grown, PairingShape

\* The stream of i is what it was, or closed; the listener gives it up only.
Faded(i) ==
    /\ stream'[i] = Closed \/ /\ stream'[i].toListener = stream[i].toListener
                              /\ stream'[i].toInitiator = stream[i].toInitiator
    /\ Listener \in stream'[i].ends =>
          /\ Listener \in stream[i].ends
          /\ stream'[i] # Closed
          /\ pairing'[Listener].phase \in Bound
          /\ pairing'[Listener].phase = "accepting" => pairing[Listener].phase = "accepting"

InitiatorRests(i) ==
    \/ pairing'[i] = pairing[i]
    \/ pairing'[i].phase \in {"idle", "creating", "connecting", "draining"}

TranscriptRests(i) ==
    Answering(i)' => Answering(i) /\ pairing'[Listener].transcript = pairing[Listener].transcript

ListenerRests ==
    \/ pairing'[Listener] = pairing[Listener]
    \/ pairing'[Listener].phase \in {"idle", "creating", "accepting", "draining"}

LEMMA OwnStays ==
  ASSUME Grown, NEW d \in Devices, OwnIdentity(d),
         pairing'[d].own = pairing[d].own,
         pairing'[d].phase = "creating" <=> pairing[d].phase = "creating",
         pairing[d].phase = "idle" => pairing'[d].phase = "idle"
  PROVE  OwnIdentity(d)'
  <1>1. (identityFile[d] \in OwnOf(d) \cup {NoIdentity})'
    BY DEF OwnIdentity, Grown
  <1>2. (pairing[d].phase = "creating" => pairing[d].own = Generated(d, "pair"))'
    BY DEF OwnIdentity
  <1>3. (pairing[d].phase \notin {"idle", "creating"} => Has(d, pairing[d].own))'
    BY HasStays DEF OwnIdentity
  <1> QED BY <1>1, <1>2, <1>3 DEF OwnIdentity

LEMMA OwnOfIdle ==
  ASSUME Grown, NEW d \in Devices, OwnIdentity(d), pairing'[d].phase = "idle"
  PROVE  OwnIdentity(d)'
  BY DEF OwnIdentity, Grown

LEMMA InitiatorStays ==
  ASSUME PairingShape, Grown, NEW i \in Initiators, Queued(i), InitiatorKnows(i),
         Faded(i), InitiatorRests(i), TranscriptRests(i)
  PROVE  Queued(i)' /\ InitiatorKnows(i)'
  <1> USE DEF Initiators
  <1>1. \A n : SameTranscript(i, n) => SameTranscript(i, n)'
    BY DEF TranscriptRests, SameTranscript
  <1>2. Answering(i)' => Answering(i)
    BY DEF TranscriptRests
  <1>3. Has(i, identityFile[i]) => Has(i, identityFile[i])' /\ Initial(i)' = Initial(i)
    BY HasStays DEF Initial
  <1>4. Has(Listener, identityFile[Listener])
          => Has(Listener, identityFile[Listener])' /\ \A n : Reply(n)' = Reply(n)
    BY HasStays, PairingAssumption DEF Reply
  <1>5. /\ \A n : <<i, n>> \in approvals => <<i, n>> \in approvals'
        /\ \A n : <<Listener, n>> \in approvals => <<Listener, n>> \in approvals'
        /\ \A n \in 0..handshakes : n \in 0..handshakes'
    BY DEF Grown, PairingShape
  <1>6. Has(Listener, pairing[i].peer) => Has(Listener, pairing[i].peer)' \/ pairing'[i] # pairing[i]
    BY HasStays, PairingAssumption
  <1>7. Queued(i)'
    BY <1>3 DEF Queued, Faded, Closed, InitiatorRests
  <1>8. CASE pairing'[i] = pairing[i]
    <2>1. Greeting(i) => Greeting(i)'
      BY <1>1, <1>3, <1>4, <1>5 DEF Greeting, Faded, Closed
    <2>2. Confirming(i) => Confirming(i)'
      BY <1>1, <1>8 DEF Confirming, Faded, Closed
    <2>3. Awaiting(i) => Awaiting(i)'
      BY <1>1, <1>2, <1>5, <1>8 DEF Awaiting, Faded, Closed, Answers
    <2> QED BY <1>5, <1>6, <1>7, <1>8, <2>1, <2>2, <2>3 DEF InitiatorKnows
  <1>9. CASE pairing'[i].phase \in {"idle", "creating", "connecting", "draining"}
    BY <1>7, <1>9 DEF InitiatorKnows
  <1> QED BY <1>8, <1>9 DEF InitiatorRests

LEMMA ListenerStays ==
  ASSUME Grown, ListenerKnows, ListenerRests,
         pairing[Listener].with \in Initiators =>
            stream'[pairing[Listener].with].toListener
                \in {<< >>, stream[pairing[Listener].with].toListener}
  PROVE  ListenerKnows'
  <1> USE DEF Initiators
  <1> DEFINE i == pairing[Listener].with
             n == pairing[Listener].transcript
  <1>1. CASE pairing'[Listener] = pairing[Listener]
    <2>1. i \in Initiators /\ Has(i, pairing[Listener].peer)
            => Has(i, pairing[Listener].peer)' /\ Initial(i)' = Initial(i)
      BY HasStays, <1>1 DEF Initial
    <2>2. i \in Initiators /\ Has(i, pairing[Listener].peer) /\ Decision(i, n) => Decision(i, n)'
      BY <1>1, <2>1 DEF Decision, Answers, Grown
    <2>3. \A x : x \in approvals => x \in approvals'
      BY DEF Grown
    <2> QED BY <1>1, <2>1, <2>2, <2>3 DEF ListenerKnows
  <1>2. CASE pairing'[Listener].phase \in {"idle", "creating", "accepting", "draining"}
    BY <1>2 DEF ListenerKnows
  <1> QED BY <1>1, <1>2 DEF ListenerRests

LEMMA TrustStays ==
  ASSUME PairingShape, Grown, Trust, \A d \in Devices : trusted'[d] = trusted[d]
  PROVE  Trust'
  <1> SUFFICES ASSUME NEW d \in Devices, NEW row \in trusted[d], StoredRow(d, row)
               PROVE  StoredRow(d, row)'
    BY DEF Trust
  <1> QED BY HasStays DEF StoredRow, ApprovedTogether, Grown

LEMMA RestingStep ==
  ASSUME PairingInv, Grown, PairingShape', \A d \in Devices : OwnIdentity(d)', Trust',
         \A i \in Initiators : Faded(i) /\ InitiatorRests(i), ListenerRests
  PROVE  PairingInv'
  <1>1. \A i \in Initiators : TranscriptRests(i)
    BY DEF ListenerRests, TranscriptRests, Answering
  <1>2. \A i \in Initiators : Queued(i)' /\ InitiatorKnows(i)'
    BY <1>1, InitiatorStays DEF PairingInv
  <1>3. ListenerKnows'
    BY ListenerStays DEF PairingInv, Faded, Closed
  <1> QED BY <1>2, <1>3 DEF PairingInv

LEMMA DroppedFades ==
  ASSUME PairingShape, \A i \in Initiators : Queued(i), NEW d \in Devices, stream' = Dropped(d),
         d # Listener => pairing'[Listener] = pairing[Listener]
  PROVE  stream' \in [Initiators -> StreamState] /\ \A i \in Initiators : Faded(i)
  <1> USE DEF Initiators
  <1> SUFFICES ASSUME NEW i \in Initiators PROVE stream'[i] \in StreamState /\ Faded(i)
    BY DEF Dropped
  <1>1. stream'[i] = IF d \in {i, Listener} THEN DropEnd(stream[i], d) ELSE stream[i]
    BY DEF Dropped
  <1>2. stream[i] \in StreamState
    BY DEF PairingShape
  <1>3. Closed \in StreamState
    BY DEF Closed, StreamState
  <1>4. CASE d \notin {i, Listener}
    BY <1>1, <1>2, <1>4 DEF Faded, Queued, StreamState, Closed
  <1>5. CASE d \in {i, Listener} /\ stream[i].ends \subseteq {d}
    BY <1>1, <1>3, <1>5 DEF Faded, DropEnd, Closed
  <1>6. CASE d \in {i, Listener} /\ ~ stream[i].ends \subseteq {d}
    <2>1. stream'[i] = [stream[i] EXCEPT !.ends = @ \ {d}]
      BY <1>1, <1>6 DEF DropEnd
    <2>2. /\ stream'[i].ends = stream[i].ends \ {d}
          /\ stream'[i].toListener = stream[i].toListener
          /\ stream'[i].toInitiator = stream[i].toInitiator
          /\ stream'[i] \in StreamState
      BY <1>2, <2>1 DEF StreamState
    <2>3. stream'[i] # Closed
      BY <2>2, <1>6 DEF Closed
    <2> QED BY <2>2, <2>3, <1>6 DEF Faded, Queued
  <1> QED BY <1>4, <1>5, <1>6

LEMMA DropEndFacts ==
  ASSUME NEW s \in StreamState, NEW d \in Devices
  PROVE  /\ DropEnd(s, d) \in StreamState /\ d \notin DropEnd(s, d).ends
         /\ DropEnd(s, d).ends \subseteq s.ends
         /\ \/ DropEnd(s, d) = Closed
            \/ /\ DropEnd(s, d).toListener = s.toListener
               /\ DropEnd(s, d).toInitiator = s.toInitiator
               /\ DropEnd(s, d).ends # {}
  <1>1. Closed \in StreamState /\ Closed.ends = {}
    BY DEF Closed, StreamState
  <1>2. CASE s.ends \subseteq {d}
    BY <1>1, <1>2 DEF DropEnd
  <1>3. CASE ~ s.ends \subseteq {d}
    <2>1. DropEnd(s, d) = [s EXCEPT !.ends = @ \ {d}]
      BY <1>3 DEF DropEnd
    <2> QED BY <1>3, <2>1 DEF StreamState
  <1> QED BY <1>2, <1>3

LEMMA NotPairingShape == NotPairing \in PairingState /\ NotPairing.phase = "idle" /\ NotPairing.transcript = 0
  BY DEF NotPairing, PairingState, PairingPhases, Waiting, MaybeIdentity

(***************************************************************************)
(* Steps in which a side begins, ends or loses something.                  *)
(***************************************************************************)
LEMMA StartPairingInv ==
  ASSUME PairingInv, NEW d \in Devices, StartPairing(d)
  PROVE  PairingInv' /\ Grown
  <1> USE DEF Initiators
  <1> DEFINE known == [NotPairing EXCEPT !.phase = Loaded(d), !.own = identityFile[d]]
             new == [NotPairing EXCEPT !.phase = "creating", !.own = Generated(d, "pair")]
             next == IF identityFile[d] # NoIdentity THEN known ELSE new
  <1>1. /\ pairing' = [pairing EXCEPT ![d] = next] /\ pairing[d].phase = "idle"
        /\ UNCHANGED <<identityFile, stream, trusted, handshakes, approvals>>
    BY DEF StartPairing
  <1>2. /\ next.phase \in {"accepting", "connecting", "creating"} /\ next.transcript = 0
        /\ next.phase = "creating" => next.own = Generated(d, "pair")
        /\ next.phase # "creating" => next.own = identityFile[d] /\ identityFile[d] # NoIdentity
        /\ d # Listener => next.phase # "accepting"
        /\ d = Listener => next.phase # "connecting"
    BY DEF NotPairing, Loaded
  <1>3. next \in PairingState
    <2>1. Generated(d, "pair") \in Identities
      BY DEF Generated, Identities, Kinds
    <2> QED BY <2>1 DEF NotPairing, Loaded, PairingState, PairingPhases, Waiting, MaybeIdentity,
                        PairingInv, PairingShape
  <1> HIDE DEF next
  <1>4. pairing'[d] = next /\ \A e \in Devices \ {d} : pairing'[e] = pairing[e]
    BY <1>1 DEF PairingInv, PairingShape
  <1>5. Grown
    BY <1>1, UnchangedGrows DEF PairingInv
  <1>6. PairingShape'
    BY <1>1, <1>2, <1>3 DEF PairingInv, PairingShape
  <1>7. \A e \in Devices : OwnIdentity(e)'
    <2> SUFFICES ASSUME NEW e \in Devices PROVE OwnIdentity(e)'
      OBVIOUS
    <2>1. CASE e # d
      BY <1>1, <1>4, <2>1 DEF PairingInv, OwnIdentity, Has
    <2>2. CASE e = d
      BY <1>1, <1>2, <1>4, <2>2 DEF PairingInv, OwnIdentity, Has
    <2> QED BY <2>1, <2>2
  <1>8. Trust'
    BY <1>1, <1>5, TrustStays DEF PairingInv
  <1>9. \A i \in Initiators : Faded(i) /\ InitiatorRests(i)
    BY <1>1, <1>2, <1>4 DEF PairingInv, Queued, Faded, InitiatorRests, Closed, Bound
  <1>10. ListenerRests
    BY <1>2, <1>4, PairingAssumption DEF ListenerRests
  <1> QED BY <1>5, <1>6, <1>7, <1>8, <1>9, <1>10, RestingStep

LEMMA LinkForPairingInv ==
  ASSUME PairingInv, NEW d \in Devices, LinkForPairing(d)
  PROVE  PairingInv' /\ Grown
  <1> USE DEF Initiators
  <1> DEFINE file == IF identityFile[d] = NoIdentity THEN Generated(d, "pair") ELSE identityFile[d]
             next == [pairing[d] EXCEPT !.phase = Loaded(d), !.own = file]
  <1>1. /\ pairing[d].phase = "creating" /\ pairing[d].own = Generated(d, "pair")
        /\ pairing[d] \in PairingState
    BY DEF LinkForPairing, PairingInv, PairingShape, OwnIdentity
  <1>2. Linked(identityFile[d], pairing[d].own) = file
    BY <1>1 DEF Linked
  <1>3. /\ identityFile' = [identityFile EXCEPT ![d] = file]
        /\ pairing' = [pairing EXCEPT ![d] = next]
        /\ UNCHANGED <<stream, trusted, handshakes, approvals>>
    <2>1. identityFile' = [identityFile EXCEPT ![d] = Linked(identityFile[d], pairing[d].own)]
      BY DEF LinkForPairing
    <2>2. pairing' = [pairing EXCEPT ![d] =
            [pairing[d] EXCEPT !.phase = Loaded(d),
                               !.own = Linked(identityFile[d], pairing[d].own)]]
      BY DEF LinkForPairing
    <2>3. UNCHANGED <<stream, trusted, handshakes, approvals>>
      BY DEF LinkForPairing
    <2> QED BY <1>2, <2>1, <2>2, <2>3
  <1>4. file \in OwnOf(d) /\ file \in Identities
    <2>1. Generated(d, "pair") \in OwnOf(d)
      BY DEF OwnOf, Kinds
    <2> QED BY <2>1, IdentityFacts DEF PairingInv, OwnIdentity
  <1>5. /\ next.phase \in {"accepting", "connecting"} /\ next.own = file
        /\ next.transcript = pairing[d].transcript
        /\ d # Listener => next.phase = "connecting"
        /\ d = Listener => next.phase = "accepting"
        /\ next \in PairingState
    BY <1>1, <1>4 DEF Loaded, PairingState, PairingPhases, Waiting, MaybeIdentity
  <1> HIDE DEF file, next
  <1>6. /\ pairing'[d] = next /\ \A e \in Devices \ {d} : pairing'[e] = pairing[e]
        /\ identityFile'[d] = file /\ \A e \in Devices \ {d} : identityFile'[e] = identityFile[e]
    BY <1>3 DEF PairingInv, PairingShape
  <1>7. Grown
    BY <1>3, <1>4, <1>6 DEF Grown, PairingInv, PairingShape, file
  <1>8. PairingShape'
    BY <1>3, <1>4, <1>5 DEF PairingInv, PairingShape, MaybeIdentity
  <1>9. \A e \in Devices : OwnIdentity(e)'
    <2> SUFFICES ASSUME NEW e \in Devices PROVE OwnIdentity(e)'
      OBVIOUS
    <2>1. CASE e # d
      BY <1>6, <2>1 DEF PairingInv, OwnIdentity, Has
    <2>2. CASE e = d
      BY <1>4, <1>5, <1>6, <2>2 DEF PairingInv, OwnIdentity, Has
    <2> QED BY <2>1, <2>2
  <1>10. Trust'
    BY <1>3, <1>7, TrustStays DEF PairingInv
  <1>11. \A i \in Initiators : Faded(i) /\ InitiatorRests(i)
    BY <1>1, <1>3, <1>5, <1>6 DEF PairingInv, Queued, Faded, InitiatorRests, Closed, Bound
  <1>12. ListenerRests
    BY <1>5, <1>6, PairingAssumption DEF ListenerRests
  <1> QED BY <1>7, <1>8, <1>9, <1>10, <1>11, <1>12, RestingStep

\* ConnectionRefused, StreamEnds, PairingTimesOut, PairingExits, and the end of a
\* rejected pairing of an initiator.
LEMMA PairingFailsInv ==
  ASSUME PairingInv, NEW d \in Devices, PairingFails(d),
         UNCHANGED <<identityFile, trusted, handshakes, approvals>>
  PROVE  PairingInv' /\ Grown
  <1> USE DEF Initiators
  <1>1. pairing' = [pairing EXCEPT ![d] = NotPairing] /\ stream' = Dropped(d)
    BY DEF PairingFails, PairingOver
  <1>2. pairing'[d] = NotPairing /\ \A e \in Devices \ {d} : pairing'[e] = pairing[e]
    BY <1>1 DEF PairingInv, PairingShape
  <1>3. Grown
    BY UnchangedGrows DEF PairingInv
  <1>4. stream' \in [Initiators -> StreamState] /\ \A i \in Initiators : Faded(i)
    BY <1>1, <1>2, DroppedFades, PairingAssumption DEF PairingInv
  <1>5. PairingShape'
    <2>1. \A e \in Devices : pairing'[e].transcript <= handshakes'
      BY <1>2, NotPairingShape DEF PairingInv, PairingShape
    <2>2. pairing' \in [Devices -> PairingState]
      BY <1>1, NotPairingShape DEF PairingInv, PairingShape
    <2> QED BY <1>4, <2>1, <2>2 DEF PairingInv, PairingShape
  <1>6. \A e \in Devices : OwnIdentity(e)'
    BY <1>2, <1>3, OwnOfIdle, OwnStays, NotPairingShape DEF PairingInv
  <1>7. Trust'
    BY <1>3, TrustStays DEF PairingInv
  <1>8. ListenerRests /\ \A i \in Initiators : InitiatorRests(i)
    BY <1>2, NotPairingShape, PairingAssumption DEF ListenerRests, InitiatorRests
  <1> QED BY <1>3, <1>4, <1>5, <1>6, <1>7, <1>8, RestingStep

LEMMA TimesOutConfirmingInv ==
  ASSUME PairingInv, NEW d \in Devices, TimesOutConfirming(d)
  PROVE  PairingInv' /\ Grown
  <1> USE DEF Initiators
  <1> DEFINE next == [pairing[d] EXCEPT !.phase = "draining"]
  <1>1. /\ pairing[d].phase = "confirming" /\ pairing[d] \in PairingState
        /\ pairing' = [pairing EXCEPT ![d] = next] /\ stream' = Dropped(d)
        /\ UNCHANGED <<identityFile, trusted, handshakes, approvals>>
    BY DEF TimesOutConfirming, PairingInv, PairingShape
  <1>2. /\ next \in PairingState /\ next.phase = "draining" /\ next.own = pairing[d].own
        /\ next.transcript = pairing[d].transcript
    BY <1>1 DEF PairingState, PairingPhases
  <1> HIDE DEF next
  <1>3. pairing'[d] = next /\ \A e \in Devices \ {d} : pairing'[e] = pairing[e]
    BY <1>1 DEF PairingInv, PairingShape
  <1>4. Grown
    BY <1>1, UnchangedGrows DEF PairingInv
  <1>5. stream' \in [Initiators -> StreamState] /\ \A i \in Initiators : Faded(i)
    BY <1>1, <1>3, DroppedFades, PairingAssumption DEF PairingInv
  <1>6. PairingShape'
    BY <1>1, <1>2, <1>5 DEF PairingInv, PairingShape
  <1>7. \A e \in Devices : OwnIdentity(e)'
    BY <1>1, <1>2, <1>3, <1>4, OwnStays DEF PairingInv
  <1>8. Trust'
    BY <1>1, <1>4, TrustStays DEF PairingInv
  <1>9. ListenerRests /\ \A i \in Initiators : InitiatorRests(i)
    BY <1>2, <1>3, PairingAssumption DEF ListenerRests, InitiatorRests
  <1> QED BY <1>4, <1>5, <1>6, <1>7, <1>8, <1>9, RestingStep

\* The user answers when nobody waits for it any more.
LEMMA LateDecisionInv ==
  ASSUME PairingInv, NEW d \in Devices, LateDecision(d)
  PROVE  PairingInv' /\ Grown
  <1> USE DEF Initiators
  <1>1. /\ pairing[d].phase = "draining" /\ pairing' = [pairing EXCEPT ![d] = NotPairing]
        /\ UNCHANGED <<identityFile, stream, trusted, handshakes, approvals>>
    BY DEF LateDecision, PairingOver
  <1>2. pairing'[d] = NotPairing /\ \A e \in Devices \ {d} : pairing'[e] = pairing[e]
    BY <1>1 DEF PairingInv, PairingShape
  <1>3. Grown
    BY <1>1, UnchangedGrows DEF PairingInv
  <1>4. PairingShape'
    BY <1>1, <1>2, NotPairingShape DEF PairingInv, PairingShape
  <1>5. \A e \in Devices : OwnIdentity(e)'
    BY <1>2, <1>3, OwnOfIdle, OwnStays, NotPairingShape DEF PairingInv
  <1>6. Trust'
    BY <1>1, <1>3, TrustStays DEF PairingInv
  <1>7. ListenerRests /\ \A i \in Initiators : InitiatorRests(i)
    BY <1>2, NotPairingShape, PairingAssumption DEF ListenerRests, InitiatorRests
  <1>8. \A i \in Initiators : Faded(i)
    BY <1>1, <1>2 DEF PairingInv, Queued, Faded, Closed, Bound
  <1> QED BY <1>3, <1>4, <1>5, <1>6, <1>7, <1>8, RestingStep

LEMMA LoseStreamInv ==
  ASSUME PairingInv, NEW i \in Initiators, LoseStream(i)
  PROVE  PairingInv' /\ Grown
  <1> USE DEF Initiators
  <1>1. /\ stream' = [stream EXCEPT ![i] = Closed]
        /\ UNCHANGED <<identityFile, pairing, trusted, handshakes, approvals>>
    BY DEF LoseStream
  <1>2. stream'[i] = Closed /\ \A j \in Initiators \ {i} : stream'[j] = stream[j]
    BY <1>1 DEF PairingInv, PairingShape
  <1>3. Grown
    BY <1>1, UnchangedGrows DEF PairingInv
  <1>4. Closed \in StreamState
    BY DEF Closed, StreamState
  <1>5. PairingShape'
    BY <1>1, <1>4 DEF PairingInv, PairingShape
  <1>6. \A e \in Devices : OwnIdentity(e)'
    BY <1>1, <1>3, OwnStays DEF PairingInv
  <1>7. Trust'
    BY <1>1, <1>3, TrustStays DEF PairingInv
  <1>8. \A j \in Initiators : Faded(j)
    BY <1>1, <1>2 DEF PairingInv, Queued, Faded, Closed
  <1>9. ListenerRests /\ \A j \in Initiators : InitiatorRests(j)
    BY <1>1 DEF ListenerRests, InitiatorRests
  <1> QED BY <1>3, <1>5, <1>6, <1>7, <1>8, <1>9, RestingStep

(***************************************************************************)
(* The steps of an initiator.                                              *)
(***************************************************************************)
LEMMA InitiatorActs ==
  ASSUME PairingInv, Grown, PairingShape', UNCHANGED trusted, NEW i \in Initiators,
         \A d \in Devices \ {i} : pairing'[d] = pairing[d],
         \A j \in Initiators \ {i} : stream'[j] = stream[j],
         OwnIdentity(i)', Queued(i)', InitiatorKnows(i)', ListenerKnows'
  PROVE  PairingInv'
  <1> USE DEF Initiators
  <1>1. \A d \in Devices : OwnIdentity(d)'
    BY OwnStays DEF PairingInv
  <1>2. Trust'
    BY TrustStays DEF PairingInv
  <1>3. pairing'[Listener] = pairing[Listener]
    BY PairingAssumption
  <1>4. \A j \in Initiators \ {i} : Queued(j)' /\ InitiatorKnows(j)'
    <2> SUFFICES ASSUME NEW j \in Initiators \ {i} PROVE Queued(j)' /\ InitiatorKnows(j)'
      OBVIOUS
    <2>1. Queued(j) /\ InitiatorKnows(j) /\ PairingShape
      BY DEF PairingInv
    <2>2. Faded(j)
      BY <1>3, <2>1 DEF Faded, Queued, Closed
    <2>3. InitiatorRests(j) /\ TranscriptRests(j)
      BY <1>3 DEF InitiatorRests, TranscriptRests, Answering
    <2> QED BY <2>1, <2>2, <2>3, InitiatorStays
  <1> QED BY <1>1, <1>2, <1>4 DEF PairingInv

LEMMA ConnectInv ==
  ASSUME PairingInv, NEW i \in Initiators, Connect(i)
  PROVE  PairingInv' /\ Grown
  <1> USE DEF Initiators
  <1> DEFINE next == [pairing[i] EXCEPT !.phase = "greeting", !.with = Listener]
             made == [ends |-> {i, Listener},
                      toListener |-> <<[kind |-> "initial", identity |-> pairing[i].own]>>,
                      toInitiator |-> << >>]
  <1>1. /\ pairing[i].phase = "connecting" /\ pairing[Listener].phase \in Bound
        /\ stream' = [stream EXCEPT ![i] = made]
        /\ pairing' = [pairing EXCEPT ![i] = next]
        /\ UNCHANGED <<identityFile, trusted, handshakes, approvals>>
    BY DEF Connect
  <1>2. pairing[i] \in PairingState /\ Has(i, pairing[i].own)
    BY <1>1 DEF PairingInv, PairingShape, OwnIdentity
  <1>3. /\ next \in PairingState /\ next.phase = "greeting" /\ next.own = pairing[i].own
        /\ next.transcript = pairing[i].transcript
    BY <1>2, PairingAssumption DEF PairingState, PairingPhases, Waiting
  <1>4. /\ made.ends = {i, Listener} /\ made.toListener = <<Initial(i)>>
        /\ made.toInitiator = << >> /\ made \in StreamState
    <2>1. made.ends = {i, Listener} /\ made.toListener = <<Initial(i)>> /\ made.toInitiator = << >>
      BY <1>2 DEF Has, Initial
    <2>2. Initial(i) \in Packet
      BY <1>2, IdentityFacts DEF Has, Initial, Packet, MaybeIdentity
    <2>3. <<Initial(i)>> \in Seq(Packet) /\ << >> \in Seq(Packet)
      BY <2>2
    <2> QED BY <2>1, <2>3, PairingAssumption DEF StreamState
  <1> HIDE DEF next, made
  <1>5. /\ pairing'[i] = next /\ \A d \in Devices \ {i} : pairing'[d] = pairing[d]
        /\ stream'[i] = made /\ \A j \in Initiators \ {i} : stream'[j] = stream[j]
    BY <1>1 DEF PairingInv, PairingShape
  <1>6. Grown
    BY <1>1, UnchangedGrows DEF PairingInv
  <1>7. PairingShape'
    BY <1>1, <1>3, <1>4, <1>5 DEF PairingInv, PairingShape
  <1>8. OwnIdentity(i)'
    BY <1>1, <1>3, <1>5, <1>6, OwnStays DEF PairingInv
  <1>9. Has(i, identityFile[i])' /\ Initial(i)' = Initial(i)
    BY <1>1, <1>2 DEF Has, Initial
  <1>10. Queued(i)'
    BY <1>1, <1>3, <1>4, <1>5, <1>9, PairingAssumption DEF Queued
  <1>11. InitiatorKnows(i)'
    BY <1>3, <1>4, <1>5, <1>9 DEF InitiatorKnows, Greeting
  <1>12. ListenerKnows'
    <2>1. pairing'[Listener] = pairing[Listener]
      BY <1>5, PairingAssumption
    <2>2. CASE pairing[Listener].with = i
      <3>1. Decision(i, pairing[Listener].transcript)'
        <4>1. stream'[i].toListener = <<Initial(i)>>
          BY <1>4, <1>5
        <4> QED BY <1>9, <2>1, <2>2, <4>1, PacketsDiffer DEF Decision, Answers
      <3> QED BY <1>1, <1>6, <2>1, <2>2, <3>1, HasStays DEF ListenerKnows, PairingInv
    <2>3. CASE pairing[Listener].with # i
      BY <1>5, <1>6, <2>1, <2>3, ListenerStays DEF PairingInv, ListenerRests
    <2> QED BY <2>2, <2>3
  <1> QED BY <1>1, <1>5, <1>6, <1>7, <1>8, <1>10, <1>11, <1>12, InitiatorActs

LEMMA ReadReplyInv ==
  ASSUME PairingInv, NEW i \in Initiators, ReadReply(i)
  PROVE  PairingInv' /\ Grown
  <1> USE DEF Initiators
  <1>1. /\ pairing[i].phase = "greeting" /\ stream[i].toInitiator # << >>
        /\ pairing[i] \in PairingState /\ stream[i] \in StreamState
        /\ UNCHANGED <<identityFile, trusted, handshakes, approvals>>
    BY DEF ReadReply, PairingInv, PairingShape
  <1>2. PICK m \in 0..handshakes :
          /\ stream[i].toListener = << >>
          /\ stream[i].toInitiator = <<Reply(m)>> /\ SameTranscript(i, m)
          /\ Has(Listener, identityFile[Listener])
    BY <1>1 DEF PairingInv, InitiatorKnows, Greeting
  <1>3. /\ Head(stream[i].toInitiator).identity = identityFile[Listener]
        /\ Head(stream[i].toInitiator).transcript = m
        /\ Tail(stream[i].toInitiator) = << >>
    BY <1>2 DEF Reply
  <1> DEFINE next == [pairing[i] EXCEPT !.phase = "confirming", !.peer = identityFile[Listener],
                                        !.transcript = m]
             read == [stream[i] EXCEPT !.toInitiator = << >>]
  <1>4. pairing' = [pairing EXCEPT ![i] = next] /\ stream' = [stream EXCEPT ![i] = read]
    <2>1. pairing' = [pairing EXCEPT ![i] =
            [@ EXCEPT !.phase = "confirming", !.peer = Head(stream[i].toInitiator).identity,
                      !.transcript = Head(stream[i].toInitiator).transcript]]
      BY DEF ReadReply
    <2>2. pairing' = [pairing EXCEPT ![i] = next]
      BY <1>3, <2>1, Zenon
    <2>3. stream' = [stream EXCEPT ![i].toInitiator = Tail(@)]
      BY DEF ReadReply
    <2>4. stream' = [stream EXCEPT ![i].toInitiator = << >>]
      BY <1>3, <2>3, Zenon
    <2>5. stream' = [stream EXCEPT ![i] = read]
      BY <2>4
    <2> QED BY <2>2, <2>5
  <1>5. m \in Nat /\ m <= handshakes
    BY DEF PairingInv, PairingShape
  <1>6. /\ next \in PairingState /\ next.phase = "confirming" /\ next.own = pairing[i].own
        /\ next.transcript = m /\ next.peer = identityFile[Listener]
    BY <1>1, <1>2, <1>5, IdentityFacts, PairingAssumption
       DEF PairingState, PairingPhases, Has, MaybeIdentity
  <1>7. /\ read \in StreamState /\ read.toListener = << >> /\ read.toInitiator = << >>
        /\ read.ends = stream[i].ends
    BY <1>1, <1>2 DEF StreamState
  <1> HIDE DEF next, read
  <1>8. /\ pairing'[i] = next /\ \A d \in Devices \ {i} : pairing'[d] = pairing[d]
        /\ stream'[i] = read /\ \A j \in Initiators \ {i} : stream'[j] = stream[j]
    BY <1>4 DEF PairingInv, PairingShape
  <1>9. pairing'[Listener] = pairing[Listener]
    BY <1>8, PairingAssumption
  <1>10. Grown
    BY <1>1, UnchangedGrows DEF PairingInv
  <1>11. PairingShape'
    BY <1>1, <1>4, <1>5, <1>6, <1>7, <1>8 DEF PairingInv, PairingShape
  <1>12. OwnIdentity(i)'
    BY <1>1, <1>6, <1>8, <1>10, OwnStays DEF PairingInv
  <1>13. Queued(i)'
    BY <1>2, <1>7, <1>8, <1>9, PacketFacts DEF Queued, PairingInv
  <1>14. InitiatorKnows(i)'
    <2>1. SameTranscript(i, m)'
      BY <1>2, <1>9 DEF SameTranscript, Answering
    <2>2. Has(Listener, pairing[i].peer)'
      BY <1>1, <1>2, <1>6, <1>8 DEF Has
    <2> QED BY <1>6, <1>7, <1>8, <2>1, <2>2 DEF InitiatorKnows, Confirming
  <1>15. ListenerKnows'
    <2>1. \A j \in Initiators : stream'[j].toListener = stream[j].toListener
      BY <1>2, <1>7, <1>8
    <2> QED BY <1>9, <1>10, <2>1, ListenerStays DEF PairingInv, ListenerRests
  <1> QED BY <1>1, <1>8, <1>10, <1>11, <1>12, <1>13, <1>14, <1>15, InitiatorActs

LEMMA InitiatorApprovesInv ==
  ASSUME PairingInv, NEW i \in Initiators, InitiatorApproves(i)
  PROVE  PairingInv' /\ Grown
  <1> USE DEF Initiators
  <1> DEFINE n == pairing[i].transcript
             next == [pairing[i] EXCEPT !.phase = "awaiting", !.approved = TRUE]
             sent == [stream[i] EXCEPT !.toListener = <<Answers("accepted")>>]
  <1>1. /\ pairing[i].phase = "confirming"
        /\ pairing[i] \in PairingState /\ stream[i] \in StreamState
        /\ stream[i].toListener = << >> /\ stream[i].toInitiator = << >>
        /\ SameTranscript(i, n) /\ Has(Listener, pairing[i].peer)
        /\ approvals' = approvals \cup {<<i, n>>}
        /\ UNCHANGED <<identityFile, trusted, handshakes>>
    BY DEF InitiatorApproves, PairingInv, PairingShape, InitiatorKnows, Confirming
  <1>2. Append(stream[i].toListener, Answers("accepted")) = <<Answers("accepted")>>
    BY <1>1
  <1>3. pairing' = [pairing EXCEPT ![i] = next] /\ stream' = [stream EXCEPT ![i] = sent]
    <2>1. stream' = [stream EXCEPT ![i].toListener = Append(@, Answers("accepted"))]
      BY DEF InitiatorApproves
    <2>2. stream' = [stream EXCEPT ![i].toListener = <<Answers("accepted")>>]
      BY <1>2, <2>1, Zenon
    <2>3. stream' = [stream EXCEPT ![i] = sent]
      BY <2>2
    <2>4. pairing' = [pairing EXCEPT ![i] = next]
      BY DEF InitiatorApproves
    <2> QED BY <2>3, <2>4
  <1>4. /\ next \in PairingState /\ next.phase = "awaiting" /\ next.own = pairing[i].own
        /\ next.transcript = n /\ next.peer = pairing[i].peer
    BY <1>1 DEF PairingState, PairingPhases, Waiting
  <1>5. /\ sent \in StreamState /\ sent.toListener = <<Answers("accepted")>>
        /\ sent.toInitiator = << >> /\ sent.ends = stream[i].ends
    <2>1. <<Answers("accepted")>> \in Seq(Packet)
      BY PacketKinds
    <2> QED BY <1>1, <2>1 DEF StreamState
  <1>6. n \in 0..handshakes
    BY <1>1 DEF PairingInv, PairingShape, PairingState
  <1> HIDE DEF next, sent, n
  <1>7. /\ pairing'[i] = next /\ \A d \in Devices \ {i} : pairing'[d] = pairing[d]
        /\ stream'[i] = sent /\ \A j \in Initiators \ {i} : stream'[j] = stream[j]
    BY <1>3 DEF PairingInv, PairingShape
  <1>8. pairing'[Listener] = pairing[Listener]
    BY <1>7, PairingAssumption
  <1>9. Grown
    BY <1>1, <1>6 DEF Grown, PairingInv, PairingShape
  <1>10. PairingShape'
    <2>1. pairing' \in [Devices -> PairingState] /\ stream' \in [Initiators -> StreamState]
      BY <1>3, <1>4, <1>5 DEF PairingInv, PairingShape
    <2>2. \A d \in Devices : pairing'[d].transcript <= handshakes
      BY <1>4, <1>6, <1>7 DEF PairingInv, PairingShape
    <2> QED BY <1>1, <1>6, <2>1, <2>2 DEF PairingInv, PairingShape
  <1>11. OwnIdentity(i)'
    BY <1>1, <1>4, <1>7, <1>9, OwnStays DEF PairingInv
  <1>12. Queued(i)'
    BY <1>1, <1>5, <1>7, <1>8 DEF Queued, PairingInv
  <1>13. InitiatorKnows(i)'
    <2>1. SameTranscript(i, pairing[i].transcript)'
      BY <1>1, <1>4, <1>7, <1>8 DEF SameTranscript, Answering, n
    <2>2. Has(Listener, pairing[i].peer)'
      BY <1>1, <1>4, <1>7 DEF Has
    <2>3. Awaiting(i)'
      <3>1. stream'[i].toListener = <<Answers("accepted")>> /\ stream'[i].toInitiator = << >>
        BY <1>5, <1>7
      <3>2. << >> # <<Answers("accepted")>>
        OBVIOUS
      <3> QED BY <2>1, <3>1, <3>2, Zenon DEF Awaiting
    <2> QED BY <1>1, <1>4, <1>7, <2>2, <2>3 DEF InitiatorKnows
  <1>14. ListenerKnows'
    <2>1. CASE Answering(i)
      <3>1. pairing[Listener].transcript = n
        BY <1>1, <2>1 DEF SameTranscript, n
      <3>2. Decision(i, pairing[Listener].transcript)'
        BY <1>1, <1>5, <1>7, <1>8, <3>1 DEF Decision, n
      <3> QED BY <1>8, <1>9, <2>1, <3>1, <3>2, HasStays
              DEF ListenerKnows, PairingInv, Answering, Grown
    <2>2. CASE ~ Answering(i)
      <3>1. CASE pairing[Listener].phase \in {"confirming", "deciding"}
        BY <1>7, <1>8, <1>9, <2>2, <3>1, ListenerStays DEF PairingInv, ListenerRests, Answering
      <3>2. CASE pairing[Listener].phase \notin {"confirming", "deciding"}
        BY <1>8, <1>9, <3>2, HasStays DEF ListenerKnows, PairingInv, Grown
      <3> QED BY <3>1, <3>2
    <2> QED BY <2>1, <2>2
  <1> QED BY <1>1, <1>7, <1>9, <1>10, <1>11, <1>12, <1>13, <1>14, InitiatorActs

LEMMA InitiatorRejectsInv ==
  ASSUME PairingInv, NEW i \in Initiators, InitiatorRejects(i)
  PROVE  PairingInv' /\ Grown
  <1> USE DEF Initiators
  <1> DEFINE sent == [stream[i] EXCEPT !.toListener = <<Answers("rejected")>>]
             left == DropEnd(sent, i)
  <1>1. /\ pairing[i].phase = "confirming"
        /\ pairing[i] \in PairingState /\ stream[i] \in StreamState
        /\ stream[i].toListener = << >> /\ stream[i].toInitiator = << >>
        /\ pairing' = [pairing EXCEPT ![i] = NotPairing]
        /\ UNCHANGED <<identityFile, trusted, handshakes, approvals>>
    BY DEF InitiatorRejects, PairingOver, PairingInv, PairingShape, InitiatorKnows, Confirming
  <1>2. Append(stream[i].toListener, Answers("rejected")) = <<Answers("rejected")>>
    BY <1>1
  <1>3. stream' = [stream EXCEPT ![i] = left]
    <2>1. stream' = [stream EXCEPT ![i] =
            DropEnd([stream[i] EXCEPT !.toListener =
                        Append(stream[i].toListener, Answers("rejected"))], i)]
      BY DEF InitiatorRejects
    <2>2. sent = [stream[i] EXCEPT !.toListener =
                        Append(stream[i].toListener, Answers("rejected"))]
      BY <1>2
    <2> HIDE DEF sent
    <2> QED BY <2>1, <2>2, Zenon
  <1>4. /\ sent \in StreamState /\ sent.toListener = <<Answers("rejected")>>
        /\ sent.toInitiator = << >> /\ sent.ends = stream[i].ends
    <2>1. <<Answers("rejected")>> \in Seq(Packet)
      BY PacketKinds
    <2> QED BY <1>1, <2>1 DEF StreamState
  <1> HIDE DEF sent
  <1>5. /\ left \in StreamState /\ left.ends \subseteq stream[i].ends
        /\ left.toListener \in {<< >>, <<Answers("rejected")>>}
    <2>1. i \in Devices
      OBVIOUS
    <2>2. Closed.toListener = << >>
      BY DEF Closed
    <2> QED BY <1>4, <2>1, <2>2, DropEndFacts
  <1> HIDE DEF left
  <1>6. /\ pairing'[i] = NotPairing /\ \A d \in Devices \ {i} : pairing'[d] = pairing[d]
        /\ stream'[i] = left /\ \A j \in Initiators \ {i} : stream'[j] = stream[j]
    BY <1>1, <1>3 DEF PairingInv, PairingShape
  <1>7. pairing'[Listener] = pairing[Listener]
    BY <1>6, PairingAssumption
  <1>8. Grown
    BY <1>1, UnchangedGrows DEF PairingInv
  <1>9. PairingShape'
    <2>1. pairing' \in [Devices -> PairingState] /\ stream' \in [Initiators -> StreamState]
      BY <1>1, <1>3, <1>5, NotPairingShape DEF PairingInv, PairingShape
    <2>2. \A d \in Devices : pairing'[d].transcript <= handshakes
      BY <1>6, NotPairingShape DEF PairingInv, PairingShape
    <2> QED BY <1>1, <2>1, <2>2 DEF PairingInv, PairingShape
  <1>10. OwnIdentity(i)'
    BY <1>6, <1>8, OwnOfIdle, NotPairingShape DEF PairingInv
  <1>11. Queued(i)'
    BY <1>1, <1>5, <1>6, <1>7 DEF Queued, PairingInv
  <1>12. InitiatorKnows(i)'
    BY <1>6, NotPairingShape DEF InitiatorKnows
  <1>13. ListenerKnows'
    <2>1. CASE Answering(i)
      <3>1. stream'[i].toListener \in {<< >>, <<Answers("rejected")>>}
        BY <1>5, <1>6
      <3>2. << >> # <<Answers("accepted")>>
        OBVIOUS
      <3>3. Decision(i, pairing[Listener].transcript)'
        BY <3>1, <3>2, PacketsDiffer, Zenon DEF Decision
      <3> QED BY <1>7, <1>8, <2>1, <3>3, HasStays
              DEF ListenerKnows, PairingInv, Answering, Grown
    <2>2. CASE ~ Answering(i)
      <3>1. CASE pairing[Listener].phase \in {"confirming", "deciding"}
        BY <1>6, <1>7, <1>8, <2>2, <3>1, ListenerStays DEF PairingInv, ListenerRests, Answering
      <3>2. CASE pairing[Listener].phase \notin {"confirming", "deciding"}
        BY <1>7, <1>8, <3>2, HasStays DEF ListenerKnows, PairingInv, Grown
      <3> QED BY <3>1, <3>2
    <2> QED BY <2>1, <2>2
  <1> QED BY <1>1, <1>6, <1>8, <1>9, <1>10, <1>11, <1>12, <1>13, InitiatorActs

LEMMA ReadAnswerInv ==
  ASSUME PairingInv, NEW i \in Initiators, ReadAnswer(i)
  PROVE  PairingInv' /\ Grown
  <1> USE DEF Initiators
  <1>1. CASE Head(stream[i].toInitiator).kind # "accepted"
    BY <1>1, PairingFailsInv DEF ReadAnswer
  <1>2. CASE Head(stream[i].toInitiator).kind = "accepted"
    <2> DEFINE next == [pairing[i] EXCEPT !.phase = "paired"]
    <2>1. /\ pairing[i].phase = "awaiting" /\ stream[i].toInitiator # << >>
          /\ pairing[i] \in PairingState
          /\ pairing' = [pairing EXCEPT ![i] = next] /\ stream' = Dropped(i)
          /\ UNCHANGED <<identityFile, trusted, handshakes, approvals>>
      BY <1>2 DEF ReadAnswer, PairingInv, PairingShape
    <2>2. /\ Awaiting(i) /\ Has(Listener, pairing[i].peer)
          /\ <<i, pairing[i].transcript>> \in approvals
      BY <2>1 DEF PairingInv, InitiatorKnows
    <2>3. <<Listener, pairing[i].transcript>> \in approvals
      BY <1>2, <2>1, <2>2, PacketsDiffer DEF Awaiting
    <2>4. /\ next \in PairingState /\ next.phase = "paired" /\ next.own = pairing[i].own
          /\ next.transcript = pairing[i].transcript /\ next.peer = pairing[i].peer
      BY <2>1 DEF PairingState, PairingPhases
    <2> HIDE DEF next
    <2>5. pairing'[i] = next /\ \A d \in Devices \ {i} : pairing'[d] = pairing[d]
      BY <2>1 DEF PairingInv, PairingShape
    <2>6. pairing'[Listener] = pairing[Listener]
      BY <2>5, PairingAssumption
    <2>7. stream' \in [Initiators -> StreamState] /\ \A j \in Initiators : Faded(j)
      BY <2>1, <2>6, DroppedFades DEF PairingInv
    <2>8. \A j \in Initiators \ {i} : stream'[j] = stream[j]
      BY <2>1, PairingAssumption DEF Dropped
    <2>9. Grown
      BY <2>1, UnchangedGrows DEF PairingInv
    <2>10. PairingShape'
      <3>1. pairing' \in [Devices -> PairingState]
        BY <2>1, <2>4 DEF PairingInv, PairingShape
      <3>2. \A d \in Devices : pairing'[d].transcript <= handshakes
        BY <2>4, <2>5 DEF PairingInv, PairingShape
      <3> QED BY <2>1, <2>7, <3>1, <3>2 DEF PairingInv, PairingShape
    <2>11. OwnIdentity(i)'
      BY <2>1, <2>4, <2>5, <2>9, OwnStays DEF PairingInv
    <2>12. Queued(i)'
      BY <2>1, <2>4, <2>5, <2>6, <2>7 DEF Queued, Faded, PairingInv
    <2>13. InitiatorKnows(i)'
      BY <2>1, <2>2, <2>3, <2>4, <2>5 DEF InitiatorKnows, Has
    <2>14. ListenerKnows'
      BY <2>6, <2>7, <2>9, ListenerStays DEF PairingInv, ListenerRests, Faded, Closed
    <2> QED BY <2>1, <2>5, <2>8, <2>9, <2>10, <2>11, <2>12, <2>13, <2>14, InitiatorActs
  <1> QED BY <1>1, <1>2

LEMMA StorePeerInv ==
  ASSUME PairingInv, NEW d \in Devices, StorePeer(d)
  PROVE  PairingInv' /\ Grown
  <1> USE DEF Initiators
  <1> DEFINE peer == pairing[d].peer
             n == pairing[d].transcript
             e == IF d = Listener THEN pairing[Listener].with ELSE Listener
  <1> PICK row : row = Row(peer, n)
    OBVIOUS
  <1>1. /\ pairing[d].phase = "paired" /\ pairing[d] \in PairingState
        /\ pairing' = [pairing EXCEPT ![d] = NotPairing]
        /\ trusted' = [trusted EXCEPT ![d] = Upsert(@, row)]
        /\ UNCHANGED <<identityFile, stream, handshakes, approvals>>
    BY DEF StorePeer, PairingOver, PairingInv, PairingShape
  <1>2. /\ e \in Devices /\ (d = Listener <=> e # Listener) /\ Has(e, peer)
        /\ ApprovedTogether(d, e, n) /\ n \in 0..handshakes
    <2>1. n \in 0..handshakes
      BY <1>1 DEF PairingInv, PairingShape, PairingState
    <2>2. CASE d = Listener
      BY <1>1, <2>1, <2>2 DEF PairingInv, ListenerKnows, ApprovedTogether
    <2>3. CASE d # Listener
      BY <1>1, <2>1, <2>3, PairingAssumption DEF PairingInv, InitiatorKnows, ApprovedTogether
    <2> QED BY <2>2, <2>3
  <1>3. pairing'[d] = NotPairing /\ \A f \in Devices \ {d} : pairing'[f] = pairing[f]
    BY <1>1 DEF PairingInv, PairingShape
  <1>4. Grown
    BY <1>1, UnchangedGrows DEF PairingInv
  <1>5. row \in Rows /\ row.peer = peer /\ row.by = n /\ peer[1] = e
    <2>1. peer \in Identities /\ peer[1] = e
      BY <1>2, IdentityFacts DEF Has
    <2>2. n \in 0..MaxHandshakes
      BY <1>2, PairingAssumption DEF PairingInv, PairingShape
    <2> HIDE DEF n, peer, e
    <2> QED BY <2>1, <2>2 DEF Row, Rows
  <1>6. trusted'[d] = {r \in trusted[d] : r.peer # peer} \cup {row}
    BY <1>1, <1>5 DEF Upsert, PairingInv, PairingShape
  <1>7. \A f \in Devices \ {d} : trusted'[f] = trusted[f]
    BY <1>1 DEF PairingInv, PairingShape
  <1>8. PairingShape'
    <2>1. pairing' \in [Devices -> PairingState]
      BY <1>1, NotPairingShape DEF PairingInv, PairingShape
    <2>2. \A f \in Devices : pairing'[f].transcript <= handshakes
      BY <1>3, NotPairingShape DEF PairingInv, PairingShape
    <2>3. trusted'[d] \subseteq Rows
      BY <1>5, <1>6 DEF PairingInv, PairingShape
    <2>4. trusted' \in [Devices -> SUBSET Rows]
      BY <1>1, <1>6, <2>3 DEF PairingInv, PairingShape
    <2> QED BY <1>1, <2>1, <2>2, <2>4 DEF PairingInv, PairingShape
  <1>9. \A f \in Devices : OwnIdentity(f)'
    BY <1>3, <1>4, OwnOfIdle, OwnStays, NotPairingShape DEF PairingInv
  <1>10. Trust'
    <2>1. \A f \in Devices : \A r : StoredRow(f, r) => StoredRow(f, r)'
      BY <1>4, HasStays DEF StoredRow, ApprovedTogether, Grown
    <2>2. StoredRow(d, row)'
      <3>1. StoredRow(d, row)
        BY <1>2, <1>5 DEF StoredRow
      <3> QED BY <2>1, <3>1
    <2>3. \A f \in Devices : \A r \in trusted'[f] : StoredRow(f, r)'
      BY <1>6, <1>7, <2>1, <2>2 DEF PairingInv, Trust
    <2>4. \A f \in Devices : \A r, other \in trusted'[f] : r.peer = other.peer => r = other
      BY <1>5, <1>6, <1>7 DEF PairingInv, Trust
    <2> QED BY <2>3, <2>4 DEF Trust
  <1>11. ListenerRests /\ \A i \in Initiators : InitiatorRests(i)
    BY <1>3, NotPairingShape, PairingAssumption DEF ListenerRests, InitiatorRests
  <1>12. \A i \in Initiators : Faded(i)
    BY <1>1, <1>3 DEF PairingInv, Queued, Faded, Closed, Bound
  <1> QED BY <1>4, <1>8, <1>9, <1>10, <1>11, <1>12, RestingStep

(***************************************************************************)
(* The steps of the listener.                                              *)
(***************************************************************************)
LEMMA ListenerActs ==
  ASSUME PairingInv, Grown, PairingShape', UNCHANGED trusted,
         \A d \in Initiators : pairing'[d] = pairing[d],
         \A i \in Initiators : Queued(i)' /\ InitiatorKnows(i)',
         OwnIdentity(Listener)', ListenerKnows'
  PROVE  PairingInv'
  <1> USE DEF Initiators
  <1>1. \A d \in Devices : OwnIdentity(d)'
    BY OwnStays DEF PairingInv
  <1>2. Trust'
    BY TrustStays DEF PairingInv
  <1> QED BY <1>1, <1>2 DEF PairingInv

LEMMA RespondInv ==
  ASSUME PairingInv, NEW i \in Initiators, Respond(i)
  PROVE  PairingInv' /\ Grown
  <1> USE DEF Initiators
  <1> PICK n : n = handshakes + 1
    OBVIOUS
  <1> DEFINE next == [pairing[Listener] EXCEPT !.phase = "confirming", !.with = i,
                          !.peer = Head(stream[i].toListener).identity, !.transcript = n]
             answered == [stream[i] EXCEPT
                            !.toListener = Tail(stream[i].toListener),
                            !.toInitiator = <<[kind |-> "reply", identity |-> pairing[Listener].own,
                                               transcript |-> n]>>]
  <1>1. /\ pairing[Listener].phase = "accepting" /\ Listener \in stream[i].ends
        /\ pairing[Listener] \in PairingState /\ stream[i] \in StreamState
        /\ handshakes' = n /\ n \in 1..MaxHandshakes /\ handshakes < n
        /\ handshakes \in Nat
        /\ UNCHANGED <<identityFile, trusted, approvals>>
    BY PairingAssumption DEF Respond, PairingInv, PairingShape
  <1>2. pairing' = [pairing EXCEPT ![Listener] = next] /\ stream' = [stream EXCEPT ![i] = answered]
    <2>1. pairing' = [pairing EXCEPT ![Listener] =
            [pairing[Listener] EXCEPT !.phase = "confirming", !.with = i,
                      !.peer = Head(stream[i].toListener).identity, !.transcript = handshakes']]
      BY DEF Respond
    <2>2. stream' = [stream EXCEPT ![i] = [stream[i] EXCEPT
            !.toListener = Tail(stream[i].toListener),
            !.toInitiator = <<[kind |-> "reply", identity |-> pairing[Listener].own,
                               transcript |-> handshakes']>>]]
      BY DEF Respond
    <2> QED BY <1>1, <2>1, <2>2, Zenon
  <1>3. /\ stream[i].toListener = <<Initial(i)>> /\ Has(i, identityFile[i])
        /\ pairing[i].phase \notin {"confirming", "awaiting"}
        /\ Has(Listener, pairing[Listener].own)
    BY <1>1, PairingAssumption DEF PairingInv, Queued, OwnIdentity
  <1>4. Head(stream[i].toListener).identity = identityFile[i] /\ Tail(stream[i].toListener) = << >>
    BY <1>3 DEF Initial
  <1>5. /\ next.phase = "confirming" /\ next.with = i /\ next.peer = identityFile[i]
        /\ next.transcript = n /\ next.own = pairing[Listener].own /\ next \in PairingState
    <2>1. identityFile[i] \in MaybeIdentity
      BY <1>3, IdentityFacts DEF Has, MaybeIdentity
    <2>2. n \in Nat /\ i \in Devices
      BY <1>1
    <2> QED BY <1>1, <1>4, <2>1, <2>2 DEF PairingState, PairingPhases
  <1>6. /\ answered.toListener = << >> /\ answered.toInitiator = <<Reply(n)>>
        /\ answered.ends = stream[i].ends /\ answered \in StreamState
    <2>1. [kind |-> "reply", identity |-> pairing[Listener].own, transcript |-> n] = Reply(n)
      BY <1>3 DEF Has, Reply
    <2>2. <<Reply(n)>> \in Seq(Packet) /\ << >> \in Seq(Packet)
      <3>1. Reply(n) \in Packet
        BY <1>1, <1>3, PacketKinds DEF Has
      <3> QED BY <3>1
    <2> QED BY <1>1, <1>4, <2>1, <2>2 DEF StreamState
  <1> HIDE DEF next, answered
  <1>7. /\ pairing'[Listener] = next /\ \A d \in Initiators : pairing'[d] = pairing[d]
        /\ stream'[i] = answered /\ \A j \in Initiators \ {i} : stream'[j] = stream[j]
    BY <1>2, PairingAssumption DEF PairingInv, PairingShape
  <1>8. Grown
    BY <1>1 DEF Grown, PairingInv, PairingShape
  <1>9. PairingShape'
    <2>1. pairing' \in [Devices -> PairingState] /\ stream' \in [Initiators -> StreamState]
      BY <1>2, <1>5, <1>6 DEF PairingInv, PairingShape
    <2>2. \A d \in Devices : pairing'[d].transcript <= handshakes'
      <3> SUFFICES ASSUME NEW d \in Devices PROVE pairing'[d].transcript <= handshakes'
        OBVIOUS
      <3>1. CASE d = Listener
        BY <1>1, <1>5, <1>7, <3>1
      <3>2. CASE d # Listener
        <4>1. pairing[d].transcript \in Nat /\ pairing[d].transcript <= handshakes
          BY DEF PairingInv, PairingShape, PairingState
        <4> QED BY <1>1, <1>7, <3>2, <4>1
      <3> QED BY <3>1, <3>2
    <2>3. approvals \subseteq Devices \X (0..n)
      BY <1>1 DEF PairingInv, PairingShape
    <2>4. n \in 0..MaxHandshakes
      BY <1>1
    <2> QED BY <1>1, <2>1, <2>2, <2>3, <2>4 DEF PairingInv, PairingShape
  <1>10. OwnIdentity(Listener)'
    BY <1>1, <1>5, <1>7, <1>8, OwnStays, PairingAssumption DEF PairingInv
  <1>11. \A j \in Initiators : Queued(j)' /\ InitiatorKnows(j)'
    <2> SUFFICES ASSUME NEW j \in Initiators PROVE Queued(j)' /\ InitiatorKnows(j)'
      OBVIOUS
    <2>1. CASE j # i
      <3>1. Faded(j)
        BY <1>5, <1>7, <2>1 DEF PairingInv, Queued, Faded, Closed, Bound
      <3>2. InitiatorRests(j) /\ TranscriptRests(j)
        BY <1>5, <1>7, <2>1 DEF InitiatorRests, TranscriptRests, Answering
      <3> QED BY <1>8, <3>1, <3>2, InitiatorStays DEF PairingInv
    <2>2. CASE j = i
      <3>1. Queued(i)'
        BY <1>5, <1>7 DEF Queued, Bound
      <3>2. SameTranscript(i, n)'
        BY <1>5, <1>7 DEF SameTranscript
      <3>3. Has(Listener, identityFile[Listener])' /\ Reply(n)' = Reply(n)
        BY <1>1, <1>3 DEF Has, Reply
      <3>4. Greeting(i)'
        BY <1>1, <1>6, <1>7, <3>2, <3>3 DEF Greeting
      <3>5. pairing[i].phase = "paired" =>
                /\ <<i, pairing[i].transcript>> \in approvals
                /\ <<Listener, pairing[i].transcript>> \in approvals
                /\ Has(Listener, pairing[i].peer)
        BY DEF PairingInv, InitiatorKnows
      <3> QED BY <1>1, <1>3, <1>7, <2>2, <3>1, <3>4, <3>5 DEF InitiatorKnows, Has
    <2> QED BY <2>1, <2>2
  <1>12. ListenerKnows'
    <2>1. Decision(i, n)'
      <3>1. stream'[i].toListener = << >> /\ << >> # <<Answers("accepted")>>
        BY <1>6, <1>7
      <3> QED BY <3>1, Zenon DEF Decision
    <2>2. Has(i, identityFile[i])'
      BY <1>1, <1>3 DEF Has
    <2> QED BY <1>1, <1>5, <1>7, <2>1, <2>2 DEF ListenerKnows
  <1> QED BY <1>1, <1>7, <1>8, <1>9, <1>10, <1>11, <1>12, ListenerActs

LEMMA ListenerDecidesInv ==
  ASSUME PairingInv, NEW yes \in BOOLEAN, ListenerDecides(yes)
  PROVE  PairingInv' /\ Grown
  <1> USE DEF Initiators
  <1> PICK n : n = pairing[Listener].transcript
    OBVIOUS
  <1> DEFINE next == [pairing[Listener] EXCEPT !.phase = "deciding", !.approved = yes]
  <1>1. /\ pairing[Listener].phase = "confirming" /\ pairing[Listener] \in PairingState
        /\ pairing' = [pairing EXCEPT ![Listener] = next]
        /\ approvals' = IF yes THEN approvals \cup {<<Listener, n>>} ELSE approvals
        /\ UNCHANGED <<identityFile, stream, trusted, handshakes>>
    BY PairingAssumption DEF ListenerDecides, PairingInv, PairingShape
  <1>2. /\ next.phase = "deciding" /\ next.approved = yes /\ next.transcript = n
        /\ next.with = pairing[Listener].with /\ next.peer = pairing[Listener].peer
        /\ next.own = pairing[Listener].own /\ next \in PairingState
    BY <1>1 DEF PairingState, PairingPhases, Waiting
  <1> HIDE DEF next
  <1>3. pairing'[Listener] = next /\ \A d \in Initiators : pairing'[d] = pairing[d]
    BY <1>1, PairingAssumption DEF PairingInv, PairingShape
  <1>4. n \in 0..handshakes
    BY <1>1, PairingAssumption DEF PairingInv, PairingShape, PairingState
  <1>5. Grown
    BY <1>1 DEF Grown, PairingInv, PairingShape
  <1>6. PairingShape'
    <2>1. pairing' \in [Devices -> PairingState]
      BY <1>1, <1>2 DEF PairingInv, PairingShape
    <2>2. \A d \in Devices : pairing'[d].transcript <= handshakes
      BY <1>2, <1>3, <1>4 DEF PairingInv, PairingShape
    <2>3. approvals' \subseteq Devices \X (0..handshakes)
      BY <1>1, <1>4, PairingAssumption DEF PairingInv, PairingShape
    <2> QED BY <1>1, <2>1, <2>2, <2>3 DEF PairingInv, PairingShape
  <1>7. OwnIdentity(Listener)'
    BY <1>1, <1>2, <1>3, <1>5, OwnStays, PairingAssumption DEF PairingInv
  <1>8. \A j \in Initiators : Queued(j)' /\ InitiatorKnows(j)'
    <2> SUFFICES ASSUME NEW j \in Initiators PROVE Queued(j)' /\ InitiatorKnows(j)'
      OBVIOUS
    <2>1. Faded(j)
      BY <1>1, <1>2, <1>3 DEF PairingInv, Queued, Faded, Closed, Bound
    <2>2. InitiatorRests(j) /\ TranscriptRests(j)
      BY <1>1, <1>2, <1>3 DEF InitiatorRests, TranscriptRests, Answering
    <2> QED BY <1>5, <2>1, <2>2, InitiatorStays DEF PairingInv
  <1>9. ListenerKnows'
    <2> PICK i : i = pairing[Listener].with
      OBVIOUS
    <2>1. i \in Initiators /\ Has(i, pairing[Listener].peer) /\ Decision(i, n)
      BY <1>1 DEF PairingInv, ListenerKnows
    <2>2. Has(i, pairing[Listener].peer)'
      BY <1>1, <1>2, <1>3, <2>1 DEF Has
    <2>3. Decision(i, n)'
      BY <1>1, <2>1 DEF Decision, Initial, Answers
    <2>4. yes => <<Listener, n>> \in approvals'
      BY <1>1
    <2> QED BY <1>2, <1>3, <2>1, <2>2, <2>3, <2>4 DEF ListenerKnows
  <1> QED BY <1>1, <1>3, <1>5, <1>6, <1>7, <1>8, <1>9, ListenerActs

\* The listener has read the decision of i, says its own, and leaves.
LEMMA ListenerSays ==
  ASSUME PairingInv, NEW i \in Initiators, NEW kind \in {"accepted", "rejected"},
         Answering(i), stream[i].toListener = <<Answers("accepted")>>,
         stream'[i] = DropEnd([stream[i] EXCEPT !.toInitiator = Append(@, Answers(kind))], Listener),
         pairing'[i] = pairing[i], pairing'[Listener].phase \in {"idle", "paired"},
         UNCHANGED <<identityFile, handshakes, approvals>>,
         kind = "accepted" => <<Listener, pairing[Listener].transcript>> \in approvals
  PROVE  stream'[i] \in StreamState /\ Queued(i)' /\ InitiatorKnows(i)'
  <1> USE DEF Initiators
  <1> PICK said : said = [stream[i] EXCEPT !.toInitiator = Append(@, Answers(kind))]
    OBVIOUS
  <1>1. stream[i] \in StreamState /\ Answers(kind) \in Packet
    BY PacketKinds DEF PairingInv, PairingShape
  <1> PICK after : after = Append(stream[i].toInitiator, Answers(kind))
    OBVIOUS
  <1>2. /\ said \in StreamState /\ said.toListener = <<Answers("accepted")>>
        /\ said.toInitiator = after
    <2>1. stream[i].toInitiator \in Seq(Packet)
      BY <1>1 DEF StreamState
    <2>2. after \in Seq(Packet)
      BY <1>1, <2>1
    <2>3. said = [stream[i] EXCEPT !.toInitiator = after]
      BY Zenon
    <2> QED BY <1>1, <2>2, <2>3 DEF StreamState
  <1>3. /\ stream'[i] \in StreamState /\ Listener \notin stream'[i].ends
        /\ \/ stream'[i] = Closed
           \/ /\ stream'[i].toListener = <<Answers("accepted")>>
              /\ stream'[i].toInitiator = after
    <2>1. stream'[i] = DropEnd(said, Listener)
      BY Zenon
    <2>2. Listener \in Devices
      BY PairingAssumption
    <2>3. /\ DropEnd(said, Listener) \in StreamState /\ Listener \notin DropEnd(said, Listener).ends
          /\ \/ DropEnd(said, Listener) = Closed
             \/ /\ DropEnd(said, Listener).toListener = said.toListener
                /\ DropEnd(said, Listener).toInitiator = said.toInitiator
      BY <1>2, <2>2, DropEndFacts, Zenon
    <2> QED BY <1>2, <2>1, <2>3, Zenon
  <1>4. Queued(i)'
    BY <1>3 DEF Queued
  <1>5. pairing[i].phase \notin {"greeting", "confirming"}
    BY PacketsDiffer, PacketFacts, PacketKinds DEF PairingInv, InitiatorKnows, Greeting, Confirming
  <1>6. ~ Answering(i)'
    BY DEF Answering
  <1>7. pairing[i].phase = "awaiting" => Awaiting(i)'
    <2> SUFFICES ASSUME pairing[i].phase = "awaiting" PROVE Awaiting(i)'
      OBVIOUS
    <2>1. /\ stream[i].toInitiator = << >> /\ SameTranscript(i, pairing[i].transcript)
      BY DEF PairingInv, InitiatorKnows, Awaiting
    <2>2. after = <<Answers(kind)>>
      BY <2>1
    <2>3. /\ stream'[i].toListener \in {<< >>, <<Answers("accepted")>>}
          /\ stream'[i].toInitiator \in {<< >>, <<Answers(kind)>>}
      <3>1. Closed.toListener = << >> /\ Closed.toInitiator = << >>
        BY DEF Closed
      <3> QED BY <1>3, <2>2, <3>1, Zenon
    <2>4. kind = "accepted" => <<Listener, pairing[i].transcript>> \in approvals
      BY <2>1 DEF SameTranscript
    <2>5. << >> # <<Answers("accepted")>>
      OBVIOUS
    <2>6. stream'[i].toInitiator = <<Answers("accepted")>> =>
             <<Listener, pairing[i].transcript>> \in approvals
      BY <2>3, <2>4, <2>5, PacketsDiffer
    <2>7. stream'[i].toInitiator \in {<< >>, <<Answers("accepted")>>, <<Answers("rejected")>>}
      BY <2>3
    <2>8. SameTranscript(i, pairing[i].transcript)'
      BY <1>6 DEF SameTranscript
    <2> QED BY <1>6, <2>3, <2>6, <2>7, <2>8 DEF Awaiting
  <1>8. InitiatorKnows(i)'
    BY <1>5, <1>7 DEF PairingInv, InitiatorKnows, Has
  <1> QED BY <1>3, <1>4, <1>8

\* What a step of the listener that leaves all streams does to the others.
LEMMA ListenerLeaves ==
  ASSUME PairingInv, NEW i \in Initiators, stream'[i] = DropEnd(stream[i], Listener),
         pairing'[i] = pairing[i], pairing'[Listener].phase \in {"idle", "paired"},
         UNCHANGED <<identityFile, handshakes, approvals>>
  PROVE  stream'[i] \in StreamState /\ Queued(i)' /\ InitiatorKnows(i)'
  <1>1. stream[i] \in StreamState /\ Listener \in Devices
    BY PairingAssumption DEF PairingInv, PairingShape
  <1>2. stream'[i] \in StreamState /\ Faded(i)
    BY <1>1, DropEndFacts DEF Faded
  <1>3. Grown
    BY UnchangedGrows DEF PairingInv
  <1>4. InitiatorRests(i) /\ TranscriptRests(i)
    BY DEF InitiatorRests, TranscriptRests, Answering
  <1> QED BY <1>2, <1>3, <1>4, InitiatorStays DEF PairingInv

LEMMA ReadDecisionInv ==
  ASSUME PairingInv, ReadDecision
  PROVE  PairingInv' /\ Grown
  <1> USE DEF Initiators
  <1> PICK i, n : i = pairing[Listener].with /\ n = pairing[Listener].transcript
    OBVIOUS
  <1>1. /\ pairing[Listener].phase = "deciding" /\ pairing[Listener] \in PairingState
        /\ stream[i].toListener # << >>
        /\ UNCHANGED <<identityFile, trusted, handshakes, approvals>>
    BY PairingAssumption DEF ReadDecision, PairingInv, PairingShape
  <1>2. /\ i \in Initiators /\ Has(i, pairing[Listener].peer) /\ Decision(i, n) /\ Answering(i)
        /\ pairing[Listener].approved => <<Listener, n>> \in approvals
    BY <1>1 DEF PairingInv, ListenerKnows, Answering
  <1> PICK decision : decision = Head(stream[i].toListener).kind
    OBVIOUS
  <1>3. decision = "accepted" =>
           stream[i].toListener = <<Answers("accepted")>> /\ <<i, n>> \in approvals
    <2>1. /\ Head(<<Answers("rejected")>>).kind # "accepted"
          /\ Head(<<Initial(i)>>).kind # "accepted"
      BY DEF Answers, Initial
    <2> QED BY <1>1, <1>2, <2>1 DEF Decision
  <1>4. Grown
    BY <1>1, UnchangedGrows DEF PairingInv
  <1>5. CASE BothAccept(decision)
    <2> DEFINE next == [pairing[Listener] EXCEPT !.phase = "paired"]
    <2>1. /\ pairing' = [pairing EXCEPT ![Listener] = next]
          /\ stream' = [j \in Initiators |->
                IF j = i THEN DropEnd([stream[i] EXCEPT !.toInitiator =
                                        Append(@, Answers("accepted"))], Listener)
                ELSE DropEnd(stream[j], Listener)]
      BY <1>5 DEF ReadDecision
    <2>2. /\ next.phase = "paired" /\ next.own = pairing[Listener].own /\ next.transcript = n
          /\ next.with = i /\ next.peer = pairing[Listener].peer /\ next \in PairingState
      BY <1>1 DEF PairingState, PairingPhases
    <2> HIDE DEF next
    <2>3. pairing'[Listener] = next /\ \A d \in Initiators : pairing'[d] = pairing[d]
      BY <2>1, PairingAssumption DEF PairingInv, PairingShape
    <2>4. /\ stream'[i] = DropEnd([stream[i] EXCEPT !.toInitiator =
                                        Append(@, Answers("accepted"))], Listener)
          /\ \A j \in Initiators \ {i} : stream'[j] = DropEnd(stream[j], Listener)
      BY <1>2, <2>1
    <2>5. <<i, n>> \in approvals /\ <<Listener, n>> \in approvals
      BY <1>2, <1>3, <1>5 DEF BothAccept
    <2>6. stream'[i] \in StreamState /\ Queued(i)' /\ InitiatorKnows(i)'
      BY <1>1, <1>2, <1>3, <1>5, <2>2, <2>3, <2>4, <2>5, ListenerSays DEF BothAccept
    <2>7. \A j \in Initiators \ {i} : stream'[j] \in StreamState /\ Queued(j)' /\ InitiatorKnows(j)'
      BY <1>1, <2>2, <2>3, <2>4, ListenerLeaves
    <2>8. PairingShape'
      <3>1. pairing' \in [Devices -> PairingState]
        BY <2>1, <2>2 DEF PairingInv, PairingShape
      <3>2. \A d \in Devices : pairing'[d].transcript <= handshakes
        BY <2>2, <2>3 DEF PairingInv, PairingShape
      <3>3. stream' \in [Initiators -> StreamState]
        BY <2>1, <2>6, <2>7
      <3> QED BY <1>1, <3>1, <3>2, <3>3 DEF PairingInv, PairingShape
    <2>9. OwnIdentity(Listener)'
      BY <1>1, <1>4, <2>2, <2>3, OwnStays, PairingAssumption DEF PairingInv
    <2>10. ListenerKnows'
      BY <1>1, <1>2, <2>2, <2>3, <2>5 DEF ListenerKnows, Has
    <2> QED BY <1>1, <1>4, <2>3, <2>6, <2>7, <2>8, <2>9, <2>10, ListenerActs
  <1>6. CASE ~ BothAccept(decision)
    <2>1. /\ pairing' = [pairing EXCEPT ![Listener] = NotPairing]
          /\ stream' = [j \in Initiators |->
                IF j = i /\ decision = "accepted"
                THEN DropEnd([stream[i] EXCEPT !.toInitiator =
                                Append(@, Answers("rejected"))], Listener)
                ELSE DropEnd(stream[j], Listener)]
      BY <1>6 DEF ReadDecision, PairingOver
    <2>2. pairing'[Listener] = NotPairing /\ \A d \in Initiators : pairing'[d] = pairing[d]
      BY <2>1, PairingAssumption DEF PairingInv, PairingShape
    <2>3. \A j \in Initiators : stream'[j] \in StreamState /\ Queued(j)' /\ InitiatorKnows(j)'
      <3> SUFFICES ASSUME NEW j \in Initiators
                   PROVE  stream'[j] \in StreamState /\ Queued(j)' /\ InitiatorKnows(j)'
        OBVIOUS
      <3>1. CASE j = i /\ decision = "accepted"
        <4>1. stream'[i] = DropEnd([stream[i] EXCEPT !.toInitiator =
                                      Append(@, Answers("rejected"))], Listener)
          BY <1>2, <2>1, <3>1
        <4> QED BY <1>1, <1>2, <1>3, <2>2, <3>1, <4>1, ListenerSays, NotPairingShape
      <3>2. CASE ~ (j = i /\ decision = "accepted")
        <4>1. stream'[j] = DropEnd(stream[j], Listener)
          BY <2>1, <3>2
        <4> QED BY <1>1, <2>2, <4>1, ListenerLeaves, NotPairingShape
      <3> QED BY <3>1, <3>2
    <2>4. PairingShape'
      <3>1. pairing' \in [Devices -> PairingState]
        BY <2>1, NotPairingShape DEF PairingInv, PairingShape
      <3>2. \A d \in Devices : pairing'[d].transcript <= handshakes
        BY <2>2, NotPairingShape DEF PairingInv, PairingShape
      <3>3. stream' \in [Initiators -> StreamState]
        BY <2>1, <2>3
      <3> QED BY <1>1, <3>1, <3>2, <3>3 DEF PairingInv, PairingShape
    <2>5. OwnIdentity(Listener)'
      BY <1>4, <2>2, OwnOfIdle, NotPairingShape, PairingAssumption DEF PairingInv
    <2>6. ListenerKnows'
      BY <2>2, NotPairingShape DEF ListenerKnows
    <2> QED BY <1>1, <1>4, <2>2, <2>3, <2>4, <2>5, <2>6, ListenerActs
  <1> QED BY <1>5, <1>6

(***************************************************************************)
(* Every step of pairing, and none.                                        *)
(***************************************************************************)
LEMMA PairingStepInv ==
  ASSUME PairingInv, PairingNext
  PROVE  PairingInv' /\ Grown
  <1>1. ASSUME NEW d \in Devices, PairingStep(d) PROVE PairingInv' /\ Grown
    BY <1>1, StartPairingInv, LinkForPairingInv, StorePeerInv, PairingFailsInv,
       TimesOutConfirmingInv, LateDecisionInv
       DEF PairingStep, StreamEnds, PairingTimesOut, PairingExits
  <1>2. ASSUME NEW i \in Initiators, InitiatorStep(i) PROVE PairingInv' /\ Grown
    <2>1. i \in Devices
      BY DEF Initiators
    <2> QED BY <1>2, <2>1, ConnectInv, ReadReplyInv, ReadAnswerInv, InitiatorApprovesInv,
               InitiatorRejectsInv, LoseStreamInv, PairingFailsInv
            DEF InitiatorStep, ConnectionRefused
  <1>3. ASSUME ListenerStep PROVE PairingInv' /\ Grown
    BY <1>3, RespondInv, ListenerDecidesInv, ReadDecisionInv DEF ListenerStep
  <1> QED BY <1>1, <1>2, <1>3 DEF PairingNext

LEMMA PairingStays ==
  ASSUME PairingInv, UNCHANGED pairingVars
  PROVE  PairingInv' /\ Grown
  <1> USE DEF Initiators
  <1>1. UNCHANGED <<identityFile, pairing, stream, trusted, handshakes, approvals>>
    BY DEF pairingVars
  <1>2. Grown
    BY <1>1, UnchangedGrows DEF PairingInv
  <1>3. PairingShape'
    BY <1>1 DEF PairingInv, PairingShape
  <1>4. \A d \in Devices : OwnIdentity(d)'
    BY <1>1, <1>2, OwnStays DEF PairingInv
  <1>5. Trust'
    BY <1>1, <1>2, TrustStays DEF PairingInv
  <1>6. ListenerRests /\ \A i \in Initiators : Faded(i) /\ InitiatorRests(i)
    BY <1>1 DEF PairingInv, Queued, Faded, Closed, ListenerRests, InitiatorRests
  <1> QED BY <1>2, <1>3, <1>4, <1>5, <1>6, RestingStep

LEMMA InitialPairing ==
  ASSUME PairingInit
  PROVE  PairingInv
  <1> USE DEF Initiators
  <1>1. \A d \in Devices : Generated(d, "pair") \in OwnOf(d) /\ Generated(d, "pair") \in Identities
    BY DEF OwnOf, Kinds, Generated, Identities
  <1>2. Closed \in StreamState /\ Closed.ends = {}
    BY DEF Closed, StreamState
  <1>3. \A e \in Devices : Row(Generated(e, "pair"), 0) \in Rows
    BY <1>1, PairingAssumption DEF Row, Rows
  <1>4. \A d \in Devices : /\ pairing[d] = NotPairing
                           /\ identityFile[d] = IF Paired(d) THEN Generated(d, "pair") ELSE NoIdentity
    BY DEF PairingInit
  <1>5. \A i \in Initiators : stream[i] = Closed
    BY DEF PairingInit
  <1>6. \A d \in Devices : PairedWith(d) \subseteq Devices
    BY PairingAssumption DEF PairedWith
  <1>7. PairingShape
    <2>1. identityFile \in [Devices -> MaybeIdentity]
      BY <1>1 DEF PairingInit, MaybeIdentity
    <2>2. pairing \in [Devices -> PairingState] /\ stream \in [Initiators -> StreamState]
      BY <1>2, NotPairingShape DEF PairingInit
    <2>3. trusted \in [Devices -> SUBSET Rows]
      BY <1>3, <1>6 DEF PairingInit
    <2>4. handshakes \in 0..MaxHandshakes /\ approvals \subseteq Devices \X (0..handshakes)
      BY PairingAssumption DEF PairingInit
    <2>5. \A d \in Devices : pairing[d].transcript <= handshakes
      BY <1>4, NotPairingShape DEF PairingInit
    <2> QED BY <2>1, <2>2, <2>3, <2>4, <2>5 DEF PairingShape
  <1>8. \A d \in Devices : OwnIdentity(d)
    BY <1>1, <1>4, NotPairingShape DEF OwnIdentity
  <1>9. \A i \in Initiators : Queued(i) /\ InitiatorKnows(i)
    BY <1>2, <1>4, <1>5, NotPairingShape DEF Queued, InitiatorKnows
  <1>10. ListenerKnows
    BY <1>4, NotPairingShape, PairingAssumption DEF ListenerKnows
  <1>11. Trust
    <2> SUFFICES ASSUME NEW d \in Devices
                 PROVE  /\ \A row \in trusted[d] : StoredRow(d, row)
                        /\ \A row, other \in trusted[d] : row.peer = other.peer => row = other
      BY DEF Trust
    <2>1. CASE ~ Paired(d)
      BY <2>1 DEF PairingInit
    <2>2. CASE Paired(d)
      <3>1. \A row \in trusted[d] : \E e \in PairedWith(d) : row = Row(Generated(e, "pair"), 0)
        BY <2>2 DEF PairingInit
      <3>2. ASSUME NEW e \in PairedWith(d), NEW row, row = Row(Generated(e, "pair"), 0)
            PROVE  StoredRow(d, row) /\ row.peer[1] = e
        <4>1. e \in Devices /\ (d = Listener <=> e # Listener) /\ Paired(e)
          BY <2>2, PairingAssumption DEF PairedWith, Paired
        <4>2. row.peer = Generated(e, "pair") /\ row.by = 0 /\ row.peer[1] = e
          BY <3>2, <4>1 DEF Row, Generated
        <4>3. Has(e, row.peer)
          BY <1>1, <1>4, <4>1, <4>2 DEF Has
        <4>4. ApprovedTogether(d, e, 0)
          BY <2>2, <4>1 DEF ApprovedTogether, PairingInit
        <4> QED BY <4>1, <4>2, <4>3, <4>4 DEF StoredRow
      <3> QED BY <3>1, <3>2
    <2> QED BY <2>1, <2>2
  <1> QED BY <1>7, <1>8, <1>9, <1>10, <1>11 DEF PairingInv

(***************************************************************************)
(* The sessions.                                                           *)
(***************************************************************************)
SessionPhaseRests(d) ==
    \/ session'[d].phase = session[d].phase
    \/ session[d].phase \in {"open", "hello", "active"} /\ session'[d].phase \in {"hello", "active"}

\* What a session has loaded and pinned stays true of it.
LEMMA SessionStays ==
  ASSUME PairingInv, Grown, NEW d \in Devices, SessionKnows(d), SessionPhaseRests(d),
         session'[d].own = session[d].own, session'[d].pinned = session[d].pinned
  PROVE  SessionKnows(d)'
  <1>1. (session[d].phase = "creating" => session[d].own = Generated(d, "session"))'
    BY DEF SessionKnows, SessionPhaseRests
  <1>2. (session[d].phase \in {"ready", "open", "hello", "active"} => Has(d, session[d].own))'
    BY HasStays DEF SessionKnows, SessionPhaseRests
  <1>3. PinnedIsApproved(d) => PinnedIsApproved(d)'
    <2> SUFFICES ASSUME NEW e \in Devices, NEW n \in 0..handshakes,
                        d = Listener <=> e # Listener,
                        Has(e, session[d].pinned), ApprovedTogether(d, e, n)
                 PROVE  PinnedIsApproved(d)'
      BY DEF PinnedIsApproved
    <2>1. n \in 0..handshakes'
      BY DEF Grown, PairingInv, PairingShape
    <2>2. Has(e, session[d].pinned)'
      BY HasStays DEF Has
    <2>3. ApprovedTogether(d, e, n)'
      BY DEF ApprovedTogether, Grown
    <2> QED BY <2>1, <2>2, <2>3 DEF PinnedIsApproved
  <1>4. (session[d].phase \in {"open", "hello", "active"} => PinnedIsApproved(d))'
    BY <1>3 DEF SessionKnows, SessionPhaseRests
  <1> QED BY <1>1, <1>2, <1>4 DEF SessionKnows

LEMMA SessionsStay ==
  ASSUME PairingInv, Grown, SessionInv, UNCHANGED <<session, link, received>>,
         changes' \in 0..MaxChanges
  PROVE  SessionInv'
  <1>1. \A d \in Devices : SessionKnows(d)'
    BY SessionStays DEF SessionInv, SessionPhaseRests
  <1>2. Linkage'
    BY DEF SessionInv, Linkage, BothPinned, ServerPinned
  <1> QED BY <1>1, <1>2 DEF SessionInv

\* A step of the session of d that is not connected.
LEMMA UnlinkedActs ==
  ASSUME PairingInv, Grown, SessionInv, NEW d \in Devices, NEW next \in SessionState,
         session' = [session EXCEPT ![d] = next],
         link = None \/ d \notin {link, Listener},
         UNCHANGED <<link, received, changes>>, SessionKnows(d)'
  PROVE  SessionInv'
  <1>1. \A e \in Devices \ {d} : session'[e] = session[e]
    BY DEF SessionInv
  <1>2. \A e \in Devices : SessionKnows(e)'
    BY <1>1, SessionStays DEF SessionInv, SessionPhaseRests
  <1>3. Linkage'
    BY <1>1, PairingAssumption DEF SessionInv, Linkage, BothPinned, ServerPinned, Initiators
  <1>4. session' \in [Devices -> SessionState]
    BY DEF SessionInv
  <1> QED BY <1>2, <1>3, <1>4 DEF SessionInv

LEMMA NoSessionFacts ==
  NoSession \in SessionState /\ NoSession.phase = "idle"
  BY DEF NoSession, SessionState, SessionPhases, MaybeIdentity

LEMMA SessionFailsInv ==
  ASSUME PeerInv, NEW d \in Devices, SessionFails(d),
         link = None \/ d \notin {link, Listener},
         UNCHANGED <<pairingVars, link, received, changes>>
  PROVE  PeerInv'
  <1>1. PairingInv' /\ Grown
    BY PairingStays DEF PeerInv
  <1>2. session' = [session EXCEPT ![d] = NoSession] /\ session'[d] = NoSession
    BY DEF SessionFails, PeerInv, SessionInv
  <1>3. SessionKnows(d)'
    BY <1>2, NoSessionFacts DEF SessionKnows
  <1> QED BY <1>1, <1>2, <1>3, NoSessionFacts, UnlinkedActs DEF PeerInv

LEMMA StartSessionInv ==
  ASSUME PeerInv, NEW d \in Devices, StartSession(d)
  PROVE  PeerInv'
  <1> DEFINE next == [NoSession EXCEPT !.phase = "creating", !.own = Generated(d, "session")]
  <1>1. /\ session[d].phase = "idle" /\ session' = [session EXCEPT ![d] = next]
        /\ UNCHANGED <<pairingVars, link, received, changes>>
    BY DEF StartSession
  <1>2. PairingInv' /\ Grown
    BY <1>1, PairingStays DEF PeerInv
  <1>3. next.phase = "creating" /\ next.own = Generated(d, "session") /\ next \in SessionState
    <2>1. Generated(d, "session") \in Identities
      BY DEF Generated, Identities, Kinds
    <2> QED BY <2>1 DEF NoSession, SessionState, SessionPhases, MaybeIdentity
  <1> HIDE DEF next
  <1>4. session'[d] = next
    BY <1>1 DEF PeerInv, SessionInv
  <1>5. SessionKnows(d)'
    BY <1>3, <1>4 DEF SessionKnows
  <1>6. link = None \/ d \notin {link, Listener}
    BY <1>1 DEF PeerInv, SessionInv, Linkage
  <1> QED BY <1>1, <1>2, <1>3, <1>5, <1>6, UnlinkedActs DEF PeerInv

LEMMA LinkForSessionInv ==
  ASSUME PeerInv, NEW d \in Devices, LinkForSession(d)
  PROVE  PeerInv'
  <1> USE DEF Initiators
  <1> DEFINE file == IF identityFile[d] = NoIdentity THEN Generated(d, "session") ELSE identityFile[d]
             next == [session[d] EXCEPT !.phase = "ready", !.own = file]
  <1>1. /\ session[d].phase = "creating" /\ session[d].own = Generated(d, "session")
        /\ session[d] \in SessionState
    BY DEF LinkForSession, PeerInv, SessionInv, SessionKnows
  <1>2. Linked(identityFile[d], session[d].own) = file
    BY <1>1 DEF Linked
  <1>3. /\ identityFile' = [identityFile EXCEPT ![d] = file]
        /\ session' = [session EXCEPT ![d] = next]
        /\ UNCHANGED <<pairing, stream, trusted, handshakes, approvals, link, received, changes>>
    <2>1. identityFile' = [identityFile EXCEPT ![d] = Linked(identityFile[d], session[d].own)]
      BY DEF LinkForSession
    <2>2. session' = [session EXCEPT ![d] =
            [session[d] EXCEPT !.phase = "ready", !.own = Linked(identityFile[d], session[d].own)]]
      BY DEF LinkForSession
    <2>3. UNCHANGED <<pairing, stream, trusted, handshakes, approvals, link, received, changes>>
      BY DEF LinkForSession
    <2> QED BY <1>2, <2>1, <2>2, <2>3
  <1>4. file \in OwnOf(d) /\ file \in Identities
    <2>1. Generated(d, "session") \in OwnOf(d)
      BY DEF OwnOf, Kinds
    <2> QED BY <2>1, IdentityFacts DEF PeerInv, PairingInv, OwnIdentity
  <1>5. next.phase = "ready" /\ next.own = file /\ next \in SessionState
    BY <1>1, <1>4 DEF SessionState, SessionPhases, MaybeIdentity
  <1> HIDE DEF next
  <1>6. /\ identityFile'[d] = file /\ \A e \in Devices \ {d} : identityFile'[e] = identityFile[e]
        /\ session'[d] = next
    BY <1>3 DEF PeerInv, PairingInv, PairingShape, SessionInv
  <1>7. Grown
    BY <1>3, <1>4, <1>6 DEF Grown, PeerInv, PairingInv, PairingShape
  <1> HIDE DEF file
  <1>8. PairingInv'
    <2>1. PairingShape'
      BY <1>3, <1>4 DEF PeerInv, PairingInv, PairingShape, MaybeIdentity
    <2>2. \A e \in Devices : OwnIdentity(e)'
      BY <1>3, <1>7, OwnStays DEF PeerInv, PairingInv
    <2>3. Trust'
      BY <1>3, <1>7, TrustStays DEF PeerInv, PairingInv
    <2>4. ListenerRests /\ \A i \in Initiators : Faded(i) /\ InitiatorRests(i)
      BY <1>3 DEF PeerInv, PairingInv, Queued, Faded, Closed, ListenerRests, InitiatorRests
    <2> QED BY <1>7, <2>1, <2>2, <2>3, <2>4, RestingStep DEF PeerInv
  <1>9. SessionKnows(d)'
    BY <1>4, <1>5, <1>6 DEF SessionKnows, Has
  <1>10. link = None \/ d \notin {link, Listener}
    BY <1>1 DEF PeerInv, SessionInv, Linkage
  <1> QED BY <1>3, <1>5, <1>7, <1>8, <1>9, <1>10, UnlinkedActs DEF PeerInv

LEMMA OpenEndpointInv ==
  ASSUME PeerInv, NEW d \in Devices, OpenEndpoint(d)
  PROVE  PeerInv'
  <1> DEFINE own == IF session[d].phase = "ready" THEN session[d].own ELSE identityFile[d]
  <1> PICK row \in trusted[d] :
        session' = [session EXCEPT ![d] = [phase |-> "open", pinned |-> row.peer, own |-> own]]
    BY DEF OpenEndpoint
  <1>1. /\ \/ session[d].phase = "ready"
           \/ session[d].phase = "idle" /\ identityFile[d] # NoIdentity
        /\ UNCHANGED <<pairingVars, link, received, changes>>
    BY DEF OpenEndpoint
  <1>2. PairingInv' /\ Grown
    BY <1>1, PairingStays DEF PeerInv
  <1>3. Has(d, own)
    BY <1>1 DEF PeerInv, PairingInv, OwnIdentity, SessionInv, SessionKnows, Has
  <1>4. StoredRow(d, row)
    BY DEF PeerInv, PairingInv, Trust
  <1> PICK next : next = [phase |-> "open", pinned |-> row.peer, own |-> own]
    OBVIOUS
  <1>5. /\ next.phase = "open" /\ next.pinned = row.peer /\ next.own = own /\ next \in SessionState
    <2>1. own \in MaybeIdentity /\ row.peer \in MaybeIdentity
      BY <1>3, <1>4, IdentityFacts DEF StoredRow, Has, MaybeIdentity
    <2> HIDE DEF own
    <2> QED BY <2>1 DEF SessionState, SessionPhases
  <1> HIDE DEF own
  <1>6. session' = [session EXCEPT ![d] = next] /\ session'[d] = next
    BY DEF PeerInv, SessionInv
  <1>7. SessionKnows(d)'
    <2>1. Has(d, session[d].own)'
      BY <1>2, <1>3, <1>5, <1>6, HasStays DEF Has
    <2>2. PinnedIsApproved(d)'
      <3> PICK e \in Devices : e = row.peer[1]
        BY <1>4 DEF StoredRow
      <3>1. Has(e, session[d].pinned)'
        BY <1>2, <1>4, <1>5, <1>6, HasStays DEF StoredRow, Has
      <3>2. ApprovedTogether(d, e, row.by)' /\ (d = Listener <=> e # Listener)
        BY <1>2, <1>4 DEF StoredRow, ApprovedTogether, Grown
      <3>3. row.by \in 0..handshakes'
        BY <1>2, <3>2 DEF ApprovedTogether, PairingInv, PairingShape
      <3> QED BY <3>1, <3>2, <3>3 DEF PinnedIsApproved
    <2> QED BY <1>5, <1>6, <2>1, <2>2 DEF SessionKnows
  <1>8. link = None \/ d \notin {link, Listener}
    BY <1>1 DEF PeerInv, SessionInv, Linkage
  <1> QED BY <1>1, <1>2, <1>5, <1>6, <1>7, <1>8, UnlinkedActs DEF PeerInv

\* Hello, on either side.
LEMMA HelloActs ==
  ASSUME PairingInv, Grown, SessionInv, UNCHANGED <<received, changes>>,
         session' \in [Devices -> SessionState],
         \A d \in Devices : /\ SessionPhaseRests(d)
                            /\ session'[d].own = session[d].own
                            /\ session'[d].pinned = session[d].pinned,
         link' \in Initiators \cup {None}, Linkage'
  PROVE  SessionInv'
  BY SessionStays DEF SessionInv

LEMMA HandshakeInv ==
  ASSUME PeerInv, NEW i \in Initiators, Handshake(i)
  PROVE  PeerInv'
  <1> USE DEF Initiators
  <1>1. /\ session[i].phase = "open" /\ session[Listener].phase = "open"
        /\ i \in Devices /\ Listener \in Devices /\ i # Listener /\ link = None
        /\ session[i] \in SessionState /\ session[Listener] \in SessionState
        /\ UNCHANGED <<pairingVars, received, changes>>
    BY PairingAssumption DEF Handshake, PeerInv, SessionInv, Linkage
  <1>2. PairingInv' /\ Grown
    BY <1>1, PairingStays DEF PeerInv
  <1>3. CASE BothPinned(i)
    <2> DEFINE hello(d) == [session[d] EXCEPT !.phase = "hello"]
    <2>1. /\ link' = i
          /\ session' = [session EXCEPT ![i].phase = "hello", ![Listener].phase = "hello"]
      BY <1>3 DEF Handshake
    <2>2. /\ \A d \in Devices \ {i, Listener} : session'[d] = session[d]
          /\ session'[i] = hello(i) /\ session'[Listener] = hello(Listener)
          /\ session' \in [Devices -> SessionState]
      <3>1. hello(i) \in SessionState /\ hello(Listener) \in SessionState
        BY <1>1 DEF SessionState, SessionPhases
      <3> QED BY <1>1, <2>1, <3>1 DEF PeerInv, SessionInv
    <2>3. \A d \in {i, Listener} : /\ hello(d).phase = "hello" /\ hello(d).own = session[d].own
                                   /\ hello(d).pinned = session[d].pinned
      BY <1>1 DEF SessionState
    <2> HIDE DEF hello
    <2>4. \A d \in Devices : /\ SessionPhaseRests(d)
                             /\ session'[d].own = session[d].own
                             /\ session'[d].pinned = session[d].pinned
      BY <1>1, <2>2, <2>3 DEF SessionPhaseRests
    <2>5. Linkage'
      BY <1>1, <1>3, <2>1, <2>2, <2>3, <2>4 DEF Linkage, BothPinned, ServerPinned
    <2> QED BY <1>1, <1>2, <2>1, <2>2, <2>4, <2>5, HelloActs DEF PeerInv
  <1>4. CASE ~ BothPinned(i)
    <2>1. link' = link /\ session' = [session EXCEPT ![i] = NoSession, ![Listener] = NoSession]
      BY <1>4 DEF Handshake
    <2>2. /\ \A d \in Devices \ {i, Listener} : session'[d] = session[d]
          /\ session'[i] = NoSession /\ session'[Listener] = NoSession
          /\ session' \in [Devices -> SessionState]
      BY <1>1, <2>1, NoSessionFacts DEF PeerInv, SessionInv
    <2>3. \A d \in Devices : SessionKnows(d)'
      <3>1. \A d \in Devices \ {i, Listener} : SessionKnows(d)'
        BY <1>2, <2>2, SessionStays DEF PeerInv, SessionInv, SessionPhaseRests
      <3>2. \A d \in {i, Listener} : SessionKnows(d)'
        BY <2>2, NoSessionFacts DEF SessionKnows
      <3> QED BY <3>1, <3>2
    <2>4. Linkage'
      BY <1>1, <2>1 DEF Linkage
    <2> QED BY <1>1, <1>2, <2>1, <2>2, <2>3, <2>4 DEF PeerInv, SessionInv
  <1> QED BY <1>3, <1>4

LEMMA HelloInv ==
  ASSUME PeerInv, NEW d \in Devices, session[d].phase = "hello",
         link # None, d \in {link, Listener},
         session' = [session EXCEPT ![d].phase = "active"],
         UNCHANGED <<pairingVars, link, received, changes>>
  PROVE  PeerInv'
  <1> USE DEF Initiators
  <1> DEFINE next == [session[d] EXCEPT !.phase = "active"]
  <1>1. session[d] \in SessionState
    BY DEF PeerInv, SessionInv
  <1>2. /\ next.phase = "active" /\ next.own = session[d].own /\ next.pinned = session[d].pinned
        /\ next \in SessionState
    BY <1>1 DEF SessionState, SessionPhases
  <1>3. /\ session'[d] = next /\ \A e \in Devices \ {d} : session'[e] = session[e]
        /\ session' \in [Devices -> SessionState]
    BY <1>2 DEF PeerInv, SessionInv
  <1> HIDE DEF next
  <1>4. PairingInv' /\ Grown
    BY PairingStays DEF PeerInv
  <1>5. \A e \in Devices : /\ SessionPhaseRests(e)
                           /\ session'[e].own = session[e].own
                           /\ session'[e].pinned = session[e].pinned
    BY <1>2, <1>3 DEF SessionPhaseRests
  <1>6. Linkage'
    <2>1. link \in Devices /\ Listener \in Devices
      BY PairingAssumption DEF PeerInv, SessionInv
    <2>2. BothPinned(link)'
      BY <1>5, <2>1 DEF PeerInv, SessionInv, Linkage, BothPinned, ServerPinned
    <2>3. \A e \in {link, Listener} : session'[e].phase \in {"hello", "active"}
      BY <1>2, <1>3, <2>1 DEF PeerInv, SessionInv, Linkage
    <2> QED BY <2>2, <2>3 DEF Linkage
  <1> QED BY <1>3, <1>4, <1>5, <1>6, HelloActs DEF PeerInv, SessionInv

LEMMA TrustedChanges ==
  ASSUME PeerInv, NEW d \in Devices, NEW rows \in SUBSET Rows, Change,
         trusted' = [trusted EXCEPT ![d] = rows],
         \A row \in rows : \E old \in trusted[d] : old.peer = row.peer /\ old.by = row.by,
         \A row, other \in rows : row.peer = other.peer => row = other,
         UNCHANGED <<identityFile, pairing, stream, handshakes, approvals, session, link, received>>
  PROVE  PeerInv'
  <1> USE DEF Initiators
  <1>1. Grown
    BY UnchangedGrows DEF PeerInv, PairingInv
  <1>2. trusted'[d] = rows /\ \A e \in Devices \ {d} : trusted'[e] = trusted[e]
    BY DEF PeerInv, PairingInv, PairingShape
  <1>3. PairingShape'
    BY DEF PeerInv, PairingInv, PairingShape
  <1>4. \A e \in Devices : OwnIdentity(e)'
    BY <1>1, OwnStays DEF PeerInv, PairingInv
  <1>5. Trust'
    <2>1. \A e \in Devices : \A row : StoredRow(e, row) => StoredRow(e, row)'
      BY <1>1, HasStays DEF StoredRow, ApprovedTogether, Grown
    <2>2. \A row \in rows : StoredRow(d, row)
      BY DEF PeerInv, PairingInv, Trust, StoredRow
    <2> QED BY <1>2, <2>1, <2>2 DEF PeerInv, PairingInv, Trust
  <1>6. ListenerRests /\ \A i \in Initiators : Faded(i) /\ InitiatorRests(i)
    BY DEF PeerInv, PairingInv, Queued, Faded, Closed, ListenerRests, InitiatorRests
  <1>7. PairingInv'
    BY <1>1, <1>3, <1>4, <1>5, <1>6, RestingStep DEF PeerInv
  <1>8. changes' \in 0..MaxChanges
    BY SessionAssumption DEF Change, PeerInv, SessionInv
  <1> QED BY <1>1, <1>7, <1>8, SessionsStay DEF PeerInv

LEMMA SetEnabledInv ==
  ASSUME PeerInv, NEW d \in Devices, NEW row \in trusted[d], SetEnabled(d, row)
  PROVE  PeerInv'
  <1> PICK new : new = [row EXCEPT !.enabled = ~ @]
    OBVIOUS
  <1>1. row \in Rows
    BY DEF PeerInv, PairingInv, PairingShape
  <1>2. new \in Rows /\ new.peer = row.peer /\ new.by = row.by
    BY <1>1 DEF Rows
  <1> PICK rows : rows = (trusted[d] \ {row}) \cup {new}
    OBVIOUS
  <1>3. rows \in SUBSET Rows
    BY <1>2 DEF PeerInv, PairingInv, PairingShape
  <1>4. \A r \in rows : \E old \in trusted[d] : old.peer = r.peer /\ old.by = r.by
    BY <1>2
  <1>5. \A r, other \in rows : r.peer = other.peer => r = other
    <2>1. \A r, other \in trusted[d] : r.peer = other.peer => r = other
      BY DEF PeerInv, PairingInv, Trust
    <2>2. \A r \in rows : r # new => (r \in trusted[d] /\ r # row)
      OBVIOUS
    <2>3. \A r \in rows : r.peer = row.peer => r = new
      BY <2>1, <2>2
    <2> SUFFICES ASSUME NEW r \in rows, NEW other \in rows, r.peer = other.peer PROVE r = other
      OBVIOUS
    <2>4. CASE r.peer = row.peer
      BY <2>3, <2>4
    <2>5. CASE r.peer # row.peer
      BY <1>2, <2>1, <2>2, <2>5
    <2> QED BY <2>4, <2>5
  <1>6. /\ Change /\ trusted' = [trusted EXCEPT ![d] = rows]
        /\ UNCHANGED <<identityFile, pairing, stream, handshakes, approvals, session, link, received>>
    BY DEF SetEnabled
  <1> QED BY <1>3, <1>4, <1>5, <1>6, TrustedChanges, ZenonT(30)

LEMMA ForgetInv ==
  ASSUME PeerInv, NEW d \in Devices, NEW row \in trusted[d], Forget(d, row)
  PROVE  PeerInv'
  <1> PICK rows : rows = trusted[d] \ {row}
    OBVIOUS
  <1>1. rows \in SUBSET Rows
    BY DEF PeerInv, PairingInv, PairingShape
  <1>2. \A r, other \in rows : r.peer = other.peer => r = other
    BY DEF PeerInv, PairingInv, Trust
  <1>3. /\ Change /\ trusted' = [trusted EXCEPT ![d] = rows]
        /\ UNCHANGED <<identityFile, pairing, stream, handshakes, approvals, session, link, received>>
    BY DEF Forget
  <1> QED BY <1>1, <1>2, <1>3, TrustedChanges

LEMMA SessionStepInv ==
  ASSUME PeerInv, NEW d \in Devices, SessionStep(d)
  PROVE  PeerInv'
  <1> USE DEF Initiators
  <1>1. ASSUME PeerNotTrusted(d) PROVE PeerInv'
    BY <1>1, SessionFailsInv DEF PeerNotTrusted, PeerInv, SessionInv, Linkage
  <1>2. ASSUME SessionEnds(d) PROVE PeerInv'
    BY <1>2, SessionFailsInv DEF SessionEnds, LinkGone, PeerInv, SessionInv, Linkage
  <1>3. ASSUME d # Listener, HelloOutgoing(d) PROVE PeerInv'
    BY <1>3, HelloInv, PairingAssumption DEF HelloOutgoing, PeerInv, SessionInv
  <1>4. ASSUME d # Listener, SendEvent(d) PROVE PeerInv'
    <2>1. UNCHANGED <<pairingVars, session, link, changes>> /\ received' \in 0..MaxEvents
      BY <1>4, SessionAssumption DEF SendEvent, PeerInv, SessionInv
    <2>2. PairingInv' /\ Grown
      BY <2>1, PairingStays DEF PeerInv
    <2>3. \A e \in Devices : SessionKnows(e)'
      BY <2>1, <2>2, SessionStays DEF PeerInv, SessionInv, SessionPhaseRests
    <2>4. Linkage'
      BY <2>1 DEF PeerInv, SessionInv, Linkage, BothPinned, ServerPinned
    <2> QED BY <2>1, <2>2, <2>3, <2>4 DEF PeerInv, SessionInv
  <1> QED BY <1>1, <1>2, <1>3, <1>4, StartSessionInv, LinkForSessionInv, OpenEndpointInv,
             HandshakeInv DEF SessionStep

(***************************************************************************)
(* The theorems.                                                           *)
(***************************************************************************)
\* What is said of a handshake and of a session above holds in every state that
\* any number of devices, streams, crashes, timeouts and changes of trust reach.
THEOREM PeersInvariant == Spec => []PeerInv
  <1>1. ASSUME Init PROVE PeerInv
    <2>1. PairingInv
      BY <1>1, InitialPairing DEF Init
    <2>2. \A d \in Devices : session[d] = NoSession
      BY <1>1 DEF Init
    <2>3. \A d \in Devices : SessionKnows(d)
      BY <2>2, NoSessionFacts DEF SessionKnows
    <2>4. /\ session \in [Devices -> SessionState] /\ link = None
          /\ received \in 0..MaxEvents /\ changes \in 0..MaxChanges
      BY <1>1, NoSessionFacts, SessionAssumption DEF Init
    <2> QED BY <2>1, <2>3, <2>4 DEF PeerInv, SessionInv, Linkage
  <1>2. ASSUME PeerInv, [Next]_vars PROVE PeerInv'
    <2>1. ASSUME PairingNext, UNCHANGED sessionVars PROVE PeerInv'
      <3>1. changes' \in 0..MaxChanges /\ UNCHANGED <<session, link, received>>
        BY <1>2, <2>1 DEF sessionVars, PeerInv, SessionInv
      <3> QED BY <1>2, <2>1, <3>1, PairingStepInv, SessionsStay DEF PeerInv
    <2>2. ASSUME NEW d \in Devices, SessionStep(d) PROVE PeerInv'
      BY <1>2, <2>2, SessionStepInv
    <2>3. ASSUME NEW d \in Devices, NEW row \in trusted[d], SetEnabled(d, row) \/ Forget(d, row)
          PROVE  PeerInv'
      BY <1>2, <2>3, SetEnabledInv, ForgetInv
    <2>4. CASE HelloIncoming
      BY <1>2, <2>4, HelloInv, PairingAssumption DEF HelloIncoming
    <2>5. CASE Disconnect
      <3>1. /\ link' = None /\ received' = 0 /\ UNCHANGED <<pairingVars, session, changes>>
        BY <2>5 DEF Disconnect
      <3>2. PairingInv' /\ Grown
        BY <1>2, <3>1, PairingStays DEF PeerInv
      <3>3. \A e \in Devices : SessionKnows(e)'
        BY <1>2, <3>1, <3>2, SessionStays DEF PeerInv, SessionInv, SessionPhaseRests
      <3> QED BY <1>2, <3>1, <3>2, <3>3, SessionAssumption DEF PeerInv, SessionInv, Linkage
    <2>6. CASE UNCHANGED vars
      <3>1. UNCHANGED pairingVars /\ UNCHANGED <<session, link, received, changes>>
        BY <2>6 DEF vars
      <3> QED BY <1>2, <3>1, PairingStays, SessionsStay DEF PeerInv, SessionInv
    <2> QED BY <1>2, <2>1, <2>2, <2>3, <2>4, <2>5, <2>6 DEF Next
  <1> QED BY <1>1, <1>2, PTL DEF Spec

\* "Neither side returns peer material unless both callbacks approve the same
\* Noise transcript": nothing is stored that the users of both devices have not
\* approved, on whichever side the connection, the process or the time ran out.
THEOREM NothingStoredUnapproved == Spec => []StoredAfterBothConfirm
  <1>1. PeerInv => StoredAfterBothConfirm
    BY PairingAssumption DEF PeerInv, PairingInv, Trust, StoredRow, StoredAfterBothConfirm
  <1> QED BY <1>1, PeersInvariant, PTL

\* The identity that a peer stored is the one its device goes on using, whichever
\* of its first processes created the file.
THEOREM StoredIdentityStays == Spec => []StoredIdentityIsInUse
  <1>1. PeerInv => StoredIdentityIsInUse
    BY DEF PeerInv, PairingInv, Trust, StoredRow, StoredIdentityIsInUse, SessionInv,
           SessionKnows, Has
  <1> QED BY <1>1, PeersInvariant, PTL

\* A session that is past Hello joins two devices whose users approved each other.
THEOREM SessionsAreApproved == Spec => []SessionWasApproved
  <1>1. ASSUME PeerInv PROVE SessionWasApproved
    <2> SUFFICES ASSUME NEW i \in Initiators, link = i
                 PROVE  /\ session[Listener].pinned = identityFile[i]
                        /\ session[i].pinned = identityFile[Listener]
                        /\ \E n \in 0..handshakes : ApprovedTogether(i, Listener, n)
      BY DEF SessionWasApproved
    <2>1. /\ i \in Devices /\ Listener \in Devices /\ i # None
          /\ session[i].phase \in {"hello", "active"} /\ session[Listener].phase \in {"hello", "active"}
          /\ BothPinned(i)
      BY <1>1, PairingAssumption DEF PeerInv, SessionInv, Linkage, Initiators
    <2>2. /\ Has(i, session[i].own) /\ Has(Listener, session[Listener].own)
          /\ PinnedIsApproved(i)
      BY <1>1, <2>1 DEF PeerInv, SessionInv, SessionKnows
    <2>3. PICK e \in Devices, n \in 0..handshakes :
            Has(e, session[i].pinned) /\ ApprovedTogether(i, e, n)
      BY <2>2 DEF PinnedIsApproved
    <2>4. e = Listener
      BY <2>1, <2>2, <2>3, IdentityFacts DEF BothPinned, ServerPinned, Has
    <2> QED BY <2>1, <2>2, <2>3, <2>4 DEF BothPinned, ServerPinned, Has
  <1> QED BY <1>1, PeersInvariant, PTL

\* Types, one row for a peer, and a link between two sessions.
THEOREM PeersTypeCorrect == Spec => []TypeOK
  <1>1. PeerInv => TypeOK
    BY DEF PeerInv, PairingInv, PairingShape, PairingState, Trust, SessionInv, SessionState,
           MaybeIdentity, TypeOK
  <1> QED BY <1>1, PeersInvariant, PTL
=============================================================================
