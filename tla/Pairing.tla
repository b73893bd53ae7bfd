------------------------------ MODULE Pairing -------------------------------
(***************************************************************************)
(* Pairing of devices: the identity file of network/src/identity.rs, the   *)
(* handshake of network/src/pairing_session.rs and pairing.rs as run_ui_   *)
(* pairing of ui/src/shell.rs and pair_device of the command line run it,  *)
(* and the trusted peers of storage/src/trusted.rs it ends in.             *)
(*                                                                         *)
(* One device listens; the others connect to it, several at a time.  The   *)
(* Noise transcript of a handshake is a number: the code two devices show  *)
(* is the same when their transcript is.  An identity stands for the       *)
(* device id with its keys and certificate, and is named after the process *)
(* that generated it.                                                      *)
(***************************************************************************)
EXTENDS Naturals, Sequences, FiniteSets

CONSTANTS
    Devices,
    Listener,           \* the device that runs pair-listen
    PairedBefore,       \* initiators the listener has been paired with before
    None,
    MaxHandshakes       \* bound on the handshakes the listener answers

ASSUME PairingAssumption ==
    /\ Listener \in Devices
    /\ PairedBefore \subseteq Devices \ {Listener}
    /\ None \notin Devices
    /\ MaxHandshakes \in Nat

Initiators == Devices \ {Listener}
Kinds == {"pair", "session"}
Identities == Devices \X Kinds
Generated(d, kind) == <<d, kind>>

VARIABLES
    identityFile,   \* identityFile[d]: local-identity.cbor
    pairing,        \* pairing[d]: the pairing of device d
    stream,         \* stream[i]: the TCP stream of initiator i
    trusted,        \* trusted[d]: the rows of trusted-devices.sqlite
    handshakes,     \* number of handshakes so far
    approvals       \* <<d, n>>: the user of d has approved the code of handshake n

pairingVars == <<identityFile, pairing, stream, trusted, handshakes, approvals>>

NoIdentity == <<None, "none">>
NotPairing == [phase |-> "idle", own |-> NoIdentity, with |-> None, peer |-> NoIdentity,
               transcript |-> 0, approved |-> FALSE]
Closed == [ends |-> {}, toListener |-> << >>, toInitiator |-> << >>]

\* TrustedDeviceStore::upsert of the peer the handshake has returned.
Row(peer, transcript) == [peer |-> peer, enabled |-> TRUE, by |-> transcript]
Upsert(rows, row) == {r \in rows : r.peer # row.peer} \cup {row}

\* Pairings of the past count as handshake 0.
Paired(d) == d \in PairedBefore \/ (d = Listener /\ PairedBefore # {})
PairedWith(d) == IF d = Listener THEN PairedBefore ELSE {Listener}

PairingInit ==
    /\ identityFile = [d \in Devices |->
            IF Paired(d) THEN Generated(d, "pair") ELSE NoIdentity]
    /\ pairing = [d \in Devices |-> NotPairing]
    /\ stream = [i \in Initiators |-> Closed]
    /\ trusted = [d \in Devices |->
            IF Paired(d) THEN {Row(Generated(e, "pair"), 0) : e \in PairedWith(d)} ELSE {}]
    /\ handshakes = 0
    /\ approvals = {<<d, 0>> : d \in {e \in Devices : Paired(e)}}

-----------------------------------------------------------------------------
(* LocalIdentity::load_or_create, for a process that keeps what it loads.  *)

\* What the file is when the process has linked its temporary file to it.  A
\* faulty one renames, and replaces the file another process has just created.
Replaced(file, own) == own
Linked(file, own) == IF file = NoIdentity THEN own ELSE file

-----------------------------------------------------------------------------
(* The two ends of a stream.                                               *)

Bound == {"accepting", "confirming", "deciding"}

\* The process of d drops its stream, and the listener its queue of streams.
DropEnd(s, d) == IF s.ends \subseteq {d} THEN Closed ELSE [s EXCEPT !.ends = @ \ {d}]
Dropped(d) ==
    [i \in Initiators |-> IF d \in {i, Listener} THEN DropEnd(stream[i], d) ELSE stream[i]]

\* A process that has its result keeps nothing in memory.
PairingOver(d) == pairing' = [pairing EXCEPT ![d] = NotPairing]
PairingFails(d) == PairingOver(d) /\ stream' = Dropped(d)

\* With its identity the listener binds its port.
Loaded(d) == IF d = Listener THEN "accepting" ELSE "connecting"

\* The file is there, or the process generates an identity.
StartPairing(d) ==
    /\ pairing[d].phase = "idle"
    /\ pairing' = [pairing EXCEPT ![d] =
         IF identityFile[d] # NoIdentity
         THEN [NotPairing EXCEPT !.phase = Loaded(d), !.own = identityFile[d]]
         ELSE [NotPairing EXCEPT !.phase = "creating", !.own = Generated(d, "pair")]]
    /\ UNCHANGED <<identityFile, stream, trusted, handshakes, approvals>>

LinkForPairing(d) ==
    /\ pairing[d].phase = "creating"
    /\ identityFile' = [identityFile EXCEPT ![d] = Linked(@, pairing[d].own)]
    /\ pairing' = [pairing EXCEPT ![d] =
            [@ EXCEPT !.phase = Loaded(d), !.own = Linked(identityFile[d], pairing[d].own)]]
    /\ UNCHANGED <<stream, trusted, handshakes, approvals>>

-----------------------------------------------------------------------------
(* pair_outgoing.                                                          *)

\* While the listener holds an earlier stream of the initiator, another would
\* only wait behind it.
Connect(i) ==
    /\ pairing[i].phase = "connecting" /\ pairing[Listener].phase \in Bound
    /\ stream[i].ends = {}
    /\ stream' = [stream EXCEPT ![i] =
            [ends |-> {i, Listener},
             toListener |-> <<[kind |-> "initial", identity |-> pairing[i].own]>>,
             toInitiator |-> << >>]]
    /\ pairing' = [pairing EXCEPT ![i] = [@ EXCEPT !.phase = "greeting", !.with = Listener]]
    /\ UNCHANGED <<identityFile, trusted, handshakes, approvals>>

ConnectionRefused(i) ==
    /\ pairing[i].phase = "connecting" /\ pairing[Listener].phase \notin Bound
    /\ PairingFails(i)
    /\ UNCHANGED <<identityFile, trusted, handshakes, approvals>>

ReadReply(i) ==
    /\ pairing[i].phase = "greeting" /\ stream[i].toInitiator # << >>
    /\ LET reply == Head(stream[i].toInitiator)
       IN  pairing' = [pairing EXCEPT ![i] =
            [@ EXCEPT !.phase = "confirming", !.peer = reply.identity,
                      !.transcript = reply.transcript]]
    /\ stream' = [stream EXCEPT ![i].toInitiator = Tail(@)]
    /\ UNCHANGED <<identityFile, trusted, handshakes, approvals>>

Answers(kind) == [kind |-> kind]

InitiatorApproves(i) ==
    /\ pairing[i].phase = "confirming"
    /\ approvals' = approvals \cup {<<i, pairing[i].transcript>>}
    /\ pairing' = [pairing EXCEPT ![i] = [@ EXCEPT !.phase = "awaiting", !.approved = TRUE]]
    /\ stream' = [stream EXCEPT ![i].toListener = Append(@, Answers("accepted"))]
    /\ UNCHANGED <<identityFile, trusted, handshakes>>

InitiatorRejects(i) ==
    /\ pairing[i].phase = "confirming"
    /\ PairingOver(i)
    /\ stream' = [stream EXCEPT ![i] =
            DropEnd([stream[i] EXCEPT !.toListener = Append(@, Answers("rejected"))], i)]
    /\ UNCHANGED <<identityFile, trusted, handshakes, approvals>>

ReadAnswer(i) ==
    /\ pairing[i].phase = "awaiting" /\ stream[i].toInitiator # << >>
    /\ IF Head(stream[i].toInitiator).kind = "accepted"
       THEN /\ pairing' = [pairing EXCEPT ![i].phase = "paired"]
            /\ stream' = Dropped(i)
       ELSE PairingFails(i)
    /\ UNCHANGED <<identityFile, trusted, handshakes, approvals>>

-----------------------------------------------------------------------------
(* pair_incoming.                                                          *)

\* The listener takes one of the streams in its queue, whose initiator may have
\* given up since, and answers the initial message.
Respond(i) ==
    /\ pairing[Listener].phase = "accepting"
    /\ Listener \in stream[i].ends /\ stream[i].toListener # << >>
    /\ handshakes < MaxHandshakes
    /\ handshakes' = handshakes + 1
    /\ pairing' = [pairing EXCEPT ![Listener] =
            [@ EXCEPT !.phase = "confirming", !.with = i,
                      !.peer = Head(stream[i].toListener).identity,
                      !.transcript = handshakes']]
    /\ stream' = [stream EXCEPT ![i] = [stream[i] EXCEPT
            !.toListener = Tail(@),
            !.toInitiator = <<[kind |-> "reply", identity |-> pairing[Listener].own,
                               transcript |-> handshakes']>>]]
    /\ UNCHANGED <<identityFile, trusted, approvals>>

ListenerDecides(yes) ==
    /\ pairing[Listener].phase = "confirming"
    /\ approvals' = IF yes THEN approvals \cup {<<Listener, pairing[Listener].transcript>>}
                    ELSE approvals
    /\ pairing' = [pairing EXCEPT ![Listener] =
            [@ EXCEPT !.phase = "deciding", !.approved = yes]]
    /\ UNCHANGED <<identityFile, stream, trusted, handshakes>>

\* A faulty listener takes the peer's decision alone.
PeerAlone(decision) == decision = "accepted"
BothAccept(decision) == decision = "accepted" /\ pairing[Listener].approved

\* The decision of the initiator comes before the listener's own.
ReadDecision ==
    /\ pairing[Listener].phase = "deciding"
    /\ LET i == pairing[Listener].with
           decision == Head(stream[i].toListener).kind
       IN  /\ stream[i].toListener # << >>
           /\ IF BothAccept(decision)
              THEN /\ pairing' = [pairing EXCEPT ![Listener].phase = "paired"]
                   /\ stream' = [j \in Initiators |->
                        IF j = i THEN DropEnd([stream[i] EXCEPT !.toInitiator =
                                                Append(@, Answers("accepted"))], Listener)
                        ELSE DropEnd(stream[j], Listener)]
              ELSE /\ PairingOver(Listener)
                   /\ stream' = [j \in Initiators |->
                        IF j = i /\ decision = "accepted"
                        THEN DropEnd([stream[i] EXCEPT !.toInitiator =
                                        Append(@, Answers("rejected"))], Listener)
                        ELSE DropEnd(stream[j], Listener)]
    /\ UNCHANGED <<identityFile, trusted, handshakes, approvals>>

-----------------------------------------------------------------------------
(* Either side.                                                            *)

Other(d) == pairing[d].with
Inbox(d) == IF d = Listener THEN stream[pairing[d].with].toListener
            ELSE stream[d].toInitiator
StreamOf(d) == IF d = Listener THEN stream[pairing[d].with] ELSE stream[d]

\* read_packet meets the end of the stream.
StreamEnds(d) ==
    /\ pairing[d].phase \in {"greeting", "awaiting", "deciding"}
    /\ Inbox(d) = << >> /\ Other(d) \notin StreamOf(d).ends
    /\ PairingFails(d)
    /\ UNCHANGED <<identityFile, trusted, handshakes, approvals>>

Waiting == {"connecting", "accepting", "greeting", "awaiting", "deciding"}

\* tokio::time::timeout drops the handshake and its stream.
PairingTimesOut(d) ==
    /\ pairing[d].phase \in Waiting
    /\ PairingFails(d)
    /\ UNCHANGED <<identityFile, trusted, handshakes, approvals>>

\* While the user is asked, the runtime cannot be dropped before the thread that
\* waits for the decision returns; the decision is ignored then.
TimesOutConfirming(d) ==
    /\ pairing[d].phase = "confirming"
    /\ pairing' = [pairing EXCEPT ![d].phase = "draining"]
    /\ stream' = Dropped(d)
    /\ UNCHANGED <<identityFile, trusted, handshakes, approvals>>

LateDecision(d) ==
    /\ pairing[d].phase = "draining"
    /\ PairingOver(d)
    /\ UNCHANGED <<identityFile, stream, trusted, handshakes, approvals>>

StorePeer(d) ==
    /\ pairing[d].phase = "paired"
    /\ trusted' = [trusted EXCEPT ![d] =
            Upsert(@, Row(pairing[d].peer, pairing[d].transcript))]
    /\ PairingOver(d)
    /\ UNCHANGED <<identityFile, stream, handshakes, approvals>>

\* The process exits, or cannot write the database at the end.
PairingExits(d) ==
    /\ pairing[d].phase # "idle"
    /\ PairingFails(d)
    /\ UNCHANGED <<identityFile, trusted, handshakes, approvals>>

\* The network drops the stream with what is on its way.
LoseStream(i) ==
    /\ stream[i].ends # {}
    /\ stream' = [stream EXCEPT ![i] = Closed]
    /\ UNCHANGED <<identityFile, pairing, trusted, handshakes, approvals>>

PairingStep(d) ==
    \/ StartPairing(d) \/ LinkForPairing(d) \/ StorePeer(d)
    \/ StreamEnds(d) \/ PairingTimesOut(d) \/ TimesOutConfirming(d) \/ LateDecision(d)
    \/ PairingExits(d)

InitiatorStep(i) ==
    \/ Connect(i) \/ ConnectionRefused(i) \/ ReadReply(i) \/ ReadAnswer(i)
    \/ InitiatorApproves(i) \/ InitiatorRejects(i) \/ LoseStream(i)

ListenerStep ==
    \/ \E i \in Initiators : Respond(i)
    \/ \E yes \in BOOLEAN : ListenerDecides(yes)
    \/ ReadDecision

PairingNext ==
    \/ \E d \in Devices : PairingStep(d)
    \/ \E i \in Initiators : InitiatorStep(i)
    \/ ListenerStep
=============================================================================
