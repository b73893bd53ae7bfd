---------------------------- MODULE PeerSessions ----------------------------
(***************************************************************************)
(* Paired devices and the sessions between them: run_peer_clipboard and    *)
(* run_peer_file of apps/superspace/src/main.rs read the trusted peers,    *)
(* pin one certificate, connect, and exchange Hello; meanwhile the user    *)
(* pauses, enables or forgets peers and pairs again.                       *)
(***************************************************************************)
EXTENDS Pairing

CONSTANTS
    MaxEvents,      \* bound on the events a session carries
    MaxChanges      \* bound on the user's changes of the trusted peers

ASSUME SessionAssumption == MaxEvents \in Nat /\ MaxChanges \in Nat

VARIABLES
    session,        \* session[d]: the session process of device d
    link,           \* the initiator the listening session is connected to
    received,       \* events the listening session has sent over the link
    changes         \* changes of the trusted peers so far

vars == <<pairingVars, session, link, received, changes>>
sessionVars == <<session, link, received, changes>>

NoSession == [phase |-> "idle", own |-> NoIdentity, pinned |-> NoIdentity]

Init ==
    /\ PairingInit
    /\ session = [d \in Devices |-> NoSession]
    /\ link = None
    /\ received = 0
    /\ changes = 0

SessionFails(d) == session' = [session EXCEPT ![d] = NoSession]

\* On its first start a device has no identity file.
StartSession(d) ==
    /\ session[d].phase = "idle" /\ identityFile[d] = NoIdentity
    /\ session' = [session EXCEPT ![d] =
            [NoSession EXCEPT !.phase = "creating", !.own = Generated(d, "session")]]
    /\ UNCHANGED <<pairingVars, link, received, changes>>

LinkForSession(d) ==
    /\ session[d].phase = "creating"
    /\ identityFile' = [identityFile EXCEPT ![d] = Linked(@, session[d].own)]
    /\ session' = [session EXCEPT ![d] =
            [@ EXCEPT !.phase = "ready", !.own = Linked(identityFile[d], session[d].own)]]
    /\ UNCHANGED <<pairing, stream, trusted, handshakes, approvals, link, received, changes>>

\* The identity is loaded, and the user has named a peer that is trusted now.
OpenEndpoint(d) ==
    /\ \/ session[d].phase = "ready"
       \/ session[d].phase = "idle" /\ identityFile[d] # NoIdentity
    /\ \E row \in trusted[d] :
        /\ row.enabled
        /\ session' = [session EXCEPT ![d] =
                [phase |-> "open", pinned |-> row.peer,
                 own |-> IF session[d].phase = "ready" THEN @.own ELSE identityFile[d]]]
    /\ UNCHANGED <<pairingVars, link, received, changes>>

PeerNotTrusted(d) ==
    /\ session[d].phase = "ready"
    /\ \E peer \in Identities : \A row \in trusted[d] : row.peer = peer => ~ row.enabled
    /\ SessionFails(d)
    /\ UNCHANGED <<pairingVars, link, received, changes>>

\* Each end accepts the certificate it has pinned only.  A faulty server takes
\* any client.
ServerPinned(i) == session[i].pinned = session[Listener].own
BothPinned(i) == ServerPinned(i) /\ session[Listener].pinned = session[i].own

Handshake(i) ==
    /\ session[i].phase = "open" /\ session[Listener].phase = "open"
    /\ IF BothPinned(i)
       THEN /\ link' = i
            /\ session' = [session EXCEPT ![i].phase = "hello", ![Listener].phase = "hello"]
       ELSE /\ link' = link
            /\ session' = [session EXCEPT ![i] = NoSession, ![Listener] = NoSession]
    /\ UNCHANGED <<pairingVars, received, changes>>

HelloIncoming ==
    /\ session[Listener].phase = "hello" /\ link # None
    /\ session' = [session EXCEPT ![Listener].phase = "active"]
    /\ UNCHANGED <<pairingVars, link, received, changes>>

HelloOutgoing(i) ==
    /\ session[i].phase = "hello" /\ link = i /\ session[Listener].phase = "active"
    /\ session' = [session EXCEPT ![i].phase = "active"]
    /\ UNCHANGED <<pairingVars, link, received, changes>>

SendEvent(i) ==
    /\ link = i /\ session[i].phase = "active" /\ session[Listener].phase = "active"
    /\ received < MaxEvents
    /\ received' = received + 1
    /\ UNCHANGED <<pairingVars, session, link, changes>>

\* The connection is lost or idle for too long, or a side exits.
Disconnect ==
    /\ link # None
    /\ link' = None
    /\ received' = 0
    /\ UNCHANGED <<pairingVars, session, changes>>

LinkGone(d) == IF d = Listener THEN link = None ELSE link # d

SessionEnds(d) ==
    /\ \/ session[d].phase \in {"hello", "active"} /\ LinkGone(d)
       \/ session[d].phase \in {"creating", "open"}
    /\ SessionFails(d)
    /\ UNCHANGED <<pairingVars, link, received, changes>>

\* nearby enable, revoke and forget, and the buttons of the palette.
Change == changes < MaxChanges /\ changes' = changes + 1

SetEnabled(d, row) ==
    /\ Change
    /\ trusted' = [trusted EXCEPT ![d] =
            (@ \ {row}) \cup {[row EXCEPT !.enabled = ~ @]}]
    /\ UNCHANGED <<identityFile, pairing, stream, handshakes, approvals, session, link, received>>

Forget(d, row) ==
    /\ Change
    /\ trusted' = [trusted EXCEPT ![d] = @ \ {row}]
    /\ UNCHANGED <<identityFile, pairing, stream, handshakes, approvals, session, link, received>>

SessionStep(d) ==
    \/ StartSession(d) \/ LinkForSession(d) \/ OpenEndpoint(d) \/ PeerNotTrusted(d)
    \/ SessionEnds(d)
    \/ d # Listener /\ (Handshake(d) \/ HelloOutgoing(d) \/ SendEvent(d))

Next ==
    \/ PairingNext /\ UNCHANGED sessionVars
    \/ \E d \in Devices :
        \/ SessionStep(d)
        \/ \E row \in trusted[d] : SetEnabled(d, row) \/ Forget(d, row)
    \/ HelloIncoming \/ Disconnect

Spec == Init /\ [][Next]_vars

-----------------------------------------------------------------------------
PairingPhases == Waiting \cup {"idle", "creating", "confirming", "draining", "paired"}
SessionPhases == {"idle", "creating", "ready", "open", "hello", "active"}
Rows == [peer : Identities, enabled : BOOLEAN, by : 0..MaxHandshakes]

\* Type invariant; a peer has one row, and the ends of a link are not idle.
TypeOK ==
    /\ identityFile \in [Devices -> Identities \cup {NoIdentity}]
    /\ \A d \in Devices :
        /\ pairing[d].phase \in PairingPhases
        /\ pairing[d].own \in Identities \cup {NoIdentity}
        /\ pairing[d].with \in Devices \cup {None}
        /\ pairing[d].transcript \in 0..handshakes
        /\ session[d].phase \in SessionPhases
        /\ trusted[d] \subseteq Rows
        /\ \A row, other \in trusted[d] : row.peer = other.peer => row = other
    /\ approvals \subseteq Devices \X (0..handshakes)
    /\ link \in Initiators \cup {None}
    /\ received \in 0..MaxEvents

\* "Neither side returns peer material unless both callbacks approve the same
\* Noise transcript", and "stores the authenticated peer certificate ... only
\* after both confirmations": whoever is in a device's trusted peers got there by
\* a handshake that the users of both devices have approved.
ApprovedTogether(d, e, n) == <<d, n>> \in approvals /\ <<e, n>> \in approvals
StoredAfterBothConfirm ==
    \A d \in Devices : \A row \in trusted[d] :
        row.peer[1] # d /\ ApprovedTogether(d, row.peer[1], row.by)

\* The identity a peer has stored is the one every process of the device uses,
\* even when the first processes of a device start at the same time.
StoredIdentityIsInUse ==
    \A d \in Devices : \A row \in trusted[d] :
        LET peer == row.peer[1]
        IN  /\ identityFile[peer] = row.peer
            /\ session[peer].phase \in {"ready", "open", "hello", "active"}
                => session[peer].own = row.peer

\* A session that has passed Hello connects devices whose users have approved each
\* other, whatever has been forgotten or paired again since.
SessionWasApproved ==
    \A i \in Initiators :
        (link = i /\ "active" \in {session[i].phase, session[Listener].phase}) =>
            /\ session[Listener].pinned = identityFile[i]
            /\ session[i].pinned = identityFile[Listener]
            /\ \E n \in 0..handshakes : ApprovedTogether(i, Listener, n)

\* "Disabled peers remain listed but cannot connect or receive events."
EnabledNow(i) == \E row \in trusted[Listener] : row.peer = identityFile[i] /\ row.enabled
RevokedReceivesNothing ==
    [][received' > received => EnabledNow(link)]_received
=============================================================================
