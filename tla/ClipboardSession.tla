-------------------------- MODULE ClipboardSession --------------------------
(***************************************************************************)
(* Two paired devices, each running clipboard_connection_loop of           *)
(* apps/superspace/src/main.rs over one QUIC connection: the clipboard     *)
(* monitor (platform/src/clipboard.rs), ClipboardSync (sync/src/lib.rs)    *)
(* with its replication ledger, history and blob store, and the request    *)
(* streams of network/src/session.rs.                                      *)
(*                                                                         *)
(* The loop waits in a select for three things: the end of its own offer,  *)
(* a request of the peer, and a 250 ms tick.  It handles a peer request to *)
(* its end before it returns to the select, the fetching of a blob         *)
(* included.  Any error ends the process; the connection goes with it.     *)
(*                                                                         *)
(* A clipboard value is a model value; what the properties need to know of *)
(* it are the sets below.  A blob is asked for and sent as a whole.        *)
(***************************************************************************)
EXTENDS Ledger

CONSTANTS
    Value,             \* clipboard contents, other than an empty clipboard
    Image,             \* those encoded as PNG; the others are text
    Large,             \* encoded size above MAX_INLINE_CLIPBOARD_BYTES
    Split,             \* inline, in a frame that takes several packets to arrive
    Unreadable,        \* contents the monitor or the encoder refuses: files, empty text
    Copies,            \* Copies[d]: what the user of device d copies
    Wall,              \* Wall[d]: readings of the wall clock of device d
    DebugAssertions,   \* TRUE in a debug build, FALSE in the release profile
    MaxCopies,         \* bound on the user's copies
    MaxSessions,       \* bound on the sessions, the first one included
    MaxFaults,         \* bound on lost connections and failed writes
    Nothing            \* None: an empty clipboard, no digest, no offer, no fetch

ASSUME SessionAssumption ==
    /\ \E a, b \in Device : a # b /\ Device = {a, b}
    /\ Image \cup Large \cup Split \cup Unreadable \subseteq Value
    /\ Copies \in [Device -> SUBSET Value]
    /\ Split \cap Large = {}
    /\ Wall \in [Device -> SUBSET Nat]
    /\ DebugAssertions \in BOOLEAN
    /\ MaxCopies \in Nat /\ MaxSessions \in Nat \ {0} /\ MaxFaults \in Nat
    /\ Nothing \notin Value

VARIABLES
    board,       \* board[d]: the operating system's clipboard
    typed,       \* typed[d]: the user, not the session, wrote board[d]
    running,     \* running[d]: the session process of d has not ended
    connected,   \* the connection is open
    digest,      \* digest[d]: last_digest of the monitor
    ledger,      \* ledger[d]: the replication ledger
    history,     \* history[d]: events in the clipboard history, on disk
    blobs,       \* blobs[d]: contents in the blob store, on disk
    outgoing,    \* outgoing[d]: the offer awaiting its acknowledgement
    inbox,       \* inbox[d]: requests opened by the peer and not yet routed
    fetch,       \* fetch[d]: the blob d is waiting for, inside a request
    issued,      \* number of events created, which names the next one
    copies, sessions, faults

ClipboardEvent == [id : Nat, origin : Device, ts : Timestamp, value : Value \ Unreadable]
OutgoingOffer == [event : ClipboardEvent, phase : {"unsent", "sent", "acked", "closed"}]
PendingFetch == [event : ClipboardEvent, now : Nat, phase : {"asked", "answered"}]

ASSUME NothingAssumption == Nothing \notin OutgoingOffer \cup PendingFetch
ASSUME NoEventAssumption == NoEvent \notin ClipboardEvent

disk == <<history, blobs>>
process == <<digest, ledger, outgoing, fetch>>
bounds == <<issued, copies, sessions, faults>>
vars == <<board, typed, running, connected, digest, ledger, history, blobs, outgoing,
          inbox, fetch, issued, copies, sessions, faults>>

Peer(d) == CHOOSE p \in Device : p # d

\* Two faulty versions of persist: one forgets the bytes of an image, one keeps
\* no record of what peers sent.
PersistedRowOnly(d, e) ==
    /\ history' = [history EXCEPT ![d] = @ \cup {e}]
    /\ UNCHANGED blobs
PersistedOwnOnly(d, e) ==
    /\ history' = [history EXCEPT ![d] = IF e.origin = d THEN @ \cup {e} ELSE @]
    /\ UNCHANGED blobs

\* persist stores the bytes of an image in the blob store, and text in the
\* history row alone.
Persisted(d, e) ==
    /\ history' = [history EXCEPT ![d] = @ \cup {e}]
    /\ blobs' = [blobs EXCEPT ![d] = IF e.value \in Image THEN @ \cup {e.value} ELSE @]

\* The wall-clock readings a pair of processes may start at.
Starts == {start \in [Device -> UNION {Wall[d] : d \in Device}] :
              \A d \in Device : start[d] \in Wall[d]}

Offer(e) == [kind |-> "offer", event |-> e]
BlobRequest(v) == [kind |-> "blob", value |-> v]

Init ==
    /\ board \in [Device -> Value \cup {Nothing}]
    /\ \A d \in Device : board[d] \in Copies[d] \cup {Nothing}
    /\ typed = [d \in Device |-> TRUE]
    /\ running = [d \in Device |-> TRUE]
    /\ connected = TRUE
    /\ digest = [d \in Device |-> Nothing]
    /\ \E start \in Starts : ledger = [d \in Device |-> NewLedger(d, start[d])]
    /\ history = [d \in Device |-> {}]
    /\ blobs = [d \in Device |-> {}]
    /\ outgoing = [d \in Device |-> Nothing]
    /\ inbox = [d \in Device |-> << >>]
    /\ fetch = [d \in Device |-> Nothing]
    /\ issued = 0 /\ copies = 0 /\ sessions = 1 /\ faults = 0

\* The select of clipboard_connection_loop.
Selecting(d) == running[d] /\ fetch[d] = Nothing

\* An error reaches the top of the process: its endpoint closes the connection
\* and whatever was in flight is gone.
Stop(d) ==
    /\ running' = [running EXCEPT ![d] = FALSE]
    /\ connected' = FALSE
    /\ inbox' = [p \in Device |-> << >>]

-----------------------------------------------------------------------------
(* The select drops the future it did not choose.  When that is            *)
(* receive_peer_request, between the arrival of a stream and the end of    *)
(* its first frame, the stream is gone and the peer's offer ends without   *)
(* an acknowledgement.                                                     *)

PartlyRead(d) ==
    /\ inbox[d] # << >>
    /\ Head(inbox[d]).kind = "offer"
    /\ Head(inbox[d]).event.value \in Split

\* The peer's offer after the select of d has chosen another branch.
Interrupted(d, dropped) ==
    IF dropped THEN [outgoing EXCEPT ![Peer(d)].phase = "closed"] ELSE outgoing

DropsRequest(d, dropped) ==
    /\ dropped => PartlyRead(d)
    /\ inbox' = [inbox EXCEPT ![d] = IF dropped THEN Tail(@) ELSE @]

\* A tick that finds nothing to offer does nothing else: while an offer is
\* outstanding the clipboard is not read, and without one the poll may find it
\* empty or as it was.
IdleTick(d) ==
    /\ Selecting(d)
    /\ outgoing[d] = Nothing => board[d] \in {Nothing, digest[d]}
    /\ PartlyRead(d)
    /\ DropsRequest(d, TRUE)
    /\ outgoing' = Interrupted(d, TRUE)
    /\ UNCHANGED <<board, typed, running, connected, digest, ledger, fetch, disk, bounds>>

-----------------------------------------------------------------------------
(* The user and the clipboard.                                             *)

UserCopy(d, v) ==
    /\ v # board[d]
    /\ copies < MaxCopies
    /\ copies' = copies + 1
    /\ board' = [board EXCEPT ![d] = v]
    /\ typed' = [typed EXCEPT ![d] = TRUE]
    /\ UNCHANGED <<running, connected, inbox, process, disk, issued, sessions, faults>>

\* The tick polls the clipboard when no offer is outstanding: a content other
\* than the last one seen becomes an event, is persisted, recorded for the
\* peer, and offered.
PollLocal(d, now, dropped) ==
    LET stamped == NextTimestamp(ledger[d], now)
        e == [id |-> issued + 1, origin |-> d, ts |-> stamped.clock, value |-> board[d]]
    IN  /\ Selecting(d)
        /\ outgoing[d] = Nothing
        /\ board[d] \notin Unreadable \cup {Nothing, digest[d]}
        /\ digest' = [digest EXCEPT ![d] = board[d]]
        /\ Persisted(d, e)
        /\ ledger' = [ledger EXCEPT ![d] = RecordLocal(stamped, e, {Peer(d)}, 0)]
        /\ DropsRequest(d, dropped)
        /\ outgoing' = [Interrupted(d, dropped) EXCEPT ![d] = [event |-> e, phase |-> "unsent"]]
        /\ issued' = issued + 1
        /\ UNCHANGED <<board, typed, running, connected, fetch, copies, sessions, faults>>

\* Copied files and empty text are errors, and errors end the session.
PollUnreadable(d) ==
    /\ Selecting(d)
    /\ outgoing[d] = Nothing
    /\ board[d] \in Unreadable
    /\ Stop(d)
    /\ UNCHANGED <<board, typed, process, disk, bounds>>

-----------------------------------------------------------------------------
(* Offering an event: offer_clipboard.                                     *)

\* The offer's future is only polled by the select.
SendOffer(d) ==
    /\ Selecting(d) /\ connected
    /\ outgoing[d] # Nothing /\ outgoing[d].phase = "unsent"
    /\ outgoing' = [outgoing EXCEPT ![d].phase = "sent"]
    /\ inbox' = [inbox EXCEPT ![Peer(d)] = Append(@, Offer(outgoing[d].event))]
    /\ UNCHANGED <<board, typed, running, connected, digest, ledger, fetch, disk, bounds>>

\* An acknowledgement of an event that is not in the replay queue is an error.
ReceiveAck(d, dropped) ==
    LET id == outgoing[d].event.id
    IN  /\ Selecting(d) /\ connected
        /\ outgoing[d] # Nothing /\ outgoing[d].phase = "acked"
        /\ IF AwaitsAck(ledger[d], Peer(d), id)
           THEN /\ ledger' = [ledger EXCEPT ![d] = Acknowledge(@, Peer(d), id)]
                /\ DropsRequest(d, dropped)
                /\ outgoing' = [Interrupted(d, dropped) EXCEPT ![d] = Nothing]
                /\ UNCHANGED <<running, connected, digest, fetch>>
           ELSE Stop(d) /\ ~ dropped /\ UNCHANGED process
        /\ UNCHANGED <<board, typed, disk, bounds>>

\* The stream of the offer ended without an acknowledgement.
OfferFailed(d) ==
    /\ Selecting(d)
    /\ outgoing[d] # Nothing /\ outgoing[d].phase = "closed"
    /\ Stop(d)
    /\ UNCHANGED <<board, typed, process, disk, bounds>>

-----------------------------------------------------------------------------
(* Handling a request of the peer: handle_peer_request.                    *)

\* Faulty: a write that leaves last_digest as it was.
ApplyUnsuppressed(d, v) ==
    /\ board' = [board EXCEPT ![d] = v]
    /\ typed' = [typed EXCEPT ![d] = FALSE]
    /\ UNCHANGED digest

\* ClipboardMonitor::apply_remote: the clipboard is written and the next poll
\* will find nothing new in it.
ApplyRemote(d, v) ==
    /\ board' = [board EXCEPT ![d] = v]
    /\ typed' = [typed EXCEPT ![d] = FALSE]
    /\ digest' = [digest EXCEPT ![d] = v]

\* Faulty: silence about an event that lost conflict resolution.
AcknowledgeAppliedOnly(d, e) ==
    outgoing' = IF Applies(ledger[d], e)
                THEN [outgoing EXCEPT ![Peer(d)].phase = "acked"]
                ELSE outgoing

\* Applied, superseded and duplicate events are acknowledged alike.
AcknowledgeOffer(d, e) == outgoing' = [outgoing EXCEPT ![Peer(d)].phase = "acked"]

\* apply_ready followed by the acknowledgement.  In the release build the
\* debug_assert around the ledger's receive is not compiled, and the ledger
\* does not learn of an applied event.
ApplyAndAcknowledge(d, e, now) ==
    /\ LET learns == Applies(ledger[d], e) => DebugAssertions
       IN  ledger' = IF learns THEN [ledger EXCEPT ![d] = Receive(@, e, now)] ELSE ledger
    /\ IF Applies(ledger[d], e) THEN ApplyRemote(d, e.value)
       ELSE UNCHANGED <<board, typed, digest>>
    /\ AcknowledgeOffer(d, e)

\* Whether a received value needs no fetching: inline, or already in the store.
AtHand(d, e) == e.value \notin Large \/ e.value \in blobs[d]

HandleOffer(d, now) ==
    /\ Selecting(d) /\ connected
    /\ inbox[d] # << >> /\ Head(inbox[d]).kind = "offer"
    /\ LET e == Head(inbox[d]).event
       IN  /\ AtHand(d, e)
           /\ ApplyAndAcknowledge(d, e, now)
           /\ IF IsDuplicate(ledger[d], e) THEN UNCHANGED disk ELSE Persisted(d, e)
    /\ inbox' = [inbox EXCEPT ![d] = Tail(@)]
    /\ UNCHANGED <<running, connected, fetch, bounds>>

\* A large value is fetched before anything else is done.
RequestBlob(d, now) ==
    /\ Selecting(d) /\ connected
    /\ inbox[d] # << >> /\ Head(inbox[d]).kind = "offer"
    /\ LET e == Head(inbox[d]).event
       IN  /\ ~ AtHand(d, e)
           /\ fetch' = [fetch EXCEPT ![d] = [event |-> e, now |-> now, phase |-> "asked"]]
           /\ inbox' = [inbox EXCEPT ![d] = Tail(@),
                                     ![Peer(d)] = Append(@, BlobRequest(e.value))]
    /\ UNCHANGED <<board, typed, running, connected, digest, ledger, outgoing, disk, bounds>>

\* BlobRequest::serve reads the blob store; a missing blob is an error.
ServeBlob(d) ==
    /\ Selecting(d) /\ connected
    /\ inbox[d] # << >> /\ Head(inbox[d]).kind = "blob"
    /\ IF Head(inbox[d]).value \in blobs[d]
       THEN /\ fetch' = [fetch EXCEPT ![Peer(d)].phase = "answered"]
            /\ inbox' = [inbox EXCEPT ![d] = Tail(@)]
            /\ UNCHANGED <<running, connected>>
       ELSE Stop(d) /\ UNCHANGED fetch
    /\ UNCHANGED <<board, typed, digest, ledger, outgoing, disk, bounds>>

\* The blob is published in the store, then applied like an inline value.
FinishFetch(d) ==
    /\ running[d] /\ connected
    /\ fetch[d] # Nothing /\ fetch[d].phase = "answered"
    /\ LET e == fetch[d].event
       IN  /\ ApplyAndAcknowledge(d, e, fetch[d].now)
           /\ history' = [history EXCEPT ![d] =
                  IF IsDuplicate(ledger[d], e) THEN @ ELSE @ \cup {e}]
           /\ blobs' = [blobs EXCEPT ![d] = @ \cup {e.value}]
    /\ fetch' = [fetch EXCEPT ![d] = Nothing]
    /\ UNCHANGED <<running, connected, inbox, bounds>>

\* apply_ready fails: on the clipboard write, before anything changed, or on
\* the history insert, after the clipboard was written.  The offer stays
\* unacknowledged.
ApplyFails(d) ==
    /\ faults < MaxFaults
    /\ faults' = faults + 1
    /\ Selecting(d) /\ connected
    /\ inbox[d] # << >> /\ Head(inbox[d]).kind = "offer"
    /\ LET e == Head(inbox[d]).event
       IN  /\ AtHand(d, e)
           /\ Applies(ledger[d], e)
           /\ \/ UNCHANGED <<board, typed, digest>>
              \/ ApplyRemote(d, e.value)
    /\ Stop(d)
    /\ UNCHANGED <<ledger, outgoing, fetch, disk, issued, copies, sessions>>

-----------------------------------------------------------------------------
(* The connection.                                                         *)

LoseConnection ==
    /\ connected
    /\ faults < MaxFaults
    /\ faults' = faults + 1
    /\ connected' = FALSE
    /\ inbox' = [d \in Device |-> << >>]
    /\ UNCHANGED <<board, typed, running, process, disk, issued, copies, sessions>>

\* Neither process has anything to put on the wire: each waits for a copy, for
\* an answer, or for a blob.
Idle ==
    \A d \in Device :
        /\ fetch[d] = Nothing =>
            /\ inbox[d] = << >>
            /\ outgoing[d] = Nothing => board[d] \in {Nothing, digest[d]}
            /\ outgoing[d] # Nothing => outgoing[d].phase = "sent"
        /\ fetch[d] # Nothing => fetch[d].phase = "asked"

\* QUIC closes a connection that has been silent for thirty seconds; the
\* endpoints configure no keep-alive.
IdleTimeout ==
    /\ connected /\ Idle
    /\ connected' = FALSE
    /\ inbox' = [d \in Device |-> << >>]
    /\ UNCHANGED <<board, typed, running, process, disk, bounds>>

\* Wherever the loop is waiting, a closed connection is an error.
NoticeClosed(d) ==
    /\ running[d] /\ ~ connected
    /\ Stop(d)
    /\ UNCHANGED <<board, typed, process, disk, bounds>>

\* Both users start the session again: a new process knows what is on disk.
StartSession ==
    /\ \A d \in Device : ~ running[d]
    /\ sessions < MaxSessions
    /\ sessions' = sessions + 1
    /\ running' = [d \in Device |-> TRUE]
    /\ connected' = TRUE
    /\ digest' = [d \in Device |-> Nothing]
    /\ \E start \in Starts : ledger' = [d \in Device |-> NewLedger(d, start[d])]
    /\ outgoing' = [d \in Device |-> Nothing]
    /\ fetch' = [d \in Device |-> Nothing]
    /\ inbox' = [d \in Device |-> << >>]
    /\ UNCHANGED <<board, typed, disk, issued, copies, faults>>

Step(d) ==
    \/ \E now \in Wall[d], dropped \in BOOLEAN : PollLocal(d, now, dropped)
    \/ PollUnreadable(d)
    \/ SendOffer(d)
    \/ \E dropped \in BOOLEAN : ReceiveAck(d, dropped)
    \/ OfferFailed(d)
    \/ \E now \in Wall[d] : HandleOffer(d, now)
    \/ \E now \in Wall[d] : RequestBlob(d, now)
    \/ ServeBlob(d)
    \/ FinishFetch(d)
    \/ NoticeClosed(d)

Environment ==
    \/ \E d \in Device : \E v \in Copies[d] : UserCopy(d, v)
    \/ \E d \in Device : IdleTick(d)
    \/ \E d \in Device : ApplyFails(d)
    \/ LoseConnection
    \/ IdleTimeout
    \/ StartSession

Next == (\E d \in Device : Step(d)) \/ Environment

\* The runtime polls a session whose futures are ready, and its tick recurs.
Spec == Init /\ [][Next]_vars /\ \A d \in Device : WF_vars(Step(d))

-----------------------------------------------------------------------------
\* Type invariant, with the tie between the connection and its two ends: an
\* open connection has a running process at each end, and a device has at most
\* one request of each kind queued because its peer has one offer and one fetch
\* at a time.
TypeOK ==
    /\ board \in [Device -> Value \cup {Nothing}]
    /\ typed \in [Device -> BOOLEAN]
    /\ running \in [Device -> BOOLEAN]
    /\ connected => \A d \in Device : running[d]
    /\ digest \in [Device -> Value \cup {Nothing}]
    /\ \A d \in Device :
        /\ history[d] \subseteq ClipboardEvent /\ \A e \in history[d] : e.id <= issued
        /\ blobs[d] \subseteq Value
    /\ \A d \in Device :
        /\ outgoing[d] \in OutgoingOffer \cup {Nothing}
        /\ fetch[d] \in PendingFetch \cup {Nothing}
        /\ \A i, j \in DOMAIN inbox[d] : inbox[d][i].kind = inbox[d][j].kind => i = j

\* "Offer one clipboard event and wait until the peer confirms durable
\* handling": an offer that has been acknowledged is in the peer's history, an
\* image with its bytes.
AckedIsDurable ==
    \A d \in Device :
        (outgoing[d] # Nothing /\ outgoing[d].phase = "acked") =>
            LET e == outgoing[d].event
            IN  /\ e \in history[Peer(d)]
                /\ e.value \in Image => e.value \in blobs[Peer(d)]

\* A peer that asks for the blob of an offer finds it in the offering device's
\* store.
OfferedBlobIsServable ==
    \A d \in Device :
        (outgoing[d] # Nothing /\ outgoing[d].event.value \in Large)
            => outgoing[d].event.value \in blobs[d]

\* When nothing is in flight and both monitors have seen their clipboards, the
\* two clipboards hold the same content.
Quiescent ==
    /\ connected
    /\ \A d \in Device :
        /\ running[d] /\ outgoing[d] = Nothing /\ inbox[d] = << >> /\ fetch[d] = Nothing
        /\ board[d] # Nothing /\ digest[d] = board[d]
QuiescentConvergence == Quiescent => \A c, d \in Device : board[c] = board[d]

\* No loops: what the session itself wrote to the clipboard is never offered as
\* a copy of the user's, except by the first poll of a new process, which has
\* no digest to compare with.
OffersUserCopy ==
    \A d \in Device :
        (outgoing[d] = Nothing /\ outgoing'[d] # Nothing) => typed[d] \/ digest[d] = Nothing
NoEcho == [][OffersUserCopy]_vars

\* "Text and images now synchronize in both directions": a healthy connection
\* is not left to time out while an offer still waits for its acknowledgement.
TimesOutIdleOnly ==
    (connected /\ ~ connected' /\ faults' = faults) => \A d \in Device : outgoing[d] = Nothing
TimeoutAbandonsNoOffer == [][TimesOutIdleOnly]_vars

\* An offer on the wire is acknowledged, or the session ends by an error;
\* the idle timeout, which has no fairness, is not needed for it.
OfferAnswered ==
    \A d \in Device :
        (outgoing[d] # Nothing /\ outgoing[d].phase = "sent")
            ~> (outgoing[d] = Nothing \/ ~ running[d])
=============================================================================
