----------------------- MODULE ClipboardSessionProofs -----------------------
(***************************************************************************)
(* What an acknowledgement of a clipboard offer stands for, for any        *)
(* contents, clocks, capacity of the replay filter, and number of copies,  *)
(* faults and sessions.                                                    *)
(*                                                                         *)
(* A device acknowledges a duplicate without keeping it again, and the     *)
(* replay filter knows ids only.  That this is right rests on ids that     *)
(* name one event, on an offer whose event its own device has kept, and on *)
(* a connection on which a request belongs to what its sender waits for.   *)
(***************************************************************************)
EXTENDS ClipboardSession, LedgerProofs, TLAPS

(***************************************************************************)
(* The shape of the state.                                                 *)
(***************************************************************************)
Frame == [kind : {"offer"}, event : ClipboardEvent] \cup [kind : {"blob"}, value : Value]
Waiting == [event : ClipboardEvent, expires : Nat]
LedgerState ==
    [local : Device, clock : Timestamp, seen : SUBSET Nat, seenOrder : Seq(Nat),
     current : ClipboardEvent \cup {NoEvent}, pending : [Device -> SUBSET Waiting]]
Contents == Value \cup {Nothing}

Shape ==
    /\ board \in [Device -> Contents] /\ digest \in [Device -> Contents]
    /\ typed \in [Device -> BOOLEAN] /\ running \in [Device -> BOOLEAN]
    /\ connected \in BOOLEAN
    /\ ledger \in [Device -> LedgerState]
    /\ history \in [Device -> SUBSET ClipboardEvent]
    /\ blobs \in [Device -> SUBSET Value]
    /\ outgoing \in [Device -> OutgoingOffer \cup {Nothing}]
    /\ fetch \in [Device -> PendingFetch \cup {Nothing}]
    /\ inbox \in [Device -> Seq(Frame)]
    /\ issued \in Nat

(***************************************************************************)
(* What holds of the conversation and of the disks.                        *)
(***************************************************************************)
OnePerKind(frames) == \A i, j \in DOMAIN frames : frames[i].kind = frames[j].kind => i = j

\* A request on its way to d is what d's peer waits for.
Requested(frame, offer, asked) ==
    /\ frame.kind = "offer" =>
          offer # Nothing /\ offer.event = frame.event /\ offer.phase = "sent"
    /\ frame.kind = "blob" => asked # Nothing /\ asked.phase = "asked"

\* The requests and the fetch of a device, against the offer and the fetch of
\* its peer.
Conversation(frames, own, offer, asked, open) ==
    /\ OnePerKind(frames)
    /\ \A i \in DOMAIN frames : Requested(frames[i], offer, asked)
    /\ open /\ own # Nothing =>
          /\ offer # Nothing /\ offer.event = own.event /\ offer.phase = "sent"
          /\ \A i \in DOMAIN frames : frames[i].kind # "offer"
    /\ ~ open => frames = << >>

Conversations ==
    /\ connected => \A d \in Device : running[d]
    /\ \A d \in Device :
          Conversation(inbox[d], fetch[d], outgoing[Peer(d)], fetch[Peer(d)], connected)

\* A kept image has its bytes, an offered event is kept at home, one that has been
\* acknowledged also at the peer, and the replay filter knows kept events only.
Kept(own, blobStore, offer, theirs, seen) ==
    /\ \A e \in own : e.id <= issued /\ (e.value \in Image => e.value \in blobStore)
    /\ offer # Nothing => offer.event \in own
    /\ offer # Nothing /\ offer.phase = "acked" => offer.event \in theirs
    /\ \A id \in seen : \E e \in own : e.id = id

Stored ==
    \A d \in Device : Kept(history[d], blobs[d], outgoing[d], history[Peer(d)], ledger[d].seen)

\* An id names one event.
OneEvent == \A c, d \in Device : \A e \in history[c], f \in history[d] : e.id = f.id => e = f

SessionInv == Shape /\ Conversations /\ Stored /\ OneEvent

(***************************************************************************)
(* The two devices, the ledger and the frames.                             *)
(***************************************************************************)
LEMMA PeerFacts ==
  ASSUME NEW d \in Device
  PROVE  /\ Peer(d) \in Device /\ Peer(d) # d /\ Peer(Peer(d)) = d
         /\ \A c \in Device : c = d \/ c = Peer(d)
<1>1. PICK a \in Device, b \in Device : a # b /\ Device = {a, b}
  BY SessionAssumption
<1>2. \A c \in Device : \E p \in Device : p # c
  BY <1>1
<1>3. \A c \in Device : Peer(c) \in Device /\ Peer(c) # c
  BY <1>2 DEF Peer
<1> QED
  BY <1>1, <1>3

LEMMA MarkSeenFacts ==
  ASSUME NEW l \in LedgerState, NEW id \in Nat
  PROVE  /\ MarkSeen(l, id) \in LedgerState /\ MarkSeen(l, id).seen \subseteq l.seen \cup {id}
         /\ MarkSeen(l, id).pending = l.pending /\ MarkSeen(l, id).current = l.current
         /\ MarkSeen(l, id).clock = l.clock
<1> DEFINE order == Append(l.seenOrder, id)
<1>1. order \in Seq(Nat) /\ order # << >> /\ Tail(order) \in Seq(Nat)
  BY DEF LedgerState
<1>3. l.seen \cup {id} \in SUBSET Nat /\ (l.seen \cup {id}) \ {Head(order)} \in SUBSET Nat
  BY DEF LedgerState
<1> HIDE DEF order
<1>4. CASE id \in l.seen
  BY <1>4 DEF MarkSeen
<1>5. CASE id \notin l.seen /\ Len(order) > SeenCapacity
  <2>1. MarkSeen(l, id) = [l EXCEPT !.seen = (l.seen \cup {id}) \ {Head(order)},
                                    !.seenOrder = Tail(order)]
    BY <1>5 DEF MarkSeen, order
  <2> PICK seen : seen = (l.seen \cup {id}) \ {Head(order)}
    OBVIOUS
  <2>2. seen \in SUBSET Nat /\ seen \subseteq l.seen \cup {id}
    BY <1>3
  <2>3. MarkSeen(l, id) = [l EXCEPT !.seen = seen, !.seenOrder = Tail(order)]
    BY <2>1, Zenon
  <2> PICK m : m = MarkSeen(l, id)
    OBVIOUS
  <2> PICK kept : kept = Tail(order)
    OBVIOUS
  <2>4. m = [l EXCEPT !.seen = seen, !.seenOrder = kept] /\ kept \in Seq(Nat)
    BY <1>1, <2>3, Zenon
  <2>5. m \in LedgerState /\ m.seen = seen /\ m.pending = l.pending
        /\ m.current = l.current /\ m.clock = l.clock
    BY <2>2, <2>4 DEF LedgerState
  <2> QED BY <2>2, <2>5
<1>6. CASE id \notin l.seen /\ ~ Len(order) > SeenCapacity
  <2>1. MarkSeen(l, id) = [l EXCEPT !.seen = l.seen \cup {id}, !.seenOrder = order]
    BY <1>6 DEF MarkSeen, order
  <2> PICK m : m = MarkSeen(l, id)
    OBVIOUS
  <2> PICK seen : seen = l.seen \cup {id}
    OBVIOUS
  <2>2. m = [l EXCEPT !.seen = seen, !.seenOrder = order] /\ seen \in SUBSET Nat
    BY <1>3, <2>1, Zenon
  <2>3. m \in LedgerState /\ m.seen = seen /\ m.pending = l.pending
        /\ m.current = l.current /\ m.clock = l.clock
    BY <1>1, <2>2 DEF LedgerState
  <2> QED BY <2>3
<1> QED
  BY <1>4, <1>5, <1>6

LEMMA StampFacts ==
  ASSUME NEW l \in LedgerState, NEW now \in Nat
  PROVE  /\ NextTimestamp(l, now) \in LedgerState /\ NextTimestamp(l, now).seen = l.seen
         /\ NextTimestamp(l, now).clock \in Timestamp
         /\ NextTimestamp(l, now).clock = Tick(l.clock, now)
<1> PICK clock : clock = Tick(l.clock, now)
  OBVIOUS
<1>1. clock \in Timestamp
  BY TickAdvances DEF LedgerState
<1>2. NextTimestamp(l, now) = [l EXCEPT !.clock = clock]
  BY DEF NextTimestamp
<1> QED
  BY <1>1, <1>2 DEF LedgerState

LEMMA RecordLocalFacts ==
  ASSUME NEW l \in LedgerState, NEW e \in ClipboardEvent, NEW peer \in Device, NEW now \in Nat
  PROVE  /\ RecordLocal(NextTimestamp(l, now), e, {peer}, 0) \in LedgerState
         /\ RecordLocal(NextTimestamp(l, now), e, {peer}, 0).seen \subseteq l.seen \cup {e.id}
         /\ RecordLocal(NextTimestamp(l, now), e, {peer}, 0).current = e
         /\ RecordLocal(NextTimestamp(l, now), e, {peer}, 0).clock =
               Merge(Tick(l.clock, now), e.ts, e.ts.physical)
<1> PICK stamped : stamped = NextTimestamp(l, now)
  OBVIOUS
<1>1. /\ l.clock \in Timestamp /\ e.id \in Nat /\ e.ts \in Timestamp /\ e.ts.physical \in Nat
  BY DEF LedgerState, ClipboardEvent, Timestamp
<1>2. ASSUME NEW k \in LedgerState, NEW clock \in Timestamp
      PROVE  /\ [k EXCEPT !.clock = clock] \in LedgerState
             /\ [k EXCEPT !.clock = clock].seen = k.seen
             /\ [k EXCEPT !.clock = clock].clock = clock
  BY DEF LedgerState
<1>3. stamped \in LedgerState /\ stamped.seen = l.seen /\ stamped.clock \in Timestamp
      /\ stamped.clock = Tick(l.clock, now)
  BY StampFacts
<1> PICK clock : clock = Merge(stamped.clock, e.ts, e.ts.physical)
  OBVIOUS
<1> PICK merged : merged = [stamped EXCEPT !.clock = clock]
  OBVIOUS
<1>4. merged \in LedgerState /\ merged.seen = l.seen /\ merged.clock = clock
  <2>1. clock \in Timestamp
    BY <1>1, <1>3, MergeAdvances
  <2>2. merged \in LedgerState /\ merged.seen = stamped.seen /\ merged.clock = clock
    BY <1>2, <1>3, <2>1, Zenon
  <2> QED BY <1>3, <2>2
<1> PICK m : m = MarkSeen(merged, e.id)
  OBVIOUS
<1>5. m \in LedgerState /\ m.seen \subseteq l.seen \cup {e.id} /\ m.clock = clock
  BY <1>1, <1>4, MarkSeenFacts
<1> PICK pending : pending = [other \in Device |->
                                IF other \in {peer} /\ other # stamped.local
                                THEN m.pending[other] \cup {[event |-> e, expires |-> 0]}
                                ELSE m.pending[other]]
  OBVIOUS
<1>6. pending \in [Device -> SUBSET Waiting]
  <2>1. [event |-> e, expires |-> 0] \in Waiting
    BY DEF Waiting
  <2>2. m.pending \in [Device -> SUBSET Waiting]
    BY <1>5 DEF LedgerState
  <2> QED BY <2>1, <2>2
<1>7. RecordLocal(stamped, e, {peer}, 0) = [m EXCEPT !.current = e, !.pending = pending]
  BY DEF RecordLocal
<1>8. /\ [m EXCEPT !.current = e, !.pending = pending] \in LedgerState
      /\ [m EXCEPT !.current = e, !.pending = pending].seen = m.seen
      /\ [m EXCEPT !.current = e, !.pending = pending].current = e
      /\ [m EXCEPT !.current = e, !.pending = pending].clock = m.clock
  BY <1>5, <1>6 DEF LedgerState
<1> QED
  BY <1>3, <1>5, <1>7, <1>8

LEMMA ReceiveFacts ==
  ASSUME NEW l \in LedgerState, NEW e \in ClipboardEvent, NEW now \in Nat
  PROVE  /\ Receive(l, e, now) \in LedgerState /\ Receive(l, e, now).seen \subseteq l.seen \cup {e.id}
         /\ Receive(l, e, now).clock = Merge(l.clock, e.ts, now)
         /\ Receive(l, e, now).current = IF Applies(l, e) THEN e ELSE l.current
<1>1. l.clock \in Timestamp /\ e.id \in Nat /\ e.ts \in Timestamp
  BY DEF LedgerState, ClipboardEvent
<1> PICK clock : clock = Merge(l.clock, e.ts, now)
  OBVIOUS
<1> PICK merged : merged = [l EXCEPT !.clock = clock]
  OBVIOUS
<1>2. clock \in Timestamp
  BY <1>1, MergeAdvances
<1>3. merged \in LedgerState /\ merged.seen = l.seen /\ merged.clock = clock /\ merged.current = l.current
  BY <1>2 DEF LedgerState
<1> PICK m : m = MarkSeen(merged, e.id)
  OBVIOUS
<1>4. m \in LedgerState /\ m.seen \subseteq l.seen \cup {e.id} /\ m.clock = clock /\ m.current = l.current
  BY <1>1, <1>3, MarkSeenFacts
<1>5. /\ [m EXCEPT !.current = e] \in LedgerState /\ [m EXCEPT !.current = e].seen = m.seen
      /\ [m EXCEPT !.current = e].clock = clock /\ [m EXCEPT !.current = e].current = e
  BY <1>4 DEF LedgerState
<1>6. CASE IsDuplicate(l, e)
  <2>1. Receive(l, e, now) = merged /\ ~ Applies(l, e)
    BY <1>6 DEF Receive, Applies
  <2> QED BY <1>3, <2>1
<1>7. CASE ~ IsDuplicate(l, e) /\ Supersedes(l, e)
  <2>1. Receive(l, e, now) = [m EXCEPT !.current = e] /\ Applies(l, e)
    BY <1>7 DEF Receive, Applies
  <2> QED BY <1>4, <1>5, <2>1
<1>8. CASE ~ IsDuplicate(l, e) /\ ~ Supersedes(l, e)
  <2>1. Receive(l, e, now) = m /\ ~ Applies(l, e)
    BY <1>8 DEF Receive, Applies
  <2> QED BY <1>4, <2>1
<1> QED
  BY <1>6, <1>7, <1>8

LEMMA AcknowledgeFacts ==
  ASSUME NEW l \in LedgerState, NEW peer \in Device, NEW id
  PROVE  /\ Acknowledge(l, peer, id) \in LedgerState /\ Acknowledge(l, peer, id).seen = l.seen
         /\ Acknowledge(l, peer, id).current = l.current
         /\ Acknowledge(l, peer, id).clock = l.clock
<1> PICK rest : rest = {p \in l.pending[peer] : p.event.id # id}
  OBVIOUS
<1> PICK pending : pending = [l.pending EXCEPT ![peer] = rest]
  OBVIOUS
<1>1. pending \in [Device -> SUBSET Waiting]
  BY DEF LedgerState
<1>2. Acknowledge(l, peer, id) = [l EXCEPT !.pending = pending]
  BY DEF Acknowledge
<1> QED
  BY <1>1, <1>2 DEF LedgerState

LEMMA TailFacts ==
  ASSUME NEW s \in Seq(Frame), s # << >>, OnePerKind(s)
  PROVE  /\ Head(s) \in Frame /\ Head(s) = s[1] /\ 1 \in DOMAIN s
         /\ Tail(s) \in Seq(Frame) /\ OnePerKind(Tail(s))
         /\ \A i \in DOMAIN Tail(s) : /\ i + 1 \in DOMAIN s /\ Tail(s)[i] = s[i + 1]
                                      /\ Tail(s)[i].kind # Head(s).kind
<1>1. \A i \in DOMAIN Tail(s) : i \in Nat /\ i + 1 \in DOMAIN s /\ i + 1 # 1 /\ Tail(s)[i] = s[i + 1]
  OBVIOUS
<1>2. Head(s) \in Frame /\ Head(s) = s[1] /\ 1 \in DOMAIN s /\ Tail(s) \in Seq(Frame)
  OBVIOUS
<1> QED
  BY <1>1, <1>2 DEF OnePerKind

LEMMA AppendFacts ==
  ASSUME NEW s \in Seq(Frame), NEW x \in Frame, OnePerKind(s),
         \A i \in DOMAIN s : s[i].kind # x.kind
  PROVE  /\ Append(s, x) \in Seq(Frame) /\ OnePerKind(Append(s, x))
         /\ \A i \in DOMAIN Append(s, x) :
               \/ i \in DOMAIN s /\ Append(s, x)[i] = s[i]
               \/ Append(s, x)[i] = x
<1>1. \A i \in DOMAIN Append(s, x) :
         \/ i \in DOMAIN s /\ Append(s, x)[i] = s[i]
         \/ i = Len(s) + 1 /\ Append(s, x)[i] = x
  OBVIOUS
<1>2. Append(s, x) \in Seq(Frame)
  OBVIOUS
<1> QED
  BY <1>1, <1>2 DEF OnePerKind

\* The offers after one of them has moved on, and the fetches after an answer.
Phased(p, x) == [outgoing EXCEPT ![p].phase = x]
Answered(p) == [fetch EXCEPT ![p].phase = "answered"]

LEMMA PhaseFacts ==
  ASSUME outgoing \in [Device -> OutgoingOffer \cup {Nothing}], NEW p \in Device,
         outgoing[p] # Nothing, NEW x, x \in {"unsent", "sent", "acked", "closed"}
  PROVE  /\ Phased(p, x) \in [Device -> OutgoingOffer \cup {Nothing}]
         /\ Phased(p, x)[p] # Nothing /\ Phased(p, x)[p].event = outgoing[p].event /\ Phased(p, x)[p].phase = x
         /\ \A c \in Device : c # p => Phased(p, x)[c] = outgoing[c]
<1>1. Nothing \notin OutgoingOffer
  BY NothingAssumption
<1> PICK o : o = outgoing[p]
  OBVIOUS
<1>2. o \in OutgoingOffer
  OBVIOUS
<1> PICK n : n = [o EXCEPT !.phase = x]
  OBVIOUS
<1>3. n \in OutgoingOffer /\ n.event = o.event /\ n.phase = x
  BY <1>2 DEF OutgoingOffer
<1>4. Phased(p, x) = [outgoing EXCEPT ![p] = n]
  BY DEF Phased
<1> QED
  BY <1>1, <1>3, <1>4

LEMMA AnswerFacts ==
  ASSUME fetch \in [Device -> PendingFetch \cup {Nothing}], NEW p \in Device,
         fetch[p] # Nothing
  PROVE  /\ Answered(p) \in [Device -> PendingFetch \cup {Nothing}]
         /\ Answered(p)[p] # Nothing /\ Answered(p)[p].event = fetch[p].event
         /\ \A c \in Device : c # p => Answered(p)[c] = fetch[c]
<1>1. Nothing \notin PendingFetch
  BY NothingAssumption
<1> PICK o : o = fetch[p]
  OBVIOUS
<1>2. o \in PendingFetch
  OBVIOUS
<1> PICK n : n = [o EXCEPT !.phase = "answered"]
  OBVIOUS
<1>3. n \in PendingFetch /\ n.event = o.event
  BY <1>2 DEF PendingFetch
<1>4. Answered(p) = [fetch EXCEPT ![p] = n]
  BY DEF Answered
<1> QED
  BY <1>1, <1>3, <1>4

(***************************************************************************)
(* Steps after which the disks are what they were.                         *)
(***************************************************************************)
LEMMA DisksStay ==
  ASSUME Shape, Stored, OneEvent, UNCHANGED <<history, blobs, issued>>,
         \A d \in Device : /\ ledger'[d].seen \subseteq ledger[d].seen
                           /\ outgoing'[d] # Nothing =>
                                 /\ outgoing[d] # Nothing
                                 /\ outgoing'[d].event = outgoing[d].event
                                 /\ outgoing'[d].phase = "acked" => outgoing[d].phase = "acked"
  PROVE  Stored' /\ OneEvent'
<1>1. OneEvent'
  BY DEF OneEvent
<1>2. ASSUME NEW d \in Device
      PROVE  Kept(history[d], blobs[d], outgoing[d], history[Peer(d)], ledger[d].seen)'
  BY <1>2 DEF Kept, Stored
<1> QED
  BY <1>1, <1>2 DEF Stored

\* A step that leaves the processes alone, and the connection or nothing in it.
LEMMA QuietStep ==
  ASSUME SessionInv, UNCHANGED <<ledger, outgoing, fetch, history, blobs, issued>>,
         board' \in [Device -> Contents], digest' \in [Device -> Contents],
         typed' \in [Device -> BOOLEAN], running' \in [Device -> BOOLEAN],
         \/ UNCHANGED <<inbox, connected, running>>
         \/ connected' = FALSE /\ inbox' = [d \in Device |-> << >>]
  PROVE  SessionInv'
<1>1. << >> \in Seq(Frame) /\ \A i \in DOMAIN << >> : FALSE
  OBVIOUS
<1>2. Shape'
  BY <1>1 DEF SessionInv, Shape
<1>3. Conversations'
  <2>1. CASE UNCHANGED <<inbox, connected, running>>
    BY <2>1 DEF SessionInv, Conversations, Conversation, OnePerKind, Requested
  <2>2. CASE connected' = FALSE /\ inbox' = [d \in Device |-> << >>]
    <3>1. \A d \in Device : inbox'[d] = << >>
      BY <2>2
    <3> QED BY <1>1, <2>2, <3>1 DEF Conversations, Conversation, OnePerKind
  <2> QED BY <2>1, <2>2
<1>4. Stored' /\ OneEvent'
  BY DisksStay DEF SessionInv
<1> QED
  BY <1>2, <1>3, <1>4 DEF SessionInv

LEMMA StopIsQuiet ==
  ASSUME SessionInv, NEW d \in Device, Stop(d),
         UNCHANGED <<ledger, outgoing, fetch, history, blobs, issued>>,
         board' \in [Device -> Contents], digest' \in [Device -> Contents],
         typed' \in [Device -> BOOLEAN]
  PROVE  SessionInv'
<1>1. running' \in [Device -> BOOLEAN] /\ connected' = FALSE /\ inbox' = [p \in Device |-> << >>]
  BY DEF Stop, SessionInv, Shape
<1> QED
  BY <1>1, QuietStep

\* What a device says of a request dropped by its select, and of the offer it was.
LEMMA DropFacts ==
  ASSUME SessionInv, NEW d \in Device, Selecting(d), NEW dropped \in BOOLEAN,
         DropsRequest(d, dropped), NEW next, next = Interrupted(d, dropped)
  PROVE  /\ inbox' \in [Device -> Seq(Frame)] /\ inbox'[Peer(d)] = inbox[Peer(d)]
         /\ next \in [Device -> OutgoingOffer \cup {Nothing}] /\ next[d] = outgoing[d]
         /\ next[Peer(d)] # Nothing =>
               /\ outgoing[Peer(d)] # Nothing
               /\ next[Peer(d)].event = outgoing[Peer(d)].event
               /\ next[Peer(d)].phase = "acked" => outgoing[Peer(d)].phase = "acked"
         /\ outgoing[Peer(d)] # Nothing =>
               /\ next[Peer(d)] # Nothing
               /\ next[Peer(d)].phase \in {outgoing[Peer(d)].phase, "closed"}
         /\ Conversation(inbox'[d], fetch[d], next[Peer(d)], fetch[Peer(d)], connected)
<1>1. Peer(d) \in Device /\ Peer(d) # d
  BY PeerFacts
<1>2. Conversation(inbox[d], fetch[d], outgoing[Peer(d)], fetch[Peer(d)], connected)
  BY DEF SessionInv, Conversations
<1>3. CASE ~ dropped
  <2>1. next = outgoing /\ inbox' = inbox
    <3>1. inbox \in [Device -> Seq(Frame)]
      BY DEF SessionInv, Shape
    <3> QED BY <1>3, <3>1 DEF Interrupted, DropsRequest
  <2>2. outgoing \in [Device -> OutgoingOffer \cup {Nothing}] /\ inbox \in [Device -> Seq(Frame)]
    BY DEF SessionInv, Shape
  <2>3. Conversation(inbox'[d], fetch[d], next[Peer(d)], fetch[Peer(d)], connected)
    BY <1>2, <2>1, Zenon
  <2> QED BY <2>1, <2>2, <2>3
<1>4. CASE dropped
  <2>1. inbox[d] # << >> /\ Head(inbox[d]).kind = "offer"
    BY <1>4 DEF DropsRequest, PartlyRead
  <2>2. /\ outgoing \in [Device -> OutgoingOffer \cup {Nothing}]
        /\ inbox \in [Device -> Seq(Frame)]
    BY DEF SessionInv, Shape
  <2>3. OnePerKind(inbox[d]) /\ \A i \in DOMAIN inbox[d] :
            Requested(inbox[d][i], outgoing[Peer(d)], fetch[Peer(d)])
    BY <1>2 DEF Conversation
  <2>4. /\ Head(inbox[d]) = inbox[d][1] /\ 1 \in DOMAIN inbox[d]
        /\ Tail(inbox[d]) \in Seq(Frame) /\ OnePerKind(Tail(inbox[d]))
        /\ \A i \in DOMAIN Tail(inbox[d]) :
              /\ i + 1 \in DOMAIN inbox[d] /\ Tail(inbox[d])[i] = inbox[d][i + 1]
              /\ Tail(inbox[d])[i].kind # "offer"
    BY <2>1, <2>2, <2>3, TailFacts
  <2>5. inbox' = [inbox EXCEPT ![d] = Tail(inbox[d])]
    BY <1>4 DEF DropsRequest
  <2>6. /\ inbox' \in [Device -> Seq(Frame)] /\ inbox'[d] = Tail(inbox[d])
        /\ inbox'[Peer(d)] = inbox[Peer(d)]
    BY <1>1, <2>2, <2>4, <2>5
  <2>7. outgoing[Peer(d)] # Nothing
    BY <2>1, <2>3, <2>4 DEF Requested
  <2>8. next = Phased(Peer(d), "closed")
    BY <1>4 DEF Interrupted, Phased
  <2>9. /\ next \in [Device -> OutgoingOffer \cup {Nothing}] /\ next[Peer(d)] # Nothing
        /\ next[Peer(d)].event = outgoing[Peer(d)].event /\ next[Peer(d)].phase = "closed"
        /\ next[d] = outgoing[d]
    BY <1>1, <2>2, <2>7, <2>8, PhaseFacts
  <2>10. connected /\ fetch[d] = Nothing
    BY <1>2, <2>1 DEF Conversation, Selecting
  <2>11. ASSUME NEW i \in DOMAIN Tail(inbox[d])
         PROVE  Requested(Tail(inbox[d])[i], next[Peer(d)], fetch[Peer(d)])
    BY <2>3, <2>4 DEF Requested
  <2>12. Conversation(Tail(inbox[d]), fetch[d], next[Peer(d)], fetch[Peer(d)], connected)
    BY <2>4, <2>10, <2>11 DEF Conversation
  <2>13. Conversation(inbox'[d], fetch[d], next[Peer(d)], fetch[Peer(d)], connected)
    BY <2>6, <2>12, Zenon
  <2> QED BY <2>6, <2>7, <2>9, <2>13
<1> QED
  BY <1>3, <1>4

(***************************************************************************)
(* The steps that change what an offer, a request or a disk holds.         *)
(***************************************************************************)
\* Before an offer is sent and after it has been answered, nothing of it is at
\* the peer.
LEMMA NothingOnTheWay ==
  ASSUME NEW frames, NEW own, NEW offer, NEW asked, NEW open, NEW other,
         Conversation(frames, own, offer, asked, open),
         offer = Nothing \/ offer.phase # "sent"
  PROVE  /\ Conversation(frames, own, other, asked, open)
         /\ \A i \in DOMAIN frames : frames[i].kind # "offer"
         /\ open => own = Nothing
BY DEF Conversation, Requested

LEMMA IdleTickStep ==
  ASSUME SessionInv, NEW d \in Device, IdleTick(d)
  PROVE  SessionInv'
<1>1. Peer(d) \in Device /\ Peer(d) # d /\ Peer(Peer(d)) = d
      /\ \A c \in Device : c = d \/ c = Peer(d)
  BY PeerFacts
<1>2. /\ Selecting(d) /\ DropsRequest(d, TRUE) /\ outgoing' = Interrupted(d, TRUE)
      /\ UNCHANGED <<board, typed, running, connected, digest, ledger, fetch, history, blobs,
                     issued>>
  BY DEF IdleTick, disk, bounds
<1>3. /\ inbox' \in [Device -> Seq(Frame)] /\ inbox'[Peer(d)] = inbox[Peer(d)]
      /\ outgoing' \in [Device -> OutgoingOffer \cup {Nothing}] /\ outgoing'[d] = outgoing[d]
      /\ outgoing'[Peer(d)] # Nothing =>
            /\ outgoing[Peer(d)] # Nothing
            /\ outgoing'[Peer(d)].event = outgoing[Peer(d)].event
            /\ outgoing'[Peer(d)].phase = "acked" => outgoing[Peer(d)].phase = "acked"
      /\ Conversation(inbox'[d], fetch[d], outgoing'[Peer(d)], fetch[Peer(d)], connected)
  BY <1>2, DropFacts, TRUE \in BOOLEAN
<1>4. Shape'
  BY <1>2, <1>3 DEF SessionInv, Shape
<1>5. Conversations'
  <2>1. Conversation(inbox[Peer(d)], fetch[Peer(d)], outgoing[d], fetch[d], connected)
    BY <1>1 DEF SessionInv, Conversations
  <2>2. ASSUME NEW c \in Device
        PROVE  Conversation(inbox'[c], fetch'[c], outgoing'[Peer(c)], fetch'[Peer(c)], connected')
    <3>1. fetch' = fetch /\ connected' = connected
      BY <1>2
    <3>2. CASE c = d
      BY <1>3, <3>1, <3>2, Zenon
    <3>3. CASE c = Peer(d)
      BY <1>1, <1>3, <2>1, <3>1, <3>3, Zenon
    <3> QED BY <1>1, <3>2, <3>3
  <2>3. connected' => \A c \in Device : running'[c]
    BY <1>2 DEF SessionInv, Conversations
  <2> QED BY <2>2, <2>3 DEF Conversations
<1>6. Stored' /\ OneEvent'
  <2>1. \A c \in Device : /\ ledger'[c].seen \subseteq ledger[c].seen
                          /\ outgoing'[c] # Nothing =>
                                /\ outgoing[c] # Nothing
                                /\ outgoing'[c].event = outgoing[c].event
                                /\ outgoing'[c].phase = "acked" => outgoing[c].phase = "acked"
    BY <1>1, <1>2, <1>3
  <2> QED BY <1>2, <2>1, DisksStay DEF SessionInv
<1> QED
  BY <1>4, <1>5, <1>6 DEF SessionInv

LEMMA PollStep ==
  ASSUME SessionInv, NEW d \in Device, NEW now \in Nat, NEW dropped \in BOOLEAN,
         PollLocal(d, now, dropped)
  PROVE  SessionInv'
<1> PICK stamped : stamped = NextTimestamp(ledger[d], now)
  OBVIOUS
<1> PICK e : e = [id |-> issued + 1, origin |-> d, ts |-> stamped.clock, value |-> board[d]]
  OBVIOUS
<1> PICK mid : mid = Interrupted(d, dropped)
  OBVIOUS
<1> PICK offer : offer = [event |-> e, phase |-> "unsent"]
  OBVIOUS
<1> PICK mine : mine = RecordLocal(stamped, e, {Peer(d)}, 0)
  OBVIOUS
<1>1. Peer(d) \in Device /\ Peer(d) # d /\ Peer(Peer(d)) = d
      /\ \A c \in Device : c = d \/ c = Peer(d)
  BY PeerFacts
<1>2. Shape /\ ledger[d] \in LedgerState /\ Nothing \notin Value
  BY SessionAssumption DEF SessionInv, Shape
<1>3. /\ Selecting(d) /\ outgoing[d] = Nothing
      /\ board[d] \in Value \ Unreadable
      /\ digest' = [digest EXCEPT ![d] = board[d]]
      /\ history' = [history EXCEPT ![d] = history[d] \cup {e}]
      /\ blobs' = [blobs EXCEPT ![d] = IF e.value \in Image THEN blobs[d] \cup {e.value}
                                       ELSE blobs[d]]
      /\ ledger' = [ledger EXCEPT ![d] = mine]
      /\ DropsRequest(d, dropped)
      /\ outgoing' = [mid EXCEPT ![d] = offer]
      /\ issued' = issued + 1
      /\ UNCHANGED <<board, typed, running, connected, fetch>>
  BY <1>2 DEF PollLocal, Persisted, Shape, Contents
<1>4. e \in ClipboardEvent /\ e.id = issued + 1 /\ mine \in LedgerState
      /\ mine.seen \subseteq ledger[d].seen \cup {issued + 1}
  <2>1. issued + 1 \in Nat
    BY <1>2 DEF Shape
  <2>2. stamped.clock \in Timestamp
    BY <1>2, StampFacts
  <2>3. e \in ClipboardEvent
    BY <1>3, <2>1, <2>2 DEF ClipboardEvent
  <2>4. e.id = issued + 1 /\ Peer(d) \in Device
    BY <1>1
  <2>5. /\ RecordLocal(stamped, e, {Peer(d)}, 0) \in LedgerState
        /\ RecordLocal(stamped, e, {Peer(d)}, 0).seen \subseteq ledger[d].seen \cup {e.id}
    BY <1>2, <2>3, <2>4, RecordLocalFacts
  <2> QED BY <2>3, <2>4, <2>5
<1>5. offer \in OutgoingOffer /\ offer.event = e /\ offer.phase = "unsent" /\ offer # Nothing
  BY <1>4, NothingAssumption DEF OutgoingOffer
<1>6. /\ inbox' \in [Device -> Seq(Frame)] /\ inbox'[Peer(d)] = inbox[Peer(d)]
      /\ mid \in [Device -> OutgoingOffer \cup {Nothing}]
      /\ mid[Peer(d)] # Nothing =>
            /\ outgoing[Peer(d)] # Nothing
            /\ mid[Peer(d)].event = outgoing[Peer(d)].event
            /\ mid[Peer(d)].phase = "acked" => outgoing[Peer(d)].phase = "acked"
      /\ Conversation(inbox'[d], fetch[d], mid[Peer(d)], fetch[Peer(d)], connected)
  BY <1>3, DropFacts
<1>7. outgoing' \in [Device -> OutgoingOffer \cup {Nothing}]
      /\ outgoing'[d] = offer /\ outgoing'[Peer(d)] = mid[Peer(d)]
  BY <1>1, <1>3, <1>5, <1>6
<1>8. /\ history'[d] = history[d] \cup {e} /\ history'[Peer(d)] = history[Peer(d)]
      /\ blobs[d] \subseteq blobs'[d] /\ blobs'[Peer(d)] = blobs[Peer(d)]
      /\ e.value \in Image => e.value \in blobs'[d]
      /\ ledger'[d] = mine /\ ledger'[Peer(d)] = ledger[Peer(d)]
  BY <1>1, <1>2, <1>3 DEF Shape
<1>9. Shape'
  <2>1. e.value = board[d]
    OBVIOUS
  <2>2. blobs' \in [Device -> SUBSET Value]
    BY <1>2, <1>3, <2>1 DEF Shape
  <2>3. history' \in [Device -> SUBSET ClipboardEvent] /\ ledger' \in [Device -> LedgerState]
    BY <1>2, <1>3, <1>4 DEF Shape
  <2>4. digest' \in [Device -> Contents] /\ issued' \in Nat
    BY <1>2, <1>3 DEF Shape, Contents
  <2> QED BY <1>2, <1>3, <1>6, <1>7, <2>2, <2>3, <2>4 DEF Shape
<1>10. Conversations'
  <2>1. Conversation(inbox[Peer(d)], fetch[Peer(d)], offer, fetch[d], connected)
    <3>1. Conversation(inbox[Peer(d)], fetch[Peer(d)], outgoing[d], fetch[d], connected)
      BY <1>1 DEF SessionInv, Conversations
    <3> QED BY <1>3, <3>1, NothingOnTheWay
  <2>2. ASSUME NEW c \in Device
        PROVE  Conversation(inbox'[c], fetch'[c], outgoing'[Peer(c)], fetch'[Peer(c)], connected')
    <3>1. fetch' = fetch /\ connected' = connected
      BY <1>3
    <3>2. CASE c = d
      BY <1>6, <1>7, <3>1, <3>2, Zenon
    <3>3. CASE c = Peer(d)
      BY <1>1, <1>6, <1>7, <2>1, <3>1, <3>3, Zenon
    <3> QED BY <1>1, <3>2, <3>3
  <2>3. connected' => \A c \in Device : running'[c]
    BY <1>3 DEF SessionInv, Conversations
  <2> QED BY <2>2, <2>3 DEF Conversations
<1>11. Stored'
  <2>1. /\ Kept(history[d], blobs[d], outgoing[d], history[Peer(d)], ledger[d].seen)
        /\ Kept(history[Peer(d)], blobs[Peer(d)], outgoing[Peer(d)], history[d],
                ledger[Peer(d)].seen)
    BY <1>1 DEF SessionInv, Stored
  <2>2. \A f \in history[d] \cup history[Peer(d)] : f.id \in Nat /\ issued \in Nat
    BY <1>1, <1>2 DEF Shape, ClipboardEvent
  <2>3. Kept(history[d], blobs[d], outgoing[d], history[Peer(d)], ledger[d].seen)'
    <3>1. /\ \A f \in history[d] : f.id <= issued /\ (f.value \in Image => f.value \in blobs[d])
          /\ \A id \in ledger[d].seen : \E f \in history[d] : f.id = id
      BY <2>1 DEF Kept
    <3>2. \A f \in history'[d] : f.id <= issued' /\ (f.value \in Image => f.value \in blobs'[d])
      BY <1>3, <1>4, <1>8, <2>2, <3>1
    <3>3. \A id \in ledger'[d].seen : \E f \in history'[d] : f.id = id
      BY <1>4, <1>8, <3>1
    <3>4. outgoing'[d].event \in history'[d] /\ outgoing'[d].phase # "acked"
      BY <1>5, <1>7, <1>8
    <3> QED BY <3>2, <3>3, <3>4 DEF Kept
  <2>4. Kept(history[Peer(d)], blobs[Peer(d)], outgoing[Peer(d)], history[d],
             ledger[Peer(d)].seen)'
    BY <1>3, <1>6, <1>7, <1>8, <2>1, <2>2 DEF Kept
  <2>5. ASSUME NEW c \in Device
        PROVE  Kept(history[c], blobs[c], outgoing[c], history[Peer(c)], ledger[c].seen)'
    BY <1>1, <2>3, <2>4
  <2> QED BY <2>5 DEF Stored
<1>12. OneEvent'
  <2>1. \A c \in Device : \A f \in history[c] : f.id # e.id
    BY <1>2, <1>4 DEF SessionInv, Stored, Kept, Shape, ClipboardEvent
  <2>2. \A c \in Device : history'[c] = history[c] \/ history'[c] = history[c] \cup {e}
    BY <1>1, <1>8
  <2> QED BY <2>1, <2>2 DEF SessionInv, OneEvent
<1> QED
  BY <1>9, <1>10, <1>11, <1>12 DEF SessionInv

LEMMA SendStep ==
  ASSUME SessionInv, NEW d \in Device, SendOffer(d)
  PROVE  SessionInv'
<1> PICK x : x = Offer(outgoing[d].event)
  OBVIOUS
<1>1. Peer(d) \in Device /\ Peer(d) # d /\ Peer(Peer(d)) = d
      /\ \A c \in Device : c = d \/ c = Peer(d)
  BY PeerFacts
<1>2. Shape
  BY DEF SessionInv
<1>3. /\ fetch[d] = Nothing /\ connected
      /\ outgoing[d] # Nothing /\ outgoing[d].phase = "unsent"
      /\ outgoing' = Phased(d, "sent")
      /\ inbox' = [inbox EXCEPT ![Peer(d)] = Append(inbox[Peer(d)], x)]
      /\ UNCHANGED <<board, typed, running, connected, digest, ledger, fetch, history, blobs,
                     issued>>
  BY DEF SendOffer, Selecting, disk, bounds, Phased
<1>4. /\ outgoing' \in [Device -> OutgoingOffer \cup {Nothing}]
      /\ outgoing'[d] # Nothing /\ outgoing'[d].event = outgoing[d].event
      /\ outgoing'[d].phase = "sent" /\ outgoing'[Peer(d)] = outgoing[Peer(d)]
  BY <1>1, <1>2, <1>3, PhaseFacts DEF Shape
<1>5. x \in Frame /\ x.kind = "offer" /\ x.event = outgoing[d].event
  BY <1>2, <1>3 DEF Shape, Offer, Frame, OutgoingOffer
<1>6. /\ Conversation(inbox[Peer(d)], fetch[Peer(d)], outgoing'[d], fetch[d], connected)
      /\ \A i \in DOMAIN inbox[Peer(d)] : inbox[Peer(d)][i].kind # "offer"
      /\ fetch[Peer(d)] = Nothing
  <2>1. Conversation(inbox[Peer(d)], fetch[Peer(d)], outgoing[d], fetch[d], connected)
    BY <1>1 DEF SessionInv, Conversations
  <2> QED BY <1>3, <2>1, NothingOnTheWay
<1>7. /\ inbox[Peer(d)] \in Seq(Frame) /\ OnePerKind(inbox[Peer(d)])
      /\ \A i \in DOMAIN inbox[Peer(d)] :
            Requested(inbox[Peer(d)][i], outgoing'[d], fetch[d])
  BY <1>1, <1>2, <1>6 DEF Shape, Conversation
<1>8. /\ Append(inbox[Peer(d)], x) \in Seq(Frame) /\ OnePerKind(Append(inbox[Peer(d)], x))
      /\ \A i \in DOMAIN Append(inbox[Peer(d)], x) :
            \/ /\ i \in DOMAIN inbox[Peer(d)]
               /\ Append(inbox[Peer(d)], x)[i] = inbox[Peer(d)][i]
            \/ Append(inbox[Peer(d)], x)[i] = x
  BY <1>5, <1>6, <1>7, AppendFacts
<1>9. /\ inbox' \in [Device -> Seq(Frame)]
      /\ inbox'[Peer(d)] = Append(inbox[Peer(d)], x) /\ inbox'[d] = inbox[d]
  BY <1>1, <1>2, <1>3, <1>8 DEF Shape
<1>10. Shape'
  BY <1>2, <1>3, <1>4, <1>9 DEF Shape
<1>11. Conversations'
  <2>1. Requested(x, outgoing'[d], fetch[d])
    BY <1>4, <1>5 DEF Requested
  <2>2. ASSUME NEW i \in DOMAIN Append(inbox[Peer(d)], x)
        PROVE  Requested(Append(inbox[Peer(d)], x)[i], outgoing'[d], fetch[d])
    BY <1>7, <1>8, <2>1, Zenon
  <2>3. Conversation(Append(inbox[Peer(d)], x), fetch[Peer(d)], outgoing'[d], fetch[d], connected)
    BY <1>3, <1>6, <1>8, <2>2 DEF Conversation
  <2>4. Conversation(inbox[d], fetch[d], outgoing[Peer(d)], fetch[Peer(d)], connected)
    BY DEF SessionInv, Conversations
  <2>5. ASSUME NEW c \in Device
        PROVE  Conversation(inbox'[c], fetch'[c], outgoing'[Peer(c)], fetch'[Peer(c)], connected')
    <3>1. fetch' = fetch /\ connected' = connected
      BY <1>3
    <3>2. CASE c = d
      BY <1>4, <1>9, <2>4, <3>1, <3>2, Zenon
    <3>3. CASE c = Peer(d)
      BY <1>1, <1>9, <2>3, <3>1, <3>3, Zenon
    <3> QED BY <1>1, <3>2, <3>3
  <2>6. connected' => \A c \in Device : running'[c]
    BY <1>3 DEF SessionInv, Conversations
  <2> QED BY <2>5, <2>6 DEF Conversations
<1>12. Stored' /\ OneEvent'
  BY <1>1, <1>2, <1>3, <1>4, DisksStay DEF SessionInv
<1> QED
  BY <1>10, <1>11, <1>12 DEF SessionInv

LEMMA AcknowledgementStep ==
  ASSUME SessionInv, NEW d \in Device, NEW dropped \in BOOLEAN, ReceiveAck(d, dropped)
  PROVE  SessionInv'
<1> PICK id : id = outgoing[d].event.id
  OBVIOUS
<1> PICK mid : mid = Interrupted(d, dropped)
  OBVIOUS
<1>1. Peer(d) \in Device /\ Peer(d) # d /\ Peer(Peer(d)) = d
      /\ \A c \in Device : c = d \/ c = Peer(d)
  BY PeerFacts
<1>2. Shape
  BY DEF SessionInv
<1>3. CASE ~ AwaitsAck(ledger[d], Peer(d), id)
  <2>1. Stop(d) /\ UNCHANGED <<board, typed, digest, ledger, outgoing, fetch, history, blobs, issued>>
    BY <1>3 DEF ReceiveAck, process, disk, bounds
  <2>2. board \in [Device -> Contents] /\ digest \in [Device -> Contents]
        /\ typed \in [Device -> BOOLEAN]
    BY <1>2 DEF Shape
  <2> QED BY <2>1, <2>2, StopIsQuiet
<1>4. CASE AwaitsAck(ledger[d], Peer(d), id)
  <2>1. /\ Selecting(d) /\ outgoing[d] # Nothing /\ outgoing[d].phase = "acked"
        /\ ledger' = [ledger EXCEPT ![d] = Acknowledge(ledger[d], Peer(d), id)]
        /\ DropsRequest(d, dropped)
        /\ outgoing' = [mid EXCEPT ![d] = Nothing]
        /\ UNCHANGED <<board, typed, running, connected, digest, fetch, history, blobs, issued>>
    BY <1>4 DEF ReceiveAck, disk, bounds
  <2>2. /\ inbox' \in [Device -> Seq(Frame)] /\ inbox'[Peer(d)] = inbox[Peer(d)]
        /\ mid \in [Device -> OutgoingOffer \cup {Nothing}]
        /\ mid[Peer(d)] # Nothing =>
              /\ outgoing[Peer(d)] # Nothing
              /\ mid[Peer(d)].event = outgoing[Peer(d)].event
              /\ mid[Peer(d)].phase = "acked" => outgoing[Peer(d)].phase = "acked"
        /\ Conversation(inbox'[d], fetch[d], mid[Peer(d)], fetch[Peer(d)], connected)
    BY <2>1, DropFacts
  <2>3. /\ outgoing' \in [Device -> OutgoingOffer \cup {Nothing}]
        /\ outgoing'[d] = Nothing /\ outgoing'[Peer(d)] = mid[Peer(d)]
    BY <1>1, <2>1, <2>2
  <2>4. /\ ledger' \in [Device -> LedgerState] /\ ledger'[d].seen = ledger[d].seen
        /\ ledger'[Peer(d)] = ledger[Peer(d)]
    <3>1. Acknowledge(ledger[d], Peer(d), id) \in LedgerState
          /\ Acknowledge(ledger[d], Peer(d), id).seen = ledger[d].seen
      BY <1>1, <1>2, AcknowledgeFacts DEF Shape
    <3> QED BY <1>1, <1>2, <2>1, <3>1 DEF Shape
  <2>5. Shape'
    BY <1>2, <2>1, <2>2, <2>3, <2>4 DEF Shape
  <2>6. Conversations'
    <3>1. Conversation(inbox[Peer(d)], fetch[Peer(d)], Nothing, fetch[d], connected)
      <4>1. Conversation(inbox[Peer(d)], fetch[Peer(d)], outgoing[d], fetch[d], connected)
        BY <1>1 DEF SessionInv, Conversations
      <4> QED BY <2>1, <4>1, NothingOnTheWay
    <3>2. ASSUME NEW c \in Device
          PROVE  Conversation(inbox'[c], fetch'[c], outgoing'[Peer(c)], fetch'[Peer(c)], connected')
      <4>1. fetch' = fetch /\ connected' = connected
        BY <2>1
      <4>2. CASE c = d
        BY <2>2, <2>3, <4>1, <4>2, Zenon
      <4>3. CASE c = Peer(d)
        BY <1>1, <2>2, <2>3, <3>1, <4>1, <4>3, Zenon
      <4> QED BY <1>1, <4>2, <4>3
    <3>3. connected' => \A c \in Device : running'[c]
      BY <2>1 DEF SessionInv, Conversations
    <3> QED BY <3>2, <3>3 DEF Conversations
  <2>7. Stored' /\ OneEvent'
    <3>1. \A c \in Device : /\ ledger'[c].seen \subseteq ledger[c].seen
                            /\ outgoing'[c] # Nothing =>
                                  /\ outgoing[c] # Nothing
                                  /\ outgoing'[c].event = outgoing[c].event
                                  /\ outgoing'[c].phase = "acked" => outgoing[c].phase = "acked"
      BY <1>1, <2>2, <2>3, <2>4
    <3> QED BY <1>2, <2>1, <3>1, DisksStay DEF SessionInv
  <2> QED BY <2>5, <2>6, <2>7 DEF SessionInv
<1> QED
  BY <1>3, <1>4

\* A new pair of processes knows nothing and waits for nothing.
LEMMA StartStep ==
  ASSUME SessionInv, StartSession
  PROVE  SessionInv'
<1>1. PICK start \in Starts : ledger' = [d \in Device |-> NewLedger(d, start[d])]
  BY DEF StartSession
<1>2. \A d \in Device : start[d] \in Nat
  BY SessionAssumption DEF Starts
<1>3. /\ running' = [d \in Device |-> TRUE] /\ connected' = TRUE
      /\ digest' = [d \in Device |-> Nothing] /\ outgoing' = [d \in Device |-> Nothing]
      /\ fetch' = [d \in Device |-> Nothing] /\ inbox' = [d \in Device |-> << >>]
      /\ UNCHANGED <<board, typed, history, blobs, issued>>
  BY DEF StartSession, disk
<1>4. ASSUME NEW d \in Device
      PROVE  NewLedger(d, start[d]) \in LedgerState /\ NewLedger(d, start[d]).seen = {}
  <2>1. NewTimestamp(start[d]) \in Timestamp
    BY <1>2, LogicalMaxAssumption DEF NewTimestamp, Timestamp
  <2>2. << >> \in Seq(Nat) /\ [peer \in Device |-> {}] \in [Device -> SUBSET Waiting]
    OBVIOUS
  <2> QED BY <2>1, <2>2 DEF NewLedger, LedgerState
<1>5. << >> \in Seq(Frame) /\ \A i \in DOMAIN << >> : FALSE
  OBVIOUS
<1>6. Shape'
  BY <1>1, <1>3, <1>4, <1>5 DEF SessionInv, Shape, Contents
<1>7. Conversations'
  <2>1. \A d \in Device : inbox'[d] = << >> /\ fetch'[d] = Nothing
    BY <1>3
  <2> QED BY <1>3, <1>5, <2>1 DEF Conversations, Conversation, OnePerKind
<1>8. Stored' /\ OneEvent'
  <2>1. \A d \in Device : ledger'[d].seen = {} /\ outgoing'[d] = Nothing
    BY <1>1, <1>3, <1>4
  <2> QED BY <1>3, <2>1, DisksStay DEF SessionInv
<1> QED
  BY <1>6, <1>7, <1>8 DEF SessionInv

LEMMA RequestStep ==
  ASSUME SessionInv, NEW d \in Device, NEW now \in Nat, RequestBlob(d, now)
  PROVE  SessionInv'
<1> PICK e : e = Head(inbox[d]).event
  OBVIOUS
<1> PICK asked : asked = [event |-> e, now |-> now, phase |-> "asked"]
  OBVIOUS
<1> PICK x : x = BlobRequest(e.value)
  OBVIOUS
<1>1. Peer(d) \in Device /\ Peer(d) # d /\ Peer(Peer(d)) = d
      /\ \A c \in Device : c = d \/ c = Peer(d)
  BY PeerFacts
<1>2. Shape
  BY DEF SessionInv
<1>3. /\ fetch[d] = Nothing /\ connected
      /\ inbox[d] # << >> /\ Head(inbox[d]).kind = "offer"
      /\ fetch' = [fetch EXCEPT ![d] = asked]
      /\ inbox' = [inbox EXCEPT ![d] = Tail(inbox[d]), ![Peer(d)] = Append(inbox[Peer(d)], x)]
      /\ UNCHANGED <<board, typed, running, connected, digest, ledger, outgoing, history, blobs,
                     issued>>
  <2>1. inbox' = [inbox EXCEPT ![d] = Tail(inbox[d]), ![Peer(d)] = Append(@, x)]
    BY DEF RequestBlob
  <2>2. inbox' = [inbox EXCEPT ![d] = Tail(inbox[d]), ![Peer(d)] = Append(inbox[Peer(d)], x)]
    BY <1>1, <1>2, <2>1 DEF Shape
  <2> QED BY <2>2 DEF RequestBlob, Selecting, disk, bounds
<1>4. /\ Conversation(inbox[d], Nothing, outgoing[Peer(d)], fetch[Peer(d)], TRUE)
      /\ Conversation(inbox[Peer(d)], fetch[Peer(d)], outgoing[d], Nothing, TRUE)
  <2>1. connected = TRUE
    BY <1>2, <1>3 DEF Shape
  <2> QED BY <1>1, <1>3, <2>1 DEF SessionInv, Conversations
<1>5. /\ Head(inbox[d]) \in Frame /\ Head(inbox[d]) = inbox[d][1] /\ 1 \in DOMAIN inbox[d]
      /\ Tail(inbox[d]) \in Seq(Frame) /\ OnePerKind(Tail(inbox[d]))
      /\ \A i \in DOMAIN Tail(inbox[d]) : /\ i + 1 \in DOMAIN inbox[d]
                                          /\ Tail(inbox[d])[i] = inbox[d][i + 1]
                                          /\ Tail(inbox[d])[i].kind # "offer"
  BY <1>2, <1>3, <1>4, TailFacts DEF Conversation, Shape
<1>6. /\ outgoing[Peer(d)] # Nothing /\ outgoing[Peer(d)].event = e
      /\ outgoing[Peer(d)].phase = "sent"
  BY <1>3, <1>4, <1>5 DEF Conversation, Requested
<1>7. e \in ClipboardEvent /\ x \in Frame /\ x.kind = "blob"
  <2>1. e \in ClipboardEvent
    BY <1>1, <1>2, <1>6 DEF Shape, OutgoingOffer
  <2> QED BY <2>1 DEF ClipboardEvent, BlobRequest, Frame
<1>8. /\ asked \in PendingFetch /\ asked # Nothing /\ asked.event = e /\ asked.phase = "asked"
  BY <1>7, NothingAssumption DEF PendingFetch
<1>9. \A i \in DOMAIN inbox[Peer(d)] : inbox[Peer(d)][i].kind # x.kind
  BY <1>4, <1>7 DEF Conversation, Requested
<1>10. /\ Append(inbox[Peer(d)], x) \in Seq(Frame) /\ OnePerKind(Append(inbox[Peer(d)], x))
       /\ \A i \in DOMAIN Append(inbox[Peer(d)], x) :
             \/ /\ i \in DOMAIN inbox[Peer(d)]
                /\ Append(inbox[Peer(d)], x)[i] = inbox[Peer(d)][i]
             \/ Append(inbox[Peer(d)], x)[i] = x
  <2>1. inbox[Peer(d)] \in Seq(Frame) /\ OnePerKind(inbox[Peer(d)])
    BY <1>1, <1>2, <1>4 DEF Shape, Conversation
  <2> QED BY <1>7, <1>9, <2>1, AppendFacts
<1>11. /\ inbox' \in [Device -> Seq(Frame)] /\ inbox'[d] = Tail(inbox[d])
       /\ inbox'[Peer(d)] = Append(inbox[Peer(d)], x)
       /\ fetch' \in [Device -> PendingFetch \cup {Nothing}] /\ fetch'[d] = asked
       /\ fetch'[Peer(d)] = fetch[Peer(d)]
  BY <1>1, <1>2, <1>3, <1>5, <1>8, <1>10 DEF Shape
<1>12. Shape'
  BY <1>2, <1>3, <1>11 DEF Shape
<1>13. Conversations'
  <2>1. Conversation(Tail(inbox[d]), asked, outgoing[Peer(d)], fetch[Peer(d)], TRUE)
    <3>1. \A i \in DOMAIN Tail(inbox[d]) :
             Requested(Tail(inbox[d])[i], outgoing[Peer(d)], fetch[Peer(d)])
      BY <1>4, <1>5 DEF Conversation
    <3> QED BY <1>5, <1>6, <1>8, <3>1 DEF Conversation
  <2>2. Conversation(Append(inbox[Peer(d)], x), fetch[Peer(d)], outgoing[d], asked, TRUE)
    <3>1. ASSUME NEW i \in DOMAIN Append(inbox[Peer(d)], x)
          PROVE  /\ Requested(Append(inbox[Peer(d)], x)[i], outgoing[d], asked)
                 /\ Append(inbox[Peer(d)], x)[i].kind = "offer" =>
                       \E j \in DOMAIN inbox[Peer(d)] : inbox[Peer(d)][j].kind = "offer"
      BY <1>4, <1>7, <1>8, <1>10 DEF Conversation, Requested
    <3> QED BY <1>4, <1>10, <3>1 DEF Conversation
  <2>3. ASSUME NEW c \in Device
        PROVE  Conversation(inbox'[c], fetch'[c], outgoing'[Peer(c)], fetch'[Peer(c)], connected')
    <3>1. outgoing' = outgoing /\ connected' = TRUE
      BY <1>2, <1>3 DEF Shape
    <3>2. CASE c = d
      BY <1>11, <2>1, <3>1, <3>2, Zenon
    <3>3. CASE c = Peer(d)
      BY <1>1, <1>11, <2>2, <3>1, <3>3, Zenon
    <3> QED BY <1>1, <3>2, <3>3
  <2>4. connected' => \A c \in Device : running'[c]
    BY <1>3 DEF SessionInv, Conversations
  <2> QED BY <2>3, <2>4 DEF Conversations
<1>14. Stored' /\ OneEvent'
  BY <1>3, DisksStay DEF SessionInv
<1> QED
  BY <1>12, <1>13, <1>14 DEF SessionInv

LEMMA ServeStep ==
  ASSUME SessionInv, NEW d \in Device, ServeBlob(d)
  PROVE  SessionInv'
<1>1. Peer(d) \in Device /\ Peer(d) # d /\ Peer(Peer(d)) = d
      /\ \A c \in Device : c = d \/ c = Peer(d)
  BY PeerFacts
<1>2. Shape
  BY DEF SessionInv
<1>3. CASE Head(inbox[d]).value \notin blobs[d]
  <2>1. Stop(d) /\ UNCHANGED <<board, typed, digest, ledger, outgoing, fetch, history, blobs, issued>>
    BY <1>3 DEF ServeBlob, disk, bounds
  <2>2. board \in [Device -> Contents] /\ digest \in [Device -> Contents]
        /\ typed \in [Device -> BOOLEAN]
    BY <1>2 DEF Shape
  <2> QED BY <2>1, <2>2, StopIsQuiet
<1>4. CASE Head(inbox[d]).value \in blobs[d]
  <2>1. /\ fetch[d] = Nothing /\ connected
        /\ inbox[d] # << >> /\ Head(inbox[d]).kind = "blob"
        /\ fetch' = Answered(Peer(d))
        /\ inbox' = [inbox EXCEPT ![d] = Tail(inbox[d])]
        /\ UNCHANGED <<board, typed, running, connected, digest, ledger, outgoing, history, blobs,
                       issued>>
    BY <1>4 DEF ServeBlob, Selecting, disk, bounds, Answered
  <2>2. /\ Conversation(inbox[d], Nothing, outgoing[Peer(d)], fetch[Peer(d)], TRUE)
        /\ Conversation(inbox[Peer(d)], fetch[Peer(d)], outgoing[d], Nothing, TRUE)
    <3>1. connected = TRUE
      BY <1>2, <2>1 DEF Shape
    <3> QED BY <1>1, <2>1, <3>1 DEF SessionInv, Conversations
  <2>3. /\ Head(inbox[d]) = inbox[d][1] /\ 1 \in DOMAIN inbox[d]
        /\ Tail(inbox[d]) \in Seq(Frame) /\ OnePerKind(Tail(inbox[d]))
        /\ \A i \in DOMAIN Tail(inbox[d]) : /\ i + 1 \in DOMAIN inbox[d]
                                            /\ Tail(inbox[d])[i] = inbox[d][i + 1]
                                            /\ Tail(inbox[d])[i].kind # "blob"
    BY <1>2, <2>1, <2>2, TailFacts DEF Conversation, Shape
  <2>4. fetch[Peer(d)] # Nothing
    BY <2>1, <2>2, <2>3 DEF Conversation, Requested
  <2>5. /\ fetch' \in [Device -> PendingFetch \cup {Nothing}] /\ fetch'[Peer(d)] # Nothing
        /\ fetch'[Peer(d)].event = fetch[Peer(d)].event /\ fetch'[d] = Nothing
    BY <1>1, <1>2, <2>1, <2>4, AnswerFacts DEF Shape
  <2>6. /\ inbox' \in [Device -> Seq(Frame)] /\ inbox'[d] = Tail(inbox[d])
        /\ inbox'[Peer(d)] = inbox[Peer(d)]
    BY <1>1, <1>2, <2>1, <2>3 DEF Shape
  <2>7. Shape'
    BY <1>2, <2>1, <2>5, <2>6 DEF Shape
  <2>8. Conversations'
    <3>1. Conversation(Tail(inbox[d]), Nothing, outgoing[Peer(d)], fetch'[Peer(d)], TRUE)
      <4>1. \A i \in DOMAIN Tail(inbox[d]) :
               Requested(Tail(inbox[d])[i], outgoing[Peer(d)], fetch'[Peer(d)])
        BY <2>2, <2>3 DEF Conversation, Requested
      <4> QED BY <2>3, <4>1 DEF Conversation
    <3>2. Conversation(inbox[Peer(d)], fetch'[Peer(d)], outgoing[d], Nothing, TRUE)
      BY <2>2, <2>4, <2>5 DEF Conversation
    <3>3. ASSUME NEW c \in Device
          PROVE  Conversation(inbox'[c], fetch'[c], outgoing'[Peer(c)], fetch'[Peer(c)], connected')
      <4>1. outgoing' = outgoing /\ connected' = TRUE
        BY <1>2, <2>1 DEF Shape
      <4>2. CASE c = d
        BY <2>5, <2>6, <3>1, <4>1, <4>2, Zenon
      <4>3. CASE c = Peer(d)
        BY <1>1, <2>5, <2>6, <3>2, <4>1, <4>3, Zenon
      <4> QED BY <1>1, <4>2, <4>3
    <3>4. connected' => \A c \in Device : running'[c]
      BY <2>1 DEF SessionInv, Conversations
    <3> QED BY <3>3, <3>4 DEF Conversations
  <2>9. Stored' /\ OneEvent'
    BY <2>1, DisksStay DEF SessionInv
  <2> QED BY <2>7, <2>8, <2>9 DEF SessionInv
<1> QED
  BY <1>3, <1>4

(***************************************************************************)
(* Applying what the peer offered.                                         *)
(***************************************************************************)
\* A duplicate is an event the device has kept already: the replay filter has
\* its id, and an id names one event.
LEMMA AppliedIsKept ==
  ASSUME SessionInv, NEW d \in Device, NEW now \in Nat, NEW e,
         outgoing[Peer(d)] # Nothing, outgoing[Peer(d)].event = e,
         ApplyAndAcknowledge(d, e, now),
         IsDuplicate(ledger[d], e) => history' = history,
         ~ IsDuplicate(ledger[d], e) =>
            /\ history' = [history EXCEPT ![d] = history[d] \cup {e}]
            /\ e.value \in Image => e.value \in blobs'[d],
         blobs[d] \subseteq blobs'[d], blobs'[Peer(d)] = blobs[Peer(d)],
         UNCHANGED issued
  PROVE  /\ e \in ClipboardEvent
         /\ board' \in [Device -> Contents] /\ digest' \in [Device -> Contents]
         /\ typed' \in [Device -> BOOLEAN]
         /\ ledger' \in [Device -> LedgerState]
         /\ history' \in [Device -> SUBSET ClipboardEvent]
         /\ outgoing' \in [Device -> OutgoingOffer \cup {Nothing}]
         /\ outgoing'[d] = outgoing[d]
         /\ Stored' /\ OneEvent'
<1> PICK learned : learned = Receive(ledger[d], e, now)
  OBVIOUS
<1>1. Peer(d) \in Device /\ Peer(d) # d /\ Peer(Peer(d)) = d
      /\ \A c \in Device : c = d \/ c = Peer(d)
  BY PeerFacts
<1>2. Shape
  BY DEF SessionInv
<1>3. e \in ClipboardEvent
  BY <1>1, <1>2 DEF Shape, OutgoingOffer
<1>4. learned \in LedgerState /\ learned.seen \subseteq ledger[d].seen \cup {e.id}
  BY <1>2, <1>3, ReceiveFacts DEF Shape
<1>5. ledger' = [ledger EXCEPT ![d] = learned] \/ ledger' = ledger
  BY DEF ApplyAndAcknowledge
<1>6. /\ ledger' \in [Device -> LedgerState] /\ ledger'[Peer(d)] = ledger[Peer(d)]
      /\ ledger'[d].seen \subseteq ledger[d].seen \cup {e.id}
  BY <1>1, <1>2, <1>4, <1>5, ZenonT(30) DEF Shape
<1>7. /\ board' \in [Device -> Contents] /\ digest' \in [Device -> Contents]
      /\ typed' \in [Device -> BOOLEAN]
  <2>1. e.value \in Value
    BY <1>3 DEF ClipboardEvent
  <2>2. \/ UNCHANGED <<board, typed, digest>>
        \/ /\ board' = [board EXCEPT ![d] = e.value] /\ typed' = [typed EXCEPT ![d] = FALSE]
           /\ digest' = [digest EXCEPT ![d] = e.value]
    BY DEF ApplyAndAcknowledge, ApplyRemote
  <2> QED BY <1>2, <2>1, <2>2 DEF Shape, Contents
<1>8. outgoing' = Phased(Peer(d), "acked")
  BY DEF ApplyAndAcknowledge, AcknowledgeOffer, Phased
<1>9. /\ outgoing' \in [Device -> OutgoingOffer \cup {Nothing}]
      /\ outgoing'[Peer(d)] # Nothing /\ outgoing'[Peer(d)].event = e
      /\ outgoing'[d] = outgoing[d]
  BY <1>1, <1>2, <1>8, PhaseFacts DEF Shape
<1>10. /\ Kept(history[d], blobs[d], outgoing[d], history[Peer(d)], ledger[d].seen)
       /\ Kept(history[Peer(d)], blobs[Peer(d)], outgoing[Peer(d)], history[d],
               ledger[Peer(d)].seen)
  BY <1>1 DEF SessionInv, Stored
<1>11. e \in history[Peer(d)] /\ e.id <= issued
  BY <1>10 DEF Kept
<1>12. /\ e \in history'[d] /\ history'[Peer(d)] = history[Peer(d)]
       /\ history'[d] = history[d] \/ history'[d] = history[d] \cup {e}
       /\ history' \in [Device -> SUBSET ClipboardEvent]
       /\ \A f \in history'[d] : f \in history[d] \/ (f = e /\ (e.value \in Image => e.value \in blobs'[d]))
  <2>1. CASE IsDuplicate(ledger[d], e)
    <3>1. PICK f \in history[d] : f.id = e.id
      BY <1>10, <2>1 DEF IsDuplicate, Kept
    <3>2. f = e
      BY <1>1, <1>11, <3>1 DEF SessionInv, OneEvent
    <3> QED BY <1>2, <2>1, <3>1, <3>2 DEF Shape
  <2>2. CASE ~ IsDuplicate(ledger[d], e)
    <3> PICK more : more = history[d] \cup {e}
      OBVIOUS
    <3>1. history' = [history EXCEPT ![d] = more] /\ history \in [Device -> SUBSET ClipboardEvent]
      BY <1>2, <2>2 DEF Shape
    <3>2. more \in SUBSET ClipboardEvent /\ e \in more
      BY <1>3, <3>1
    <3>3. /\ history'[d] = more /\ history'[Peer(d)] = history[Peer(d)]
          /\ history' \in [Device -> SUBSET ClipboardEvent]
      BY <1>1, <3>1, <3>2
    <3>4. \A f \in more : f \in history[d] \/ f = e
      OBVIOUS
    <3>5. e.value \in Image => e.value \in blobs'[d]
      BY <2>2
    <3> QED BY <3>2, <3>3, <3>4, <3>5
  <2> QED BY <2>1, <2>2
<1>13. Stored'
  <2>1. Kept(history[d], blobs[d], outgoing[d], history[Peer(d)], ledger[d].seen)'
    <3>1. \A f \in history'[d] : f.id <= issued' /\ (f.value \in Image => f.value \in blobs'[d])
      BY <1>10, <1>11, <1>12 DEF Kept
    <3>2. \A id \in ledger'[d].seen : \E f \in history'[d] : f.id = id
      BY <1>6, <1>10, <1>12 DEF Kept
    <3>3. /\ outgoing'[d] # Nothing => outgoing'[d].event \in history'[d]
          /\ outgoing'[d] # Nothing /\ outgoing'[d].phase = "acked" =>
                outgoing'[d].event \in history'[Peer(d)]
      BY <1>9, <1>10, <1>12 DEF Kept
    <3> QED BY <3>1, <3>2, <3>3 DEF Kept
  <2>2. Kept(history[Peer(d)], blobs[Peer(d)], outgoing[Peer(d)], history[d],
             ledger[Peer(d)].seen)'
    BY <1>6, <1>9, <1>10, <1>11, <1>12 DEF Kept
  <2>3. ASSUME NEW c \in Device
        PROVE  Kept(history[c], blobs[c], outgoing[c], history[Peer(c)], ledger[c].seen)'
    BY <1>1, <2>1, <2>2
  <2> QED BY <2>3 DEF Stored
<1>14. OneEvent'
  <2>1. \A c \in Device : \A f \in history'[c] : \E b \in Device : f \in history[b]
    BY <1>1, <1>11, <1>12
  <2> QED BY <2>1 DEF SessionInv, OneEvent
<1> QED
  BY <1>3, <1>6, <1>7, <1>9, <1>12, <1>13, <1>14

LEMMA HandleStep ==
  ASSUME SessionInv, NEW d \in Device, NEW now \in Nat, HandleOffer(d, now)
  PROVE  SessionInv'
<1> PICK e : e = Head(inbox[d]).event
  OBVIOUS
<1>1. Peer(d) \in Device /\ Peer(d) # d /\ Peer(Peer(d)) = d
      /\ \A c \in Device : c = d \/ c = Peer(d)
  BY PeerFacts
<1>2. Shape
  BY DEF SessionInv
<1>3. /\ fetch[d] = Nothing /\ connected
      /\ inbox[d] # << >> /\ Head(inbox[d]).kind = "offer"
      /\ ApplyAndAcknowledge(d, e, now)
      /\ IF IsDuplicate(ledger[d], e) THEN UNCHANGED <<history, blobs>> ELSE Persisted(d, e)
      /\ inbox' = [inbox EXCEPT ![d] = Tail(inbox[d])]
      /\ UNCHANGED <<running, connected, fetch, issued>>
  BY DEF HandleOffer, Selecting, disk, bounds
<1>4. /\ Conversation(inbox[d], Nothing, outgoing[Peer(d)], fetch[Peer(d)], TRUE)
      /\ Conversation(inbox[Peer(d)], fetch[Peer(d)], outgoing[d], Nothing, TRUE)
  <2>1. connected = TRUE
    BY <1>2, <1>3 DEF Shape
  <2> QED BY <1>1, <1>3, <2>1 DEF SessionInv, Conversations
<1>5. /\ Head(inbox[d]) = inbox[d][1] /\ 1 \in DOMAIN inbox[d]
      /\ Tail(inbox[d]) \in Seq(Frame) /\ OnePerKind(Tail(inbox[d]))
      /\ \A i \in DOMAIN Tail(inbox[d]) : /\ i + 1 \in DOMAIN inbox[d]
                                          /\ Tail(inbox[d])[i] = inbox[d][i + 1]
                                          /\ Tail(inbox[d])[i].kind # "offer"
  BY <1>2, <1>3, <1>4, TailFacts DEF Conversation, Shape
<1>6. outgoing[Peer(d)] # Nothing /\ outgoing[Peer(d)].event = e
  BY <1>3, <1>4, <1>5 DEF Conversation, Requested
<1>7. e.value \in Value
  BY <1>1, <1>2, <1>6 DEF Shape, OutgoingOffer, ClipboardEvent
<1>8. /\ IsDuplicate(ledger[d], e) => history' = history
      /\ ~ IsDuplicate(ledger[d], e) =>
            /\ history' = [history EXCEPT ![d] = history[d] \cup {e}]
            /\ e.value \in Image => e.value \in blobs'[d]
      /\ blobs[d] \subseteq blobs'[d] /\ blobs'[Peer(d)] = blobs[Peer(d)]
      /\ blobs' \in [Device -> SUBSET Value]
  <2>1. CASE IsDuplicate(ledger[d], e)
    BY <1>2, <1>3, <2>1 DEF Shape
  <2>2. CASE ~ IsDuplicate(ledger[d], e)
    <3>1. /\ history' = [history EXCEPT ![d] = history[d] \cup {e}]
          /\ blobs' = [blobs EXCEPT ![d] = IF e.value \in Image THEN blobs[d] \cup {e.value}
                                           ELSE blobs[d]]
      BY <1>3, <2>2 DEF Persisted
    <3> QED BY <1>1, <1>2, <1>7, <2>2, <3>1 DEF Shape
  <2> QED BY <2>1, <2>2
<1>9. /\ board' \in [Device -> Contents] /\ digest' \in [Device -> Contents]
      /\ typed' \in [Device -> BOOLEAN] /\ ledger' \in [Device -> LedgerState]
      /\ history' \in [Device -> SUBSET ClipboardEvent]
      /\ outgoing' \in [Device -> OutgoingOffer \cup {Nothing}] /\ outgoing'[d] = outgoing[d]
      /\ Stored' /\ OneEvent'
  BY <1>3, <1>6, <1>8, AppliedIsKept
<1>10. /\ inbox' \in [Device -> Seq(Frame)] /\ inbox'[d] = Tail(inbox[d])
       /\ inbox'[Peer(d)] = inbox[Peer(d)]
  BY <1>1, <1>2, <1>3, <1>5 DEF Shape
<1>11. Shape'
  BY <1>2, <1>3, <1>8, <1>9, <1>10 DEF Shape
<1>12. Conversations'
  <2>1. Conversation(Tail(inbox[d]), Nothing, outgoing'[Peer(d)], fetch[Peer(d)], TRUE)
    <3>1. \A i \in DOMAIN Tail(inbox[d]) :
             Requested(Tail(inbox[d])[i], outgoing'[Peer(d)], fetch[Peer(d)])
      BY <1>4, <1>5 DEF Conversation, Requested
    <3> QED BY <1>5, <3>1 DEF Conversation
  <2>2. ASSUME NEW c \in Device
        PROVE  Conversation(inbox'[c], fetch'[c], outgoing'[Peer(c)], fetch'[Peer(c)], connected')
    <3>1. fetch' = fetch /\ connected' = TRUE
      BY <1>2, <1>3 DEF Shape
    <3>2. CASE c = d
      BY <1>3, <1>10, <2>1, <3>1, <3>2, Zenon
    <3>3. CASE c = Peer(d)
      BY <1>1, <1>3, <1>4, <1>9, <1>10, <3>1, <3>3, Zenon
    <3> QED BY <1>1, <3>2, <3>3
  <2>3. connected' => \A c \in Device : running'[c]
    BY <1>3 DEF SessionInv, Conversations
  <2> QED BY <2>2, <2>3 DEF Conversations
<1> QED
  BY <1>9, <1>11, <1>12 DEF SessionInv

LEMMA FinishStep ==
  ASSUME SessionInv, NEW d \in Device, FinishFetch(d)
  PROVE  SessionInv'
<1> PICK e : e = fetch[d].event
  OBVIOUS
<1> PICK now : now = fetch[d].now
  OBVIOUS
<1>1. Peer(d) \in Device /\ Peer(d) # d /\ Peer(Peer(d)) = d
      /\ \A c \in Device : c = d \/ c = Peer(d)
  BY PeerFacts
<1>2. Shape
  BY DEF SessionInv
<1>3. /\ fetch[d] # Nothing /\ fetch[d].phase = "answered" /\ connected
      /\ ApplyAndAcknowledge(d, e, now)
      /\ history' = [history EXCEPT ![d] = IF IsDuplicate(ledger[d], e) THEN history[d]
                                           ELSE history[d] \cup {e}]
      /\ blobs' = [blobs EXCEPT ![d] = blobs[d] \cup {e.value}]
      /\ fetch' = [fetch EXCEPT ![d] = Nothing]
      /\ UNCHANGED <<running, connected, inbox, issued>>
  BY DEF FinishFetch, bounds
<1>4. /\ Conversation(inbox[d], fetch[d], outgoing[Peer(d)], fetch[Peer(d)], TRUE)
      /\ Conversation(inbox[Peer(d)], fetch[Peer(d)], outgoing[d], fetch[d], TRUE)
  <2>1. connected = TRUE
    BY <1>2, <1>3 DEF Shape
  <2> QED BY <1>1, <2>1 DEF SessionInv, Conversations
<1>5. /\ outgoing[Peer(d)] # Nothing /\ outgoing[Peer(d)].event = e
      /\ \A i \in DOMAIN inbox[d] : inbox[d][i].kind # "offer"
  BY <1>3, <1>4 DEF Conversation
<1>6. fetch[d] \in PendingFetch
  BY <1>2, <1>3 DEF Shape
<1>7. e.value \in Value /\ now \in Nat
  BY <1>6 DEF PendingFetch, ClipboardEvent
<1>8. /\ IsDuplicate(ledger[d], e) => history' = history
      /\ ~ IsDuplicate(ledger[d], e) =>
            /\ history' = [history EXCEPT ![d] = history[d] \cup {e}]
            /\ e.value \in Image => e.value \in blobs'[d]
      /\ blobs[d] \subseteq blobs'[d] /\ blobs'[Peer(d)] = blobs[Peer(d)]
      /\ blobs' \in [Device -> SUBSET Value]
  BY <1>1, <1>2, <1>3, <1>7 DEF Shape
<1>9. /\ board' \in [Device -> Contents] /\ digest' \in [Device -> Contents]
      /\ typed' \in [Device -> BOOLEAN] /\ ledger' \in [Device -> LedgerState]
      /\ history' \in [Device -> SUBSET ClipboardEvent]
      /\ outgoing' \in [Device -> OutgoingOffer \cup {Nothing}] /\ outgoing'[d] = outgoing[d]
      /\ Stored' /\ OneEvent'
  BY <1>3, <1>5, <1>7, <1>8, AppliedIsKept
<1>10. /\ fetch' \in [Device -> PendingFetch \cup {Nothing}] /\ fetch'[d] = Nothing
       /\ fetch'[Peer(d)] = fetch[Peer(d)]
  BY <1>1, <1>2, <1>3 DEF Shape
<1>11. Shape'
  BY <1>2, <1>3, <1>8, <1>9, <1>10 DEF Shape
<1>12. Conversations'
  <2>1. Conversation(inbox[d], Nothing, outgoing'[Peer(d)], fetch[Peer(d)], TRUE)
    BY <1>4, <1>5 DEF Conversation, Requested
  <2>2. Conversation(inbox[Peer(d)], fetch[Peer(d)], outgoing[d], Nothing, TRUE)
    BY <1>3, <1>4 DEF Conversation, Requested
  <2>3. ASSUME NEW c \in Device
        PROVE  Conversation(inbox'[c], fetch'[c], outgoing'[Peer(c)], fetch'[Peer(c)], connected')
    <3>1. inbox' = inbox /\ connected' = TRUE
      BY <1>2, <1>3 DEF Shape
    <3>2. CASE c = d
      BY <1>10, <2>1, <3>1, <3>2, Zenon
    <3>3. CASE c = Peer(d)
      BY <1>1, <1>9, <1>10, <2>2, <3>1, <3>3, Zenon
    <3> QED BY <1>1, <3>2, <3>3
  <2>4. connected' => \A c \in Device : running'[c]
    BY <1>3 DEF SessionInv, Conversations
  <2> QED BY <2>3, <2>4 DEF Conversations
<1> QED
  BY <1>9, <1>11, <1>12 DEF SessionInv

(***************************************************************************)
(* Every step.                                                             *)
(***************************************************************************)
LEMMA InitHolds ==
  ASSUME Init
  PROVE  SessionInv
<1>1. /\ board \in [Device -> Value \cup {Nothing}]
      /\ typed = [d \in Device |-> TRUE] /\ running = [d \in Device |-> TRUE]
      /\ connected = TRUE
      /\ digest = [d \in Device |-> Nothing] /\ outgoing = [d \in Device |-> Nothing]
      /\ fetch = [d \in Device |-> Nothing] /\ inbox = [d \in Device |-> << >>]
      /\ history = [d \in Device |-> {}] /\ blobs = [d \in Device |-> {}] /\ issued = 0
  BY DEF Init
<1>2. PICK start \in Starts : ledger = [d \in Device |-> NewLedger(d, start[d])]
  BY DEF Init
<1>3. \A d \in Device : start[d] \in Nat
  BY SessionAssumption DEF Starts
<1>4. ASSUME NEW d \in Device
      PROVE  NewLedger(d, start[d]) \in LedgerState /\ NewLedger(d, start[d]).seen = {}
  <2>1. NewTimestamp(start[d]) \in Timestamp
    BY <1>3, LogicalMaxAssumption DEF NewTimestamp, Timestamp
  <2>2. << >> \in Seq(Nat) /\ [peer \in Device |-> {}] \in [Device -> SUBSET Waiting]
    OBVIOUS
  <2> QED BY <2>1, <2>2 DEF NewLedger, LedgerState
<1>5. << >> \in Seq(Frame) /\ \A i \in DOMAIN << >> : FALSE
  OBVIOUS
<1>6. Shape
  BY <1>1, <1>2, <1>4, <1>5 DEF Shape, Contents
<1>7. Conversations
  <2>1. \A d \in Device : inbox[d] = << >> /\ fetch[d] = Nothing
    BY <1>1
  <2> QED BY <1>1, <1>5, <2>1 DEF Conversations, Conversation, OnePerKind
<1>8. Stored /\ OneEvent
  <2>1. \A d \in Device : ledger[d].seen = {} /\ outgoing[d] = Nothing /\ history[d] = {}
    BY <1>1, <1>2, <1>4
  <2>2. ASSUME NEW d \in Device
        PROVE  Kept(history[d], blobs[d], outgoing[d], history[Peer(d)], ledger[d].seen)
    BY <2>1 DEF Kept
  <2> QED BY <2>1, <2>2 DEF Stored, OneEvent
<1> QED
  BY <1>6, <1>7, <1>8 DEF SessionInv

LEMMA FailureStep ==
  ASSUME SessionInv, NEW d \in Device,
         PollUnreadable(d) \/ OfferFailed(d) \/ NoticeClosed(d) \/ ApplyFails(d)
  PROVE  SessionInv'
<1>1. Shape /\ Peer(d) \in Device
  BY PeerFacts DEF SessionInv
<1>2. Stop(d) /\ UNCHANGED <<ledger, outgoing, fetch, history, blobs, issued>>
  BY DEF PollUnreadable, OfferFailed, NoticeClosed, ApplyFails, process, disk, bounds
<1>3. board' \in [Device -> Contents] /\ digest' \in [Device -> Contents]
      /\ typed' \in [Device -> BOOLEAN]
  <2>1. CASE UNCHANGED <<board, typed, digest>>
    BY <1>1, <2>1 DEF Shape
  <2>2. CASE ApplyFails(d) /\ ~ UNCHANGED <<board, typed, digest>>
    <3> PICK e : e = Head(inbox[d]).event
      OBVIOUS
    <3>1. /\ connected /\ inbox[d] # << >> /\ Head(inbox[d]).kind = "offer"
          /\ ApplyRemote(d, e.value)
      BY <2>2 DEF ApplyFails
    <3>2. Conversation(inbox[d], fetch[d], outgoing[Peer(d)], fetch[Peer(d)], connected)
      BY DEF SessionInv, Conversations
    <3>3. Head(inbox[d]) = inbox[d][1] /\ 1 \in DOMAIN inbox[d]
      BY <1>1, <3>1, <3>2, TailFacts DEF Conversation, Shape
    <3>4. outgoing[Peer(d)] # Nothing /\ outgoing[Peer(d)].event = e
      BY <3>1, <3>2, <3>3 DEF Conversation, Requested
    <3>5. e.value \in Contents
      BY <1>1, <3>4 DEF Shape, OutgoingOffer, ClipboardEvent, Contents
    <3>6. /\ board' = [board EXCEPT ![d] = e.value] /\ typed' = [typed EXCEPT ![d] = FALSE]
          /\ digest' = [digest EXCEPT ![d] = e.value]
      BY <3>1 DEF ApplyRemote
    <3> QED BY <1>1, <3>5, <3>6 DEF Shape
  <2> QED
    BY <2>1, <2>2 DEF PollUnreadable, OfferFailed, NoticeClosed, process
<1> QED
  BY <1>2, <1>3, StopIsQuiet

LEMMA OutsideStep ==
  ASSUME SessionInv,
         (\E d \in Device : \E v \in Copies[d] : UserCopy(d, v)) \/ LoseConnection \/ IdleTimeout
  PROVE  SessionInv'
<1>1. Shape
  BY DEF SessionInv
<1>2. CASE LoseConnection \/ IdleTimeout
  <2>1. /\ UNCHANGED <<board, typed, digest, running, ledger, outgoing, fetch, history, blobs,
                       issued>>
        /\ connected' = FALSE /\ inbox' = [d \in Device |-> << >>]
    BY <1>2 DEF LoseConnection, IdleTimeout, process, disk, bounds
  <2>2. /\ board' \in [Device -> Contents] /\ digest' \in [Device -> Contents]
        /\ typed' \in [Device -> BOOLEAN] /\ running' \in [Device -> BOOLEAN]
    BY <1>1, <2>1 DEF Shape
  <2> QED BY <2>1, <2>2, QuietStep
<1>3. ASSUME NEW d \in Device, NEW v \in Copies[d], UserCopy(d, v)
      PROVE  SessionInv'
  <2>1. v \in Contents
    BY SessionAssumption DEF Contents
  <2>2. /\ board' = [board EXCEPT ![d] = v] /\ typed' = [typed EXCEPT ![d] = TRUE]
        /\ UNCHANGED <<digest, running, connected, inbox, ledger, outgoing, fetch, history,
                       blobs, issued>>
    BY <1>3 DEF UserCopy, process, disk
  <2>3. /\ board' \in [Device -> Contents] /\ digest' \in [Device -> Contents]
        /\ typed' \in [Device -> BOOLEAN] /\ running' \in [Device -> BOOLEAN]
    BY <1>1, <2>1, <2>2 DEF Shape
  <2> QED BY <2>2, <2>3, QuietStep
<1> QED
  BY <1>2, <1>3

LEMMA StepHolds ==
  ASSUME SessionInv, [Next]_vars
  PROVE  SessionInv'
<1>1. CASE UNCHANGED vars
  <2>1. /\ UNCHANGED <<ledger, outgoing, fetch, history, blobs, issued>>
        /\ UNCHANGED <<inbox, connected, running>> /\ UNCHANGED <<board, typed, digest>>
    BY <1>1 DEF vars
  <2>2. /\ board' \in [Device -> Contents] /\ digest' \in [Device -> Contents]
        /\ typed' \in [Device -> BOOLEAN] /\ running' \in [Device -> BOOLEAN]
    BY <2>1 DEF SessionInv, Shape
  <2> QED BY <2>1, <2>2, QuietStep
<1>2. ASSUME NEW d \in Device, Step(d)
      PROVE  SessionInv'
  <2>1. Wall[d] \subseteq Nat
    BY SessionAssumption
  <2>2. CASE \E now \in Wall[d], dropped \in BOOLEAN : PollLocal(d, now, dropped)
    BY <2>1, <2>2, PollStep
  <2>3. CASE PollUnreadable(d) \/ OfferFailed(d) \/ NoticeClosed(d)
    BY <2>3, FailureStep
  <2>4. CASE SendOffer(d)
    BY <2>4, SendStep
  <2>5. CASE \E dropped \in BOOLEAN : ReceiveAck(d, dropped)
    BY <2>5, AcknowledgementStep
  <2>6. CASE \E now \in Wall[d] : HandleOffer(d, now)
    BY <2>1, <2>6, HandleStep
  <2>7. CASE \E now \in Wall[d] : RequestBlob(d, now)
    BY <2>1, <2>7, RequestStep
  <2>8. CASE ServeBlob(d)
    BY <2>8, ServeStep
  <2>9. CASE FinishFetch(d)
    BY <2>9, FinishStep
  <2> QED
    BY <1>2, <2>2, <2>3, <2>4, <2>5, <2>6, <2>7, <2>8, <2>9 DEF Step
<1>3. CASE Environment
  BY <1>3, OutsideStep, IdleTickStep, FailureStep, StartStep DEF Environment
<1> QED
  BY <1>1, <1>2, <1>3 DEF Next

\* In every reachable state the requests in flight belong to what their senders
\* wait for, and the disks hold what the offers and the replay filters refer to.
THEOREM SessionInvariant == Spec => []SessionInv
<1>1. Init => SessionInv
  BY InitHolds
<1>2. SessionInv /\ [Next]_vars => SessionInv'
  BY StepHolds
<1> QED
  BY <1>1, <1>2, PTL DEF Spec

\* offer_clipboard returns only when the peer has the event in its history, an
\* image with its bytes: through duplicates after reconnects, a replay filter that
\* forgets, superseded events, dropped requests and failed writes.
THEOREM AcknowledgedIsDurable == Spec => []AckedIsDurable
<1>1. SessionInv => AckedIsDurable
  BY PeerFacts DEF SessionInv, Stored, Kept, AckedIsDurable
<1> QED
  BY <1>1, SessionInvariant, PTL

\* When only images are too large to be sent inline, the peer that asks for the
\* blob of an offer finds it: the assumption is the one the code breaks for text.
THEOREM OfferedIsServable ==
  ASSUME Large \subseteq Image
  PROVE  Spec => []OfferedBlobIsServable
<1>1. SessionInv => OfferedBlobIsServable
  BY DEF SessionInv, Stored, Kept, OfferedBlobIsServable
<1> QED
  BY <1>1, SessionInvariant, PTL

\* The state keeps its type, an open connection has a running process at each
\* end, and no device has two requests of one kind queued.
THEOREM SessionTypeCorrect == Spec => []TypeOK
<1>1. SessionInv => TypeOK
  BY DEF SessionInv, Shape, Contents, Conversations, Conversation, OnePerKind, Stored, Kept, TypeOK
<1> QED
  BY <1>1, SessionInvariant, PTL

(***************************************************************************)
(* Convergence.  While the connection is open, a device shows the newest   *)
(* event its ledger knows, and the peer knows it too unless the offer of   *)
(* it is still under way.  That a new event is newer than the last one     *)
(* needs a counter that does not saturate: it grows by at most three for   *)
(* an event, twice where it is created and once where it is received.      *)
(***************************************************************************)
\* The ledger has an event that is at least as new as e.
Covers(l, e) == l.current # NoEvent /\ ~ Before(l.current, e)

\* The offer of e is not answered; a counter is still to grow for an offer.
Underway(offer, e) == offer # Nothing /\ offer.event = e /\ offer.phase # "acked"
Unread(offer) == IF offer # Nothing /\ offer.phase \in {"unsent", "sent"} THEN 1 ELSE 0

\* The clipboard, the clock, the replay filter and the offer of a device, against
\* the newest event of its ledger.
Following(l, shown, own, offer) ==
    /\ shown = IF l.current = NoEvent THEN Nothing ELSE l.current.value
    /\ l.current # NoEvent => l.current \in own /\ TsBeforeOrSame(l.current.ts, l.clock)
    /\ \A e \in own : e.id \in l.seen => Covers(l, e)
    /\ offer # Nothing => Covers(l, offer.event)

Settled(l, offer, theirs) ==
    l.current # NoEvent => Underway(offer, l.current) \/ Covers(theirs, l.current)

Counted(l, offer, ahead) ==
    /\ l.clock.logical + ahead <= 3 * issued
    /\ offer # Nothing => offer.event.ts.logical + ahead <= 3 * issued

Ahead(d) == Unread(outgoing[d]) + Unread(outgoing[Peer(d)])
Agrees(d) ==
    /\ Following(ledger[d], digest[d], history[d], outgoing[d])
    /\ Settled(ledger[d], outgoing[d], ledger[Peer(d)])
    /\ Counted(ledger[d], outgoing[d], Ahead(d))

Agreement == connected /\ 3 * issued <= LogicalMax => \A d \in Device : Agrees(d)

LEMMA ClipboardEvents ==
  ASSUME NEW e \in ClipboardEvent
  PROVE  Comparable(e) /\ e # NoEvent /\ e.ts \in Timestamp /\ e.ts.logical \in Nat
         /\ e.ts.physical \in Nat
<1>1. e # NoEvent
  BY NoEventAssumption
<1>2. e.id \in Nat /\ e.origin \in Device /\ e.ts \in Timestamp
  BY DEF ClipboardEvent
<1>3. e.ts.logical \in Nat /\ e.ts.physical \in Nat
  BY <1>2, LogicalMaxAssumption DEF Timestamp
<1>4. e.origin \in Nat
  BY <1>2, DeviceAssumption
<1> QED
  BY <1>1, <1>2, <1>3, <1>4 DEF Comparable

LEMMA CounterTypes ==
  ASSUME Shape, NEW d \in Device
  PROVE  /\ ledger[d].clock.logical \in Nat /\ issued \in Nat
         /\ outgoing[d] # Nothing => outgoing[d].event.ts.logical \in Nat
<1>1. ledger[d] \in LedgerState /\ outgoing[d] \in OutgoingOffer \cup {Nothing} /\ issued \in Nat
  BY DEF Shape
<1>2. ledger[d].clock \in Timestamp
  BY <1>1 DEF LedgerState
<1>3. ledger[d].clock.logical \in Nat
  BY <1>2, LogicalMaxAssumption DEF Timestamp
<1>4. outgoing[d] # Nothing => outgoing[d].event \in ClipboardEvent
  BY <1>1 DEF OutgoingOffer
<1> QED
  BY <1>1, <1>3, <1>4, ClipboardEvents

\* A ledger that moves on to a newer event covers what it covered before.
LEMMA NewerCovers ==
  ASSUME NEW l \in LedgerState, NEW m, NEW e \in ClipboardEvent, m.current = e,
         l.current # NoEvent => Before(l.current, e)
  PROVE  Covers(m, e) /\ \A f \in ClipboardEvent : Covers(l, f) => Covers(m, f)
<1>1. Covers(m, e)
  BY ClipboardEvents, CompareOrder DEF Covers
<1>2. ASSUME NEW f \in ClipboardEvent, Covers(l, f)
      PROVE  Covers(m, f)
  <2>1. l.current \in ClipboardEvent /\ Before(l.current, e) /\ ~ Before(l.current, f)
    BY <1>2 DEF Covers, LedgerState
  <2>2. Comparable(l.current) /\ Comparable(e) /\ Comparable(f) /\ e # NoEvent
    BY <2>1, ClipboardEvents
  <2>3. ~ Before(e, f)
    BY <2>1, <2>2, CompareOrder
  <2> QED BY <2>2, <2>3 DEF Covers
<1> QED
  BY <1>1, <1>2

\* An offer that is sent, dropped or taken away after its answer.
Fades(o, n) ==
    \/ n = o
    \/ o # Nothing /\ o.phase = "acked" /\ n = Nothing
    \/ /\ o # Nothing /\ n # Nothing
       /\ n.event = o.event /\ n.phase # "acked" /\ Unread(n) <= Unread(o)

LEMMA FadesFacts ==
  ASSUME NEW o, NEW n, Fades(o, n)
  PROVE  /\ Unread(n) <= Unread(o) /\ Unread(n) \in {0, 1} /\ Unread(o) \in {0, 1}
         /\ n # Nothing => o # Nothing /\ n.event = o.event
         /\ \A e : Underway(o, e) => Underway(n, e)
<1>1. Unread(n) \in {0, 1} /\ Unread(o) \in {0, 1}
  BY DEF Unread
<1>2. Unread(n) <= Unread(o)
  BY <1>1 DEF Fades, Unread
<1>3. n # Nothing => o # Nothing /\ n.event = o.event
  BY DEF Fades
<1>4. \A e : Underway(o, e) => Underway(n, e)
  BY DEF Fades, Underway
<1> QED
  BY <1>1, <1>2, <1>3, <1>4

\* A step that shows, records and creates nothing.
LEMMA QuietAgreement ==
  ASSUME SessionInv, Agreement, connected' => connected,
         UNCHANGED <<digest, history, issued>>,
         \A d \in Device :
            /\ ledger'[d].current = ledger[d].current /\ ledger'[d].clock = ledger[d].clock
            /\ ledger'[d].seen = ledger[d].seen
            /\ Fades(outgoing[d], outgoing'[d])
  PROVE  Agreement'
<1> SUFFICES ASSUME connected', 3 * issued' <= LogicalMax, NEW d \in Device
             PROVE  Agrees(d)'
  BY DEF Agreement
<1>1. Peer(d) \in Device
  BY PeerFacts
<1>2. Agrees(d)
  BY DEF Agreement
<1>3. Shape
  BY DEF SessionInv
<1>4. /\ Fades(outgoing[d], outgoing'[d]) /\ Fades(outgoing[Peer(d)], outgoing'[Peer(d)])
      /\ Ahead(d)' <= Ahead(d) /\ Ahead(d) \in Nat /\ Ahead(d)' \in Nat
  <2>1. Fades(outgoing[d], outgoing'[d]) /\ Fades(outgoing[Peer(d)], outgoing'[Peer(d)])
    BY <1>1
  <2>2. /\ Unread(outgoing'[d]) <= Unread(outgoing[d])
        /\ Unread(outgoing'[Peer(d)]) <= Unread(outgoing[Peer(d)])
        /\ Unread(outgoing[d]) \in {0, 1} /\ Unread(outgoing'[d]) \in {0, 1}
        /\ Unread(outgoing[Peer(d)]) \in {0, 1} /\ Unread(outgoing'[Peer(d)]) \in {0, 1}
    BY <2>1, FadesFacts
  <2>3. Ahead(d) = Unread(outgoing[d]) + Unread(outgoing[Peer(d)])
        /\ Ahead(d)' = Unread(outgoing'[d]) + Unread(outgoing'[Peer(d)])
    BY DEF Ahead, Unread
  <2> QED BY <2>1, <2>2, <2>3
<1>5. \A e : Covers(ledger'[d], e) <=> Covers(ledger[d], e)
  BY DEF Covers
<1>6. \A e : Covers(ledger'[Peer(d)], e) <=> Covers(ledger[Peer(d)], e)
  BY <1>1 DEF Covers
<1>7. /\ outgoing'[d] # Nothing => outgoing[d] # Nothing /\ outgoing'[d].event = outgoing[d].event
      /\ \A e : Underway(outgoing[d], e) => Underway(outgoing'[d], e)
  BY <1>4, FadesFacts
<1>8. Following(ledger[d], digest[d], history[d], outgoing[d])'
  BY <1>2, <1>5, <1>7 DEF Agrees, Following
<1>9. Settled(ledger[d], outgoing[d], ledger[Peer(d)])'
  BY <1>2, <1>6, <1>7 DEF Agrees, Settled
<1>10. Counted(ledger[d], outgoing[d], Ahead(d))'
  <2>1. /\ ledger[d].clock.logical \in Nat /\ issued \in Nat
        /\ outgoing[d] # Nothing => outgoing[d].event.ts.logical \in Nat
    BY <1>3, CounterTypes
  <2>2. ledger[d].clock.logical + Ahead(d) <= 3 * issued
        /\ (outgoing[d] # Nothing => outgoing[d].event.ts.logical + Ahead(d) <= 3 * issued)
    BY <1>2 DEF Agrees, Counted
  <2>3. ledger'[d].clock.logical + Ahead(d)' <= 3 * issued'
    BY <1>4, <2>1, <2>2
  <2>4. outgoing'[d] # Nothing => outgoing'[d].event.ts.logical + Ahead(d)' <= 3 * issued'
    BY <1>4, <1>7, <2>1, <2>2
  <2> QED BY <2>3, <2>4 DEF Counted
<1> QED
  BY <1>8, <1>9, <1>10 DEF Agrees

\* A device that comes to know e: by creating it, or from its peer's offer.
LEMMA LearningFollows ==
  ASSUME SessionInv, SessionInv', NEW d \in Device, NEW e \in ClipboardEvent,
         Agrees(d), Agrees(Peer(d)),
         ledger'[Peer(d)] = ledger[Peer(d)], digest'[Peer(d)] = digest[Peer(d)],
         history'[Peer(d)] = history[Peer(d)],
         history'[d] \subseteq history[d] \cup {e}, e \in history'[d] \cup history'[Peer(d)],
         ledger'[d].seen \subseteq ledger[d].seen \cup {e.id},
         Covers(ledger'[d], e),
         \A f \in ClipboardEvent : Covers(ledger[d], f) => Covers(ledger'[d], f),
         ledger'[d].current \in history'[d],
         TsBeforeOrSame(ledger'[d].current.ts, ledger'[d].clock),
         digest'[d] = ledger'[d].current.value,
         outgoing'[d] # Nothing =>
            \/ outgoing'[d].event = e
            \/ outgoing[d] # Nothing /\ outgoing'[d].event = outgoing[d].event,
         outgoing'[Peer(d)] # Nothing =>
            outgoing[Peer(d)] # Nothing /\ outgoing'[Peer(d)].event = outgoing[Peer(d)].event
  PROVE  /\ Following(ledger[d], digest[d], history[d], outgoing[d])'
         /\ Following(ledger[Peer(d)], digest[Peer(d)], history[Peer(d)], outgoing[Peer(d)])'
<1>1. Peer(d) \in Device /\ Shape
  BY PeerFacts DEF SessionInv
<1>2. Following(ledger[d], digest[d], history[d], outgoing[d])
  BY DEF Agrees
<1>3. Following(ledger[Peer(d)], digest[Peer(d)], history[Peer(d)], outgoing[Peer(d)])
  BY DEF Agrees
<1>4. ledger'[d].current # NoEvent
  BY DEF Covers
<1>5. ASSUME NEW f \in history'[d], f.id \in ledger'[d].seen
      PROVE  Covers(ledger'[d], f)
  <2>1. CASE f = e
    BY <2>1
  <2>2. CASE f # e
    <3>1. f \in history[d] /\ f \in ClipboardEvent
      BY <1>1, <2>2 DEF Shape
    <3>2. f.id # e.id
      BY <1>1, <2>2 DEF SessionInv, OneEvent
    <3>3. f.id \in ledger[d].seen
      BY <1>5, <3>2
    <3> QED BY <1>2, <3>1, <3>3 DEF Following
  <2> QED BY <2>1, <2>2
<1>6. outgoing'[d] # Nothing => Covers(ledger'[d], outgoing'[d].event)
  <2>1. outgoing[d] # Nothing => outgoing[d].event \in ClipboardEvent
    BY <1>1 DEF Shape, OutgoingOffer
  <2> QED BY <1>2, <2>1 DEF Following
<1>7. Following(ledger[d], digest[d], history[d], outgoing[d])'
  BY <1>4, <1>5, <1>6 DEF Following
<1>8. Following(ledger[Peer(d)], digest[Peer(d)], history[Peer(d)], outgoing[Peer(d)])'
  BY <1>3 DEF Following
<1> QED
  BY <1>7, <1>8

\* What has been settled with a device stays so when it learns more.
LEMMA SettledFacts ==
  ASSUME NEW k \in LedgerState, NEW o, NEW n, NEW l, NEW m,
         Settled(k, o, l),
         \A f \in ClipboardEvent : Covers(l, f) => Covers(m, f),
         Underway(o, k.current) => Underway(n, k.current) \/ Covers(m, k.current)
  PROVE  Settled(k, n, m)
<1>1. k.current # NoEvent => k.current \in ClipboardEvent
  BY DEF LedgerState
<1> QED
  BY <1>1 DEF Settled

\* What a ledger knows after it has created an event.
LEMMA CreatedCovers ==
  ASSUME NEW l \in LedgerState, NEW now \in Nat, NEW e \in ClipboardEvent,
         NEW peer \in Device, e.ts = Tick(l.clock, now), ~ Saturated(l.clock),
         l.current # NoEvent => TsBeforeOrSame(l.current.ts, l.clock),
         NEW mine, mine = RecordLocal(NextTimestamp(l, now), e, {peer}, 0)
  PROVE  /\ mine \in LedgerState /\ mine.current = e /\ mine.seen \subseteq l.seen \cup {e.id}
         /\ TsBeforeOrSame(e.ts, mine.clock)
         /\ Covers(mine, e) /\ \A f \in ClipboardEvent : Covers(l, f) => Covers(mine, f)
         /\ e.ts.logical <= l.clock.logical + 1 /\ mine.clock.logical <= l.clock.logical + 2
<1>1. l.clock \in Timestamp /\ l.clock.logical \in Nat
  BY LogicalMaxAssumption DEF LedgerState, Timestamp
<1>2. e.ts \in Timestamp /\ e.ts.logical \in Nat /\ e.ts.physical \in Nat
  BY ClipboardEvents
<1>3. /\ TsBefore(l.clock, e.ts) /\ e.ts.logical <= l.clock.logical + 1
  <2>1. TsBefore(l.clock, Tick(l.clock, now)) /\ Tick(l.clock, now).logical <= l.clock.logical + 1
    BY <1>1, TickAdvances
  <2> QED BY <2>1
<1>4. /\ mine \in LedgerState /\ mine.seen \subseteq l.seen \cup {e.id} /\ mine.current = e
      /\ mine.clock = Merge(e.ts, e.ts, e.ts.physical)
  <2>1. /\ RecordLocal(NextTimestamp(l, now), e, {peer}, 0) \in LedgerState
        /\ RecordLocal(NextTimestamp(l, now), e, {peer}, 0).seen \subseteq l.seen \cup {e.id}
        /\ RecordLocal(NextTimestamp(l, now), e, {peer}, 0).current = e
        /\ RecordLocal(NextTimestamp(l, now), e, {peer}, 0).clock =
              Merge(Tick(l.clock, now), e.ts, e.ts.physical)
    BY RecordLocalFacts, Zenon
  <2> QED BY <2>1, Zenon
<1>5. TsBeforeOrSame(e.ts, mine.clock) /\ mine.clock.logical <= l.clock.logical + 2
  <2>1. /\ TsBeforeOrSame(e.ts, mine.clock) /\ mine.clock \in Timestamp
        /\ \A most \in Nat : e.ts.logical <= most => mine.clock.logical <= most + 1
    <3>1. LET m == Merge(e.ts, e.ts, e.ts.physical)
          IN  /\ TsBeforeOrSame(e.ts, m) /\ m \in Timestamp
              /\ \A most \in Nat : e.ts.logical <= most => m.logical <= most + 1
      BY <1>2, MergeAdvances
    <3> QED BY <1>4, <3>1, Zenon
  <2> PICK most \in Nat : most = l.clock.logical + 1
    BY <1>1
  <2>2. mine.clock.logical \in Nat
    BY <2>1, LogicalMaxAssumption DEF Timestamp
  <2>3. most \in Nat /\ e.ts.logical <= most
    BY <1>1, <1>2, <1>3
  <2>4. mine.clock.logical <= most + 1
    BY <2>1, <2>3, Zenon
  <2>5. mine.clock.logical <= l.clock.logical + 2
    BY <1>1, <2>2, <2>4
  <2> QED BY <2>1, <2>5
<1>6. l.current # NoEvent => Before(l.current, e)
  <2> SUFFICES ASSUME l.current # NoEvent PROVE Before(l.current, e)
    OBVIOUS
  <2>1. l.current.ts \in Timestamp
    BY ClipboardEvents DEF LedgerState
  <2>2. TsBefore(l.current.ts, e.ts)
    BY <1>1, <1>2, <1>3, <2>1, TsOrder
  <2> QED BY <2>2 DEF Before
<1>7. Covers(mine, e) /\ \A f \in ClipboardEvent : Covers(l, f) => Covers(mine, f)
  <2>1. mine.current = e
    BY <1>4
  <2> QED BY <1>6, <2>1, NewerCovers, Zenon
<1> QED
  BY <1>3, <1>4, <1>5, <1>7

LEMMA PollAgreement ==
  ASSUME SessionInv, SessionInv', Agreement, NEW d \in Device, NEW now \in Nat,
         NEW dropped \in BOOLEAN, PollLocal(d, now, dropped)
  PROVE  Agreement'
<1> PICK stamped : stamped = NextTimestamp(ledger[d], now)
  OBVIOUS
<1> PICK e : e = [id |-> issued + 1, origin |-> d, ts |-> stamped.clock, value |-> board[d]]
  OBVIOUS
<1> PICK mid : mid = Interrupted(d, dropped)
  OBVIOUS
<1> PICK offer : offer = [event |-> e, phase |-> "unsent"]
  OBVIOUS
<1> PICK mine : mine = RecordLocal(stamped, e, {Peer(d)}, 0)
  OBVIOUS
<1>1. Peer(d) \in Device /\ Peer(d) # d /\ Peer(Peer(d)) = d
      /\ \A c \in Device : c = d \/ c = Peer(d)
  BY PeerFacts
<1>2. Shape /\ ledger[d] \in LedgerState /\ issued \in Nat /\ Shape'
  BY DEF SessionInv, Shape
<1>3. /\ Selecting(d) /\ outgoing[d] = Nothing
      /\ board[d] \in Value \ Unreadable
      /\ digest' = [digest EXCEPT ![d] = board[d]]
      /\ history' = [history EXCEPT ![d] = history[d] \cup {e}]
      /\ ledger' = [ledger EXCEPT ![d] = mine]
      /\ DropsRequest(d, dropped)
      /\ outgoing' = [mid EXCEPT ![d] = offer]
      /\ issued' = issued + 1
      /\ connected' = connected
  BY <1>2 DEF PollLocal, Persisted, Shape, Contents
<1>4. e \in ClipboardEvent /\ e.ts = Tick(ledger[d].clock, now) /\ e.value = board[d]
      /\ ledger[d].clock \in Timestamp
  <2>1. stamped.clock \in Timestamp /\ stamped.clock = Tick(ledger[d].clock, now)
    BY <1>2, StampFacts
  <2>2. ledger[d].clock \in Timestamp /\ issued + 1 \in Nat
    BY <1>2 DEF LedgerState
  <2> QED BY <1>3, <2>1, <2>2 DEF ClipboardEvent
<1>6. offer.event = e /\ offer.phase = "unsent" /\ offer # Nothing
  BY <1>4, NothingAssumption DEF OutgoingOffer
<1>7. /\ mid \in [Device -> OutgoingOffer \cup {Nothing}]
      /\ mid[Peer(d)] # Nothing =>
            /\ outgoing[Peer(d)] # Nothing
            /\ mid[Peer(d)].event = outgoing[Peer(d)].event
            /\ mid[Peer(d)].phase = "acked" => outgoing[Peer(d)].phase = "acked"
      /\ outgoing[Peer(d)] # Nothing =>
            /\ mid[Peer(d)] # Nothing
            /\ mid[Peer(d)].phase \in {outgoing[Peer(d)].phase, "closed"}
  BY <1>3, DropFacts
<1>8. /\ outgoing'[d] = offer /\ outgoing'[Peer(d)] = mid[Peer(d)]
      /\ history'[d] = history[d] \cup {e} /\ history'[Peer(d)] = history[Peer(d)]
      /\ ledger'[d] = mine /\ ledger'[Peer(d)] = ledger[Peer(d)]
      /\ digest'[d] = e.value /\ digest'[Peer(d)] = digest[Peer(d)]
  BY <1>1, <1>2, <1>3, <1>4, <1>7 DEF Shape
<1> SUFFICES ASSUME connected', 3 * issued' <= LogicalMax
             PROVE  \A c \in Device : Agrees(c)'
  BY DEF Agreement
<1>9. Agrees(d) /\ Agrees(Peer(d)) /\ LogicalMax \in Nat
  BY <1>1, <1>2, <1>3, LogicalMaxAssumption DEF Agreement
<1>10. Unread(outgoing[Peer(d)]) \in {0, 1} /\ Unread(outgoing[d]) = 0
       /\ Unread(outgoing'[d]) = 1 /\ Unread(outgoing'[Peer(d)]) <= Unread(outgoing[Peer(d)])
       /\ Unread(outgoing'[Peer(d)]) \in {0, 1}
  BY <1>3, <1>6, <1>7, <1>8 DEF Unread
<1>11. ledger[d].clock.logical + Unread(outgoing[Peer(d)]) <= 3 * issued
       /\ ledger[d].clock.logical \in Nat
  <2>1. Counted(ledger[d], outgoing[d], Ahead(d))
    BY <1>9 DEF Agrees
  <2>2. Ahead(d) = Unread(outgoing[Peer(d)])
    BY <1>10 DEF Ahead
  <2>3. ledger[d].clock.logical \in Nat
    BY <1>4, LogicalMaxAssumption DEF Timestamp
  <2> QED BY <2>1, <2>2, <2>3 DEF Counted
<1>12. ~ Saturated(ledger[d].clock)
  BY <1>2, <1>3, <1>9, <1>10, <1>11 DEF Saturated
<1>13. /\ mine \in LedgerState /\ mine.current = e
       /\ mine.seen \subseteq ledger[d].seen \cup {e.id}
       /\ TsBeforeOrSame(e.ts, mine.clock)
       /\ Covers(mine, e) /\ \A f \in ClipboardEvent : Covers(ledger[d], f) => Covers(mine, f)
       /\ e.ts.logical <= ledger[d].clock.logical + 1
       /\ mine.clock.logical <= ledger[d].clock.logical + 2
  <2>1. ledger[d].current # NoEvent => TsBeforeOrSame(ledger[d].current.ts, ledger[d].clock)
    BY <1>9 DEF Agrees, Following
  <2>2. mine = RecordLocal(NextTimestamp(ledger[d], now), e, {Peer(d)}, 0)
    OBVIOUS
  <2>3. Peer(d) \in Device /\ ledger[d] \in LedgerState /\ e \in ClipboardEvent
        /\ e.ts = Tick(ledger[d].clock, now)
    BY <1>1, <1>2, <1>4
  <2> QED BY <1>12, <2>1, <2>2, <2>3, CreatedCovers
<1>14. e.ts.logical \in Nat /\ mine.clock.logical \in Nat
  <2>1. mine.clock \in Timestamp
    BY <1>13 DEF LedgerState
  <2>2. mine.clock.logical \in Nat
    BY <2>1, LogicalMaxAssumption DEF Timestamp
  <2> QED BY <1>4, <2>2, ClipboardEvents
<1>17. /\ Following(ledger[d], digest[d], history[d], outgoing[d])'
       /\ Following(ledger[Peer(d)], digest[Peer(d)], history[Peer(d)], outgoing[Peer(d)])'
  <2>1. e \in history'[d] \cup history'[Peer(d)] /\ history'[d] \subseteq history[d] \cup {e}
    BY <1>8
  <2>2. TsBeforeOrSame(ledger'[d].current.ts, ledger'[d].clock)
        /\ digest'[d] = ledger'[d].current.value /\ ledger'[d].current \in history'[d]
    BY <1>8, <1>13
  <2> QED BY <1>4, <1>6, <1>7, <1>8, <1>9, <1>13, <2>1, <2>2, LearningFollows
<1>18. Settled(ledger[d], outgoing[d], ledger[Peer(d)])'
  BY <1>6, <1>8, <1>13 DEF Settled, Underway
<1>19. Settled(ledger[Peer(d)], outgoing[Peer(d)], ledger[d])'
  <2>1. Settled(ledger[Peer(d)], outgoing[Peer(d)], ledger[d]) /\ ledger[Peer(d)] \in LedgerState
    BY <1>1, <1>2, <1>9 DEF Agrees, Shape
  <2>2. \A f : Underway(outgoing[Peer(d)], f) => Underway(mid[Peer(d)], f)
    BY <1>7 DEF Underway
  <2>3. /\ \A f \in ClipboardEvent : Covers(ledger[d], f) => Covers(mine, f)
        /\ LET f == ledger[Peer(d)].current
           IN  Underway(outgoing[Peer(d)], f) => Underway(mid[Peer(d)], f) \/ Covers(mine, f)
    BY <1>13, <2>2
  <2>4. Settled(ledger[Peer(d)], mid[Peer(d)], mine)
    BY <2>1, <2>3, SettledFacts
  <2> QED BY <1>8, <2>4
<1>20. /\ Ahead(d)' = 1 + Unread(outgoing'[Peer(d)])
       /\ Ahead(Peer(d))' = 1 + Unread(outgoing'[Peer(d)])
       /\ Ahead(Peer(d)) = Unread(outgoing[Peer(d)])
  BY <1>1, <1>10 DEF Ahead, Unread
<1>21. Counted(ledger[d], outgoing[d], Ahead(d))'
  <2>1. ASSUME NEW clock \in Nat, NEW ahead \in {0, 1}, NEW rest \in {0, 1}, rest <= ahead,
               clock + ahead <= 3 * issued, NEW n \in Nat, n <= clock + 2
        PROVE  n + (1 + rest) <= 3 * (issued + 1)
    BY <1>2, <2>1
  <2>2. /\ mine.clock.logical <= ledger[d].clock.logical + 2
        /\ e.ts.logical <= ledger[d].clock.logical + 2
    BY <1>11, <1>13, <1>14
  <2>3. mine.clock.logical + Ahead(d)' <= 3 * issued'
    BY <1>3, <1>10, <1>11, <1>14, <1>20, <2>1, <2>2
  <2>4. e.ts.logical + Ahead(d)' <= 3 * issued'
    BY <1>3, <1>10, <1>11, <1>14, <1>20, <2>1, <2>2
  <2> QED BY <1>6, <1>8, <2>3, <2>4 DEF Counted
<1>22. Counted(ledger[Peer(d)], outgoing[Peer(d)], Ahead(Peer(d)))'
  <2>1. Counted(ledger[Peer(d)], outgoing[Peer(d)], Ahead(Peer(d)))
    BY <1>9 DEF Agrees
  <2>2. /\ ledger[Peer(d)].clock.logical \in Nat
        /\ outgoing[Peer(d)] # Nothing => outgoing[Peer(d)].event.ts.logical \in Nat
    BY <1>1, <1>2, CounterTypes
  <2> QED BY <1>2, <1>3, <1>7, <1>8, <1>10, <1>20, <2>1, <2>2 DEF Counted
<1>23. Agrees(d)' /\ Agrees(Peer(d))'
  BY <1>1, <1>17, <1>18, <1>19, <1>21, <1>22 DEF Agrees
<1> QED
  BY <1>1, <1>23


\* What a ledger knows after it has received an event.
LEMMA ReceivedCovers ==
  ASSUME NEW l \in LedgerState, NEW e \in ClipboardEvent, NEW now \in Nat,
         l.current # NoEvent => TsBeforeOrSame(l.current.ts, l.clock),
         IsDuplicate(l, e) => Covers(l, e),
         NEW learned, learned = Receive(l, e, now)
  PROVE  /\ learned \in LedgerState /\ learned.seen \subseteq l.seen \cup {e.id}
         /\ learned.current = IF Applies(l, e) THEN e ELSE l.current
         /\ TsBeforeOrSame(learned.current.ts, learned.clock)
         /\ Covers(learned, e) /\ \A f \in ClipboardEvent : Covers(l, f) => Covers(learned, f)
         /\ \A most \in Nat : l.clock.logical <= most /\ e.ts.logical <= most =>
                                  learned.clock.logical <= most + 1
<1>1. l.clock \in Timestamp /\ e.ts \in Timestamp
  BY ClipboardEvents DEF LedgerState
<1>2. /\ learned \in LedgerState /\ learned.seen \subseteq l.seen \cup {e.id}
      /\ learned.current = IF Applies(l, e) THEN e ELSE l.current
      /\ learned.clock = Merge(l.clock, e.ts, now)
  <2>1. /\ Receive(l, e, now) \in LedgerState /\ Receive(l, e, now).seen \subseteq l.seen \cup {e.id}
        /\ Receive(l, e, now).current = IF Applies(l, e) THEN e ELSE l.current
        /\ Receive(l, e, now).clock = Merge(l.clock, e.ts, now)
    BY ReceiveFacts
  <2> QED BY <2>1, Zenon
<1>3. /\ TsBeforeOrSame(l.clock, learned.clock) /\ TsBeforeOrSame(e.ts, learned.clock)
      /\ learned.clock \in Timestamp
      /\ \A most \in Nat : l.clock.logical <= most /\ e.ts.logical <= most =>
                               learned.clock.logical <= most + 1
  <2>1. LET m == Merge(l.clock, e.ts, now)
        IN  /\ TsBeforeOrSame(l.clock, m) /\ TsBeforeOrSame(e.ts, m) /\ m \in Timestamp
            /\ \A most \in Nat : l.clock.logical <= most /\ e.ts.logical <= most =>
                                     m.logical <= most + 1
    BY <1>1, MergeAdvances
  <2> QED BY <1>2, <2>1, Zenon
<1>4. CASE Applies(l, e)
  <2>1. learned.current = e /\ (l.current # NoEvent => Before(l.current, e))
    BY <1>2, <1>4 DEF Applies, Supersedes
  <2>2. Covers(learned, e) /\ \A f \in ClipboardEvent : Covers(l, f) => Covers(learned, f)
    BY <2>1, NewerCovers, Zenon
  <2> QED BY <1>2, <1>3, <2>1, <2>2
<1>5. CASE ~ Applies(l, e)
  <2>1. learned.current = l.current
    BY <1>2, <1>5
  <2>2. Covers(l, e)
    BY <1>5 DEF Applies, Supersedes, Covers
  <2>3. \A f : Covers(l, f) => Covers(learned, f)
    BY <2>1 DEF Covers
  <2>4. l.current.ts \in Timestamp
    BY <2>2, ClipboardEvents DEF Covers, LedgerState
  <2>5. TsBeforeOrSame(l.current.ts, learned.clock)
    BY <1>1, <1>3, <2>2, <2>4, TsOrder DEF Covers
  <2> QED BY <1>2, <1>3, <2>1, <2>2, <2>3, <2>5
<1> QED
  BY <1>4, <1>5

LEMMA ApplyAgreement ==
  ASSUME SessionInv, SessionInv', Agreement, DebugAssertions, connected,
         NEW d \in Device, NEW e \in ClipboardEvent, NEW now \in Nat,
         outgoing[Peer(d)] # Nothing, outgoing[Peer(d)].event = e,
         outgoing[Peer(d)].phase = "sent",
         ApplyAndAcknowledge(d, e, now), UNCHANGED <<connected, issued>>,
         history' = [history EXCEPT ![d] =
                        IF IsDuplicate(ledger[d], e) THEN history[d] ELSE history[d] \cup {e}]
  PROVE  Agreement'
<1> PICK p : p = Peer(d)
  OBVIOUS
<1> PICK learned : learned = Receive(ledger[d], e, now)
  OBVIOUS
<1>1. p \in Device /\ p # d /\ Peer(p) = d /\ \A c \in Device : c = d \/ c = p
  BY PeerFacts
<1>2. Shape /\ ledger[d] \in LedgerState /\ ledger[p] \in LedgerState /\ issued \in Nat
  BY <1>1 DEF SessionInv, Shape
<1>3. /\ outgoing[p] # Nothing /\ outgoing[p].event = e /\ outgoing[p].phase = "sent"
      /\ outgoing[p] \in OutgoingOffer
  BY <1>1, <1>2 DEF Shape
<1>4. /\ outgoing'[d] = outgoing[d] /\ outgoing'[p] # Nothing
      /\ outgoing'[p].event = e /\ outgoing'[p].phase = "acked"
  <2>1. outgoing' = [outgoing EXCEPT ![p] = [outgoing[p] EXCEPT !.phase = "acked"]]
    BY DEF ApplyAndAcknowledge, AcknowledgeOffer
  <2> PICK answered : answered = [outgoing[p] EXCEPT !.phase = "acked"]
    OBVIOUS
  <2>2. answered \in OutgoingOffer /\ answered.event = e /\ answered.phase = "acked"
    BY <1>3 DEF OutgoingOffer
  <2>3. answered # Nothing
    BY <2>2, NothingAssumption
  <2>4. outgoing'[d] = outgoing[d] /\ outgoing'[p] = answered
    BY <1>1, <1>2, <2>1 DEF Shape
  <2> QED BY <2>2, <2>3, <2>4
<1>5. ledger'[d] = learned /\ ledger'[p] = ledger[p]
  BY <1>1, <1>2 DEF ApplyAndAcknowledge, Shape
<1>6. /\ digest'[p] = digest[p]
      /\ digest'[d] = IF Applies(ledger[d], e) THEN e.value ELSE digest[d]
  BY <1>1, <1>2 DEF ApplyAndAcknowledge, ApplyRemote, Shape
<1>7. /\ history'[p] = history[p] /\ history[d] \subseteq history'[d]
      /\ history'[d] \subseteq history[d] \cup {e}
      /\ ~ IsDuplicate(ledger[d], e) => e \in history'[d]
  BY <1>1, <1>2 DEF Shape
<1>8. e \in history[p]
  BY <1>1, <1>3 DEF SessionInv, Stored, Kept
<1> SUFFICES ASSUME 3 * issued <= LogicalMax
             PROVE  \A c \in Device : Agrees(c)'
  BY DEF Agreement
<1>9. Agrees(d) /\ Agrees(p)
  BY <1>1 DEF Agreement
<1>10. /\ Following(ledger[d], digest[d], history[d], outgoing[d])
       /\ Following(ledger[p], digest[p], history[p], outgoing[p])
       /\ Settled(ledger[d], outgoing[d], ledger[p]) /\ Settled(ledger[p], outgoing[p], ledger[d])
       /\ Counted(ledger[d], outgoing[d], Ahead(d)) /\ Counted(ledger[p], outgoing[p], Ahead(p))
  BY <1>1, <1>9 DEF Agrees
<1>11. IsDuplicate(ledger[d], e) => Covers(ledger[d], e)
  <2> SUFFICES ASSUME IsDuplicate(ledger[d], e) PROVE Covers(ledger[d], e)
    OBVIOUS
  <2>1. PICK f \in history[d] : f.id = e.id
    BY DEF IsDuplicate, SessionInv, Stored, Kept
  <2>2. f = e
    BY <1>1, <1>8, <2>1 DEF SessionInv, OneEvent
  <2> QED BY <1>10, <2>1, <2>2 DEF Following, IsDuplicate
<1>12. /\ learned \in LedgerState /\ learned.seen \subseteq ledger[d].seen \cup {e.id}
       /\ learned.current = IF Applies(ledger[d], e) THEN e ELSE ledger[d].current
       /\ TsBeforeOrSame(learned.current.ts, learned.clock)
       /\ Covers(learned, e)
       /\ \A f \in ClipboardEvent : Covers(ledger[d], f) => Covers(learned, f)
       /\ \A most \in Nat : ledger[d].clock.logical <= most /\ e.ts.logical <= most =>
                                learned.clock.logical <= most + 1
  <2>1. ledger[d].current # NoEvent => TsBeforeOrSame(ledger[d].current.ts, ledger[d].clock)
    BY <1>10 DEF Following
  <2> QED BY <1>2, <1>11, <2>1, ReceivedCovers, SMTT(30)
<1>13. digest'[d] = learned.current.value /\ learned.current \in history'[d]
  <2>1. CASE Applies(ledger[d], e)
    BY <1>6, <1>7, <1>12, <2>1 DEF Applies
  <2>2. CASE ~ Applies(ledger[d], e)
    <3>1. learned.current = ledger[d].current /\ ledger[d].current # NoEvent
      BY <1>12, <2>2 DEF Covers
    <3> QED BY <1>6, <1>7, <1>10, <2>2, <3>1 DEF Following
  <2> QED BY <2>1, <2>2
<1>14. /\ Following(ledger[d], digest[d], history[d], outgoing[d])'
       /\ Following(ledger[p], digest[p], history[p], outgoing[p])'
  <2>1. e \in history'[d] \cup history'[p]
    BY <1>7, <1>8
  <2>2. /\ outgoing'[d] # Nothing =>
              outgoing[d] # Nothing /\ outgoing'[d].event = outgoing[d].event
        /\ outgoing'[p] # Nothing =>
              outgoing[p] # Nothing /\ outgoing'[p].event = outgoing[p].event
    BY <1>3, <1>4
  <2> QED BY <1>5, <1>6, <1>7, <1>9, <1>12, <1>13, <2>1, <2>2, LearningFollows
<1>15. Settled(ledger[d], outgoing[d], ledger[p])'
  <2>1. CASE Applies(ledger[d], e)
    BY <1>3, <1>5, <1>10, <1>12, <2>1 DEF Following, Settled
  <2>2. CASE ~ Applies(ledger[d], e)
    BY <1>4, <1>5, <1>10, <1>12, <2>2 DEF Settled
  <2> QED BY <2>1, <2>2
<1>16. Settled(ledger[p], outgoing[p], ledger[d])'
  <2>1. LET f == ledger[p].current
        IN  Underway(outgoing[p], f) => Underway(outgoing'[p], f) \/ Covers(learned, f)
    BY <1>3, <1>12 DEF Underway
  <2>2. Settled(ledger[p], outgoing'[p], learned)
    BY <1>2, <1>10, <1>12, <2>1, SettledFacts
  <2> QED BY <1>5, <2>2
<1>17. /\ Unread(outgoing[p]) = 1 /\ Unread(outgoing'[p]) = 0
       /\ Unread(outgoing'[d]) = Unread(outgoing[d]) /\ Unread(outgoing[d]) \in {0, 1}
  BY <1>3, <1>4 DEF Unread
<1> PICK rest \in {0, 1} : rest = Unread(outgoing[d])
  BY <1>17
<1>18. /\ Ahead(d) = 1 + rest /\ Ahead(p) = 1 + rest
       /\ Ahead(d)' = rest /\ Ahead(p)' = rest
  BY <1>1, <1>17 DEF Ahead
<1>19. /\ ledger[d].clock.logical \in Nat /\ ledger[p].clock.logical \in Nat
       /\ learned.clock.logical \in Nat /\ e.ts.logical \in Nat
       /\ outgoing[d] # Nothing => outgoing[d].event.ts.logical \in Nat
  <2>1. \A k \in LedgerState : k.clock.logical \in Nat
    BY LogicalMaxAssumption DEF LedgerState, Timestamp
  <2>2. outgoing[d] # Nothing => outgoing[d].event \in ClipboardEvent
    BY <1>2 DEF Shape, OutgoingOffer
  <2> QED BY <1>2, <1>12, <2>1, <2>2, ClipboardEvents
<1>20. /\ ledger[d].clock.logical + (1 + rest) <= 3 * issued
       /\ ledger[p].clock.logical + (1 + rest) <= 3 * issued
       /\ e.ts.logical + (1 + rest) <= 3 * issued
       /\ outgoing[d] # Nothing => outgoing[d].event.ts.logical + (1 + rest) <= 3 * issued
  BY <1>3, <1>10, <1>18 DEF Counted
<1>21. learned.clock.logical + rest <= 3 * issued
  <2>1. /\ 3 * issued - (1 + rest) \in Nat
        /\ 3 * issued - (1 + rest) + (1 + rest) = 3 * issued
    BY <1>2, <1>19, <1>20
  <2> PICK most \in Nat : most + (1 + rest) = 3 * issued
    BY <2>1
  <2>2. ledger[d].clock.logical <= most /\ e.ts.logical <= most
    BY <1>2, <1>19, <1>20
  <2>3. learned.clock.logical <= most + 1
    BY <1>12, <2>2, Zenon
  <2> QED BY <1>2, <1>19, <2>3
<1>22. Counted(ledger[d], outgoing[d], Ahead(d))'
  BY <1>2, <1>4, <1>5, <1>18, <1>19, <1>20, <1>21 DEF Counted
<1>23. Counted(ledger[p], outgoing[p], Ahead(p))'
  BY <1>2, <1>4, <1>5, <1>18, <1>19, <1>20 DEF Counted
<1>24. Agrees(d)' /\ Agrees(p)'
  BY <1>1, <1>14, <1>15, <1>16, <1>22, <1>23 DEF Agrees
<1> QED
  BY <1>1, <1>24

(***************************************************************************)
(* The kinds of step, by what they do to what the users see.               *)
(***************************************************************************)
Quiet ==
    /\ UNCHANGED <<board, typed, connected, digest, history, issued, copies, sessions>>
    /\ \A d \in Device :
          /\ ledger'[d].current = ledger[d].current /\ ledger'[d].clock = ledger[d].clock
          /\ ledger'[d].seen = ledger[d].seen
          /\ Fades(outgoing[d], outgoing'[d])

\* The connection is gone; a failed write may have reached the clipboard.
Closing ==
    /\ connected' = FALSE
    /\ UNCHANGED <<outgoing, issued, copies, sessions>>
    /\ \/ UNCHANGED <<board, typed, digest>>
       \/ \E d \in Device, v \in Value : ApplyRemote(d, v)

\* Device d takes in the event e that its peer has offered.
TakesIn(d, e, now) ==
    /\ connected /\ UNCHANGED <<connected, issued, copies, sessions>>
    /\ outgoing[Peer(d)] # Nothing /\ outgoing[Peer(d)].event = e
    /\ outgoing[Peer(d)].phase = "sent"
    /\ ApplyAndAcknowledge(d, e, now)
    /\ history' = [history EXCEPT ![d] =
                      IF IsDuplicate(ledger[d], e) THEN history[d] ELSE history[d] \cup {e}]

Kinds ==
    \/ Quiet \/ Closing \/ StartSession
    \/ \E d \in Device : \E v \in Copies[d] : UserCopy(d, v)
    \/ \E d \in Device, now \in Nat, dropped \in BOOLEAN : PollLocal(d, now, dropped)
    \/ \E d \in Device, e \in ClipboardEvent, now \in Nat : TakesIn(d, e, now)

LEMMA DropFades ==
  ASSUME SessionInv, NEW d \in Device, Selecting(d), NEW dropped \in BOOLEAN,
         DropsRequest(d, dropped), NEW next, next = Interrupted(d, dropped)
  PROVE  /\ next \in [Device -> OutgoingOffer \cup {Nothing}]
         /\ Fades(outgoing[d], next[d]) /\ Fades(outgoing[Peer(d)], next[Peer(d)])
<1> PICK o : o = outgoing[Peer(d)]
  OBVIOUS
<1> PICK n : n = next[Peer(d)]
  OBVIOUS
<1>1. /\ next \in [Device -> OutgoingOffer \cup {Nothing}] /\ next[d] = outgoing[d]
      /\ n # Nothing => /\ o # Nothing /\ n.event = o.event
                        /\ n.phase = "acked" => o.phase = "acked"
      /\ o # Nothing => n # Nothing /\ n.phase \in {o.phase, "closed"}
  BY DropFacts
<1>2. CASE ~ dropped
  <2>1. next = outgoing
    BY <1>2 DEF Interrupted
  <2>2. \A x : Fades(x, x)
    BY DEF Fades
  <2> QED BY <1>1, <2>1, <2>2
<1>3. CASE dropped
  <2>1. next = Phased(Peer(d), "closed")
    BY <1>3 DEF Interrupted, Phased
  <2>2. /\ Peer(d) \in Device /\ inbox[d] # << >> /\ Head(inbox[d]).kind = "offer" /\ Shape
        /\ Conversation(inbox[d], fetch[d], outgoing[Peer(d)], fetch[Peer(d)], connected)
    BY <1>3, PeerFacts DEF DropsRequest, PartlyRead, SessionInv, Conversations
  <2>3. Head(inbox[d]) = inbox[d][1] /\ 1 \in DOMAIN inbox[d]
    BY <2>2, TailFacts DEF Conversation, Shape
  <2>4. o # Nothing
    BY <2>2, <2>3 DEF Conversation, Requested
  <2>5. n.phase = "closed"
    BY <2>1, <2>2, <2>4, PhaseFacts DEF Shape
  <2>6. Unread(n) <= Unread(o)
    BY <2>5 DEF Unread
  <2> QED BY <1>1, <2>4, <2>5, <2>6 DEF Fades
<1> QED
  BY <1>2, <1>3

LEMMA KindsOfStep ==
  ASSUME SessionInv, [Next]_vars
  PROVE  Kinds
<1>1. Shape
  BY DEF SessionInv
<1>2. \A o : Fades(o, o)
  BY DEF Fades
<1>3. CASE UNCHANGED vars
  <2>1. Quiet
    BY <1>2, <1>3 DEF vars, Quiet
  <2> QED BY <2>1 DEF Kinds
<1>4. CASE \E d \in Device : IdleTick(d)
  <2>1. PICK d \in Device : IdleTick(d)
    BY <1>4
  <2>2. /\ Selecting(d) /\ DropsRequest(d, TRUE) /\ outgoing' = Interrupted(d, TRUE)
        /\ UNCHANGED <<board, typed, connected, digest, ledger, history, issued, copies, sessions>>
    BY <2>1 DEF IdleTick, disk, bounds
  <2>3. Fades(outgoing[d], outgoing'[d]) /\ Fades(outgoing[Peer(d)], outgoing'[Peer(d)])
    BY <2>2, DropFades, TRUE \in BOOLEAN
  <2>4. \A c \in Device : Fades(outgoing[c], outgoing'[c])
    BY <2>3, PeerFacts
  <2>5. Quiet
    BY <2>2, <2>4 DEF Quiet
  <2> QED BY <2>5 DEF Kinds
<1>5. CASE LoseConnection \/ IdleTimeout
  <2>1. Closing
    BY <1>5 DEF LoseConnection, IdleTimeout, Closing, process, disk, bounds
  <2> QED BY <2>1 DEF Kinds
<1>6. ASSUME NEW d \in Device,
             PollUnreadable(d) \/ OfferFailed(d) \/ NoticeClosed(d) \/ ApplyFails(d)
      PROVE  Kinds
  <2>1. connected' = FALSE /\ UNCHANGED <<outgoing, issued, copies, sessions>>
    BY <1>6 DEF PollUnreadable, OfferFailed, NoticeClosed, ApplyFails, Stop, process, disk, bounds
  <2>2. UNCHANGED <<board, typed, digest>> \/ \E v \in Value : ApplyRemote(d, v)
    <3>1. CASE ~ ApplyFails(d)
      BY <1>6, <3>1 DEF PollUnreadable, OfferFailed, NoticeClosed, process
    <3>2. CASE ApplyFails(d)
      <4> PICK e : e = Head(inbox[d]).event
        OBVIOUS
      <4>1. /\ connected /\ inbox[d] # << >> /\ Head(inbox[d]).kind = "offer"
            /\ UNCHANGED <<board, typed, digest>> \/ ApplyRemote(d, e.value)
        BY <3>2 DEF ApplyFails
      <4>2. /\ Conversation(inbox[d], fetch[d], outgoing[Peer(d)], fetch[Peer(d)], connected)
            /\ Peer(d) \in Device
        BY PeerFacts DEF SessionInv, Conversations
      <4>3. Head(inbox[d]) = inbox[d][1] /\ 1 \in DOMAIN inbox[d]
        BY <1>1, <4>1, <4>2, TailFacts DEF Conversation, Shape
      <4>4. outgoing[Peer(d)] # Nothing /\ outgoing[Peer(d)].event = e
        BY <4>1, <4>2, <4>3 DEF Conversation, Requested
      <4>5. e.value \in Value
        BY <1>1, <4>2, <4>4 DEF Shape, OutgoingOffer, ClipboardEvent
      <4> QED BY <4>1, <4>5
    <3> QED BY <3>1, <3>2
  <2>3. Closing
    BY <2>1, <2>2 DEF Closing
  <2> QED BY <2>3 DEF Kinds
<1>7. ASSUME NEW d \in Device, Step(d)
      PROVE  Kinds
  <2>1. Wall[d] \subseteq Nat /\ Peer(d) \in Device /\ Peer(d) # d
        /\ \A c \in Device : c = d \/ c = Peer(d)
    BY SessionAssumption, PeerFacts
  <2>2. CASE \E now \in Wall[d], dropped \in BOOLEAN : PollLocal(d, now, dropped)
    BY <2>1, <2>2 DEF Kinds
  <2>3. CASE PollUnreadable(d) \/ OfferFailed(d) \/ NoticeClosed(d)
    BY <1>6, <2>3
  <2>4. CASE SendOffer(d)
    <3>1. /\ outgoing[d] # Nothing /\ outgoing[d].phase = "unsent" /\ outgoing' = Phased(d, "sent")
          /\ UNCHANGED <<board, typed, connected, digest, ledger, history, issued, copies, sessions>>
      BY <2>4 DEF SendOffer, Phased, disk, bounds
    <3>2. /\ outgoing'[d] # Nothing /\ outgoing'[d].event = outgoing[d].event
          /\ outgoing'[d].phase = "sent" /\ outgoing'[Peer(d)] = outgoing[Peer(d)]
      BY <1>1, <2>1, <3>1, PhaseFacts DEF Shape
    <3>3. Unread(outgoing'[d]) <= Unread(outgoing[d])
      BY <3>1, <3>2 DEF Unread
    <3>4. Fades(outgoing[d], outgoing'[d])
      BY <3>1, <3>2, <3>3 DEF Fades
    <3>5. \A c \in Device : Fades(outgoing[c], outgoing'[c])
      BY <1>2, <2>1, <3>2, <3>4
    <3>6. Quiet
      BY <3>1, <3>5 DEF Quiet
    <3> QED BY <3>6 DEF Kinds
  <2>5. ASSUME NEW dropped \in BOOLEAN, ReceiveAck(d, dropped)
        PROVE  Kinds
    <3> PICK id : id = outgoing[d].event.id
      OBVIOUS
    <3> PICK mid : mid = Interrupted(d, dropped)
      OBVIOUS
    <3>1. CASE ~ AwaitsAck(ledger[d], Peer(d), id)
      <4>1. Closing
        BY <2>5, <3>1 DEF ReceiveAck, Stop, Closing, process, disk, bounds
      <4> QED BY <4>1 DEF Kinds
    <3>2. CASE AwaitsAck(ledger[d], Peer(d), id)
      <4>1. /\ Selecting(d) /\ outgoing[d] # Nothing /\ outgoing[d].phase = "acked"
            /\ ledger' = [ledger EXCEPT ![d] = Acknowledge(ledger[d], Peer(d), id)]
            /\ DropsRequest(d, dropped) /\ outgoing' = [mid EXCEPT ![d] = Nothing]
            /\ UNCHANGED <<board, typed, connected, digest, history, issued, copies, sessions>>
        BY <2>5, <3>2 DEF ReceiveAck, disk, bounds
      <4>2. mid \in [Device -> OutgoingOffer \cup {Nothing}]
            /\ Fades(outgoing[Peer(d)], mid[Peer(d)])
        BY <4>1, DropFades
      <4>3. outgoing'[d] = Nothing /\ outgoing'[Peer(d)] = mid[Peer(d)]
        BY <2>1, <4>1, <4>2
      <4>4. Fades(outgoing[d], outgoing'[d]) /\ Fades(outgoing[Peer(d)], outgoing'[Peer(d)])
        BY <4>1, <4>2, <4>3 DEF Fades
      <4>5. \A c \in Device : Fades(outgoing[c], outgoing'[c])
        BY <2>1, <4>4
      <4> PICK l : l = Acknowledge(ledger[d], Peer(d), id)
        OBVIOUS
      <4>6. /\ ledger'[d] = l /\ ledger'[Peer(d)] = ledger[Peer(d)] /\ ledger[d] \in LedgerState
        BY <1>1, <2>1, <4>1 DEF Shape
      <4>7. /\ Acknowledge(ledger[d], Peer(d), id).seen = ledger[d].seen
            /\ Acknowledge(ledger[d], Peer(d), id).current = ledger[d].current
            /\ Acknowledge(ledger[d], Peer(d), id).clock = ledger[d].clock
        BY <2>1, <4>6, AcknowledgeFacts
      <4>8. \A c \in Device : /\ ledger'[c].current = ledger[c].current
                              /\ ledger'[c].clock = ledger[c].clock
                              /\ ledger'[c].seen = ledger[c].seen
        BY <2>1, <4>6, <4>7
      <4>9. Quiet
        BY <4>1, <4>5, <4>8 DEF Quiet
      <4> QED BY <4>9 DEF Kinds
    <3> QED BY <3>1, <3>2
  <2>6. ASSUME NEW now \in Nat, HandleOffer(d, now)
        PROVE  Kinds
    <3> PICK e : e = Head(inbox[d]).event
      OBVIOUS
    <3>1. /\ connected /\ inbox[d] # << >> /\ Head(inbox[d]).kind = "offer"
          /\ ApplyAndAcknowledge(d, e, now)
          /\ IF IsDuplicate(ledger[d], e) THEN UNCHANGED <<history, blobs>> ELSE Persisted(d, e)
          /\ UNCHANGED <<connected, issued, copies, sessions>>
      BY <2>6 DEF HandleOffer, disk, bounds
    <3>2. Conversation(inbox[d], fetch[d], outgoing[Peer(d)], fetch[Peer(d)], connected)
      BY DEF SessionInv, Conversations
    <3>3. Head(inbox[d]) = inbox[d][1] /\ 1 \in DOMAIN inbox[d]
      BY <1>1, <3>1, <3>2, TailFacts DEF Conversation, Shape
    <3>4. /\ outgoing[Peer(d)] # Nothing /\ outgoing[Peer(d)].event = e
          /\ outgoing[Peer(d)].phase = "sent"
      BY <3>1, <3>2, <3>3 DEF Conversation, Requested
    <3>5. e \in ClipboardEvent
      BY <1>1, <2>1, <3>4 DEF Shape, OutgoingOffer
    <3>6. history' = [history EXCEPT ![d] =
                         IF IsDuplicate(ledger[d], e) THEN history[d] ELSE history[d] \cup {e}]
      BY <1>1, <3>1 DEF Shape, Persisted
    <3>7. TakesIn(d, e, now)
      BY <3>1, <3>4, <3>6 DEF TakesIn
    <3> QED BY <3>5, <3>7 DEF Kinds
  <2>7. ASSUME NEW now \in Nat, RequestBlob(d, now)
        PROVE  Kinds
    <3>1. UNCHANGED <<board, typed, connected, digest, ledger, outgoing, history, issued, copies,
                      sessions>>
      BY <2>7 DEF RequestBlob, disk, bounds
    <3>2. Quiet
      BY <1>2, <3>1 DEF Quiet
    <3> QED BY <3>2 DEF Kinds
  <2>8. CASE ServeBlob(d)
    <3>1. CASE Head(inbox[d]).value \notin blobs[d]
      <4>1. Closing
        BY <2>8, <3>1 DEF ServeBlob, Stop, Closing, bounds
      <4> QED BY <4>1 DEF Kinds
    <3>2. CASE Head(inbox[d]).value \in blobs[d]
      <4>1. UNCHANGED <<board, typed, connected, digest, ledger, outgoing, history, issued, copies,
                        sessions>>
        BY <2>8, <3>2 DEF ServeBlob, disk, bounds
      <4>2. Quiet
        BY <1>2, <4>1 DEF Quiet
      <4> QED BY <4>2 DEF Kinds
    <3> QED BY <3>1, <3>2
  <2>9. CASE FinishFetch(d)
    <3> PICK e : e = fetch[d].event
      OBVIOUS
    <3> PICK now : now = fetch[d].now
      OBVIOUS
    <3>1. /\ fetch[d] # Nothing /\ connected
          /\ ApplyAndAcknowledge(d, e, now)
          /\ history' = [history EXCEPT ![d] =
                            IF IsDuplicate(ledger[d], e) THEN history[d] ELSE history[d] \cup {e}]
          /\ UNCHANGED <<connected, issued, copies, sessions>>
      BY <2>9 DEF FinishFetch, bounds
    <3>2. Conversation(inbox[d], fetch[d], outgoing[Peer(d)], fetch[Peer(d)], connected)
      BY DEF SessionInv, Conversations
    <3>3. /\ outgoing[Peer(d)] # Nothing /\ outgoing[Peer(d)].event = e
          /\ outgoing[Peer(d)].phase = "sent"
      BY <3>1, <3>2 DEF Conversation
    <3>4. e \in ClipboardEvent /\ now \in Nat
      BY <1>1, <3>1 DEF Shape, PendingFetch
    <3>5. TakesIn(d, e, now)
      BY <3>1, <3>3 DEF TakesIn
    <3> QED BY <3>4, <3>5 DEF Kinds
  <2> QED
    BY <1>7, <2>1, <2>2, <2>3, <2>4, <2>5, <2>6, <2>7, <2>8, <2>9 DEF Step
<1>8. CASE \E d \in Device : \E v \in Copies[d] : UserCopy(d, v)
  BY <1>8 DEF Kinds
<1>9. CASE StartSession
  BY <1>9 DEF Kinds
<1> QED
  BY <1>3, <1>4, <1>5, <1>6, <1>7, <1>8, <1>9 DEF Next, Environment

(***************************************************************************)
(* Convergence, the bound on the number of events, and echoes.             *)
(***************************************************************************)
LEMMA NewLedgers ==
  ASSUME NEW start \in Starts
  PROVE  \A d \in Device : /\ NewLedger(d, start[d]).current = NoEvent
                           /\ NewLedger(d, start[d]).clock.logical = 0
                           /\ NewLedger(d, start[d]).seen = {}
  BY DEF NewLedger, NewTimestamp

\* Two processes that know nothing agree.
Fresh ==
    /\ issued \in Nat
    /\ digest = [d \in Device |-> Nothing] /\ outgoing = [d \in Device |-> Nothing]
    /\ \A d \in Device : /\ ledger[d].current = NoEvent /\ ledger[d].clock.logical = 0
                          /\ ledger[d].seen = {}

LEMMA FreshAgreement == Fresh => Agreement
<1> SUFFICES ASSUME Fresh, NEW d \in Device PROVE Agrees(d)
  BY DEF Agreement
<1> USE DEF Fresh
<1>1. Peer(d) \in Device
  BY PeerFacts
<1>2. outgoing[d] = Nothing /\ outgoing[Peer(d)] = Nothing /\ digest[d] = Nothing
  BY <1>1
<1>3. Ahead(d) = 0
  BY <1>2 DEF Ahead, Unread
<1>4. Following(ledger[d], digest[d], history[d], outgoing[d])
  BY <1>2 DEF Following
<1>5. Settled(ledger[d], outgoing[d], ledger[Peer(d)])
  BY DEF Settled
<1>6. Counted(ledger[d], outgoing[d], Ahead(d))
  BY <1>2, <1>3 DEF Counted
<1> QED
  BY <1>4, <1>5, <1>6 DEF Agrees

LEMMA AgreementStep ==
  ASSUME SessionInv, SessionInv', Agreement, DebugAssertions, [Next]_vars
  PROVE  Agreement'
<1>1. Kinds
  BY KindsOfStep
<1>2. CASE Quiet
  BY <1>2, QuietAgreement DEF Quiet
<1>3. CASE Closing
  BY <1>3 DEF Closing, Agreement
<1>4. CASE StartSession
  <2>1. PICK start \in Starts : ledger' = [d \in Device |-> NewLedger(d, start[d])]
    BY <1>4 DEF StartSession
  <2>2. \A d \in Device : /\ ledger'[d].current = NoEvent /\ ledger'[d].clock.logical = 0
                          /\ ledger'[d].seen = {}
    BY <2>1, NewLedgers
  <2>3. /\ digest' = [d \in Device |-> Nothing] /\ outgoing' = [d \in Device |-> Nothing]
        /\ issued' \in Nat
    BY <1>4 DEF StartSession, SessionInv, Shape
  <2>4. Fresh'
    BY <2>2, <2>3 DEF Fresh
  <2> QED BY <2>4, FreshAgreement, PTL
<1>5. CASE \E d \in Device : \E v \in Copies[d] : UserCopy(d, v)
  <2>1. UNCHANGED <<connected, digest, ledger, outgoing, history, issued>>
    BY <1>5 DEF UserCopy, process, disk
  <2>2. \A o : Fades(o, o)
    BY DEF Fades
  <2> QED BY <2>1, <2>2, QuietAgreement
<1>6. CASE \E d \in Device, now \in Nat, dropped \in BOOLEAN : PollLocal(d, now, dropped)
  BY <1>6, PollAgreement
<1>7. CASE \E d \in Device, e \in ClipboardEvent, now \in Nat : TakesIn(d, e, now)
  <2> PICK d \in Device, e \in ClipboardEvent, now \in Nat : TakesIn(d, e, now)
    BY <1>7
  <2> QED BY ApplyAgreement DEF TakesIn
<1> QED
  BY <1>1, <1>2, <1>3, <1>4, <1>5, <1>6, <1>7 DEF Kinds

LEMMA AgreementInvariant ==
  ASSUME DebugAssertions
  PROVE  Spec => []Agreement
<1>1. Init => Agreement
  <2> SUFFICES ASSUME Init PROVE Agreement
    OBVIOUS
  <2>1. PICK start \in Starts : ledger = [d \in Device |-> NewLedger(d, start[d])]
    BY DEF Init
  <2>2. /\ digest = [d \in Device |-> Nothing] /\ outgoing = [d \in Device |-> Nothing]
        /\ issued \in Nat
    BY DEF Init
  <2> QED BY <2>1, <2>2, NewLedgers, FreshAgreement DEF Fresh
<1>2. SessionInv /\ SessionInv' /\ Agreement /\ [Next]_vars => Agreement'
  BY AgreementStep
<1> QED
  BY <1>1, <1>2, SessionInvariant, PTL DEF Spec

\* With nothing under way, each device has the newest event of the other.
LEMMA QuiescentAgreement ==
  ASSUME SessionInv, Agreement, 3 * issued <= LogicalMax
  PROVE  QuiescentConvergence
<1> SUFFICES ASSUME Quiescent PROVE \A c, d \in Device : board[c] = board[d]
  BY DEF QuiescentConvergence
<1>1. ASSUME NEW d \in Device
      PROVE  /\ ledger[d].current # NoEvent /\ ledger[d].current \in history[d]
             /\ ledger[d].current \in ClipboardEvent
             /\ board[d] = ledger[d].current.value
             /\ ~ Before(ledger[Peer(d)].current, ledger[d].current)
  <2>1. Agrees(d) /\ outgoing[d] = Nothing /\ digest[d] = board[d] /\ board[d] # Nothing
    BY DEF Agreement, Quiescent
  <2>2. /\ ledger[d].current # NoEvent /\ ledger[d].current \in history[d]
        /\ board[d] = ledger[d].current.value
    BY <2>1 DEF Agrees, Following
  <2>3. ~ Before(ledger[Peer(d)].current, ledger[d].current)
    BY <2>1, <2>2 DEF Agrees, Settled, Underway, Covers
  <2>4. ledger[d].current \in ClipboardEvent
    BY <2>2 DEF SessionInv, Shape
  <2> QED BY <2>2, <2>3, <2>4
<1>2. ASSUME NEW d \in Device
      PROVE  board[Peer(d)] = board[d]
  <2> PICK e : e = ledger[d].current
    OBVIOUS
  <2> PICK f : f = ledger[Peer(d)].current
    OBVIOUS
  <2>1. Peer(d) \in Device /\ Peer(Peer(d)) = d
    BY PeerFacts
  <2>2. /\ e \in ClipboardEvent /\ e \in history[d] /\ board[d] = e.value /\ ~ Before(f, e)
    BY <1>1
  <2>3. /\ f \in ClipboardEvent /\ f \in history[Peer(d)] /\ board[Peer(d)] = f.value
        /\ ~ Before(e, f)
    BY <1>1, <2>1
  <2>4. e.id = f.id
    BY <2>2, <2>3, ClipboardEvents, CompareOrder
  <2>5. e = f
    BY <2>1, <2>2, <2>3, <2>4 DEF SessionInv, OneEvent
  <2> QED BY <2>2, <2>3, <2>5
<1> QED
  BY <1>2, PeerFacts

\* Events are created by polls that find something new, and there is nothing new
\* without a copy of the user's or a new process.
Few(d) == IF board[d] \in {Nothing, digest[d]} THEN 0 ELSE 1
Budget ==
    /\ copies \in Nat /\ sessions \in Nat
    /\ copies <= MaxCopies /\ sessions <= MaxSessions
    /\ \A d \in Device : issued + Few(d) + Few(Peer(d)) <= copies + 2 * sessions

\* The session's own writes are known to the monitor of a process that has one.
Echoes == \A d \in Device : typed[d] \/ digest[d] \in {Nothing, board[d]}

LEMMA FewFacts == \A d \in Device : Few(d) \in {0, 1} /\ Few(d)' \in {0, 1}
BY DEF Few

\* A step that only shows what the session wrote, or nothing.
LEMMA WrittenStep ==
  ASSUME SessionInv, Echoes,
         UNCHANGED <<board, typed, digest>> \/ \E d \in Device, v \in Value : ApplyRemote(d, v)
  PROVE  Echoes' /\ \A d \in Device : Few(d)' <= Few(d)
<1>1. Shape
  BY DEF SessionInv
<1>2. CASE UNCHANGED <<board, typed, digest>>
  BY <1>2, FewFacts DEF Echoes, Few
<1>3. ASSUME NEW d \in Device, NEW v \in Value, ApplyRemote(d, v)
      PROVE  Echoes' /\ \A c \in Device : Few(c)' <= Few(c)
  <2>1. /\ board'[d] = v /\ digest'[d] = v
        /\ \A c \in Device : c # d => board'[c] = board[c] /\ digest'[c] = digest[c]
                                       /\ typed'[c] = typed[c]
    BY <1>1, <1>3 DEF ApplyRemote, Shape
  <2>2. Few(d)' = 0
    BY <2>1 DEF Few
  <2>3. \A c \in Device : c # d => Few(c)' = Few(c)
    BY <2>1 DEF Few
  <2>4. \A c \in Device : Few(c)' <= Few(c)
    BY <2>2, <2>3, FewFacts
  <2> QED BY <2>1, <2>4 DEF Echoes
<1> QED
  BY <1>2, <1>3

LEMMA BudgetStep ==
  ASSUME SessionInv, Echoes, Budget, [Next]_vars
  PROVE  Echoes' /\ Budget' /\ OffersUserCopy
<1>1. Shape /\ Kinds /\ issued \in Nat /\ \A c \in Device : Peer(c) \in Device
  BY KindsOfStep, PeerFacts DEF SessionInv, Shape
<1>2. ASSUME UNCHANGED <<issued, copies, sessions>>, \A d \in Device : Few(d)' <= Few(d)
      PROVE  Budget'
  <2> SUFFICES ASSUME NEW d \in Device
               PROVE  issued + Few(d)' + Few(Peer(d))' <= copies + 2 * sessions
    BY <1>2 DEF Budget
  <2>1. /\ Few(d)' <= Few(d) /\ Few(Peer(d))' <= Few(Peer(d))
        /\ Few(d) \in {0, 1} /\ Few(d)' \in {0, 1}
        /\ Few(Peer(d)) \in {0, 1} /\ Few(Peer(d))' \in {0, 1}
    BY <1>1, <1>2, FewFacts
  <2>2. issued + Few(d) + Few(Peer(d)) <= copies + 2 * sessions /\ copies \in Nat /\ sessions \in Nat
    BY DEF Budget
  <2> QED BY <1>1, <2>1, <2>2
<1>3. CASE Quiet
  <2>1. OffersUserCopy
    BY <1>3 DEF Quiet, Fades, OffersUserCopy
  <2> QED BY <1>2, <1>3, <2>1, WrittenStep DEF Quiet
<1>4. CASE Closing
  <2>1. OffersUserCopy
    BY <1>4 DEF Closing, OffersUserCopy
  <2> QED BY <1>2, <1>4, <2>1, WrittenStep DEF Closing
<1>5. CASE \E d \in Device, e \in ClipboardEvent, now \in Nat : TakesIn(d, e, now)
  <2> PICK d \in Device, e \in ClipboardEvent, now \in Nat : TakesIn(d, e, now)
    BY <1>5
  <2>1. /\ UNCHANGED <<issued, copies, sessions>> /\ outgoing[Peer(d)] # Nothing
        /\ UNCHANGED <<board, typed, digest>> \/ ApplyRemote(d, e.value)
        /\ outgoing' = Phased(Peer(d), "acked")
    BY DEF TakesIn, ApplyAndAcknowledge, AcknowledgeOffer, Phased
  <2>2. \A c \in Device : c # Peer(d) => outgoing'[c] = outgoing[c]
    BY <1>1, <2>1, PhaseFacts DEF Shape
  <2>3. OffersUserCopy
    BY <2>1, <2>2 DEF OffersUserCopy
  <2>4. e.value \in Value
    BY DEF ClipboardEvent
  <2> QED BY <1>2, <2>1, <2>3, <2>4, WrittenStep
<1>6. CASE StartSession
  <2>1. /\ digest' = [d \in Device |-> Nothing] /\ outgoing' = [d \in Device |-> Nothing]
        /\ sessions < MaxSessions /\ sessions' = sessions + 1 /\ UNCHANGED <<issued, copies>>
    BY <1>6 DEF StartSession
  <2>2. Echoes' /\ OffersUserCopy
    BY <2>1 DEF Echoes, OffersUserCopy
  <2>3. ASSUME NEW d \in Device
        PROVE  issued' + Few(d)' + Few(Peer(d))' <= copies' + 2 * sessions'
    <3>1. /\ Few(d) \in {0, 1} /\ Few(d)' \in {0, 1}
          /\ Few(Peer(d)) \in {0, 1} /\ Few(Peer(d))' \in {0, 1}
      BY <1>1, FewFacts
    <3>2. issued + Few(d) + Few(Peer(d)) <= copies + 2 * sessions /\ copies \in Nat /\ sessions \in Nat
      BY DEF Budget
    <3> QED BY <1>1, <2>1, <3>1, <3>2
  <2>4. copies' \in Nat /\ sessions' \in Nat /\ copies' <= MaxCopies /\ sessions' <= MaxSessions
    BY <2>1, SessionAssumption DEF Budget
  <2> QED BY <2>2, <2>3, <2>4 DEF Budget
<1>7. ASSUME NEW d \in Device, NEW v \in Copies[d], UserCopy(d, v)
      PROVE  Echoes' /\ Budget' /\ OffersUserCopy
  <2>1. /\ copies < MaxCopies /\ copies' = copies + 1
        /\ board' = [board EXCEPT ![d] = v] /\ typed' = [typed EXCEPT ![d] = TRUE]
        /\ UNCHANGED <<digest, outgoing, issued, sessions>>
    BY <1>7 DEF UserCopy, process
  <2>2. /\ typed'[d] = TRUE
        /\ \A c \in Device : c # d => board'[c] = board[c] /\ typed'[c] = typed[c]
    BY <1>1, <2>1 DEF Shape
  <2>3. Echoes' /\ OffersUserCopy
    BY <2>1, <2>2 DEF Echoes, OffersUserCopy
  <2>4. \A c \in Device : c # d => Few(c)' = Few(c)
    BY <2>1, <2>2 DEF Few
  <2>5. ASSUME NEW c \in Device
        PROVE  issued' + Few(c)' + Few(Peer(c))' <= copies' + 2 * sessions'
    <3>1. /\ Few(c) \in {0, 1} /\ Few(c)' \in {0, 1}
          /\ Few(Peer(c)) \in {0, 1} /\ Few(Peer(c))' \in {0, 1}
      BY <1>1, FewFacts
    <3>2. issued + Few(c) + Few(Peer(c)) <= copies + 2 * sessions /\ copies \in Nat /\ sessions \in Nat
      BY DEF Budget
    <3>3. Few(c)' = Few(c) \/ Few(Peer(c))' = Few(Peer(c))
      BY <1>1, <2>4, PeerFacts
    <3> QED BY <1>1, <2>1, <3>1, <3>2, <3>3
  <2>6. copies' \in Nat /\ sessions' \in Nat /\ copies' <= MaxCopies /\ sessions' <= MaxSessions
    BY <2>1, SessionAssumption DEF Budget
  <2> QED BY <2>3, <2>5, <2>6 DEF Budget
<1>8. ASSUME NEW d \in Device, NEW now \in Nat, NEW dropped \in BOOLEAN, PollLocal(d, now, dropped)
      PROVE  Echoes' /\ Budget' /\ OffersUserCopy
  <2> PICK mid : mid = Interrupted(d, dropped)
    OBVIOUS
  <2>1. /\ Selecting(d) /\ DropsRequest(d, dropped)
        /\ board[d] \notin {Nothing, digest[d]}
        /\ digest' = [digest EXCEPT ![d] = board[d]]
        /\ \E offer : outgoing' = [mid EXCEPT ![d] = offer]
        /\ issued' = issued + 1 /\ UNCHANGED <<board, typed, copies, sessions>>
    BY <1>8 DEF PollLocal
  <2>2. /\ digest'[d] = board'[d]
        /\ \A c \in Device : c # d => digest'[c] = digest[c]
    BY <1>1, <2>1 DEF Shape
  <2>3. Echoes'
    BY <2>1, <2>2 DEF Echoes
  <2>4. OffersUserCopy
    <3>1. /\ mid \in [Device -> OutgoingOffer \cup {Nothing}]
          /\ mid[Peer(d)] # Nothing => outgoing[Peer(d)] # Nothing
      BY <2>1, DropFacts
    <3>2. outgoing'[Peer(d)] = mid[Peer(d)]
      BY <2>1, <3>1, PeerFacts
    <3>3. typed[d] \/ digest[d] = Nothing
      BY <2>1 DEF Echoes
    <3> QED BY <3>1, <3>2, <3>3, PeerFacts DEF OffersUserCopy
  <2>5. Few(d) = 1 /\ Few(d)' = 0 /\ \A c \in Device : c # d => Few(c)' = Few(c)
    BY <2>1, <2>2 DEF Few
  <2>6. ASSUME NEW c \in Device
        PROVE  issued' + Few(c)' + Few(Peer(c))' <= copies' + 2 * sessions'
    <3>1. /\ Few(c) \in {0, 1} /\ Few(c)' \in {0, 1}
          /\ Few(Peer(c)) \in {0, 1} /\ Few(Peer(c))' \in {0, 1}
      BY <1>1, FewFacts
    <3>2. issued + Few(c) + Few(Peer(c)) <= copies + 2 * sessions /\ copies \in Nat /\ sessions \in Nat
      BY DEF Budget
    <3>3. Few(c)' + Few(Peer(c))' + 1 = Few(c) + Few(Peer(c))
      <4>1. CASE c = d
        <5>1. Few(c)' = 0 /\ Few(c) = 1 /\ Few(Peer(c))' = Few(Peer(c))
          BY <2>5, <4>1, PeerFacts
        <5> QED BY <3>1, <5>1
      <4>2. CASE Peer(c) = d
        <5>1. Few(Peer(c))' = 0 /\ Few(Peer(c)) = 1 /\ Few(c)' = Few(c)
          BY <2>5, <4>2, PeerFacts
        <5> QED BY <3>1, <5>1
      <4> QED BY <4>1, <4>2, PeerFacts
    <3> QED BY <1>1, <2>1, <3>1, <3>2, <3>3
  <2>7. copies' \in Nat /\ sessions' \in Nat /\ copies' <= MaxCopies /\ sessions' <= MaxSessions
    BY <2>1 DEF Budget
  <2> QED BY <2>3, <2>4, <2>6, <2>7 DEF Budget
<1> QED
  BY <1>1, <1>3, <1>4, <1>5, <1>6, <1>7, <1>8 DEF Kinds

LEMMA BudgetInvariant == Spec => [](Echoes /\ Budget)
<1>1. Init => Echoes /\ Budget
  <2> SUFFICES ASSUME Init PROVE Echoes /\ Budget
    OBVIOUS
  <2>1. /\ typed = [d \in Device |-> TRUE] /\ issued = 0 /\ copies = 0 /\ sessions = 1
    BY DEF Init
  <2>2. \A d \in Device : Few(d) \in {0, 1} /\ Few(Peer(d)) \in {0, 1}
    BY FewFacts, PeerFacts
  <2>3. 0 <= MaxCopies /\ 1 <= MaxSessions
    BY SessionAssumption
  <2> QED BY <2>1, <2>2, <2>3 DEF Echoes, Budget
<1>2. SessionInv /\ Echoes /\ Budget /\ [Next]_vars => (Echoes /\ Budget)'
  BY BudgetStep
<1> QED
  BY <1>1, <1>2, SessionInvariant, PTL DEF Spec

\* No loops: whatever order copies, offers, drops, failed writes and restarts come
\* in, a poll offers what the user has copied, or what the first poll of a new
\* process finds.
THEOREM WritesAreNotEchoed == Spec => NoEcho
<1>1. SessionInv /\ Echoes /\ Budget /\ [Next]_vars => [OffersUserCopy]_vars
  BY BudgetStep
<1> QED
  BY <1>1, SessionInvariant, BudgetInvariant, PTL DEF Spec, NoEcho

\* As long as three ticks for each event have not saturated a logical counter, two
\* idle monitors show the same content.  The build must have its debug assertions:
\* without them the ledger never learns of an applied event.
THEOREM IdleMonitorsAgree ==
  ASSUME DebugAssertions
  PROVE  Spec => [](3 * issued <= LogicalMax => QuiescentConvergence)
<1>1. SessionInv /\ Agreement => (3 * issued <= LogicalMax => QuiescentConvergence)
  BY QuiescentAgreement
<1> QED
  BY <1>1, SessionInvariant, AgreementInvariant, PTL

\* There is one event at most for each copy, and two for each pair of processes, so
\* the counter that the runs use is large enough for convergence in all their
\* states.
THEOREM CopiesConverge ==
  ASSUME DebugAssertions, 3 * (MaxCopies + 2 * MaxSessions) <= LogicalMax
  PROVE  Spec => []QuiescentConvergence
<1>1. SessionInv /\ Budget => 3 * issued <= LogicalMax
  <2> SUFFICES ASSUME SessionInv, Budget PROVE 3 * issued <= LogicalMax
    OBVIOUS
  <2>1. PICK d \in Device : TRUE
    BY SessionAssumption
  <2>2. Few(d) \in {0, 1} /\ Few(Peer(d)) \in {0, 1}
    BY FewFacts, PeerFacts
  <2>3. issued \in Nat
    BY DEF SessionInv, Shape
  <2>4. issued + Few(d) + Few(Peer(d)) <= copies + 2 * sessions
        /\ copies \in Nat /\ sessions \in Nat /\ copies <= MaxCopies /\ sessions <= MaxSessions
    BY DEF Budget
  <2> QED BY <2>2, <2>3, <2>4, SessionAssumption, LogicalMaxAssumption
<1> QED
  BY <1>1, IdleMonitorsAgree, BudgetInvariant, SessionInvariant, PTL
=============================================================================
