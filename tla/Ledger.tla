------------------------------- MODULE Ledger -------------------------------
(***************************************************************************)
(* ReplicationLedger of crates/network/src/replication.rs, as operators on *)
(* a ledger record: one operator per method.  A method that mutates self   *)
(* is an operator that returns the new ledger.                             *)
(*                                                                         *)
(* An event is any record with an id, an origin and a timestamp ts; the    *)
(* modules that use the ledger add the fields they need.  Ids and devices  *)
(* are UUIDs, compared as numbers when two timestamps are equal.           *)
(***************************************************************************)
EXTENDS HybridClock, Sequences

CONSTANTS Device,         \* device ids
          SeenCapacity,   \* seen_capacity: 20_000 in the code
          NoEvent         \* current = None

ASSUME DeviceAssumption == Device \subseteq Nat
ASSUME SeenCapacityAssumption == SeenCapacity \in Nat

NewLedger(device, millis) ==
    [local     |-> device,
     clock     |-> NewTimestamp(millis),
     seen      |-> {},
     seenOrder |-> << >>,
     current   |-> NoEvent,
     pending   |-> [peer \in Device |-> {}]]

\* Faulty: no tie-break between events of the same timestamp.
BeforeByTime(a, b) == TsBefore(a.ts, b.ts)

\* compare_event: the order of (timestamp, origin, id) triples.
Before(a, b) ==
    \/ TsBefore(a.ts, b.ts)
    \/ a.ts = b.ts /\ a.origin < b.origin
    \/ a.ts = b.ts /\ a.origin = b.origin /\ a.id < b.id

\* A faulty preview: the last event to arrive wins.
SupersedesAlways(l, e) == TRUE

\* preview, as one predicate for each of its three answers.
IsDuplicate(l, e) == e.id \in l.seen
Supersedes(l, e) == l.current # NoEvent => Before(l.current, e)
Applies(l, e) == ~ IsDuplicate(l, e) /\ Supersedes(l, e)

\* A faulty mark_seen: the queue is trimmed and the set is not.
MarkSeenForever(l, id) ==
    IF id \in l.seen THEN l
    ELSE LET order == Append(l.seenOrder, id)
         IN  [l EXCEPT !.seen = @ \cup {id},
                       !.seenOrder = IF Len(order) > SeenCapacity THEN Tail(order) ELSE order]

\* mark_seen: a fixed-capacity FIFO.  The loop of the code removes at most
\* one entry because the queue was within its capacity before the push.
MarkSeen(l, id) ==
    IF id \in l.seen THEN l
    ELSE LET order == Append(l.seenOrder, id)
         IN  IF Len(order) > SeenCapacity
             THEN [l EXCEPT !.seen = (@ \cup {id}) \ {Head(order)},
                            !.seenOrder = Tail(order)]
             ELSE [l EXCEPT !.seen = @ \cup {id},
                            !.seenOrder = order]

\* next_timestamp; the timestamp returned is the clock of the result.
NextTimestamp(l, now) == [l EXCEPT !.clock = Tick(@, now)]

\* record_local, for an event of this device (a foreign one is an error that
\* leaves the ledger alone and that no caller can produce).
RecordLocal(l, e, peers, expires) ==
    LET merged == [l EXCEPT !.clock = Merge(@, e.ts, e.ts.physical)]
    IN  [MarkSeen(merged, e.id) EXCEPT
            !.current = e,
            !.pending = [peer \in Device |->
                IF peer \in peers /\ peer # l.local
                THEN @[peer] \cup {[event |-> e, expires |-> expires]}
                ELSE @[peer]]]

\* receive: the clock moves even for a duplicate, the id is remembered even
\* for a superseded event.
Receive(l, e, now) ==
    LET merged == [l EXCEPT !.clock = Merge(@, e.ts, now)]
    IN  IF IsDuplicate(l, e) THEN merged
        ELSE IF Supersedes(l, e) THEN [MarkSeen(merged, e.id) EXCEPT !.current = e]
        ELSE MarkSeen(merged, e.id)

\* Faulty: an event is gone in the last millisecond of its life.
PrunePendingEarly(l, peer, now) ==
    [l EXCEPT !.pending[peer] = {p \in @ : p.expires > now}]

\* pending_for: forget what has expired.
PrunePending(l, peer, now) ==
    [l EXCEPT !.pending[peer] = {p \in @ : p.expires >= now}]

\* acknowledge, and the Boolean it returns.
Acknowledge(l, peer, id) ==
    [l EXCEPT !.pending[peer] = {p \in @ : p.event.id # id}]
AwaitsAck(l, peer, id) == \E p \in l.pending[peer] : p.event.id = id
=============================================================================
