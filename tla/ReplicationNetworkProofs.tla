---------------------- MODULE ReplicationNetworkProofs ----------------------
(***************************************************************************)
(* Proofs of the safety properties of ReplicationNetwork, for every set of *)
(* devices, ids and wall-clock readings, every capacity of the replay      *)
(* filter and every width of the logical counter.                          *)
(***************************************************************************)
EXTENDS ReplicationNetwork, LedgerProofs, SequenceTheorems, TLAPS

USE LogicalMaxAssumption, DeviceAssumption, SeenCapacityAssumption, IdAssumption,
    WallAssumption, RetentionAssumption, MaxRestartsAssumption, NoEventAssumption

-----------------------------------------------------------------------------
(* compare_event (replication.rs) is a strict total order on the events of   *)
(* the network, an event having no field but those it compares.              *)
LEMMA EventOrder ==
    ASSUME NEW a \in Event, NEW b \in Event, NEW c \in Event
    PROVE  /\ ~ Before(a, a)
           /\ Before(a, b) /\ Before(b, c) => Before(a, c)
           /\ Before(a, b) \/ Before(b, a) \/ a = b
           /\ ~ (Before(a, b) /\ Before(b, a))
           /\ Before(a, b) => TsBeforeOrSame(a.ts, b.ts)
           /\ ~ Before(a, b) => TsBeforeOrSame(b.ts, a.ts)
<1>1. Comparable(a) /\ Comparable(b) /\ Comparable(c)
  BY DEF Comparable, Event
<1>2. a.ts = b.ts /\ a.origin = b.origin /\ a.id = b.id => a = b
  BY DEF Event
<1> QED  BY <1>1, <1>2, CompareOrder

-----------------------------------------------------------------------------
(* The ledger.                                                             *)

(* The set and the queue of the replay filter agree on order.              *)
SeenAgrees(seen, order) ==
    /\ Len(order) <= SeenCapacity
    /\ seen = {order[i] : i \in 1..Len(order)}
    /\ \A i, j \in 1..Len(order) : order[i] = order[j] => i = j

(* mark_seen (replication.rs) keeps the two halves of the replay filter in   *)
(* step, within the capacity, and adds no id but its argument.               *)
LEMMA MarkSeenAgrees ==
    ASSUME NEW l \in LedgerType, NEW id \in Id,
           SeenAgrees(l.seen, l.seenOrder)
    PROVE  /\ MarkSeen(l, id) \in LedgerType
           /\ MarkSeen(l, id).local = l.local
           /\ MarkSeen(l, id).clock = l.clock
           /\ MarkSeen(l, id).current = l.current
           /\ MarkSeen(l, id).pending = l.pending
           /\ MarkSeen(l, id).seen \subseteq l.seen \cup {id}
           /\ SeenAgrees(MarkSeen(l, id).seen, MarkSeen(l, id).seenOrder)
<1> DEFINE m == MarkSeen(l, id)
           s == l.seenOrder
           t == Append(s, id)
<1>1. s \in Seq(Id) /\ l.seen \in SUBSET Id
  BY DEF LedgerType
<1>2. CASE id \in l.seen
  BY <1>2 DEF MarkSeen
<1>3. CASE id \notin l.seen
  <2>1. /\ t \in Seq(Id)
        /\ Len(t) = Len(s) + 1
        /\ Len(s) \in Nat
        /\ t[Len(s) + 1] = id
        /\ \A i \in 1..Len(s) : t[i] = s[i]
    BY <1>1
  <2>2. l.seen \cup {id} = {t[i] : i \in 1..Len(t)}
    BY <2>1 DEF SeenAgrees
  <2>3. \A i, j \in 1..Len(t) : t[i] = t[j] => i = j
    <3> SUFFICES ASSUME NEW i \in 1..Len(t), NEW j \in 1..Len(t), t[i] = t[j]
                 PROVE  i = j
      OBVIOUS
    <3>1. \A k \in 1..Len(s) : s[k] # id
      BY <1>3 DEF SeenAgrees
    <3>2. CASE i \in 1..Len(s) /\ j \in 1..Len(s)
      BY <3>2, <2>1 DEF SeenAgrees
    <3>3. CASE i = Len(s) + 1 \/ j = Len(s) + 1
      BY <3>1, <3>3, <2>1
    <3> QED  BY <3>2, <3>3, <2>1
  <2>4. CASE Len(t) > SeenCapacity
    <3>1. m = [l EXCEPT !.seen = (l.seen \cup {id}) \ {Head(t)}, !.seenOrder = Tail(t)]
      BY <1>3, <2>4 DEF MarkSeen
    <3>2. t # << >>
      <4> HIDE DEF t
      <4>1. Len(<< >>) = 0
        BY EmptySeq
      <4> QED  BY <2>1, <4>1
    <3>3. /\ Tail(t) \in Seq(Id)
          /\ Len(Tail(t)) = Len(s)
          /\ \A i \in 1..Len(s) : Tail(t)[i] = t[i + 1]
          /\ Head(t) = t[1]
      BY <2>1, <3>2, HeadTailProperties
    <3> HIDE DEF t, s
    <3>4. (l.seen \cup {id}) \ {t[1]} = {Tail(t)[i] : i \in 1..Len(s)}
      <4>1. ASSUME NEW x \in (l.seen \cup {id}) \ {t[1]}
            PROVE  x \in {Tail(t)[i] : i \in 1..Len(s)}
        <5>1. PICK k \in 1..Len(t) : t[k] = x
          BY <2>2, <4>1
        <5>2. k # 1
          BY <5>1, <4>1
        <5>3. k - 1 \in 1..Len(s) /\ t[(k - 1) + 1] = x
          BY <5>1, <5>2, <2>1
        <5> QED  BY <5>3, <3>3
      <4>2. ASSUME NEW i \in 1..Len(s)
            PROVE  Tail(t)[i] \in (l.seen \cup {id}) \ {t[1]}
        <5>1. i + 1 \in 1..Len(t) /\ 1 \in 1..Len(t) /\ i + 1 # 1
          BY <2>1
        <5>2. t[i + 1] # t[1] /\ t[i + 1] \in l.seen \cup {id}
          BY <5>1, <2>2, <2>3
        <5> QED  BY <5>2, <3>3
      <4> QED  BY <4>1, <4>2
    <3>5. SeenAgrees((l.seen \cup {id}) \ {Head(t)}, Tail(t))
      <4>1. Len(Tail(t)) <= SeenCapacity
        BY <3>3 DEF SeenAgrees, s
      <4>2. \A i, j \in 1..Len(Tail(t)) : Tail(t)[i] = Tail(t)[j] => i = j
        <5> SUFFICES ASSUME NEW i \in 1..Len(Tail(t)), NEW j \in 1..Len(Tail(t)),
                            Tail(t)[i] = Tail(t)[j]
                     PROVE  i = j
          OBVIOUS
        <5>1. i + 1 \in 1..Len(t) /\ j + 1 \in 1..Len(t) /\ i \in Nat /\ j \in Nat
          BY <2>1, <3>3
        <5>2. t[i + 1] = t[j + 1]
          BY <3>3
        <5> QED  BY <5>1, <5>2, <2>3
      <4> QED  BY <4>1, <4>2, <3>3, <3>4 DEF SeenAgrees
    <3> HIDE DEF m
    <3>6. m \in LedgerType
      <4>1. Tail(t) \in Seq(Id) /\ (l.seen \cup {id}) \ {Head(t)} \in SUBSET Id
        BY <3>3, <1>1
      <4> QED  BY <3>1, <4>1 DEF LedgerType
    <3> QED  BY <3>1, <3>5, <3>6 DEF LedgerType, m
  <2>5. CASE ~ (Len(t) > SeenCapacity)
    <3>1. m = [l EXCEPT !.seen = l.seen \cup {id}, !.seenOrder = t]
      BY <1>3, <2>5 DEF MarkSeen
    <3>2. Len(t) <= SeenCapacity
      BY <2>1, <2>5
    <3>3. SeenAgrees(l.seen \cup {id}, t)
      BY <3>2, <2>2, <2>3 DEF SeenAgrees
    <3> HIDE DEF t, s, m
    <3>4. m \in LedgerType
      BY <3>1, <2>1, <1>1 DEF LedgerType
    <3> QED  BY <3>1, <3>3, <3>4 DEF LedgerType, m
  <2> QED  BY <2>4, <2>5
<1> QED  BY <1>2, <1>3

(* record_local (replication.rs): what it does to each field of the ledger. *)
LEMMA RecordLocalFields ==
    ASSUME NEW l \in LedgerType, NEW e \in Event, NEW peers \in SUBSET Device,
           NEW expires \in Nat, SeenAgrees(l.seen, l.seenOrder)
    PROVE  LET r == RecordLocal(l, e, peers, expires)
           IN  /\ r \in LedgerType
               /\ r.local = l.local
               /\ r.clock = Merge(l.clock, e.ts, e.ts.physical)
               /\ r.current = e
               /\ \A peer \in Device : l.pending[peer] \subseteq r.pending[peer]
               /\ \A peer \in Device : \A p \in r.pending[peer] :
                      p \in l.pending[peer] \/ p.event = e
               /\ r.seen \subseteq l.seen \cup {e.id}
               /\ SeenAgrees(r.seen, r.seenOrder)
<1> DEFINE merged == [l EXCEPT !.clock = Merge(l.clock, e.ts, e.ts.physical)]
           m == MarkSeen(merged, e.id)
           q == [peer \in Device |->
                    IF peer \in peers /\ peer # merged.local
                    THEN m.pending[peer] \cup {[event |-> e, expires |-> expires]}
                    ELSE m.pending[peer]]
           r == RecordLocal(l, e, peers, expires)
<1>1. e.id \in Id /\ e.ts \in Timestamp /\ l.clock \in Timestamp /\ e.ts.physical \in Nat
  BY DEF Event, Timestamp, LedgerType
<1>2. Merge(l.clock, e.ts, e.ts.physical) \in Timestamp
  BY <1>1, MergeAdvances
<1>3. /\ merged \in LedgerType
      /\ merged.seen = l.seen /\ merged.seenOrder = l.seenOrder
      /\ merged.local = l.local /\ merged.pending = l.pending
      /\ merged.clock = Merge(l.clock, e.ts, e.ts.physical)
  BY <1>2 DEF LedgerType
<1>4. r = [m EXCEPT !.current = e, !.pending = q]
  BY <1>3 DEF RecordLocal
<1> HIDE DEF merged
<1>5. /\ m \in LedgerType
      /\ m.local = l.local /\ m.clock = merged.clock /\ m.pending = l.pending
      /\ m.seen \subseteq l.seen \cup {e.id}
      /\ SeenAgrees(m.seen, m.seenOrder)
  BY <1>1, <1>3, MarkSeenAgrees
<1> HIDE DEF m, r
<1>6. q \in [Device -> SUBSET PendingEvent]
  BY <1>5 DEF LedgerType, PendingEvent
<1>7. /\ \A peer \in Device : l.pending[peer] \subseteq q[peer]
      /\ \A peer \in Device : \A p \in q[peer] : p \in l.pending[peer] \/ p.event = e
  BY <1>5
<1> HIDE DEF q
<1> QED  BY <1>3, <1>4, <1>5, <1>6, <1>7 DEF LedgerType, r

(* receive (replication.rs): what it does to each field of the ledger.      *)
LEMMA ReceiveFields ==
    ASSUME NEW l \in LedgerType, NEW e \in Event, NEW now \in Nat,
           SeenAgrees(l.seen, l.seenOrder)
    PROVE  LET r == Receive(l, e, now)
           IN  /\ r \in LedgerType
               /\ r.local = l.local
               /\ r.clock = Merge(l.clock, e.ts, now)
               /\ r.current = IF Applies(l, e) THEN e ELSE l.current
               /\ r.pending = l.pending
               /\ r.seen \subseteq l.seen \cup {e.id}
               /\ SeenAgrees(r.seen, r.seenOrder)
<1> DEFINE merged == [l EXCEPT !.clock = Merge(l.clock, e.ts, now)]
           m == MarkSeen(merged, e.id)
           r == Receive(l, e, now)
<1>1. e.id \in Id /\ e.ts \in Timestamp /\ l.clock \in Timestamp
  BY DEF Event, LedgerType
<1>2. Merge(l.clock, e.ts, now) \in Timestamp
  BY <1>1, MergeAdvances
<1>3. /\ merged \in LedgerType
      /\ merged.seen = l.seen /\ merged.seenOrder = l.seenOrder
      /\ merged.local = l.local /\ merged.pending = l.pending
      /\ merged.clock = Merge(l.clock, e.ts, now)
      /\ merged.current = l.current
  BY <1>2 DEF LedgerType
<1>4. r = IF IsDuplicate(l, e) THEN merged
          ELSE IF Supersedes(l, e) THEN [m EXCEPT !.current = e] ELSE m
  BY DEF Receive
<1> HIDE DEF merged
<1>5. /\ m \in LedgerType
      /\ m.local = l.local /\ m.clock = merged.clock /\ m.pending = l.pending
      /\ m.current = l.current
      /\ m.seen \subseteq l.seen \cup {e.id}
      /\ SeenAgrees(m.seen, m.seenOrder)
  BY <1>1, <1>3, MarkSeenAgrees
<1> HIDE DEF m, r
<1>6. CASE IsDuplicate(l, e)
  BY <1>3, <1>4, <1>6 DEF r, Applies
<1>7. CASE ~ IsDuplicate(l, e) /\ Supersedes(l, e)
  <2>1. r = [m EXCEPT !.current = e]
    BY <1>4, <1>7
  <2>2. r \in LedgerType /\ r.current = e /\ r.local = m.local /\ r.clock = m.clock
        /\ r.pending = m.pending /\ r.seen = m.seen /\ r.seenOrder = m.seenOrder
    BY <2>1, <1>5 DEF LedgerType
  <2> QED  BY <2>2, <1>3, <1>5, <1>7 DEF r, Applies
<1>8. CASE ~ IsDuplicate(l, e) /\ ~ Supersedes(l, e)
  BY <1>3, <1>4, <1>5, <1>8 DEF r, Applies
<1> QED  BY <1>6, <1>7, <1>8

(* pending_for and acknowledge (replication.rs) change one replay queue and  *)
(* only take entries out of it.                                              *)
LEMMA DequeueFields ==
    ASSUME NEW l \in LedgerType, NEW peer \in Device, NEW now, NEW id
    PROVE  \A r \in {PrunePending(l, peer, now), Acknowledge(l, peer, id)} :
               /\ r \in LedgerType
               /\ r.local = l.local /\ r.clock = l.clock /\ r.current = l.current
               /\ r.seen = l.seen /\ r.seenOrder = l.seenOrder
               /\ \A x \in Device : r.pending[x] \subseteq l.pending[x]
<1> DEFINE kept(S) == [l EXCEPT !.pending = [@ EXCEPT ![peer] = S]]
<1>1. ASSUME NEW S \in SUBSET l.pending[peer]
      PROVE  /\ kept(S) \in LedgerType
             /\ kept(S).local = l.local /\ kept(S).clock = l.clock
             /\ kept(S).current = l.current
             /\ kept(S).seen = l.seen /\ kept(S).seenOrder = l.seenOrder
             /\ \A x \in Device : kept(S).pending[x] \subseteq l.pending[x]
  <2> DEFINE q == [l.pending EXCEPT ![peer] = S]
  <2>1. /\ q \in [Device -> SUBSET PendingEvent]
        /\ \A x \in Device : q[x] \subseteq l.pending[x]
    BY DEF LedgerType
  <2>2. kept(S) = [l EXCEPT !.pending = q]
    OBVIOUS
  <2> HIDE DEF q, kept
  <2> QED  BY <2>1, <2>2 DEF LedgerType
<1>2. PrunePending(l, peer, now) = kept({p \in l.pending[peer] : p.expires >= now})
  BY DEF PrunePending
<1>3. Acknowledge(l, peer, id) = kept({p \in l.pending[peer] : p.event.id # id})
  BY DEF Acknowledge
<1> HIDE DEF kept
<1>4. ASSUME NEW r \in {PrunePending(l, peer, now), Acknowledge(l, peer, id)}
      PROVE  \E S \in SUBSET l.pending[peer] : r = kept(S)
  BY <1>2, <1>3
<1> QED  BY <1>1, <1>4

-----------------------------------------------------------------------------
(* The inductive invariant, device by device.                              *)

NewestOf(c, P) ==
    \A e \in P : /\ c \in P
                 /\ TsBeforeOrSame(e.ts, c.ts)
                 /\ ~ Saturated(e.ts) => AtLeast(c, e)

AheadOf(clock, P) ==
    \A e \in P : /\ TsBeforeOrSame(e.ts, clock)
                 /\ ~ Saturated(e.ts) => TsBefore(e.ts, clock)

(* What IInv says of a device with ledger l that has processed the events P. *)
DeviceInv(l, P) ==
    /\ SeenAgrees(l.seen, l.seenOrder)
    /\ \A id \in l.seen : \E e \in P : e.id = id
    /\ l.current \in P \cup {NoEvent}
    /\ \A peer \in Device : \A p \in l.pending[peer] : p.event \in P
    /\ NewestOf(l.current, P)
    /\ AheadOf(l.clock, P)

InvByDevice ==
    /\ TypeOK
    /\ UniqueIds
    /\ \A d \in Device : DeviceInv(ledger[d], processed[d])

\* The invariant, regrouped as one statement per device and one about ids, which is
\* how an action that changes one ledger preserves it.
LEMMA IInvByDevice == IInv <=> InvByDevice
<1> SUFFICES ASSUME TypeOK, UniqueIds
             PROVE  (CurrentIsProcessed /\ PendingIsProcessed /\ SeenIsBoundedHistory
                       /\ CurrentIsNewestProcessed /\ ClockAheadOfProcessed)
                    <=> \A d \in Device : DeviceInv(ledger[d], processed[d])
  BY DEF IInv, InvByDevice
<1>1. CurrentIsProcessed <=> \A d \in Device : ledger[d].current \in processed[d] \cup {NoEvent}
  BY DEF CurrentIsProcessed
<1>2. SeenIsBoundedHistory <=>
        \A d \in Device : /\ SeenAgrees(ledger[d].seen, ledger[d].seenOrder)
                          /\ \A id \in ledger[d].seen : \E e \in processed[d] : e.id = id
  BY DEF SeenIsBoundedHistory, SeenAgrees
<1>3. CurrentIsNewestProcessed <=> \A d \in Device : NewestOf(ledger[d].current, processed[d])
  BY DEF CurrentIsNewestProcessed, NewestOf
<1>4. ClockAheadOfProcessed <=> \A d \in Device : AheadOf(ledger[d].clock, processed[d])
  BY DEF ClockAheadOfProcessed, AheadOf
<1>5. PendingIsProcessed <=>
        \A d \in Device : \A peer \in Device : \A p \in ledger[d].pending[peer] :
            p.event \in processed[d]
  BY DEF PendingIsProcessed
<1> QED  BY <1>1, <1>2, <1>3, <1>4, <1>5 DEF DeviceInv

(* One device takes a step: the others keep their part of the invariant.    *)
LEMMA OneDeviceSteps ==
    ASSUME IInv, NEW d \in Device, NEW r \in LedgerType, NEW P \in SUBSET events',
           r.local = d, DeviceInv(r, P),
           ledger' = [ledger EXCEPT ![d] = r],
           processed' = [processed EXCEPT ![d] = P],
           events \subseteq events', events' \subseteq Event, UniqueIds',
           restarts' \in 0..MaxRestarts
    PROVE  IInv'
<1>1. TypeOK /\ \A x \in Device : DeviceInv(ledger[x], processed[x])
  BY IInvByDevice DEF InvByDevice
<1>2. ledger' \in [Device -> LedgerType] /\ \A x \in Device : ledger'[x].local = x
  BY <1>1 DEF TypeOK
<1>3. processed' \in [Device -> SUBSET events']
  BY <1>1 DEF TypeOK
<1>4. TypeOK'
  BY <1>2, <1>3 DEF TypeOK
<1>5. \A x \in Device : DeviceInv(ledger'[x], processed'[x])
  BY <1>1 DEF TypeOK
<1>6. InvByDevice'
  BY <1>4, <1>5 DEF InvByDevice
<1> QED  BY <1>6, IInvByDevice, PTL

(* A ledger that has moved its clock forward and done nothing else.         *)
LEMMA LaterClock ==
    ASSUME NEW l \in LedgerType, NEW r \in LedgerType, NEW P \in SUBSET Event,
           DeviceInv(l, P), r.current = l.current, r.seen = l.seen, r.seenOrder = l.seenOrder,
           \A peer \in Device : r.pending[peer] \subseteq l.pending[peer],
           TsBeforeOrSame(l.clock, r.clock)
    PROVE  DeviceInv(r, P)
<1>1. l.clock \in Timestamp /\ r.clock \in Timestamp /\ \A e \in P : e.ts \in Timestamp
  BY DEF LedgerType, Event
<1>2. AheadOf(r.clock, P)
  BY <1>1, TsOrder DEF DeviceInv, AheadOf
<1> QED  BY <1>2 DEF DeviceInv

(* A new local copy is ordered after everything processed so far.           *)
LEMMA FreshCopy ==
    ASSUME NEW l \in LedgerType, NEW P \in SUBSET Event, AheadOf(l.clock, P),
           NEW now \in Nat, NEW e \in Event, e.ts = Tick(l.clock, now)
    PROVE  \A f \in P : /\ TsBeforeOrSame(f.ts, e.ts)
                        /\ ~ Saturated(f.ts) => TsBefore(f.ts, e.ts) /\ Before(f, e)
<1> TAKE f \in P
<1>1. l.clock \in Timestamp /\ f.ts \in Timestamp /\ e.ts \in Timestamp
  BY DEF LedgerType, Event
<1>2. TsBeforeOrSame(l.clock, e.ts)
  BY <1>1, TickAdvances
<1>3. TsBeforeOrSame(f.ts, l.clock) /\ (~ Saturated(f.ts) => TsBefore(f.ts, l.clock))
  BY DEF AheadOf
<1> QED  BY <1>1, <1>2, <1>3, TsOrder DEF Before

-----------------------------------------------------------------------------
(* One lemma for each kind of step.                                        *)

\* Recording a copy (record_local) preserves the invariant, and the new event is
\* ordered after all its device had processed.
LEMMA LocalCopyStep ==
    ASSUME IInv, NEW d \in Device, NEW now \in Wall, NEW id \in Id, LocalCopy(d, now, id)
    PROVE  IInv' /\ NewCopyIsNewest /\ AppliesFreshEvent /\ PendingIsKept
<1> DEFINE l == ledger[d]
           P == processed[d]
           stamped == NextTimestamp(l, now)
           e == [id |-> id, origin |-> d, ts |-> stamped.clock]
           r == RecordLocal(stamped, e, Device, now + Retention)
<1>1. /\ TypeOK /\ UniqueIds /\ DeviceInv(l, P)
      /\ l \in LedgerType /\ l.local = d /\ l.clock \in Timestamp
      /\ P \in SUBSET events /\ P \in SUBSET Event
      /\ now \in Nat /\ now + Retention \in Nat
  BY IInvByDevice DEF InvByDevice, TypeOK, LedgerType
<1>2. Tick(l.clock, now) \in Timestamp /\ TsBeforeOrSame(l.clock, Tick(l.clock, now))
  BY <1>1, TickAdvances
<1>3. /\ stamped \in LedgerType
      /\ stamped.clock = Tick(l.clock, now) /\ stamped.local = d
      /\ stamped.seen = l.seen /\ stamped.seenOrder = l.seenOrder
      /\ stamped.current = l.current /\ stamped.pending = l.pending
  BY <1>1, <1>2 DEF NextTimestamp, LedgerType
<1>4. /\ ledger' = [ledger EXCEPT ![d] = r]
      /\ events' = events \cup {e}
      /\ processed' = [processed EXCEPT ![d] = P \cup {e}]
      /\ restarts' = restarts
      /\ \A f \in events : f.id # id
  BY DEF LocalCopy
<1>5. e \in Event /\ e.id = id /\ e.ts = Tick(l.clock, now) /\ e.origin = d
      /\ e.ts \in Timestamp /\ e.ts.physical \in Nat
  BY <1>2, <1>3 DEF Event, Timestamp
<1> HIDE DEF stamped, e, l, P
<1>. SeenAgrees(stamped.seen, stamped.seenOrder)
  BY <1>1, <1>3 DEF DeviceInv
<1>6. /\ r \in LedgerType /\ r.local = d
      /\ r.clock = Merge(e.ts, e.ts, e.ts.physical)
      /\ r.current = e
      /\ \A peer \in Device : l.pending[peer] \subseteq r.pending[peer]
      /\ \A peer \in Device : \A p \in r.pending[peer] : p \in l.pending[peer] \/ p.event = e
      /\ r.seen \subseteq l.seen \cup {id}
      /\ SeenAgrees(r.seen, r.seenOrder)
  <2>1. Device \in SUBSET Device
    OBVIOUS
  <2>2. /\ r \in LedgerType
        /\ r.local = stamped.local
        /\ r.clock = Merge(stamped.clock, e.ts, e.ts.physical)
        /\ r.current = e
        /\ \A peer \in Device : stamped.pending[peer] \subseteq r.pending[peer]
        /\ \A peer \in Device : \A p \in r.pending[peer] :
               p \in stamped.pending[peer] \/ p.event = e
        /\ r.seen \subseteq stamped.seen \cup {e.id}
        /\ SeenAgrees(r.seen, r.seenOrder)
    <3> HIDE DEF r
    <3> QED  BY <1>1, <1>3, <1>5, <2>1, RecordLocalFields DEF r
  <2> HIDE DEF r
  <2> QED  BY <1>3, <1>5, <2>2
<1> HIDE DEF r
<1>7. \A f \in P : /\ TsBeforeOrSame(f.ts, e.ts)
                   /\ ~ Saturated(f.ts) => TsBefore(f.ts, e.ts) /\ Before(f, e)
  BY <1>1, <1>5, FreshCopy DEF DeviceInv
<1>8. /\ r.clock \in Timestamp /\ TsBeforeOrSame(e.ts, r.clock)
      /\ ~ Saturated(e.ts) => TsBefore(e.ts, r.clock)
  BY <1>5, <1>6, MergeAdvances, ZenonT(30)
<1>9. DeviceInv(r, P \cup {e})
  <2>1. NewestOf(e, P \cup {e})
    BY <1>5, <1>7, TsOrder DEF NewestOf, AtLeast
  <2>2. AheadOf(r.clock, P \cup {e})
    <3>1. \A f \in P : f.ts \in Timestamp
      BY <1>1 DEF Event
    <3> QED  BY <3>1, <1>5, <1>7, <1>8, TsOrder DEF AheadOf
  <2> QED  BY <1>1, <1>5, <1>6, <2>1, <2>2 DEF DeviceInv
<1>10. UniqueIds'
  BY <1>1, <1>4, <1>5 DEF UniqueIds
<1>11. IInv'
  BY <1>1, <1>4, <1>5, <1>6, <1>9, <1>10, OneDeviceSteps DEF TypeOK
<1>12. NewCopyIsNewest
  BY <1>4, <1>5, <1>7 DEF NewCopyIsNewest, P
<1>13. AppliesFreshEvent
  <2>1. ledger'[d] = r /\ \A x \in Device \ {d} : ledger'[x] = ledger[x]
    BY <1>1, <1>4 DEF TypeOK
  <2>2. e \notin P
    BY <1>1, <1>4, <1>5
  <2> QED  BY <1>6, <2>1, <2>2 DEF AppliesFreshEvent, P
<1>14. PendingIsKept
  <2>1. ledger'[d] = r /\ \A x \in Device \ {d} : ledger'[x] = ledger[x]
    BY <1>1, <1>4 DEF TypeOK
  <2> QED  BY <1>6, <2>1 DEF PendingIsKept, l
<1> QED  BY <1>11, <1>12, <1>13, <1>14

\* Receiving an event, new or old, preserves the invariant, and makes current only
\* an event that had not been processed.
LEMMA ReceiveEventStep ==
    ASSUME IInv, NEW d \in Device, NEW now \in Wall, NEW e \in events, ReceiveEvent(d, e, now)
    PROVE  IInv' /\ NewCopyIsNewest /\ AppliesFreshEvent /\ PendingIsKept
<1> DEFINE l == ledger[d]
           P == processed[d]
           r == Receive(l, e, now)
<1>1. /\ TypeOK /\ UniqueIds /\ DeviceInv(l, P)
      /\ l \in LedgerType /\ l.local = d /\ l.clock \in Timestamp
      /\ P \in SUBSET events /\ P \in SUBSET Event /\ events \subseteq Event
      /\ l.current \in P \cup {NoEvent}
      /\ e \in Event /\ e.ts \in Timestamp /\ now \in Nat
  BY IInvByDevice DEF InvByDevice, TypeOK, LedgerType, DeviceInv, Event
<1>2. /\ ledger' = [ledger EXCEPT ![d] = r]
      /\ processed' = [processed EXCEPT ![d] = P \cup {e}]
      /\ events' = events /\ restarts' = restarts
  BY DEF ReceiveEvent
<1> HIDE DEF l, P
<1>. SeenAgrees(l.seen, l.seenOrder)
  BY <1>1 DEF DeviceInv
<1>3. /\ r \in LedgerType /\ r.local = d
      /\ r.clock = Merge(l.clock, e.ts, now)
      /\ r.current = IF Applies(l, e) THEN e ELSE l.current
      /\ r.pending = l.pending
      /\ r.seen \subseteq l.seen \cup {e.id}
      /\ SeenAgrees(r.seen, r.seenOrder)
  BY <1>1, ReceiveFields, SMTT(30)
<1> HIDE DEF r
<1>4. /\ r.clock \in Timestamp
      /\ TsBeforeOrSame(l.clock, r.clock) /\ TsBeforeOrSame(e.ts, r.clock)
      /\ ~ Saturated(e.ts) => TsBefore(e.ts, r.clock)
  <2> DEFINE m == Merge(l.clock, e.ts, now)
  <2>1. /\ m \in Timestamp
        /\ TsBeforeOrSame(l.clock, m) /\ TsBeforeOrSame(e.ts, m)
        /\ ~ Saturated(e.ts) => TsBefore(e.ts, m)
    BY <1>1, MergeAdvances
  <2> HIDE DEF m
  <2> QED  BY <1>3, <2>1 DEF m
<1>5. AheadOf(r.clock, P \cup {e})
  <2>1. \A f \in P : f.ts \in Timestamp /\ TsBeforeOrSame(f.ts, l.clock)
                     /\ (~ Saturated(f.ts) => TsBefore(f.ts, l.clock))
    BY <1>1 DEF Event, DeviceInv, AheadOf
  <2> QED  BY <2>1, <1>1, <1>4, TsOrder DEF AheadOf
<1>6. P = {} \/ l.current \in P
  BY <1>1 DEF DeviceInv, NewestOf
<1>7. IsDuplicate(l, e) => e \in P
  <2> SUFFICES ASSUME IsDuplicate(l, e) PROVE e \in P
    OBVIOUS
  <2>1. PICK f \in P : f.id = e.id
    BY <1>1 DEF IsDuplicate, DeviceInv
  <2> QED  BY <2>1, <1>1 DEF UniqueIds
<1>8. /\ r.current \in P \cup {e}
      /\ NewestOf(r.current, P \cup {e})
  <2>1. CASE P = {}
    <3>1. l.current = NoEvent /\ ~ IsDuplicate(l, e)
      BY <2>1, <1>1, <1>7
    <3>2. r.current = e
      BY <3>1, <1>3 DEF Applies, Supersedes
    <3> QED  BY <2>1, <3>2, <1>1, TsOrder DEF NewestOf, AtLeast
  <2>2. CASE l.current \in P
    <3>1. /\ l.current \in Event /\ l.current # NoEvent
          /\ \A f \in P : /\ f \in Event /\ f.ts \in Timestamp
                          /\ TsBeforeOrSame(f.ts, l.current.ts)
                          /\ ~ Saturated(f.ts) => AtLeast(l.current, f)
      BY <2>2, <1>1 DEF DeviceInv, NewestOf, Event
    <3>2. CASE Applies(l, e)
      <4>1. r.current = e /\ Before(l.current, e)
        BY <3>1, <3>2, <1>3 DEF Applies, Supersedes
      <4>2. TsBeforeOrSame(l.current.ts, e.ts) /\ l.current.ts \in Timestamp
        BY <4>1, <3>1, <1>1, EventOrder DEF Event
      <4>3. \A f \in P : TsBeforeOrSame(f.ts, e.ts)
        BY <4>2, <3>1, <1>1, TsOrder
      <4>4. \A f \in P : ~ Saturated(f.ts) => AtLeast(e, f)
        BY <4>1, <3>1, <1>1, EventOrder DEF AtLeast
      <4> QED  BY <4>1, <4>3, <4>4, <1>1, TsOrder DEF NewestOf, AtLeast
    <3>3. CASE ~ Applies(l, e) /\ e \in P
      <4>1. P \cup {e} = P /\ r.current = l.current
        BY <3>3, <1>3
      <4> QED  BY <4>1, <2>2, <3>1 DEF NewestOf
    <3>4. CASE ~ Applies(l, e) /\ e \notin P
      <4>1. r.current = l.current /\ ~ Before(l.current, e)
        BY <3>1, <3>4, <1>3, <1>7 DEF Applies, Supersedes
      <4>2. TsBeforeOrSame(e.ts, l.current.ts) /\ AtLeast(l.current, e)
        BY <4>1, <3>1, <1>1, EventOrder DEF AtLeast
      <4> QED  BY <4>1, <4>2, <2>2, <3>1 DEF NewestOf
    <3> QED  BY <3>2, <3>3, <3>4
  <2> QED  BY <2>1, <2>2, <1>6
<1>9. DeviceInv(r, P \cup {e})
  BY <1>1, <1>3, <1>5, <1>8 DEF DeviceInv
<1>10. IInv'
  BY <1>1, <1>2, <1>3, <1>9, OneDeviceSteps DEF TypeOK, UniqueIds
<1>11. ledger'[d] = r /\ \A x \in Device \ {d} : ledger'[x] = ledger[x]
  BY <1>1, <1>2 DEF TypeOK
<1>12. AppliesFreshEvent
  <2> SUFFICES r.current = l.current \/ r.current \notin P \/ Saturated(r.current.ts)
    BY <1>11 DEF AppliesFreshEvent, l, P
  <2> SUFFICES ASSUME Applies(l, e), e \in P, ~ Saturated(e.ts) PROVE FALSE
    BY <1>3
  <2>1. l.current \in Event /\ l.current # NoEvent /\ AtLeast(l.current, e)
    BY <1>1 DEF DeviceInv, NewestOf
  <2>2. Before(l.current, e)
    BY <2>1 DEF Applies, Supersedes
  <2> QED  BY <2>1, <2>2, <1>1, EventOrder DEF AtLeast
<1>13. PendingIsKept
  BY <1>3, <1>11 DEF PendingIsKept, l
<1>14. NewCopyIsNewest
  BY <1>2 DEF NewCopyIsNewest
<1> QED  BY <1>10, <1>12, <1>13, <1>14

(* A sensitive copy, an acknowledgement and the pruning of a replay queue    *)
(* touch neither what a device has processed nor its current event.          *)
LEMMA QuietStep ==
    ASSUME IInv, NEW d \in Device, NEW r \in LedgerType,
           r.local = ledger[d].local, r.current = ledger[d].current,
           r.seen = ledger[d].seen, r.seenOrder = ledger[d].seenOrder,
           \A x \in Device : r.pending[x] \subseteq ledger[d].pending[x],
           TsBeforeOrSame(ledger[d].clock, r.clock),
           ledger' = [ledger EXCEPT ![d] = r], UNCHANGED <<events, processed, restarts>>
    PROVE  IInv' /\ NewCopyIsNewest /\ AppliesFreshEvent
<1>1. /\ TypeOK /\ UniqueIds /\ DeviceInv(ledger[d], processed[d])
      /\ ledger[d] \in LedgerType /\ ledger[d].local = d
      /\ processed[d] \in SUBSET events /\ processed[d] \in SUBSET Event
  BY IInvByDevice DEF InvByDevice, TypeOK
<1>2. DeviceInv(r, processed[d])
  BY <1>1, LaterClock
<1>3. processed' = [processed EXCEPT ![d] = processed[d]]
  BY <1>1 DEF TypeOK
<1>4. IInv'
  <2>1. /\ events \subseteq events' /\ events' \subseteq Event /\ UniqueIds'
        /\ restarts' \in 0..MaxRestarts /\ processed[d] \in SUBSET events' /\ r.local = d
    BY <1>1 DEF TypeOK, UniqueIds
  <2> QED  BY <1>2, <1>3, <2>1, OneDeviceSteps
<1>5. \A x \in Device : ledger'[x].current = ledger[x].current
  BY <1>1 DEF TypeOK
<1> QED  BY <1>4, <1>5 DEF NewCopyIsNewest, AppliesFreshEvent

\* A sensitive copy moves the clock alone.
LEMMA SensitiveCopyStep ==
    ASSUME IInv, NEW d \in Device, NEW now \in Wall, SensitiveCopy(d, now)
    PROVE  IInv' /\ NewCopyIsNewest /\ AppliesFreshEvent /\ PendingIsKept
<1> DEFINE l == ledger[d]
           r == NextTimestamp(l, now)
<1>1. TypeOK /\ l \in LedgerType /\ l.clock \in Timestamp /\ now \in Nat
  BY DEF IInv, TypeOK, LedgerType
<1>2. Tick(l.clock, now) \in Timestamp /\ TsBeforeOrSame(l.clock, Tick(l.clock, now))
  BY <1>1, TickAdvances
<1>3. /\ r \in LedgerType /\ r.clock = Tick(l.clock, now)
      /\ r.local = l.local /\ r.current = l.current /\ r.pending = l.pending
      /\ r.seen = l.seen /\ r.seenOrder = l.seenOrder
  BY <1>1, <1>2 DEF NextTimestamp, LedgerType
<1>4. ledger' = [ledger EXCEPT ![d] = r] /\ UNCHANGED <<events, processed, restarts>>
  BY DEF SensitiveCopy
<1> HIDE DEF r
<1>5. IInv' /\ NewCopyIsNewest /\ AppliesFreshEvent
  BY <1>2, <1>3, <1>4, QuietStep
<1>6. PendingIsKept
  BY <1>1, <1>3, <1>4 DEF PendingIsKept, TypeOK
<1> QED  BY <1>5, <1>6

\* Whatever only removes entries of a replay queue preserves the invariant.
LEMMA DequeueStep ==
    ASSUME IInv, NEW d \in Device, NEW peer \in Device, NEW now, NEW id,
           NEW r \in {PrunePending(ledger[d], peer, now), Acknowledge(ledger[d], peer, id)},
           ledger' = [ledger EXCEPT ![d] = r], UNCHANGED <<events, processed, restarts>>
    PROVE  IInv' /\ NewCopyIsNewest /\ AppliesFreshEvent
<1>1. ledger[d] \in LedgerType /\ ledger[d].clock \in Timestamp
  BY DEF IInv, TypeOK, LedgerType
<1>2. /\ r \in LedgerType
      /\ r.local = ledger[d].local /\ r.clock = ledger[d].clock
      /\ r.current = ledger[d].current
      /\ r.seen = ledger[d].seen /\ r.seenOrder = ledger[d].seenOrder
      /\ \A x \in Device : r.pending[x] \subseteq ledger[d].pending[x]
  BY <1>1, DequeueFields
<1>3. TsBeforeOrSame(ledger[d].clock, r.clock)
  BY <1>1, <1>2, TsOrder
<1> QED  BY <1>2, <1>3, QuietStep

\* An acknowledgement (acknowledge) removes entries of one id, which the peer has
\* processed.
LEMMA ReceiveAckStep ==
    ASSUME IInv, NEW d \in Device, NEW peer \in Device, NEW e \in processed[peer],
           ReceiveAck(d, peer, e)
    PROVE  IInv' /\ NewCopyIsNewest /\ AppliesFreshEvent /\ PendingIsKept
<1> DEFINE r == Acknowledge(ledger[d], peer, e.id)
<1>1. ledger' = [ledger EXCEPT ![d] = r] /\ UNCHANGED <<events, processed, restarts>>
  BY DEF ReceiveAck
<1>2. IInv' /\ NewCopyIsNewest /\ AppliesFreshEvent
  BY <1>1, DequeueStep
<1>3. PendingIsKept
  <2> SUFFICES ASSUME NEW x \in Device, NEW y \in Device, NEW p \in ledger[x].pending[y],
                      p \notin ledger'[x].pending[y]
               PROVE  p.event \in processed[y]
    BY DEF PendingIsKept
  <2>1. /\ ledger \in [Device -> LedgerType] /\ ledger[x].pending \in [Device -> SUBSET PendingEvent]
        /\ p \in PendingEvent /\ ledger[d] \in LedgerType
        /\ e \in events /\ UniqueIds
    BY DEF IInv, TypeOK, LedgerType
  <2>2. x = d
    BY <1>1, <2>1
  <2>3. r.pending = [ledger[d].pending EXCEPT ![peer] = {q \in ledger[d].pending[peer] : q.event.id # e.id}]
    BY <2>1 DEF Acknowledge, LedgerType
  <2>4. ledger'[d].pending = r.pending
    BY <1>1, <2>1
  <2> HIDE DEF r
  <2>5. y = peer /\ p.event.id = e.id
    BY <2>1, <2>2, <2>3, <2>4
  <2>6. p.event \in events
    BY <2>2 DEF IInv, PendingIsProcessed, TypeOK
  <2> QED  BY <2>1, <2>5, <2>6 DEF UniqueIds
<1> QED  BY <1>2, <1>3

\* Expiry (pending_for) removes entries whose time has passed.
LEMMA PruneStep ==
    ASSUME IInv, NEW d \in Device, NEW peer \in Device, NEW now \in Wall,
           Prune(d, peer, now)
    PROVE  IInv' /\ NewCopyIsNewest /\ AppliesFreshEvent /\ PendingIsKept
<1> DEFINE r == PrunePending(ledger[d], peer, now)
<1>1. ledger' = [ledger EXCEPT ![d] = r] /\ UNCHANGED <<events, processed, restarts>>
  BY DEF Prune
<1>2. IInv' /\ NewCopyIsNewest /\ AppliesFreshEvent
  BY <1>1, DequeueStep
<1>3. PendingIsKept
  <2> SUFFICES ASSUME NEW x \in Device, NEW y \in Device, NEW p \in ledger[x].pending[y],
                      p \notin ledger'[x].pending[y]
               PROVE  p.expires < now
    BY DEF PendingIsKept
  <2>1. /\ ledger \in [Device -> LedgerType] /\ ledger[x].pending \in [Device -> SUBSET PendingEvent]
        /\ p \in PendingEvent /\ ledger[d] \in LedgerType /\ now \in Nat
    BY DEF IInv, TypeOK, LedgerType
  <2>. p.expires \in Nat
    BY <2>1 DEF PendingEvent
  <2>2. x = d
    BY <1>1, <2>1
  <2>3. r.pending = [ledger[d].pending EXCEPT ![peer] = {q \in ledger[d].pending[peer] : q.expires >= now}]
    BY <2>1 DEF PrunePending, LedgerType
  <2>4. ledger'[d].pending = r.pending
    BY <1>1, <2>1
  <2> HIDE DEF r
  <2>5. ~ (p.expires >= now)
    BY <2>1, <2>2, <2>3, <2>4
  <2> QED  BY <2>1, <2>5
<1> QED  BY <1>2, <1>3

(* A ledger that has just been created satisfies the device invariant.      *)
LEMMA NewLedgerInv ==
    ASSUME NEW d \in Device, NEW now \in Wall
    PROVE  /\ NewLedger(d, now) \in LedgerType
           /\ NewLedger(d, now).local = d
           /\ NewLedger(d, now).current = NoEvent
           /\ DeviceInv(NewLedger(d, now), {})
<1> DEFINE l == NewLedger(d, now)
<1>1. [peer \in Device |-> {}] \in [Device -> SUBSET PendingEvent]
  OBVIOUS
<1>2. NewTimestamp(now) \in Timestamp
  BY DEF NewTimestamp, Timestamp
<1>3. l \in LedgerType /\ l.local = d /\ l.current = NoEvent
  BY <1>1, <1>2 DEF NewLedger, LedgerType
<1>4. SeenAgrees({}, << >>)
  BY DEF SeenAgrees
<1>5. /\ l.seen = {} /\ l.seenOrder = << >> /\ l.pending = [peer \in Device |-> {}]
  BY DEF NewLedger
<1> HIDE DEF l
<1>6. DeviceInv(l, {})
  BY <1>3, <1>4, <1>5 DEF DeviceInv, NewestOf, AheadOf
<1> QED  BY <1>3, <1>6 DEF l

\* A new process starts from an empty ledger, of which the invariant holds.
LEMMA RestartStep ==
    ASSUME IInv, NEW d \in Device, NEW now \in Wall, Restart(d, now)
    PROVE  IInv' /\ NewCopyIsNewest /\ AppliesFreshEvent /\ PendingIsKept
<1> DEFINE r == NewLedger(d, now)
<1>1. /\ TypeOK /\ UniqueIds
  BY DEF IInv
<1>2. /\ ledger' = [ledger EXCEPT ![d] = r]
      /\ processed' = [processed EXCEPT ![d] = {}]
      /\ events' = events /\ restarts' = restarts + 1 /\ restarts < MaxRestarts
  BY DEF Restart
<1>3. r \in LedgerType /\ r.local = d /\ r.current = NoEvent /\ DeviceInv(r, {})
  BY NewLedgerInv
<1> HIDE DEF r
<1>4. /\ events \subseteq events' /\ events' \subseteq Event /\ UniqueIds'
      /\ restarts' \in 0..MaxRestarts /\ {} \in SUBSET events'
  BY <1>1, <1>2 DEF TypeOK, UniqueIds
<1>5. IInv'
  BY <1>2, <1>3, <1>4, OneDeviceSteps
<1>6. AppliesFreshEvent
  BY <1>1, <1>2, <1>3 DEF AppliesFreshEvent, TypeOK
<1>7. NewCopyIsNewest /\ PendingIsKept
  <2>1. restarts' # restarts
    BY <1>1, <1>2 DEF TypeOK
  <2> QED  BY <1>2, <2>1 DEF NewCopyIsNewest, PendingIsKept
<1> QED  BY <1>5, <1>6, <1>7

-----------------------------------------------------------------------------
(* The theorems.                                                           *)

(* The inductive invariant holds when every device has just started.        *)
LEMMA InitIInv == Init => IInv
<1> SUFFICES ASSUME Init PROVE IInv
  OBVIOUS
<1>1. PICK start \in [Device -> Wall] : ledger = [d \in Device |-> NewLedger(d, start[d])]
  BY DEF Init
<1>2. \A d \in Device : /\ ledger[d] \in LedgerType
                        /\ ledger[d].local = d
                        /\ DeviceInv(ledger[d], {})
  <2> TAKE d \in Device
  <2>1. start[d] \in Wall /\ ledger[d] = NewLedger(d, start[d])
    BY <1>1
  <2> QED  BY <2>1, NewLedgerInv
<1>3. TypeOK
  BY <1>1, <1>2 DEF Init, TypeOK
<1>4. InvByDevice
  BY <1>2, <1>3 DEF Init, InvByDevice, UniqueIds
<1> QED  BY <1>4, IInvByDevice

(* Every step keeps the inductive invariant and has the three properties    *)
(* that relate a state to the next one.                                     *)
LEMMA NextStep ==
    ASSUME IInv, [Next]_vars
    PROVE  IInv' /\ NewCopyIsNewest /\ AppliesFreshEvent /\ PendingIsKept
<1>1. CASE UNCHANGED vars
  <2>1. IInv'
    BY <1>1 DEF vars, IInv, TypeOK, UniqueIds, CurrentIsProcessed, PendingIsProcessed,
                SeenIsBoundedHistory, CurrentIsNewestProcessed, ClockAheadOfProcessed
  <2> QED  BY <1>1, <2>1 DEF vars, NewCopyIsNewest, AppliesFreshEvent, PendingIsKept
<1>2. ASSUME NEW d \in Device, NEW now \in Wall, NEW id \in Id, LocalCopy(d, now, id)
      PROVE  IInv' /\ NewCopyIsNewest /\ AppliesFreshEvent /\ PendingIsKept
  BY <1>2, LocalCopyStep
<1>3. ASSUME NEW d \in Device, NEW now \in Wall, SensitiveCopy(d, now)
      PROVE  IInv' /\ NewCopyIsNewest /\ AppliesFreshEvent /\ PendingIsKept
  BY <1>3, SensitiveCopyStep
<1>4. ASSUME NEW d \in Device, NEW now \in Wall, NEW e \in events, ReceiveEvent(d, e, now)
      PROVE  IInv' /\ NewCopyIsNewest /\ AppliesFreshEvent /\ PendingIsKept
  BY <1>4, ReceiveEventStep
<1>5. ASSUME NEW d \in Device, NEW peer \in Device, NEW e \in processed[peer],
             ReceiveAck(d, peer, e)
      PROVE  IInv' /\ NewCopyIsNewest /\ AppliesFreshEvent /\ PendingIsKept
  BY <1>5, ReceiveAckStep
<1>6. ASSUME NEW d \in Device, NEW now \in Wall, NEW peer \in Device, Prune(d, peer, now)
      PROVE  IInv' /\ NewCopyIsNewest /\ AppliesFreshEvent /\ PendingIsKept
  BY <1>6, PruneStep
<1>7. ASSUME NEW d \in Device, NEW now \in Wall, Restart(d, now)
      PROVE  IInv' /\ NewCopyIsNewest /\ AppliesFreshEvent /\ PendingIsKept
  BY <1>7, RestartStep
<1> QED  BY <1>1, <1>2, <1>3, <1>4, <1>5, <1>6, <1>7 DEF Next

\* Every reachable state satisfies the strengthened invariant, whatever the order of
\* copies, deliveries, acknowledgements, expiries and restarts.
THEOREM Invariance == Spec => []IInv
<1>1. IInv /\ [Next]_vars => IInv'
  BY NextStep
<1> QED  BY InitIInv, <1>1, PTL DEF Spec

(* Every ledger and every event in flight always has its type.              *)
THEOREM TypeCorrect == Spec => []TypeOK
<1>1. IInv => TypeOK
  BY DEF IInv
<1> QED  BY <1>1, Invariance, PTL

(* The two halves of the replay filter (mark_seen) always agree, within the *)
(* capacity, and never hold the id of an event that was not processed.      *)
THEOREM SeenBounded == Spec => []SeenIsBoundedHistory
<1>1. IInv => SeenIsBoundedHistory
  BY DEF IInv
<1> QED  BY <1>1, Invariance, PTL

(* Last writer wins on every device, in every order of delivery.            *)
THEOREM LastWriterWins == Spec => [](CurrentIsNewestProcessed /\ ClockAheadOfProcessed)
<1>1. IInv => CurrentIsNewestProcessed /\ ClockAheadOfProcessed
  BY DEF IInv
<1> QED  BY <1>1, Invariance, PTL

(* Devices that have processed the same events hold the same current event. *)
THEOREM Converges == Spec => []Convergence
<1>1. IInv => Convergence
  <2> SUFFICES ASSUME IInv, NEW c \in Device, NEW d \in Device, processed[c] = processed[d],
                      \A e \in processed[c] : ~ Saturated(e.ts)
               PROVE  ledger[c].current = ledger[d].current
    BY DEF Convergence
  <2>1. /\ CurrentIsProcessed /\ CurrentIsNewestProcessed
        /\ processed[c] \subseteq Event
    BY DEF IInv, TypeOK
  <2>2. CASE processed[c] = {}
    BY <2>1, <2>2 DEF CurrentIsProcessed
  <2>3. CASE processed[c] # {}
    <3>1. /\ ledger[c].current \in processed[c] /\ ledger[d].current \in processed[c]
          /\ ledger[c].current \in Event /\ ledger[d].current \in Event
      BY <2>1, <2>3 DEF CurrentIsNewestProcessed
    <3>2. /\ AtLeast(ledger[c].current, ledger[d].current)
          /\ AtLeast(ledger[d].current, ledger[c].current)
      BY <2>1, <3>1 DEF CurrentIsNewestProcessed
    <3> QED  BY <3>1, <3>2, EventOrder DEF AtLeast
  <2> QED  BY <2>2, <2>3
<1> QED  BY <1>1, Invariance, PTL

(* A copy is always stamped after everything its device had processed.      *)
THEOREM Causality == Spec => LocalCopiesSucceedProcessed
<1>1. IInv /\ [Next]_vars => [NewCopyIsNewest]_vars
  BY NextStep
<1> QED  BY <1>1, Invariance, PTL DEF Spec, LocalCopiesSucceedProcessed

(* No event is applied twice by a process, however small its replay filter. *)
THEOREM AppliedOnce == Spec => AppliesOnce
<1>1. IInv /\ [Next]_vars => [AppliesFreshEvent]_vars
  BY NextStep
<1> QED  BY <1>1, Invariance, PTL DEF Spec, AppliesOnce

(* Only an acknowledgement, expiry or a restart empties a replay queue.     *)
THEOREM PendingKept == Spec => PendingUntilAcknowledged
<1>1. IInv /\ [Next]_vars => [PendingIsKept]_vars
  BY NextStep
<1> QED  BY <1>1, Invariance, PTL DEF Spec, PendingUntilAcknowledged
=============================================================================
