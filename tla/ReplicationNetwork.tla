------------------------- MODULE ReplicationNetwork -------------------------
(***************************************************************************)
(* The replication ledgers of several devices and the events that travel   *)
(* between them.  An event may be delivered to any device, any number of   *)
(* times, late, or never; an acknowledgement may be lost or arrive twice;  *)
(* wall clocks are unrelated and may jump backwards; a process may restart *)
(* and lose its ledger, which the code keeps in memory only.               *)
(*                                                                         *)
(* The operating-system clipboard, the history and the connection are      *)
(* modelled in ClipboardSession; this module is about ordering alone.      *)
(***************************************************************************)
EXTENDS Ledger

CONSTANTS Id,            \* event ids, each used at most once
          Wall,          \* readings of a device's wall clock
          Retention,     \* lifetime of a queued event, seven days in the code
          MaxRestarts    \* bound on the number of restarts

ASSUME IdAssumption == Id \subseteq Nat
ASSUME WallAssumption == Wall \subseteq Nat
ASSUME RetentionAssumption == Retention \in Nat
ASSUME MaxRestartsAssumption == MaxRestarts \in Nat

VARIABLES
    ledger,      \* ledger[d]: the ledger of device d
    events,      \* every event recorded so far
    processed,   \* processed[d]: events d recorded or received since its last start
    restarts     \* number of restarts so far

vars == <<ledger, events, processed, restarts>>

Event == [id : Id, origin : Device, ts : Timestamp]

ASSUME NoEventAssumption == NoEvent \notin Event

Init ==
    /\ \E start \in [Device -> Wall] :
          ledger = [d \in Device |-> NewLedger(d, start[d])]
    /\ events = {}
    /\ processed = [d \in Device |-> {}]
    /\ restarts = 0

\* ClipboardSync::poll_local: stamp a copy and queue it for every peer.
LocalCopy(d, now, id) ==
    LET stamped == NextTimestamp(ledger[d], now)
        e == [id |-> id, origin |-> d, ts |-> stamped.clock]
    IN  /\ \A f \in events : f.id # id
        /\ ledger' = [ledger EXCEPT ![d] = RecordLocal(stamped, e, Device, now + Retention)]
        /\ events' = events \cup {e}
        /\ processed' = [processed EXCEPT ![d] = @ \cup {e}]
        /\ UNCHANGED restarts

\* A copy marked sensitive takes a timestamp and never reaches the ledger.
SensitiveCopy(d, now) ==
    /\ ledger' = [ledger EXCEPT ![d] = NextTimestamp(@, now)]
    /\ UNCHANGED <<events, processed, restarts>>

\* An event, possibly one's own or an old one, is received.
ReceiveEvent(d, e, now) ==
    /\ ledger' = [ledger EXCEPT ![d] = Receive(@, e, now)]
    /\ processed' = [processed EXCEPT ![d] = @ \cup {e}]
    /\ UNCHANGED <<events, restarts>>

\* An acknowledgement of an event the peer has processed arrives, possibly
\* for the second time.  (One that outlives the peer's process has the same
\* effect as one that arrived just before the peer stopped.)
ReceiveAck(d, peer, e) ==
    /\ e.origin = d
    /\ ledger' = [ledger EXCEPT ![d] = Acknowledge(@, peer, e.id)]
    /\ UNCHANGED <<events, processed, restarts>>

Prune(d, peer, now) ==
    /\ ledger' = [ledger EXCEPT ![d] = PrunePending(@, peer, now)]
    /\ UNCHANGED <<events, processed, restarts>>

Restart(d, now) ==
    /\ restarts < MaxRestarts
    /\ restarts' = restarts + 1
    /\ ledger' = [ledger EXCEPT ![d] = NewLedger(d, now)]
    /\ processed' = [processed EXCEPT ![d] = {}]
    /\ UNCHANGED events

Next ==
    \E d \in Device :
        \/ \E now \in Wall, id \in Id : LocalCopy(d, now, id)
        \/ \E now \in Wall : SensitiveCopy(d, now)
        \/ \E now \in Wall, e \in events : ReceiveEvent(d, e, now)
        \/ \E peer \in Device : \E e \in processed[peer] : ReceiveAck(d, peer, e)
        \/ \E now \in Wall, peer \in Device : Prune(d, peer, now)
        \/ \E now \in Wall : Restart(d, now)

Spec == Init /\ [][Next]_vars

-----------------------------------------------------------------------------
PendingEvent == [event : Event, expires : Nat]

LedgerType == [local : Device, clock : Timestamp, seen : SUBSET Id, seenOrder : Seq(Id),
               current : Event \cup {NoEvent}, pending : [Device -> SUBSET PendingEvent]]

\* Type invariant of the ledgers and of the events in flight.
TypeOK ==
    /\ ledger \in [Device -> LedgerType]
    /\ \A d \in Device : ledger[d].local = d
    /\ events \subseteq Event
    /\ processed \in [Device -> SUBSET events]
    /\ restarts \in 0..MaxRestarts

\* The replay filter of replication.rs is a set and a queue kept side by side:
\* they hold the same ids, without repetition, never more than the capacity,
\* and only ids of events the device really processed.
SeenIsBoundedHistory ==
    \A d \in Device :
        LET l == ledger[d]
        IN  /\ Len(l.seenOrder) <= SeenCapacity
            /\ l.seen = {l.seenOrder[i] : i \in 1..Len(l.seenOrder)}
            /\ \A i, j \in 1..Len(l.seenOrder) : l.seenOrder[i] = l.seenOrder[j] => i = j
            /\ \A id \in l.seen : \E e \in processed[d] : e.id = id

AtLeast(a, b) == a = b \/ Before(b, a)

\* Last writer wins: whatever the order of deliveries, no event a device has
\* processed since it started beats the one it holds as current.  An event
\* whose logical counter saturated is only ordered by its timestamp.
CurrentIsNewestProcessed ==
    \A d \in Device : \A e \in processed[d] :
        /\ ledger[d].current \in processed[d]
        /\ TsBeforeOrSame(e.ts, ledger[d].current.ts)
        /\ ~ Saturated(e.ts) => AtLeast(ledger[d].current, e)

\* Deterministic conflict resolution: two devices that have processed the same
\* events hold the same one as current.
Convergence ==
    \A c, d \in Device :
        (processed[c] = processed[d] /\ \A e \in processed[c] : ~ Saturated(e.ts))
            => ledger[c].current = ledger[d].current

\* The clock a device stamps its next copy with has moved past every event it
\* processed.
ClockAheadOfProcessed ==
    \A d \in Device : \A e \in processed[d] :
        /\ TsBeforeOrSame(e.ts, ledger[d].clock)
        /\ ~ Saturated(e.ts) => TsBefore(e.ts, ledger[d].clock)

\* What the proofs add to make the invariants inductive: an id names one
\* event, and what a ledger holds as current or queued was processed there.
UniqueIds == \A e, f \in events : e.id = f.id => e = f
CurrentIsProcessed == \A d \in Device : ledger[d].current \in processed[d] \cup {NoEvent}
PendingIsProcessed ==
    \A d, peer \in Device : \A p \in ledger[d].pending[peer] : p.event \in processed[d]

IInv ==
    /\ TypeOK
    /\ UniqueIds
    /\ CurrentIsProcessed
    /\ PendingIsProcessed
    /\ SeenIsBoundedHistory
    /\ CurrentIsNewestProcessed
    /\ ClockAheadOfProcessed

\* Causality: a new local copy is ordered after every event its device had
\* processed, however far the device's wall clock lags behind.
NewCopyIsNewest ==
    \A e \in events' \ events : \A f \in processed[e.origin] :
        ~ Saturated(f.ts) => Before(f, e)
LocalCopiesSucceedProcessed == [][NewCopyIsNewest]_vars

\* Nothing is applied twice: the event a device makes current is one it had
\* not processed since it started, even when the bounded replay filter has
\* forgotten its id, and an echo of a device's own copy is never applied.
AppliesFreshEvent ==
    \A d \in Device :
        \/ ledger'[d].current \in {ledger[d].current, NoEvent}
        \/ ledger'[d].current \notin processed[d]
        \/ Saturated(ledger'[d].current.ts)
AppliesOnce == [][AppliesFreshEvent]_vars

\* An event leaves the replay queue of a running device only when the peer it
\* is owed to has processed it, or once it has expired on the device's clock.
PendingIsKept ==
    \A d, peer \in Device : \A p \in ledger[d].pending[peer] :
        \/ p \in ledger'[d].pending[peer]
        \/ p.event \in processed[peer]
        \/ \E now \in Wall : p.expires < now
        \/ restarts' # restarts
PendingUntilAcknowledged == [][PendingIsKept]_vars
=============================================================================
