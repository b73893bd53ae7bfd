---------------------------- MODULE HybridClock ----------------------------
(***************************************************************************)
(* The hybrid logical clock of crates/protocol/src/clock.rs.  A timestamp  *)
(* is a wall-clock reading and a logical counter, ordered                  *)
(* lexicographically (the derived Ord of HybridTimestamp).  The counter is *)
(* a u32 that saturates: LogicalMax stands for u32::MAX, so that a small   *)
(* instance reaches the saturated clock.                                   *)
(***************************************************************************)
EXTENDS Naturals

CONSTANT LogicalMax    \* largest value of the logical counter

ASSUME LogicalMaxAssumption == LogicalMax \in Nat \ {0}

Timestamp == [physical : Nat, logical : 0..LogicalMax]

NewTimestamp(millis) == [physical |-> millis, logical |-> 0]

SaturatingSucc(n) == IF n < LogicalMax THEN n + 1 ELSE LogicalMax

Larger(m, n) == IF m >= n THEN m ELSE n

TsBefore(a, b) ==
    \/ a.physical < b.physical
    \/ a.physical = b.physical /\ a.logical < b.logical

TsBeforeOrSame(a, b) ==
    \/ a.physical < b.physical
    \/ a.physical = b.physical /\ a.logical <= b.logical

\* Faulty: a clock that follows the wall clock backwards.
TickToWall(clock, now) == NewTimestamp(now)

\* HybridTimestamp::tick
Tick(clock, now) ==
    IF now > clock.physical
    THEN NewTimestamp(now)
    ELSE [clock EXCEPT !.logical = SaturatingSucc(@)]

\* The counter HybridTimestamp::receive chooses once it has settled on the
\* largest of the three wall-clock readings.
MergedLogical(clock, remote, physical) ==
    IF physical = clock.physical /\ physical = remote.physical
    THEN SaturatingSucc(Larger(clock.logical, remote.logical))
    ELSE IF physical = clock.physical THEN SaturatingSucc(clock.logical)
    ELSE IF physical = remote.physical THEN SaturatingSucc(remote.logical)
    ELSE 0

\* HybridTimestamp::receive
Merge(clock, remote, now) ==
    LET physical == Larger(Larger(clock.physical, remote.physical), now)
    IN  [physical |-> physical,
         logical  |-> MergedLogical(clock, remote, physical)]

\* A saturated counter no longer orders a timestamp strictly before the
\* clock that has moved past it.
Saturated(ts) == ts.logical = LogicalMax
=============================================================================
