----------------------------- MODULE LedgerProofs -----------------------------
(***************************************************************************)
(* The hybrid clock and the order of events, for every reading of the wall *)
(* clock and every width of the logical counter: what the proofs about the *)
(* ledger's users rest on.                                                 *)
(***************************************************************************)
EXTENDS Ledger, TLAPS

-----------------------------------------------------------------------------
(* The clock.                                                              *)

\* HybridTimestamp::tick returns a timestamp, never an earlier one, and a strictly
\* later one unless the logical counter is saturated; the counter grows by one.
LEMMA TickAdvances ==
    ASSUME NEW c \in Timestamp, NEW now \in Nat
    PROVE  /\ Tick(c, now) \in Timestamp
           /\ TsBeforeOrSame(c, Tick(c, now))
           /\ ~ Saturated(c) => TsBefore(c, Tick(c, now))
           /\ Tick(c, now).logical <= c.logical + 1
BY LogicalMaxAssumption
   DEF Timestamp, Tick, NewTimestamp, SaturatingSucc, TsBefore, TsBeforeOrSame, Saturated

\* HybridTimestamp::receive moves past both of its arguments; its counter is at
\* most one more than the larger of theirs.
LEMMA MergeAdvances ==
    ASSUME NEW c \in Timestamp, NEW r \in Timestamp, NEW now \in Nat
    PROVE  /\ Merge(c, r, now) \in Timestamp
           /\ TsBeforeOrSame(c, Merge(c, r, now))
           /\ TsBeforeOrSame(r, Merge(c, r, now))
           /\ ~ Saturated(c) => TsBefore(c, Merge(c, r, now))
           /\ ~ Saturated(r) => TsBefore(r, Merge(c, r, now))
           /\ \A most \in Nat : c.logical <= most /\ r.logical <= most =>
                                    Merge(c, r, now).logical <= most + 1
<1> USE LogicalMaxAssumption
<1> DEFINE p == Larger(Larger(c.physical, r.physical), now)
           m == MergedLogical(c, r, p)
<1>1. /\ p \in Nat
      /\ p >= c.physical
      /\ p >= r.physical
  BY DEF Timestamp, Larger
<1>2. /\ m \in 0..LogicalMax
      /\ p = c.physical => m >= c.logical
      /\ p = r.physical => m >= r.logical
      /\ p = c.physical /\ c.logical # LogicalMax => m > c.logical
      /\ p = r.physical /\ r.logical # LogicalMax => m > r.logical
      /\ \A most \in Nat : c.logical <= most /\ r.logical <= most => m <= most + 1
  <2> HIDE DEF p
  <2> QED  BY <1>1 DEF Timestamp, Larger, MergedLogical, SaturatingSucc
<1>3. Merge(c, r, now) = [physical |-> p, logical |-> m]
  BY DEF Merge
<1> HIDE DEF p, m
<1> QED
  BY <1>1, <1>2, <1>3 DEF Timestamp, TsBefore, TsBeforeOrSame, Saturated

\* Timestamps are totally ordered.
LEMMA TsOrder ==
    ASSUME NEW a \in Timestamp, NEW b \in Timestamp, NEW c \in Timestamp
    PROVE  /\ TsBeforeOrSame(a, a)
           /\ TsBeforeOrSame(a, b) /\ TsBeforeOrSame(b, c) => TsBeforeOrSame(a, c)
           /\ TsBefore(a, b) /\ TsBeforeOrSame(b, c) => TsBefore(a, c)
           /\ TsBeforeOrSame(a, b) /\ TsBefore(b, c) => TsBefore(a, c)
           /\ TsBefore(a, b) => TsBeforeOrSame(a, b)
           /\ ~ TsBefore(a, b) => TsBeforeOrSame(b, a)
           /\ TsBefore(a, b) \/ TsBefore(b, a) \/ a = b
           /\ ~ (TsBefore(a, b) /\ TsBefore(b, a))
           /\ ~ TsBefore(a, a)
BY DEF Timestamp, TsBefore, TsBeforeOrSame

-----------------------------------------------------------------------------
(* compare_event.                                                          *)

\* What compare_event looks at.
Comparable(e) == e.ts \in Timestamp /\ e.origin \in Nat /\ e.id \in Nat

\* compare_event is a strict order of the events, total up to the three fields it
\* compares.
LEMMA CompareOrder ==
    ASSUME NEW a, NEW b, NEW c, Comparable(a), Comparable(b), Comparable(c)
    PROVE  /\ ~ Before(a, a)
           /\ Before(a, b) /\ Before(b, c) => Before(a, c)
           /\ \/ Before(a, b) \/ Before(b, a)
              \/ a.ts = b.ts /\ a.origin = b.origin /\ a.id = b.id
           /\ ~ (Before(a, b) /\ Before(b, a))
           /\ Before(a, b) => TsBeforeOrSame(a.ts, b.ts)
           /\ ~ Before(a, b) => TsBeforeOrSame(b.ts, a.ts)
<1>1. /\ a.ts \in Timestamp /\ b.ts \in Timestamp /\ c.ts \in Timestamp
      /\ a.id \in Nat /\ b.id \in Nat /\ c.id \in Nat
      /\ a.origin \in Nat /\ b.origin \in Nat /\ c.origin \in Nat
  BY DEF Comparable
<1>2. ~ Before(a, a)
  BY <1>1, TsOrder DEF Before
<1>3. Before(a, b) /\ Before(b, c) => Before(a, c)
  <2> SUFFICES ASSUME Before(a, b), Before(b, c) PROVE Before(a, c)
    OBVIOUS
  <2>1. CASE TsBefore(a.ts, b.ts) \/ TsBefore(b.ts, c.ts)
    BY <2>1, <1>1, TsOrder DEF Before
  <2>2. CASE a.ts = b.ts /\ b.ts = c.ts
    <3>1. ~ TsBefore(a.ts, b.ts) /\ ~ TsBefore(b.ts, c.ts)
      BY <2>2, <1>1, TsOrder
    <3> QED  BY <3>1, <2>2, <1>1 DEF Before
  <2> QED  BY <2>1, <2>2, <1>1, TsOrder DEF Before
<1>4. \/ Before(a, b) \/ Before(b, a)
      \/ a.ts = b.ts /\ a.origin = b.origin /\ a.id = b.id
  <2> SUFFICES ASSUME ~ Before(a, b), ~ Before(b, a)
               PROVE  a.ts = b.ts /\ a.origin = b.origin /\ a.id = b.id
    OBVIOUS
  <2>1. a.ts = b.ts
    BY <1>1, TsOrder DEF Before
  <2>2. a.origin = b.origin /\ a.id = b.id
    BY <2>1, <1>1 DEF Before
  <2> QED  BY <2>1, <2>2
<1>5. ~ (Before(a, b) /\ Before(b, a))
  BY <1>1, TsOrder DEF Before
<1>6. Before(a, b) => TsBeforeOrSame(a.ts, b.ts)
  BY <1>1, TsOrder DEF Before
<1>7. ~ Before(a, b) => TsBeforeOrSame(b.ts, a.ts)
  BY <1>1, TsOrder DEF Before
<1> QED  BY <1>2, <1>3, <1>4, <1>5, <1>6, <1>7

=============================================================================
