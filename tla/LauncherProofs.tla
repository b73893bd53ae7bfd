--------------------------- MODULE LauncherProofs ---------------------------
(***************************************************************************)
(* The palette, for any catalogues, histories and stores it lists.         *)
(*                                                                         *)
(* What is shown may disturb the selection in any handler, and a list must *)
(* be the one for the query in the field after each of them.  The          *)
(* invariant says that an open palette is settled: its list is what a      *)
(* refresh would make of its query, filter, category, conversion and       *)
(* answer, its selection and its action are among what is listed, a        *)
(* conversion is on record exactly while it is the list's own, an          *)
(* application is listed only where favourites are ranked, and the rows of *)
(* the grid are made from the list they stand for.                         *)
(*                                                                         *)
(* The first two sections are about the lists: what is kept, joined and    *)
(* cut into rows holds each entry once.  The third is about refreshes, and *)
(* the fourth has a lemma for each handler.                                *)
(*                                                                         *)
(* Then the application catalogue, for any packages, roots, icon themes    *)
(* and commands: what split_exec makes of a command as it is written, what *)
(* index_linux_icons finds in themes read in any order, and the scan.  Its *)
(* invariant says that what the scan has left behind is listed or has      *)
(* changed, that no id is listed twice, and that each application is       *)
(* listed as it was read from the first root that has it.                  *)
(***************************************************************************)
EXTENDS Launcher, TextProofs, AppCatalogue

-----------------------------------------------------------------------------
(* Sequences given by recursion.                                           *)

\* A function with a first value, and a rule for each value after it, exists.
Recurrent(f, T, first, last, rule) ==
    /\ f \in [0..last -> T] /\ f[0] = first
    /\ \A k \in 1..last : f[k] = rule[k][f[k - 1]]

LEMMA Recursion ==
  ASSUME NEW T, NEW first \in T, NEW last \in Nat, NEW rule \in [1..last -> [T -> T]]
  PROVE  \E f : Recurrent(f, T, first, last, rule)
<1> DEFINE Upto(n, f) == f \in [0..n -> T] /\ f[0] = first
                         /\ \A k \in 1..n : f[k] = rule[k][f[k - 1]]
           S == {n \in 0..last : \E f : Upto(n, f)}
<1>1. 0 \in S
  <2> DEFINE g == [n \in 0..0 |-> first]
  <2>1. g \in [0..0 -> T] /\ g[0] = first /\ 1..0 = {}
    OBVIOUS
  <2> HIDE DEF g
  <2>2. Upto(0, g)
    BY <2>1
  <2> QED BY <2>2
<1>2. ASSUME NEW n \in 1..last, n - 1 \in S
      PROVE  n \in S
  <2>1. PICK f : Upto(n - 1, f)
    BY <1>2
  <2> DEFINE g == [k \in 0..n |-> IF k = n THEN rule[n][f[n - 1]] ELSE f[k]]
  <2>2. n - 1 \in 0..(n - 1) /\ n \in Nat /\ 0 \in 0..(n - 1)
    OBVIOUS
  <2>3. f \in [0..(n - 1) -> T] /\ f[n - 1] \in T /\ f[0] = first
    BY <2>1, <2>2
  <2>4. rule[n] \in [T -> T]
    OBVIOUS
  <2>5. rule[n][f[n - 1]] \in T
    BY <2>3, <2>4
  <2>6. ASSUME NEW k \in 0..n PROVE g[k] \in T
    <3>1. CASE k = n
      BY <2>5, <3>1
    <3>2. CASE k # n
      <4>1. k \in 0..(n - 1)
        BY <3>2
      <4> QED BY <2>3, <3>2, <4>1
    <3> QED BY <3>1, <3>2
  <2>7. g \in [0..n -> T] /\ g[0] = first
    BY <2>2, <2>3, <2>6
  <2>8. ASSUME NEW k \in 1..n PROVE g[k] = rule[k][g[k - 1]]
    <3>1. k - 1 \in 0..n /\ k - 1 # n
      OBVIOUS
    <3>2. g[k - 1] = f[k - 1]
      BY <3>1
    <3>3. CASE k = n
      BY <2>2, <3>2, <3>3
    <3>4. CASE k # n
      <4>1. k \in 1..(n - 1) /\ k \in 0..n
        BY <3>4
      <4>2. f[k] = rule[k][f[k - 1]]
        BY <2>1, <4>1
      <4> QED BY <3>2, <3>4, <4>1, <4>2
    <3> QED BY <3>3, <3>4
  <2> HIDE DEF g
  <2>9. Upto(n, g)
    BY <2>7, <2>8
  <2> QED BY <2>9
<1> HIDE DEF S
<1>3. last \in S
  <2>1. 0..last \subseteq S
    BY <1>1, <1>2, Induction
  <2> QED BY <2>1
<1> QED
  BY <1>3 DEF S, Recurrent

LEMMA EmptySequence ==
  ASSUME NEW T
  PROVE  << >> \in Seq(T) /\ Len(<< >>) = 0 /\ Range(<< >>) = {} /\ IsInjective(<< >>)
BY DEF Range, IsInjective

LEMMA AppendFacts ==
  ASSUME NEW T, NEW s \in Seq(T), NEW x \in T
  PROVE  /\ Append(s, x) \in Seq(T) /\ Len(Append(s, x)) = Len(s) + 1
         /\ Range(Append(s, x)) = Range(s) \cup {x}
         /\ IsInjective(s) /\ x \notin Range(s) => IsInjective(Append(s, x))
<1> DEFINE t == Append(s, x)
<1>1. /\ t \in Seq(T) /\ Len(t) = Len(s) + 1 /\ Len(s) \in Nat
      /\ \A k \in 1..Len(s) : t[k] = s[k]
      /\ t[Len(s) + 1] = x
  OBVIOUS
<1> HIDE DEF t
<1>2. DOMAIN s = 1..Len(s) /\ DOMAIN t = 1..(Len(s) + 1)
  BY <1>1
<1>3. Range(t) = Range(s) \cup {x}
  <2>1. ASSUME NEW k \in DOMAIN t PROVE t[k] \in Range(s) \cup {x}
    <3>1. CASE k = Len(s) + 1
      BY <1>1, <3>1
    <3>2. CASE k # Len(s) + 1
      <4>1. k \in 1..Len(s)
        BY <1>1, <1>2, <3>2
      <4> QED BY <1>1, <1>2, <4>1 DEF Range
    <3> QED BY <3>1, <3>2
  <2>2. ASSUME NEW k \in DOMAIN s PROVE s[k] \in Range(t)
    <3>1. k \in DOMAIN t /\ t[k] = s[k]
      BY <1>1, <1>2
    <3> QED BY <3>1 DEF Range
  <2>3. x \in Range(t)
    <3>1. Len(s) + 1 \in DOMAIN t
      BY <1>1, <1>2
    <3> QED BY <1>1, <3>1 DEF Range
  <2> QED BY <2>1, <2>2, <2>3 DEF Range
<1>4. ASSUME IsInjective(s), x \notin Range(s)
      PROVE  IsInjective(t)
  <2> SUFFICES ASSUME NEW a \in DOMAIN t, NEW b \in DOMAIN t, t[a] = t[b] PROVE a = b
    BY DEF IsInjective
  <2>1. \A k \in 1..Len(s) : k \in DOMAIN s /\ t[k] = s[k] /\ t[k] # x
    BY <1>1, <1>2, <1>4 DEF Range
  <2>2. CASE a = Len(s) + 1 \/ b = Len(s) + 1
    BY <1>1, <1>2, <2>1, <2>2
  <2>3. CASE a # Len(s) + 1 /\ b # Len(s) + 1
    <3>1. a \in 1..Len(s) /\ b \in 1..Len(s)
      BY <1>1, <1>2, <2>3
    <3> QED BY <1>4, <2>1, <3>1 DEF IsInjective
  <2> QED BY <2>2, <2>3
<1> QED
  BY <1>1, <1>3, <1>4 DEF t

LEMMA JoinedRange ==
  ASSUME NEW T, NEW a \in Seq(T), NEW b \in Seq(T)
  PROVE  a \o b \in Seq(T) /\ Range(a \o b) = Range(a) \cup Range(b)
<1> DEFINE c == a \o b
<1>1. /\ c \in Seq(T) /\ Len(c) = Len(a) + Len(b)
      /\ \A i \in 1..Len(a) : c[i] = a[i]
      /\ \A i \in 1..Len(b) : c[Len(a) + i] = b[i]
  BY JoinedAt
<1> HIDE DEF c
<1>2. /\ DOMAIN c = 1..Len(a) + Len(b) /\ DOMAIN a = 1..Len(a) /\ DOMAIN b = 1..Len(b)
      /\ Len(a) \in Nat /\ Len(b) \in Nat
  BY <1>1
<1>3. ASSUME NEW i \in DOMAIN c PROVE c[i] \in Range(a) \cup Range(b)
  <2>1. CASE i <= Len(a)
    <3>1. i \in 1..Len(a)
      BY <1>2, <2>1
    <3> QED BY <1>1, <1>2, <3>1 DEF Range
  <2>2. CASE i > Len(a)
    <3>1. i - Len(a) \in 1..Len(b) /\ Len(a) + (i - Len(a)) = i
      BY <1>2, <2>2
    <3>2. c[i] = b[i - Len(a)]
      BY <1>1, <3>1
    <3> QED BY <1>2, <3>1, <3>2 DEF Range
  <2> QED BY <1>2, <2>1, <2>2
<1>4. ASSUME NEW i \in DOMAIN a PROVE a[i] \in Range(c)
  <2>1. i \in DOMAIN c /\ c[i] = a[i]
    BY <1>1, <1>2
  <2> QED BY <2>1 DEF Range
<1>5. ASSUME NEW i \in DOMAIN b PROVE b[i] \in Range(c)
  <2>1. Len(a) + i \in DOMAIN c /\ c[Len(a) + i] = b[i]
    BY <1>1, <1>2
  <2> QED BY <2>1 DEF Range
<1> QED
  BY <1>1, <1>3, <1>4, <1>5 DEF Range, c

\* FlattenSeq joins the sequences one after the other.
JoinedUp(at, T, seqs, flat) ==
    /\ at \in [0..Len(seqs) -> Seq(T)] /\ at[0] = << >> /\ flat = at[Len(seqs)]
    /\ \A k \in 1..Len(seqs) : at[k] = at[k - 1] \o seqs[k]

LEMMA FlattenLast ==
  ASSUME NEW T, NEW seqs \in Seq(Seq(T))
  PROVE  \E at : JoinedUp(at, T, seqs, FlattenSeq(seqs))
<1> DEFINE last == Len(seqs)
           rule == [k \in 1..last |-> [t \in Seq(T) |-> t \o seqs[k]]]
           Recurs(f) == f = [i \in 1..Len(seqs) |->
                                IF i = 1 THEN seqs[i] ELSE f[i - 1] \o seqs[i]]
           flatten == CHOOSE f : Recurs(f)
<1>1. last \in Nat /\ << >> \in Seq(T) /\ \A k \in 1..last : seqs[k] \in Seq(T)
  OBVIOUS
<1>2. rule \in [1..last -> [Seq(T) -> Seq(T)]]
  BY <1>1
<1>3. PICK at \in [0..last -> Seq(T)] :
         at[0] = << >> /\ \A k \in 1..last : at[k] = rule[k][at[k - 1]]
  <2> HIDE DEF rule, last
  <2>1. \E at : Recurrent(at, Seq(T), << >>, last, rule)
    BY <1>1, <1>2, Recursion
  <2> QED BY <2>1 DEF Recurrent
<1>4. ASSUME NEW k \in 1..last
      PROVE  at[k] = at[k - 1] \o seqs[k]
  <2>1. k - 1 \in 0..last
    BY <1>1
  <2>2. at[k - 1] \in Seq(T) /\ at[k] = rule[k][at[k - 1]]
    BY <1>3, <2>1
  <2> QED BY <2>2
<1> HIDE DEF rule
<1>5. ASSUME last # 0 PROVE FlattenSeq(seqs) = at[last]
  <2> DEFINE f == [i \in 1..last |-> at[i]]
  <2>1. 1 \in 1..last /\ seqs[1] \in Seq(T)
    BY <1>1, <1>5
  <2>2. at[1] = seqs[1]
    <3>1. at[1] = at[1 - 1] \o seqs[1]
      BY <1>4, <2>1
    <3>2. at[1 - 1] = << >>
      BY <1>3
    <3>3. << >> \o seqs[1] = seqs[1]
      BY <2>1
    <3> QED BY <3>1, <3>2, <3>3
  <2>3. ASSUME NEW i \in 1..last
        PROVE  f[i] = IF i = 1 THEN seqs[i] ELSE f[i - 1] \o seqs[i]
    <3>1. CASE i = 1
      BY <2>1, <2>2, <3>1
    <3>2. CASE i # 1
      <4>1. i - 1 \in 1..last
        BY <1>1, <3>2
      <4> QED BY <1>4, <3>2, <4>1
    <3> QED BY <3>1, <3>2
  <2>4. Recurs(f)
    BY <2>3
  <2>5. Recurs(flatten)
    BY <2>4
  <2>6. FlattenSeq(seqs) = flatten[last]
    BY <1>5 DEF FlattenSeq
  <2> HIDE DEF f, flatten
  <2> DEFINE S == {n \in 0..last : n = 0 \/ flatten[n] = at[n]}
  <2>7. ASSUME NEW n \in 1..last, n - 1 \in S
        PROVE  n \in S
    <3>1. flatten[n] = IF n = 1 THEN seqs[n] ELSE flatten[n - 1] \o seqs[n]
      BY <2>5
    <3>2. at[n] = at[n - 1] \o seqs[n]
      BY <1>4
    <3>3. CASE n = 1
      BY <2>2, <3>1, <3>3
    <3>4. CASE n # 1
      <4>1. flatten[n - 1] = at[n - 1]
        BY <2>7, <3>4
      <4>2. flatten[n] = at[n]
        BY <3>1, <3>2, <3>4, <4>1
      <4> QED BY <1>1, <4>2
    <3> QED BY <3>3, <3>4
  <2>8. 0..last \subseteq S
    <3>1. 0 \in S
      BY <1>1
    <3> HIDE DEF S
    <3> QED BY <1>1, <2>7, <3>1, Induction
  <2> QED BY <1>1, <1>5, <2>6, <2>8
<1>6. ASSUME last = 0 PROVE FlattenSeq(seqs) = at[last]
  BY <1>3, <1>6 DEF FlattenSeq
<1>7. JoinedUp(at, T, seqs, FlattenSeq(seqs))
  BY <1>3, <1>4, <1>5, <1>6 DEF JoinedUp
<1> QED
  BY <1>7

\* Kept goes through a list from its first entry to its last.
KeptUpTo(at, T, list, set, kept) ==
    /\ at \in [0..Len(list) -> Seq(T)] /\ at[0] = << >> /\ kept = at[Len(list)]
    /\ \A k \in 1..Len(list) :
          at[k] = IF list[k] \in set THEN Append(at[k - 1], list[k]) ELSE at[k - 1]

LEMMA KeptLast ==
  ASSUME NEW T, NEW list \in Seq(T), NEW set
  PROVE  \E at : KeptUpTo(at, T, list, set, Kept(list, set))
<1> DEFINE last == Len(list)
           rule == [k \in 1..last |->
                       [t \in Seq(T) |-> IF list[k] \in set THEN Append(t, list[k]) ELSE t]]
           Recurs(f) == f = [n \in 0..Len(list) |->
                                IF n = 0 THEN << >>
                                ELSE IF list[n] \in set THEN Append(f[n - 1], list[n])
                                     ELSE f[n - 1]]
           kept == CHOOSE f : Recurs(f)
<1>1. last \in Nat /\ << >> \in Seq(T) /\ \A k \in 1..last : list[k] \in T
  OBVIOUS
<1>2. rule \in [1..last -> [Seq(T) -> Seq(T)]]
  BY <1>1
<1>3. PICK at \in [0..last -> Seq(T)] :
         at[0] = << >> /\ \A k \in 1..last : at[k] = rule[k][at[k - 1]]
  <2> HIDE DEF rule, last
  <2>1. \E at : Recurrent(at, Seq(T), << >>, last, rule)
    BY <1>1, <1>2, Recursion
  <2> QED BY <2>1 DEF Recurrent
<1>4. ASSUME NEW k \in 1..last
      PROVE  at[k] = IF list[k] \in set THEN Append(at[k - 1], list[k]) ELSE at[k - 1]
  <2>1. k - 1 \in 0..last
    BY <1>1
  <2>2. at[k - 1] \in Seq(T) /\ at[k] = rule[k][at[k - 1]]
    BY <1>3, <2>1
  <2> QED BY <2>2
<1> HIDE DEF rule
<1>5. Kept(list, set) = at[last]
  <2>1. ASSUME NEW n \in 0..last
        PROVE  at[n] = IF n = 0 THEN << >>
                       ELSE IF list[n] \in set THEN Append(at[n - 1], list[n]) ELSE at[n - 1]
    <3>1. CASE n = 0
      BY <1>3, <3>1
    <3>2. CASE n # 0
      <4>1. n \in 1..last
        BY <1>1, <3>2
      <4> QED BY <1>4, <3>2, <4>1
    <3> QED BY <3>1, <3>2
  <2>2. Recurs(at)
    BY <2>1
  <2>3. Recurs(kept)
    BY <2>2
  <2>4. Kept(list, set) = kept[last]
    BY DEF Kept
  <2> HIDE DEF kept
  <2> DEFINE S == {n \in 0..last : kept[n] = at[n]}
  <2>5. 0 \in S
    BY <1>1, <1>3, <2>3
  <2>6. ASSUME NEW n \in 1..last, n - 1 \in S
        PROVE  n \in S
    <3>1. n \in 0..last /\ n # 0 /\ kept[n - 1] = at[n - 1]
      BY <1>1, <2>6
    <3>2. kept[n] = IF list[n] \in set THEN Append(kept[n - 1], list[n]) ELSE kept[n - 1]
      BY <2>3, <3>1
    <3> QED BY <1>4, <3>1, <3>2
  <2>7. 0..last \subseteq S
    <3> HIDE DEF S
    <3> QED BY <1>1, <2>5, <2>6, Induction
  <2> QED BY <1>1, <2>4, <2>7
<1>6. KeptUpTo(at, T, list, set, Kept(list, set))
  BY <1>3, <1>4, <1>5 DEF KeptUpTo
<1> QED
  BY <1>6

\* What is kept is what the list and the set share, once if the list has it once.
LEMMA KeptFacts ==
  ASSUME NEW T, NEW list \in Seq(T), NEW set
  PROVE  /\ Kept(list, set) \in Seq(T) /\ Range(Kept(list, set)) = Range(list) \cap set
         /\ IsInjective(list) => IsInjective(Kept(list, set))
<1> DEFINE last == Len(list)
           Before(n) == {list[i] : i \in 1..n}
<1>1. last \in Nat /\ DOMAIN list = 1..last /\ \A k \in 1..last : list[k] \in T
  OBVIOUS
<1>2. PICK at : /\ at \in [0..last -> Seq(T)] /\ at[0] = << >> /\ Kept(list, set) = at[last]
                 /\ \A k \in 1..last :
                       at[k] = IF list[k] \in set THEN Append(at[k - 1], list[k]) ELSE at[k - 1]
  <2>1. \E at : KeptUpTo(at, T, list, set, Kept(list, set))
    BY KeptLast
  <2> QED BY <2>1 DEF KeptUpTo
<1> DEFINE S == {n \in 0..last : /\ Range(at[n]) = Before(n) \cap set
                                 /\ IsInjective(list) => IsInjective(at[n])}
<1>3. 0 \in S
  <2>1. Range(at[0]) = {} /\ IsInjective(at[0])
    BY <1>2, EmptySequence
  <2>2. Before(0) = {}
    OBVIOUS
  <2> HIDE DEF Before
  <2> QED BY <1>1, <2>1, <2>2
<1>4. ASSUME NEW k \in 1..last, k - 1 \in S
      PROVE  k \in S
  <2> DEFINE old == at[k - 1]
             x == list[k]
  <2>1. k - 1 \in 0..last /\ x \in T
    BY <1>1
  <2>2. old \in Seq(T)
    BY <1>2, <2>1
  <2>3. at[k] = IF x \in set THEN Append(old, x) ELSE old
    BY <1>2
  <2>4. Before(k) = Before(k - 1) \cup {x}
    <3>1. 1..k = (1..(k - 1)) \cup {k}
      BY <1>1
    <3> QED BY <3>1
  <2>5. Range(old) = Before(k - 1) \cap set /\ (IsInjective(list) => IsInjective(old))
    BY <1>4
  <2>6. IsInjective(list) => x \notin Before(k - 1)
    <3>1. ASSUME NEW i \in 1..(k - 1), IsInjective(list), list[i] = x
          PROVE  FALSE
      <4>1. i \in DOMAIN list /\ k \in DOMAIN list /\ i # k
        BY <1>1
      <4> QED BY <3>1, <4>1 DEF IsInjective
    <3> QED BY <3>1
  <2>7. /\ Range(Append(old, x)) = Range(old) \cup {x}
        /\ IsInjective(old) /\ x \notin Range(old) => IsInjective(Append(old, x))
    BY <2>1, <2>2, AppendFacts
  <2> HIDE DEF Before, old, x
  <2>8. Range(at[k]) = Before(k) \cap set /\ (IsInjective(list) => IsInjective(at[k]))
    <3>1. CASE x \in set
      <4>1. at[k] = Append(old, x)
        BY <2>3, <3>1
      <4> QED BY <2>4, <2>5, <2>6, <2>7, <3>1, <4>1
    <3>2. CASE x \notin set
      <4>1. at[k] = old
        BY <2>3, <3>2
      <4> QED BY <2>4, <2>5, <3>2, <4>1
    <3> QED BY <3>1, <3>2
  <2> QED BY <2>8
<1>5. last \in S
  <2> HIDE DEF S
  <2>1. 0..last \subseteq S
    BY <1>1, <1>3, <1>4, Induction
  <2> QED BY <1>1, <2>1
<1>6. Before(last) = Range(list) /\ last \in 0..last
  BY <1>1 DEF Range
<1> QED
  BY <1>2, <1>5, <1>6

\* What is joined has the entries of its parts.
LEMMA FlattenRange ==
  ASSUME NEW T, NEW seqs \in Seq(Seq(T))
  PROVE  FlattenSeq(seqs) \in Seq(T)
<1>1. PICK at \in [0..Len(seqs) -> Seq(T)] : FlattenSeq(seqs) = at[Len(seqs)]
  BY FlattenLast DEF JoinedUp
<1>2. Len(seqs) \in 0..Len(seqs)
  OBVIOUS
<1> QED
  BY <1>1, <1>2

-----------------------------------------------------------------------------
(* The emoji grid.                                                         *)

\* A place is in one row of Columns places.
InRow(at, row) == row \in Nat \ {0} /\ (row - 1) * Columns < at /\ at <= row * Columns

LEMMA RowExists ==
  ASSUME NEW at \in Nat \ {0}
  PROVE  \E row : InRow(at, row)
<1> PICK q, c : q = (at - 1) \div Columns /\ c = Columns
  OBVIOUS
<1>1. at - 1 \in Nat /\ c \in Nat \ {0}
  BY LauncherAssumption
<1>2. q \in Nat /\ q * c <= at - 1 /\ at - 1 < q * c + c
  BY <1>1
<1>3. (q + 1) * c = q * c + c /\ q * c \in Nat
  BY <1>1, <1>2
<1>4. (q + 1) - 1 = q /\ q + 1 \in Nat \ {0}
  BY <1>2
<1>5. q * c < at /\ at <= (q + 1) * c
  BY <1>1, <1>2, <1>3
<1> QED
  BY <1>4, <1>5 DEF InRow

LEMMA RowUnique ==
  ASSUME NEW at \in Nat, NEW r, NEW s, InRow(at, r), InRow(at, s)
  PROVE  r = s
<1>1. Columns \in Nat /\ r \in Nat \ {0} /\ s \in Nat \ {0}
  BY LauncherAssumption DEF InRow
<1>2. ASSUME NEW a \in Nat \ {0}, NEW b \in Nat \ {0}, InRow(at, a), InRow(at, b), a < b
      PROVE  FALSE
  <2>1. a <= b - 1 /\ b - 1 \in Nat
    BY <1>2
  <2>2. a * Columns <= (b - 1) * Columns /\ a * Columns \in Nat /\ (b - 1) * Columns \in Nat
    BY <1>1, <2>1
  <2> QED BY <1>2, <2>2 DEF InRow
<1> QED
  BY <1>1, <1>2

IsSlice(t, s, lo, hi) == t = SubSeq(s, lo, hi)

LEMMA SubSeqRange ==
  ASSUME NEW T, NEW s \in Seq(T), NEW lo \in Nat \ {0}, NEW hi \in Nat, lo <= hi, hi <= Len(s),
         NEW t, IsSlice(t, s, lo, hi)
  PROVE  t \in Seq(T) /\ Range(t) = {s[k] : k \in lo..hi}
<1>1. /\ t \in Seq(T) /\ Len(t) = (hi - lo) + 1
      /\ \A k \in 1..(hi - lo) + 1 : t[k] = s[(lo + k) - 1]
  BY DEF IsSlice
<1>2. DOMAIN t = 1..(hi - lo) + 1
  BY <1>1
<1>3. ASSUME NEW k \in 1..(hi - lo) + 1 PROVE t[k] \in {s[n] : n \in lo..hi}
  <2>1. (lo + k) - 1 \in lo..hi
    OBVIOUS
  <2> QED BY <1>1, <2>1
<1>4. ASSUME NEW n \in lo..hi PROVE s[n] \in Range(t)
  <2>1. (n - lo) + 1 \in 1..(hi - lo) + 1 /\ (lo + ((n - lo) + 1)) - 1 = n
    OBVIOUS
  <2>2. t[(n - lo) + 1] = s[n]
    BY <1>1, <2>1
  <2> QED BY <1>2, <2>1, <2>2 DEF Range
<1> QED
  BY <1>1, <1>2, <1>3, <1>4 DEF Range

\* The rows that hold a place.
Holding(rows, i) == {row \in DOMAIN rows : i \in Range(rows[row])}

LEMMA ChunkRows ==
  ASSUME NEW indices \in Seq(Nat)
  PROVE  /\ Chunks(indices) \in Seq(Seq(Nat))
         /\ \A row \in DOMAIN Chunks(indices) :
               Range(Chunks(indices)[row]) = {indices[k] : k \in {n \in DOMAIN indices : InRow(n, row)}}
         /\ \A n \in DOMAIN indices : \A row : InRow(n, row) => row \in DOMAIN Chunks(indices)
<1> DEFINE length == Len(indices)
           rows == (length + Columns - 1) \div Columns
           Lo(row) == (row - 1) * Columns + 1
           Hi(row) == IF row * Columns <= length THEN row * Columns ELSE length
<1>1. length \in Nat /\ Columns \in Nat \ {0} /\ DOMAIN indices = 1..length
  BY LauncherAssumption
<1>2. rows \in Nat /\ length <= rows * Columns /\ rows * Columns <= length + Columns - 1
  <2>1. (length + Columns) - 1 \in Nat
    BY <1>1
  <2>2. ASSUME NEW n \in Nat, NEW C \in Nat \ {0}
        PROVE  n \div C \in Nat /\ (n \div C) * C <= n /\ n < (n \div C) * C + C
               /\ (n \div C) * C \in Nat
    OBVIOUS
  <2> HIDE DEF length
  <2>3. rows \in Nat /\ rows * Columns <= length + Columns - 1
        /\ length + Columns - 1 < rows * Columns + Columns /\ rows * Columns \in Nat
    BY <1>1, <2>1, <2>2
  <2> HIDE DEF rows
  <2> QED BY <1>1, <2>3
<1>3. Chunks(indices) = [row \in 1..rows |-> SubSeq(indices, Lo(row), Hi(row))]
  BY DEF Chunks
<1> HIDE DEF length, rows
<1>4. ASSUME NEW row \in 1..rows
      PROVE  /\ Lo(row) \in Nat \ {0} /\ Hi(row) \in Nat /\ Lo(row) <= Hi(row)
             /\ Hi(row) <= length
             /\ \A n \in 1..length : n \in Lo(row)..Hi(row) <=> InRow(n, row)
  <2>1. row * Columns = (row - 1) * Columns + Columns /\ (row - 1) * Columns \in Nat
    <3>1. row - 1 \in Nat /\ row \in Nat
      BY <1>2
    <3> QED BY <1>1, <3>1
  <2>2. row * Columns <= rows * Columns /\ row * Columns \in Nat /\ rows * Columns \in Nat
    <3>1. row <= rows /\ row \in Nat
      BY <1>2
    <3> QED BY <1>1, <1>2, <3>1
  <2>3. row \in Nat \ {0}
    BY <1>2
  <2>4. ASSUME NEW x \in Nat, NEW y \in Nat, NEW z \in Nat, y = x + Columns, y <= z,
               z <= length + Columns - 1
        PROVE  x + 1 <= length
    BY <1>1, <2>4
  <2>5. Lo(row) <= length
    BY <1>2, <2>1, <2>2, <2>4
  <2>6. \A n \in 1..length : n <= Hi(row) <=> n <= row * Columns
    BY <1>1, <2>2
  <2>7. \A n \in 1..length : Lo(row) <= n <=> (row - 1) * Columns < n
    BY <1>1, <2>1
  <2>8. Lo(row) \in Nat \ {0} /\ Hi(row) \in Nat /\ Hi(row) <= length
    <3>1. ASSUME NEW x \in Nat PROVE x + 1 \in Nat \ {0}
      OBVIOUS
    <3>2. Lo(row) \in Nat \ {0}
      BY <2>1, <3>1
    <3>3. CASE row * Columns <= length
      <4>1. Hi(row) = row * Columns
        BY <3>3
      <4> QED BY <2>2, <3>2, <3>3, <4>1
    <3>4. CASE ~ row * Columns <= length
      <4>1. Hi(row) = length
        BY <3>4
      <4> QED BY <1>1, <3>2, <4>1
    <3> QED BY <3>3, <3>4
  <2>9. Lo(row) <= Hi(row)
    BY <1>1, <2>1, <2>2, <2>5
  <2> HIDE DEF Lo, Hi
  <2>10. \A n \in 1..length : n \in Lo(row)..Hi(row) <=> InRow(n, row)
    BY <1>1, <2>3, <2>6, <2>7, <2>8 DEF InRow
  <2> QED BY <2>8, <2>9, <2>10
<1> HIDE DEF Lo, Hi
<1>5. ASSUME NEW row \in 1..rows
      PROVE  /\ Chunks(indices)[row] \in Seq(Nat)
             /\ Range(Chunks(indices)[row]) =
                   {indices[k] : k \in {n \in DOMAIN indices : InRow(n, row)}}
  <2>1. /\ SubSeq(indices, Lo(row), Hi(row)) \in Seq(Nat)
        /\ Range(SubSeq(indices, Lo(row), Hi(row))) = {indices[k] : k \in Lo(row)..Hi(row)}
    <3>0. PICK lo, hi, t : lo = Lo(row) /\ hi = Hi(row) /\ t = SubSeq(indices, Lo(row), Hi(row))
      OBVIOUS
    <3>1. lo \in Nat \ {0} /\ hi \in Nat /\ lo <= hi /\ hi <= Len(indices)
      BY <1>4, <3>0 DEF length
    <3>2. IsSlice(t, indices, lo, hi)
      BY <3>0 DEF IsSlice
    <3>3. t \in Seq(Nat) /\ Range(t) = {indices[k] : k \in lo..hi}
      BY <3>1, <3>2, SubSeqRange
    <3> QED BY <3>0, <3>3
  <2>2. Lo(row)..Hi(row) = {n \in DOMAIN indices : InRow(n, row)}
    <3>1. Lo(row)..Hi(row) \subseteq 1..length
      BY <1>1, <1>4
    <3> QED BY <1>1, <1>4, <3>1
  <2> QED BY <1>3, <2>1, <2>2
<1>6. Chunks(indices) \in Seq(Seq(Nat)) /\ DOMAIN Chunks(indices) = 1..rows
  <2>1. DOMAIN Chunks(indices) = 1..rows
    BY <1>3
  <2>2. Chunks(indices) \in [1..rows -> Seq(Nat)]
    BY <1>3, <1>5
  <2> QED BY <1>2, <2>1, <2>2
<1>7. ASSUME NEW n \in 1..length, NEW row, InRow(n, row)
      PROVE  row \in 1..rows
  <2>1. row \in Nat \ {0} /\ (row - 1) * Columns < n
    BY <1>7 DEF InRow
  <2>2. ASSUME row > rows PROVE FALSE
    <3>1. rows <= row - 1 /\ row - 1 \in Nat
      BY <1>2, <2>1, <2>2
    <3>2. rows * Columns <= (row - 1) * Columns /\ rows * Columns \in Nat
          /\ (row - 1) * Columns \in Nat
      BY <1>1, <1>2, <3>1
    <3> QED BY <1>1, <1>2, <2>1, <3>2
  <2> QED BY <1>2, <2>1, <2>2
<1> QED
  BY <1>1, <1>5, <1>6, <1>7

\* Rows joined hold what they held.
LEMMA JoinHolding ==
  ASSUME NEW a \in Seq(Seq(Nat)), NEW b \in Seq(Seq(Nat)), NEW i
  PROVE  Holding(a \o b, i) = Holding(a, i) \cup {Len(a) + row : row \in Holding(b, i)}
<1> DEFINE c == a \o b
<1>1. /\ c \in Seq(Seq(Nat)) /\ Len(c) = Len(a) + Len(b)
      /\ \A n \in 1..Len(a) : c[n] = a[n]
      /\ \A n \in 1..Len(b) : c[Len(a) + n] = b[n]
  BY JoinedAt
<1> HIDE DEF c
<1>2. /\ DOMAIN c = 1..Len(a) + Len(b) /\ DOMAIN a = 1..Len(a) /\ DOMAIN b = 1..Len(b)
      /\ Len(a) \in Nat /\ Len(b) \in Nat
  BY <1>1
<1>3. ASSUME NEW row \in DOMAIN c, i \in Range(c[row])
      PROVE  row \in Holding(a, i) \/ \E n \in Holding(b, i) : row = Len(a) + n
  <2>1. CASE row <= Len(a)
    <3>1. row \in 1..Len(a)
      BY <1>2, <2>1
    <3> QED BY <1>1, <1>2, <1>3, <3>1 DEF Holding
  <2>2. CASE row > Len(a)
    <3>1. row - Len(a) \in 1..Len(b) /\ Len(a) + (row - Len(a)) = row
      BY <1>2, <2>2
    <3>2. c[row] = b[row - Len(a)]
      BY <1>1, <3>1
    <3>3. row - Len(a) \in Holding(b, i)
      BY <1>2, <1>3, <3>1, <3>2 DEF Holding
    <3> QED BY <3>1, <3>3
  <2> QED BY <1>2, <2>1, <2>2
<1>4. ASSUME NEW row \in Holding(a, i) PROVE row \in Holding(c, i)
  <2>1. row \in 1..Len(a) /\ i \in Range(a[row]) /\ row \in DOMAIN c /\ c[row] = a[row]
    BY <1>1, <1>2 DEF Holding
  <2> QED BY <2>1 DEF Holding
<1>5. ASSUME NEW row \in Holding(b, i) PROVE Len(a) + row \in Holding(c, i)
  <2>1. row \in 1..Len(b) /\ i \in Range(b[row])
    BY <1>2 DEF Holding
  <2>2. Len(a) + row \in DOMAIN c /\ c[Len(a) + row] = b[row]
    BY <1>1, <1>2, <2>1
  <2> QED BY <2>1, <2>2 DEF Holding
<1>6. ASSUME NEW row \in Holding(c, i)
      PROVE  row \in Holding(a, i) \/ \E n \in Holding(b, i) : row = Len(a) + n
  <2>1. row \in DOMAIN c /\ i \in Range(c[row])
    BY DEF Holding
  <2> QED BY <1>3, <2>1
<1> QED
  BY <1>4, <1>5, <1>6 DEF c

HeldOnce(rows, i) == \E row : Holding(rows, i) = {row}

LEMMA JoinHeld ==
  ASSUME NEW a \in Seq(Seq(Nat)), NEW b \in Seq(Seq(Nat)), NEW i, NEW c, c = a \o b
  PROVE  /\ Holding(a, i) = {} /\ Holding(b, i) = {} => Holding(c, i) = {}
         /\ HeldOnce(a, i) /\ Holding(b, i) = {} => HeldOnce(c, i)
         /\ Holding(a, i) = {} /\ HeldOnce(b, i) => HeldOnce(c, i)
<1>1. Holding(c, i) = Holding(a, i) \cup {Len(a) + row : row \in Holding(b, i)}
  BY JoinHolding
<1>2. ASSUME Holding(a, i) = {}, NEW row, Holding(b, i) = {row}
      PROVE  Holding(c, i) = {Len(a) + row}
  BY <1>1, <1>2
<1>3. Holding(a, i) = {} /\ Holding(b, i) = {} => Holding(c, i) = {}
  BY <1>1
<1>4. HeldOnce(a, i) /\ Holding(b, i) = {} => HeldOnce(c, i)
  <2>1. Holding(b, i) = {} => Holding(c, i) = Holding(a, i)
    BY <1>1
  <2> QED BY <2>1 DEF HeldOnce
<1>5. Holding(a, i) = {} /\ HeldOnce(b, i) => HeldOnce(c, i)
  BY <1>2 DEF HeldOnce
<1> QED
  BY <1>3, <1>4, <1>5

\* A place of a section is in one row under its header.
LEMMA WithHeaderRows ==
  ASSUME NEW indices \in Seq(Nat), IsInjective(indices), Range(indices) \subseteq Nat \ {0}
  PROVE  /\ WithHeader(indices) \in Seq(Seq(Nat))
         /\ \A i \in Range(indices) : HeldOnce(WithHeader(indices), i)
         /\ \A i : i \notin Range(indices) => Holding(WithHeader(indices), i) = {}
<1>1. CASE indices = << >>
  <2>1. Range(indices) = {} /\ << >> \in Seq(Seq(Nat)) /\ WithHeader(indices) = << >>
    BY <1>1, EmptySequence DEF WithHeader
  <2>2. \A i : Holding(<< >>, i) = {}
    BY DEF Holding
  <2> QED BY <2>1, <2>2
<1>2. CASE indices # << >>
  <2> PICK header, chunks : header = <<<< >>>> /\ chunks = Chunks(indices)
    OBVIOUS
  <2>1. /\ chunks \in Seq(Seq(Nat))
        /\ \A row \in DOMAIN chunks :
              Range(chunks[row]) = {indices[k] : k \in {n \in DOMAIN indices : InRow(n, row)}}
        /\ \A n \in DOMAIN indices : \A row : InRow(n, row) => row \in DOMAIN chunks
    BY ChunkRows
  <2>2. header \in Seq(Seq(Nat)) /\ \A i : Holding(header, i) = {}
    <3>1. header \in Seq(Seq(Nat)) /\ DOMAIN header = {1} /\ header[1] = << >>
      OBVIOUS
    <3>2. Range(<< >>) = {}
      BY EmptySequence
    <3> QED BY <3>1, <3>2 DEF Holding
  <2> PICK rows : rows = header \o chunks
    OBVIOUS
  <2>3. WithHeader(indices) = rows
    BY <1>2 DEF WithHeader
  <2>4. rows \in Seq(Seq(Nat))
    BY <2>1, <2>2
  <2>5. ASSUME NEW i \in Range(indices)
        PROVE  HeldOnce(chunks, i)
    <3>1. PICK k \in DOMAIN indices : i = indices[k]
      BY DEF Range
    <3>2. k \in Nat \ {0}
      OBVIOUS
    <3>3. PICK row : InRow(k, row)
      BY <3>2, RowExists
    <3>4. row \in DOMAIN chunks /\ i \in Range(chunks[row])
      BY <2>1, <3>1, <3>3
    <3>5. ASSUME NEW other \in DOMAIN chunks, i \in Range(chunks[other])
          PROVE  other = row
      <4>1. PICK n \in DOMAIN indices : InRow(n, other) /\ i = indices[n]
        BY <2>1, <3>5
      <4>2. n = k
        BY <3>1, <4>1 DEF IsInjective
      <4> QED BY <3>2, <3>3, <4>1, <4>2, RowUnique
    <3>6. Holding(chunks, i) = {row}
      BY <3>4, <3>5 DEF Holding
    <3> QED BY <3>6 DEF HeldOnce
  <2>6. ASSUME NEW i, i \notin Range(indices)
        PROVE  Holding(chunks, i) = {}
    <3>1. ASSUME NEW row \in DOMAIN chunks, i \in Range(chunks[row]) PROVE FALSE
      <4>1. PICK k \in DOMAIN indices : i = indices[k]
        BY <2>1, <3>1
      <4> QED BY <2>6, <4>1 DEF Range
    <3> QED BY <3>1 DEF Holding
  <2>7. \A i \in Range(indices) : HeldOnce(rows, i)
    BY <2>1, <2>2, <2>5, JoinHeld
  <2>8. \A i : i \notin Range(indices) => Holding(rows, i) = {}
    BY <2>1, <2>2, <2>6, JoinHeld
  <2> QED BY <2>3, <2>4, <2>7, <2>8
<1> QED
  BY <1>1, <1>2

\* The places of a section are those of its group, each once.
LEMMA SectionFacts ==
  ASSUME NEW T, NEW entries \in Seq(T), NEW name
  PROVE  /\ Places(entries) \in Seq(Nat) /\ IsInjective(Places(entries))
         /\ Range(Places(entries)) = DOMAIN entries /\ DOMAIN entries \subseteq Nat \ {0}
         /\ Section(name, entries) \in Seq(Nat) /\ IsInjective(Section(name, entries))
         /\ Range(Section(name, entries)) = {i \in DOMAIN entries : GroupOf[entries[i]] = name}
<1>1. Len(entries) \in Nat /\ DOMAIN entries = 1..Len(entries) /\ 1..Len(entries) \subseteq Nat \ {0}
  OBVIOUS
<1>2. Places(entries) \in Seq(Nat)
  <2>1. Places(entries) \in [1..Len(entries) -> Nat]
    BY <1>1 DEF Places
  <2> QED BY <1>1, <2>1
<1>3. IsInjective(Places(entries)) /\ Range(Places(entries)) = DOMAIN entries
  BY DEF Places, IsInjective, Range
<1> DEFINE set == {i \in DOMAIN entries : GroupOf[entries[i]] = name}
           places == Places(entries)
<1>4. Section(name, entries) = Kept(places, set)
  BY DEF Section
<1> HIDE DEF set, places
<1>5. /\ Kept(places, set) \in Seq(Nat) /\ Range(Kept(places, set)) = Range(places) \cap set
      /\ IsInjective(Kept(places, set))
  BY <1>2, <1>3, KeptFacts DEF places
<1>6. Range(places) \cap set = set
  BY <1>3 DEF set, places
<1> QED
  BY <1>1, <1>2, <1>3, <1>4, <1>5, <1>6 DEF set

\* A place that one of the parts holds is held once by all of them.
LEMMA OneOfParts ==
  ASSUME NEW parts \in Seq(Seq(Seq(Nat))), NEW i, NEW m \in 1..Len(parts),
         HeldOnce(parts[m], i), \A n \in 1..Len(parts) : n # m => Holding(parts[n], i) = {}
  PROVE  HeldOnce(FlattenSeq(parts), i)
<1> DEFINE last == Len(parts)
<1>1. last \in Nat /\ m \in 1..last /\ \A n \in 1..last : parts[n] \in Seq(Seq(Nat))
  OBVIOUS
<1>2. PICK at : /\ at \in [0..last -> Seq(Seq(Nat))] /\ at[0] = << >> /\ FlattenSeq(parts) = at[last]
                 /\ \A k \in 1..last : at[k] = at[k - 1] \o parts[k]
  BY FlattenLast DEF JoinedUp
<1> DEFINE Held(n) == IF n < m THEN Holding(at[n], i) = {} ELSE HeldOnce(at[n], i)
           S == {n \in 0..last : Held(n)}
<1>3. 0 \in S
  <2>1. Holding(<< >>, i) = {}
    BY DEF Holding
  <2> QED BY <1>1, <1>2, <2>1
<1>4. ASSUME NEW k \in 1..last, k - 1 \in S
      PROVE  k \in S
  <2> PICK before, part, joined : before = at[k - 1] /\ part = parts[k] /\ joined = at[k]
    OBVIOUS
  <2>1. k - 1 \in 0..last /\ k \in 0..last
    BY <1>1
  <2>2. before \in Seq(Seq(Nat)) /\ part \in Seq(Seq(Nat)) /\ joined = before \o part
    BY <1>1, <1>2, <2>1
  <2>3. IF k - 1 < m THEN Holding(before, i) = {} ELSE HeldOnce(before, i)
    BY <1>4
  <2>4. /\ Holding(before, i) = {} /\ Holding(part, i) = {} => Holding(joined, i) = {}
        /\ HeldOnce(before, i) /\ Holding(part, i) = {} => HeldOnce(joined, i)
        /\ Holding(before, i) = {} /\ HeldOnce(part, i) => HeldOnce(joined, i)
    BY <2>2, JoinHeld
  <2>5. IF k = m THEN HeldOnce(part, i) ELSE Holding(part, i) = {}
    OBVIOUS
  <2>6. IF k < m THEN Holding(joined, i) = {} ELSE HeldOnce(joined, i)
    <3>1. CASE k < m
      <4>1. k - 1 < m /\ k # m
        BY <1>1, <3>1
      <4> QED BY <2>3, <2>4, <2>5, <3>1, <4>1
    <3>2. CASE k = m
      <4>1. k - 1 < m /\ ~ k < m
        BY <1>1, <3>2
      <4> QED BY <2>3, <2>4, <2>5, <3>2, <4>1
    <3>3. CASE k > m
      <4>1. ~ k - 1 < m /\ ~ k < m /\ k # m
        BY <1>1, <3>3
      <4> QED BY <2>3, <2>4, <2>5, <4>1
    <3>4. k < m \/ k = m \/ k > m
      BY <1>1
    <3> QED BY <3>1, <3>2, <3>3, <3>4
  <2> QED BY <2>1, <2>6
<1>5. HeldOnce(at[last], i)
  <2>1. 0..last \subseteq S
    <3> HIDE DEF S
    <3> QED BY <1>1, <1>3, <1>4, Induction
  <2>2. last \in 0..last /\ ~ last < m
    BY <1>1
  <2>3. last \in S
    <3> HIDE DEF S
    <3> QED BY <2>1, <2>2
  <2> QED BY <2>2, <2>3
<1> QED
  BY <1>2, <1>5

\* Every place of the picker is in one row of its grid.
Emojis == Range(Frequent) \cup Range(EmojiOrder) \cup Range(SymbolOrder)

LEMMA EmojiGrid ==
  ASSUME NEW entries \in Seq(Emojis), NEW q
  PROVE  /\ EmojiRows(entries, q) \in Seq(Seq(Nat))
         /\ \A i \in DOMAIN entries : HeldOnce(EmojiRows(entries, q), i)
<1>1. CASE q # Empty
  <2>1. EmojiRows(entries, q) = WithHeader(Places(entries))
    BY <1>1 DEF EmojiRows
  <2>2. /\ Places(entries) \in Seq(Nat) /\ IsInjective(Places(entries))
        /\ Range(Places(entries)) = DOMAIN entries /\ DOMAIN entries \subseteq Nat \ {0}
    BY SectionFacts
  <2> QED BY <2>1, <2>2, WithHeaderRows
<1>2. CASE q = Empty
  <2> DEFINE count == Len(Groups) + 1
             names == <<"frequent">> \o Groups
             parts == [n \in 1..count |-> WithHeader(Section(names[n], entries))]
             Group == {"frequent"} \cup Range(Groups)
  <2>1. /\ Groups \in Seq(Range(Groups)) /\ IsInjective(Groups) /\ "frequent" \notin Range(Groups)
        /\ \A e \in Emojis : GroupOf[e] \in Group
    BY LauncherAssumption DEF Emojis
  <2>2. Len(Groups) \in Nat /\ DOMAIN Groups = 1..Len(Groups)
    BY <2>1
  <2>3. /\ Len(names) = count /\ names[1] = "frequent"
        /\ \A n \in 1..Len(Groups) : names[n + 1] = Groups[n]
    BY <2>1, <2>2
  <2>4. EmojiRows(entries, q) = FlattenSeq(parts)
    BY <1>2 DEF EmojiRows
  <2> HIDE DEF names
  <2>5. ASSUME NEW n \in 1..count
        PROVE  /\ parts[n] \in Seq(Seq(Nat))
               /\ \A i \in DOMAIN entries :
                     IF GroupOf[entries[i]] = names[n] THEN HeldOnce(parts[n], i)
                     ELSE Holding(parts[n], i) = {}
    <3> PICK section : section = Section(names[n], entries)
      OBVIOUS
    <3>1. /\ section \in Seq(Nat) /\ IsInjective(section) /\ DOMAIN entries \subseteq Nat \ {0}
          /\ Range(section) = {i \in DOMAIN entries : GroupOf[entries[i]] = names[n]}
      BY SectionFacts
    <3>2. parts[n] = WithHeader(section)
      OBVIOUS
    <3>3. /\ WithHeader(section) \in Seq(Seq(Nat))
          /\ \A i \in Range(section) : HeldOnce(WithHeader(section), i)
          /\ \A i : i \notin Range(section) => Holding(WithHeader(section), i) = {}
      BY <3>1, WithHeaderRows
    <3> HIDE DEF parts
    <3> QED BY <3>1, <3>2, <3>3
  <2>6. parts \in Seq(Seq(Seq(Nat))) /\ Len(parts) = count
    <3>1. count \in Nat
      BY <2>2
    <3>2. parts \in [1..count -> Seq(Seq(Nat))]
      <4>1. DOMAIN parts = 1..count /\ parts = [n \in 1..count |-> parts[n]]
        OBVIOUS
      <4> HIDE DEF parts
      <4> QED BY <2>5, <4>1
    <3> HIDE DEF parts, count
    <3> QED BY <3>1, <3>2
  <2> HIDE DEF parts
  <2>7. FlattenSeq(parts) \in Seq(Seq(Nat))
    BY <2>6, FlattenRange
  <2>8. ASSUME NEW i \in DOMAIN entries
        PROVE  HeldOnce(FlattenSeq(parts), i)
    <3>1. entries[i] \in Emojis
      OBVIOUS
    <3>2. PICK m \in 1..count : names[m] = GroupOf[entries[i]]
      <4>1. CASE GroupOf[entries[i]] = "frequent"
        <5>1. 1 \in 1..count
          BY <2>2
        <5> QED BY <2>3, <4>1, <5>1
      <4>2. CASE GroupOf[entries[i]] # "frequent"
        <5>1. PICK n \in 1..Len(Groups) : Groups[n] = GroupOf[entries[i]]
          BY <2>1, <2>2, <3>1, <4>2 DEF Range
        <5>2. n + 1 \in 1..count
          BY <2>2
        <5> QED BY <2>3, <5>1, <5>2
      <4> QED BY <4>1, <4>2
    <3>3. ASSUME NEW n \in 1..count, names[n] = names[m]
          PROVE  n = m
      <4>1. \A k \in 1..count : k = 1 \/ (k - 1 \in 1..Len(Groups) /\ (k - 1) + 1 = k)
        BY <2>2
      <4>2. \A k \in 1..Len(Groups) : names[k + 1] # "frequent"
        BY <2>1, <2>2, <2>3 DEF Range
      <4>3. \A k, j \in 1..Len(Groups) : names[k + 1] = names[j + 1] => k = j
        BY <2>1, <2>2, <2>3 DEF IsInjective
      <4>0. \A k \in 1..count : names[k] = "frequent" => k = 1
        <5> SUFFICES ASSUME NEW k \in 1..count, k # 1 PROVE names[k] # "frequent"
          OBVIOUS
        <5>1. k - 1 \in 1..Len(Groups) /\ (k - 1) + 1 = k
          BY <4>1
        <5> QED BY <4>2, <5>1
      <4>4. CASE n = 1 \/ m = 1
        BY <2>3, <3>3, <4>0, <4>4
      <4>5. CASE n # 1 /\ m # 1
        <5>1. n - 1 = m - 1
          BY <3>3, <4>1, <4>3, <4>5
        <5> QED BY <5>1
      <4> QED BY <4>4, <4>5
    <3>4. HeldOnce(parts[m], i) /\ \A n \in 1..count : n # m => Holding(parts[n], i) = {}
      BY <2>5, <3>2, <3>3
    <3> HIDE DEF count
    <3> QED BY <2>6, <3>4, OneOfParts
  <2> QED BY <2>4, <2>7, <2>8
<1> QED
  BY <1>1, <1>2

-----------------------------------------------------------------------------
(* What is listed.                                                         *)

LEMMA RankedFacts ==
  ASSUME NEW T, NEW candidates \in Seq(T), NEW favored, NEW q
  PROVE  /\ Ranked(favored, q, candidates) \in Seq(T)
         /\ Range(Ranked(favored, q, candidates)) =
               IF q = Empty THEN Range(candidates)
               ELSE Range(candidates) \cap (Prefixed[q] \cup Fuzzy[q])
<1> DEFINE Tier(entries) == Kept(candidates, entries \cap favored)
                            \o Kept(candidates, entries \ favored)
<1>1. ASSUME NEW entries
      PROVE  Tier(entries) \in Seq(T) /\ Range(Tier(entries)) = Range(candidates) \cap entries
  <2> PICK first, second : /\ first = Kept(candidates, entries \cap favored)
                           /\ second = Kept(candidates, entries \ favored)
    OBVIOUS
  <2>1. /\ first \in Seq(T) /\ Range(first) = Range(candidates) \cap (entries \cap favored)
        /\ second \in Seq(T) /\ Range(second) = Range(candidates) \cap (entries \ favored)
    BY KeptFacts
  <2>2. first \o second \in Seq(T) /\ Range(first \o second) = Range(first) \cup Range(second)
    BY <2>1, JoinedRange
  <2>3. Range(first) \cup Range(second) = Range(candidates) \cap entries
    BY <2>1
  <2> QED BY <2>2, <2>3
<1>2. Ranked(favored, q, candidates) =
         IF q = Empty THEN Tier(Range(candidates)) ELSE Tier(Prefixed[q]) \o Tier(Fuzzy[q])
  BY DEF Ranked
<1> HIDE DEF Tier
<1>3. CASE q = Empty
  BY <1>1, <1>2, <1>3
<1>4. CASE q # Empty
  <2>1. /\ Tier(Prefixed[q]) \o Tier(Fuzzy[q]) \in Seq(T)
        /\ Range(Tier(Prefixed[q]) \o Tier(Fuzzy[q]))
              = Range(Tier(Prefixed[q])) \cup Range(Tier(Fuzzy[q]))
    BY <1>1, JoinedRange
  <2> QED BY <1>1, <1>2, <1>4, <2>1
<1> QED
  BY <1>3, <1>4

LEMMA Widen ==
  ASSUME NEW S, NEW T, NEW s \in Seq(S), Range(s) \subseteq T
  PROVE  s \in Seq(T)
<1>1. DOMAIN s = 1..Len(s) /\ Len(s) \in Nat
  OBVIOUS
<1>2. \A i \in 1..Len(s) : s[i] \in T
  BY <1>1 DEF Range
<1>3. s = [i \in 1..Len(s) |-> s[i]]
  BY <1>1
<1> QED
  BY <1>1, <1>2, <1>3

\* What the currencies list.
CurrencyOnly == {Loading, Converted, "web", "files"}

LEMMA CurrencyRange ==
  ASSUME NEW p
  PROVE  CurrencyEntries(p) \in Seq(CurrencyOnly)
<1> DEFINE first == CASE p.answer = "value" -> <<Converted>>
                      [] p.answer = "none" /\ p.conversion # None -> <<Loading>>
                      [] OTHER -> << >>
           second == IF p.query = Empty THEN << >> ELSE Fallback
<1>1. first \in Seq(CurrencyOnly)
  <2>1. <<Converted>> \in Seq(CurrencyOnly) /\ <<Loading>> \in Seq(CurrencyOnly)
        /\ << >> \in Seq(CurrencyOnly)
    BY DEF CurrencyOnly
  <2>2. CASE p.answer = "value"
    <3>1. first = <<Converted>>
      BY <2>2
    <3> QED BY <2>1, <3>1
  <2>3. CASE p.answer = "none" /\ p.conversion # None
    <3>1. first = <<Loading>>
      BY <2>3
    <3> QED BY <2>1, <3>1
  <2>4. CASE p.answer # "value" /\ ~ (p.answer = "none" /\ p.conversion # None)
    <3>1. first = << >>
      BY <2>4
    <3> QED BY <2>1, <3>1
  <2> QED BY <2>2, <2>3, <2>4
<1>2. second \in Seq(CurrencyOnly)
  <2>1. Fallback \in Seq(CurrencyOnly)
    BY DEF CurrencyOnly, Fallback
  <2> QED BY <2>1
<1>3. CurrencyEntries(p) = first \o second
  BY DEF CurrencyEntries
<1> HIDE DEF first, second
<1> QED BY <1>1, <1>2, <1>3

\* The entries of a palette come from the lists that the constants give.
LEMMA ListFacts ==
  /\ Fallback \in Seq(ListedElsewhere) /\ <<Answer>> \o Fallback \in Seq(ListedElsewhere)
  /\ \A p : CurrencyEntries(p) \in Seq(ListedElsewhere)
  /\ \A f \in Filters : Clips[f] \in Seq(ListedElsewhere)
  /\ \A q \in Queries : Base \o KeywordEntry(q) \in Seq(Entries)
  /\ \A q \in Queries : EmojiEntries(q) \in Seq(Emojis)
  /\ Emojis \subseteq ListedElsewhere /\ ListedElsewhere \subseteq Entries
  /\ Base \in Seq(Entries) /\ Base \o KeywordEntry(Empty) = Base
<1>1. Fallback = <<"web", "files">> /\ Range(Fallback) = {"web", "files"}
  BY DEF Fallback, Range
<1>2. /\ {"web", "files", Loading, Converted, Answer} \subseteq ListedElsewhere
      /\ Emojis \subseteq ListedElsewhere /\ ListedElsewhere \subseteq Entries
      /\ Range(Base) \subseteq Entries
  <2>1. {"web", "files", Loading, Converted, Answer} \subseteq ListedElsewhere
    <3>1. {"web", "files"} \cup {Loading, Converted, Answer} \subseteq ListedElsewhere
      BY <1>1 DEF ListedElsewhere
    <3> QED BY <3>1
  <2>2. Emojis \subseteq ListedElsewhere
    BY DEF ListedElsewhere, Emojis
  <2>3. ListedElsewhere \subseteq Entries /\ Range(Base) \subseteq Entries
    BY DEF Entries
  <2> QED BY <2>1, <2>2, <2>3
<1>3. Fallback \in Seq(ListedElsewhere) /\ <<Answer>> \o Fallback \in Seq(ListedElsewhere)
  BY <1>1, <1>2
<1>4. ASSUME NEW p PROVE CurrencyEntries(p) \in Seq(ListedElsewhere)
  <2>1. CurrencyEntries(p) \in Seq(CurrencyOnly) /\ CurrencyOnly \subseteq ListedElsewhere
    BY <1>2, CurrencyRange DEF CurrencyOnly
  <2>2. Range(CurrencyEntries(p)) \subseteq ListedElsewhere
    BY <2>1 DEF Range
  <2> QED BY <2>1, <2>2, Widen
<1>5. ASSUME NEW f \in Filters PROVE Clips[f] \in Seq(ListedElsewhere)
  <2>1. Clips[f] \in Range(Clips)
    BY DEF Filters, Range
  <2>2. Clips[f] \in Seq(Range(Clips[f]))
    BY <2>1, LauncherAssumption
  <2>3. Range(Clips[f]) \subseteq ListedElsewhere
    BY DEF ListedElsewhere, HistoryEntries
  <2> QED BY <2>2, <2>3, Widen
<1>6. Base \in Seq(Entries)
  BY <1>2, LauncherAssumption, Widen
<1>7. ASSUME NEW q \in Queries PROVE Base \o KeywordEntry(q) \in Seq(Entries)
  <2>1. Keyword[q] = None \/ Keyword[q] \in Entries
    BY <1>2, LauncherAssumption
  <2>2. KeywordEntry(q) \in Seq(Entries)
    <3>1. CASE Keyword[q] = None
      BY <3>1 DEF KeywordEntry
    <3>2. CASE Keyword[q] # None
      <4>1. Keyword[q] \in Entries /\ KeywordEntry(q) = <<Keyword[q]>>
        BY <2>1, <3>2 DEF KeywordEntry
      <4> QED BY <4>1
    <3> QED BY <3>1, <3>2
  <2> QED BY <1>6, <2>2
<1>8. Base \o KeywordEntry(Empty) = Base
  <2>1. KeywordEntry(Empty) = << >>
    BY LauncherAssumption DEF KeywordEntry
  <2> QED BY <1>6, <2>1
<1>9. ASSUME NEW q \in Queries PROVE EmojiEntries(q) \in Seq(Emojis)
  <2> DEFINE tiers == [tier \in DOMAIN EmojiTiers[q] |-> Kept(EmojiOrder, EmojiTiers[q][tier])]
             first == IF q = Empty THEN Frequent ELSE << >>
             last == Kept(SymbolOrder, SymbolsFor[q])
  <2>1. /\ Frequent \in Seq(Emojis) /\ EmojiOrder \in Seq(Emojis) /\ SymbolOrder \in Seq(Emojis)
    <3>1. /\ Frequent \in Seq(Range(Frequent)) /\ EmojiOrder \in Seq(Range(EmojiOrder))
          /\ SymbolOrder \in Seq(Range(SymbolOrder))
      BY LauncherAssumption
    <3> QED BY <3>1, Widen DEF Emojis
  <2>2. first \in Seq(Emojis) /\ last \in Seq(Emojis)
    BY <2>1, KeptFacts
  <2>3. tiers \in Seq(Seq(Emojis))
    <3>1. Len(EmojiTiers[q]) \in Nat /\ DOMAIN EmojiTiers[q] = 1..Len(EmojiTiers[q])
      BY LauncherAssumption
    <3>2. tiers \in [1..Len(EmojiTiers[q]) -> Seq(Emojis)]
      BY <2>1, <3>1, KeptFacts
    <3> HIDE DEF tiers
    <3> QED BY <3>1, <3>2
  <2>4. EmojiEntries(q) = first \o FlattenSeq(tiers) \o last
    BY DEF EmojiEntries
  <2> HIDE DEF first, last, tiers
  <2>5. FlattenSeq(tiers) \in Seq(Emojis)
    BY <2>3, FlattenRange
  <2> QED BY <2>2, <2>4, <2>5
<1> QED
  BY <1>2, <1>3, <1>4, <1>5, <1>6, <1>7, <1>8, <1>9

-----------------------------------------------------------------------------
(* What a refresh makes of a palette.                                      *)

\* (The prover is shown these sets only where an element is put in one.)
Lists == Seq(Entries)
Ordinals == Nat \ {0}
Grids == Seq(Seq(Nat))
Modes == {"results", "actions"}
Requests == Conversions \cup {None}
AnswerKinds == {"none", "value", "error"}
Arguments == [Tools -> {None} \cup {Rest[q] : q \in Queries}]
PaletteState ==
    [surface : Surfaces, query : Queries, filter : Filters, category : Categories,
     popup : BOOLEAN, candidates : Lists, matches : Lists, selected : Ordinals,
     mode : Modes, action : Ordinals, conversion : Requests, answer : AnswerKinds,
     rows : Grids, arguments : Arguments]

\* What stays when the list is replaced.
SameScreen(p, r) ==
    /\ r \in PaletteState
    /\ r.surface = p.surface /\ r.query = p.query
    /\ r.filter = p.filter /\ r.category = p.category

\* A palette with a list put in place of the old one, its selection within it.
Shows(p, r, candidates, matches) ==
    /\ SameScreen(p, r)
    /\ r.conversion = p.conversion /\ r.answer = p.answer
    /\ r.mode = "results" /\ r.candidates = candidates /\ r.matches = matches
    /\ matches # << >> => r.selected \in DOMAIN matches

LEMMA FirstOfList ==
  ASSUME NEW T, NEW s \in Seq(T)
  PROVE  s # << >> => 1 \in DOMAIN s
OBVIOUS

\* Setting the list and what is selected in it.
LEMMA ListSet ==
  ASSUME NEW p \in PaletteState, NEW candidates \in Seq(Entries), NEW matches \in Seq(Entries),
         NEW at \in Nat \ {0}, matches # << >> => at \in DOMAIN matches,
         NEW r, r = [p EXCEPT !.candidates = candidates, !.matches = matches,
                              !.selected = at, !.mode = "results", !.action = 1]
  PROVE  Shows(p, r, candidates, matches)
<1>1. r \in PaletteState
  <2>1. /\ candidates \in Lists /\ matches \in Lists /\ at \in Ordinals
        /\ 1 \in Ordinals /\ "results" \in Modes
    BY DEF Lists, Ordinals, Modes
  <2> QED BY <2>1 DEF PaletteState
<1>2. /\ r.surface = p.surface /\ r.query = p.query
      /\ r.filter = p.filter /\ r.category = p.category
      /\ r.conversion = p.conversion /\ r.answer = p.answer
      /\ r.mode = "results" /\ r.candidates = candidates /\ r.matches = matches
      /\ r.selected = at
  BY DEF PaletteState
<1> QED
  BY <1>1, <1>2 DEF Shows, SameScreen

LEMMA OrderedShows ==
  ASSUME NEW p \in PaletteState, NEW entries \in Seq(Entries)
  PROVE  Shows(p, ReplacedOrdered(p, entries), entries, entries)
<1> PICK r, at : r = ReplacedOrdered(p, entries) /\ at = 1
  OBVIOUS
<1>1. r = [p EXCEPT !.candidates = entries, !.matches = entries,
                    !.selected = at, !.mode = "results", !.action = 1]
  BY DEF ReplacedOrdered, AtTop, PaletteState
<1>2. at \in Nat \ {0} /\ (entries # << >> => at \in DOMAIN entries)
  OBVIOUS
<1>3. Shows(p, r, entries, entries)
  BY <1>1, <1>2, ListSet
<1> QED
  BY <1>3

LEMMA RerankedIs ==
  ASSUME NEW p \in PaletteState, NEW entries \in Seq(Entries), NEW r,
         r = Reranked([p EXCEPT !.candidates = entries]),
         NEW matches, matches = Ranked(favorites', p.query, entries)
  PROVE  /\ r = [p EXCEPT !.candidates = entries, !.matches = matches,
                          !.selected = 1, !.mode = "results", !.action = 1]
         /\ matches \in Seq(Entries) /\ Shows(p, r, entries, matches)
<1> PICK q : q = [p EXCEPT !.candidates = entries]
  OBVIOUS
<1>1. q.query = p.query /\ q.candidates = entries
  BY DEF PaletteState
<1>2. Reranked(q) = [q EXCEPT !.matches = matches, !.selected = 1, !.mode = "results", !.action = 1]
  BY <1>1 DEF Reranked, AtTop
<1>3. r = [p EXCEPT !.candidates = entries, !.matches = matches,
                    !.selected = 1, !.mode = "results", !.action = 1]
  BY <1>2
<1>4. matches \in Seq(Entries)
  BY RankedFacts
<1>0. PICK at : at = 1
  OBVIOUS
<1>5. at \in Nat \ {0} /\ (matches # << >> => at \in DOMAIN matches)
  BY <1>0, <1>4
<1>6. Shows(p, r, entries, matches)
  BY <1>0, <1>3, <1>4, <1>5, ListSet
<1> QED
  BY <1>3, <1>4, <1>6

LEMMA RerankedShows ==
  ASSUME NEW p \in PaletteState
  PROVE  Shows(p, Reranked(p), p.candidates, Ranked(favorites', p.query, p.candidates))
<1>1. p.candidates \in Seq(Entries) /\ [p EXCEPT !.candidates = p.candidates] = p
  BY DEF PaletteState, Lists
<1> QED
  BY <1>1, RerankedIs

LEMMA ReplacedShows ==
  ASSUME NEW p \in PaletteState, NEW entries \in Seq(Entries)
  PROVE  Shows(p, Replaced(p, entries), entries, Ranked(favorites', p.query, entries))
<1> DEFINE new == Reranked([p EXCEPT !.candidates = entries])
           matches == Ranked(favorites', p.query, entries)
           kept == {i \in DOMAIN new.matches : new.matches[i] = SelectedEntry(p)}
           least == CHOOSE i \in kept : \A j \in kept : i <= j
<1>1. /\ new = [p EXCEPT !.candidates = entries, !.matches = matches,
                         !.selected = 1, !.mode = "results", !.action = 1]
      /\ matches \in Seq(Entries) /\ Shows(p, new, entries, matches)
  BY RerankedIs
<1>2. Replaced(p, entries) = IF kept = {} THEN new ELSE [new EXCEPT !.selected = least]
  BY DEF Replaced
<1>3. new.matches = matches
  BY <1>1 DEF Shows
<1> HIDE DEF new, matches
<1>4. CASE kept = {}
  BY <1>1, <1>2, <1>4 DEF matches
<1>5. CASE kept # {}
  <2>1. kept \subseteq DOMAIN matches /\ DOMAIN matches \subseteq Nat \ {0}
    BY <1>1, <1>3
  <2>2. least \in kept
    <3>1. kept \subseteq Nat
      BY <2>1
    <3>2. \E i \in kept : \A j \in kept : i <= j
      BY <1>5, <3>1, LeastExists
    <3> HIDE DEF kept
    <3> QED BY <3>2
  <2>3. least \in Nat \ {0} /\ least \in DOMAIN matches
    BY <2>1, <2>2
  <2> HIDE DEF kept, least
  <2>4. [new EXCEPT !.selected = least] =
           [p EXCEPT !.candidates = entries, !.matches = matches,
                     !.selected = least, !.mode = "results", !.action = 1]
    BY <1>1 DEF PaletteState
  <2>5. Shows(p, [new EXCEPT !.selected = least], entries, matches)
    BY <1>1, <2>3, <2>4, ListSet
  <2> QED BY <1>2, <1>5, <2>5 DEF matches
<1> QED
  BY <1>4, <1>5

\* What a refresh lists, as a function of the palette and the favourites.
Found(favored, q) == Ranked(favored, q, Base \o KeywordEntry(q))
LauncherListing(favored, q) ==
    IF q \in Calculated THEN <<Answer>> \o Fallback
    ELSE IF q # Empty /\ Found(favored, q) = << >> THEN Fallback ELSE Found(favored, q)
Asked(p) == IF Asks(p) THEN [p EXCEPT !.conversion = Money[p.query], !.answer = "none"] ELSE p
Listing(p, favored) ==
    IF ListsCurrency(p)
    THEN IF Money[p.query] = None THEN Ranked(favored, p.query, << >>) ELSE CurrencyEntries(Asked(p))
    ELSE IF p.surface = "launcher" THEN LauncherListing(favored, p.query)
    ELSE IF p.surface = "nearby" THEN Ranked(favored, p.query, << >>)
    ELSE IF p.surface = "clipboard" THEN Ranked(favored, p.query, Clips[p.filter])
    ELSE InCategory(p.category, EmojiEntries(p.query))

\* The palette between two handlers: the selected row and action exist, what is
\* listed is what a refresh would list, an application is only listed among what
\* the launcher ranks, a conversion is on record while its query is there, and the
\* grid is that of the list.
Settled(p, favored) ==
    /\ p.matches # << >> => p.selected \in DOMAIN p.matches
    /\ p.mode = "actions" => p.action \in DOMAIN ActionsOf(SelectedEntry(p))
    /\ p.matches = Listing(p, favored)
    /\ Range(p.matches) \cap Apps # {} =>
          /\ p.surface = "launcher" /\ Money[p.query] = None /\ p.query \notin Calculated
          /\ p.candidates = Base \o KeywordEntry(p.query)
          /\ p.matches = Found(favored, p.query)
    /\ p.conversion = IF ListsCurrency(p) THEN Money[p.query] ELSE None
    /\ p.surface = "emoji" => p.matches \in Seq(Emojis) /\ p.rows = EmojiRows(p.matches, p.query)

\* A refresh of p, with some favourites.
Refreshes(p, r, favored) ==
    SameScreen(p, r) /\ r.mode = "results" /\ Settled(r, favored) /\ r.matches = Listing(p, favored)

LEMMA ForgetCurrency ==
  ASSUME NEW p \in PaletteState
  PROVE  LET r == NoCurrency(p)
         IN  SameScreen(p, r) /\ r.conversion = None /\ r.answer = "none"
<1> PICK r : r = NoCurrency(p)
  OBVIOUS
<1>1. r \in PaletteState
  <2>1. None \in Requests /\ "none" \in AnswerKinds
    BY DEF Requests, AnswerKinds
  <2> QED BY <2>1 DEF PaletteState, NoCurrency
<1>2. /\ r.surface = p.surface /\ r.query = p.query /\ r.filter = p.filter
      /\ r.category = p.category /\ r.conversion = None /\ r.answer = "none"
  BY DEF PaletteState, NoCurrency
<1> QED
  BY <1>1, <1>2 DEF SameScreen

LEMMA SetKeyword ==
  ASSUME NEW p \in PaletteState
  PROVE  LET r == WithKeyword(p)
         IN  SameScreen(p, r) /\ r.conversion = p.conversion /\ r.answer = p.answer
<1>1. CASE Keyword[p.query] = None
  <2>1. WithKeyword(p) = p
    BY <1>1 DEF WithKeyword
  <2> QED BY <2>1 DEF SameScreen
<1>2. CASE Keyword[p.query] # None
  <2> PICK r, arguments : /\ r = WithKeyword(p)
                          /\ arguments = [p.arguments EXCEPT ![Keyword[p.query]] = Rest[p.query]]
    OBVIOUS
  <2>1. r = [p EXCEPT !.arguments = arguments]
    BY <1>2 DEF WithKeyword
  <2>2. p.arguments \in Arguments /\ p.query \in Queries
    BY DEF PaletteState
  <2>3. arguments \in Arguments
    BY <2>2 DEF Arguments
  <2>4. r \in PaletteState
    BY <2>1, <2>3 DEF PaletteState
  <2>5. /\ r.surface = p.surface /\ r.query = p.query /\ r.filter = p.filter
        /\ r.category = p.category /\ r.conversion = p.conversion /\ r.answer = p.answer
    BY <2>1 DEF PaletteState
  <2> QED BY <2>4, <2>5 DEF SameScreen
<1> QED
  BY <1>1, <1>2

\* Currencies: the conversion is on record with its answer, or there is none.
LEMMA CurrencyRefreshed ==
  ASSUME NEW p \in PaletteState, ListsCurrency(p)
  PROVE  Refreshes(p, RefreshedCurrency(p), favorites')
<1> PICK r : r = RefreshedCurrency(p)
  OBVIOUS
<1>0. p.query \in Queries /\ p.surface \in {"currency", "launcher"}
  BY DEF PaletteState, ListsCurrency
<1>1. CASE Money[p.query] = None
  <2> PICK cleared : cleared = NoCurrency(p)
    OBVIOUS
  <2>1. SameScreen(p, cleared) /\ cleared.conversion = None
    BY ForgetCurrency
  <2>2. cleared \in PaletteState /\ << >> \in Seq(Entries)
    BY <2>1 DEF SameScreen
  <2>3. r = Replaced(cleared, << >>)
    BY <1>1 DEF RefreshedCurrency
  <2> PICK matches : matches = Ranked(favorites', p.query, << >>)
    OBVIOUS
  <2>4. Shows(cleared, r, << >>, matches)
    BY <2>1, <2>2, <2>3, ReplacedShows DEF SameScreen
  <2>5. Range(matches) = {}
    <3>1. Range(matches) \subseteq Range(<< >>)
      BY RankedFacts, EmptySequence
    <3> QED BY <3>1, EmptySequence
  <2>6. SameScreen(p, r) /\ r.conversion = None /\ r.mode = "results" /\ r.matches = matches
        /\ (matches # << >> => r.selected \in DOMAIN matches)
    BY <2>1, <2>4 DEF Shows, SameScreen
  <2>7. ListsCurrency(r) /\ Listing(r, favorites') = matches /\ Listing(p, favorites') = matches
    BY <1>1, <2>6 DEF ListsCurrency, SameScreen, Listing
  <2>8. Settled(r, favorites')
    BY <1>0, <1>1, <2>5, <2>6, <2>7 DEF Settled, SameScreen
  <2> QED BY <2>6, <2>7, <2>8 DEF Refreshes
<1>2. CASE Money[p.query] # None
  <2> PICK known, entries : known = Asked(p) /\ entries = CurrencyEntries(known)
    OBVIOUS
  <2>1. SameScreen(p, known) /\ known.conversion = Money[p.query]
    <3>1. CASE Asks(p)
      <4>1. known = [p EXCEPT !.conversion = Money[p.query], !.answer = "none"]
        BY <3>1 DEF Asked
      <4>2. Money[p.query] \in Requests /\ "none" \in AnswerKinds
        BY <1>0, <1>2 DEF Requests, AnswerKinds, Conversions
      <4>3. known \in PaletteState
        BY <4>1, <4>2 DEF PaletteState
      <4>4. /\ known.surface = p.surface /\ known.query = p.query /\ known.filter = p.filter
            /\ known.category = p.category /\ known.conversion = Money[p.query]
        BY <4>1 DEF PaletteState
      <4> QED BY <4>3, <4>4 DEF SameScreen
    <3>2. CASE ~ Asks(p)
      BY <1>2, <3>2 DEF Asks, Asked, SameScreen
    <3> QED BY <3>1, <3>2
  <2>2. r = ReplacedOrdered(known, entries)
    BY <1>2 DEF RefreshedCurrency, ShowCurrency, Asked
  <2>3. entries \in Seq(ListedElsewhere) /\ entries \in Seq(Entries)
    <3>1. entries \in Seq(ListedElsewhere) /\ ListedElsewhere \subseteq Entries
      BY ListFacts
    <3>2. Range(entries) \subseteq ListedElsewhere
      BY <3>1 DEF Range
    <3> QED BY <3>1, <3>2, Widen
  <2>4. Shows(known, r, entries, entries)
    BY <2>1, <2>2, <2>3, OrderedShows DEF SameScreen
  <2>5. Range(entries) \cap Apps = {}
    <3>1. Range(entries) \subseteq ListedElsewhere
      BY <2>3 DEF Range
    <3> QED BY <3>1, LauncherAssumption
  <2>6. SameScreen(p, r) /\ r.conversion = Money[p.query] /\ r.mode = "results"
        /\ r.matches = entries /\ r.answer = known.answer
        /\ (entries # << >> => r.selected \in DOMAIN entries)
    BY <2>1, <2>4 DEF Shows, SameScreen
  <2>7. ListsCurrency(r) /\ Listing(p, favorites') = entries
    BY <1>2, <2>6 DEF ListsCurrency, SameScreen, Listing
  <2>8. Listing(r, favorites') = entries
    <3>1. Asked(r) = r
      BY <2>6 DEF Asked, Asks, SameScreen
    <3>2. CurrencyEntries(r) = CurrencyEntries(known)
      BY <2>1, <2>6 DEF CurrencyEntries, SameScreen
    <3> QED BY <1>2, <2>6, <2>7, <3>1, <3>2 DEF Listing, SameScreen
  <2>9. Settled(r, favorites')
    BY <1>0, <2>5, <2>6, <2>7, <2>8 DEF Settled, SameScreen
  <2> QED BY <2>6, <2>7, <2>9 DEF Refreshes
<1> QED
  BY <1>1, <1>2

\* The launcher: an answer of the calculator, what the ranking finds, or a search.
LEMMA LauncherRefreshed ==
  ASSUME NEW p \in PaletteState, p.surface = "launcher", Money[p.query] = None
  PROVE  Refreshes(p, RefreshedLauncher(p), favorites')
<1> PICK r, q : r = RefreshedLauncher(p) /\ q = p.query
  OBVIOUS
<1>0. q \in Queries /\ ~ ListsCurrency(p)
  BY DEF PaletteState, ListsCurrency
<1> PICK cleared : cleared = WithKeyword(NoCurrency(p))
  OBVIOUS
<1>1. SameScreen(p, cleared) /\ cleared.conversion = None
  <2>1. SameScreen(p, NoCurrency(p)) /\ NoCurrency(p).conversion = None
    BY ForgetCurrency
  <2>2. NoCurrency(p) \in PaletteState
    BY <2>1 DEF SameScreen
  <2>3. SameScreen(NoCurrency(p), cleared) /\ cleared.conversion = NoCurrency(p).conversion
    BY <2>2, SetKeyword
  <2> QED BY <2>1, <2>3 DEF SameScreen
<1>2. cleared \in PaletteState /\ cleared.query = q /\ cleared.surface = "launcher"
  BY <1>1 DEF SameScreen
<1> PICK base, listed, found :
       base = Base \o KeywordEntry(q) /\ listed = Replaced(cleared, base) /\ found = Found(favorites', q)
  OBVIOUS
<1>3. Shows(cleared, listed, base, found)
  <2>1. base \in Seq(Entries)
    BY <1>0, ListFacts
  <2> QED BY <1>2, <2>1, ReplacedShows DEF Found
<1>4. r = IF q \in Calculated THEN ReplacedOrdered(cleared, <<Answer>> \o Fallback)
          ELSE IF q # Empty /\ listed.matches = << >> THEN ReplacedOrdered(listed, Fallback)
          ELSE listed
  BY DEF RefreshedLauncher
\* What is listed instead has no application in it.
<1>5. ASSUME NEW before \in PaletteState, SameScreen(p, before), before.conversion = None,
             NEW entries \in Seq(ListedElsewhere), entries = LauncherListing(favorites', q),
             r = ReplacedOrdered(before, entries)
      PROVE  Refreshes(p, r, favorites')
  <2>1. Range(entries) \subseteq ListedElsewhere
    BY <1>5 DEF Range
  <2>2. entries \in Seq(Entries) /\ Range(entries) \cap Apps = {}
    BY <1>5, <2>1, Widen, ListFacts, LauncherAssumption
  <2>3. Shows(before, r, entries, entries)
    BY <1>5, <2>2, OrderedShows
  <2>4. SameScreen(p, r) /\ r.conversion = None /\ r.mode = "results" /\ r.matches = entries
        /\ (entries # << >> => r.selected \in DOMAIN entries)
    BY <1>5, <2>3 DEF Shows, SameScreen
  <2>5. ~ ListsCurrency(r) /\ Listing(r, favorites') = entries /\ Listing(p, favorites') = entries
    BY <1>0, <1>5, <2>4 DEF ListsCurrency, SameScreen, Listing
  <2>6. Settled(r, favorites')
    BY <2>2, <2>4, <2>5 DEF Settled, SameScreen
  <2> QED BY <2>4, <2>5, <2>6 DEF Refreshes
<1>6. CASE q \in Calculated
  <2>1. LauncherListing(favorites', q) = <<Answer>> \o Fallback
    BY <1>6 DEF LauncherListing
  <2> QED BY <1>1, <1>2, <1>4, <1>5, <1>6, <2>1, ListFacts
<1>7. CASE q \notin Calculated /\ q # Empty /\ found = << >>
  <2>1. LauncherListing(favorites', q) = Fallback
    BY <1>7 DEF LauncherListing
  <2>2. listed \in PaletteState /\ SameScreen(p, listed) /\ listed.conversion = None
        /\ listed.matches = << >>
    BY <1>1, <1>3, <1>7 DEF Shows, SameScreen
  <2> QED BY <1>4, <1>5, <1>7, <2>1, <2>2, ListFacts
<1>8. CASE q \notin Calculated /\ ~ (q # Empty /\ found = << >>)
  <2>1. r = listed
    BY <1>3, <1>4, <1>8 DEF Shows
  <2>2. SameScreen(p, r) /\ r.conversion = None /\ r.mode = "results" /\ r.matches = found
        /\ r.candidates = base /\ (found # << >> => r.selected \in DOMAIN found)
    BY <1>1, <1>3, <2>1 DEF Shows, SameScreen
  <2>3. found = LauncherListing(favorites', q)
    BY <1>8 DEF LauncherListing
  <2>4. ~ ListsCurrency(r) /\ Listing(r, favorites') = found /\ Listing(p, favorites') = found
    BY <1>0, <2>2, <2>3 DEF ListsCurrency, SameScreen, Listing
  <2>5. Settled(r, favorites')
    BY <1>0, <1>8, <2>2, <2>4 DEF Settled, SameScreen
  <2> QED BY <2>2, <2>4, <2>5 DEF Refreshes
<1> QED
  BY <1>6, <1>7, <1>8

LEMMA CategoryFacts ==
  ASSUME NEW q \in Queries, NEW category
  PROVE  InCategory(category, EmojiEntries(q)) \in Seq(Emojis)
BY ListFacts, KeptFacts DEF InCategory

\* The picker lists its category, and its rows are rebuilt.
LEMMA EmojiRefreshed ==
  ASSUME NEW p \in PaletteState, p.surface = "emoji", p.conversion = None,
         NEW entries, entries = InCategory(p.category, EmojiEntries(p.query))
  PROVE  Refreshes(p, RebuiltRows(ReplacedOrdered(p, entries)), favorites')
<1> PICK listed, rows, r : /\ listed = ReplacedOrdered(p, entries)
                           /\ rows = EmojiRows(entries, p.query)
                           /\ r = RebuiltRows(listed)
  OBVIOUS
<1>0. p.query \in Queries
  BY DEF PaletteState
<1>1. entries \in Seq(Emojis) /\ entries \in Seq(Entries) /\ Range(entries) \cap Apps = {}
  <2>1. entries \in Seq(Emojis)
    BY <1>0, CategoryFacts
  <2>2. Range(entries) \subseteq Emojis /\ Emojis \subseteq ListedElsewhere
        /\ ListedElsewhere \subseteq Entries
    BY <2>1, ListFacts DEF Range
  <2> QED BY <2>1, <2>2, Widen, LauncherAssumption
<1>2. Shows(p, listed, entries, entries)
  BY <1>1, OrderedShows
<1>3. listed \in PaletteState /\ listed.matches = entries /\ listed.query = p.query
  BY <1>2 DEF Shows, SameScreen
<1>4. r = [listed EXCEPT !.rows = rows]
  BY <1>3 DEF RebuiltRows
<1>5. rows \in Grids
  BY <1>1, EmojiGrid DEF Grids
<1>6. r \in PaletteState
  BY <1>3, <1>4, <1>5 DEF PaletteState
<1>7. /\ r.surface = listed.surface /\ r.query = listed.query /\ r.filter = listed.filter
      /\ r.category = listed.category /\ r.conversion = listed.conversion
      /\ r.mode = listed.mode /\ r.matches = listed.matches /\ r.selected = listed.selected
      /\ r.rows = rows
  BY <1>3, <1>4 DEF PaletteState
<1>8. SameScreen(p, r) /\ r.conversion = None /\ r.mode = "results" /\ r.matches = entries
      /\ (entries # << >> => r.selected \in DOMAIN entries)
  BY <1>2, <1>6, <1>7 DEF Shows, SameScreen
<1>9. ~ ListsCurrency(r) /\ Listing(r, favorites') = entries /\ Listing(p, favorites') = entries
  BY <1>8 DEF ListsCurrency, SameScreen, Listing
<1>10. Settled(r, favorites')
  BY <1>1, <1>7, <1>8, <1>9 DEF Settled, SameScreen
<1> QED
  BY <1>8, <1>9, <1>10 DEF Refreshes

\* The nearby devices and the history are ranked.
LEMMA ListRefreshed ==
  ASSUME NEW p \in PaletteState, p.conversion = None,
         NEW entries \in Seq(ListedElsewhere),
         \/ p.surface = "nearby" /\ entries = << >>
         \/ p.surface = "clipboard" /\ entries = Clips[p.filter]
  PROVE  Refreshes(p, Replaced(p, entries), favorites')
<1> PICK r, matches : r = Replaced(p, entries) /\ matches = Ranked(favorites', p.query, entries)
  OBVIOUS
<1>1. entries \in Seq(Entries) /\ Range(entries) \cap Apps = {}
  <2>1. Range(entries) \subseteq ListedElsewhere /\ ListedElsewhere \subseteq Entries
    BY ListFacts DEF Range
  <2> QED BY <2>1, Widen, LauncherAssumption
<1>2. Shows(p, r, entries, matches)
  BY <1>1, ReplacedShows
<1>3. Range(matches) \cap Apps = {}
  <2>1. Range(matches) \subseteq Range(entries)
    BY RankedFacts
  <2> QED BY <1>1, <2>1
<1>4. SameScreen(p, r) /\ r.conversion = None /\ r.mode = "results" /\ r.matches = matches
      /\ (matches # << >> => r.selected \in DOMAIN matches)
  BY <1>2 DEF Shows, SameScreen
<1>5. ~ ListsCurrency(r) /\ Listing(r, favorites') = matches /\ Listing(p, favorites') = matches
  BY <1>4 DEF ListsCurrency, SameScreen, Listing
<1>6. Settled(r, favorites')
  BY <1>3, <1>4, <1>5 DEF Settled, SameScreen
<1> QED
  BY <1>4, <1>5, <1>6 DEF Refreshes

\* Away from the launcher and the currencies nothing is converted.
Unconverted(p) == p.surface \in {"clipboard", "emoji", "nearby"} => p.conversion = None

LEMMA RefreshedFacts ==
  ASSUME NEW p \in PaletteState, Unconverted(p)
  PROVE  Refreshes(p, Refreshed(p), favorites')
<1>0. p.surface \in {"launcher", "clipboard", "emoji", "currency", "nearby"} /\ p.filter \in Filters
  BY DEF PaletteState, Surfaces
<1>1. CASE ListsCurrency(p)
  <2>1. Refreshed(p) = RefreshedCurrency(p)
    BY <1>1 DEF Refreshed, ListsCurrency
  <2> QED BY <1>1, <2>1, CurrencyRefreshed
<1>2. CASE p.surface = "launcher" /\ Money[p.query] = None
  <2>1. Refreshed(p) = RefreshedLauncher(p)
    BY <1>2 DEF Refreshed, ListsCurrency
  <2> QED BY <1>2, <2>1, LauncherRefreshed
<1>3. CASE p.surface = "nearby"
  <2>1. Refreshed(p) = Replaced(p, << >>) /\ p.conversion = None
    BY <1>3 DEF Refreshed, ListsCurrency, Unconverted
  <2>2. << >> \in Seq(ListedElsewhere)
    OBVIOUS
  <2> QED BY <1>3, <2>1, <2>2, ListRefreshed
<1>4. CASE p.surface = "clipboard"
  <2>1. Refreshed(p) = Replaced(p, Clips[p.filter]) /\ p.conversion = None
    BY <1>4 DEF Refreshed, ListsCurrency, Unconverted
  <2> QED BY <1>0, <1>4, <2>1, ListRefreshed, ListFacts
<1>5. CASE p.surface = "emoji"
  <2>1. /\ Refreshed(p) = RebuiltRows(ReplacedOrdered(p, InCategory(p.category, EmojiEntries(p.query))))
        /\ p.conversion = None
    BY <1>5 DEF Refreshed, ListsCurrency, Unconverted
  <2> QED BY <1>5, <2>1, EmojiRefreshed
<1> QED
  BY <1>0, <1>1, <1>2, <1>3, <1>4, <1>5 DEF ListsCurrency

-----------------------------------------------------------------------------
(* The handlers.                                                           *)

AskedTyped == asked \in [Conversions -> Nat]
OpenInv == palette \in PaletteState /\ Settled(palette, favorites)
LauncherInv == favorites \subseteq Apps /\ AskedTyped /\ (palette = None \/ OpenInv)

LEMMA AskedGrows ==
  ASSUME AskedTyped, NEW p, asked' = [c \in Conversions |-> asked[c] + Starts(p)[c]]
  PROVE  AskedTyped'
<1>1. ASSUME NEW c \in Conversions PROVE asked[c] + Starts(p)[c] \in Nat
  <2>1. asked[c] \in Nat /\ Starts(p)[c] \in {0, 1}
    BY DEF AskedTyped, Starts
  <2> QED BY <2>1
<1> QED
  BY <1>1 DEF AskedTyped

\* A handler that ends with a refresh.
LEMMA BecomeStep ==
  ASSUME AskedTyped, NEW p \in PaletteState, Unconverted(p), Become(p)
  PROVE  AskedTyped' /\ OpenInv'
<1>1. AskedTyped'
  BY AskedGrows DEF Become
<1>2. palette' \in PaletteState /\ Settled(palette', favorites')
  BY RefreshedFacts DEF Become, Refreshes, SameScreen
<1> QED
  BY <1>1, <1>2 DEF OpenInv

LEMMA SettledUnconverted ==
  ASSUME NEW p, NEW favored, Settled(p, favored)
  PROVE  Unconverted(p)
BY DEF Settled, Unconverted, ListsCurrency

LEMMA WithQueryFacts ==
  ASSUME NEW p \in PaletteState, NEW q \in Queries
  PROVE  LET r == WithQuery(p, q)
         IN  /\ r \in PaletteState /\ r.query = q /\ r.surface = p.surface
             /\ r.conversion = p.conversion
<1> PICK typed, r : typed = [p EXCEPT !.query = q] /\ r = WithQuery(p, q)
  OBVIOUS
<1>1. typed \in PaletteState /\ typed.query = q /\ typed.surface = p.surface
      /\ typed.conversion = p.conversion
  BY DEF PaletteState
<1>2. r = Reranked(typed)
  BY DEF WithQuery
<1>3. Shows(typed, r, typed.candidates, Ranked(favorites', typed.query, typed.candidates))
  BY <1>1, <1>2, RerankedShows
<1> QED
  BY <1>1, <1>3 DEF Shows, SameScreen

\* Entering a surface refreshes it with the old query and then with none.
LEMMA EnterStep ==
  ASSUME AskedTyped, palette \in PaletteState, NEW surface \in Surfaces, Enter(surface),
         surface \in {"clipboard", "emoji", "nearby"} => palette.conversion = None
  PROVE  AskedTyped' /\ OpenInv'
<1> PICK first, between, second :
       /\ first = [palette EXCEPT !.surface = surface, !.popup = FALSE]
       /\ between = Refreshed(first) /\ second = WithQuery(between, Empty)
  OBVIOUS
<1>1. first \in PaletteState /\ first.surface = surface /\ first.conversion = palette.conversion
  BY DEF PaletteState
<1>2. Unconverted(first)
  BY <1>1 DEF Unconverted
<1>3. between \in PaletteState /\ Settled(between, favorites') /\ between.surface = surface
  BY <1>1, <1>2, RefreshedFacts DEF Refreshes, SameScreen
<1>4. second \in PaletteState /\ second.surface = surface /\ second.conversion = between.conversion
  BY <1>3, WithQueryFacts, LauncherAssumption
<1>5. Unconverted(second)
  BY <1>3, <1>4, SettledUnconverted DEF Unconverted
<1>6. /\ palette' = Refreshed(second)
      /\ asked' = [c \in Conversions |-> asked[c] + Starts(first)[c]]
  BY DEF Enter
<1>7. AskedTyped'
  BY <1>6, AskedGrows
<1>8. palette' \in PaletteState /\ Settled(palette', favorites')
  BY <1>4, <1>5, <1>6, RefreshedFacts DEF Refreshes, SameScreen
<1> QED
  BY <1>7, <1>8 DEF OpenInv

LEMMA ClosesStep ==
  ASSUME Closes
  PROVE  AskedTyped' /\ palette' = None
BY DEF Closes, AskedTyped

\* What a list is made from.
LEMMA SameListing ==
  ASSUME NEW p \in PaletteState, NEW r \in PaletteState, NEW favored,
         r.surface = p.surface, r.query = p.query, r.filter = p.filter, r.category = p.category,
         r.conversion = p.conversion, r.answer = p.answer
  PROVE  ListsCurrency(r) = ListsCurrency(p) /\ Listing(r, favored) = Listing(p, favored)
<1>1. ListsCurrency(r) = ListsCurrency(p) /\ Asks(r) = Asks(p)
  BY DEF ListsCurrency, Asks
<1>2. CurrencyEntries(Asked(r)) = CurrencyEntries(Asked(p))
  <2>1. CASE Asks(p)
    <3> PICK a, b : a = Asked(p) /\ b = Asked(r)
      OBVIOUS
    <3>1. a.query = b.query /\ a.answer = "none" /\ b.answer = "none" /\ a.conversion = b.conversion
      BY <1>1, <2>1 DEF Asked, PaletteState
    <3> QED BY <3>1 DEF CurrencyEntries
  <2>2. CASE ~ Asks(p)
    BY <1>1, <2>2 DEF CurrencyEntries, Asked
  <2> QED BY <2>1, <2>2
<1> QED
  BY <1>1, <1>2 DEF Listing

\* Handlers that leave the list as it is.
LEMMA SameListStep ==
  ASSUME OpenInv, palette' \in PaletteState, favorites' = favorites,
         palette'.surface = palette.surface, palette'.query = palette.query,
         palette'.filter = palette.filter, palette'.category = palette.category,
         palette'.conversion = palette.conversion, palette'.answer = palette.answer,
         palette'.candidates = palette.candidates, palette'.matches = palette.matches,
         palette'.rows = palette.rows,
         palette.matches # << >> => palette'.selected \in DOMAIN palette.matches,
         palette'.mode = "actions" => palette'.action \in DOMAIN ActionsOf(SelectedEntry(palette'))
  PROVE  OpenInv'
<1> PICK p, r : p = palette /\ r = palette'
  OBVIOUS
<1>1. /\ p \in PaletteState /\ r \in PaletteState /\ Settled(p, favorites)
      /\ r.surface = p.surface /\ r.query = p.query /\ r.filter = p.filter
      /\ r.category = p.category /\ r.conversion = p.conversion /\ r.answer = p.answer
      /\ r.candidates = p.candidates /\ r.matches = p.matches /\ r.rows = p.rows
      /\ p.matches # << >> => r.selected \in DOMAIN p.matches
      /\ r.mode = "actions" => r.action \in DOMAIN ActionsOf(SelectedEntry(r))
  BY DEF OpenInv
<1>2. ListsCurrency(r) = ListsCurrency(p) /\ Listing(r, favorites) = Listing(p, favorites)
  BY <1>1, SameListing
<1>3. Settled(r, favorites)
  BY <1>1, <1>2 DEF Settled
<1> QED
  BY <1>1, <1>3 DEF OpenInv

Verbs == {"launch", "favorite", "restore", "pin", "remove", "open"}

LEMMA ActionsAreListed ==
  ASSUME NEW e
  PROVE  /\ ActionsOf(e) \in Seq(Verbs)
         /\ \A at \in DOMAIN ActionsOf(e) : ActionsOf(e)[at] = "favorite" => e \in Apps
<1>0. PICK actions : actions = ActionsOf(e)
  OBVIOUS
<1>1. \/ actions = <<"launch", "favorite">> /\ e \in Apps
      \/ actions = <<"restore", "pin", "remove">>
      \/ actions = << >>
      \/ actions = <<"open">>
  BY <1>0 DEF ActionsOf
<1>2. CASE actions = <<"launch", "favorite">> /\ e \in Apps
  <2>1. actions \in Seq(Verbs)
    BY <1>2 DEF Verbs
  <2> QED BY <1>0, <1>2, <2>1
<1>3. CASE actions = <<"restore", "pin", "remove">>
  <2>1. actions \in Seq(Verbs) /\ DOMAIN actions = {1, 2, 3}
    BY <1>3 DEF Verbs
  <2>2. \A at \in {1, 2, 3} : actions[at] # "favorite"
    BY <1>3
  <2> QED BY <1>0, <2>1, <2>2
<1>4. CASE actions = << >>
  BY <1>0, <1>4
<1>5. CASE actions = <<"open">>
  <2>1. actions \in Seq(Verbs) /\ DOMAIN actions = {1} /\ actions[1] # "favorite"
    BY <1>5 DEF Verbs
  <2> QED BY <1>0, <2>1
<1> QED
  BY <1>1, <1>2, <1>3, <1>4, <1>5

LEMMA MovedFacts ==
  ASSUME NEW at \in Nat \ {0}, NEW delta \in Nat \ {0}, NEW length \in Nat
  PROVE  Moved(at, delta, length) \in Nat \ {0} /\ (length > 0 => Moved(at, delta, length) <= length)
<1>1. CASE length = 0
  BY <1>1 DEF Moved
<1>2. CASE length # 0
  <2> PICK step : step = at + delta - 1
    OBVIOUS
  <2>1. step \in Nat /\ ~ at + delta < 1
    OBVIOUS
  <2>2. step % length \in 0..(length - 1)
    BY <1>2, <2>1
  <2>3. Moved(at, delta, length) = (step % length) + 1
    BY <1>2, <2>1 DEF Moved
  <2> QED BY <1>2, <2>2, <2>3
<1> QED
  BY <1>1, <1>2

LEMMA RowsFacts ==
  ASSUME NEW p \in PaletteState, NEW favored, Settled(p, favored)
  PROVE  /\ Rows(p) \in Nat
         /\ p.mode = "results" /\ Rows(p) > 0 => p.selected <= Rows(p)
         /\ p.mode = "actions" => p.action <= Rows(p)
         /\ p.mode = "results" => \A at \in 1..Rows(p) : at \in DOMAIN p.matches
         /\ p.mode = "actions" => \A at \in 1..Rows(p) : at \in DOMAIN ActionsOf(SelectedEntry(p))
         /\ p.mode \in {"results", "actions"} /\ p.selected \in Nat \ {0} /\ p.action \in Nat \ {0}
         /\ p.mode = "results" /\ p.matches # << >> => Rows(p) > 0
<1> PICK actions : actions = ActionsOf(SelectedEntry(p))
  OBVIOUS
<1>1. p.matches \in Seq(Entries) /\ p.mode \in {"results", "actions"}
      /\ p.selected \in Nat \ {0} /\ p.action \in Nat \ {0}
  BY DEF PaletteState, Lists, Modes, Ordinals
<1>2. actions \in Seq(Verbs)
  BY ActionsAreListed
<1>3. /\ Len(p.matches) \in Nat /\ DOMAIN p.matches = 1..Len(p.matches)
      /\ Len(actions) \in Nat /\ DOMAIN actions = 1..Len(actions)
      /\ p.matches # << >> => Len(p.matches) > 0
      /\ Len(p.matches) > 0 => p.matches # << >>
  BY <1>1, <1>2
<1>4. Rows(p) = IF p.mode = "results" THEN Len(p.matches) ELSE Len(actions)
  BY DEF Rows
<1>5. /\ p.matches # << >> => p.selected \in DOMAIN p.matches
      /\ p.mode = "actions" => p.action \in DOMAIN actions
  BY DEF Settled
<1>6. CASE p.mode = "results"
  BY <1>1, <1>3, <1>4, <1>5, <1>6
<1>7. CASE p.mode = "actions"
  BY <1>1, <1>3, <1>4, <1>5, <1>7
<1> QED
  BY <1>1, <1>6, <1>7

\* Putting the selection on a row there is.
LEMMA PointedStep ==
  ASSUME OpenInv, favorites' = favorites, NEW at \in Nat \ {0},
         Rows(palette) > 0 => at <= Rows(palette),
         palette' = IF palette.mode = "results" THEN [palette EXCEPT !.selected = at]
                    ELSE [palette EXCEPT !.action = at]
  PROVE  OpenInv'
<1> PICK p, r : p = palette /\ r = palette'
  OBVIOUS
<1>1. p \in PaletteState /\ Settled(p, favorites) /\ at \in Ordinals
  BY DEF OpenInv, Ordinals
<1>2. r = IF p.mode = "results" THEN [p EXCEPT !.selected = at] ELSE [p EXCEPT !.action = at]
  OBVIOUS
<1>3. r \in PaletteState
  BY <1>1, <1>2 DEF PaletteState
<1>4. /\ r.surface = p.surface /\ r.query = p.query /\ r.filter = p.filter
      /\ r.category = p.category /\ r.conversion = p.conversion /\ r.answer = p.answer
      /\ r.candidates = p.candidates /\ r.matches = p.matches /\ r.rows = p.rows
      /\ r.mode = p.mode
      /\ r.selected = IF p.mode = "results" THEN at ELSE p.selected
      /\ p.mode # "results" => r.action = at
  BY <1>1, <1>2 DEF PaletteState
<1>5. /\ Rows(p) \in Nat
      /\ p.mode = "results" => \A n \in 1..Rows(p) : n \in DOMAIN p.matches
      /\ p.mode = "actions" => \A n \in 1..Rows(p) : n \in DOMAIN ActionsOf(SelectedEntry(p))
      /\ p.mode = "results" /\ p.matches # << >> => Rows(p) > 0
      /\ p.mode = "actions" => p.action <= Rows(p) /\ p.action \in Nat \ {0}
  BY <1>1, RowsFacts
<1>6. p.matches # << >> => r.selected \in DOMAIN p.matches
  <2>1. CASE p.mode = "results"
    BY <1>4, <1>5, <2>1
  <2>2. CASE p.mode # "results"
    BY <1>1, <1>4, <2>2 DEF Settled
  <2> QED BY <2>1, <2>2
<1>7. r.mode = "actions" => r.action \in DOMAIN ActionsOf(SelectedEntry(r))
  <2> HAVE r.mode = "actions"
  <2>1. p.mode = "actions" /\ r.action = at /\ r.selected = p.selected
    BY <1>4
  <2>2. SelectedEntry(r) = SelectedEntry(p)
    BY <1>4, <2>1 DEF SelectedEntry
  <2>3. at \in 1..Rows(p)
    BY <1>5, <2>1
  <2> QED BY <1>5, <2>1, <2>2, <2>3
<1> QED
  BY <1>3, <1>4, <1>6, <1>7, SameListStep

LEMMA OpenStep ==
  ASSUME Open
  PROVE  OpenInv'
<1> PICK base : base = [surface |-> "launcher", query |-> Empty, filter |-> "all",
                        category |-> "all", popup |-> FALSE, candidates |-> Base,
                        matches |-> << >>, selected |-> 1, mode |-> "results", action |-> 1,
                        conversion |-> None, answer |-> "none", rows |-> << >>,
                        arguments |-> [t \in Tools |-> None]]
  OBVIOUS
<1>1. base \in PaletteState
  <2>1. /\ "launcher" \in Surfaces /\ Empty \in Queries /\ "all" \in Filters /\ "all" \in Categories
        /\ 1 \in Ordinals /\ "results" \in Modes /\ None \in Requests /\ "none" \in AnswerKinds
    BY LauncherAssumption DEF Surfaces, Categories, Ordinals, Modes, Requests, AnswerKinds
  <2>2. Base \in Lists /\ << >> \in Lists /\ << >> \in Grids /\ [t \in Tools |-> None] \in Arguments
    BY ListFacts DEF Lists, Grids, Arguments
  <2> QED BY <2>1, <2>2 DEF PaletteState
<1>2. palette' = Reranked(base) /\ favorites' = favorites
  BY DEF Open, Opening
<1> PICK r, found : r = palette' /\ found = Ranked(favorites', Empty, Base)
  OBVIOUS
<1>3. base.query = Empty /\ base.candidates = Base /\ base.surface = "launcher" /\ base.conversion = None
  OBVIOUS
<1>4. Shows(base, r, Base, found)
  BY <1>1, <1>2, <1>3, RerankedShows
<1>5. /\ r \in PaletteState /\ r.surface = "launcher" /\ r.query = Empty /\ r.conversion = None
      /\ r.mode = "results" /\ r.candidates = Base /\ r.matches = found
      /\ found # << >> => r.selected \in DOMAIN found
  BY <1>3, <1>4 DEF Shows, SameScreen
<1>6. /\ Money[Empty] = None /\ Empty \notin Calculated
      /\ Base \o KeywordEntry(Empty) = Base
  BY LauncherAssumption, ListFacts
<1>7. found = Found(favorites', Empty) /\ found = LauncherListing(favorites', Empty)
  BY <1>6 DEF Found, LauncherListing
<1>8. ~ ListsCurrency(r) /\ Listing(r, favorites') = found
  BY <1>5, <1>6, <1>7 DEF ListsCurrency, Listing
<1>9. Settled(r, favorites')
  BY <1>5, <1>6, <1>7, <1>8 DEF Settled
<1> QED
  BY <1>5, <1>9 DEF OpenInv

LEMMA PopupStep ==
  ASSUME OpenInv, TogglePopup
  PROVE  OpenInv'
<1> PICK p, r : p = palette /\ r = palette'
  OBVIOUS
<1>1. p \in PaletteState /\ Settled(p, favorites) /\ r = [p EXCEPT !.popup = ~@] /\ favorites' = favorites
  BY DEF OpenInv, TogglePopup
<1>2. r \in PaletteState
  <2>1. (~p.popup) \in BOOLEAN
    OBVIOUS
  <2> QED BY <1>1, <2>1 DEF PaletteState
<1>3. /\ r.surface = p.surface /\ r.query = p.query /\ r.filter = p.filter
      /\ r.category = p.category /\ r.conversion = p.conversion /\ r.answer = p.answer
      /\ r.candidates = p.candidates /\ r.matches = p.matches /\ r.rows = p.rows
      /\ r.selected = p.selected /\ r.mode = p.mode /\ r.action = p.action
  BY <1>1 DEF PaletteState
<1>4. SelectedEntry(r) = SelectedEntry(p)
  BY <1>3 DEF SelectedEntry
<1>5. /\ p.matches # << >> => r.selected \in DOMAIN p.matches
      /\ r.mode = "actions" => r.action \in DOMAIN ActionsOf(SelectedEntry(r))
  BY <1>1, <1>3, <1>4 DEF Settled
<1> QED
  BY <1>1, <1>2, <1>3, <1>5, SameListStep

LEMMA MoveStep ==
  ASSUME OpenInv, NEW down \in BOOLEAN, MoveSelection(down)
  PROVE  OpenInv'
<1> DEFINE step == IF palette.surface = "emoji" /\ palette.mode = "results" THEN Columns ELSE 1
           To(at) == IF down THEN Moved(at, step, Rows(palette))
                     ELSE IF Rows(palette) = 0 THEN at
                     ELSE IF at <= step THEN Rows(palette) ELSE at - step
           from == IF palette.mode = "results" THEN palette.selected ELSE palette.action
<1>1. palette \in PaletteState /\ Settled(palette, favorites)
  BY DEF OpenInv
<1>2. /\ Rows(palette) \in Nat /\ from \in Nat \ {0}
      /\ Rows(palette) > 0 => from <= Rows(palette)
  BY <1>1, RowsFacts
<1>3. step \in Nat \ {0}
  BY LauncherAssumption
<1>4. /\ favorites' = favorites
      /\ palette' = IF palette.mode = "results" THEN [palette EXCEPT !.selected = To(palette.selected)]
                     ELSE [palette EXCEPT !.action = To(palette.action)]
  BY DEF MoveSelection
<1> HIDE DEF step, from
<1>5. To(from) \in Nat \ {0} /\ (Rows(palette) > 0 => To(from) <= Rows(palette))
  <2>1. CASE down
    BY <1>2, <1>3, <2>1, MovedFacts
  <2>2. CASE ~down
    BY <1>2, <1>3, <2>2
  <2> QED BY <2>1, <2>2
<1> HIDE DEF To
<1> PICK at : at = To(from)
  OBVIOUS
<1>6. palette' = IF palette.mode = "results" THEN [palette EXCEPT !.selected = at]
                 ELSE [palette EXCEPT !.action = at]
  BY <1>4 DEF from
<1> QED
  BY <1>4, <1>5, <1>6, PointedStep

LEMMA ClickStep ==
  ASSUME OpenInv, NEW row \in 1..Rows(palette), Click(row)
  PROVE  OpenInv'
<1>1. Rows(palette) \in Nat
  BY RowsFacts DEF OpenInv
<1>2. row \in Nat \ {0} /\ row <= Rows(palette)
  BY <1>1
<1>3. /\ favorites' = favorites
      /\ palette' = IF palette.mode = "results" THEN [palette EXCEPT !.selected = row]
                     ELSE [palette EXCEPT !.action = row]
  BY DEF Click
<1> QED
  BY <1>2, <1>3, PointedStep

\* Opening the actions of the selected entry and closing them.
LEMMA ModeStep ==
  ASSUME OpenInv, favorites' = favorites, NEW mode \in {"results", "actions"},
         palette' = [palette EXCEPT !.mode = mode, !.action = 1],
         mode = "actions" => ActionsOf(SelectedEntry(palette)) # << >>
  PROVE  OpenInv'
<1> PICK p, r : p = palette /\ r = palette'
  OBVIOUS
<1>1. p \in PaletteState /\ Settled(p, favorites) /\ mode \in Modes /\ 1 \in Ordinals
  BY DEF OpenInv, Modes, Ordinals
<1>2. r = [p EXCEPT !.mode = mode, !.action = 1]
  OBVIOUS
<1>3. r \in PaletteState
  BY <1>1, <1>2 DEF PaletteState
<1>4. /\ r.surface = p.surface /\ r.query = p.query /\ r.filter = p.filter
      /\ r.category = p.category /\ r.conversion = p.conversion /\ r.answer = p.answer
      /\ r.candidates = p.candidates /\ r.matches = p.matches /\ r.rows = p.rows
      /\ r.selected = p.selected /\ r.mode = mode /\ r.action = 1
  BY <1>1, <1>2 DEF PaletteState
<1>5. SelectedEntry(r) = SelectedEntry(p)
  BY <1>4 DEF SelectedEntry
<1>6. /\ p.matches # << >> => r.selected \in DOMAIN p.matches
      /\ r.mode = "actions" => r.action \in DOMAIN ActionsOf(SelectedEntry(r))
  <2>1. ActionsOf(SelectedEntry(p)) # << >> => 1 \in DOMAIN ActionsOf(SelectedEntry(p))
    BY ActionsAreListed, FirstOfList
  <2> QED BY <1>1, <1>4, <1>5, <2>1 DEF Settled
<1> QED
  BY <1>3, <1>4, <1>6, SameListStep

\* A surface is opened from where nothing is being converted.
LEMMA OpenSurfaceStep ==
  ASSUME AskedTyped, OpenInv, OpenSurface
  PROVE  AskedTyped' /\ OpenInv' /\ favorites' = favorites
<1> PICK e, surface : e = SelectedEntry(palette) /\ surface = OpensSurface[e]
  OBVIOUS
<1>1. /\ e \in {"clipboard", "nearby", "currency", "emoji"} /\ surface \in Surfaces
      /\ Enter(surface) /\ favorites' = favorites
  BY DEF OpenSurface, OpensSurface, Surfaces
<1>2. e # None /\ e \in Range(palette.matches)
  <2>1. e # None
    BY DEF OpenSurface, CanInvoke, Invoked
  <2> QED BY <2>1 DEF SelectedEntry, Range
<1>3. palette.conversion = None
  <2> SUFFICES ASSUME palette.conversion # None PROVE FALSE
    OBVIOUS
  <2>1. ListsCurrency(palette) /\ Money[palette.query] # None
    BY DEF OpenInv, Settled
  <2>2. palette.matches = CurrencyEntries(Asked(palette))
    BY <2>1 DEF OpenInv, Settled, Listing
  <2>3. e \in CurrencyOnly
    BY <1>2, <2>2, CurrencyRange DEF Range
  <2> QED BY <1>1, <2>3 DEF CurrencyOnly, Loading, Converted
<1>4. AskedTyped' /\ OpenInv'
  BY <1>1, <1>3, EnterStep DEF OpenInv
<1> QED
  BY <1>1, <1>4

LEMMA FoundFacts ==
  ASSUME NEW q \in Queries, NEW favored, NEW other
  PROVE  Found(favored, q) \in Seq(Entries) /\ Range(Found(favored, q)) = Range(Found(other, q))
<1>0. PICK base : base = Base \o KeywordEntry(q)
  OBVIOUS
<1>1. base \in Seq(Entries)
  BY <1>0, ListFacts
<1>2. ASSUME NEW some
      PROVE  /\ Ranked(some, q, base) \in Seq(Entries)
             /\ Range(Ranked(some, q, base)) =
                   IF q = Empty THEN Range(base) ELSE Range(base) \cap (Prefixed[q] \cup Fuzzy[q])
  BY <1>1, RankedFacts
<1> QED
  BY <1>0, <1>2 DEF Found

\* An application stays found when it becomes a favourite or is one no more.
LEMMA FavoriteStep ==
  ASSUME LauncherInv, palette # None, ToggleFavorite
  PROVE  OpenInv' /\ favorites' \subseteq Apps
<1> PICK p, r, e : p = palette /\ r = palette' /\ e = SelectedEntry(palette)
  OBVIOUS
<1>1. /\ p \in PaletteState /\ Settled(p, favorites) /\ favorites \subseteq Apps
      /\ r = Reranked(p)
      /\ favorites' = IF e \in favorites THEN favorites \ {e} ELSE favorites \cup {e}
  BY DEF LauncherInv, OpenInv, ToggleFavorite
<1>2. e \in Apps /\ e \in Range(p.matches)
  <2> PICK actions, at : /\ actions = ActionsOf(e)
                         /\ at = IF palette.mode = "results" THEN 1 ELSE palette.action
    OBVIOUS
  <2>1. Invoked = "favorite" /\ Invoked # None
    BY DEF ToggleFavorite, CanInvoke
  <2>2. e # None /\ at \in DOMAIN actions /\ actions[at] = "favorite"
    BY <2>1 DEF Invoked
  <2>3. e \in Apps
    BY <2>2, ActionsAreListed
  <2> QED BY <2>2, <2>3 DEF SelectedEntry, Range
<1>3. /\ p.surface = "launcher" /\ Money[p.query] = None /\ p.query \notin Calculated
      /\ p.candidates = Base \o KeywordEntry(p.query) /\ p.matches = Found(favorites, p.query)
      /\ p.conversion = None
  BY <1>1, <1>2 DEF Settled, ListsCurrency
<1> PICK found : found = Found(favorites', p.query)
  OBVIOUS
<1>4. Shows(p, r, p.candidates, found)
  BY <1>1, <1>3, RerankedShows DEF Found
<1>5. Range(found) = Range(p.matches) /\ found \in Seq(Entries)
  <2>1. p.query \in Queries
    BY <1>1 DEF PaletteState
  <2> QED BY <1>3, <2>1, FoundFacts
<1>6. found # << >>
  BY <1>2, <1>5, EmptySequence
<1>7. /\ r \in PaletteState /\ r.surface = "launcher" /\ r.query = p.query /\ r.conversion = None
      /\ r.mode = "results" /\ r.candidates = p.candidates /\ r.matches = found
      /\ r.selected \in DOMAIN found
  BY <1>3, <1>4, <1>6 DEF Shows, SameScreen
<1>8. ~ ListsCurrency(r) /\ Listing(r, favorites') = found
  BY <1>3, <1>6, <1>7 DEF ListsCurrency, Listing, LauncherListing
<1>9. Settled(r, favorites')
  BY <1>3, <1>7, <1>8 DEF Settled
<1> QED
  BY <1>1, <1>2, <1>7, <1>9 DEF OpenInv

LEMMA AnswerStep ==
  ASSUME AskedTyped, OpenInv, NEW c \in Conversions, CurrencyAnswer(c)
  PROVE  AskedTyped' /\ OpenInv' /\ favorites' = favorites
<1>1. AskedTyped'
  <2>1. asked[c] \in Nat /\ asked[c] > 0
    BY DEF AskedTyped, CurrencyAnswer
  <2>2. asked[c] - 1 \in Nat
    BY <2>1
  <2> QED BY <2>2 DEF AskedTyped, CurrencyAnswer
<1>2. favorites' = favorites
  BY DEF CurrencyAnswer
<1> PICK p, r : p = palette /\ r = palette'
  OBVIOUS
<1>3. p \in PaletteState /\ Settled(p, favorites)
  BY DEF OpenInv
<1>4. CASE ~ Wanted(p, c)
  <2>1. r = p
    BY <1>4 DEF CurrencyAnswer
  <2> QED BY <1>1, <1>2, <1>3, <2>1 DEF OpenInv
<1>5. CASE Wanted(p, c)
  <2>1. PICK answer \in {"value", "error"} :
           r = ShowCurrency([p EXCEPT !.conversion = c, !.answer = answer])
    BY <1>5 DEF CurrencyAnswer
  <2> PICK known, entries : /\ known = [p EXCEPT !.conversion = c, !.answer = answer]
                            /\ entries = CurrencyEntries(known)
    OBVIOUS
  <2>2. p.conversion = c /\ c # None
    BY <1>5 DEF Wanted, Conversions
  <2>3. ListsCurrency(p) /\ Money[p.query] = c
    BY <1>3, <2>2 DEF Settled
  <2>4. known \in PaletteState
    <3>1. c \in Requests /\ answer \in AnswerKinds
      BY DEF Requests, AnswerKinds
    <3> QED BY <1>3, <3>1 DEF PaletteState
  <2>5. /\ known.surface = p.surface /\ known.query = p.query /\ known.filter = p.filter
        /\ known.category = p.category /\ known.conversion = c
    BY <1>3 DEF PaletteState
  <2>6. entries \in Seq(Entries) /\ Range(entries) \cap Apps = {}
    <3>1. entries \in Seq(ListedElsewhere) /\ ListedElsewhere \subseteq Entries
      BY ListFacts
    <3>2. Range(entries) \subseteq ListedElsewhere
      BY <3>1 DEF Range
    <3> QED BY <3>1, <3>2, Widen, LauncherAssumption
  <2>7. Shows(known, r, entries, entries)
    BY <2>1, <2>4, <2>6, OrderedShows DEF ShowCurrency
  <2>8. /\ r \in PaletteState /\ r.surface = p.surface /\ r.query = p.query
        /\ r.conversion = c /\ r.answer = known.answer /\ r.mode = "results" /\ r.matches = entries
        /\ entries # << >> => r.selected \in DOMAIN entries
    BY <2>5, <2>7 DEF Shows, SameScreen
  <2>9. ListsCurrency(r) /\ Money[r.query] = c /\ Asked(r) = r
    BY <2>3, <2>8 DEF ListsCurrency, Asked, Asks
  <2>10. CurrencyEntries(r) = entries
    BY <2>5, <2>8 DEF CurrencyEntries
  <2>11. Listing(r, favorites') = entries
    BY <2>2, <2>9, <2>10 DEF Listing
  <2>12. r.surface # "emoji"
    BY <2>9 DEF ListsCurrency
  <2>13. Settled(r, favorites')
    BY <2>6, <2>8, <2>9, <2>11, <2>12 DEF Settled
  <2> QED BY <1>1, <1>2, <2>8, <2>13 DEF OpenInv
<1> QED
  BY <1>4, <1>5

LEMMA LauncherStep ==
  ASSUME LauncherInv, LauncherNext
  PROVE  LauncherInv'
<1>1. favorites \subseteq Apps /\ AskedTyped /\ (palette # None => OpenInv)
  BY DEF LauncherInv
<1>2. asked' = asked => AskedTyped'
  BY <1>1 DEF AskedTyped
<1>3. OpenInv => /\ palette \in PaletteState /\ Unconverted(palette)
                 /\ palette.surface \in Surfaces /\ palette.query \in Queries
  BY SettledUnconverted DEF OpenInv, PaletteState
<1>4. CASE Open
  BY <1>1, <1>2, <1>4, OpenStep DEF LauncherInv, Open
<1>5. ASSUME NEW q \in Queries, Type(q)
      PROVE  LauncherInv'
  <2>1. OpenInv /\ favorites' = favorites /\ Become(WithQuery(palette, q))
    BY <1>1, <1>5 DEF Type, IsOpen
  <2> PICK typed : typed = WithQuery(palette, q)
    OBVIOUS
  <2>2. typed \in PaletteState /\ typed.surface = palette.surface
        /\ typed.conversion = palette.conversion
    BY <1>3, <2>1, WithQueryFacts
  <2>3. Unconverted(typed)
    BY <1>3, <2>1, <2>2 DEF Unconverted
  <2>4. AskedTyped' /\ OpenInv'
    BY <1>1, <2>1, <2>2, <2>3, BecomeStep
  <2> QED BY <1>1, <2>1, <2>4 DEF LauncherInv
\* Back to the launcher, from where nothing has to hold.
<1>6. ASSUME OpenInv, favorites' = favorites, Enter("launcher")
      PROVE  LauncherInv'
  <2>1. AskedTyped' /\ OpenInv'
    BY <1>1, <1>3, <1>6, EnterStep DEF Surfaces
  <2> QED BY <1>1, <1>6, <2>1 DEF LauncherInv
<1>7. CASE Back
  BY <1>1, <1>6, <1>7 DEF Back, IsOpen
<1>8. CASE TogglePopup
  <2>1. OpenInv /\ favorites' = favorites /\ asked' = asked
    BY <1>1, <1>8 DEF TogglePopup, IsOpen
  <2> QED BY <1>1, <1>2, <1>8, <2>1, PopupStep DEF LauncherInv
<1>9. ASSUME NEW f \in Filters, ChooseFilter(f)
      PROVE  LauncherInv'
  <2>1. OpenInv /\ favorites' = favorites /\ palette.surface = "clipboard"
    BY <1>1, <1>9 DEF ChooseFilter, IsOpen
  <2>2. PICK popup \in BOOLEAN : Become([palette EXCEPT !.filter = f, !.popup = popup])
    BY <1>9 DEF ChooseFilter
  <2> PICK chosen : chosen = [palette EXCEPT !.filter = f, !.popup = popup]
    OBVIOUS
  <2>3. chosen \in PaletteState /\ chosen.surface = palette.surface
        /\ chosen.conversion = palette.conversion
    BY <1>3, <2>1 DEF PaletteState
  <2>4. Unconverted(chosen)
    BY <1>3, <2>1, <2>3 DEF Unconverted
  <2>5. AskedTyped' /\ OpenInv'
    BY <1>1, <2>2, <2>3, <2>4, BecomeStep
  <2> QED BY <1>1, <2>1, <2>5 DEF LauncherInv
<1>10. ASSUME NEW c \in Categories, ChooseCategory(c)
       PROVE  LauncherInv'
  <2>1. OpenInv /\ favorites' = favorites
        /\ Become([palette EXCEPT !.category = c, !.popup = FALSE])
    BY <1>1, <1>10 DEF ChooseCategory, IsOpen
  <2> PICK chosen : chosen = [palette EXCEPT !.category = c, !.popup = FALSE]
    OBVIOUS
  <2>2. chosen \in PaletteState /\ chosen.surface = palette.surface
        /\ chosen.conversion = palette.conversion
    BY <1>3, <2>1 DEF PaletteState
  <2>3. Unconverted(chosen)
    BY <1>3, <2>1, <2>2 DEF Unconverted
  <2>4. AskedTyped' /\ OpenInv'
    BY <1>1, <2>1, <2>2, <2>3, BecomeStep
  <2> QED BY <1>1, <2>1, <2>4 DEF LauncherInv
<1>11. ASSUME NEW down \in BOOLEAN, MoveSelection(down)
       PROVE  LauncherInv'
  <2>1. OpenInv /\ favorites' = favorites /\ asked' = asked
    BY <1>1, <1>11 DEF MoveSelection, KeysReachList, IsOpen
  <2> QED BY <1>1, <1>2, <1>11, <2>1, MoveStep DEF LauncherInv
<1>12. ASSUME IsOpen, NEW row \in 1..Rows(palette), Click(row)
       PROVE  LauncherInv'
  <2>1. OpenInv /\ favorites' = favorites /\ asked' = asked
    BY <1>1, <1>12 DEF Click, IsOpen
  <2> QED BY <1>1, <1>2, <1>12, <2>1, ClickStep DEF LauncherInv
<1>13. CASE OpenActions
  <2>1. /\ OpenInv /\ favorites' = favorites /\ asked' = asked
        /\ ActionsOf(SelectedEntry(palette)) # << >>
        /\ palette' = [palette EXCEPT !.mode = "actions", !.action = 1]
    BY <1>1, <1>13 DEF OpenActions, KeysReachList, IsOpen
  <2>2. OpenInv'
    BY <2>1, ModeStep
  <2> QED BY <1>1, <1>2, <2>1, <2>2 DEF LauncherInv
<1>14. CASE Escape
  <2>0. OpenInv
    BY <1>1, <1>14 DEF Escape, KeysReachList, IsOpen
  <2>1. CASE palette.mode = "actions"
    <3>1. favorites' = favorites /\ asked' = asked
          /\ palette' = [palette EXCEPT !.mode = "results", !.action = 1]
      BY <1>14, <2>1 DEF Escape
    <3>2. OpenInv'
      BY <2>0, <3>1, ModeStep
    <3> QED BY <1>1, <1>2, <3>1, <3>2 DEF LauncherInv
  <2>2. CASE palette.mode # "actions" /\ LeavesSurface(palette)
    BY <1>6, <1>14, <2>0, <2>2 DEF Escape
  <2>3. CASE palette.mode # "actions" /\ ~ LeavesSurface(palette) /\ palette.query # Empty
    <3>1. favorites' = favorites /\ Become(WithQuery(palette, Empty))
      BY <1>14, <2>3 DEF Escape
    <3> PICK typed : typed = WithQuery(palette, Empty)
      OBVIOUS
    <3>2. typed \in PaletteState /\ typed.surface = palette.surface
          /\ typed.conversion = palette.conversion
      BY <1>3, <2>0, WithQueryFacts, LauncherAssumption
    <3>3. Unconverted(typed)
      BY <1>3, <2>0, <3>2 DEF Unconverted
    <3>4. AskedTyped' /\ OpenInv'
      BY <1>1, <3>1, <3>2, <3>3, BecomeStep
    <3> QED BY <1>1, <3>1, <3>4 DEF LauncherInv
  <2>4. CASE palette.mode # "actions" /\ ~ LeavesSurface(palette) /\ palette.query = Empty
    <3>1. favorites' = favorites /\ Closes
      BY <1>14, <2>4 DEF Escape
    <3> QED BY <1>1, <3>1, ClosesStep DEF LauncherInv
  <2> QED BY <2>1, <2>2, <2>3, <2>4
<1>15. CASE OpenSurface
  <2>1. OpenInv
    BY <1>1, <1>15 DEF OpenSurface, CanInvoke, IsOpen
  <2> QED BY <1>1, <1>15, <2>1, OpenSurfaceStep DEF LauncherInv
<1>16. CASE ToggleFavorite
  <2>1. palette # None /\ asked' = asked
    BY <1>16 DEF ToggleFavorite, CanInvoke, IsOpen
  <2> QED BY <1>2, <1>16, <2>1, FavoriteStep DEF LauncherInv
<1>17. CASE Leave
  <2>1. favorites' = favorites /\ Closes
    BY <1>17 DEF Leave
  <2> QED BY <1>1, <2>1, ClosesStep DEF LauncherInv
<1>18. CASE ChangeHistory
  <2>1. OpenInv /\ favorites' = favorites /\ Become(palette)
    BY <1>1, <1>18 DEF ChangeHistory, CanInvoke, IsOpen
  <2>2. AskedTyped' /\ OpenInv'
    BY <1>1, <1>3, <2>1, BecomeStep
  <2> QED BY <1>1, <2>1, <2>2 DEF LauncherInv
<1>19. ASSUME NEW c \in Conversions, CurrencyAnswer(c)
       PROVE  LauncherInv'
  <2>1. OpenInv
    BY <1>1, <1>19 DEF CurrencyAnswer, IsOpen
  <2> QED BY <1>1, <1>19, <2>1, AnswerStep DEF LauncherInv
<1> QED
  BY <1>4, <1>5, <1>7, <1>8, <1>9, <1>10, <1>11, <1>12, <1>13, <1>14, <1>15, <1>16, <1>17,
     <1>18, <1>19 DEF LauncherNext

LEMMA LauncherInvariant == LauncherSpec => []LauncherInv
<1>1. LauncherInit => LauncherInv
  BY LauncherAssumption DEF LauncherInit, LauncherInv, AskedTyped
<1>2. LauncherInv /\ [LauncherNext]_launcherVars => LauncherInv'
  <2> SUFFICES ASSUME LauncherInv, [LauncherNext]_launcherVars PROVE LauncherInv'
    OBVIOUS
  <2>1. CASE LauncherNext
    BY <2>1, LauncherStep
  <2>2. CASE UNCHANGED launcherVars
    BY <2>2 DEF launcherVars, LauncherInv, AskedTyped, OpenInv
  <2> QED BY <2>1, <2>2
<1> QED
  BY <1>1, <1>2, PTL DEF LauncherSpec

\* The palette's variables keep their types, and what it lists comes from the lists
\* of the constants: the entries of the catalogues, of the history and of the stores.
THEOREM LauncherTypeCorrect == LauncherSpec => []LauncherTypeOK
<1>1. LauncherInv => LauncherTypeOK
  <2> SUFFICES ASSUME LauncherInv PROVE LauncherTypeOK
    OBVIOUS
  <2>1. CASE palette = None
    BY <2>1 DEF LauncherInv, LauncherTypeOK, AskedTyped
  <2>2. CASE palette # None
    <3>1. palette \in PaletteState
      BY <2>2 DEF LauncherInv, OpenInv
    <3>2. /\ palette.surface \in Surfaces /\ palette.query \in Queries
          /\ palette.filter \in Filters /\ palette.category \in Categories
          /\ palette.popup \in BOOLEAN /\ palette.mode \in {"results", "actions"}
          /\ palette.candidates \in Seq(Entries) /\ palette.matches \in Seq(Entries)
          /\ palette.selected \in Nat \ {0} /\ palette.action \in Nat \ {0}
          /\ palette.conversion \in Conversions \cup {None}
          /\ palette.answer \in {"none", "value", "error"} /\ palette.rows \in Seq(Seq(Nat))
      BY <3>1 DEF PaletteState, Lists, Ordinals, Grids, Modes, Requests, AnswerKinds
    <3>3. Range(palette.candidates) \cup Range(palette.matches) \subseteq Entries
      BY <3>2 DEF Range
    <3>4. UNION {Range(palette.rows[r]) : r \in DOMAIN palette.rows} \subseteq Nat
      <4>1. ASSUME NEW r \in DOMAIN palette.rows PROVE Range(palette.rows[r]) \subseteq Nat
        <5>1. palette.rows[r] \in Seq(Nat)
          BY <3>2
        <5> QED BY <5>1 DEF Range
      <4> QED BY <4>1
    <3> QED BY <3>2, <3>3, <3>4 DEF LauncherInv, LauncherTypeOK, AskedTyped
  <2> QED BY <2>1, <2>2
<1> QED
  BY <1>1, LauncherInvariant, PTL

\* Whatever list an answer, a favourite or a refresh puts in place of the one the
\* keys were moving in, the selected row and the selected action exist, and the
\* picker's grid shows the selected entry in exactly one row
\* (PaletteModel::move_selection, replace_entries, build_emoji_rows).
THEOREM SelectionStaysInRange == LauncherSpec => []SelectionInRange
<1>1. LauncherInv => SelectionInRange
  <2> SUFFICES ASSUME LauncherInv, palette # None
               PROVE  /\ palette.matches # << >> => palette.selected \in DOMAIN palette.matches
                      /\ palette.mode = "actions" =>
                            palette.action \in DOMAIN ActionsOf(SelectedEntry(palette))
                      /\ palette.surface = "emoji" /\ palette.matches # << >> =>
                            \E row \in DOMAIN palette.rows : RowOf(palette) = {row}
    BY DEF SelectionInRange
  <2>1. Settled(palette, favorites)
    BY DEF LauncherInv, OpenInv
  <2>2. ASSUME palette.surface = "emoji", palette.matches # << >>
        PROVE  \E row \in DOMAIN palette.rows : RowOf(palette) = {row}
    <3>1. /\ palette.matches \in Seq(Emojis) /\ palette.selected \in DOMAIN palette.matches
          /\ palette.rows = EmojiRows(palette.matches, palette.query)
      BY <2>1, <2>2 DEF Settled
    <3>2. HeldOnce(palette.rows, palette.selected)
      BY <3>1, EmojiGrid
    <3>3. RowOf(palette) = Holding(palette.rows, palette.selected)
          /\ Holding(palette.rows, palette.selected) \subseteq DOMAIN palette.rows
      BY DEF RowOf, Holding
    <3> QED BY <3>2, <3>3 DEF HeldOnce
  <2> QED BY <2>1, <2>2 DEF Settled
<1> QED
  BY <1>1, LauncherInvariant, PTL

\* What is listed after any handler or answer is what a refresh would list: a late
\* answer to another query, a favourite or a surface that was left never leave the
\* list of something else behind (refresh_results, show_currency_result).
THEOREM ListIsCurrent == LauncherSpec => ShownIsCurrent
<1>1. LauncherInv' => (palette' # None => Refreshed(palette').matches = palette'.matches)
  <2> SUFFICES ASSUME LauncherInv', palette' # None
               PROVE  Refreshed(palette').matches = palette'.matches
    OBVIOUS
  <2> PICK p : p = palette'
    OBVIOUS
  <2>1. p \in PaletteState /\ Settled(p, favorites')
    BY DEF LauncherInv, OpenInv
  <2>2. Unconverted(p)
    BY <2>1, SettledUnconverted
  <2>3. Refreshed(p).matches = Listing(p, favorites')
    BY <2>1, <2>2, RefreshedFacts DEF Refreshes
  <2> QED BY <2>1, <2>3 DEF Settled
<1> QED
  BY <1>1, LauncherInvariant, PTL DEF ShownIsCurrent

-----------------------------------------------------------------------------
(* Commands of the application catalogue: split_exec.                     *)

\* The characters of commands.
Letters == STRING \cup {"\"", "\\", " ", "%"}
Words == Seq(Letters)
SplitStates == [arguments : Seq(Words), current : Words, quoted : BOOLEAN, escaped : BOOLEAN]

LEMMA OneWord == \A c \in Letters : <<c>> \in Words
BY DEF Words

LEMMA PushedType ==
  ASSUME NEW arguments \in Seq(Words), NEW word \in Words
  PROVE  Pushed(arguments, word) \in Seq(Words)
<1>1. <<"%">> \in Words
  <2>1. "%" \in Letters
    BY DEF Letters
  <2> QED BY <2>1, OneWord
<1>2. \A w \in Words : Append(arguments, w) \in Seq(Words)
  OBVIOUS
<1> QED
  BY <1>1, <1>2 DEF Pushed

LEMMA SplitStepType ==
  ASSUME NEW s \in SplitStates, NEW c \in Letters
  PROVE  SplitStep(s, c) \in SplitStates
<1>1. Append(s.current, c) \in Words /\ << >> \in Words
  BY DEF SplitStates, Words
<1>2. Pushed(s.arguments, s.current) \in Seq(Words)
  BY PushedType DEF SplitStates
<1> QED
  BY <1>1, <1>2 DEF SplitStates, SplitStep

\* split_exec goes through a text from its first character to its last.
SplitUpTo(at, s, text) ==
    /\ at \in [0..Len(text) -> SplitStates] /\ at[0] = s
    /\ \A k \in 1..Len(text) : at[k] = SplitStep(at[k - 1], text[k])
Splits(s, text, t) == \E at : SplitUpTo(at, s, text) /\ at[Len(text)] = t

LEMMA SplitsNothing ==
  ASSUME NEW s \in SplitStates
  PROVE  Splits(s, << >>, s)
<1> DEFINE at == [k \in 0..0 |-> s]
<1>1. at \in [0..0 -> SplitStates] /\ at[0] = s /\ 1..0 = {} /\ Len(<< >>) = 0
  OBVIOUS
<1> HIDE DEF at
<1>2. SplitUpTo(at, s, << >>)
  BY <1>1 DEF SplitUpTo
<1> QED
  BY <1>1, <1>2 DEF Splits

LEMMA SplitsOne ==
  ASSUME NEW s \in SplitStates, NEW c \in Letters
  PROVE  Splits(s, <<c>>, SplitStep(s, c))
<1> DEFINE text == <<c>>
           at == [k \in 0..1 |-> IF k = 0 THEN s ELSE SplitStep(s, c)]
<1>1. Len(text) = 1 /\ text[1] = c
  OBVIOUS
<1>2. at \in [0..1 -> SplitStates] /\ at[0] = s /\ at[1] = SplitStep(s, c)
  BY SplitStepType
<1> HIDE DEF at, text
<1>3. \A k \in 1..1 : k = 1 /\ k - 1 = 0
  OBVIOUS
<1>4. SplitUpTo(at, s, text)
  BY <1>1, <1>2, <1>3 DEF SplitUpTo
<1>5. Splits(s, text, SplitStep(s, c))
  BY <1>1, <1>2, <1>4 DEF Splits
<1> QED
  BY <1>5 DEF text

\* One text after another.
LEMMA SplitsJoined ==
  ASSUME NEW s \in SplitStates, NEW a \in Words, NEW b \in Words, NEW t, NEW u,
         Splits(s, a, t), Splits(t, b, u)
  PROVE  Splits(s, a \o b, u) /\ t \in SplitStates /\ u \in SplitStates
<1> DEFINE c == a \o b
<1>1. /\ c \in Words /\ Len(c) = Len(a) + Len(b) /\ Len(a) \in Nat /\ Len(b) \in Nat
      /\ \A i \in 1..Len(a) : c[i] = a[i]
      /\ \A i \in 1..Len(b) : c[Len(a) + i] = b[i]
  BY JoinedAt DEF Words
<1> HIDE DEF c
<1>2. PICK f : SplitUpTo(f, s, a) /\ f[Len(a)] = t
  BY DEF Splits
<1>3. PICK g : SplitUpTo(g, t, b) /\ g[Len(b)] = u
  BY DEF Splits
<1>4. f \in [0..Len(a) -> SplitStates] /\ g \in [0..Len(b) -> SplitStates] /\ f[0] = s /\ g[0] = t
  BY <1>2, <1>3 DEF SplitUpTo
<1> DEFINE h == [k \in 0..Len(c) |-> IF k <= Len(a) THEN f[k] ELSE g[k - Len(a)]]
<1>5. ASSUME NEW k \in 0..Len(c) PROVE h[k] \in SplitStates
  <2>1. CASE k <= Len(a)
    <3>1. k \in 0..Len(a)
      BY <1>1, <2>1
    <3> QED BY <1>4, <2>1, <3>1
  <2>2. CASE ~(k <= Len(a))
    <3>1. k - Len(a) \in 0..Len(b)
      BY <1>1, <2>2
    <3> QED BY <1>4, <2>2, <3>1
  <2> QED BY <2>1, <2>2
<1>6. h \in [0..Len(c) -> SplitStates]
  BY <1>5
<1>7. h[0] = s
  BY <1>1, <1>4
<1>8. h[Len(c)] = u
  <2>1. CASE Len(b) = 0
    BY <1>1, <1>2, <1>3, <1>4, <2>1
  <2>2. CASE Len(b) # 0
    <3>1. Len(c) \in 0..Len(c) /\ ~(Len(c) <= Len(a)) /\ Len(c) - Len(a) = Len(b)
      BY <1>1, <2>2
    <3> QED BY <1>3, <3>1
  <2> QED BY <2>1, <2>2
<1>9. ASSUME NEW k \in 1..Len(c) PROVE h[k] = SplitStep(h[k - 1], c[k])
  <2>1. k \in 0..Len(c) /\ k - 1 \in 0..Len(c)
    BY <1>1
  <2>2. CASE k <= Len(a)
    <3>1. k \in 1..Len(a) /\ k - 1 <= Len(a)
      BY <1>1, <2>2
    <3>2. h[k] = f[k] /\ h[k - 1] = f[k - 1] /\ c[k] = a[k]
      BY <1>1, <2>1, <2>2, <3>1
    <3>3. f[k] = SplitStep(f[k - 1], a[k])
      BY <1>2, <3>1 DEF SplitUpTo
    <3> QED BY <3>2, <3>3
  <2>3. CASE ~(k <= Len(a))
    <3>1. /\ k - Len(a) \in 1..Len(b) /\ Len(a) + (k - Len(a)) = k
          /\ (k - 1) - Len(a) = (k - Len(a)) - 1
      BY <1>1, <2>3
    <3>2. h[k] = g[k - Len(a)] /\ c[k] = b[k - Len(a)]
      BY <1>1, <2>1, <2>3, <3>1
    <3>3. h[k - 1] = g[(k - Len(a)) - 1]
      <4>1. CASE k - 1 <= Len(a)
        <5>1. k - 1 = Len(a) /\ (k - Len(a)) - 1 = 0
          BY <1>1, <2>3, <4>1
        <5> QED BY <1>2, <1>4, <2>1, <4>1, <5>1
      <4>2. CASE ~(k - 1 <= Len(a))
        BY <2>1, <3>1, <4>2
      <4> QED BY <4>1, <4>2
    <3>4. g[k - Len(a)] = SplitStep(g[(k - Len(a)) - 1], b[k - Len(a)])
      BY <1>3, <3>1 DEF SplitUpTo
    <3> QED BY <3>2, <3>3, <3>4
  <2> QED BY <2>2, <2>3
<1>10. t \in SplitStates /\ u \in SplitStates
  <2>1. Len(a) \in 0..Len(a) /\ Len(b) \in 0..Len(b)
    BY <1>1
  <2> QED BY <1>2, <1>3, <1>4, <2>1
<1> HIDE DEF h
<1>11. SplitUpTo(h, s, c)
  BY <1>6, <1>7, <1>9 DEF SplitUpTo
<1>12. Splits(s, c, u)
  BY <1>8, <1>11 DEF Splits
<1> QED
  BY <1>10, <1>12 DEF c

\* What it has found when it is through is what split_exec works with.
Outcome(s) ==
    LET all == IF s.current = << >> THEN s.arguments ELSE Pushed(s.arguments, s.current)
    IN  IF s.quoted \/ s.escaped \/ all = << >> THEN NoValue ELSE all

LEMMA SplitLast ==
  ASSUME NEW text \in Words, NEW t, Splits(NothingSplit, text, t)
  PROVE  SplitExec(text) = Outcome(t)
<1> DEFINE last == Len(text)
           Recurs(f) == f = [n \in 0..Len(text) |->
                                IF n = 0 THEN NothingSplit ELSE SplitStep(f[n - 1], text[n])]
           split == CHOOSE f : Recurs(f)
<1>1. last \in Nat
  BY DEF Words
<1>2. PICK at : SplitUpTo(at, NothingSplit, text) /\ at[last] = t
  BY DEF Splits
<1>3. ASSUME NEW n \in 0..last
      PROVE  at[n] = IF n = 0 THEN NothingSplit ELSE SplitStep(at[n - 1], text[n])
  <2>1. n = 0 \/ n \in 1..last
    BY <1>1
  <2> QED BY <1>2, <2>1 DEF SplitUpTo
<1>4. Recurs(at)
  BY <1>2, <1>3 DEF SplitUpTo
<1>5. Recurs(split)
  BY <1>4
<1>6. SplitExec(text) = Outcome(split[last])
  BY DEF SplitExec, Outcome
<1> HIDE DEF split
<1> DEFINE S == {n \in 0..last : split[n] = at[n]}
<1>7. 0 \in S
  BY <1>1, <1>3, <1>5
<1>8. ASSUME NEW n \in 1..last, n - 1 \in S
      PROVE  n \in S
  <2>1. n \in 0..last /\ n # 0 /\ split[n - 1] = at[n - 1]
    BY <1>1, <1>8
  <2>2. split[n] = SplitStep(split[n - 1], text[n])
    BY <1>5, <2>1
  <2> QED BY <1>3, <2>1, <2>2
<1>9. 0..last \subseteq S
  <2> HIDE DEF S
  <2> QED BY <1>1, <1>7, <1>8, Induction
<1>10. split[last] = t
  BY <1>1, <1>2, <1>9
<1> QED
  BY <1>6, <1>10

\* A character of a quoted word, with a backslash if it needs one.
Escaped(c) == IF c \in {"\"", "\\"} THEN <<"\\", c>> ELSE <<c>>

LEMMA EscapedType ==
  ASSUME NEW c \in Letters
  PROVE  Escaped(c) \in Words
<1>1. "\\" \in Letters
  BY DEF Letters
<1>2. <<"\\", c>> \in Seq(Letters) /\ <<c>> \in Seq(Letters)
  <2> DEFINE b == "\\"
  <2> HIDE DEF b
  <2>1. b \in Letters
    BY <1>1 DEF b
  <2>2. <<b, c>> \in Seq(Letters) /\ <<c>> \in Seq(Letters)
    BY <2>1
  <2> QED BY <2>2 DEF b
<1> QED
  BY <1>2 DEF Escaped, Words

LEMMA WordsJoin == \A a, b \in Words : a \o b \in Words
BY ConcatProperties DEF Words

LEMMA TwoLetters ==
  ASSUME NEW T, NEW b \in T, NEW c \in T
  PROVE  <<b>> \o <<c>> = <<b, c>>
<1> DEFINE l == <<b>> \o <<c>>
           r == <<b, c>>
<1>1. <<b>> \in Seq(T) /\ <<c>> \in Seq(T) /\ Len(<<b>>) = 1 /\ Len(<<c>>) = 1
      /\ <<b>>[1] = b /\ <<c>>[1] = c
  OBVIOUS
<1>2. l \in Seq(T) /\ Len(l) = 2 /\ l[1] = b /\ l[2] = c
  BY <1>1, JoinedAt
<1>3. r \in Seq(T) /\ Len(r) = 2 /\ r[1] = b /\ r[2] = c
  OBVIOUS
<1> HIDE DEF l, r
<1>4. l \in [1..2 -> T] /\ r \in [1..2 -> T] /\ \A i \in 1..2 : l[i] = r[i]
  BY <1>2, <1>3
<1>5. l = r
  BY <1>4
<1> QED
  BY <1>5 DEF l, r

LEMMA SplitsCharacter ==
  ASSUME NEW s \in SplitStates, s.quoted, ~s.escaped, NEW c \in Letters
  PROVE  Splits(s, Escaped(c), [s EXCEPT !.current = Append(@, c)])
<1> DEFINE t == [s EXCEPT !.current = Append(@, c)]
<1>1. CASE c \in {"\"", "\\"}
  <2> DEFINE m == [s EXCEPT !.escaped = TRUE]
  <2>1. "\\" \in Letters /\ <<"\\">> \in Words /\ <<c>> \in Words
    <3>1. "\\" \in Letters
      BY DEF Letters
    <3> QED BY <3>1, OneWord
  <2>2. SplitStep(s, "\\") = m /\ m \in SplitStates
    BY DEF SplitStep, SplitStates
  <2>3. SplitStep(m, c) = t
    BY DEF SplitStep, SplitStates
  <2>4. Splits(s, <<"\\">>, m) /\ Splits(m, <<c>>, t)
    BY <2>1, <2>2, <2>3, SplitsOne
  <2>5. Splits(s, <<"\\">> \o <<c>>, t)
    <3> HIDE DEF t, m
    <3> QED BY <2>1, <2>4, SplitsJoined
  <2>6. <<"\\">> \o <<c>> = <<"\\", c>>
    <3>1. "\\" \in Letters
      BY DEF Letters
    <3> QED BY <3>1, TwoLetters
  <2> QED BY <1>1, <2>5, <2>6 DEF Escaped
<1>2. CASE c \notin {"\"", "\\"}
  <2>1. SplitStep(s, c) = t
    BY <1>2 DEF SplitStep, SplitStates
  <2>2. Splits(s, <<c>>, t)
    BY <2>1, SplitsOne
  <2> QED BY <1>2, <2>2 DEF Escaped
<1> QED
  BY <1>1, <1>2

LEMMA QuotedIs ==
  ASSUME NEW word \in Words
  PROVE  LET body == FlattenSeq([i \in DOMAIN word |-> Escaped(word[i])])
         IN  Quoted(word) = <<"\"">> \o body \o <<"\"">>
BY DEF Quoted, Escaped

\* The first n of a sequence, and one more.
LEMMA OneMore ==
  ASSUME NEW T, NEW t \in Seq(T), NEW n \in 1..Len(t)
  PROVE  /\ SubSeq(t, 1, n - 1) \in Seq(T)
         /\ SubSeq(t, 1, n) = Append(SubSeq(t, 1, n - 1), t[n])
<1>1. n \in Nat /\ n - 1 \in Nat /\ n <= Len(t) /\ Len(t) \in Nat
  OBVIOUS
<1>2. /\ SubSeq(t, 1, n - 1) \in Seq(T) /\ Len(SubSeq(t, 1, n - 1)) = n - 1
      /\ SubSeq(t, 1, n) \in Seq(T) /\ Len(SubSeq(t, 1, n)) = n
      /\ \A i \in 1..n : SubSeq(t, 1, n)[i] = t[i]
      /\ \A i \in 1..(n - 1) : SubSeq(t, 1, n - 1)[i] = t[i]
  BY <1>1
<1> DEFINE a == SubSeq(t, 1, n - 1)
           b == SubSeq(t, 1, n)
<1> HIDE DEF a, b
<1>3. b \in [1..n -> T] /\ Append(a, t[n]) \in [1..n -> T]
  <2>1. t[n] \in T
    OBVIOUS
  <2>2. Append(a, t[n]) \in Seq(T) /\ Len(Append(a, t[n])) = n
    BY <1>1, <1>2, <2>1 DEF a
  <2>3. b \in [1..n -> T]
    <3>1. b \in Seq(T) /\ Len(b) = n
      BY <1>2 DEF b
    <3> QED BY <3>1
  <2>4. Append(a, t[n]) \in [1..n -> T]
    <3> DEFINE c == Append(a, t[n])
    <3> HIDE DEF c
    <3>1. c \in Seq(T) /\ Len(c) = n
      BY <2>2 DEF c
    <3>2. c \in [1..n -> T]
      BY <3>1
    <3> QED BY <3>2 DEF c
  <2> QED BY <2>3, <2>4
<1>4. ASSUME NEW i \in 1..n PROVE b[i] = Append(a, t[n])[i]
  <2>1. CASE i = n
    BY <1>1, <1>2, <2>1 DEF a, b
  <2>2. CASE i # n
    <3>1. i \in 1..(n - 1)
      BY <1>1, <2>2
    <3> QED BY <1>1, <1>2, <3>1 DEF a, b
  <2> QED BY <2>1, <2>2
<1>5. b = Append(a, t[n])
  BY <1>3, <1>4
<1> QED
  BY <1>2, <1>5 DEF a, b

\* Between two words: nothing is open.
BetweenWords(s) == s \in SplitStates /\ ~s.quoted /\ ~s.escaped /\ s.current = << >>

LEMMA SplitsQuoted ==
  ASSUME NEW s, BetweenWords(s), NEW word \in Words
  PROVE  Splits(s, Quoted(word), [s EXCEPT !.current = word]) /\ Quoted(word) \in Words
<1> DEFINE open == [s EXCEPT !.quoted = TRUE]
           written == [i \in DOMAIN word |-> Escaped(word[i])]
           body == FlattenSeq(written)
           Inside(i) == [open EXCEPT !.current = SubSeq(word, 1, i)]
           last == Len(word)
<1>1. last \in Nat /\ DOMAIN word = 1..last /\ \A i \in 1..last : word[i] \in Letters
  BY DEF Words
<1>2. "\"" \in Letters /\ <<"\"">> \in Words
  <2>1. "\"" \in Letters
    BY DEF Letters
  <2> QED BY <2>1, OneWord
<1>3. written \in Seq(Words) /\ Len(written) = last
  <2>1. \A i \in 1..last : Escaped(word[i]) \in Words
    BY <1>1, EscapedType
  <2>2. written \in [1..last -> Words]
    BY <1>1, <2>1
  <2> QED BY <1>1, <2>2
<1>4. SplitStep(s, "\"") = open /\ open \in SplitStates /\ open.quoted /\ ~open.escaped
  BY DEF SplitStep, BetweenWords, SplitStates
<1>5. ASSUME NEW i \in 0..last
      PROVE  /\ SubSeq(word, 1, i) \in Words
             /\ Inside(i) \in SplitStates /\ Inside(i).quoted /\ ~Inside(i).escaped
  <2>1. SubSeq(word, 1, i) \in Words
    BY <1>1, SubSeqProperties DEF Words
  <2> QED BY <1>4, <2>1 DEF SplitStates
<1>6. PICK at : JoinedUp(at, Letters, written, body)
  <2>1. written \in Seq(Seq(Letters))
    BY <1>3 DEF Words
  <2> HIDE DEF written
  <2> QED BY <2>1, FlattenLast
<1>7. /\ at \in [0..last -> Words] /\ at[0] = << >> /\ body = at[last]
      /\ \A k \in 1..last : at[k] = at[k - 1] \o Escaped(word[k])
  <2>1. \A k \in 1..last : written[k] = Escaped(word[k])
    BY <1>1
  <2> HIDE DEF written, body
  <2> QED BY <1>3, <1>6, <2>1 DEF JoinedUp, Words
<1> HIDE DEF written, body
<1> DEFINE S == {i \in 0..last : Splits(open, at[i], Inside(i))}
<1>8. 0 \in S
  <2>1. SubSeq(word, 1, 0) = << >>
    BY <1>1 DEF Words
  <2>2. Inside(0) = open
    BY <1>4, <2>1 DEF BetweenWords, SplitStates
  <2>3. Splits(open, at[0], Inside(0))
    <3> HIDE DEF open, Inside
    <3> QED BY <1>4, <1>7, <2>2, SplitsNothing
  <2> QED BY <1>1, <2>3
<1>9. ASSUME NEW i \in 1..last, i - 1 \in S PROVE i \in S
  <2>1. i - 1 \in 0..last /\ i \in 0..last /\ Splits(open, at[i - 1], Inside(i - 1))
    BY <1>1, <1>9
  <2>2. SubSeq(word, 1, i) = Append(SubSeq(word, 1, i - 1), word[i])
    BY <1>1, OneMore DEF Words
  <2>3. [Inside(i - 1) EXCEPT !.current = Append(@, word[i])] = Inside(i)
    BY <1>4, <2>1, <2>2 DEF SplitStates
  <2>4. Splits(Inside(i - 1), Escaped(word[i]), Inside(i))
    <3>1. Splits(Inside(i - 1), Escaped(word[i]), [Inside(i - 1) EXCEPT !.current = Append(@, word[i])])
      BY <1>1, <1>5, <2>1, SplitsCharacter
    <3> QED BY <2>3, <3>1
  <2>5. at[i - 1] \in Words /\ Escaped(word[i]) \in Words
    BY <1>1, <1>7, <2>1, EscapedType
  <2>6. Splits(open, at[i - 1] \o Escaped(word[i]), Inside(i))
    <3> HIDE DEF open, Inside
    <3> QED BY <1>4, <2>1, <2>4, <2>5, SplitsJoined
  <2> QED BY <1>7, <2>1, <2>6
<1>10. Splits(open, body, Inside(last))
  <2>1. 0..last \subseteq S
    <3> HIDE DEF S
    <3> QED BY <1>1, <1>8, <1>9, Induction
  <2>2. last \in S
    <3>1. last \in 0..last
      BY <1>1
    <3> HIDE DEF S
    <3> QED BY <2>1, <3>1
  <2> QED BY <1>7, <2>2
<1>11. body \in Words
  BY <1>1, <1>7
<1>12. Splits(s, <<"\"">>, open)
  BY <1>2, <1>4, SplitsOne DEF BetweenWords
<1>13. Splits(Inside(last), <<"\"">>, [s EXCEPT !.current = word])
  <2>1. SubSeq(word, 1, last) = word
    BY <1>1 DEF Words
  <2>2. SplitStep(Inside(last), "\"") = [s EXCEPT !.current = word]
    BY <1>4, <2>1 DEF SplitStep, BetweenWords, SplitStates
  <2>3. Inside(last) \in SplitStates
    <3>1. last \in 0..last
      BY <1>1
    <3> HIDE DEF Inside
    <3> QED BY <1>5, <3>1
  <2>4. Splits(Inside(last), <<"\"">>, SplitStep(Inside(last), "\""))
    <3> HIDE DEF Inside
    <3> QED BY <1>2, <2>3, SplitsOne
  <2> HIDE DEF Inside
  <2> QED BY <2>2, <2>4
<1>14. Splits(s, (<<"\"">> \o body) \o <<"\"">>, [s EXCEPT !.current = word])
  <2>1. s \in SplitStates
    BY DEF BetweenWords
  <2>2. <<"\"">> \o body \in Words
    BY <1>2, <1>11, WordsJoin
  <2> DEFINE t == [s EXCEPT !.current = word]
             quote == <<"\"">>
  <2> HIDE DEF open, Inside, t, quote
  <2>3. Splits(s, quote \o body, Inside(last))
    BY <1>2, <1>4, <1>10, <1>11, <1>12, <2>1, SplitsJoined DEF quote
  <2>4. Splits(s, (quote \o body) \o quote, t)
    BY <1>2, <1>13, <2>1, <2>2, <2>3, SplitsJoined DEF quote, t
  <2> QED BY <2>4 DEF quote, t
<1>15. Quoted(word) = (<<"\"">> \o body) \o <<"\"">>
  BY QuotedIs DEF body, written
<1>16. (<<"\"">> \o body) \o <<"\"">> \in Words
  <2>1. <<"\"">> \o body \in Words
    BY <1>2, <1>11, WordsJoin
  <2> QED BY <1>2, <2>1, WordsJoin
<1> QED
  BY <1>14, <1>15, <1>16

\* The words of a command that are kept of one word.
Part(word) == IF "%" \in Range(word) THEN << >> ELSE <<word>>

LEMMA SplitsWord ==
  ASSUME NEW s, BetweenWords(s), NEW word \in Words, word # << >>, word # <<"%", "%">>
  PROVE  LET t == [s EXCEPT !.arguments = @ \o Part(word)]
         IN  /\ Splits(s, Quoted(word) \o <<" ">>, t) /\ BetweenWords(t)
             /\ Quoted(word) \o <<" ">> \in Words
<1> DEFINE t == [s EXCEPT !.arguments = @ \o Part(word)]
           m == [s EXCEPT !.current = word]
<1>1. /\ s \in SplitStates /\ ~s.quoted /\ ~s.escaped /\ s.current = << >>
      /\ s.arguments \in Seq(Words)
  BY DEF BetweenWords, SplitStates
<1>2. " " \in Letters /\ <<" ">> \in Words
  <2>1. " " \in Letters
    BY DEF Letters
  <2> QED BY <2>1, OneWord
<1>3. Pushed(s.arguments, word) = s.arguments \o Part(word)
  <2>1. s.arguments \o << >> = s.arguments /\ s.arguments \o <<word>> = Append(s.arguments, word)
    BY <1>1
  <2> QED BY <2>1 DEF Pushed, Part
<1>4. SplitStep(m, " ") = t
  BY <1>1, <1>3 DEF SplitStep, SplitStates
<1>5. m \in SplitStates /\ t \in SplitStates
  <2>1. m \in SplitStates
    BY <1>1 DEF SplitStates
  <2>2. Pushed(s.arguments, word) \in Seq(Words)
    BY <1>1, PushedType
  <2> QED BY <1>1, <1>3, <2>1, <2>2 DEF SplitStates
<1>6. BetweenWords(t)
  BY <1>1, <1>5 DEF BetweenWords, SplitStates
<1>7. Splits(s, Quoted(word), m) /\ Quoted(word) \in Words
  BY SplitsQuoted
<1>8. Splits(m, <<" ">>, t)
  <2>1. Splits(m, <<" ">>, SplitStep(m, " "))
    <3> HIDE DEF m
    <3> QED BY <1>2, <1>5, SplitsOne
  <2> QED BY <1>4, <2>1
<1>9. Splits(s, Quoted(word) \o <<" ">>, t)
  <2> HIDE DEF m, t
  <2> QED BY <1>1, <1>2, <1>7, <1>8, SplitsJoined
<1>10. Quoted(word) \o <<" ">> \in Words
  BY <1>2, <1>7, WordsJoin
<1> QED
  BY <1>6, <1>9, <1>10

\* After a command line split_exec has every word without a field code.
LEMMA SplitsLine ==
  ASSUME NEW words \in Seq(Words),
         \A i \in DOMAIN words : words[i] # << >> /\ words[i] # <<"%", "%">>
  PROVE  /\ CommandLine(words) \in Words /\ WithoutFieldCodes(words) \in Seq(Words)
         /\ Splits(NothingSplit, CommandLine(words),
                   [NothingSplit EXCEPT !.arguments = WithoutFieldCodes(words)])
         /\ (\E i \in DOMAIN words : "%" \notin Range(words[i]))
               => WithoutFieldCodes(words) # << >>
<1> DEFINE last == Len(words)
           lines == [i \in DOMAIN words |-> Quoted(words[i]) \o <<" ">>]
           parts == [i \in DOMAIN words |-> Part(words[i])]
           line == CommandLine(words)
           kept == WithoutFieldCodes(words)
           After(list) == [NothingSplit EXCEPT !.arguments = list]
<1>1. last \in Nat /\ DOMAIN words = 1..last /\ \A i \in 1..last : words[i] \in Words
  OBVIOUS
<1>2. ASSUME NEW list \in Seq(Words)
      PROVE  BetweenWords(After(list)) /\ After(list).arguments = list /\ After(list) \in SplitStates
  <2>1. << >> \in Words
    BY DEF Words
  <2> QED BY <1>2, <2>1 DEF BetweenWords, NothingSplit, SplitStates
<1>3. BetweenWords(NothingSplit) /\ NothingSplit \in SplitStates /\ NothingSplit = After(<< >>)
  <2>1. << >> \in Seq(Words)
    OBVIOUS
  <2>2. NothingSplit = After(<< >>)
    BY DEF NothingSplit
  <2> HIDE DEF After
  <2> QED BY <1>2, <2>1, <2>2
<1>4. lines \in Seq(Words) /\ Len(lines) = last /\ line = FlattenSeq(lines)
      /\ \A i \in 1..last : lines[i] = Quoted(words[i]) \o <<" ">>
  <2>1. \A i \in 1..last : Quoted(words[i]) \o <<" ">> \in Words
    BY <1>1, <1>3, SplitsWord
  <2>2. lines \in [1..last -> Words]
    BY <1>1, <2>1
  <2>3. line = FlattenSeq(lines)
    BY DEF CommandLine
  <2>4. lines \in Seq(Words) /\ Len(lines) = last
    <3> HIDE DEF lines
    <3> QED BY <1>1, <2>2
  <2> QED BY <1>1, <2>3, <2>4
<1>5. parts \in Seq(Seq(Words)) /\ Len(parts) = last /\ kept = FlattenSeq(parts)
      /\ \A i \in 1..last : parts[i] = Part(words[i])
  <2>1. \A i \in 1..last : Part(words[i]) \in Seq(Words)
    BY <1>1 DEF Part
  <2>2. parts \in [1..last -> Seq(Words)]
    BY <1>1, <2>1
  <2>3. kept = FlattenSeq(parts)
    BY DEF WithoutFieldCodes, Part
  <2>4. parts \in Seq(Seq(Words)) /\ Len(parts) = last
    <3> HIDE DEF parts
    <3> QED BY <1>1, <2>2
  <2> QED BY <1>1, <2>3, <2>4
<1> HIDE DEF lines, parts, line, kept
<1>6. PICK at : JoinedUp(at, Letters, lines, line)
  BY <1>4, FlattenLast DEF Words
<1>7. PICK so : JoinedUp(so, Words, parts, kept)
  BY <1>5, FlattenLast
<1>8. /\ at \in [0..last -> Words] /\ at[0] = << >> /\ line = at[last]
      /\ \A k \in 1..last : at[k] = at[k - 1] \o lines[k]
  BY <1>4, <1>6 DEF JoinedUp, Words
<1>9. /\ so \in [0..last -> Seq(Words)] /\ so[0] = << >> /\ kept = so[last]
      /\ \A k \in 1..last : so[k] = so[k - 1] \o parts[k]
  BY <1>5, <1>7 DEF JoinedUp
<1> DEFINE S == {k \in 0..last :
                    /\ Splits(NothingSplit, at[k], After(so[k]))
                    /\ \A i \in 1..k : "%" \notin Range(words[i]) => so[k] # << >>}
<1>10. 0 \in S
  <2>1. Splits(NothingSplit, << >>, NothingSplit)
    BY <1>3, SplitsNothing DEF BetweenWords
  <2>2. Splits(NothingSplit, at[0], After(so[0]))
    BY <1>3, <1>8, <1>9, <2>1
  <2> QED BY <1>1, <2>2
<1>11. ASSUME NEW k \in 1..last, k - 1 \in S PROVE k \in S
  <2> DEFINE s == After(so[k - 1])
             word == words[k]
             t == [s EXCEPT !.arguments = @ \o Part(word)]
  <2>1. k - 1 \in 0..last /\ k \in 0..last /\ Splits(NothingSplit, at[k - 1], s)
    BY <1>1, <1>11
  <2>2. so[k - 1] \in Seq(Words) /\ at[k - 1] \in Words
    BY <1>8, <1>9, <2>1
  <2>3. word \in Words /\ word # << >> /\ word # <<"%", "%">>
    BY <1>1
  <2>4. BetweenWords(s) /\ s.arguments = so[k - 1]
    BY <1>2, <2>2
  <2>5. Splits(s, Quoted(word) \o <<" ">>, t) /\ Quoted(word) \o <<" ">> \in Words
    <3> HIDE DEF s, word
    <3> QED BY <2>3, <2>4, SplitsWord
  <2>6. t = After(so[k])
    <3>1. so[k] = so[k - 1] \o Part(word)
      BY <1>1, <1>5, <1>9
    <3>2. t = [NothingSplit EXCEPT !.arguments = so[k - 1] \o Part(word)]
      BY <2>4 DEF NothingSplit
    <3> QED BY <3>1, <3>2
  <2>7. Splits(NothingSplit, at[k], After(so[k]))
    <3>1. at[k] = at[k - 1] \o (Quoted(word) \o <<" ">>)
      BY <1>1, <1>4, <1>8
    <3>2. NothingSplit \in SplitStates
      BY <1>3 DEF BetweenWords
    <3> HIDE DEF s, word, t, After
    <3> QED BY <2>1, <2>2, <2>5, <2>6, <3>1, <3>2, SplitsJoined
  <2>8. ASSUME NEW i \in 1..k, "%" \notin Range(words[i]) PROVE so[k] # << >>
    <3>0. Part(word) \in Seq(Words)
      <4> HIDE DEF word
      <4> QED BY <2>3 DEF Part
    <3>1. so[k] = so[k - 1] \o Part(word) /\ Part(word) \in Seq(Words)
      BY <1>5, <1>9, <3>0
    <3>2. Len(so[k]) = Len(so[k - 1]) + Len(Part(word))
      BY <2>2, <3>1
    <3>3. Len(so[k - 1]) \in Nat /\ Len(Part(word)) \in Nat
      BY <2>2, <3>1
    <3>4. CASE i = k
      <4>1. Part(word) = <<word>>
        BY <2>8, <3>4 DEF Part
      <4>2. Len(Part(word)) = 1
        BY <4>1
      <4> QED BY <3>2, <3>3, <4>2
    <3>5. CASE i # k
      <4>1. i \in 1..(k - 1)
        BY <1>1, <3>5
      <4>2. so[k - 1] # << >>
        BY <1>11, <2>8, <4>1
      <4>3. Len(so[k - 1]) # 0
        BY <2>2, <4>2
      <4>4. Len(so[k]) # 0
        <5>1. \A m, n \in Nat : m # 0 => m + n # 0
          OBVIOUS
        <5> HIDE DEF s, word, t, S, After
        <5> QED BY <3>2, <3>3, <4>3, <5>1
      <4> QED BY <4>4
    <3> QED BY <3>4, <3>5
  <2> QED BY <2>1, <2>7, <2>8
<1>12. last \in S
  <2>1. last \in 0..last
    BY <1>1
  <2> HIDE DEF S
  <2>2. 0..last \subseteq S
    BY <1>1, <1>10, <1>11, Induction
  <2> QED BY <2>1, <2>2
<1>13. line \in Words /\ kept \in Seq(Words) /\ Splits(NothingSplit, line, After(kept))
  <2>1. last \in 0..last
    BY <1>1
  <2> QED BY <1>8, <1>9, <1>12, <2>1
<1>14. (\E i \in DOMAIN words : "%" \notin Range(words[i])) => kept # << >>
  BY <1>1, <1>9, <1>12
<1> QED
  BY <1>13, <1>14 DEF line, kept

\* A command runs with the words it was written with.
LEMMA RunsAsWritten == RunAsWritten
<1> SUFFICES ASSUME NEW words \in Commands
             PROVE  SplitExec(CommandLine(words)) = WithoutFieldCodes(words)
  BY DEF RunAsWritten
<1>1. /\ words \in Seq(Seq(STRING))
      /\ \A i \in DOMAIN words : words[i] # << >> /\ words[i] # <<"%", "%">>
      /\ \E i \in DOMAIN words : "%" \notin Range(words[i])
  BY CommandsAssumption
<1>2. words \in Seq(Words)
  <2>1. \A c \in STRING : c \in Letters
    BY DEF Letters
  <2>2. ASSUME NEW w \in Seq(STRING) PROVE w \in Words
    <3>1. Len(w) \in Nat /\ DOMAIN w = 1..Len(w) /\ w \in [1..Len(w) -> STRING]
      OBVIOUS
    <3>2. w \in [1..Len(w) -> Letters]
      BY <2>1, <3>1
    <3> QED BY <3>1, <3>2 DEF Words
  <2>3. Len(words) \in Nat /\ \A i \in 1..Len(words) : words[i] \in Words
    BY <1>1, <2>2
  <2>4. words \in [1..Len(words) -> Words]
    BY <1>1, <2>3
  <2> QED BY <2>3, <2>4
<1> DEFINE kept == WithoutFieldCodes(words)
           t == [NothingSplit EXCEPT !.arguments = kept]
<1>3. CommandLine(words) \in Words /\ Splits(NothingSplit, CommandLine(words), t)
      /\ kept # << >>
  BY <1>1, <1>2, SplitsLine
<1>4. SplitExec(CommandLine(words)) = Outcome(t)
  <2> HIDE DEF t
  <2> QED BY <1>3, SplitLast
<1>5. Outcome(t) = kept
  BY <1>3 DEF Outcome, NothingSplit
<1> QED
  BY <1>4, <1>5

-----------------------------------------------------------------------------
(* Icons of the application catalogue: index_linux_icons.                 *)

Themes == 1..Len(IconRoots)
AllIcons == UNION Range(IconRoots)
FoundIcons == [IconKeys -> AllIcons \cup {NoValue}]

LEMMA ThemeFacts ==
  /\ Len(IconRoots) \in Nat /\ DOMAIN IconRoots = Themes
  /\ \A r \in Themes : IconRoots[r] \in Range(IconRoots) /\ IconRoots[r] \subseteq AllIcons
  /\ \A r \in Themes : IsFiniteSet(IconRoots[r])
  /\ \A i \in AllIcons : i # NoValue /\ i.size \in Nat /\ IconKey(i.name) \in IconKeys
<1>1. IconRoots \in Seq(Range(IconRoots))
  BY CatalogueAssumption
<1>2. Len(IconRoots) \in Nat /\ DOMAIN IconRoots = Themes
  BY <1>1 DEF Themes
<1>3. \A r \in Themes : IconRoots[r] \in Range(IconRoots)
  BY <1>2 DEF Range
<1>4. \A i \in AllIcons : i # NoValue /\ i.size \in Nat
  BY CatalogueAssumption DEF AllIcons
<1>5. \A i \in AllIcons : IconKey(i.name) \in IconKeys
  BY DEF AllIcons, IconKeys
<1>6. \A r \in Themes : IsFiniteSet(IconRoots[r])
  BY <1>3, CatalogueAssumption
<1> QED
  BY <1>2, <1>3, <1>4, <1>5, <1>6 DEF AllIcons

\* An icon that is as good as another: larger, or as large and of no later theme.
\* In seen are the icons that have been read, each with its theme.
Covers(found, seen, r, i) ==
    LET best == found[IconKey(i.name)]
    IN  /\ best # NoValue /\ i.size <= best.size
        /\ i.size = best.size => \E q \in Themes : q <= r /\ <<q, best>> \in seen

\* What indexing has found among the icons it has seen.
IndexFits(found, seen) ==
    /\ found \in FoundIcons
    /\ \A key \in IconKeys : found[key] # NoValue => IconKey(found[key].name) = key
    /\ \A key \in IconKeys : found[key] # NoValue => \E q \in Themes : <<q, found[key]>> \in seen
    /\ \A r \in Themes, i \in AllIcons :
          <<r, i>> \in seen /\ i.format # "svg" => Covers(found, seen, r, i)

LEMMA IndexOne ==
  ASSUME NEW found, NEW seen, IndexFits(found, seen), NEW r \in Themes, NEW i \in IconRoots[r],
         \A q \in Themes, j \in AllIcons : <<q, j>> \in seen => q <= r
  PROVE  IndexFits(WithFile(found, i), seen \cup {<<r, i>>})
<1> DEFINE key == IconKey(i.name)
           more == seen \cup {<<r, i>>}
           next == WithFile(found, i)
<1>1. i \in AllIcons /\ i # NoValue /\ i.size \in Nat /\ key \in IconKeys
  BY ThemeFacts
<1>2. found \in FoundIcons /\ found[key] \in AllIcons \cup {NoValue}
  BY <1>1 DEF IndexFits, FoundIcons
<1>3. CASE i.format = "svg" \/ (found[key] # NoValue /\ i.size <= found[key].size)
  <2>1. next = found
    BY <1>3 DEF WithFile
  <2>2. i.format # "svg" => Covers(found, more, r, i)
    <3>1. SUFFICES ASSUME i.format # "svg" PROVE Covers(found, more, r, i)
      OBVIOUS
    <3>2. found[key] # NoValue /\ i.size <= found[key].size
      BY <1>3, <3>1
    <3>3. PICK q \in Themes : <<q, found[key]>> \in seen
      BY <1>1, <3>2 DEF IndexFits
    <3>4. q <= r
      BY <1>2, <3>2, <3>3
    <3> QED BY <3>2, <3>3, <3>4 DEF Covers
  <2>3. ASSUME NEW p \in Themes, NEW j \in AllIcons, <<p, j>> \in more, j.format # "svg"
        PROVE  Covers(found, more, p, j)
    <3>1. CASE <<p, j>> = <<r, i>>
      <4>1. p = r /\ j = i
        BY <3>1
      <4> QED BY <2>2, <2>3, <4>1
    <3>2. CASE <<p, j>> \in seen
      BY <2>3, <3>2 DEF IndexFits, Covers
    <3> QED BY <2>3, <3>1, <3>2
  <2>4. IndexFits(found, more)
    BY <2>3 DEF IndexFits
  <2> QED BY <2>1, <2>4
<1>4. CASE ~(i.format = "svg" \/ (found[key] # NoValue /\ i.size <= found[key].size))
  <2>1. next = [found EXCEPT ![key] = i]
    BY <1>4 DEF WithFile
  <2>2. next \in FoundIcons /\ next[key] = i /\ \A k \in IconKeys : k # key => next[k] = found[k]
    BY <1>1, <1>2, <2>1 DEF FoundIcons
  <2>3. <<r, i>> \in more /\ seen \subseteq more
    OBVIOUS
  <2> HIDE DEF next, more
  <2>4. ASSUME NEW k \in IconKeys, next[k] # NoValue
        PROVE  IconKey(next[k].name) = k /\ \E q \in Themes : <<q, next[k]>> \in more
    <3>1. CASE k = key
      BY <2>2, <2>3, <3>1
    <3>2. CASE k # key
      BY <2>2, <2>3, <2>4, <3>2 DEF IndexFits
    <3> QED BY <3>1, <3>2
  <2>5. ASSUME NEW p \in Themes, NEW j \in AllIcons, <<p, j>> \in more, j.format # "svg"
        PROVE  Covers(next, more, p, j)
    <3>1. CASE <<p, j>> = <<r, i>>
      <4>1. p = r /\ j = i
        BY <3>1
      <4>2. i.size <= i.size /\ r <= r
        BY <1>1 DEF Themes
      <4> QED BY <1>1, <2>2, <2>3, <4>1, <4>2 DEF Covers
    <3>2. CASE <<p, j>> \in seen
      <4>1. Covers(found, seen, p, j)
        BY <2>5, <3>2 DEF IndexFits
      <4>2. CASE IconKey(j.name) = key
        <5>1. found[key] # NoValue /\ j.size <= found[key].size /\ found[key] \in AllIcons
          BY <1>2, <4>1, <4>2 DEF Covers
        <5>2. ~(i.size <= found[key].size) /\ found[key].size \in Nat /\ j.size \in Nat
          BY <1>4, <5>1, ThemeFacts
        <5>3. j.size < i.size
          BY <1>1, <5>1, <5>2
        <5>4. j.size <= i.size /\ j.size # i.size
          BY <1>1, <5>2, <5>3
        <5> QED BY <1>1, <2>2, <4>2, <5>4 DEF Covers
      <4>3. CASE IconKey(j.name) # key
        <5>1. next[IconKey(j.name)] = found[IconKey(j.name)]
          BY <2>2, <4>3, ThemeFacts
        <5> QED BY <2>3, <4>1, <5>1 DEF Covers
      <4> QED BY <4>2, <4>3
    <3>3. <<p, j>> \in seen \/ <<p, j>> = <<r, i>>
      BY <2>5 DEF more
    <3> QED BY <3>1, <3>2, <3>3
  <2>6. IndexFits(next, more)
    BY <2>2, <2>4, <2>5 DEF IndexFits
  <2> QED BY <2>6 DEF next, more
<1> QED
  BY <1>3, <1>4

\* Indexed goes through the files from the first to the last.
IndexedUpTo(at, found, files, last) ==
    /\ \A n \in 0..Len(files) : at[n] \in FoundIcons
    /\ at[0] = found /\ last = at[Len(files)]
    /\ \A n \in 1..Len(files) : at[n] = WithFile(at[n - 1], files[n])

LEMMA IndexedLast ==
  ASSUME NEW found \in FoundIcons, NEW files \in Seq(AllIcons)
  PROVE  \E at : IndexedUpTo(at, found, files, Indexed(found, files))
<1> DEFINE last == Len(files)
           rule == [n \in 1..last |-> [m \in FoundIcons |-> WithFile(m, files[n])]]
           Recurs(f) == f = [n \in 0..Len(files) |->
                                IF n = 0 THEN found ELSE WithFile(f[n - 1], files[n])]
           after == CHOOSE f : Recurs(f)
<1>1. last \in Nat /\ \A n \in 1..last : files[n] \in AllIcons
  OBVIOUS
<1>2. ASSUME NEW m \in FoundIcons, NEW i \in AllIcons PROVE WithFile(m, i) \in FoundIcons
  BY DEF WithFile, FoundIcons
<1>3. rule \in [1..last -> [FoundIcons -> FoundIcons]]
  BY <1>1, <1>2
<1>4. PICK at : Recurrent(at, FoundIcons, found, last, rule)
  <2>1. \E at : Recurrent(at, FoundIcons, found, last, rule)
    <3> HIDE DEF rule, last
    <3> QED BY <1>1, <1>3, Recursion
  <2> QED BY <2>1
<1>5. /\ at \in [0..last -> FoundIcons] /\ at[0] = found
      /\ \A k \in 1..last : at[k] = rule[k][at[k - 1]]
  <2> HIDE DEF rule, last
  <2> QED BY <1>4 DEF Recurrent
<1>6. ASSUME NEW n \in 0..last
      PROVE  at[n] = IF n = 0 THEN found ELSE WithFile(at[n - 1], files[n])
  <2>1. CASE n = 0
    BY <1>5, <2>1
  <2>2. CASE n # 0
    <3>1. n \in 1..last /\ n - 1 \in 0..last
      BY <1>1, <2>2
    <3>2. at[n - 1] \in FoundIcons /\ at[n] = rule[n][at[n - 1]]
      BY <1>5, <3>1
    <3> QED BY <2>2, <3>1, <3>2
  <2> QED BY <2>1, <2>2
<1>7. Recurs(at)
  <2> HIDE DEF rule
  <2> QED BY <1>5, <1>6
<1>8. Recurs(after)
  BY <1>7
<1>9. Indexed(found, files) = after[last]
  BY DEF Indexed
<1> HIDE DEF after, rule
<1>10. /\ after[0] = found
       /\ \A n \in 1..last : after[n] = WithFile(after[n - 1], files[n])
  <2>1. 0 \in 0..last /\ \A n \in 1..last : n \in 0..last /\ n # 0
    BY <1>1
  <2> QED BY <1>8, <2>1
<1>11. \A n \in 0..last : after[n] \in FoundIcons
  <2> DEFINE S == {n \in 0..last : after[n] \in FoundIcons}
  <2>1. 0 \in S
    BY <1>1, <1>10
  <2>2. ASSUME NEW n \in 1..last, n - 1 \in S PROVE n \in S
    <3>1. n \in 0..last /\ files[n] \in AllIcons
      BY <1>1
    <3> QED BY <1>2, <1>10, <2>2, <3>1
  <2>3. 0..last \subseteq S
    <3> HIDE DEF S
    <3> QED BY <1>1, <2>1, <2>2, Induction
  <2> QED BY <2>3
<1>12. IndexedUpTo(after, found, files, Indexed(found, files))
  BY <1>9, <1>10, <1>11 DEF IndexedUpTo
<1> QED
  BY <1>12

\* A sequence that has each file once has every file.
LEMMA AllInOrder ==
  ASSUME NEW files, IsFiniteSet(files), NEW order \in SetToSeqs(files)
  PROVE  order \in Seq(files) /\ Range(order) = files
<1> DEFINE n == Cardinality(files)
<1>1. n \in Nat /\ order \in [1..n -> files] /\ IsInjective(order)
  <2>1. n \in Nat
    BY FS_CardinalityType
  <2>2. order \in [1..n -> files] /\ \A i, j \in 1..n : i # j => order[i] # order[j]
    BY DEF SetToSeqs
  <2> QED BY <2>1, <2>2 DEF IsInjective
<1> HIDE DEF n
<1>2. order \in Seq(files) /\ DOMAIN order = 1..n
  BY <1>1
<1>3. Range(order) \subseteq files
  BY <1>1 DEF Range
<1>4. IsFiniteSet(1..n) /\ Cardinality(1..n) = n
  BY <1>1, FS_Interval
<1>5. order \in Surjection(1..n, Range(order)) /\ order \in Injection(1..n, Range(order))
  <2>1. order \in [1..n -> Range(order)]
    BY <1>1, <1>2 DEF Range
  <2>2. \A t \in Range(order) : \E s \in 1..n : order[s] = t
    BY <1>2 DEF Range
  <2> QED BY <1>1, <2>1, <2>2 DEF Surjection, Injection
<1>6. Cardinality(Range(order)) = n
  BY <1>4, <1>5, FS_Surjection
<1> QED
  BY <1>2, <1>3, <1>6, FS_Subset DEF n

\* The icons of the first r themes.
IconsThrough(r) == {e \in Themes \X AllIcons : e[1] <= r /\ e[2] \in IconRoots[e[1]]}

LEMMA IndexRoot ==
  ASSUME NEW r \in Themes, NEW found, IndexFits(found, IconsThrough(r - 1)),
         NEW files \in SetToSeqs(IconRoots[r])
  PROVE  IndexFits(Indexed(found, files), IconsThrough(r))
<1>1. r \in Nat /\ r - 1 \in Int /\ IconRoots[r] \subseteq AllIcons
  BY ThemeFacts DEF Themes
<1>2. files \in Seq(IconRoots[r]) /\ Range(files) = IconRoots[r]
  BY AllInOrder, ThemeFacts
<1> DEFINE last == Len(files)
           New(n) == {<<r, files[j]>> : j \in 1..n}
           seen == IconsThrough(r - 1)
<1>3. /\ last \in Nat /\ DOMAIN files = 1..last /\ files \in Seq(AllIcons)
      /\ \A n \in 1..last : files[n] \in IconRoots[r]
  <2>1. last \in Nat /\ DOMAIN files = 1..last /\ files \in [1..last -> IconRoots[r]]
    BY <1>2
  <2>2. files \in [1..last -> AllIcons]
    BY <1>1, <2>1
  <2> QED BY <2>1, <2>2
<1>4. found \in FoundIcons
  BY DEF IndexFits
<1>5. PICK at : IndexedUpTo(at, found, files, Indexed(found, files))
  BY <1>3, <1>4, IndexedLast
<1> DEFINE S == {n \in 0..last : IndexFits(at[n], seen \cup New(n))}
<1>6. 0 \in S
  <2>1. seen \cup New(0) = seen
    OBVIOUS
  <2>2. at[0] = found
    BY <1>5 DEF IndexedUpTo
  <2>3. IndexFits(at[0], seen \cup New(0))
    <3> HIDE DEF seen, New
    <3> QED BY <2>1, <2>2 DEF seen
  <2> QED BY <1>3, <2>3
<1>7. ASSUME NEW n \in 1..last, n - 1 \in S PROVE n \in S
  <2>1. n \in 0..last /\ IndexFits(at[n - 1], seen \cup New(n - 1))
    BY <1>3, <1>7
  <2>2. (seen \cup New(n - 1)) \cup {<<r, files[n]>>} = seen \cup New(n)
    <3>1. 1..n = (1..(n - 1)) \cup {n}
      BY <1>3
    <3> HIDE DEF seen
    <3>2. New(n) = New(n - 1) \cup {<<r, files[n]>>}
      BY <3>1
    <3> HIDE DEF New
    <3> QED BY <3>2
  <2>3. ASSUME NEW q \in Themes, NEW j \in AllIcons, <<q, j>> \in seen \cup New(n - 1)
        PROVE  q <= r
    <3>1. CASE <<q, j>> \in seen
      BY <1>1, <3>1 DEF IconsThrough, Themes
    <3>2. CASE <<q, j>> \in New(n - 1)
      BY <1>1, <3>2
    <3> QED BY <2>3, <3>1, <3>2
  <2>4. at[n] = WithFile(at[n - 1], files[n])
    BY <1>5 DEF IndexedUpTo
  <2>5. IndexFits(at[n], (seen \cup New(n - 1)) \cup {<<r, files[n]>>})
    <3>1. files[n] \in IconRoots[r]
      BY <1>3
    <3> DEFINE before == seen \cup New(n - 1)
    <3>2. IndexFits(at[n - 1], before) /\ \A q \in Themes, j \in AllIcons : <<q, j>> \in before => q <= r
      BY <2>1, <2>3
    <3> HIDE DEF before
    <3> QED BY <2>4, <3>1, <3>2, IndexOne DEF before
  <2>6. IndexFits(at[n], seen \cup New(n))
    <3> HIDE DEF seen, New
    <3> QED BY <2>2, <2>5
  <2> QED BY <2>1, <2>6
<1>8. last \in S
  <2>1. 0..last \subseteq S
    <3> HIDE DEF S
    <3> QED BY <1>3, <1>6, <1>7, Induction
  <2>2. last \in 0..last
    BY <1>3
  <2> HIDE DEF S
  <2> QED BY <2>1, <2>2
<1>9. seen \cup New(last) = IconsThrough(r)
  <2>1. New(last) = {<<r, i>> : i \in IconRoots[r]}
    <3>1. ASSUME NEW i \in IconRoots[r] PROVE \E j \in 1..last : i = files[j]
      BY <1>2, <1>3 DEF Range
    <3> QED BY <1>3, <3>1
  <2>2. ASSUME NEW q \in Themes, NEW i \in AllIcons
        PROVE  <<q, i>> \in IconsThrough(r) <=> <<q, i>> \in seen \/ (q = r /\ i \in IconRoots[r])
    <3>1. q \in Nat /\ r \in Nat
      BY ThemeFacts DEF Themes
    <3>2. q <= r <=> q <= r - 1 \/ q = r
      BY <3>1
    <3> QED BY <1>1, <3>2 DEF IconsThrough
  <2>3. seen \subseteq Themes \X AllIcons /\ IconsThrough(r) \subseteq Themes \X AllIcons
        /\ New(last) \subseteq Themes \X AllIcons
    BY <1>1, <2>1 DEF IconsThrough
  <2>4. \A q \in Themes, i \in AllIcons :
           <<q, i>> \in New(last) <=> q = r /\ i \in IconRoots[r]
    BY <2>1
  <2> HIDE DEF seen, New
  <2> QED BY <2>2, <2>3, <2>4
<1>10. Indexed(found, files) = at[last]
  BY <1>5 DEF IndexedUpTo
<1>11. IndexFits(at[last], seen \cup New(last))
  BY <1>8
<1> QED
  <2> HIDE DEF seen, New
  <2> QED BY <1>9, <1>10, <1>11

\* After all the themes every icon has been seen.
LEMMA IndexAll ==
  ASSUME NEW order \in Orders
  PROVE  IndexFits(IndexedInAll(order), IconsThrough(Len(IconRoots)))
<1> DEFINE last == Len(IconRoots)
           none == [k \in IconKeys |-> NoValue]
           rule == [r \in 1..last |-> [m \in FoundIcons |-> Indexed(m, order[r])]]
           Recurs(f) == f = [r \in 0..Len(IconRoots) |->
                                IF r = 0 THEN [k \in IconKeys |-> NoValue]
                                ELSE Indexed(f[r - 1], order[r])]
           through == CHOOSE f : Recurs(f)
<1>1. last \in Nat /\ \A r \in 1..last : r \in Themes /\ order[r] \in SetToSeqs(IconRoots[r])
  BY ThemeFacts DEF Themes, Orders
<1>2. ASSUME NEW m \in FoundIcons, NEW r \in 1..last PROVE Indexed(m, order[r]) \in FoundIcons
  <2>1. order[r] \in Seq(IconRoots[r]) /\ IconRoots[r] \subseteq AllIcons
    BY <1>1, AllInOrder, ThemeFacts
  <2>2. order[r] \in Seq(AllIcons) /\ Len(order[r]) \in 0..Len(order[r])
    <3>1. Len(order[r]) \in Nat /\ order[r] \in [1..Len(order[r]) -> IconRoots[r]]
      BY <2>1
    <3>2. order[r] \in [1..Len(order[r]) -> AllIcons]
      BY <2>1, <3>1
    <3> QED BY <3>1, <3>2
  <2>3. \E at : IndexedUpTo(at, m, order[r], Indexed(m, order[r]))
    BY <2>2, IndexedLast
  <2> QED BY <2>2, <2>3 DEF IndexedUpTo
<1>3. none \in FoundIcons
  BY DEF FoundIcons
<1>4. rule \in [1..last -> [FoundIcons -> FoundIcons]]
  BY <1>2
<1>5. PICK at : Recurrent(at, FoundIcons, none, last, rule)
  <2>1. \E at : Recurrent(at, FoundIcons, none, last, rule)
    <3> HIDE DEF rule, last, none
    <3> QED BY <1>1, <1>3, <1>4, Recursion
  <2> QED BY <2>1
<1>6. /\ at \in [0..last -> FoundIcons] /\ at[0] = none
      /\ \A k \in 1..last : at[k] = rule[k][at[k - 1]]
  <2> HIDE DEF rule, last, none
  <2> QED BY <1>5 DEF Recurrent
<1>7. ASSUME NEW r \in 0..last
      PROVE  at[r] = IF r = 0 THEN none ELSE Indexed(at[r - 1], order[r])
  <2>1. CASE r = 0
    BY <1>6, <2>1
  <2>2. CASE r # 0
    <3>1. r \in 1..last /\ r - 1 \in 0..last
      BY <1>1, <2>2
    <3>2. at[r - 1] \in FoundIcons /\ at[r] = rule[r][at[r - 1]]
      BY <1>6, <3>1
    <3> QED BY <2>2, <3>1, <3>2
  <2> QED BY <2>1, <2>2
<1>8. Recurs(at)
  <2> HIDE DEF rule
  <2> QED BY <1>6, <1>7
<1>9. Recurs(through)
  BY <1>8
<1>10. IndexedInAll(order) = through[last]
  BY DEF IndexedInAll
<1> HIDE DEF through, rule
<1>11. through[0] = none /\ \A r \in 1..last : through[r] = Indexed(through[r - 1], order[r])
  <2>1. 0 \in 0..last /\ \A r \in 1..last : r \in 0..last /\ r # 0
    BY <1>1
  <2> QED BY <1>9, <2>1
<1> DEFINE S == {r \in 0..last : IndexFits(through[r], IconsThrough(r))}
<1>12. 0 \in S
  <2>1. IndexFits(none, IconsThrough(0))
    <3>1. \A q \in Themes, i \in AllIcons : <<q, i>> \notin IconsThrough(0)
      BY DEF IconsThrough, Themes
    <3> QED BY <1>3, <3>1 DEF IndexFits
  <2> QED BY <1>1, <1>11, <2>1
<1>13. ASSUME NEW r \in 1..last, r - 1 \in S PROVE r \in S
  <2>1. r \in 0..last /\ IndexFits(through[r - 1], IconsThrough(r - 1))
    BY <1>1, <1>13
  <2>2. r \in Themes /\ order[r] \in SetToSeqs(IconRoots[r])
    BY <1>1
  <2>3. PICK found : found = through[r - 1]
    OBVIOUS
  <2>4. IndexFits(Indexed(found, order[r]), IconsThrough(r))
    BY <2>1, <2>2, <2>3, IndexRoot
  <2> QED BY <1>11, <2>1, <2>3, <2>4
<1>14. last \in S
  <2>1. 0..last \subseteq S
    <3> HIDE DEF S
    <3> QED BY <1>1, <1>12, <1>13, Induction
  <2>2. last \in 0..last
    BY <1>1
  <2> HIDE DEF S
  <2> QED BY <2>1, <2>2
<1> QED
  BY <1>10, <1>14

-----------------------------------------------------------------------------
(* The scan of the application catalogue.                                 *)

\* The fields of a catalogue and of a listed application.
CatalogueShape(c) ==
    c = [platform |-> c.platform, files |-> c.files, root |-> c.root, read |-> c.read,
         changed |-> c.changed, seen |-> c.seen, listed |-> c.listed, launched |-> c.launched]
AppShape(a) ==
    a = [id |-> a.id, name |-> a.name, icon |-> a.icon, command |-> a.command,
         terminal |-> a.terminal, from |-> a.from]

\* The entries there may be, the ids that are listed, and the entries of the roots
\* before this one and those read in this one.
AppPlaces == (1..Roots) \X FileNames[catalogue.platform]
ListedIds == {app.id : app \in Range(catalogue.listed)}
LeftBehind(e) == e[1] < catalogue.root \/ (e[1] = catalogue.root /\ e[2] \in catalogue.read)

\* The types the proofs need, fields and all.
CatalogueTypes ==
    /\ CatalogueShape(catalogue)
    /\ catalogue.platform \in PlatformNames
    /\ catalogue.files \in [1..Roots -> [FileNames[catalogue.platform] ->
                                            MayHold(catalogue.platform)]]
    /\ catalogue.root \in 1..Roots+1
    /\ catalogue.read \subseteq FileNames[catalogue.platform]

\* An application is listed as it was read, and no root before had it.
ListedWell(app) ==
    /\ AppShape(app) /\ app.from \in AppPlaces /\ app.from[1] <= catalogue.root
    /\ app.from \in Steady =>
          \E read \in AppsOf(app.from) : app.id = read.id /\ app.command = read.command
    /\ \A e \in Steady : e[1] < app.from[1] => app.id \notin IdsOf(e)

\* A list of applications with different ids.
OneOfEach(apps) ==
    /\ apps \in Seq(Range(apps))
    /\ \A i, j \in DOMAIN apps : apps[i].id = apps[j].id => i = j

\* The ids taken are those of what is listed, each once and each listed well.
CatalogueListing ==
    /\ OneOfEach(catalogue.listed)
    /\ catalogue.seen = ListedIds
    /\ \A app \in Range(catalogue.listed) : ListedWell(app)

\* What the scan has left behind is listed, unless it has changed.
NothingMissed == \A e \in Steady : LeftBehind(e) => IdsOf(e) \subseteq catalogue.seen

\* The inductive invariant.
CatalogueInv ==
    /\ CatalogueTypes /\ CatalogueListing /\ NothingMissed
    /\ ~Scanning => LargestIcons

\* A file is one application, however its icon is found.
LEMMA OneId ==
  ASSUME NEW f, NEW held, NEW a \in EntriesIn(f, held), NEW b \in EntriesIn(f, held)
  PROVE  a.id = b.id
<1>1. CASE catalogue.platform = "macos"
  <2>1. a \in BundleEntries(f, held) /\ b \in BundleEntries(f, held)
    BY <1>1 DEF EntriesIn
  <2> DEFINE id == IF held.identifier = NoValue THEN StemOf[f] ELSE held.identifier
             name == IF held.name = NoValue THEN StemOf[f] ELSE held.name
             As(i) == [id |-> id, name |-> name, icon |-> i,
                       command |-> <<<<"open">>, <<"-a">>, <<f>>>>, terminal |-> FALSE]
  <2>2. (\E i : a = As(i)) /\ (\E i : b = As(i))
    BY <2>1, Zenon DEF BundleEntries
  <2> QED BY <2>2
<1>2. CASE catalogue.platform # "macos"
  BY <1>2 DEF EntriesIn
<1> QED BY <1>1, <1>2

\* At the beginning nothing is listed and no root has been left behind.
LEMMA InitCatalogueInv == CatalogueInit => CatalogueInv
<1> SUFFICES ASSUME CatalogueInit PROVE CatalogueInv
  OBVIOUS
<1>1. PICK platform \in PlatformNames :
         \E files \in Installed[platform] :
            catalogue = [platform |-> platform, files |-> files, root |-> 1, read |-> {},
                         changed |-> {}, seen |-> {}, listed |-> << >>, launched |-> NoValue]
  BY DEF CatalogueInit, Catalogues
<1>2. PICK files \in Installed[platform] :
         catalogue = [platform |-> platform, files |-> files, root |-> 1, read |-> {},
                      changed |-> {}, seen |-> {}, listed |-> << >>, launched |-> NoValue]
  BY <1>1
<1>3. /\ catalogue.platform = platform /\ catalogue.files = files /\ catalogue.root = 1
      /\ catalogue.read = {} /\ catalogue.seen = {} /\ catalogue.listed = << >>
      /\ CatalogueShape(catalogue)
  BY <1>2 DEF CatalogueShape
<1>4. Roots \in Nat /\ Roots # 0
  BY CatalogueAssumption
<1>5. CatalogueTypes
  <2>1. files \in [1..Roots -> [FileNames[platform] -> MayHold(platform)]]
    BY CatalogueAssumption DEF MayHold
  <2> QED BY <1>3, <1>4, <2>1 DEF CatalogueTypes
<1>6. CatalogueListing
  <2>1. Range(<< >>) = {} /\ << >> \in Seq({}) /\ DOMAIN << >> = {}
    BY DEF Range
  <2> QED BY <1>3, <2>1 DEF CatalogueListing, ListedIds, OneOfEach
<1>7. NothingMissed
  BY <1>3, <1>4 DEF NothingMissed, LeftBehind, Steady
<1>8. Scanning
  BY <1>3, <1>4 DEF Scanning
<1> QED
  BY <1>5, <1>6, <1>7, <1>8 DEF CatalogueInv

\* Entries that hold what they held are the same applications.
LEMMA SameApps ==
  ASSUME NEW e, catalogue'.platform = catalogue.platform, EntryAt(e[1], e[2])' = EntryAt(e[1], e[2])
  PROVE  AppsOf(e)' = AppsOf(e) /\ IdsOf(e)' = IdsOf(e)
BY DEF AppsOf, IdsOf, EntriesIn

\* What is listed stays so while no entry that was left alone changes.
LEMMA StaysListed ==
  ASSUME CatalogueTypes, catalogue'.platform = catalogue.platform,
         catalogue.root <= catalogue'.root, catalogue'.root \in Nat,
         Steady' \subseteq Steady,
         \A e \in Steady' : EntryAt(e[1], e[2])' = EntryAt(e[1], e[2]),
         NEW app, ListedWell(app)
  PROVE  ListedWell(app)'
<1>1. /\ \A e \in Steady' : AppsOf(e)' = AppsOf(e) /\ IdsOf(e)' = IdsOf(e)
      /\ AppPlaces' = AppPlaces
  BY SameApps DEF AppPlaces
<1>2. app.from[1] <= catalogue'.root
  BY DEF ListedWell, AppPlaces, CatalogueTypes
<1> QED
  BY <1>1, <1>2 DEF ListedWell

\* A package that changes is no longer one the scan answers for.
LEMMA PackageStep ==
  ASSUME CatalogueInv, NEW r \in 1..Roots, NEW f \in FileNames[catalogue.platform],
         PackageChanges(r, f)
  PROVE  CatalogueInv'
<1>1. PICK held \in MayHold(catalogue.platform) \ {EntryAt(r, f)} :
         catalogue' = [catalogue EXCEPT !.files[r][f] = held, !.changed = @ \cup {<<r, f>>}]
  BY DEF PackageChanges
<1>2. CatalogueTypes /\ CatalogueListing /\ NothingMissed /\ Scanning
  BY DEF CatalogueInv, PackageChanges
<1>3. /\ CatalogueShape(catalogue')
      /\ catalogue'.platform = catalogue.platform /\ catalogue'.root = catalogue.root
      /\ catalogue'.read = catalogue.read /\ catalogue'.seen = catalogue.seen
      /\ catalogue'.listed = catalogue.listed
      /\ catalogue'.changed = catalogue.changed \cup {<<r, f>>}
      /\ catalogue'.files = [catalogue.files EXCEPT ![r][f] = held]
  BY <1>1, <1>2 DEF CatalogueTypes, CatalogueShape
<1>4. CatalogueTypes'
  <2>1. MayHold(catalogue.platform)' = MayHold(catalogue.platform)
    BY <1>3 DEF MayHold
  <2>2. ASSUME NEW Rs, NEW Fs, NEW Held, NEW files \in [Rs -> [Fs -> Held]], r \in Rs, f \in Fs,
               held \in Held
        PROVE  [files EXCEPT ![r][f] = held] \in [Rs -> [Fs -> Held]]
    <3>1. [files[r] EXCEPT ![f] = held] \in [Fs -> Held]
      BY <2>2
    <3> QED BY <2>2, <3>1
  <2>3. catalogue'.files \in [1..Roots -> [FileNames[catalogue'.platform] ->
                                              MayHold(catalogue.platform)']]
    <3>1. [catalogue.files EXCEPT ![r][f] = held] \in
             [1..Roots -> [FileNames[catalogue.platform] -> MayHold(catalogue.platform)]]
      <4>1. /\ catalogue.files \in [1..Roots -> [FileNames[catalogue.platform] ->
                                                    MayHold(catalogue.platform)]]
            /\ held \in MayHold(catalogue.platform)
        BY <1>2 DEF CatalogueTypes
      <4> QED BY <2>2, <4>1
    <3> QED BY <1>3, <2>1, <3>1
  <2> QED BY <1>2, <1>3, <2>3 DEF CatalogueTypes
<1>5. Steady' \subseteq Steady /\ \A e \in Steady' : EntryAt(e[1], e[2])' = EntryAt(e[1], e[2])
  <2>1. Steady' \subseteq Steady
    BY <1>3 DEF Steady
  <2>2. ASSUME NEW e \in Steady' PROVE EntryAt(e[1], e[2])' = EntryAt(e[1], e[2])
    <3>1. /\ e = <<e[1], e[2]>> /\ e # <<r, f>>
          /\ e[1] \in 1..Roots /\ e[2] \in FileNames[catalogue.platform]
      BY <1>3 DEF Steady
    <3>2. e[1] # r \/ e[2] # f
      BY <3>1
    <3> QED BY <1>2, <1>3, <3>1, <3>2 DEF EntryAt, CatalogueTypes
  <2> QED BY <2>1, <2>2
<1>6. catalogue.root \in Nat
  BY <1>2 DEF CatalogueTypes
<1>7. \A app \in Range(catalogue.listed) : ListedWell(app)'
  BY <1>2, <1>3, <1>5, <1>6, StaysListed DEF CatalogueListing
<1>8. CatalogueListing'
  BY <1>2, <1>3, <1>7 DEF CatalogueListing, ListedIds
<1>9. NothingMissed'
  <2>1. \A e \in Steady' : IdsOf(e)' = IdsOf(e)
    BY <1>3, <1>5, SameApps
  <2> QED BY <1>2, <1>3, <1>5, <2>1 DEF NothingMissed, LeftBehind
<1>10. Scanning'
  BY <1>2, <1>3 DEF Scanning
<1> QED
  BY <1>4, <1>8, <1>9, <1>10 DEF CatalogueInv

\* A root that has been read holds nothing that is not listed, unless it has changed.
LEMMA RootDone ==
  ASSUME CatalogueTypes, NothingMissed, RootRead,
         NEW e \in Steady, e[1] <= catalogue.root
  PROVE  IdsOf(e) \subseteq catalogue.seen
<1>1. e = <<e[1], e[2]>> /\ e[2] \in FileNames[catalogue.platform] /\ e[1] \in 1..Roots
  BY DEF Steady
<1>2. CASE LeftBehind(e)
  BY <1>2 DEF NothingMissed
<1>3. CASE ~LeftBehind(e)
  <2>1. e[1] = catalogue.root /\ e[2] \notin catalogue.read
    BY <1>1, <1>3 DEF LeftBehind, CatalogueTypes
  <2>2. EntryAt(e[1], e[2]) = NoEntry
    BY <1>1, <2>1 DEF RootRead, Steady
  <2>3. AppsOf(e) = {}
    BY <2>2 DEF AppsOf, EntriesIn
  <2> QED BY <2>3 DEF IdsOf
<1> QED BY <1>2, <1>3

\* The lemmas of the steps.
LEMMA NextRootStep ==
  ASSUME CatalogueInv, NextRoot
  PROVE  CatalogueInv'
<1>1. /\ CatalogueTypes /\ CatalogueListing /\ NothingMissed
      /\ Scanning /\ RootRead /\ catalogue.root < Roots
      /\ catalogue' = [catalogue EXCEPT !.root = @ + 1, !.read = {}]
  BY DEF CatalogueInv, NextRoot
<1>2. /\ CatalogueShape(catalogue')
      /\ catalogue'.platform = catalogue.platform /\ catalogue'.root = catalogue.root + 1
      /\ catalogue'.read = {} /\ catalogue'.seen = catalogue.seen
      /\ catalogue'.listed = catalogue.listed /\ catalogue'.changed = catalogue.changed
      /\ catalogue'.files = catalogue.files
  BY <1>1 DEF CatalogueTypes, CatalogueShape
<1>3. Roots \in Nat /\ catalogue.root \in 1..Roots
  BY <1>1, CatalogueAssumption DEF CatalogueTypes
<1>4. CatalogueTypes'
  BY <1>1, <1>2, <1>3 DEF CatalogueTypes, MayHold
<1>5. Steady' = Steady /\ \A e \in Steady' : EntryAt(e[1], e[2])' = EntryAt(e[1], e[2])
  BY <1>2 DEF Steady, EntryAt
<1>6. \A app \in Range(catalogue.listed) : ListedWell(app)'
  BY <1>1, <1>2, <1>3, <1>5, StaysListed DEF CatalogueListing
<1>7. CatalogueListing'
  BY <1>1, <1>2, <1>6 DEF CatalogueListing, ListedIds
<1>8. NothingMissed'
  <2>1. ASSUME NEW e \in Steady', LeftBehind(e)' PROVE IdsOf(e)' \subseteq catalogue'.seen
    <3>1. e \in Steady /\ IdsOf(e)' = IdsOf(e)
      BY <1>2, <1>5, SameApps
    <3>2. e[1] \in 1..Roots
      BY <3>1 DEF Steady
    <3>3. e[1] <= catalogue.root
      BY <1>2, <1>3, <2>1, <3>2 DEF LeftBehind
    <3> QED BY <1>1, <1>2, <3>1, <3>3, RootDone
  <2> QED BY <2>1 DEF NothingMissed
<1>9. Scanning'
  BY <1>2, <1>3, <1>1 DEF Scanning
<1> QED
  BY <1>4, <1>7, <1>8, <1>9 DEF CatalogueInv

LEMMA LaunchStep ==
  ASSUME CatalogueInv, NEW i \in DOMAIN catalogue.listed, Launch(i)
  PROVE  CatalogueInv'
<1>1. CatalogueTypes /\ CatalogueListing /\ NothingMissed /\ LargestIcons
  BY DEF CatalogueInv, Launch
<1>2. PICK words : catalogue' = [catalogue EXCEPT !.launched = words]
  BY DEF Launch
<1>3. /\ CatalogueShape(catalogue')
      /\ catalogue'.platform = catalogue.platform /\ catalogue'.root = catalogue.root
      /\ catalogue'.read = catalogue.read /\ catalogue'.seen = catalogue.seen
      /\ catalogue'.listed = catalogue.listed /\ catalogue'.changed = catalogue.changed
      /\ catalogue'.files = catalogue.files
  BY <1>1, <1>2 DEF CatalogueTypes, CatalogueShape
<1>4. CatalogueTypes'
  BY <1>1, <1>3 DEF CatalogueTypes, MayHold
<1>5. Steady' = Steady /\ \A e \in Steady' : EntryAt(e[1], e[2])' = EntryAt(e[1], e[2])
  BY <1>3 DEF Steady, EntryAt
<1>6. catalogue.root \in Nat
  BY <1>1 DEF CatalogueTypes
<1>7. \A app \in Range(catalogue.listed) : ListedWell(app)'
  BY <1>1, <1>3, <1>5, <1>6, StaysListed DEF CatalogueListing
<1>8. CatalogueListing'
  BY <1>1, <1>3, <1>7 DEF CatalogueListing, ListedIds
<1>9. NothingMissed'
  <2>1. \A e \in Steady' : IdsOf(e)' = IdsOf(e)
    BY <1>3, <1>5, SameApps
  <2> QED BY <1>1, <1>3, <1>5, <2>1 DEF NothingMissed, LeftBehind
<1>10. LargestIcons'
  BY <1>1, <1>3 DEF LargestIcons
<1> QED
  BY <1>4, <1>8, <1>9, <1>10 DEF CatalogueInv

\* An application with a new id may be appended.
LEMMA AppendsOne ==
  ASSUME NEW apps, OneOfEach(apps), NEW app, \A a \in Range(apps) : a.id # app.id
  PROVE  OneOfEach(Append(apps, app)) /\ Range(Append(apps, app)) = Range(apps) \cup {app}
<1>1. /\ Len(apps) \in Nat /\ DOMAIN apps = 1..Len(apps)
      /\ \A i \in DOMAIN apps : apps[i] \in Range(apps)
  BY DEF OneOfEach, Range
<1> DEFINE more == Append(apps, app)
<1>2. /\ Len(more) = Len(apps) + 1 /\ DOMAIN more = 1..Len(apps)+1
      /\ \A i \in DOMAIN apps : more[i] = apps[i]
      /\ more[Len(apps) + 1] = app
  BY <1>1 DEF OneOfEach
<1>3. more \in Seq(Range(apps) \cup {app})
  BY DEF OneOfEach
<1> HIDE DEF more
<1>4. Range(more) = Range(apps) \cup {app}
  <2>1. \A i \in DOMAIN more : i \in DOMAIN apps \/ i = Len(apps) + 1
    BY <1>1, <1>2
  <2>2. \A i \in DOMAIN apps : i \in DOMAIN more
    BY <1>1, <1>2
  <2>3. Len(apps) + 1 \in DOMAIN more
    BY <1>1, <1>2
  <2> QED BY <1>2, <2>1, <2>2, <2>3 DEF Range
<1>5. ASSUME NEW i \in DOMAIN more, NEW j \in DOMAIN more, more[i].id = more[j].id PROVE i = j
  BY <1>1, <1>2, <1>5 DEF OneOfEach
<1> QED
  BY <1>3, <1>4, <1>5 DEF more, OneOfEach

\* An entry that is read adds its application, unless its id is taken.
LEMMA ReadStep ==
  ASSUME CatalogueInv, NEW f \in FileNames[catalogue.platform], ReadEntry(f)
  PROVE  CatalogueInv'
<1> DEFINE held == EntryAt(catalogue.root, f)
           apps == {a \in EntriesIn(f, held) : a.id \notin catalogue.seen}
           here == <<catalogue.root, f>>
<1>1. CatalogueTypes /\ CatalogueListing /\ NothingMissed /\ Scanning
  BY DEF CatalogueInv, ReadEntry
<1>2. Roots \in Nat /\ catalogue.root \in 1..Roots /\ catalogue.root \in Nat
  BY <1>1, CatalogueAssumption DEF CatalogueTypes, Scanning
<1>3. here \in AppPlaces /\ here[1] = catalogue.root /\ here[2] = f
  BY <1>2 DEF AppPlaces
<1>4. AppsOf(here) = EntriesIn(f, held)
  BY <1>3 DEF AppsOf
<1>5. \A e \in Steady : LeftBehind(e) \/ e = here \/ e[1] > catalogue.root
                        \/ (e[1] = catalogue.root /\ e[2] # f)
  BY <1>2, <1>3 DEF Steady, LeftBehind
<1>6. CASE apps = {}
  <2>1. catalogue' = [catalogue EXCEPT !.read = @ \cup {f}, !.seen = catalogue.seen]
    <3>1. catalogue' = [[catalogue EXCEPT !.read = @ \cup {f}] EXCEPT !.seen = Seen(f, {})]
      BY <1>6 DEF ReadEntry
    <3>2. Seen(f, {}) = catalogue.seen
      BY DEF Seen
    <3> QED BY <3>1, <3>2
  <2>2. /\ CatalogueShape(catalogue')
        /\ catalogue'.platform = catalogue.platform /\ catalogue'.root = catalogue.root
        /\ catalogue'.read = catalogue.read \cup {f} /\ catalogue'.seen = catalogue.seen
        /\ catalogue'.listed = catalogue.listed /\ catalogue'.changed = catalogue.changed
        /\ catalogue'.files = catalogue.files
    BY <1>1, <2>1 DEF CatalogueTypes, CatalogueShape
  <2>3. CatalogueTypes'
    BY <1>1, <2>2 DEF CatalogueTypes, MayHold
  <2>4. Steady' = Steady /\ \A e \in Steady' : EntryAt(e[1], e[2])' = EntryAt(e[1], e[2])
    BY <2>2 DEF Steady, EntryAt
  <2>5. \A app \in Range(catalogue.listed) : ListedWell(app)'
    BY <1>1, <1>2, <2>2, <2>4, StaysListed DEF CatalogueListing
  <2>6. CatalogueListing'
    BY <1>1, <2>2, <2>5 DEF CatalogueListing, ListedIds
  <2>7. IdsOf(here) \subseteq catalogue.seen
    BY <1>4, <1>6 DEF IdsOf
  <2>8. NothingMissed'
    <3>1. ASSUME NEW e \in Steady', LeftBehind(e)' PROVE IdsOf(e)' \subseteq catalogue'.seen
      <4>1. e \in Steady /\ IdsOf(e)' = IdsOf(e)
        BY <2>2, <2>4, SameApps
      <4>2. LeftBehind(e) \/ e = here
        <5>1. e = <<e[1], e[2]>>
          BY <4>1 DEF Steady
        <5> QED BY <2>2, <3>1, <5>1 DEF LeftBehind
      <4> QED BY <1>1, <2>2, <2>7, <4>1, <4>2 DEF NothingMissed
    <3> QED BY <3>1 DEF NothingMissed
  <2>9. Scanning'
    BY <1>1, <2>2 DEF Scanning
  <2> QED
    BY <2>3, <2>6, <2>8, <2>9 DEF CatalogueInv
<1>7. CASE apps # {}
  <2>1. PICK app \in apps :
           catalogue' = [catalogue EXCEPT !.read = @ \cup {f},
                                          !.listed = Append(@, ListedAs(app, catalogue.root, f)),
                                          !.seen = catalogue.seen \cup {app.id}]
    <3>1. PICK app \in apps :
             catalogue' = [[catalogue EXCEPT !.read = @ \cup {f}] EXCEPT
                              !.listed = Append(@, ListedAs(app, catalogue.root, f)),
                              !.seen = Seen(f, {app})]
      BY <1>7 DEF ReadEntry
    <3>2. Seen(f, {app}) = catalogue.seen \cup {app.id}
      BY DEF Seen
    <3>3. [catalogue EXCEPT !.read = @ \cup {f}].listed = catalogue.listed
      BY <1>1 DEF CatalogueTypes, CatalogueShape
    <3> QED BY <3>1, <3>2, <3>3
  <2>2. PICK one : one = ListedAs(app, catalogue.root, f)
    OBVIOUS
  <2>3. /\ AppShape(one) /\ one.id = app.id /\ one.command = app.command /\ one.from = here
    BY <2>2 DEF AppShape, ListedAs
  <2>4. app.id \notin catalogue.seen /\ app \in AppsOf(here)
    BY <1>4
  <2>5. /\ CatalogueShape(catalogue')
        /\ catalogue'.platform = catalogue.platform /\ catalogue'.root = catalogue.root
        /\ catalogue'.read = catalogue.read \cup {f}
        /\ catalogue'.seen = catalogue.seen \cup {app.id}
        /\ catalogue'.listed = Append(catalogue.listed, one)
        /\ catalogue'.changed = catalogue.changed
        /\ catalogue'.files = catalogue.files
    BY <1>1, <2>1, <2>2 DEF CatalogueTypes, CatalogueShape
  <2>6. CatalogueTypes'
    BY <1>1, <2>5 DEF CatalogueTypes, MayHold
  <2>7. Steady' = Steady /\ \A e \in Steady' : EntryAt(e[1], e[2])' = EntryAt(e[1], e[2])
    BY <2>5 DEF Steady, EntryAt
  <2>8. ListedWell(one)
    <3>1. ASSUME NEW e \in Steady, e[1] < one.from[1] PROVE one.id \notin IdsOf(e)
      BY <1>1, <1>3, <2>3, <2>4, <3>1 DEF NothingMissed, LeftBehind
    <3>2. \E read \in AppsOf(one.from) : one.id = read.id /\ one.command = read.command
      BY <2>3, <2>4
    <3> QED BY <1>2, <1>3, <2>3, <3>1, <3>2 DEF ListedWell
  <2>9. \A a \in Range(catalogue.listed) : ListedWell(a) /\ a.id # one.id
    BY <1>1, <2>3, <2>4 DEF CatalogueListing, ListedIds
  <2>10. /\ OneOfEach(catalogue'.listed)
         /\ Range(catalogue'.listed) = Range(catalogue.listed) \cup {one}
    BY <1>1, <2>5, <2>9, AppendsOne DEF CatalogueListing
  <2>11. \A a \in Range(catalogue'.listed) : ListedWell(a)'
    BY <1>1, <1>2, <2>5, <2>7, <2>8, <2>9, <2>10, StaysListed
  <2>12. ListedIds' = ListedIds \cup {app.id}
    BY <2>3, <2>10 DEF ListedIds
  <2>13. CatalogueListing'
    BY <1>1, <2>5, <2>10, <2>11, <2>12 DEF CatalogueListing
  <2>14. IdsOf(here) \subseteq {app.id}
    BY <1>4, OneId DEF IdsOf
  <2>15. NothingMissed'
    <3>1. ASSUME NEW e \in Steady', LeftBehind(e)' PROVE IdsOf(e)' \subseteq catalogue'.seen
      <4>1. e \in Steady /\ IdsOf(e)' = IdsOf(e)
        BY <2>5, <2>7, SameApps
      <4>2. LeftBehind(e) \/ e = here
        <5>1. e = <<e[1], e[2]>>
          BY <4>1 DEF Steady
        <5> QED BY <2>5, <3>1, <5>1 DEF LeftBehind
      <4> QED BY <1>1, <2>5, <2>14, <4>1, <4>2 DEF NothingMissed
    <3> QED BY <3>1 DEF NothingMissed
  <2>16. Scanning'
    BY <1>1, <2>5 DEF Scanning
  <2> QED
    BY <2>6, <2>13, <2>15, <2>16 DEF CatalogueInv
<1> QED
  BY <1>6, <1>7

\* An application as it was, with another icon or none.
OnlyIcon(a, b) ==
    AppShape(b) /\ b.id = a.id /\ b.command = a.command /\ b.from = a.from

\* Resolving changes icons and nothing else, sorting changes places and nothing else.
LEMMA WithIconOf ==
  ASSUME NEW app, AppShape(app), NEW found
  PROVE  OnlyIcon(app, WithIcon(app, found))
<1>1. PICK icon : WithIcon(app, found) = app \/ WithIcon(app, found) = [app EXCEPT !.icon = icon]
  BY DEF WithIcon
<1> QED BY <1>1 DEF OnlyIcon, AppShape

LEMMA ResolvedApps ==
  ASSUME NEW apps, OneOfEach(apps), \A app \in Range(apps) : AppShape(app), NEW found
  PROVE  /\ OneOfEach(Resolved(apps, found))
         /\ DOMAIN Resolved(apps, found) = DOMAIN apps
         /\ \A i \in DOMAIN apps : OnlyIcon(apps[i], Resolved(apps, found)[i])
<1>1. \A i \in DOMAIN apps : AppShape(apps[i])
  BY DEF Range
<1>2. CASE \A i \in DOMAIN apps : apps[i].icon = NoValue \/ IsPath(apps[i].icon)
  BY <1>1, <1>2 DEF Resolved, OnlyIcon
<1>3. CASE ~\A i \in DOMAIN apps : apps[i].icon = NoValue \/ IsPath(apps[i].icon)
  <2> DEFINE all == [i \in DOMAIN apps |-> WithIcon(apps[i], found)]
  <2>1. Resolved(apps, found) = all
    BY <1>3 DEF Resolved
  <2>2. DOMAIN all = DOMAIN apps /\ \A i \in DOMAIN apps : OnlyIcon(apps[i], all[i])
    BY <1>1, WithIconOf
  <2>3. Len(apps) \in Nat /\ DOMAIN apps = 1..Len(apps)
    BY DEF OneOfEach
  <2>4. all \in Seq(Range(all))
    <3>1. all \in [1..Len(apps) -> Range(all)]
      BY <2>3 DEF Range
    <3> HIDE DEF all
    <3> QED BY <2>3, <3>1
  <2>5. \A i, j \in DOMAIN all : all[i].id = all[j].id => i = j
    BY <2>2 DEF OneOfEach, OnlyIcon
  <2> QED BY <2>1, <2>2, <2>4, <2>5 DEF OneOfEach
<1> QED BY <1>2, <1>3

LEMMA SortedApps ==
  ASSUME NEW apps, OneOfEach(apps), NEW sorted \in Sorted(apps)
  PROVE  OneOfEach(sorted) /\ Range(sorted) = Range(apps)
<1>1. PICK place \in Bijection(DOMAIN apps, DOMAIN apps) :
         sorted = [i \in DOMAIN apps |-> apps[place[i]]]
  BY DEF Sorted
<1>2. /\ place \in [DOMAIN apps -> DOMAIN apps]
      /\ \A i, j \in DOMAIN apps : place[i] = place[j] => i = j
      /\ \A j \in DOMAIN apps : \E i \in DOMAIN apps : place[i] = j
  BY <1>1 DEF Bijection, Injection, Surjection, IsInjective
<1>3. DOMAIN sorted = DOMAIN apps /\ \A i \in DOMAIN apps : sorted[i] = apps[place[i]]
  BY <1>1
<1>4. Range(sorted) = Range(apps)
  BY <1>2, <1>3 DEF Range
<1>5. Len(apps) \in Nat /\ DOMAIN apps = 1..Len(apps)
  BY DEF OneOfEach
<1>6. sorted \in Seq(Range(sorted))
  <2>1. sorted \in [1..Len(apps) -> Range(sorted)]
    BY <1>1, <1>5 DEF Range
  <2> QED BY <1>5, <2>1
<1>7. ASSUME NEW i \in DOMAIN sorted, NEW j \in DOMAIN sorted, sorted[i].id = sorted[j].id
      PROVE  i = j
  <2>1. i \in DOMAIN apps /\ j \in DOMAIN apps /\ apps[place[i]].id = apps[place[j]].id
    BY <1>3, <1>7
  <2>2. place[i] \in DOMAIN apps /\ place[j] \in DOMAIN apps
    BY <1>2, <2>1
  <2>3. place[i] = place[j]
    BY <2>1, <2>2 DEF OneOfEach
  <2> QED BY <1>2, <2>1, <2>3
<1> QED
  BY <1>4, <1>6, <1>7 DEF OneOfEach

\* What a resolved application shows: nothing, a path, or what indexing has found.
LEMMA IconsFound ==
  ASSUME NEW apps, \A app \in Range(apps) : AppShape(app), NEW found, NEW i \in DOMAIN apps,
         NEW icon, icon = Resolved(apps, found)[i].icon, icon # NoValue, icon[1] = "theme"
  PROVE  \E key \in {IconKey(app.icon) : app \in {a \in Range(apps) : a.icon # NoValue}} :
            found[key] # NoValue /\ icon = <<"theme", found[key]>>
<1> DEFINE app == apps[i]
<1>1. app \in Range(apps) /\ AppShape(app)
  BY DEF Range
<1>2. CASE \A n \in DOMAIN apps : apps[n].icon = NoValue \/ IsPath(apps[n].icon)
  <2>1. icon = app.icon
    BY <1>2 DEF Resolved
  <2>2. icon[1] = "/"
    BY <1>2, <2>1 DEF IsPath
  <2> QED BY <2>2
<1>3. CASE ~\A n \in DOMAIN apps : apps[n].icon = NoValue \/ IsPath(apps[n].icon)
  <2>1. icon = WithIcon(app, found).icon
    BY <1>3 DEF Resolved
  <2> HIDE DEF app
  <2>2. \A x : [app EXCEPT !.icon = x].icon = x
    BY <1>1 DEF AppShape
  <2>3. app.icon # NoValue /\ ~IsPath(app.icon)
    <3>1. app.icon # NoValue
      BY <2>1 DEF WithIcon
    <3>2. ASSUME IsPath(app.icon) PROVE FALSE
      <4>1. WithIcon(app, found) =
               [app EXCEPT !.icon = IF app.icon \in IconPaths THEN app.icon ELSE NoValue]
        BY <3>1, <3>2 DEF WithIcon
      <4>2. icon = IF app.icon \in IconPaths THEN app.icon ELSE NoValue
        BY <2>1, <2>2, <4>1
      <4>3. icon[1] = "/"
        BY <3>2, <4>2 DEF IsPath
      <4> QED BY <4>3
    <3> QED BY <3>1, <3>2
  <2>4. WithIcon(app, found) =
           [app EXCEPT !.icon = IF found[IconKey(app.icon)] = NoValue THEN NoValue
                                ELSE <<"theme", found[IconKey(app.icon)]>>]
    BY <2>3 DEF WithIcon
  <2>5. icon = <<"theme", found[IconKey(app.icon)]>> /\ found[IconKey(app.icon)] # NoValue
    BY <2>1, <2>2, <2>4
  <2> QED BY <1>1, <2>3, <2>5
<1> QED BY <1>2, <1>3

\* The largest icons, of these applications.
LargestIconsOf(apps) ==
    \A app \in apps, r \in DOMAIN IconRoots :
       catalogue.platform = "linux" /\ app.icon # NoValue /\ app.icon[1] = "theme" =>
          \A i \in IconRoots[r] :
             IconKey(i.name) = IconKey(app.icon[2].name) /\ i.format # "svg" =>
                /\ i.size <= app.icon[2].size
                /\ i.size = app.icon[2].size => \E q \in 1..r : app.icon[2] \in IconRoots[q]

\* The icons that resolving leaves are the largest, by IndexAll.
LEMMA LargestFound ==
  ASSUME \A app \in Range(catalogue.listed) : AppShape(app), NEW order \in Orders
  PROVE  LargestIconsOf(Range(Resolved(catalogue.listed, IndexedInAll(order))))
<1>1. PICK found : found = IndexedInAll(order)
  OBVIOUS
<1>2. IndexFits(found, IconsThrough(Len(IconRoots)))
  BY <1>1, IndexAll
<1>3. DOMAIN Resolved(catalogue.listed, found) = DOMAIN catalogue.listed
  BY DEF Resolved
<1> SUFFICES ASSUME NEW n \in DOMAIN catalogue.listed, NEW r \in DOMAIN IconRoots, NEW icon,
                    icon = Resolved(catalogue.listed, found)[n].icon,
                    icon # NoValue, icon[1] = "theme",
                    NEW i \in IconRoots[r],
                    IconKey(i.name) = IconKey(icon[2].name), i.format # "svg"
             PROVE  /\ i.size <= icon[2].size
                    /\ i.size = icon[2].size => \E q \in 1..r : icon[2] \in IconRoots[q]
  BY <1>1, <1>3 DEF LargestIconsOf, Range
<1>4. PICK key \in {IconKey(app.icon) :
                       app \in {a \in Range(catalogue.listed) : a.icon # NoValue}} : found[key] # NoValue /\ icon = <<"theme", found[key]>>
  BY IconsFound
<1>5. key \in IconKeys
  BY <1>4 DEF IconKeys
<1>6. icon[2] = found[key]
  BY <1>4
<1>7. IconKey(i.name) = key
  BY <1>2, <1>4, <1>5, <1>6 DEF IndexFits
<1>8. r \in Themes /\ i \in AllIcons /\ Len(IconRoots) \in Nat
  BY ThemeFacts
<1>9. <<r, i>> \in IconsThrough(Len(IconRoots))
  BY <1>8 DEF IconsThrough, Themes
<1>10. Covers(found, IconsThrough(Len(IconRoots)), r, i)
  BY <1>2, <1>8, <1>9 DEF IndexFits
<1>11. i.size <= icon[2].size
  BY <1>6, <1>7, <1>10 DEF Covers
<1>12. ASSUME i.size = icon[2].size PROVE \E q \in 1..r : icon[2] \in IconRoots[q]
  <2>1. PICK q \in Themes : q <= r /\ <<q, found[key]>> \in IconsThrough(Len(IconRoots))
    BY <1>6, <1>7, <1>10, <1>12 DEF Covers
  <2>2. found[key] \in IconRoots[q]
    BY <2>1 DEF IconsThrough
  <2>3. q \in 1..r
    BY <1>8, <2>1 DEF Themes
  <2> QED BY <1>6, <2>2, <2>3
<1> QED
  BY <1>11, <1>12

\* Resolved and sorted, the list holds the same applications.
LEMMA FinishStep ==
  ASSUME CatalogueInv, FinishScan
  PROVE  CatalogueInv'
<1>1. CatalogueTypes /\ CatalogueListing /\ NothingMissed
  BY DEF CatalogueInv
<1>2. Roots \in Nat /\ Roots # 0 /\ catalogue.root = Roots /\ RootRead
  BY CatalogueAssumption DEF FinishScan
<1>3. PICK order \in Orders :
         \E sorted \in Sorted(IF catalogue.platform = "linux"
                              THEN Resolved(catalogue.listed, IndexedInAll(order))
                              ELSE catalogue.listed) :
            catalogue' = [catalogue EXCEPT !.root = @ + 1, !.read = {}, !.listed = sorted]
  BY DEF FinishScan
<1>4. PICK apps : apps = IF catalogue.platform = "linux"
                         THEN Resolved(catalogue.listed, IndexedInAll(order))
                         ELSE catalogue.listed
  OBVIOUS
<1>5. PICK sorted \in Sorted(apps) :
         catalogue' = [catalogue EXCEPT !.root = @ + 1, !.read = {}, !.listed = sorted]
  BY <1>3, <1>4
<1>6. \A app \in Range(catalogue.listed) : AppShape(app)
  BY <1>1 DEF CatalogueListing, ListedWell
<1>7. /\ OneOfEach(apps) /\ DOMAIN apps = DOMAIN catalogue.listed
      /\ \A i \in DOMAIN catalogue.listed : OnlyIcon(catalogue.listed[i], apps[i])
  <2>1. CASE catalogue.platform = "linux"
    BY <1>1, <1>4, <1>6, <2>1, ResolvedApps DEF CatalogueListing
  <2>2. CASE catalogue.platform # "linux"
    BY <1>1, <1>4, <1>6, <2>2 DEF CatalogueListing, OnlyIcon, Range
  <2> QED BY <2>1, <2>2
<1>8. OneOfEach(sorted) /\ Range(sorted) = Range(apps)
  BY <1>7, SortedApps
<1>9. /\ CatalogueShape(catalogue')
      /\ catalogue'.platform = catalogue.platform /\ catalogue'.root = Roots + 1
      /\ catalogue'.read = {} /\ catalogue'.seen = catalogue.seen
      /\ catalogue'.listed = sorted /\ catalogue'.changed = catalogue.changed
      /\ catalogue'.files = catalogue.files
  BY <1>1, <1>2, <1>5 DEF CatalogueTypes, CatalogueShape
<1>10. CatalogueTypes'
  BY <1>1, <1>2, <1>9 DEF CatalogueTypes, MayHold
<1>11. Steady' = Steady /\ \A e \in Steady' : EntryAt(e[1], e[2])' = EntryAt(e[1], e[2])
  BY <1>9 DEF Steady, EntryAt
<1>12. ASSUME NEW app \in Range(sorted)
       PROVE  ListedWell(app)'
  <2>1. PICK i \in DOMAIN catalogue.listed : app = apps[i]
    BY <1>7, <1>8 DEF Range
  <2>2. ListedWell(catalogue.listed[i]) /\ OnlyIcon(catalogue.listed[i], app)
    BY <1>1, <1>7, <2>1 DEF CatalogueListing, Range
  <2>3. ListedWell(app)
    BY <2>2 DEF ListedWell, OnlyIcon
  <2> QED BY <1>1, <1>2, <1>9, <1>11, <2>3, StaysListed
<1>13. ListedIds' = ListedIds
  <2>1. \A i \in DOMAIN apps : apps[i].id = catalogue.listed[i].id
    BY <1>7 DEF OnlyIcon
  <2> QED BY <1>7, <1>8, <1>9, <2>1 DEF ListedIds, Range
<1>14. CatalogueListing'
  BY <1>1, <1>8, <1>9, <1>12, <1>13 DEF CatalogueListing
<1>15. NothingMissed'
  <2>1. ASSUME NEW e \in Steady' PROVE IdsOf(e)' \subseteq catalogue'.seen
    <3>1. e \in Steady /\ IdsOf(e)' = IdsOf(e)
      BY <1>9, <1>11, SameApps
    <3>2. e[1] <= catalogue.root
      BY <1>2, <3>1 DEF Steady
    <3> QED BY <1>1, <1>2, <1>9, <3>1, <3>2, RootDone
  <2> QED BY <2>1 DEF NothingMissed
<1>16. LargestIcons'
  <2>1. CASE catalogue.platform = "linux"
    <3>1. LargestIconsOf(Range(sorted))
      BY <1>4, <1>6, <1>8, <2>1, LargestFound
    <3> QED BY <1>9, <3>1 DEF LargestIcons, LargestIconsOf
  <2>2. CASE catalogue.platform # "linux"
    BY <1>9, <2>2 DEF LargestIcons
  <2> QED BY <2>1, <2>2
<1> QED
  BY <1>10, <1>14, <1>15, <1>16 DEF CatalogueInv

\* At every point of a scan what was left behind is listed or has changed, and what
\* is listed was read from the first root that has it.
THEOREM CatalogueInvariant == CatalogueSpec => []CatalogueInv
<1>1. CatalogueInv /\ [CatalogueNext]_catalogue => CatalogueInv'
  <2> SUFFICES ASSUME CatalogueInv, [CatalogueNext]_catalogue PROVE CatalogueInv'
    OBVIOUS
  <2>1. ASSUME NEW r \in 1..Roots, NEW f \in FileNames[catalogue.platform], PackageChanges(r, f)
        PROVE  CatalogueInv'
    BY <2>1, PackageStep
  <2>2. ASSUME NEW f \in FileNames[catalogue.platform], ReadEntry(f) PROVE CatalogueInv'
    BY <2>2, ReadStep
  <2>3. CASE NextRoot
    BY <2>3, NextRootStep
  <2>4. CASE FinishScan
    BY <2>4, FinishStep
  <2>5. ASSUME NEW i \in DOMAIN catalogue.listed, Launch(i) PROVE CatalogueInv'
    BY <2>5, LaunchStep
  <2>6. CASE catalogue' = catalogue
    <3>1. /\ Steady' = Steady /\ AppPlaces' = AppPlaces
          /\ \A e : AppsOf(e)' = AppsOf(e) /\ IdsOf(e)' = IdsOf(e)
      BY <2>6 DEF Steady, AppPlaces, AppsOf, IdsOf, EntriesIn, EntryAt
    <3>2. CatalogueTypes'
      BY <2>6 DEF CatalogueInv, CatalogueTypes, MayHold
    <3>3. \A app : ListedWell(app)' <=> ListedWell(app)
      BY <2>6, <3>1 DEF ListedWell
    <3>4. CatalogueListing'
      BY <2>6, <3>3 DEF CatalogueInv, CatalogueListing, ListedIds
    <3>5. NothingMissed'
      BY <2>6, <3>1 DEF CatalogueInv, NothingMissed, LeftBehind
    <3>6. ~Scanning' => LargestIcons'
      BY <2>6 DEF CatalogueInv, Scanning, LargestIcons
    <3> QED BY <3>2, <3>4, <3>5, <3>6 DEF CatalogueInv
  <2> QED BY <2>1, <2>2, <2>3, <2>4, <2>5, <2>6 DEF CatalogueNext
<1> QED
  BY InitCatalogueInv, <1>1, PTL DEF CatalogueSpec

\* The catalogue keeps its types, and the ids taken are those of what is listed
\* (discover_root's seen_ids).
THEOREM CatalogueTypeCorrect == CatalogueSpec => []CatalogueTypeOK
<1>1. CatalogueInv => CatalogueTypeOK
  BY DEF CatalogueInv, CatalogueTypes, CatalogueListing, CatalogueTypeOK, ListedIds
<1> QED
  BY <1>1, CatalogueInvariant, PTL

\* After a scan every application that stayed installed is listed exactly once, as
\* the first root that has it describes it and on Linux with the largest icon of its
\* name, however many packages changed meanwhile and in whatever order directories,
\* icon themes and their files were read; and a command is split into the words it
\* was written with (discover_apps, resolve_linux_icons, split_exec).
THEOREM EveryApplicationIsListedOnce == CatalogueSpec => []CatalogueIsRight
<1>1. CatalogueInv => CatalogueIsRight
  <2> SUFFICES ASSUME CatalogueInv PROVE CatalogueIsRight
    OBVIOUS
  <2>1. RunAsWritten
    BY RunsAsWritten
  <2>2. ASSUME ~Scanning PROVE ListedOnce /\ LargestIcons
    <3>1. CatalogueTypes /\ CatalogueListing /\ NothingMissed /\ LargestIcons
      BY <2>2 DEF CatalogueInv
    <3>2. \A e \in Steady : LeftBehind(e)
      BY <2>2, <3>1, CatalogueAssumption DEF Steady, LeftBehind, CatalogueTypes, Scanning
    <3>3. ListedOnce
      BY <3>1, <3>2 DEF ListedOnce, CatalogueListing, NothingMissed, ListedWell, OneOfEach,
         ListedIds
    <3> QED BY <3>1, <3>3
  <2> QED BY <2>1, <2>2 DEF CatalogueIsRight
<1> QED
  BY <1>1, CatalogueInvariant, PTL
=============================================================================
