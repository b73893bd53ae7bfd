----------------------------- MODULE TextProofs -----------------------------
(***************************************************************************)
(* What is typed, streamed or copied, of every length.  The text field     *)
(* replaces whole characters, whatever their widths; what is decoded of a  *)
(* streamed answer does not depend on where the network cuts it; and a     *)
(* clipboard value comes out of its encodings as it went in.               *)
(*                                                                         *)
(* Offsets, the lines decoded so far, joined fields and the paths of a     *)
(* list are recursive functions.  What they compute is proved by           *)
(* induction: a set of numbers that has 0 and the successor of each of its *)
(* members has them all, because the least of those it has not would have  *)
(* a predecessor.                                                          *)
(***************************************************************************)
EXTENDS TextField, StreamDecoder, ClipboardContent, FiniteSetTheorems, SequenceTheorems,
        WellFoundedInduction, TLAPS

-----------------------------------------------------------------------------
(* Numbers.                                                                *)

\* A set of numbers has a least one: its segments are finite sets.
LEMMA LeastExists ==
  ASSUME NEW T, T \subseteq Nat, T # {}
  PROVE  \E x \in T : \A y \in T : x <= y
<1> DEFINE Upto == {0..n : n \in T}
<1>1. IsWellFoundedOn(StrictSubsetOrdering(Nat), FiniteSubsetsOf(Nat))
  BY FS_StrictSubsetOrderingWellFounded
<1>2. Upto \subseteq FiniteSubsetsOf(Nat)
  <2>1. ASSUME NEW n \in T PROVE 0..n \in FiniteSubsetsOf(Nat)
    <3>1. IsFiniteSet(0..n)
      BY FS_Interval
    <3>2. 0..n \subseteq Nat
      OBVIOUS
    <3> QED BY <3>1, <3>2 DEF FiniteSubsetsOf
  <2> QED BY <2>1
<1>3. Upto # {}
  OBVIOUS
<1>4. PICK X \in Upto : \A Y \in Upto : <<Y, X>> \notin StrictSubsetOrdering(Nat)
  <2> HIDE DEF Upto
  <2> QED BY <1>1, <1>2, <1>3, WFMin
<1>5. PICK x \in T : X = 0..x
  OBVIOUS
<1>6. ASSUME NEW y \in T, y < x PROVE FALSE
  <2>1. 0..y \in Upto
    OBVIOUS
  <2>2. 0..y \subseteq 0..x /\ 0..y # 0..x /\ 0..x \subseteq Nat /\ 0..y \subseteq Nat
    BY <1>6
  <2> QED BY <1>4, <1>5, <2>1, <2>2 DEF StrictSubsetOrdering
<1> QED
  BY <1>6

LEMMA Induction ==
  ASSUME NEW S, NEW last \in Nat, 0 \in S,
         \A k \in 1..last : k - 1 \in S => k \in S
  PROVE  0..last \subseteq S
<1> DEFINE T == (0..last) \ S
<1> SUFFICES ASSUME T # {} PROVE FALSE
  OBVIOUS
<1>1. PICK m \in T : \A n \in T : m <= n
  <2>1. T \subseteq Nat
    OBVIOUS
  <2> HIDE DEF T
  <2> QED BY <2>1, LeastExists
<1>2. m \in 1..last /\ m - 1 \in 0..last
  OBVIOUS
<1>3. m - 1 \notin T
  BY <1>1, <1>2
<1> QED
  BY <1>2, <1>3

-----------------------------------------------------------------------------
(* Sequences.                                                              *)

LEMMA JoinedAt ==
  ASSUME NEW T, NEW a \in Seq(T), NEW b \in Seq(T)
  PROVE  /\ a \o b \in Seq(T) /\ Len(a \o b) = Len(a) + Len(b)
         /\ \A i \in 1..Len(a) : (a \o b)[i] = a[i]
         /\ \A i \in 1..Len(b) : (a \o b)[Len(a) + i] = b[i]
<1>1. Len(a) \in Nat /\ Len(b) \in Nat
  OBVIOUS
<1>2. /\ a \o b \in Seq(T) /\ Len(a \o b) = Len(a) + Len(b)
      /\ \A i \in 1..(Len(a) + Len(b)) : (a \o b)[i] = IF i <= Len(a) THEN a[i] ELSE b[i - Len(a)]
  BY ConcatProperties
<1>3. ASSUME NEW i \in 1..Len(a) PROVE (a \o b)[i] = a[i]
  <2>1. i \in 1..(Len(a) + Len(b)) /\ i <= Len(a)
    BY <1>1
  <2> QED BY <1>2, <2>1
<1>4. ASSUME NEW i \in 1..Len(b) PROVE (a \o b)[Len(a) + i] = b[i]
  <2>1. Len(a) + i \in 1..(Len(a) + Len(b)) /\ ~(Len(a) + i <= Len(a)) /\ (Len(a) + i) - Len(a) = i
    BY <1>1
  <2> QED BY <1>2, <2>1
<1> QED
  BY <1>2, <1>3, <1>4

-----------------------------------------------------------------------------
(* Least and greatest numbers.                                             *)

LEMMA LeastFacts ==
  ASSUME NEW T, T \subseteq Nat, T # {}
  PROVE  Least(T) \in T /\ \A n \in T : Least(T) <= n
BY LeastExists DEF Least

LEMMA GreatestFacts ==
  ASSUME NEW T, NEW last \in Nat, T \subseteq 0..last, T # {}
  PROVE  Greatest(T) \in T /\ \A n \in T : n <= Greatest(T)
<1> DEFINE Gaps == {last - n : n \in T}
<1>1. Gaps \subseteq Nat /\ Gaps # {}
  <2>1. ASSUME NEW n \in T PROVE n \in 0..last /\ last - n \in Nat
    OBVIOUS
  <2> QED BY <2>1
<1>2. PICK gap \in Gaps : \A n \in Gaps : gap <= n
  <2> HIDE DEF Gaps
  <2> QED BY <1>1, LeastExists
<1>3. PICK m \in T : gap = last - m
  OBVIOUS
<1>4. ASSUME NEW n \in T PROVE m >= n
  <2>1. last - n \in Gaps /\ n \in 0..last /\ m \in 0..last
    OBVIOUS
  <2>2. last - m <= last - n
    BY <1>2, <1>3, <2>1
  <2> QED BY <2>1, <2>2
<1> QED
  BY <1>4 DEF Greatest

-----------------------------------------------------------------------------
(* The offsets of a text.                                                  *)

\* at adds up the widths of the first n characters of a text.
Sums(w, text, at, n) ==
    /\ at \in [0..n -> Nat] /\ at[0] = 0
    /\ \A k \in 1..n : at[k] = at[k - 1] + w[text[k]]

Width == [Chars -> Nat \ {0}]

LEMMA SumsGrow ==
  ASSUME NEW w \in Width, NEW text \in Seq(Chars), NEW k \in 1..Len(text),
         NEW at, Sums(w, text, at, k - 1)
  PROVE  \E longer : Sums(w, text, longer, k)
<1> DEFINE longer == [n \in 0..k |-> IF n = k THEN at[k - 1] + w[text[k]] ELSE at[n]]
<1>1. w[text[k]] \in Nat /\ at \in [0..(k - 1) -> Nat] /\ at[0] = 0
      /\ \A n \in 1..(k - 1) : at[n] = at[n - 1] + w[text[n]]
  BY DEF Width, Sums
<1>2. longer \in [0..k -> Nat]
  BY <1>1
<1>3. longer[0] = 0
  BY <1>1
<1>4. ASSUME NEW n \in 1..k
      PROVE  longer[n] = longer[n - 1] + w[text[n]]
  <2>1. CASE n = k
    BY <1>1, <2>1
  <2>2. CASE n # k
    <3>1. n \in 1..(k - 1) /\ n - 1 # k
      BY <2>2
    <3> QED BY <1>1, <2>2, <3>1
  <2> QED BY <2>1, <2>2
<1> HIDE DEF longer
<1>5. Sums(w, text, longer, k)
  BY <1>2, <1>3, <1>4 DEF Sums
<1> QED
  BY <1>5

\* The recursive function is one: it adds up the widths of the characters.
LEMMA OffsetsSum ==
  ASSUME NEW w \in Width, NEW text \in Seq(Chars)
  PROVE  Sums(w, text, Offsets(w, text), Len(text))
<1> DEFINE last == Len(text)
           S == {n \in 0..last : \E at : Sums(w, text, at, n)}
<1>1. last \in Nat /\ \A k \in 1..last : w[text[k]] \in Nat
  BY DEF Width
<1>2. 0 \in S
  <2>1. Sums(w, text, [n \in 0..0 |-> 0], 0)
    BY DEF Sums
  <2> QED BY <1>1, <2>1
<1>3. ASSUME NEW k \in 1..last, k - 1 \in S
      PROVE  k \in S
  <2>1. PICK at : Sums(w, text, at, k - 1)
    BY <1>3
  <2>2. \E longer : Sums(w, text, longer, k)
    BY <2>1, SumsGrow
  <2> QED BY <1>1, <2>2
<1>4. last \in S
  <2> HIDE DEF S
  <2>1. 0..last \subseteq S
    BY <1>1, <1>2, <1>3, Induction
  <2> QED BY <1>1, <2>1
<1>5. PICK at : Sums(w, text, at, last)
  BY <1>4
<1>6. at = [n \in 0..Len(text) |-> IF n = 0 THEN 0 ELSE at[n - 1] + w[text[n]]]
  BY <1>1, <1>5 DEF Sums
<1> PICK o : o = Offsets(w, text)
  OBVIOUS
<1>7. o = [n \in 0..Len(text) |-> IF n = 0 THEN 0 ELSE o[n - 1] + w[text[n]]]
  BY <1>6 DEF Offsets
<1> HIDE DEF S
<1>8. ASSUME NEW k \in 0..last
      PROVE  o[k] = at[k]
  <2> DEFINE Same == {n \in 0..last : o[n] = at[n]}
  <2>1. 0 \in Same
    BY <1>1, <1>5, <1>7 DEF Sums
  <2>2. ASSUME NEW n \in 1..last, n - 1 \in Same
        PROVE  n \in Same
    <3>1. o[n] = o[n - 1] + w[text[n]]
      BY <1>1, <1>7
    <3>2. at[n] = at[n - 1] + w[text[n]]
      BY <1>5 DEF Sums
    <3> QED BY <2>2, <3>1, <3>2
  <2>3. 0..last \subseteq Same
    <3> HIDE DEF Same
    <3> QED BY <1>1, <2>1, <2>2, Induction
  <2> QED BY <2>3
<1>9. o = at
  <2>1. at = [n \in 0..last |-> at[n]] /\ o = [n \in 0..last |-> o[n]]
    BY <1>5, <1>7 DEF Sums
  <2> QED BY <1>8, <2>1
<1> QED
  BY <1>5, <1>9

\* Characters have a width: offsets grow.
LEMMA OffsetsGrow ==
  ASSUME NEW w \in Width, NEW text \in Seq(Chars),
         NEW j \in 0..Len(text), NEW k \in 0..Len(text), j < k
  PROVE  Offsets(w, text)[j] < Offsets(w, text)[k]
<1> PICK at : at = Offsets(w, text)
  OBVIOUS
<1> DEFINE S == {n \in 0..Len(text) : j < n => at[j] < at[n]}
<1>1. at \in [0..Len(text) -> Nat] /\ \A n \in 1..Len(text) : at[n] = at[n - 1] + w[text[n]]
  BY OffsetsSum DEF Sums
<1>2. Len(text) \in Nat /\ 0 \in S
  OBVIOUS
<1>3. ASSUME NEW n \in 1..Len(text), n - 1 \in S
      PROVE  n \in S
  <2>1. /\ at[n] = at[n - 1] + w[text[n]] /\ w[text[n]] \in Nat \ {0}
        /\ at[n] \in Nat /\ at[n - 1] \in Nat /\ at[j] \in Nat
        /\ j < n - 1 => at[j] < at[n - 1]
    <3>1. n \in 0..Len(text) /\ n - 1 \in 0..Len(text) /\ text[n] \in Chars
      OBVIOUS
    <3>2. w[text[n]] \in Nat \ {0}
      BY <3>1 DEF Width
    <3>3. at[n] \in Nat /\ at[n - 1] \in Nat /\ at[j] \in Nat
      BY <1>1, <3>1
    <3>4. j < n - 1 => at[j] < at[n - 1]
      BY <1>3
    <3> QED BY <1>1, <3>2, <3>3, <3>4
  <2>2. j < n => j = n - 1 \/ j < n - 1
    OBVIOUS
  <2>3. j < n => at[j] < at[n]
    BY <2>1, <2>2
  <2> QED BY <2>3
<1>4. k \in S
  <2> HIDE DEF S
  <2> QED BY <1>2, <1>3, Induction
<1> QED
  BY <1>4

\* Texts that begin alike have the same first offsets.
LEMMA OffsetsAgree ==
  ASSUME NEW w \in Width, NEW s \in Seq(Chars), NEW t \in Seq(Chars),
         NEW last \in Nat, last <= Len(s), last <= Len(t),
         \A n \in 1..last : s[n] = t[n]
  PROVE  \A n \in 0..last : Offsets(w, s)[n] = Offsets(w, t)[n]
<1> PICK a : a = Offsets(w, s)
  OBVIOUS
<1> PICK b : b = Offsets(w, t)
  OBVIOUS
<1> DEFINE S == {n \in 0..last : a[n] = b[n]}
<1>1. /\ a[0] = 0 /\ \A n \in 1..Len(s) : a[n] = a[n - 1] + w[s[n]]
      /\ b[0] = 0 /\ \A n \in 1..Len(t) : b[n] = b[n - 1] + w[t[n]]
  BY OffsetsSum DEF Sums
<1>2. 0 \in S
  BY <1>1
<1>3. ASSUME NEW n \in 1..last, n - 1 \in S
      PROVE  n \in S
  <2>1. n \in 1..Len(s) /\ n \in 1..Len(t) /\ s[n] = t[n]
    OBVIOUS
  <2> QED BY <1>1, <1>3, <2>1
<1>4. 0..last \subseteq S
  <2> HIDE DEF S
  <2> QED BY <1>2, <1>3, Induction
<1> QED
  BY <1>4

\* The offsets in the second of two texts start where the first one ends.
LEMMA OffsetsAppend ==
  ASSUME NEW w \in Width, NEW s \in Seq(Chars), NEW t \in Seq(Chars)
  PROVE  /\ \A n \in 0..Len(s) : Offsets(w, s \o t)[n] = Offsets(w, s)[n]
         /\ \A n \in 0..Len(t) :
               Offsets(w, s \o t)[Len(s) + n] = Offsets(w, s)[Len(s)] + Offsets(w, t)[n]
<1> PICK a : a = Offsets(w, s)
  OBVIOUS
<1> PICK b : b = Offsets(w, t)
  OBVIOUS
<1> PICK c : c = Offsets(w, s \o t)
  OBVIOUS
<1>1. /\ s \o t \in Seq(Chars) /\ Len(s \o t) = Len(s) + Len(t) /\ Len(s) \in Nat /\ Len(t) \in Nat
      /\ \A n \in 1..Len(s) : (s \o t)[n] = s[n]
      /\ \A n \in 1..Len(t) : (s \o t)[Len(s) + n] = t[n]
  OBVIOUS
<1>2. \A n \in 0..Len(s) : c[n] = a[n]
  <2>1. \A n \in 0..Len(s) : Offsets(w, s \o t)[n] = Offsets(w, s)[n]
    <3> PICK both : both = s \o t
      OBVIOUS
    <3>1. both \in Seq(Chars) /\ Len(s) <= Len(both) /\ Len(s) <= Len(s)
          /\ \A n \in 1..Len(s) : both[n] = s[n]
      BY <1>1
    <3>2. \A n \in 0..Len(s) : Offsets(w, both)[n] = Offsets(w, s)[n]
      BY <1>1, <3>1, OffsetsAgree
    <3> QED BY <3>2
  <2> QED BY <2>1
<1> DEFINE S == {n \in 0..Len(t) : c[Len(s) + n] = a[Len(s)] + b[n]}
<1>3. /\ \A n \in 1..Len(s \o t) : c[n] = c[n - 1] + w[(s \o t)[n]]
      /\ b \in [0..Len(t) -> Nat] /\ b[0] = 0
      /\ \A n \in 1..Len(t) : b[n] = b[n - 1] + w[t[n]]
      /\ a \in [0..Len(s) -> Nat]
  BY <1>1, OffsetsSum DEF Sums
<1>4. a[Len(s)] \in Nat
  BY <1>1, <1>3
<1>5. 0 \in S
  BY <1>1, <1>2, <1>3, <1>4
<1>6. ASSUME NEW n \in 1..Len(t), n - 1 \in S
      PROVE  n \in S
  <2> PICK m : m = Len(s) + n
    OBVIOUS
  <2>1. m \in 1..Len(s \o t) /\ m - 1 = Len(s) + (n - 1) /\ (s \o t)[m] = t[n]
    BY <1>1
  <2>2. c[Len(s) + n] = c[Len(s) + (n - 1)] + w[t[n]]
    <3>1. c[m] = c[m - 1] + w[(s \o t)[m]]
      BY <1>3, <2>1
    <3> QED BY <2>1, <3>1
  <2>3. c[Len(s) + (n - 1)] = a[Len(s)] + b[n - 1]
    BY <1>6
  <2>4. b[n] = b[n - 1] + w[t[n]] /\ w[t[n]] \in Nat /\ b[n - 1] \in Nat
    <3>1. n - 1 \in 0..Len(t) /\ t[n] \in Chars
      BY <1>1
    <3>2. w[t[n]] \in Nat
      BY <3>1 DEF Width
    <3> QED BY <1>3, <3>1, <3>2
  <2> QED BY <1>4, <2>2, <2>3, <2>4
<1>7. 0..Len(t) \subseteq S
  <2> HIDE DEF S
  <2> QED BY <1>1, <1>5, <1>6, Induction
<1> QED
  BY <1>2, <1>7

-----------------------------------------------------------------------------
(* Boundaries.                                                             *)

LEMMA Widths == Utf8 \in Width /\ Utf16 \in Width
BY TextFieldAssumption DEF Width

\* The boundaries of a text run from 0 to its length in bytes.
LEMMA BoundaryFacts ==
  ASSUME NEW text \in Seq(Chars)
  PROVE  /\ Bytes(text) \in Nat /\ Bytes(text) \in Boundaries(text) /\ 0 \in Boundaries(text)
         /\ Boundaries(text) \subseteq 0..Bytes(text)
         /\ \A b \in Boundaries(text) : \E k \in 0..Len(text) : b = Offsets(Utf8, text)[k]
<1> PICK at : at = Offsets(Utf8, text)
  OBVIOUS
<1>1. at \in [0..Len(text) -> Nat] /\ at[0] = 0 /\ Len(text) \in Nat
  BY Widths, OffsetsSum DEF Sums
<1>2. Boundaries(text) = {at[n] : n \in 0..Len(text)} /\ Bytes(text) = at[Len(text)]
  BY <1>1 DEF Boundaries, Bytes
<1>3. ASSUME NEW k \in 0..Len(text)
      PROVE  at[k] \in 0..at[Len(text)]
  <2>1. Len(text) \in 0..Len(text)
    BY <1>1
  <2>2. CASE k = Len(text)
    BY <1>1, <2>2
  <2>3. CASE k # Len(text)
    <3>1. at[k] < at[Len(text)]
      BY <1>1, <2>1, <2>3, Widths, OffsetsGrow
    <3> QED BY <1>1, <2>1, <3>1
  <2> QED BY <2>2, <2>3
<1>4. 0 \in 0..Len(text) /\ Len(text) \in 0..Len(text)
  BY <1>1
<1> QED
  BY <1>1, <1>2, <1>3, <1>4

\* clamped_char_boundary answers with a boundary that is not after the offset.
LEMMA ClampedFacts ==
  ASSUME NEW text \in Seq(Chars), NEW at \in Nat
  PROVE  Clamped(text, at) \in Boundaries(text) /\ Clamped(text, at) <= at
<1> DEFINE T == {b \in Boundaries(text) : b <= at}
<1>1. T \subseteq 0..at /\ 0 \in T
  BY BoundaryFacts
<1>2. Greatest(T) \in T
  <2> HIDE DEF T
  <2> QED BY <1>1, GreatestFacts
<1> QED
  BY <1>2 DEF Clamped

LEMMA CharsOfType ==
  ASSUME NEW text \in Seq(Chars), NEW from, NEW to
  PROVE  CharsOf(text, from, to) \in Seq(Chars)
<1> DEFINE at == Offsets(Utf8, text)
           inside == {n \in DOMAIN text : from <= at[n - 1] /\ at[n - 1] < to}
<1>1. CharsOf(text, from, to) =
        IF inside = {} THEN << >> ELSE SubSeq(text, Least(inside), Greatest(inside))
  BY DEF CharsOf
<1>2. inside \subseteq 1..Len(text) /\ Len(text) \in Nat
  OBVIOUS
<1>3. CASE inside = {}
  BY <1>1, <1>3
<1>4. CASE inside # {}
  <2>1. Least(inside) \in 1..Len(text) /\ Greatest(inside) \in 1..Len(text)
    <3> HIDE DEF inside
    <3>1. inside \subseteq Nat /\ inside \subseteq 0..Len(text)
      BY <1>2
    <3>2. Least(inside) \in inside
      BY <1>4, <3>1, LeastFacts
    <3>3. Greatest(inside) \in inside
      BY <1>2, <1>4, <3>1, GreatestFacts
    <3> QED BY <1>2, <3>2, <3>3
  <2> HIDE DEF inside
  <2>2. SubSeq(text, Least(inside), Greatest(inside)) \in Seq(Chars)
    BY <2>1
  <2> QED BY <1>1, <1>4, <2>2
<1> QED
  BY <1>3, <1>4

\* The characters before a boundary end there.
LEMMA PrefixFacts ==
  ASSUME NEW text \in Seq(Chars), NEW start \in Boundaries(text)
  PROVE  Bytes(CharsOf(text, 0, start)) = start
<1> DEFINE at == Offsets(Utf8, text)
           inside == {n \in DOMAIN text : 0 <= at[n - 1] /\ at[n - 1] < start}
<1>1. at \in [0..Len(text) -> Nat] /\ at[0] = 0 /\ Len(text) \in Nat
  BY Widths, OffsetsSum DEF Sums
<1>2. PICK k \in 0..Len(text) : start = at[k]
  BY BoundaryFacts
<1>3. \A i, j \in 0..Len(text) : i < j => at[i] < at[j]
  BY Widths, OffsetsGrow
<1>4. CharsOf(text, 0, start) =
        IF inside = {} THEN << >> ELSE SubSeq(text, Least(inside), Greatest(inside))
  BY DEF CharsOf
<1>5. inside = 1..k
  <2> HIDE DEF at
  <2>1. ASSUME NEW n \in 1..Len(text)
        PROVE  n \in inside <=> n <= k
    <3>1. n - 1 \in 0..Len(text) /\ at[n - 1] \in Nat /\ at[k] \in Nat
      BY <1>1
    <3>2. n - 1 < k => at[n - 1] < at[k]
      BY <1>3, <3>1
    <3>3. k < n - 1 => at[k] < at[n - 1]
      BY <1>3, <3>1
    <3>4. n <= k \/ n - 1 = k \/ k < n - 1
      BY <1>1
    <3> QED BY <1>2, <3>1, <3>2, <3>3, <3>4
  <2> QED BY <1>1, <2>1
<1> HIDE DEF at, inside
<1> PICK before : before = CharsOf(text, 0, start)
  OBVIOUS
<1>6. before \in Seq(Chars) /\ Len(before) = k /\ \A n \in 1..k : before[n] = text[n]
  <2>1. CASE k = 0
    <3>1. 1..k = {}
      BY <2>1
    <3>2. before = << >>
      BY <1>4, <1>5, <3>1
    <3>3. \A n \in 1..k : before[n] = text[n]
      BY <3>1
    <3>4. before \in Seq(Chars) /\ Len(before) = 0
      <4>1. << >> \in Seq(Chars) /\ Len(<< >>) = 0
        OBVIOUS
      <4> QED BY <3>2, <4>1, Zenon
    <3> QED BY <2>1, <3>3, <3>4
  <2>2. CASE k # 0
    <3>1. 1..k # {} /\ 1..k \subseteq Nat /\ 1..k \subseteq 0..k /\ k \in Nat /\ 1 \in 1..k /\ k \in 1..k
      BY <1>1, <2>2
    <3>2. Least(1..k) = 1
      <4>1. Least(1..k) \in 1..k /\ Least(1..k) <= 1
        BY <3>1, LeastFacts
      <4> QED BY <3>1, <4>1
    <3>3. Greatest(1..k) = k
      <4>1. Greatest(1..k) \in 1..k /\ k <= Greatest(1..k)
        BY <3>1, GreatestFacts
      <4> QED BY <3>1, <4>1
    <3>4. before = SubSeq(text, 1, k)
      BY <1>4, <1>5, <3>1, <3>2, <3>3
    <3> QED BY <1>1, <3>1, <3>4
  <2> QED BY <2>1, <2>2
<1>7. Offsets(Utf8, before)[k] = at[k]
  <2>1. \A n \in 0..k : Offsets(Utf8, before)[n] = Offsets(Utf8, text)[n]
    BY <1>1, <1>6, Widths, OffsetsAgree, SMTT(30)
  <2> QED BY <1>1, <2>1 DEF at
<1> QED
  BY <1>2, <1>6, <1>7 DEF Bytes

\* Each of three texts that are put together ends at a boundary of the whole.
LEMMA JoinFacts ==
  ASSUME NEW a \in Seq(Chars), NEW b \in Seq(Chars), NEW c \in Seq(Chars)
  PROVE  /\ Bytes(a) \in Boundaries(a \o b \o c)
         /\ Bytes(a) + Bytes(b) \in Boundaries(a \o b \o c)
<1> DEFINE ab == a \o b
           abc == ab \o c
<1>1. /\ ab \in Seq(Chars) /\ abc \in Seq(Chars)
      /\ Len(ab) = Len(a) + Len(b) /\ Len(abc) = Len(ab) + Len(c)
      /\ Len(a) \in Nat /\ Len(b) \in Nat /\ Len(c) \in Nat
  OBVIOUS
<1>2. Len(a) \in 0..Len(a) /\ Len(b) \in 0..Len(b)
      /\ Len(a) \in 0..Len(ab) /\ Len(ab) \in 0..Len(ab)
      /\ Len(a) \in 0..Len(abc) /\ Len(ab) \in 0..Len(abc)
  BY <1>1
<1>3. /\ Offsets(Utf8, ab)[Len(a)] = Offsets(Utf8, a)[Len(a)]
      /\ Offsets(Utf8, ab)[Len(a) + Len(b)] = Offsets(Utf8, a)[Len(a)] + Offsets(Utf8, b)[Len(b)]
  <2> HIDE DEF abc
  <2> QED BY <1>2, Widths, OffsetsAppend
<1> HIDE DEF ab
<1>4. /\ Offsets(Utf8, abc)[Len(a)] = Offsets(Utf8, ab)[Len(a)]
      /\ Offsets(Utf8, abc)[Len(ab)] = Offsets(Utf8, ab)[Len(ab)]
  BY <1>1, <1>2, Widths, OffsetsAppend
<1> HIDE DEF abc
<1>5. Boundaries(abc) = {Offsets(Utf8, abc)[n] : n \in 0..Len(abc)}
  <2>1. DOMAIN Offsets(Utf8, abc) = 0..Len(abc)
    BY <1>1, Widths, OffsetsSum DEF Sums
  <2> QED BY <2>1 DEF Boundaries
<1>6. /\ Offsets(Utf8, abc)[Len(a)] = Bytes(a)
      /\ Offsets(Utf8, abc)[Len(ab)] = Bytes(a) + Bytes(b)
  BY <1>1, <1>3, <1>4 DEF Bytes
<1>7. Bytes(a) \in Boundaries(abc) /\ Bytes(a) + Bytes(b) \in Boundaries(abc)
  BY <1>2, <1>5, <1>6
<1> QED
  BY <1>7 DEF ab, abc

-----------------------------------------------------------------------------
(* The field.                                                              *)

Span == [start : Nat, end : Nat]
FieldState ==
    [content : Seq(Chars), selected : Span, reversed : BOOLEAN, marked : Span \cup {NoRange},
     painted : Seq(Chars), selecting : BOOLEAN, panic : {NoRange, "copy", "utf16"}]

\* What is marked is a part of the text, whatever the selection says.
Sound(f) == f \in FieldState /\ (f.marked # NoRange => Sliceable(f.content, f.marked))

LEMMA UnitFacts ==
  ASSUME NEW text \in Seq(Chars), NEW unit
  PROVE  FromUtf16(text, unit) \in Nat
<1> DEFINE chars == {n \in DOMAIN text : Offsets(Utf16, text)[n - 1] >= unit}
<1>1. chars \subseteq 1..Len(text) /\ Len(text) \in Nat
  OBVIOUS
<1>2. FromUtf16(text, unit) = IF chars = {} THEN Bytes(text)
                              ELSE Offsets(Utf8, text)[Least(chars) - 1]
  BY DEF FromUtf16
<1> HIDE DEF chars
<1>3. CASE chars # {}
  <2>1. Least(chars) \in chars
    <3>1. chars \subseteq Nat
      BY <1>1
    <3> QED BY <1>3, <3>1, LeastFacts
  <2>2. Least(chars) - 1 \in 0..Len(text)
    <3> PICK m : m = Least(chars)
      OBVIOUS
    <3>1. m \in 1..Len(text)
      BY <1>1, <2>1
    <3>2. m - 1 \in 0..Len(text)
      BY <1>1, <3>1
    <3> QED BY <3>2
  <2>3. Offsets(Utf8, text) \in [0..Len(text) -> Nat]
    BY Widths, OffsetsSum DEF Sums
  <2> QED BY <1>2, <1>3, <2>2, <2>3
<1> QED
  BY <1>2, <1>3, BoundaryFacts

LEMMA StepFacts ==
  ASSUME NEW f \in FieldState, NEW at
  PROVE  Previous(f, at) \in Nat /\ Following(f, at) \in Nat /\ Cursor(f) \in Nat
<1> DEFINE before == {b \in Starts8(f.content) : b < at}
           after == {b \in Starts8(f.content) : b > at}
<1>1. f.content \in Seq(Chars)
  BY DEF FieldState
<1>2. Starts8(f.content) \subseteq 0..Bytes(f.content) /\ Bytes(f.content) \in Nat
  BY <1>1, BoundaryFacts DEF Starts8
<1>3. before \subseteq 0..Bytes(f.content) /\ after \subseteq Nat
  BY <1>2
<1>4. /\ Previous(f, at) = IF before = {} THEN 0 ELSE Greatest(before)
      /\ Following(f, at) = IF after = {} THEN Bytes(f.content) ELSE Least(after)
  BY DEF Previous, Following
<1> HIDE DEF before, after
<1>5. before # {} => Greatest(before) \in before
  BY <1>2, <1>3, GreatestFacts
<1>6. after # {} => Least(after) \in after
  BY <1>3, LeastFacts
<1>7. Previous(f, at) \in Nat
  <2>1. before # {} => Greatest(before) \in 0..Bytes(f.content)
    BY <1>3, <1>5
  <2>2. before # {} => Greatest(before) \in Nat
    BY <1>2, <2>1
  <2> QED BY <1>4, <2>2
<1>8. Following(f, at) \in Nat
  BY <1>2, <1>3, <1>4, <1>6
<1>9. Cursor(f) \in Nat
  BY DEF Cursor, FieldState, Span
<1> QED
  BY <1>7, <1>8, <1>9

\* Moving and selecting leave the text and its mark alone.
LEMMA MoveFacts ==
  ASSUME NEW f, Sound(f), NEW at \in Nat
  PROVE  /\ Sound(MoveTo(f, at)) /\ MoveTo(f, at).content = f.content
         /\ Sound(SelectTo(f, at)) /\ SelectTo(f, at).content = f.content
<1>1. f \in FieldState /\ f.selected \in Span
  BY DEF Sound, FieldState
<1>2. ASSUME NEW range \in Span, NEW backwards \in BOOLEAN, NEW g,
             g = [f EXCEPT !.selected = range, !.reversed = backwards]
      PROVE  Sound(g) /\ g.content = f.content
  <2>1. g \in FieldState /\ g.content = f.content /\ g.marked = f.marked
    BY <1>1, <1>2 DEF FieldState
  <2> QED BY <2>1 DEF Sound
<1>3. Sound(MoveTo(f, at)) /\ MoveTo(f, at).content = f.content
  <2>1. [start |-> at, end |-> at] \in Span
    BY DEF Span
  <2> QED BY <1>2, <2>1 DEF MoveTo
<1>4. Sound(SelectTo(f, at)) /\ SelectTo(f, at).content = f.content
  <2> PICK new : new = IF f.reversed THEN [f.selected EXCEPT !.start = at]
                       ELSE [f.selected EXCEPT !.end = at]
    OBVIOUS
  <2>1. new \in Span /\ [start |-> new.end, end |-> new.start] \in Span
    BY <1>1 DEF Span
  <2>2. CASE new.end < new.start
    <3>1. SelectTo(f, at) = [f EXCEPT !.selected = [start |-> new.end, end |-> new.start],
                                      !.reversed = ~f.reversed]
      BY <2>2 DEF SelectTo
    <3>2. (~f.reversed) \in BOOLEAN
      OBVIOUS
    <3> PICK g : g = SelectTo(f, at)
      OBVIOUS
    <3>3. Sound(g) /\ g.content = f.content
      BY <1>2, <2>1, <3>1, <3>2
    <3> QED BY <3>3
  <2>3. CASE ~ new.end < new.start
    <3>1. SelectTo(f, at) = [f EXCEPT !.selected = new]
      BY <2>3 DEF SelectTo
    <3>2. SelectTo(f, at) \in FieldState /\ SelectTo(f, at).content = f.content
          /\ SelectTo(f, at).marked = f.marked
      BY <1>1, <2>1, <3>1 DEF FieldState
    <3> QED BY <3>2 DEF Sound
  <2> QED BY <2>2, <2>3
<1> QED
  BY <1>3, <1>4

\* The field with another text and the cursor in it.
Retyped(f, chars, at) ==
    [f EXCEPT !.content = chars, !.selected = [start |-> at, end |-> at], !.marked = NoRange]

LEMMA RetypedFacts ==
  ASSUME NEW f \in FieldState, NEW chars \in Seq(Chars), NEW at \in Nat
  PROVE  /\ Retyped(f, chars, at) \in FieldState
         /\ Retyped(f, chars, at).content = chars /\ Retyped(f, chars, at).marked = NoRange
         /\ Retyped(f, chars, at).selected.end = at /\ Retyped(f, chars, at).panic = f.panic
BY DEF Retyped, FieldState, Span

\* A field whose last change was to put a piece of text in.
EndsPiece(f, piece) ==
    \E start \in Boundaries(f.content) :
        start + Bytes(piece) \in Boundaries(f.content) /\ f.selected.end = start + Bytes(piece)

LEMMA JoinedFacts ==
  ASSUME NEW f \in FieldState,
         NEW before \in Seq(Chars), NEW piece \in Seq(Chars), NEW after \in Seq(Chars)
  PROVE  LET g == Retyped(f, before \o piece \o after, Bytes(before) + Bytes(piece))
         IN  Sound(g) /\ g.panic = f.panic /\ EndsPiece(g, piece)
<1>1. before \o piece \o after \in Seq(Chars) /\ Bytes(before) + Bytes(piece) \in Nat
  <2>1. Bytes(before) \in Nat /\ Bytes(piece) \in Nat
    BY BoundaryFacts
  <2> QED BY <2>1
<1>2. ASSUME NEW chars \in Seq(Chars), NEW at \in Nat,
             Bytes(before) \in Boundaries(chars), at \in Boundaries(chars),
             at = Bytes(before) + Bytes(piece),
             NEW g \in FieldState, g.content = chars, g.marked = NoRange,
             g.selected.end = at, g.panic = f.panic
      PROVE  Sound(g) /\ g.panic = f.panic /\ EndsPiece(g, piece)
  <2>1. Sound(g)
    BY <1>2 DEF Sound
  <2>2. EndsPiece(g, piece)
    BY <1>2 DEF EndsPiece
  <2> QED BY <1>2, <2>1, <2>2
<1> DEFINE whole == before \o piece \o after
           end == Bytes(before) + Bytes(piece)
<1>3. Bytes(before) \in Boundaries(whole) /\ end \in Boundaries(whole)
  BY JoinFacts
<1>4. /\ Retyped(f, whole, end) \in FieldState
      /\ Retyped(f, whole, end).content = whole /\ Retyped(f, whole, end).marked = NoRange
      /\ Retyped(f, whole, end).selected.end = end /\ Retyped(f, whole, end).panic = f.panic
  <2>1. whole \in Seq(Chars) /\ end \in Nat
    BY <1>1
  <2> HIDE DEF whole, end
  <2> QED BY <2>1 DEF Retyped, FieldState, Span
<1> HIDE DEF whole
<1>5. /\ Sound(Retyped(f, whole, end)) /\ Retyped(f, whole, end).panic = f.panic
      /\ EndsPiece(Retyped(f, whole, end), piece)
  <2>1. whole \in Seq(Chars) /\ end \in Nat
    BY <1>1 DEF whole
  <2> HIDE DEF end
  <2>2. end = Bytes(before) + Bytes(piece)
    BY DEF end
  <2> QED BY <1>2, <1>3, <1>4, <2>1, <2>2
<1> QED
  BY <1>5 DEF whole

\* Text is replaced at boundaries, and ends at one.
LEMMA ReplaceFacts ==
  ASSUME NEW f, Sound(f), NEW range16, NEW piece \in Seq(Chars)
  PROVE  LET g == Replace(f, range16, piece)
         IN  Sound(g) /\ g.panic = f.panic /\ EndsPiece(g, piece)
<1> PICK range : range = IF range16 # NoRange THEN RangeFromUtf16(f.content, range16)
                         ELSE IF f.marked # NoRange THEN f.marked ELSE f.selected
  OBVIOUS
<1> PICK start : start = Clamped(f.content, range.start)
  OBVIOUS
<1> PICK last : last = Clamped(f.content, range.end)
  OBVIOUS
<1> PICK end : end = IF last < start THEN start ELSE last
  OBVIOUS
<1>1. f \in FieldState /\ f.content \in Seq(Chars)
  BY DEF Sound, FieldState
<1>2. range.start \in Nat /\ range.end \in Nat
  BY <1>1, UnitFacts DEF FieldState, Span, RangeFromUtf16
<1>3. /\ start \in Boundaries(f.content) /\ last \in Boundaries(f.content)
      /\ start \in Nat /\ last \in Nat
  <2>1. ASSUME NEW at \in Nat
        PROVE  Clamped(f.content, at) \in Boundaries(f.content) /\ Clamped(f.content, at) \in Nat
    <3>1. Clamped(f.content, at) \in Boundaries(f.content)
      BY <1>1, ClampedFacts
    <3>2. Clamped(f.content, at) \in 0..Bytes(f.content)
      BY <1>1, <3>1, BoundaryFacts
    <3> QED BY <3>1, <3>2
  <2> QED BY <1>2, <2>1, Zenon
<1>4. end \in Boundaries(f.content) /\ start <= end
  BY <1>3
<1>5. Sliceable(f.content, [start |-> start, end |-> end])
  BY <1>3, <1>4 DEF Sliceable
<1>6. Replace(f, range16, piece) =
        Retyped(f, CharsOf(f.content, 0, start) \o piece \o CharsOf(f.content, end, Bytes(f.content)),
                start + Bytes(piece))
  BY <1>5 DEF Replace, Retyped
<1>7. /\ CharsOf(f.content, 0, start) \in Seq(Chars)
      /\ CharsOf(f.content, end, Bytes(f.content)) \in Seq(Chars)
      /\ Bytes(CharsOf(f.content, 0, start)) = start
  BY <1>1, <1>3, CharsOfType, PrefixFacts
<1> DEFINE before == CharsOf(f.content, 0, start)
           after == CharsOf(f.content, end, Bytes(f.content))
           h == Retyped(f, before \o piece \o after, Bytes(before) + Bytes(piece))
<1>8. Sound(h) /\ h.panic = f.panic /\ EndsPiece(h, piece)
  <2> HIDE DEF before, after
  <2>1. before \in Seq(Chars) /\ after \in Seq(Chars)
    BY <1>7 DEF before, after
  <2>2. LET g == Retyped(f, before \o piece \o after, Bytes(before) + Bytes(piece))
        IN  Sound(g) /\ g.panic = f.panic /\ EndsPiece(g, piece)
    BY <1>1, <2>1, JoinedFacts
  <2> QED BY <2>2
<1>9. Replace(f, range16, piece) = h
  BY <1>6, <1>7, Zenon
<1> HIDE DEF h
<1> QED
  BY <1>8, <1>9, Zenon

\* A composition marks the text it has put in.
LEMMA MarkedFacts ==
  ASSUME NEW f, Sound(f), NEW range16, NEW piece \in Seq(Chars), NEW selection16
  PROVE  Sound(Marked(f, range16, piece, selection16))
<1> PICK g : g = Replace(f, range16, piece)
  OBVIOUS
<1> PICK within : within = RangeFromUtf16(g.content, selection16)
  OBVIOUS
<1>1. /\ Sound(g) /\ g.panic = f.panic
      /\ \E start \in Boundaries(g.content) :
            /\ start + Bytes(piece) \in Boundaries(g.content)
            /\ g.selected.end = start + Bytes(piece)
  BY ReplaceFacts DEF EndsPiece
<1>2. g \in FieldState /\ g.content \in Seq(Chars) /\ Bytes(piece) \in Nat
      /\ Boundaries(g.content) \subseteq Nat
  <2>1. g \in FieldState /\ g.content \in Seq(Chars)
    BY <1>1 DEF Sound, FieldState
  <2> QED BY <2>1, BoundaryFacts
<1> PICK end : end = g.selected.end
  OBVIOUS
<1> PICK start : start = end - Bytes(piece)
  OBVIOUS
<1> PICK h : h = [g EXCEPT !.marked = [start |-> start, end |-> end]]
  OBVIOUS
<1>3. {start, end} \subseteq Boundaries(g.content) /\ start <= end /\ start \in Nat /\ end \in Nat
  BY <1>1, <1>2
<1>4. h \in FieldState /\ h.content = g.content /\ h.marked = [start |-> start, end |-> end]
  BY <1>2, <1>3 DEF FieldState, Span
<1>5. Sound(h)
  BY <1>3, <1>4 DEF Sound, Sliceable
<1>6. within.start \in Nat /\ within.end \in Nat
  BY <1>2, UnitFacts DEF RangeFromUtf16
<1> PICK selected : selected = [start |-> start + within.start, end |-> start + within.end]
  OBVIOUS
<1>7. Sound([h EXCEPT !.selected = selected])
  <2> PICK k : k = [h EXCEPT !.selected = selected]
    OBVIOUS
  <2>1. selected \in Span
    BY <1>3, <1>6 DEF Span
  <2>2. k \in FieldState /\ k.content = h.content /\ k.marked = h.marked
    BY <1>4, <2>1, ZenonT(30) DEF FieldState
  <2>3. Sound(k)
    BY <1>5, <2>2 DEF Sound
  <2> QED BY <2>3
<1>8. Marked(f, range16, piece, selection16) \in {g, h, [h EXCEPT !.selected = selected]}
  BY DEF Marked
<1> QED
  BY <1>1, <1>5, <1>7, <1>8

-----------------------------------------------------------------------------
(* Every step.                                                             *)

FieldInv == Sound(field) /\ Fits(field)

LEMMA EditStep ==
  ASSUME NEW f, Sound(f), Edits(f)
  PROVE  FieldInv'
BY DEF Edits, Becomes, FieldInv, Fits

\* A step that leaves the text as it is.
LEMMA SameTextStep ==
  ASSUME FieldInv, NEW f, Sound(f), f.content = field.content, Becomes(f)
  PROVE  FieldInv'
BY DEF Becomes, FieldInv, Fits

LEMMA KeyStep ==
  ASSUME FieldInv,
         \/ Left \/ Right \/ SelectLeft \/ SelectRight \/ SelectAll \/ Home \/ End
         \/ Backspace \/ Delete
  PROVE  FieldInv'
<1>1. /\ Sound(field) /\ field \in FieldState /\ field.content \in Seq(Chars)
      /\ field.selected.start \in Nat /\ field.selected.end \in Nat
  BY DEF FieldInv, Sound, FieldState, Span
<1>2. /\ Bytes(field.content) \in Nat /\ Cursor(field) \in Nat
      /\ Previous(field, Cursor(field)) \in Nat /\ Following(field, Cursor(field)) \in Nat
  BY <1>1, BoundaryFacts, StepFacts
<1>3. ASSUME NEW at \in Nat, Becomes(MoveTo(field, at)) \/ Becomes(SelectTo(field, at))
      PROVE  FieldInv'
  BY <1>1, <1>3, MoveFacts, SameTextStep
<1>4. ASSUME SelectAll
      PROVE  FieldInv'
  <2>1. Sound(MoveTo(field, 0)) /\ MoveTo(field, 0).content = field.content
    BY <1>1, MoveFacts
  <2>2. LET f == SelectTo(MoveTo(field, 0), Bytes(field.content))
        IN  Sound(f) /\ f.content = field.content
    BY <1>2, <2>1, MoveFacts
  <2> QED BY <1>4, <2>2, SameTextStep DEF SelectAll
<1>5. ASSUME NEW to \in Nat, Erase(to)
      PROVE  FieldInv'
  <2>1. << >> \in Seq(Chars)
    OBVIOUS
  <2>2. Sound(Replace(field, NoRange, << >>))
    BY <1>1, <2>1, ReplaceFacts
  <2>3. Sound(Replace(SelectTo(field, to), NoRange, << >>))
    BY <1>1, <2>1, MoveFacts, ReplaceFacts
  <2>4. Edits(Replace(field, NoRange, << >>)) \/ Edits(Replace(SelectTo(field, to), NoRange, << >>))
    BY <1>5 DEF Erase
  <2> QED BY <2>2, <2>3, <2>4, EditStep
<1>6. CASE Left \/ Right \/ Home \/ End
  <2>1. \E at \in Nat : Becomes(MoveTo(field, at))
    BY <1>1, <1>2, <1>6 DEF Left, Right, Home, End
  <2> QED BY <1>3, <2>1
<1>7. CASE SelectLeft \/ SelectRight
  BY <1>2, <1>3, <1>7 DEF SelectLeft, SelectRight
<1>8. CASE Backspace \/ Delete
  BY <1>2, <1>5, <1>8 DEF Backspace, Delete
<1> QED
  BY <1>4, <1>6, <1>7, <1>8

\* The platform can name a place off every boundary: the field panics there, and
\* keeps its text.
LEMMA PanicStep ==
  ASSUME FieldInv, NEW where \in {"copy", "utf16"}, Becomes(Panics(field, where))
  PROVE  FieldInv'
<1> PICK f : f = Panics(field, where)
  OBVIOUS
<1>1. f \in FieldState /\ f.content = field.content /\ f.marked = field.marked
  BY DEF Panics, FieldInv, Sound, FieldState
<1>2. Sound(f)
  BY <1>1 DEF FieldInv, Sound
<1> QED
  BY <1>1, <1>2, SameTextStep

LEMMA TextStep ==
  ASSUME FieldInv,
         \/ \E piece \in Pieces : Paste(piece)
         \/ CopyText \/ CutText \/ Clear
         \/ \E range \in Ranges16(MaxUnits), piece \in Pieces \cup {<< >>} :
               \/ Insert(range, piece)
               \/ \E selection \in Ranges16(Units(piece)) : Compose(range, piece, selection)
  PROVE  FieldInv'
<1>1. Sound(field) /\ field \in FieldState
  BY DEF FieldInv, Sound
<1>2. Pieces \cup {<< >>} \subseteq Seq(Chars)
  <2>1. Pieces \subseteq Seq(Chars)
    BY TextFieldAssumption
  <2>2. << >> \in Seq(Chars)
    OBVIOUS
  <2> QED BY <2>1, <2>2, Zenon
<1>3. ASSUME NEW range, NEW piece \in Seq(Chars), Edits(Replace(field, range, piece))
      PROVE  FieldInv'
  <2>1. Sound(Replace(field, range, piece))
    BY <1>1, ReplaceFacts
  <2> QED BY <1>3, <2>1, EditStep
<1>4. CASE \E piece \in Pieces : Paste(piece)
  BY <1>2, <1>3, <1>4 DEF Paste
<1>5. CASE CopyText
  BY <1>5, PanicStep DEF CopyText
<1>6. CASE CutText
  <2>1. Edits(Replace(field, NoRange, << >>)) \/ Becomes(Panics(field, "copy"))
    BY <1>6 DEF CutText
  <2> QED BY <1>2, <1>3, <2>1, PanicStep
<1>7. CASE Clear
  <2> PICK f : f = [field EXCEPT !.content = << >>, !.selected = [start |-> 0, end |-> 0],
                                 !.reversed = FALSE, !.marked = NoRange]
    OBVIOUS
  <2>1. f \in FieldState /\ f.content = << >> /\ f.marked = NoRange
    BY <1>1, <1>2 DEF FieldState, Span
  <2>2. Sound(f) /\ Fits(f)
    BY <2>1, TextFieldAssumption DEF Sound, Fits
  <2>3. Edits(f)
    BY <1>7, <2>2 DEF Clear, Edits
  <2> QED BY <2>2, <2>3, EditStep
<1>8. ASSUME NEW range, NEW piece \in Pieces \cup {<< >>}, Insert(range, piece)
      PROVE  FieldInv'
  BY <1>2, <1>3, <1>8 DEF Insert
<1>9. ASSUME NEW range, NEW piece \in Pieces \cup {<< >>}, NEW selection,
             Compose(range, piece, selection)
      PROVE  FieldInv'
  <2>1. Sound(Marked(field, range, piece, selection))
    BY <1>1, <1>2, MarkedFacts
  <2> QED BY <1>9, <2>1, EditStep DEF Compose
<1> QED
  BY <1>4, <1>5, <1>6, <1>7, <1>8, <1>9

LEMMA PointerStep ==
  ASSUME FieldInv,
         \/ \E at \in PointedAt :
               \/ \E shift \in BOOLEAN : MouseDown(at, shift)
               \/ MouseMove(at) \/ AskIndex(at)
         \/ MouseUp
  PROVE  FieldInv'
<1>1. /\ Sound(field) /\ field \in FieldState
      /\ field.content \in Seq(Chars) /\ field.painted \in Seq(Chars)
  BY DEF FieldInv, Sound, FieldState
<1>2. PointedAt \subseteq Nat
  BY <1>1, BoundaryFacts DEF PointedAt
<1>3. ASSUME NEW f, Sound(f), f.content = field.content, NEW pressed \in BOOLEAN,
             Becomes([f EXCEPT !.selecting = pressed])
      PROVE  FieldInv'
  <2> PICK g : g = [f EXCEPT !.selecting = pressed]
    OBVIOUS
  <2>1. g \in FieldState /\ g.content = f.content /\ g.marked = f.marked
    BY <1>3 DEF Sound, FieldState
  <2>2. Sound(g)
    BY <1>3, <2>1 DEF Sound
  <2> QED BY <1>3, <2>1, <2>2, SameTextStep
<1>4. ASSUME NEW at \in PointedAt, NEW shift \in BOOLEAN, MouseDown(at, shift)
      PROVE  FieldInv'
  <2> PICK f : f = IF shift THEN SelectTo(field, at) ELSE MoveTo(field, at)
    OBVIOUS
  <2>1. Sound(f) /\ f.content = field.content
    BY <1>1, <1>2, MoveFacts
  <2>2. Becomes([f EXCEPT !.selecting = TRUE])
    BY <1>4 DEF MouseDown
  <2> QED BY <1>3, <2>1, <2>2
<1>5. ASSUME NEW at \in PointedAt, MouseMove(at)
      PROVE  FieldInv'
  BY <1>1, <1>2, <1>5, MoveFacts, SameTextStep DEF MouseMove
<1>6. ASSUME NEW at \in PointedAt, AskIndex(at)
      PROVE  FieldInv'
  BY <1>6, PanicStep DEF AskIndex, Ask
<1>7. CASE MouseUp
  BY <1>1, <1>3, <1>7 DEF MouseUp
<1> QED
  BY <1>4, <1>5, <1>6, <1>7

LEMMA PaintStep ==
  ASSUME FieldInv, Unmark \/ AskSelection \/ AskMarked \/ Paint
  PROVE  FieldInv'
<1>1. /\ Sound(field) /\ field \in FieldState /\ field.content \in Seq(Chars)
  BY DEF FieldInv, Sound, FieldState
<1>2. CASE Unmark
  <2> PICK f : f = [field EXCEPT !.marked = NoRange]
    OBVIOUS
  <2>1. f \in FieldState /\ f.content = field.content /\ f.marked = NoRange
    BY <1>1 DEF FieldState
  <2>2. Sound(f)
    BY <2>1 DEF Sound
  <2> QED BY <1>2, <2>1, <2>2, SameTextStep DEF Unmark
<1>3. CASE AskSelection \/ AskMarked
  BY <1>3, PanicStep DEF AskSelection, AskMarked, Ask
<1>4. CASE Paint
  <2>1. ~ (field.marked # NoRange /\ field.content # << >>
             /\ field.marked.end > Bytes(field.content))
    <3>1. field.marked # NoRange => field.marked.end \in Boundaries(field.content)
      BY <1>1 DEF Sound, Sliceable
    <3>2. field.marked # NoRange => field.marked.end \in 0..Bytes(field.content)
      BY <1>1, <3>1, BoundaryFacts
    <3>3. Bytes(field.content) \in Nat
      BY <1>1, BoundaryFacts
    <3> QED BY <3>2, <3>3
  <2> PICK shown : shown = IF field.content = << >> THEN Placeholder ELSE field.content
    OBVIOUS
  <2> PICK f : f = [field EXCEPT !.painted = shown]
    OBVIOUS
  <2>2. Becomes(f)
    BY <1>4, <2>1 DEF Paint
  <2>3. shown \in Seq(Chars)
    BY <1>1, TextFieldAssumption
  <2>4. f \in FieldState /\ f.content = field.content /\ f.marked = field.marked
    BY <1>1, <2>3 DEF FieldState
  <2>5. Sound(f)
    BY <1>1, <2>4 DEF Sound
  <2> QED BY <2>2, <2>4, <2>5, SameTextStep
<1> QED
  BY <1>2, <1>3, <1>4

\* Whatever is typed, pasted, composed, pointed at or asked, in whatever order:
\* what is marked is a part of the text, between two characters at either end.
LEMMA FieldInvariant == TextFieldSpec => []FieldInv
<1>1. TextFieldInit => FieldInv
  <2> SUFFICES ASSUME TextFieldInit PROVE FieldInv
    OBVIOUS
  <2>1. << >> \in Seq(Chars) /\ Len(<< >>) = 0
    OBVIOUS
  <2>2. field \in FieldState /\ field.marked = NoRange /\ Len(field.content) = 0
    BY <2>1 DEF TextFieldInit, FieldState, Span
  <2>3. Sound(field)
    BY <2>2 DEF Sound
  <2> QED BY <2>2, <2>3, TextFieldAssumption DEF FieldInv, Fits
<1>2. FieldInv /\ [TextFieldNext]_field => FieldInv'
  <2> SUFFICES ASSUME FieldInv, [TextFieldNext]_field PROVE FieldInv'
    OBVIOUS
  <2>1. CASE UNCHANGED field
    BY <2>1 DEF FieldInv, Fits
  <2>2. CASE TextFieldNext
    BY <2>2, KeyStep, TextStep, PointerStep, PaintStep DEF TextFieldNext
  <2> QED BY <2>1, <2>2
<1> QED
  BY <1>1, <1>2, PTL DEF TextFieldSpec

\* Replacing text and painting it never panic: a range is used at the nearest
\* boundary before it, and the mark is always one of the text's own ranges, for
\* texts of every length and characters of one to four bytes
\* (replace_text, clamped_char_boundary, replace_and_mark_text_in_range, prepaint).
THEOREM TypingIsSafe == TextFieldSpec => []TypingNeverPanics
<1>1. FieldInv => TypingNeverPanics
  <2> SUFFICES ASSUME FieldInv PROVE TypingNeverPanics
    OBVIOUS
  <2>1. field.panic \in {NoRange, "copy", "utf16"}
        /\ (field.marked # NoRange => Sliceable(field.content, field.marked))
    BY DEF FieldInv, Sound, FieldState
  <2> QED BY <2>1, TextFieldAssumption DEF TypingNeverPanics
<1> QED
  BY <1>1, FieldInvariant, PTL

\* The selection is a pair of offsets and the text one of whole characters.
THEOREM FieldTypeCorrect == TextFieldSpec => []TextFieldTypeOK
<1>1. FieldInv => TextFieldTypeOK
  BY DEF FieldInv, Sound, FieldState, Span, TextFieldTypeOK
<1> QED
  BY <1>1, FieldInvariant, PTL

-----------------------------------------------------------------------------
(* A streamed answer: its lines.                                           *)

\* b is the last line break before place n, or 0.
IsLastBreak(s, n, b) ==
    /\ b \in 0..n - 1
    /\ b = 0 \/ s[b] = LineBreak
    /\ \A m \in b + 1..n - 1 : s[m] # LineBreak

LEMMA LastBreakExists ==
  ASSUME NEW s \in Seq(Symbols), NEW n \in 1..Len(s) + 1
  PROVE  \E b : IsLastBreak(s, n, b)
<1> DEFINE T == {b \in 0..n - 1 : b = 0 \/ s[b] = LineBreak}
<1>1. n - 1 \in Nat /\ T \subseteq 0..n - 1 /\ 0 \in T
  OBVIOUS
<1>2. Greatest(T) \in T /\ \A b \in T : b <= Greatest(T)
  <2> HIDE DEF T
  <2> QED BY <1>1, GreatestFacts
<1> PICK b : b = Greatest(T)
  OBVIOUS
<1>3. ASSUME NEW m \in b + 1..n - 1
      PROVE  s[m] # LineBreak
  <2>1. b \in 0..n - 1 /\ m \in 0..n - 1 /\ ~ m <= b
    BY <1>2
  <2> QED BY <1>2, <2>1
<1>4. IsLastBreak(s, n, b)
  BY <1>2, <1>3 DEF IsLastBreak
<1> QED
  BY <1>4

LEMMA LastBreakIs ==
  ASSUME NEW s \in Seq(Symbols), NEW n \in 1..Len(s) + 1
  PROVE  /\ IsLastBreak(s, n, LastBreak(s, n))
         /\ \A b : IsLastBreak(s, n, b) => b = LastBreak(s, n)
<1>1. IsLastBreak(s, n, LastBreak(s, n))
  <2>1. PICK b : IsLastBreak(s, n, b)
    BY LastBreakExists
  <2> QED BY <2>1 DEF IsLastBreak, LastBreak
<1>2. ASSUME NEW b, NEW c, IsLastBreak(s, n, b), IsLastBreak(s, n, c), b < c
      PROVE  FALSE
  BY <1>2 DEF IsLastBreak
<1>3. ASSUME NEW b, IsLastBreak(s, n, b)
      PROVE  b = LastBreak(s, n)
  <2>1. b \in Int /\ LastBreak(s, n) \in Int
    BY <1>1, <1>3 DEF IsLastBreak
  <2>2. b < LastBreak(s, n) \/ b = LastBreak(s, n) \/ LastBreak(s, n) < b
    BY <2>1
  <2> QED BY <1>1, <1>2, <1>3, <2>2
<1> QED
  BY <1>1, <1>3

\* The text of a stream from a line break on has the lines that follow there.
Continues(whole, at, rest) ==
    /\ whole \in Seq(Symbols) /\ rest \in Seq(Symbols)
    /\ at \in Nat
    /\ at = 0 \/ whole[at] = LineBreak
    /\ Len(whole) = at + Len(rest)
    /\ \A i \in 1..Len(rest) : whole[at + i] = rest[i]

LEMMA LinesContinue ==
  ASSUME NEW whole, NEW at, NEW rest, Continues(whole, at, rest),
         NEW n \in 1..Len(rest) + 1
  PROVE  /\ LastBreak(whole, at + n) = at + LastBreak(rest, n)
         /\ LastBreak(rest, n) \in 0..n - 1
<1>1. /\ whole \in Seq(Symbols) /\ rest \in Seq(Symbols) /\ at \in Nat /\ at + n \in 1..Len(whole) + 1
      /\ Len(rest) \in Nat /\ Len(whole) = at + Len(rest)
  BY DEF Continues
<1> PICK b : b = LastBreak(rest, n)
  OBVIOUS
<1>2. b \in 0..n - 1 /\ (b = 0 \/ rest[b] = LineBreak) /\ \A m \in b + 1..n - 1 : rest[m] # LineBreak
  BY <1>1, LastBreakIs DEF IsLastBreak
<1>3. IsLastBreak(whole, at + n, at + b)
  <2>1. at + b \in 0..(at + n) - 1
    BY <1>1, <1>2
  <2>2. at + b = 0 \/ whole[at + b] = LineBreak
    <3>1. CASE b = 0
      BY <1>1, <3>1 DEF Continues
    <3>2. CASE b # 0
      <4>1. b \in 1..Len(rest)
        BY <1>1, <1>2, <3>2
      <4>2. whole[at + b] = rest[b]
        BY <4>1 DEF Continues
      <4> QED BY <1>2, <3>2, <4>2
    <3> QED BY <3>1, <3>2
  <2>3. ASSUME NEW m \in (at + b) + 1..(at + n) - 1
        PROVE  whole[m] # LineBreak
    <3>1. m - at \in b + 1..n - 1 /\ m - at \in 1..Len(rest) /\ m = at + (m - at)
      BY <1>1, <1>2
    <3>2. whole[at + (m - at)] = rest[m - at]
      BY <3>1 DEF Continues
    <3> QED BY <1>2, <3>1, <3>2
  <2> QED BY <2>1, <2>2, <2>3, Zenon DEF IsLastBreak
<1>4. at + b = LastBreak(whole, at + n)
  BY <1>1, <1>3, LastBreakIs
<1> QED
  BY <1>2, <1>4

Piece(s, from, to) == SubSeq(s, from, to)

\* A piece of the one is a piece of the other.
LEMMA PiecesContinue ==
  ASSUME NEW whole, NEW at, NEW rest, Continues(whole, at, rest),
         NEW from \in 1..Len(rest) + 1, NEW to \in 0..Len(rest)
  PROVE  Piece(whole, at + from, at + to) = Piece(rest, from, to)
<1>1. /\ whole \in Seq(Symbols) /\ rest \in Seq(Symbols) /\ at \in Nat
      /\ Len(whole) = at + Len(rest) /\ Len(rest) \in Nat
      /\ \A i \in 1..Len(rest) : whole[at + i] = rest[i]
  BY DEF Continues
<1> PICK a : a = Piece(whole, at + from, at + to)
  OBVIOUS
<1> PICK b : b = Piece(rest, from, to)
  OBVIOUS
<1>2. CASE to < from
  <2>1. at + to < at + from
    BY <1>1, <1>2
  <2>2. a = << >> /\ b = << >>
    BY <1>1, <1>2, <2>1 DEF Piece
  <2> QED BY <2>2
<1>3. CASE from <= to
  <2>1. /\ a \in Seq(Symbols) /\ b \in Seq(Symbols) /\ Len(a) = to - from + 1 /\ Len(b) = to - from + 1
        /\ \A i \in 1..to - from + 1 : a[i] = whole[at + from + i - 1]
        /\ \A i \in 1..to - from + 1 : b[i] = rest[from + i - 1]
    BY <1>1, <1>3 DEF Piece
  <2>2. ASSUME NEW i \in 1..to - from + 1
        PROVE  a[i] = b[i]
    <3>1. from + i - 1 \in 1..Len(rest) /\ at + from + i - 1 = at + (from + i - 1)
      BY <1>1, <1>3
    <3> QED BY <1>1, <2>1, <3>1
  <2>3. a = b
    BY <1>3, <2>1, <2>2
  <2> QED BY <2>3
<1> QED
  BY <1>1, <1>2, <1>3

\* From a line break on, the lines are those of what follows it, and so is what
\* remains after the last of them.
LEMMA SameLines ==
  ASSUME NEW whole, NEW at, NEW rest, Continues(whole, at, rest)
  PROVE  /\ \A n \in 1..Len(rest) : LineAt(whole, at + n) = LineAt(rest, n)
         /\ Remainder(whole) = Remainder(rest)
<1>1. /\ at \in Nat /\ Len(rest) \in Nat /\ Len(whole) = at + Len(rest)
  BY DEF Continues
<1>2. ASSUME NEW n \in 1..Len(rest) + 1, NEW to \in 0..Len(rest)
      PROVE  Piece(whole, LastBreak(whole, at + n) + 1, at + to)
               = Piece(rest, LastBreak(rest, n) + 1, to)
  <2> PICK b : b = LastBreak(rest, n)
    OBVIOUS
  <2>1. LastBreak(whole, at + n) = at + b /\ b \in 0..n - 1
    BY LinesContinue
  <2>2. b + 1 \in 1..Len(rest) + 1 /\ at + b + 1 = at + (b + 1)
    BY <1>1, <2>1
  <2>3. Piece(whole, at + (b + 1), at + to) = Piece(rest, b + 1, to)
    BY <2>2, PiecesContinue
  <2> QED BY <2>1, <2>2, <2>3
<1>3. ASSUME NEW n \in 1..Len(rest)
      PROVE  LineAt(whole, at + n) = LineAt(rest, n)
  <2>1. n \in 1..Len(rest) + 1 /\ n - 1 \in 0..Len(rest) /\ at + (n - 1) = (at + n) - 1
    BY <1>1
  <2>2. Piece(whole, LastBreak(whole, at + n) + 1, at + (n - 1))
          = Piece(rest, LastBreak(rest, n) + 1, n - 1)
    BY <1>2, <2>1
  <2> QED BY <2>1, <2>2 DEF LineAt, Piece
<1>4. Remainder(whole) = Remainder(rest)
  <2>1. Len(rest) + 1 \in 1..Len(rest) + 1 /\ Len(rest) \in 0..Len(rest)
        /\ at + (Len(rest) + 1) = Len(whole) + 1
    BY <1>1
  <2> QED BY <1>1, <1>2, <2>1 DEF Remainder, Piece
<1> QED
  BY <1>3, <1>4

-----------------------------------------------------------------------------
(* A streamed answer: its events.                                          *)

Outcomes == {"done", "text", "error"}

LEMMA WithLineType ==
  ASSUME NEW s, NEW n, NEW events \in Seq(Outcomes)
  PROVE  WithLine(s, n, events) \in Seq(Outcomes)
<1>1. DecodeLine(LineAt(s, n)) \in Outcomes \cup {"nothing"}
  BY DEF DecodeLine, Outcomes
<1> QED
  BY <1>1 DEF WithLine

\* events lists what the first n symbols have given, after each of them.
Decodes(s, events, n) ==
    /\ events \in [0..n -> Seq(Outcomes)] /\ events[0] = << >>
    /\ \A k \in 1..n : events[k] = WithLine(s, k, events[k - 1])

LEMMA DecodesGrow ==
  ASSUME NEW s \in Seq(Symbols), NEW k \in 1..Len(s), NEW events, Decodes(s, events, k - 1)
  PROVE  \E longer : Decodes(s, longer, k)
<1> DEFINE longer == [n \in 0..k |-> IF n = k THEN WithLine(s, k, events[k - 1]) ELSE events[n]]
<1>1. /\ events \in [0..(k - 1) -> Seq(Outcomes)] /\ events[0] = << >>
      /\ \A n \in 1..(k - 1) : events[n] = WithLine(s, n, events[n - 1])
      /\ k - 1 \in 0..(k - 1)
  BY DEF Decodes
<1>2. longer \in [0..k -> Seq(Outcomes)]
  <2>1. WithLine(s, k, events[k - 1]) \in Seq(Outcomes)
    BY <1>1, WithLineType
  <2> QED BY <1>1, <2>1
<1>3. longer[0] = << >>
  BY <1>1
<1>4. ASSUME NEW n \in 1..k
      PROVE  longer[n] = WithLine(s, n, longer[n - 1])
  <2>1. CASE n = k
    BY <1>1, <2>1
  <2>2. CASE n # k
    <3>1. n \in 1..(k - 1) /\ n - 1 # k /\ n - 1 \in 0..k
      BY <2>2
    <3> QED BY <1>1, <2>2, <3>1
  <2> QED BY <2>1, <2>2
<1> HIDE DEF longer
<1>5. Decodes(s, longer, k)
  BY <1>2, <1>3, <1>4 DEF Decodes
<1> QED
  BY <1>5

LEMMA DecodingDecodes ==
  ASSUME NEW s \in Seq(Symbols)
  PROVE  Decodes(s, Decoding(s), Len(s))
<1> DEFINE last == Len(s)
           S == {n \in 0..last : \E events : Decodes(s, events, n)}
<1>1. last \in Nat
  OBVIOUS
<1>2. 0 \in S
  <2>1. Decodes(s, [n \in 0..0 |-> << >>], 0)
    BY DEF Decodes
  <2> QED BY <1>1, <2>1
<1>3. ASSUME NEW k \in 1..last, k - 1 \in S
      PROVE  k \in S
  <2>1. PICK events : Decodes(s, events, k - 1)
    BY <1>3
  <2>2. \E longer : Decodes(s, longer, k)
    BY <2>1, DecodesGrow
  <2> QED BY <1>1, <2>2
<1>4. last \in S
  <2> HIDE DEF S
  <2>1. 0..last \subseteq S
    BY <1>1, <1>2, <1>3, Induction
  <2> QED BY <1>1, <2>1
<1>5. PICK events : Decodes(s, events, last)
  BY <1>4
<1>6. events = [n \in 0..Len(s) |-> IF n = 0 THEN << >> ELSE WithLine(s, n, events[n - 1])]
  BY <1>1, <1>5 DEF Decodes
<1> PICK o : o = Decoding(s)
  OBVIOUS
<1>7. o = [n \in 0..Len(s) |-> IF n = 0 THEN << >> ELSE WithLine(s, n, o[n - 1])]
  BY <1>6 DEF Decoding
<1> HIDE DEF S
<1>8. o[0] = << >> /\ \A k \in 1..last : o[k] = WithLine(s, k, o[k - 1])
  BY <1>1, <1>7
<1>9. 0..last \subseteq {n \in 0..last : o[n] \in Seq(Outcomes)}
  <2> DEFINE Typed == {n \in 0..last : o[n] \in Seq(Outcomes)}
  <2>1. 0 \in Typed
    <3>1. << >> \in Seq(Outcomes)
      OBVIOUS
    <3>2. o[0] \in Seq(Outcomes)
      BY <1>8, <3>1, Zenon
    <3> QED BY <1>1, <3>2
  <2>2. ASSUME NEW k \in 1..last, k - 1 \in Typed
        PROVE  k \in Typed
    BY <1>8, <2>2, WithLineType
  <2> HIDE DEF Typed
  <2>3. 0..last \subseteq Typed
    BY <1>1, <2>1, <2>2, Induction
  <2> QED BY <2>3 DEF Typed
<1>10. o \in [0..last -> Seq(Outcomes)]
  <2>1. \A n \in 0..last : o[n] \in Seq(Outcomes)
    BY <1>9
  <2>2. o = [n \in 0..last |-> o[n]]
    BY <1>7
  <2> QED BY <2>1, <2>2
<1> QED
  BY <1>8, <1>10 DEF Decodes

LEMMA DecodingFacts ==
  ASSUME NEW s \in Seq(Symbols)
  PROVE  /\ \A n \in 0..Len(s) : Decoding(s)[n] \in Seq(Outcomes)
         /\ Decoding(s)[0] = << >>
         /\ \A n \in 1..Len(s) : Decoding(s)[n] = WithLine(s, n, Decoding(s)[n - 1])
         /\ Decoded(s) \in Seq(Outcomes)
<1> PICK o : o = Decoding(s)
  OBVIOUS
<1>1. Decodes(s, o, Len(s)) /\ Len(s) \in Nat
  BY DecodingDecodes
<1>2. o \in [0..Len(s) -> Seq(Outcomes)] /\ Len(s) \in 0..Len(s)
  BY <1>1 DEF Decodes
<1>3. \A n \in 0..Len(s) : o[n] \in Seq(Outcomes)
  BY <1>2
<1>4. o[0] = << >> /\ \A n \in 1..Len(s) : o[n] = WithLine(s, n, o[n - 1])
  BY <1>1 DEF Decodes
<1>5. Decoded(s) = o[Len(s)]
  BY DEF Decoded
<1> QED
  BY <1>2, <1>3, <1>4, <1>5

LEMMA AppendAfter ==
  ASSUME NEW a \in Seq(Outcomes), NEW b \in Seq(Outcomes), NEW x \in Outcomes
  PROVE  Append(a \o b, x) = a \o Append(b, x)
OBVIOUS

DecodesOn(whole, at, rest) ==
    \A n \in 0..Len(rest) : Decoding(whole)[at + n] = Decoding(whole)[at] \o Decoding(rest)[n]

\* The events after a line break are those of the text that follows it.
LEMMA DecodingContinues ==
  ASSUME NEW whole, NEW at, NEW rest, Continues(whole, at, rest)
  PROVE  DecodesOn(whole, at, rest)
<1> PICK w : w = Decoding(whole)
  OBVIOUS
<1> PICK r : r = Decoding(rest)
  OBVIOUS
<1>1. /\ whole \in Seq(Symbols) /\ rest \in Seq(Symbols) /\ at \in Nat /\ Len(rest) \in Nat
      /\ Len(whole) = at + Len(rest) /\ at \in 0..Len(whole)
      /\ \A n \in 1..Len(rest) : whole[at + n] = rest[n]
  BY DEF Continues
<1>2. /\ w[at] \in Seq(Outcomes)
      /\ \A n \in 1..Len(whole) : w[n] = WithLine(whole, n, w[n - 1])
  BY <1>1, DecodingFacts
<1>3. /\ \A n \in 0..Len(rest) : r[n] \in Seq(Outcomes)
      /\ r[0] = << >> /\ \A n \in 1..Len(rest) : r[n] = WithLine(rest, n, r[n - 1])
  BY <1>1, DecodingFacts
<1> DEFINE S == {n \in 0..Len(rest) : w[at + n] = w[at] \o r[n]}
<1>4. 0 \in S
  <2>1. w[at] \o << >> = w[at]
    BY <1>2
  <2>2. at + 0 = at /\ 0 \in 0..Len(rest)
    BY <1>1
  <2> QED BY <1>3, <2>1, <2>2
<1>5. ASSUME NEW n \in 1..Len(rest), n - 1 \in S
      PROVE  n \in S
  <2>1. at + n \in 1..Len(whole) /\ (at + n) - 1 = at + (n - 1) /\ n - 1 \in 0..Len(rest)
    BY <1>1
  <2>2. w[at + n] = WithLine(whole, at + n, w[at] \o r[n - 1])
    <3>1. w[at + n] = WithLine(whole, at + n, w[(at + n) - 1])
      BY <1>2, <2>1
    <3>2. w[at + (n - 1)] = w[at] \o r[n - 1]
      BY <1>5
    <3> QED BY <2>1, <3>1, <3>2
  <2>3. WithLine(whole, at + n, w[at] \o r[n - 1]) = w[at] \o WithLine(rest, n, r[n - 1])
    <3>1. LineAt(whole, at + n) = LineAt(rest, n) /\ whole[at + n] = rest[n]
      BY <1>1, SameLines
    <3> PICK x : x = DecodeLine(LineAt(rest, n))
      OBVIOUS
    <3>2. x \in Outcomes \cup {"nothing"}
      BY DEF DecodeLine, Outcomes
    <3>3. x \in Outcomes => Append(w[at] \o r[n - 1], x) = w[at] \o Append(r[n - 1], x)
      BY <1>2, <1>3, <2>1, AppendAfter
    <3> QED BY <3>1, <3>2, <3>3 DEF WithLine
  <2>4. r[n] = WithLine(rest, n, r[n - 1])
    BY <1>3
  <2>5. w[at + n] = w[at] \o r[n]
    BY <2>2, <2>3, <2>4, Zenon
  <2>6. n \in 0..Len(rest)
    BY <1>1
  <2> QED BY <2>5, <2>6, Zenon
<1>6. 0..Len(rest) \subseteq S
  <2> HIDE DEF S
  <2> QED BY <1>1, <1>4, <1>5, Induction
<1> QED
  BY <1>6 DEF DecodesOn

LEMMA SamePieces ==
  ASSUME NEW s \in Seq(Symbols), NEW t \in Seq(Symbols),
         NEW n \in 1..Len(s) + 1, n \in 1..Len(t) + 1, NEW b \in 0..n - 1,
         \A k \in 1..n - 1 : s[k] = t[k]
  PROVE  SubSeq(s, b + 1, n - 1) = SubSeq(t, b + 1, n - 1)
<1> PICK x : x = SubSeq(s, b + 1, n - 1)
  OBVIOUS
<1> PICK y : y = SubSeq(t, b + 1, n - 1)
  OBVIOUS
<1>1. CASE b = n - 1
  <2>1. x = << >> /\ y = << >>
    BY <1>1
  <2> QED BY <2>1
<1>2. CASE b # n - 1
  <2>1. /\ x \in Seq(Symbols) /\ y \in Seq(Symbols) /\ Len(x) = (n - 1) - b /\ Len(y) = (n - 1) - b
        /\ \A i \in 1..(n - 1) - b : x[i] = s[b + i] /\ y[i] = t[b + i]
    BY <1>2
  <2>2. \A i \in 1..(n - 1) - b : b + i \in 1..n - 1
    OBVIOUS
  <2>3. x = y
    BY <2>1, <2>2
  <2> QED BY <2>3
<1> QED
  BY <1>1, <1>2

\* The events of a text are those of every text that begins with it, so far.
LEMMA DecodingAgrees ==
  ASSUME NEW s \in Seq(Symbols), NEW t \in Seq(Symbols),
         NEW last \in Nat, last <= Len(s), last <= Len(t),
         \A n \in 1..last : s[n] = t[n]
  PROVE  \A n \in 0..last : Decoding(s)[n] = Decoding(t)[n]
<1>1. ASSUME NEW n \in 1..last
      PROVE  LineAt(s, n) = LineAt(t, n)
  <2> PICK b : b = LastBreak(s, n)
    OBVIOUS
  <2>1. n \in 1..Len(s) + 1 /\ n \in 1..Len(t) + 1 /\ Len(s) \in Nat /\ Len(t) \in Nat
    OBVIOUS
  <2>2. IsLastBreak(s, n, b)
    BY <2>1, LastBreakIs
  <2>3. b \in 0..n - 1 /\ \A k \in 1..n - 1 : s[k] = t[k]
    BY <2>2 DEF IsLastBreak
  <2>4. IsLastBreak(t, n, b)
    BY <2>2, <2>3 DEF IsLastBreak
  <2>5. b = LastBreak(t, n)
    BY <2>1, <2>4, LastBreakIs
  <2>6. SubSeq(s, b + 1, n - 1) = SubSeq(t, b + 1, n - 1)
    BY <2>1, <2>3, SamePieces
  <2> QED BY <2>5, <2>6 DEF LineAt
<1> PICK a : a = Decoding(s)
  OBVIOUS
<1> PICK b : b = Decoding(t)
  OBVIOUS
<1> DEFINE S == {n \in 0..last : a[n] = b[n]}
<1>2. /\ a[0] = << >> /\ \A n \in 1..Len(s) : a[n] = WithLine(s, n, a[n - 1])
      /\ b[0] = << >> /\ \A n \in 1..Len(t) : b[n] = WithLine(t, n, b[n - 1])
  BY DecodingFacts
<1>3. 0 \in S
  <2>1. a[0] = b[0]
    BY <1>2, Zenon
  <2> QED BY <2>1
<1>4. ASSUME NEW n \in 1..last, n - 1 \in S
      PROVE  n \in S
  <2>1. n \in 1..Len(s) /\ n \in 1..Len(t) /\ s[n] = t[n] /\ a[n - 1] = b[n - 1]
    BY <1>4
  <2>2. a[n] = WithLine(s, n, a[n - 1]) /\ b[n] = WithLine(t, n, a[n - 1])
    BY <1>2, <2>1
  <2>3. WithLine(s, n, a[n - 1]) = WithLine(t, n, a[n - 1])
    BY <1>1, <2>1 DEF WithLine
  <2> QED BY <2>2, <2>3
<1>5. 0..last \subseteq S
  <2> HIDE DEF S
  <2> QED BY <1>3, <1>4, Induction
<1> QED
  BY <1>5

\* What remains after the last line break has no events.
LEMMA NoMoreEvents ==
  ASSUME NEW s \in Seq(Symbols)
  PROVE  Decoded(s) = Decoding(s)[LastBreak(s, Len(s) + 1)]
<1> PICK o : o = Decoding(s)
  OBVIOUS
<1> PICK b : b = LastBreak(s, Len(s) + 1)
  OBVIOUS
<1>1. Len(s) \in Nat /\ b \in 0..Len(s) /\ \A n \in b + 1..Len(s) : s[n] # LineBreak
  <2>1. Len(s) + 1 \in 1..Len(s) + 1 /\ (Len(s) + 1) - 1 = Len(s)
    OBVIOUS
  <2>2. IsLastBreak(s, Len(s) + 1, b)
    BY <2>1, LastBreakIs
  <2> QED BY <2>1, <2>2 DEF IsLastBreak
<1> DEFINE S == {n \in 0..Len(s) : b <= n => o[n] = o[b]}
<1>2. 0 \in S
  BY <1>1
<1>3. ASSUME NEW n \in 1..Len(s), n - 1 \in S
      PROVE  n \in S
  <2>1. CASE b < n
    <3>1. s[n] # LineBreak /\ b <= n - 1
      BY <1>1, <2>1
    <3>2. o[n] = WithLine(s, n, o[n - 1])
      BY DecodingFacts
    <3>3. o[n - 1] = o[b]
      BY <1>3, <3>1
    <3> QED BY <3>1, <3>2, <3>3 DEF WithLine
  <2>2. CASE ~ b < n
    <3>1. b <= n => b = n
      BY <1>1, <2>2
    <3> QED BY <3>1
  <2> QED BY <2>1, <2>2
<1>4. Len(s) \in S
  <2> HIDE DEF S
  <2>1. 0..Len(s) \subseteq S
    BY <1>1, <1>2, <1>3, Induction
  <2> QED BY <1>1, <2>1
<1> QED
  BY <1>1, <1>4 DEF Decoded

\* What remains of a text goes on as the text does.
LEMMA JoinContinues ==
  ASSUME NEW p \in Seq(Symbols), NEW t \in Seq(Symbols), NEW r \in Seq(Symbols),
         NEW b \in 0..Len(p), b = 0 \/ p[b] = LineBreak,
         Len(r) = Len(p) - b, \A i \in 1..Len(r) : r[i] = p[b + i]
  PROVE  Continues(p \o t, b, r \o t)
<1>1. /\ p \o t \in Seq(Symbols) /\ Len(p \o t) = Len(p) + Len(t)
      /\ Len(p) \in Nat /\ Len(t) \in Nat /\ Len(r) \in Nat /\ b \in Nat /\ b + Len(r) = Len(p)
      /\ \A i \in 1..Len(p) : (p \o t)[i] = p[i]
      /\ \A i \in 1..Len(t) : (p \o t)[Len(p) + i] = t[i]
  BY JoinedAt
<1>2. /\ r \o t \in Seq(Symbols) /\ Len(r \o t) = Len(r) + Len(t)
      /\ \A i \in 1..Len(r) : (r \o t)[i] = r[i]
      /\ \A i \in 1..Len(t) : (r \o t)[Len(r) + i] = t[i]
  <2>1. ASSUME NEW x \in Seq(Symbols), NEW y \in Seq(Symbols)
        PROVE  /\ x \o y \in Seq(Symbols) /\ Len(x \o y) = Len(x) + Len(y)
               /\ \A i \in 1..Len(x) : (x \o y)[i] = x[i]
               /\ \A i \in 1..Len(y) : (x \o y)[Len(x) + i] = y[i]
    BY JoinedAt
  <2> QED BY <2>1, Zenon
<1>3. b = 0 \/ (p \o t)[b] = LineBreak
  BY <1>1
<1>4. ASSUME NEW i \in 1..Len(r \o t)
      PROVE  (p \o t)[b + i] = (r \o t)[i]
  <2>1. CASE i <= Len(r)
    <3>1. i \in 1..Len(r) /\ b + i \in 1..Len(p)
      BY <1>1, <1>2, <2>1
    <3> QED BY <1>1, <1>2, <3>1
  <2>2. CASE i > Len(r)
    <3>1. i - Len(r) \in 1..Len(t) /\ b + i = Len(p) + (i - Len(r)) /\ i = Len(r) + (i - Len(r))
      BY <1>1, <1>2, <2>2
    <3> QED BY <1>1, <1>2, <3>1
  <2> QED BY <1>1, <1>2, <2>1, <2>2
<1>5. Len(p \o t) = b + Len(r \o t)
  BY <1>1, <1>2
<1> QED
  BY <1>1, <1>2, <1>3, <1>4, <1>5, Zenon DEF Continues

Remains(p, b, r) ==
    /\ b \in 0..Len(p) /\ (b = 0 \/ p[b] = LineBreak)
    /\ r \in Seq(Symbols) /\ Len(r) = Len(p) - b
    /\ \A i \in 1..Len(p) - b : r[i] = p[b + i]

LEMMA RemainderFacts ==
  ASSUME NEW p \in Seq(Symbols)
  PROVE  Remains(p, LastBreak(p, Len(p) + 1), Remainder(p))
<1> PICK b : b = LastBreak(p, Len(p) + 1)
  OBVIOUS
<1>1. /\ Len(p) \in Nat /\ b \in 0..Len(p) /\ (b = 0 \/ p[b] = LineBreak)
  <2>1. Len(p) + 1 \in 1..Len(p) + 1 /\ (Len(p) + 1) - 1 = Len(p) /\ Len(p) \in Nat
    OBVIOUS
  <2>2. IsLastBreak(p, Len(p) + 1, b)
    BY <2>1, LastBreakIs
  <2> QED BY <2>1, <2>2 DEF IsLastBreak
<1>2. Remainder(p) = SubSeq(p, b + 1, Len(p))
  BY DEF Remainder
<1>3. ASSUME NEW x, x \in 0..Len(p), NEW r, r = SubSeq(p, x + 1, Len(p))
      PROVE  /\ r \in Seq(Symbols) /\ Len(r) = Len(p) - x
             /\ \A i \in 1..Len(p) - x : r[i] = p[x + i]
  BY <1>3
<1>4. /\ Remainder(p) \in Seq(Symbols) /\ Len(Remainder(p)) = Len(p) - b
      /\ \A i \in 1..Len(p) - b : Remainder(p)[i] = p[b + i]
  BY <1>1, <1>2, <1>3
<1>5. Remains(p, b, Remainder(p))
  BY <1>1, <1>4, Zenon DEF Remains
<1> QED
  BY <1>5

\* A fragment, after what its predecessors have left, gives what the whole gives
\* beyond them.
LEMMA FragmentFacts ==
  ASSUME NEW p \in Seq(Symbols), NEW t \in Seq(Symbols)
  PROVE  /\ Remainder(p) \in Seq(Symbols)
         /\ Decoded(p \o t) = Decoded(p) \o Decoded(Remainder(p) \o t)
         /\ Remainder(p \o t) = Remainder(Remainder(p) \o t)
<1>1. ASSUME NEW b, b = LastBreak(p, Len(p) + 1), NEW r, r = Remainder(p),
             NEW whole, whole = p \o t, NEW rest, rest = r \o t
      PROVE  /\ r \in Seq(Symbols) /\ b \in 0..Len(p) /\ Continues(whole, b, rest)
             /\ Decoding(whole)[b] = Decoded(p)
  <2>1. b \in 0..Len(p) /\ (b = 0 \/ p[b] = LineBreak)
        /\ r \in Seq(Symbols) /\ Len(r) = Len(p) - b /\ Len(p) \in Nat
        /\ \A i \in 1..Len(p) - b : r[i] = p[b + i]
    <3>1. Remains(p, b, r)
      BY <1>1, RemainderFacts
    <3>2. Len(p) \in Nat
      OBVIOUS
    <3> QED BY <3>1, <3>2, Zenon DEF Remains
  <2>2. Continues(whole, b, rest)
    BY <1>1, <2>1, JoinContinues
  <2>3. Decoding(whole)[b] = Decoding(p)[b]
    <3>1. /\ Len(p) <= Len(p \o t) /\ Len(p) <= Len(p) /\ p \o t \in Seq(Symbols)
          /\ \A n \in 1..Len(p) : (p \o t)[n] = p[n]
      BY <2>1
    <3>2. \A n \in 0..Len(p) : Decoding(p \o t)[n] = Decoding(p)[n]
      BY <2>1, <3>1, DecodingAgrees
    <3> QED BY <1>1, <2>1, <3>2
  <2>4. Decoded(p) = Decoding(p)[b]
    BY <1>1, NoMoreEvents
  <2> QED BY <2>1, <2>2, <2>3, <2>4
<1>2. ASSUME NEW whole, NEW b, NEW rest, Continues(whole, b, rest)
      PROVE  /\ Decoded(whole) = Decoding(whole)[b] \o Decoded(rest)
             /\ Remainder(whole) = Remainder(rest)
  <2>1. Len(rest) \in 0..Len(rest) /\ Len(whole) = b + Len(rest)
    BY <1>2 DEF Continues
  <2>2. Decoding(whole)[b + Len(rest)] = Decoding(whole)[b] \o Decoding(rest)[Len(rest)]
    <3>1. DecodesOn(whole, b, rest)
      BY <1>2, DecodingContinues
    <3> QED BY <2>1, <3>1, Zenon DEF DecodesOn
  <2> QED BY <1>2, <2>1, <2>2, SameLines DEF Decoded
<1> DEFINE b == LastBreak(p, Len(p) + 1)
<1>3. /\ Remainder(p) \in Seq(Symbols) /\ Continues(p \o t, b, Remainder(p) \o t)
      /\ Decoding(p \o t)[b] = Decoded(p)
  BY <1>1, Zenon
<1>4. /\ Decoded(p \o t) = Decoding(p \o t)[b] \o Decoded(Remainder(p) \o t)
      /\ Remainder(p \o t) = Remainder(Remainder(p) \o t)
  BY <1>2, <1>3, Zenon
<1> QED
  BY <1>3, <1>4, Zenon

-----------------------------------------------------------------------------
(* A streamed answer: every step.                                          *)

Events == {"text", "done"}

LEMMA SameSequence ==
  ASSUME NEW S, NEW x \in Seq(S), NEW y \in Seq(S), NEW n \in Nat, Len(x) = n, Len(y) = n,
         \A k \in 1..n : x[k] = y[k]
  PROVE  x = y
OBVIOUS

LEMMA JoinedSequence ==
  ASSUME NEW S, NEW x \in Seq(S), NEW y \in Seq(S), NEW z \in Seq(S),
         Len(z) = Len(x) + Len(y), \A n \in 1..Len(x) : z[n] = x[n],
         \A n \in 1..Len(y) : z[Len(x) + n] = y[n]
  PROVE  x \o y = z
<1>1. /\ x \o y \in Seq(S) /\ Len(x \o y) = Len(x) + Len(y) /\ Len(x) \in Nat /\ Len(y) \in Nat
      /\ \A n \in 1..Len(x) : (x \o y)[n] = x[n]
      /\ \A n \in 1..Len(y) : (x \o y)[Len(x) + n] = y[n]
  OBVIOUS
<1>2. ASSUME NEW n \in 1..Len(x) + Len(y)
      PROVE  (x \o y)[n] = z[n]
  <2>1. CASE n <= Len(x)
    <3>1. n \in 1..Len(x)
      BY <1>1, <2>1
    <3> QED BY <1>1, <3>1
  <2>2. CASE n > Len(x)
    <3>1. n - Len(x) \in 1..Len(y) /\ n = Len(x) + (n - Len(x))
      BY <1>1, <2>2
    <3> QED BY <1>1, <3>1
  <2> QED BY <1>1, <2>1, <2>2
<1> QED
  BY <1>1, <1>2, SameSequence

LEMMA JoinedPrefix ==
  ASSUME NEW a \in Seq(Outcomes), NEW b \in Seq(Outcomes)
  PROVE  /\ IsPrefix(a, a \o b)
         /\ "error" \in ToSet(b) => "error" \in ToSet(a \o b)
<1> PICK ab : ab = a \o b
  OBVIOUS
<1>1. /\ ab \in Seq(Outcomes) /\ Len(ab) = Len(a) + Len(b) /\ Len(a) \in Nat /\ Len(b) \in Nat
      /\ \A n \in 1..Len(a) : ab[n] = a[n]
      /\ \A n \in 1..Len(b) : ab[Len(a) + n] = b[n]
  OBVIOUS
<1>2. SubSeq(a, 1, Len(a)) = SubSeq(ab, 1, Len(a))
  <2>1. ASSUME NEW s \in Seq(Outcomes), NEW n \in Nat, n <= Len(s)
        PROVE  /\ SubSeq(s, 1, n) \in Seq(Outcomes) /\ Len(SubSeq(s, 1, n)) = n
               /\ \A k \in 1..n : SubSeq(s, 1, n)[k] = s[k]
    <3>1. CASE n = 0
      BY <2>1, <3>1
    <3>2. CASE n # 0
      BY <2>1, <3>2
    <3> QED BY <3>1, <3>2
  <2>3. Len(a) <= Len(ab) /\ Len(a) <= Len(a)
    BY <1>1
  <2>4. /\ SubSeq(a, 1, Len(a)) \in Seq(Outcomes) /\ Len(SubSeq(a, 1, Len(a))) = Len(a)
        /\ \A k \in 1..Len(a) : SubSeq(a, 1, Len(a))[k] = a[k]
    BY <1>1, <2>1, <2>3
  <2>5. /\ SubSeq(ab, 1, Len(a)) \in Seq(Outcomes) /\ Len(SubSeq(ab, 1, Len(a))) = Len(a)
        /\ \A k \in 1..Len(a) : SubSeq(ab, 1, Len(a))[k] = ab[k]
    BY <1>1, <2>1, <2>3
  <2> QED BY <1>1, <2>4, <2>5, SameSequence
<1>3. IsPrefix(a, ab)
  BY <1>1, <1>2 DEF IsPrefix
<1>4. ASSUME "error" \in ToSet(b)
      PROVE  "error" \in ToSet(ab)
  <2>1. PICK n \in 1..Len(b) : b[n] = "error"
    BY <1>4 DEF ToSet
  <2>2. Len(a) + n \in 1..Len(ab) /\ ab[Len(a) + n] = "error"
    BY <1>1, <2>1
  <2> QED BY <1>1, <2>2 DEF ToSet
<1> QED
  BY <1>3, <1>4

LEMMA WithoutError ==
  ASSUME NEW e \in Seq(Outcomes)
  PROVE  "error" \notin ToSet(e) <=> e \in Seq(Events)
<1>1. ASSUME "error" \notin ToSet(e)
      PROVE  e \in Seq(Events)
  <2>1. ASSUME NEW n \in 1..Len(e)
        PROVE  e[n] \in Events
    <3>1. e[n] # "error" /\ e[n] \in Outcomes
      BY <1>1 DEF ToSet
    <3> QED BY <3>1 DEF Outcomes, Events
  <2> QED BY <2>1
<1>2. ASSUME e \in Seq(Events)
      PROVE  "error" \notin ToSet(e)
  <2>1. ASSUME NEW n \in 1..Len(e)
        PROVE  e[n] # "error"
    BY <1>2 DEF Events
  <2> QED BY <2>1 DEF ToSet
<1> QED
  BY <1>1, <1>2

\* What has been pushed, and the next fragment.
Cut(s, from, to) == SubSeq(s, from, to)

LEMMA CutFacts ==
  ASSUME NEW s \in Seq(Symbols), NEW m \in Nat, NEW l \in Nat, m + l <= Len(s)
  PROVE  /\ Cut(s, 1, m) \in Seq(Symbols) /\ Cut(s, m + 1, m + l) \in Seq(Symbols)
         /\ Cut(s, 1, m) \o Cut(s, m + 1, m + l) = Cut(s, 1, m + l)
<1> PICK a : a = Cut(s, 1, m)
  OBVIOUS
<1> PICK b : b = Cut(s, m + 1, m + l)
  OBVIOUS
<1> PICK c : c = Cut(s, 1, m + l)
  OBVIOUS
<1>1. /\ a \in Seq(Symbols) /\ Len(a) = m /\ \A n \in 1..m : a[n] = s[n]
  <2>1. CASE m = 0
    BY <2>1 DEF Cut
  <2>2. CASE m # 0
    BY <2>2 DEF Cut
  <2> QED BY <2>1, <2>2
<1>2. /\ b \in Seq(Symbols) /\ Len(b) = l /\ \A n \in 1..l : b[n] = s[m + n]
  <2>1. CASE l = 0
    BY <2>1 DEF Cut
  <2>2. CASE l # 0
    BY <2>2 DEF Cut
  <2> QED BY <2>1, <2>2
<1>3. /\ c \in Seq(Symbols) /\ Len(c) = m + l /\ \A n \in 1..m + l : c[n] = s[n]
  <2>1. CASE m + l = 0
    BY <2>1 DEF Cut
  <2>2. CASE m + l # 0
    BY <2>2 DEF Cut
  <2> QED BY <2>1, <2>2
<1>4. a \o b = c
  <2>1. Len(c) = Len(a) + Len(b)
    BY <1>1, <1>2, <1>3
  <2>2. ASSUME NEW n \in 1..Len(a)
        PROVE  c[n] = a[n]
    BY <1>1, <1>3
  <2>3. ASSUME NEW n \in 1..Len(b)
        PROVE  c[Len(a) + n] = b[n]
    <3>1. n \in 1..l /\ m + n \in 1..m + l
      BY <1>2
    <3> QED BY <1>1, <1>2, <1>3, <3>1
  <2> QED BY <1>1, <1>2, <1>3, <2>1, <2>2, <2>3, JoinedSequence
<1> QED
  BY <1>1, <1>2, <1>3, <1>4

Heard == Cut(arriving.stream, 1, arriving.pushed)

\* answer has the events of text, and no line of it has failed; rest remains.
Answers(text, answer, rest) ==
    answer = Decoded(text) /\ rest = Remainder(text)
\* answer has events of text, and a later line of it has failed.
FailsAfter(text, answer) ==
    "error" \in ToSet(Decoded(text)) /\ IsPrefix(answer, Decoded(text))

StreamInv ==
    /\ arriving \in [stream : Streams, pushed : Nat] /\ arriving.pushed <= Len(arriving.stream)
    /\ pendingLine \in Seq(Symbols) /\ answered \in Seq(Events)
    /\ ending \in {"open", "complete", "truncated", "error"}
    /\ ending = "error" => FailsAfter(Heard, answered)
    /\ ending # "error" => Answers(Heard, answered, pendingLine)
    /\ ending = "complete" => Trimmed(pendingLine) = << >>

LEMMA FirstStep == StreamInit => StreamInv
<1> SUFFICES ASSUME StreamInit PROVE StreamInv
  OBVIOUS
<1>1. PICK s \in Streams : arriving = [stream |-> s, pushed |-> 0]
  BY DEF StreamInit
<1>2. /\ arriving \in [stream : Streams, pushed : Nat] /\ arriving.pushed = 0
      /\ arriving.stream \in Seq(Symbols)
  BY <1>1, StreamAssumption
<1>3. << >> \in Seq(Symbols) /\ << >> \in Seq(Events) /\ Len(<< >>) = 0
  OBVIOUS
<1>4. Heard = << >>
  BY <1>2 DEF Heard, Cut
<1>5. Decoded(<< >>) = << >>
  <2>1. Decoding(<< >>)[0] = << >>
    BY <1>3, DecodingFacts, Zenon
  <2> QED BY <1>3, <2>1, Zenon DEF Decoded
<1>6. Remainder(<< >>) = << >>
  <2>1. ASSUME NEW r, NEW b, NEW p \in Seq(Symbols), Len(p) = 0, Remains(p, b, r)
        PROVE  r = << >>
    <3>1. r \in Seq(Symbols) /\ b \in 0..Len(p) /\ Len(r) = Len(p) - b
      BY <2>1, Zenon DEF Remains
    <3>2. ASSUME NEW k \in 0..0, NEW m, m = 0 - k
          PROVE  m = 0
      <4>1. k = 0
        OBVIOUS
      <4>2. m = 0 - 0
        BY <3>2, <4>1, Zenon
      <4> QED BY <4>2
    <3>3. Len(r) = 0
      BY <2>1, <3>1, <3>2, Zenon
    <3> QED BY <3>1, <3>3
  <2> QED BY <1>3, <2>1, RemainderFacts, Zenon
<1>7. Answers(Heard, answered, pendingLine)
  BY <1>4, <1>5, <1>6, Zenon DEF Answers, StreamInit
<1>8. arriving.pushed <= Len(arriving.stream)
  BY <1>2
<1> QED
  BY <1>2, <1>3, <1>7, <1>8, Zenon DEF StreamInv, StreamInit

LEMMA PushStep ==
  ASSUME StreamInv, NEW length \in 1..Len(arriving.stream), PushFragment(length)
  PROVE  StreamInv'
<1> DEFINE fragment == Cut(arriving.stream, arriving.pushed + 1, arriving.pushed + length)
           text == pendingLine \o fragment
<1>1. /\ arriving \in [stream : Streams, pushed : Nat] /\ arriving.stream \in Seq(Symbols)
      /\ arriving.stream \in Streams
      /\ arriving.pushed \in Nat /\ length \in Nat
      /\ pendingLine \in Seq(Symbols) /\ answered \in Seq(Events) /\ ending = "open"
      /\ arriving.pushed + length <= Len(arriving.stream)
      /\ Answers(Heard, answered, pendingLine)
  BY StreamAssumption DEF StreamInv, PushFragment
<1>2. /\ arriving' = [arriving EXCEPT !.pushed = @ + length]
      /\ IF "error" \in ToSet(Decoded(text))
         THEN ending' = "error" /\ pendingLine' = pendingLine /\ answered' = answered
         ELSE /\ pendingLine' = Remainder(text) /\ answered' = answered \o Decoded(text)
              /\ ending' = ending
  BY DEF PushFragment, KeptPending, Cut
<1>3. /\ arriving' \in [stream : Streams, pushed : Nat] /\ arriving'.stream = arriving.stream
      /\ arriving'.pushed = arriving.pushed + length
      /\ arriving'.pushed <= Len(arriving'.stream)
  BY <1>1, <1>2
<1>4. /\ Heard \in Seq(Symbols) /\ fragment \in Seq(Symbols)
      /\ Heard' = Heard \o fragment
  <2>1. /\ Heard \in Seq(Symbols) /\ fragment \in Seq(Symbols)
        /\ Heard \o fragment = Cut(arriving.stream, 1, arriving.pushed + length)
    BY <1>1, CutFacts DEF Heard
  <2>2. Heard' = Cut(arriving.stream, 1, arriving.pushed + length)
    BY <1>3 DEF Heard
  <2> QED BY <2>1, <2>2
<1> HIDE DEF fragment
<1>5. /\ Decoded(Heard') = answered \o Decoded(text)
      /\ Remainder(Heard') = Remainder(text)
      /\ text \in Seq(Symbols) /\ Remainder(text) \in Seq(Symbols)
  <2>1. /\ Decoded(Heard \o fragment) = Decoded(Heard) \o Decoded(Remainder(Heard) \o fragment)
        /\ Remainder(Heard \o fragment) = Remainder(Remainder(Heard) \o fragment)
    BY <1>4, FragmentFacts
  <2>2. answered = Decoded(Heard) /\ pendingLine = Remainder(Heard)
    BY <1>1 DEF Answers
  <2>3. text \in Seq(Symbols)
    BY <1>1, <1>4
  <2>4. Remainder(text) \in Seq(Symbols)
    <3> HIDE DEF text
    <3> QED BY <2>3, RemainderFacts DEF Remains
  <2> QED BY <1>4, <2>1, <2>2, <2>3, <2>4, Zenon
<1> HIDE DEF text
<1>6. Decoded(text) \in Seq(Outcomes) /\ answered \in Seq(Outcomes)
  <2>1. Events \subseteq Outcomes
    BY DEF Events, Outcomes
  <2> QED BY <1>1, <1>5, <2>1, DecodingFacts
<1>7. CASE "error" \in ToSet(Decoded(text))
  <2>1. ending' = "error" /\ pendingLine' = pendingLine /\ answered' = answered
    BY <1>2, <1>7
  <2>2. /\ IsPrefix(answered, answered \o Decoded(text))
        /\ "error" \in ToSet(answered \o Decoded(text))
    BY <1>6, <1>7, JoinedPrefix
  <2>3. FailsAfter(Heard', answered')
    BY <1>5, <2>1, <2>2, Zenon DEF FailsAfter
  <2> QED BY <1>1, <1>3, <2>1, <2>3 DEF StreamInv
<1>8. CASE "error" \notin ToSet(Decoded(text))
  <2>1. /\ pendingLine' = Remainder(text) /\ answered' = answered \o Decoded(text)
        /\ ending' = "open"
    BY <1>1, <1>2, <1>8
  <2>2. answered' \in Seq(Events)
    <3>1. Decoded(text) \in Seq(Events)
      BY <1>6, <1>8, WithoutError
    <3> QED BY <1>1, <2>1, <3>1
  <2>3. Answers(Heard', answered', pendingLine')
    BY <1>5, <2>1, Zenon DEF Answers
  <2> QED BY <1>3, <1>5, <2>1, <2>2, <2>3 DEF StreamInv
<1> QED
  BY <1>7, <1>8

LEMMA StreamInvariant == StreamSpec => []StreamInv
<1>1. StreamInv /\ [StreamNext]_streamVars => StreamInv'
  <2> SUFFICES ASSUME StreamInv, [StreamNext]_streamVars PROVE StreamInv'
    OBVIOUS
  <2>1. CASE \E length \in 1..Len(arriving.stream) : PushFragment(length)
    BY <2>1, PushStep
  <2>2. CASE FinishStream
    <3>1. /\ arriving' = arriving /\ pendingLine' = pendingLine /\ answered' = answered
          /\ ending = "open" /\ ending' \in {"complete", "truncated"}
          /\ ending' = "complete" => Trimmed(pendingLine) = << >>
      BY <2>2 DEF FinishStream
    <3>2. Heard' = Heard
      BY <3>1 DEF Heard
    <3> QED BY <3>1, <3>2 DEF StreamInv
  <2>3. CASE UNCHANGED streamVars
    <3>1. Heard' = Heard
      BY <2>3 DEF Heard, streamVars
    <3> QED BY <2>3, <3>1 DEF StreamInv, streamVars
  <2> QED BY <2>1, <2>2, <2>3 DEF StreamNext
<1> QED
  BY <1>1, FirstStep, PTL DEF StreamSpec

\* However long the answer and wherever the transport cuts it: the events are
\* those of the text decoded at once, an error is one of a line that fails, and an
\* end in the middle of a line is never taken for a clean one
\* (StreamDecoder::push and finish).
THEOREM CutsDoNotMatter == StreamSpec => []FragmentsDoNotMatter
<1>1. StreamInv => FragmentsDoNotMatter
  <2> SUFFICES ASSUME StreamInv PROVE FragmentsDoNotMatter
    OBVIOUS
  <2>1. Heard = SubSeq(arriving.stream, 1, arriving.pushed)
    BY DEF Heard, Cut
  <2>2. Heard \in Seq(Symbols)
    <3>1. /\ arriving.stream \in Seq(Symbols) /\ arriving.pushed \in Nat
          /\ arriving.pushed + 0 <= Len(arriving.stream) /\ 0 \in Nat
      BY StreamAssumption DEF StreamInv
    <3> QED BY <3>1, CutFacts DEF Heard
  <2>3. CASE ending = "error"
    <3>1. FailsAfter(Heard, answered)
      BY <2>3 DEF StreamInv
    <3> QED BY <2>1, <2>3, <3>1 DEF FragmentsDoNotMatter, FailsAfter
  <2>4. CASE ending # "error"
    <3>1. answered = Decoded(Heard) /\ pendingLine = Remainder(Heard) /\ answered \in Seq(Events)
          /\ (ending = "complete" => Trimmed(pendingLine) = << >>)
      BY <2>4 DEF StreamInv, Answers
    <3>2. "error" \notin ToSet(Decoded(Heard))
      <4>1. Decoded(Heard) \in Seq(Outcomes) /\ Decoded(Heard) \in Seq(Events)
        BY <2>2, <3>1, DecodingFacts
      <4> QED BY <4>1, WithoutError
    <3> QED BY <2>1, <2>4, <3>1, <3>2 DEF FragmentsDoNotMatter
  <2> QED BY <2>3, <2>4
<1> QED
  BY <1>1, StreamInvariant, PTL

\* What is returned is text and ends, never a failure.
THEOREM StreamTypeCorrect == StreamSpec => []StreamTypeOK
<1>1. StreamInv => StreamTypeOK
  <2> SUFFICES ASSUME StreamInv PROVE StreamTypeOK
    OBVIOUS
  <2>1. arriving.pushed \in 0..Len(arriving.stream)
    BY StreamAssumption DEF StreamInv
  <2> QED BY <2>1 DEF StreamInv, StreamTypeOK, Events
<1> QED
  BY <1>1, StreamInvariant, PTL

-----------------------------------------------------------------------------
(* Sequences of bytes, and the joint of several.                           *)

\* at joins the first n sequences.
Joins(seqs, at, n) ==
    /\ at \in [1..n -> Seq(Nat)] /\ at[1] = seqs[1]
    /\ \A k \in 2..n : at[k] = at[k - 1] \o seqs[k]

LEMMA JoinsGrow ==
  ASSUME NEW seqs \in Seq(Seq(Nat)), NEW k \in 2..Len(seqs),
         NEW at, Joins(seqs, at, k - 1)
  PROVE  \E longer : Joins(seqs, longer, k)
<1> DEFINE longer == [n \in 1..k |-> IF n = k THEN at[k - 1] \o seqs[k] ELSE at[n]]
<1>1. /\ at \in [1..(k - 1) -> Seq(Nat)] /\ at[1] = seqs[1]
      /\ \A n \in 2..(k - 1) : at[n] = at[n - 1] \o seqs[n]
  BY DEF Joins
<1>2. at[k - 1] \in Seq(Nat) /\ seqs[k] \in Seq(Nat)
  BY <1>1
<1>3. at[k - 1] \o seqs[k] \in Seq(Nat)
  BY <1>2
<1>4. longer \in [1..k -> Seq(Nat)] /\ longer[1] = seqs[1]
  BY <1>1, <1>3
<1>5. ASSUME NEW n \in 2..k
      PROVE  longer[n] = longer[n - 1] \o seqs[n]
  <2>1. longer[n - 1] = at[n - 1]
    OBVIOUS
  <2>2. CASE n = k
    <3>1. k \in 1..k
      OBVIOUS
    <3>2. longer[k] = at[k - 1] \o seqs[k]
      BY <3>1
    <3> HIDE DEF longer
    <3> QED BY <2>1, <2>2, <3>2
  <2>3. CASE n # k
    <3>1. n \in 2..(k - 1) /\ longer[n] = at[n]
      BY <2>3
    <3> QED BY <1>1, <2>1, <3>1
  <2> QED BY <2>2, <2>3
<1> HIDE DEF longer
<1>6. Joins(seqs, longer, k)
  BY <1>4, <1>5 DEF Joins
<1> QED
  BY <1>6

\* FlattenSeq is the last of them.
LEMMA FlattenJoins ==
  ASSUME NEW seqs \in Seq(Seq(Nat)), seqs # << >>
  PROVE  \E at : Joins(seqs, at, Len(seqs)) /\ FlattenSeq(seqs) = at[Len(seqs)]
<1> DEFINE last == Len(seqs)
           S == {n \in 0..last : n = 0 \/ \E at : Joins(seqs, at, n)}
<1>1. last \in Nat /\ last # 0 /\ 0 \in S
  OBVIOUS
<1>2. ASSUME NEW k \in 1..last, k - 1 \in S
      PROVE  k \in S
  <2>1. CASE k = 1
    <3>1. Joins(seqs, [n \in 1..1 |-> seqs[1]], 1)
      BY <2>1 DEF Joins
    <3> QED BY <2>1, <3>1
  <2>2. CASE k # 1
    <3>1. PICK at : Joins(seqs, at, k - 1)
      BY <1>2, <2>2
    <3>2. \E longer : Joins(seqs, longer, k)
      BY <2>2, <3>1, JoinsGrow
    <3> QED BY <3>2
  <2> QED BY <2>1, <2>2
<1>3. PICK at : Joins(seqs, at, last)
  <2>1. last \in S
    <3> HIDE DEF S
    <3>1. 0..last \subseteq S
      BY <1>1, <1>2, Induction
    <3> QED BY <1>1, <3>1
  <2> QED BY <1>1, <2>1
<1> DEFINE Recurs(f) == f = [i \in 1..Len(seqs) |-> IF i = 1 THEN seqs[i] ELSE f[i - 1] \o seqs[i]]
           flatten == CHOOSE f : Recurs(f)
<1>4. Recurs(at)
  <2>1. at \in [1..last -> Seq(Nat)]
    BY <1>3 DEF Joins
  <2>2. ASSUME NEW n \in 1..last
        PROVE  at[n] = IF n = 1 THEN seqs[n] ELSE at[n - 1] \o seqs[n]
    <3>1. CASE n = 1
      BY <1>3, <3>1 DEF Joins
    <3>2. CASE n # 1
      <4>1. n \in 2..last
        BY <1>1, <3>2
      <4> QED BY <1>3, <3>2, <4>1 DEF Joins
    <3> QED BY <3>1, <3>2
  <2> QED BY <2>1, <2>2
<1>5. Recurs(flatten)
  BY <1>4
<1>6. FlattenSeq(seqs) = flatten[last]
  BY <1>1 DEF FlattenSeq
<1> HIDE DEF S, flatten
<1> DEFINE Same == {n \in 0..last : n = 0 \/ flatten[n] = at[n]}
<1>7. ASSUME NEW n \in 1..last, n - 1 \in Same
      PROVE  n \in Same
  <2>1. flatten[n] = IF n = 1 THEN seqs[n] ELSE flatten[n - 1] \o seqs[n]
    BY <1>5
  <2>2. at[n] = IF n = 1 THEN seqs[n] ELSE at[n - 1] \o seqs[n]
    <3>1. CASE n = 1
      BY <1>3, <3>1 DEF Joins
    <3>2. CASE n # 1
      <4>1. n \in 2..last
        BY <1>1, <3>2
      <4> QED BY <1>3, <3>2, <4>1 DEF Joins
    <3> QED BY <3>1, <3>2
  <2> QED BY <1>7, <2>1, <2>2
<1>8. flatten[last] = at[last]
  <2>1. 0 \in Same
    BY <1>1
  <2>2. 0..last \subseteq Same
    <3> HIDE DEF Same
    <3> QED BY <1>1, <1>7, <2>1, Induction
  <2> QED BY <1>1, <2>2
<1> QED
  BY <1>3, <1>6, <1>8

LEMMA FlattenOne ==
  ASSUME NEW a \in Seq(Nat)
  PROVE  FlattenSeq(<<a>>) = a
<1>1. <<a>> \in Seq(Seq(Nat)) /\ <<a>> # << >> /\ Len(<<a>>) = 1 /\ <<a>>[1] = a
  OBVIOUS
<1>2. PICK at : Joins(<<a>>, at, 1) /\ FlattenSeq(<<a>>) = at[1]
  BY <1>1, FlattenJoins
<1> QED
  BY <1>1, <1>2 DEF Joins

LEMMA FlattenTwo ==
  ASSUME NEW a \in Seq(Nat), NEW b \in Seq(Nat)
  PROVE  FlattenSeq(<<a, b>>) = a \o b
<1>1. /\ <<a, b>> \in Seq(Seq(Nat)) /\ <<a, b>> # << >> /\ Len(<<a, b>>) = 2
      /\ <<a, b>>[1] = a /\ <<a, b>>[2] = b
  OBVIOUS
<1>2. PICK at : Joins(<<a, b>>, at, 2) /\ FlattenSeq(<<a, b>>) = at[2]
  BY <1>1, FlattenJoins
<1>3. at[1] = a /\ at[2] = at[2 - 1] \o b
  BY <1>1, <1>2 DEF Joins
<1>4. 2 - 1 = 1
  OBVIOUS
<1> QED
  BY <1>2, <1>3, <1>4, Zenon

LEMMA SplitFacts ==
  ASSUME NEW a \in Seq(Nat), NEW b \in Seq(Nat)
  PROVE  /\ a \o b \in Seq(Nat) /\ Len(a \o b) = Len(a) + Len(b)
         /\ SubSeq(a \o b, 1, Len(a)) = a
         /\ SubSeq(a \o b, Len(a) + 1, Len(a) + Len(b)) = b
<1> DEFINE s == a \o b
<1>1. /\ s \in Seq(Nat) /\ Len(s) = Len(a) + Len(b)
      /\ \A i \in 1..(Len(a) + Len(b)) : s[i] = IF i <= Len(a) THEN a[i] ELSE b[i - Len(a)]
  BY ConcatProperties
<1>2. Len(a) \in Nat /\ Len(b) \in Nat
  OBVIOUS
<1> HIDE DEF s
<1>3. SubSeq(s, 1, Len(a)) = a
  <2>1. \A i \in 1..Len(a) : s[i] \in Nat
    BY <1>1, <1>2
  <2>2. /\ SubSeq(s, 1, Len(a)) \in Seq(Nat) /\ Len(SubSeq(s, 1, Len(a))) = Len(a)
        /\ \A i \in 1..Len(a) : SubSeq(s, 1, Len(a))[i] = a[i]
    BY <1>1, <1>2, <2>1, SubSeqProperties
  <2> QED BY <2>2, SeqEqual
<1>4. SubSeq(s, Len(a) + 1, Len(a) + Len(b)) = b
  <2>1. SubSeq(s, Len(a) + 1, Len(a) + Len(b)) = [i \in 1..Len(b) |-> s[Len(a) + i]]
    BY <1>1, <1>2
  <2>2. ASSUME NEW i \in 1..Len(b) PROVE s[Len(a) + i] = b[i]
    <3>1. Len(a) + i \in 1..(Len(a) + Len(b)) /\ ~(Len(a) + i <= Len(a)) /\ (Len(a) + i) - Len(a) = i
      BY <1>2
    <3> QED BY <1>1, <3>1
  <2>3. b = [i \in 1..Len(b) |-> b[i]]
    OBVIOUS
  <2> QED BY <2>1, <2>2, <2>3
<1> QED
  BY <1>1, <1>3, <1>4 DEF s

\* A field after its length, and what follows.
Frame(a) == <<Len(a)>> \o a

LEMMA FrameFacts ==
  ASSUME NEW a \in Seq(Nat)
  PROVE  /\ Frame(a) \in Seq(Nat) /\ Len(Frame(a)) = 1 + Len(a)
         /\ Frame(a)[1] = Len(a) /\ SubSeq(Frame(a), 2, 1 + Len(a)) = a
<1>1. <<Len(a)>> \in Seq(Nat) /\ Len(<<Len(a)>>) = 1 /\ <<Len(a)>>[1] = Len(a) /\ Len(a) \in Nat
  OBVIOUS
<1>2. \A i \in 1..(1 + Len(a)) :
         (<<Len(a)>> \o a)[i] = IF i <= 1 THEN <<Len(a)>>[i] ELSE a[i - 1]
  BY <1>1, ConcatProperties
<1>3. (<<Len(a)>> \o a)[1] = Len(a)
  BY <1>1, <1>2
<1>4. /\ <<Len(a)>> \o a \in Seq(Nat) /\ Len(<<Len(a)>> \o a) = 1 + Len(a)
      /\ SubSeq(<<Len(a)>> \o a, 1 + 1, 1 + Len(a)) = a
  BY <1>1, SplitFacts
<1>5. 1 + 1 = 2
  OBVIOUS
<1> QED
  BY <1>3, <1>4, <1>5 DEF Frame

Framed(a, b) == Frame(a) \o b

LEMMA FramedFacts ==
  ASSUME NEW a \in Seq(Nat), NEW b \in Seq(Nat)
  PROVE  /\ Framed(a, b) \in Seq(Nat) /\ Len(Framed(a, b)) = 1 + Len(a) + Len(b)
         /\ Framed(a, b)[1] = Len(a)
         /\ SubSeq(Framed(a, b), 2, 1 + Len(a)) = a
         /\ SubSeq(Framed(a, b), (1 + Len(a)) + 1, Len(Framed(a, b))) = b
<1> DEFINE head == Frame(a)
           s == head \o b
<1>1. /\ head \in Seq(Nat) /\ Len(head) = 1 + Len(a) /\ head[1] = Len(a)
      /\ SubSeq(head, 2, 1 + Len(a)) = a /\ Len(a) \in Nat /\ Len(b) \in Nat
  <2>1. /\ Frame(a) \in Seq(Nat) /\ Len(Frame(a)) = 1 + Len(a)
        /\ Frame(a)[1] = Len(a) /\ SubSeq(Frame(a), 2, 1 + Len(a)) = a
    BY FrameFacts
  <2>2. Len(a) \in Nat /\ Len(b) \in Nat
    OBVIOUS
  <2> QED BY <2>1, <2>2, Zenon
<1> HIDE DEF head
<1>2. /\ s \in Seq(Nat) /\ Len(s) = Len(head) + Len(b)
      /\ SubSeq(s, 1, Len(head)) = head
      /\ SubSeq(s, Len(head) + 1, Len(head) + Len(b)) = b
  BY <1>1, SplitFacts
<1>3. \A i \in 1..(Len(head) + Len(b)) : s[i] = IF i <= Len(head) THEN head[i] ELSE b[i - Len(head)]
  BY <1>1, ConcatProperties, SMTT(30)
<1> HIDE DEF s
<1>4. s[1] = Len(a)
  BY <1>1, <1>3
<1>5. SubSeq(s, 2, 1 + Len(a)) = a
  <2>1. SubSeq(s, 2, 1 + Len(a)) = [i \in 1..Len(a) |-> s[i + 1]]
    BY <1>1, <1>2
  <2>2. SubSeq(head, 2, 1 + Len(a)) = [i \in 1..Len(a) |-> head[i + 1]]
    BY <1>1
  <2>3. ASSUME NEW i \in 1..Len(a) PROVE s[i + 1] = head[i + 1]
    <3>1. i + 1 \in 1..(Len(head) + Len(b)) /\ i + 1 <= Len(head)
      BY <1>1
    <3> QED BY <1>3, <3>1
  <2> QED BY <1>1, <2>1, <2>2, <2>3
<1> QED
  BY <1>1, <1>2, <1>4, <1>5 DEF Framed, head, s

LEMMA FramedOnce ==
  ASSUME NEW a \in Seq(Nat), NEW b \in Seq(Nat), NEW c \in Seq(Nat), NEW d \in Seq(Nat),
         Framed(a, b) = Framed(c, d)
  PROVE  a = c /\ b = d
<1>1. /\ Framed(a, b)[1] = Len(a)
      /\ SubSeq(Framed(a, b), 2, 1 + Len(a)) = a
      /\ SubSeq(Framed(a, b), (1 + Len(a)) + 1, Len(Framed(a, b))) = b
  BY FramedFacts
<1>2. /\ Framed(c, d)[1] = Len(c)
      /\ SubSeq(Framed(c, d), 2, 1 + Len(c)) = c
      /\ SubSeq(Framed(c, d), (1 + Len(c)) + 1, Len(Framed(c, d))) = d
  BY FramedFacts
<1> QED
  BY <1>1, <1>2, Zenon

-----------------------------------------------------------------------------
(* Lists of paths.                                                         *)

LEMMA LossyFacts ==
  ASSUME NEW path \in Seq(Nat)
  PROVE  /\ Lossy(path) \in Seq(Nat) /\ Len(Lossy(path)) = Len(path)
         /\ IsText(path) => Lossy(path) = path
<1>1. Lossy(path) = [i \in 1..Len(path) |-> IF path[i] = 0 THEN 3 ELSE path[i]]
  BY DEF Lossy
<1>2. \A i \in 1..Len(path) : path[i] \in Nat
  OBVIOUS
<1>3. Lossy(path) \in Seq(Nat) /\ Len(Lossy(path)) = Len(path)
  BY <1>1, <1>2
<1>4. ASSUME IsText(path)
      PROVE  Lossy(path) = path
  <2>1. \A i \in 1..Len(path) : path[i] # 0
    <3>1. DOMAIN path = 1..Len(path)
      OBVIOUS
    <3> QED BY <1>4, <3>1 DEF IsText, Range
  <2>2. path = [i \in 1..Len(path) |-> path[i]]
    OBVIOUS
  <2> QED BY <1>1, <2>1, <2>2
<1> QED
  BY <1>3, <1>4

\* Where a framed path of this size is, behind what is before it.
Spans(before, size, end, last) ==
    /\ before + 1 \in 1..last /\ before + 1 \in 1..(last + 1) /\ before + 1 # last + 1
    /\ end \in Nat /\ (before + 1) + size = end
    /\ \A i \in 1..size : /\ before + (1 + i) \in 1..last
                          /\ (before + 1) + i = before + (1 + i)

LEMMA Between ==
  ASSUME NEW before \in Nat, NEW size \in Nat, NEW end, end = before + (1 + size),
         NEW last \in Nat, end <= last
  PROVE  Spans(before, size, end, last)
BY DEF Spans

\* Where each path of a list ends among the first n of them, framed one after another.
Laid(paths, bytes, ends, n) ==
    \A k \in 1..n :
       /\ ends[k] = ends[k - 1] + (1 + Len(paths[k])) /\ ends[k] <= Len(bytes)
       /\ bytes[ends[k - 1] + 1] = Len(paths[k])
       /\ \A i \in 1..Len(paths[k]) : bytes[ends[k - 1] + (1 + i)] = paths[k][i]

LEMMA LaidLonger ==
  ASSUME NEW paths \in Seq(Seq(Nat)), NEW n \in 1..Len(paths),
         NEW ends \in [0..Len(paths) -> Nat],
         NEW bytes \in Seq(Nat), ends[n - 1] = Len(bytes), Laid(paths, bytes, ends, n - 1),
         NEW longer \in Seq(Nat), longer = bytes \o Frame(paths[n]), ends[n] = Len(longer)
  PROVE  Laid(paths, longer, ends, n)
<1> DEFINE path == paths[n]
           frame == Frame(path)
<1>1. path \in Seq(Nat) /\ Len(path) \in Nat
  OBVIOUS
<1>2. /\ frame \in Seq(Nat) /\ Len(frame) = 1 + Len(path) /\ frame[1] = Len(path)
      /\ \A i \in 1..Len(path) : frame[1 + i] = path[i]
  <2>1. <<Len(path)>> \in Seq(Nat) /\ Len(<<Len(path)>>) = 1 /\ <<Len(path)>>[1] = Len(path)
    BY <1>1
  <2>2. \A i \in 1..(1 + Len(path)) :
           (<<Len(path)>> \o path)[i] = IF i <= 1 THEN <<Len(path)>>[i] ELSE path[i - 1]
    BY <1>1, <2>1, ConcatProperties
  <2>3. /\ <<Len(path)>> \o path \in Seq(Nat)
        /\ Len(<<Len(path)>> \o path) = 1 + Len(path)
    BY <1>1, <2>1, SplitFacts
  <2>4. (<<Len(path)>> \o path)[1] = Len(path)
    BY <1>1, <2>1, <2>2
  <2>5. ASSUME NEW i \in 1..Len(path)
        PROVE  (<<Len(path)>> \o path)[1 + i] = path[i]
    <3>1. 1 + i \in 1..(1 + Len(path)) /\ ~(1 + i <= 1) /\ (1 + i) - 1 = i
      BY <1>1
    <3> QED BY <2>2, <3>1
  <2> HIDE DEF path
  <2> QED BY <2>3, <2>4, <2>5 DEF Frame
<1>3. /\ Len(bytes) \in Nat /\ Len(longer) = Len(bytes) + Len(frame)
      /\ \A i \in 1..Len(bytes) : longer[i] = bytes[i]
      /\ \A i \in 1..Len(frame) : longer[Len(bytes) + i] = frame[i]
  <2> HIDE DEF frame
  <2>1. longer = bytes \o frame
    BY DEF frame
  <2>2. frame \in Seq(Nat)
    BY <1>2
  <2>3. /\ Len(bytes \o frame) = Len(bytes) + Len(frame)
        /\ \A i \in 1..Len(bytes) : (bytes \o frame)[i] = bytes[i]
        /\ \A i \in 1..Len(frame) : (bytes \o frame)[Len(bytes) + i] = frame[i]
    BY <2>2, JoinedAt
  <2> QED BY <2>1, <2>3
<1> HIDE DEF frame, path
<1> SUFFICES ASSUME NEW k \in 1..n
             PROVE  /\ ends[k] = ends[k - 1] + (1 + Len(paths[k])) /\ ends[k] <= Len(longer)
                    /\ longer[ends[k - 1] + 1] = Len(paths[k])
                    /\ \A i \in 1..Len(paths[k]) : longer[ends[k - 1] + (1 + i)] = paths[k][i]
  BY DEF Laid
<1>4. CASE k = n
  <2>1. paths[k] = path /\ ends[k - 1] = Len(bytes) /\ ends[k] = Len(longer)
    BY <1>4 DEF path
  <2>2. longer[Len(bytes) + 1] = frame[1]
    <3>1. 1 \in 1..Len(frame)
      BY <1>1, <1>2
    <3> QED BY <1>3, <3>1
  <2>3. ASSUME NEW i \in 1..Len(path)
        PROVE  longer[Len(bytes) + (1 + i)] = path[i]
    <3>1. 1 + i \in 1..Len(frame)
      BY <1>1, <1>2
    <3>2. longer[Len(bytes) + (1 + i)] = frame[1 + i]
      BY <1>3, <3>1
    <3> QED BY <1>2, <3>2
  <2>4. Len(longer) = Len(bytes) + (1 + Len(path)) /\ Len(longer) <= Len(longer)
    BY <1>1, <1>2, <1>3
  <2> QED BY <1>2, <2>1, <2>2, <2>3, <2>4
<1>5. CASE k # n
  <2>1. k \in 1..(n - 1)
    BY <1>5
  <2>2. /\ ends[k] = ends[k - 1] + (1 + Len(paths[k])) /\ ends[k] <= Len(bytes)
        /\ bytes[ends[k - 1] + 1] = Len(paths[k])
        /\ \A i \in 1..Len(paths[k]) : bytes[ends[k - 1] + (1 + i)] = paths[k][i]
    BY <2>1 DEF Laid
  <2>3. ends[k] \in Nat /\ ends[k - 1] \in Nat /\ Len(paths[k]) \in Nat
    <3>1. k \in 1..Len(paths) /\ k \in 0..Len(paths) /\ k - 1 \in 0..Len(paths)
      OBVIOUS
    <3>2. paths[k] \in Seq(Nat)
      BY <3>1
    <3>3. Len(paths[k]) \in Nat
      BY <3>2
    <3>4. ends[k] \in Nat /\ ends[k - 1] \in Nat
      BY <3>1, Zenon
    <3> QED BY <3>3, <3>4
  <2>4. \A i \in 1..Len(bytes) : longer[i] = bytes[i]
    BY <1>3
  <2> Spans(ends[k - 1], Len(paths[k]), ends[k], Len(bytes))
    BY <1>3, <2>2, <2>3, Between
  <2>5. longer[ends[k - 1] + 1] = Len(paths[k])
    <3>1. ends[k - 1] + 1 \in 1..Len(bytes)
      BY Zenon DEF Spans
    <3> QED BY <2>2, <2>4, <3>1
  <2>6. ASSUME NEW i \in 1..Len(paths[k])
        PROVE  longer[ends[k - 1] + (1 + i)] = paths[k][i]
    <3>1. ends[k - 1] + (1 + i) \in 1..Len(bytes)
      BY Zenon DEF Spans
    <3> QED BY <2>2, <2>4, <3>1
  <2>7. ends[k] <= Len(longer)
    BY <1>1, <1>2, <1>3, <2>2, <2>3
  <2> QED BY <2>2, <2>5, <2>6, <2>7
<1> QED
  BY <1>4, <1>5

LEMMA IsSequence ==
  ASSUME NEW n \in Nat, NEW T, NEW f \in [1..n -> T]
  PROVE  f \in Seq(T) /\ Len(f) = n
OBVIOUS

LEMMA PathsLaid ==
  ASSUME NEW paths \in Seq(Seq(Nat)), paths # << >>, NEW bytes,
         bytes = FlattenSeq([i \in DOMAIN paths |-> Frame(paths[i])])
  PROVE  /\ bytes \in Seq(Nat)
         /\ \E ends \in [0..Len(paths) -> Nat] :
               ends[0] = 0 /\ ends[Len(paths)] = Len(bytes) /\ Laid(paths, bytes, ends, Len(paths))
<1> DEFINE last == Len(paths)
           frames == [i \in 1..last |-> Frame(paths[i])]
<1>1. last \in Nat /\ last # 0 /\ DOMAIN paths = 1..last /\ \A i \in 1..last : paths[i] \in Seq(Nat)
  OBVIOUS
<1>2. \A i \in 1..last : Frame(paths[i]) \in Seq(Nat)
  BY <1>1, FrameFacts
<1>3. frames \in Seq(Seq(Nat)) /\ Len(frames) = last /\ frames # << >>
  <2>1. frames \in [1..last -> Seq(Nat)]
    BY <1>2
  <2>2. \A k \in 1..last : frames[k] \in Seq(Nat)
    BY <1>2
  <2> HIDE DEF frames
  <2>3. frames \in Seq(Seq(Nat)) /\ Len(frames) = last
    BY <1>1, <2>1, IsSequence
  <2> QED BY <1>1, <2>3
<1>4. bytes = FlattenSeq(frames)
  BY <1>1
<1> HIDE DEF frames
<1>5. PICK at : Joins(frames, at, last) /\ FlattenSeq(frames) = at[last]
  BY <1>3, FlattenJoins
<1>6. /\ at \in [1..last -> Seq(Nat)] /\ at[1] = Frame(paths[1])
      /\ \A k \in 2..last : at[k] = at[k - 1] \o Frame(paths[k])
  <2>1. at \in [1..last -> Seq(Nat)] /\ at[1] = frames[1]
        /\ \A k \in 2..last : at[k] = at[k - 1] \o frames[k]
    BY <1>5 DEF Joins
  <2>2. \A k \in 1..last : frames[k] = Frame(paths[k])
    BY DEF frames
  <2>3. 1 \in 1..last /\ 2..last \subseteq 1..last
    BY <1>1
  <2>4. ASSUME NEW k \in 2..last PROVE at[k] = at[k - 1] \o Frame(paths[k])
    BY <2>1, <2>2, <2>3, Zenon
  <2> QED BY <2>1, <2>2, <2>3, <2>4, Zenon
<1>7. \A k \in 1..last : at[k] \in Seq(Nat)
  BY <1>6
<1> DEFINE ends == [k \in 0..last |-> IF k = 0 THEN 0 ELSE Len(at[k])]
           S == {k \in 0..last : k = 0 \/ Laid(paths, at[k], ends, k)}
<1>8. ends \in [0..last -> Nat] /\ ends[0] = 0 /\ \A k \in 1..last : ends[k] = Len(at[k])
  <2>1. \A k \in 1..last : Len(at[k]) \in Nat
    BY <1>7
  <2> QED BY <2>1
<1> HIDE DEF ends
<1>9. ASSUME NEW k \in 1..last, k - 1 \in S
      PROVE  k \in S
  <2>1. CASE k = 1
    <3>1. << >> \in Seq(Nat) /\ Len(<< >>) = 0
      OBVIOUS
    <3>2. Laid(paths, << >>, ends, 0)
      BY DEF Laid
    <3>3. at[1] = << >> \o Frame(paths[1]) /\ 1 \in 1..last /\ 1 - 1 = 0
      BY <1>1, <1>2, <1>6
    <3>4. Laid(paths, at[1], ends, 1)
      BY <1>7, <1>8, <3>1, <3>2, <3>3, LaidLonger
    <3> QED BY <2>1, <3>4
  <2>2. CASE k # 1
    <3>1. k \in 2..last /\ k - 1 \in 1..last
      BY <2>2
    <3>2. Laid(paths, at[k - 1], ends, k - 1)
      BY <1>9, <3>1
    <3>3. at[k] = at[k - 1] \o Frame(paths[k]) /\ ends[k - 1] = Len(at[k - 1]) /\ ends[k] = Len(at[k])
      BY <1>6, <1>8, <3>1
    <3>4. at[k - 1] \in Seq(Nat) /\ at[k] \in Seq(Nat)
      BY <1>7, <3>1
    <3>5. Laid(paths, at[k], ends, k)
      BY <1>8, <3>2, <3>3, <3>4, LaidLonger
    <3> QED BY <3>5
  <2> QED BY <2>1, <2>2
<1>10. Laid(paths, at[last], ends, last)
  <2>1. 0 \in S
    BY <1>1
  <2>2. 0..last \subseteq S
    <3> HIDE DEF S
    <3> QED BY <1>1, <1>9, <2>1, Induction
  <2> QED BY <1>1, <2>2
<1>11. bytes = at[last] /\ last \in 1..last
  BY <1>1, <1>4, <1>5
<1>12. bytes \in Seq(Nat) /\ ends[last] = Len(bytes) /\ Laid(paths, bytes, ends, last)
  BY <1>7, <1>8, <1>10, <1>11, Zenon
<1> QED
  BY <1>8, <1>12

\* What decode_paths makes of the bytes from one offset on, if from says what it makes
\* of later ones.
Reading(bytes, from, at) ==
    IF at = Len(bytes) + 1 THEN << >>
    ELSE LET end == at + bytes[at]
             path == SubSeq(bytes, at + 1, end)
         IN  IF end > Len(bytes) \/ ~IsText(path) \/ ~IsAbsolute(path) \/ from[end + 1] = Invalid
             THEN Invalid ELSE <<path>> \o from[end + 1]

LEMMA ReadingSame ==
  ASSUME NEW bytes \in Seq(Nat), NEW f, NEW g, NEW at \in 1..(Len(bytes) + 1),
         \A later \in (at + 1)..(Len(bytes) + 1) : f[later] = g[later]
  PROVE  Reading(bytes, f, at) = Reading(bytes, g, at)
<1>1. CASE at = Len(bytes) + 1
  BY <1>1 DEF Reading
<1>2. CASE at # Len(bytes) + 1
  <2> DEFINE end == at + bytes[at]
  <2>1. bytes[at] \in Nat /\ Len(bytes) \in Nat
    BY <1>2
  <2>2. end \in Nat /\ end >= at
    BY <2>1
  <2>3. end > Len(bytes) \/ f[end + 1] = g[end + 1]
    <3> HIDE DEF end
    <3> QED BY <2>1, <2>2
  <2> QED BY <1>2, <2>3 DEF Reading
<1> QED
  BY <1>1, <1>2

LEMMA ReadingExists ==
  ASSUME NEW bytes \in Seq(Nat)
  PROVE  \E from : from = [at \in 1..(Len(bytes) + 1) |-> Reading(bytes, from, at)]
<1> DEFINE last == Len(bytes)
           Reads(f, n) == \A at \in (last + 1 - n)..(last + 1) : f[at] = Reading(bytes, f, at)
           S == {n \in 0..last : \E f : Reads(f, n)}
<1>1. last \in Nat
  OBVIOUS
<1>2. 0 \in S
  <2>1. Reads([at \in 1..(last + 1) |-> << >>], 0)
    BY <1>1 DEF Reading
  <2> QED BY <1>1, <2>1
<1>3. ASSUME NEW n \in 1..last, n - 1 \in S
      PROVE  n \in S
  <2>1. PICK f : Reads(f, n - 1)
    BY <1>3
  <2> DEFINE first == (last + 1) - n
             g == [at \in 1..(last + 1) |-> IF at = first THEN Reading(bytes, f, at) ELSE f[at]]
  <2>2. first \in 1..(last + 1) /\ first + 1 = last + 1 - (n - 1)
    BY <1>1
  <2>3. ASSUME NEW at \in first..(last + 1)
        PROVE  Reading(bytes, f, at) = Reading(bytes, g, at)
    <3>1. at \in 1..(last + 1)
      BY <2>2
    <3>2. ASSUME NEW later \in (at + 1)..(last + 1) PROVE f[later] = g[later]
      BY <1>1, <2>2
    <3> HIDE DEF g, first
    <3> QED BY <3>1, <3>2, ReadingSame
  <2>4. Reads(g, n)
    <3>1. ASSUME NEW at \in first..(last + 1) PROVE g[at] = Reading(bytes, g, at)
      <4>1. CASE at = first
        BY <2>2, <2>3, <4>1
      <4>2. CASE at # first
        <5>1. at \in (first + 1)..(last + 1) /\ at \in 1..(last + 1)
          BY <1>1, <2>2, <4>2
        <5>2. f[at] = Reading(bytes, f, at)
          BY <2>1, <2>2, <5>1
        <5>3. g[at] = f[at]
          BY <4>2, <5>1
        <5> QED BY <2>3, <5>2, <5>3
      <4> QED BY <4>1, <4>2
    <3>2. first = last + 1 - n
      BY <1>1
    <3> QED BY <3>1, <3>2
  <2>5. \E h : Reads(h, n)
    <3> HIDE DEF g, Reads
    <3> QED BY <2>4
  <2> QED BY <1>1, <2>5
<1>4. PICK f : Reads(f, last)
  <2>1. 0..last \subseteq S
    <3> HIDE DEF S
    <3> QED BY <1>1, <1>2, <1>3, Induction
  <2> QED BY <1>1, <2>1
<1> DEFINE from == [at \in 1..(last + 1) |-> f[at]]
<1>5. ASSUME NEW at \in 1..(last + 1)
      PROVE  from[at] = Reading(bytes, from, at)
  <2>1. f[at] = Reading(bytes, f, at)
    BY <1>1, <1>4
  <2>2. Reading(bytes, f, at) = Reading(bytes, from, at)
    <3>1. \A later \in (at + 1)..(last + 1) : f[later] = from[later]
      BY <1>1
    <3> HIDE DEF from
    <3> QED BY <3>1, ReadingSame
  <2> QED BY <2>1, <2>2
<1>6. from = [at \in 1..(last + 1) |-> from[at]]
  OBVIOUS
<1>7. from = [at \in 1..(last + 1) |-> Reading(bytes, from, at)]
  <2> HIDE DEF from
  <2> QED BY <1>5, <1>6
<1> QED
  BY <1>7

LEMMA SubSeqIs ==
  ASSUME NEW s \in Seq(Nat), NEW at \in Nat, NEW path \in Seq(Nat),
         \A i \in 1..Len(path) : s[at + i] = path[i]
  PROVE  SubSeq(s, at + 1, at + Len(path)) = path
<1>1. Len(path) \in Nat
  OBVIOUS
<1>2. SubSeq(s, at + 1, at + Len(path)) = [i \in 1..Len(path) |-> s[at + i]]
  BY <1>1
<1>3. path = [i \in 1..Len(path) |-> path[i]]
  OBVIOUS
<1> QED
  BY <1>2, <1>3

LEMMA RestFacts ==
  ASSUME NEW paths \in Seq(Seq(Nat)), NEW k \in 1..Len(paths)
  PROVE  <<paths[k]>> \o SubSeq(paths, k + 1, Len(paths)) = SubSeq(paths, k, Len(paths))
<1>1. Len(paths) \in k..Len(paths)
  OBVIOUS
<1> QED
  BY <1>1, SubSeqRecursiveFirst

\* From where a path begins, the rest of the list is read.
LEMMA PathsRead ==
  ASSUME NEW paths \in Seq(Seq(Nat)), NEW bytes \in Seq(Nat),
         NEW ends \in [0..Len(paths) -> Nat], ends[0] = 0, ends[Len(paths)] = Len(bytes),
         Laid(paths, bytes, ends, Len(paths)),
         \A k \in 1..Len(paths) : IsText(paths[k]) /\ IsAbsolute(paths[k]),
         NEW from, from = [at \in 1..(Len(bytes) + 1) |-> Reading(bytes, from, at)]
  PROVE  from[1] = paths
<1> DEFINE last == Len(paths)
           Rest(k) == SubSeq(paths, k + 1, last)
           S == {n \in 0..last : from[ends[last - n] + 1] = Rest(last - n)}
<1>1. last \in Nat /\ Len(bytes) \in Nat /\ \A k \in 1..last : paths[k] \in Seq(Nat)
  OBVIOUS
<1>2. 0 \in S
  <2>1. from[Len(bytes) + 1] = << >>
    <3>1. Len(bytes) + 1 \in 1..(Len(bytes) + 1)
      BY <1>1
    <3>2. from[Len(bytes) + 1] = Reading(bytes, from, Len(bytes) + 1)
      BY <3>1
    <3> QED BY <3>2 DEF Reading
  <2>2. Rest(last) = << >>
    BY <1>1, SubSeqEmpty
  <2>3. last - 0 = last
    BY <1>1
  <2>4. from[ends[last - 0] + 1] = Rest(last - 0) /\ 0 \in 0..last
    <3> HIDE DEF Rest
    <3> QED BY <1>1, <2>1, <2>2, <2>3
  <2> HIDE DEF Rest
  <2> QED BY <2>4
<1>3. ASSUME NEW n \in 1..last, n - 1 \in S
      PROVE  n \in S
  <2> DEFINE k == (last - n) + 1
             at == ends[k - 1] + 1
             path == paths[k]
             size == Len(path)
  <2>1. k \in 1..last /\ k - 1 = last - n /\ last - (n - 1) = k /\ k - 1 \in 0..last /\ k \in 0..last
    BY <1>1
  <2>2. from[ends[k] + 1] = Rest(k)
    BY <1>3, <2>1
  <2> HIDE DEF k
  <2>3. /\ ends[k] = ends[k - 1] + (1 + size) /\ ends[k] <= Len(bytes)
        /\ bytes[at] = size
        /\ \A i \in 1..size : bytes[ends[k - 1] + (1 + i)] = path[i]
    BY <2>1 DEF Laid
  <2>4. path \in Seq(Nat) /\ size \in Nat /\ ends[k - 1] \in Nat /\ IsText(path) /\ IsAbsolute(path)
    <3>1. path \in Seq(Nat) /\ IsText(path) /\ IsAbsolute(path)
      BY <1>1, <2>1
    <3>2. size \in Nat
      <4> HIDE DEF path
      <4> QED BY <3>1
    <3>3. ends[k - 1] \in Nat
      BY <2>1, Zenon
    <3> QED BY <3>1, <3>2, <3>3
  <2> Spans(ends[k - 1], size, ends[k], Len(bytes))
    <3> HIDE DEF size
    <3> QED BY <1>1, <2>3, <2>4, Between
  <2>5. SubSeq(bytes, at + 1, at + size) = path
    <3>1. at \in Nat
      BY <2>4
    <3>2. ASSUME NEW i \in 1..size PROVE bytes[at + i] = path[i]
      <4>1. at + i = ends[k - 1] + (1 + i)
        <5> HIDE DEF size
        <5> QED BY Zenon DEF Spans
      <4>2. bytes[ends[k - 1] + (1 + i)] = path[i]
        BY <2>3
      <4> HIDE DEF at, path
      <4> QED BY <4>1, <4>2, Zenon
    <3> HIDE DEF at, path
    <3> QED BY <2>4, <3>1, <3>2, SubSeqIs
  <2>6. at \in 1..(Len(bytes) + 1) /\ at # Len(bytes) + 1 /\ at + size = ends[k]
    <3> HIDE DEF size
    <3> QED BY Zenon DEF Spans
  <2>7. from[at] = Reading(bytes, from, at)
    <3> HIDE DEF at
    <3> QED BY <2>6
  <2>8. Rest(k) \in Seq(Seq(Nat)) /\ Rest(k) # Invalid
    <3>1. Rest(k) \in Seq(Seq(Nat))
      <4>1. \A i \in (k + 1)..last : paths[i] \in Seq(Nat)
        BY <1>1, <2>1
      <4> QED BY <1>1, <2>1, <4>1, SubSeqProperties
    <3> QED BY <3>1, ContentAssumption
  <2>9. from[at] = <<path>> \o Rest(k)
    <3>1. ~(ends[k] > Len(bytes))
      BY <1>1, <2>3, <2>6, SMTT(30)
    <3> HIDE DEF at, path, size, Rest
    <3> QED BY <2>2, <2>3, <2>4, <2>5, <2>6, <2>7, <2>8, <3>1 DEF Reading
  <2>10. <<path>> \o Rest(k) = Rest(k - 1)
    <3>1. (k - 1) + 1 = k
      BY <2>1
    <3>2. <<paths[k]>> \o SubSeq(paths, k + 1, Len(paths)) = SubSeq(paths, k, Len(paths))
      BY <2>1, RestFacts
    <3> QED BY <3>1, <3>2
  <2>11. from[ends[last - n] + 1] = Rest(last - n)
    <3> HIDE DEF Rest
    <3> QED BY <2>1, <2>9, <2>10
  <2> QED BY <2>11
<1>4. last \in S
  <2>1. 0..last \subseteq S
    <3> HIDE DEF S
    <3> QED BY <1>1, <1>2, <1>3, Induction
  <2>2. last \in 0..last
    BY <1>1
  <2> HIDE DEF S
  <2> QED BY <2>1, <2>2
<1>5. last - last = 0 /\ 0 + 1 = 1
  BY <1>1
<1>6. SubSeq(paths, 1, last) = paths
  BY SubSeqFull
<1>7. from[ends[0] + 1] = Rest(0)
  BY <1>4, <1>5
<1> QED
  BY <1>5, <1>6, <1>7

\* decode_paths reads what encode_paths has written.
LEMMA PathsReturn ==
  ASSUME NEW paths \in Seq(Seq(Nat)), paths # << >>,
         \A k \in 1..Len(paths) : IsText(paths[k]) /\ IsAbsolute(paths[k])
  PROVE  DecodePaths(EncodePaths([kind |-> "files", fields |-> paths]))
            = [kind |-> "files", fields |-> paths]
<1> DEFINE bytes == EncodePaths([kind |-> "files", fields |-> paths])
<1>1. bytes = FlattenSeq([i \in DOMAIN paths |-> Frame(paths[i])])
  <2>1. ASSUME NEW i \in DOMAIN paths PROVE EncodePath(paths[i]) = Frame(paths[i])
    <3>1. paths[i] \in Seq(Nat) /\ IsText(paths[i])
      <4>1. DOMAIN paths = 1..Len(paths)
        OBVIOUS
      <4> QED BY <4>1
    <3>2. Lossy(paths[i]) = paths[i]
      BY <3>1, LossyFacts
    <3> QED BY <3>2 DEF EncodePath, Frame
  <2>2. [i \in DOMAIN paths |-> EncodePath(paths[i])] = [i \in DOMAIN paths |-> Frame(paths[i])]
    BY <2>1
  <2> QED BY <2>2 DEF EncodePaths
<1> HIDE DEF bytes
<1>2. /\ bytes \in Seq(Nat)
      /\ \E ends \in [0..Len(paths) -> Nat] :
            ends[0] = 0 /\ ends[Len(paths)] = Len(bytes) /\ Laid(paths, bytes, ends, Len(paths))
  BY <1>1, PathsLaid
<1>3. PICK ends \in [0..Len(paths) -> Nat] :
         ends[0] = 0 /\ ends[Len(paths)] = Len(bytes) /\ Laid(paths, bytes, ends, Len(paths))
  BY <1>2
<1> DEFINE Recurs(f) == f = [at \in 1..(Len(bytes) + 1) |-> Reading(bytes, f, at)]
           from == CHOOSE f : Recurs(f)
<1>4. Recurs(from)
  BY <1>2, ReadingExists
<1>5. DecodePaths(bytes) = IF from[1] = Invalid \/ from[1] = << >> THEN Invalid
                           ELSE [kind |-> "files", fields |-> from[1]]
  BY DEF DecodePaths, Reading
<1>6. from[1] = paths
  <2> HIDE DEF from
  <2> QED BY <1>2, <1>3, <1>4, PathsRead
<1>7. paths # Invalid
  BY ContentAssumption
<1> HIDE DEF from
<1> QED
  BY <1>5, <1>6, <1>7 DEF bytes

LEMMA FlattenType ==
  ASSUME NEW seqs \in Seq(Seq(Nat)), seqs # << >>
  PROVE  FlattenSeq(seqs) \in Seq(Nat)
<1>1. Len(seqs) \in 1..Len(seqs)
  OBVIOUS
<1>2. PICK at : Joins(seqs, at, Len(seqs)) /\ FlattenSeq(seqs) = at[Len(seqs)]
  BY FlattenJoins
<1> QED
  BY <1>1, <1>2 DEF Joins

-----------------------------------------------------------------------------
(* Values.                                                                 *)

LEMMA ValueFacts ==
  ASSUME NEW v \in ContentValues
  PROVE  /\ v.kind \in ContentKinds /\ v.fields \in Seq(Seq(Nat))
         /\ v = [kind |-> v.kind, fields |-> v.fields]
         /\ v.kind = "text" => v.fields = <<v.fields[1]>> /\ v.fields[1] \in Seq(Nat)
                               /\ IsText(v.fields[1])
         /\ v.kind \in {"html", "rtf", "image"} =>
              v.fields = <<v.fields[1], v.fields[2]>>
              /\ v.fields[1] \in Seq(Nat) /\ v.fields[2] \in Seq(Nat)
         /\ v.kind \in {"html", "rtf"} => IsText(v.fields[1]) /\ IsText(v.fields[2])
         /\ v.kind = "image" => Len(v.fields[1]) = 2
<1>1. v \in [kind : ContentKinds, fields : Seq(Seq(Nat))]
  BY DEF ContentValues
<1>2. /\ v.kind = "text" => Len(v.fields) = 1 /\ IsText(v.fields[1])
      /\ v.kind \in {"html", "rtf"} =>
           Len(v.fields) = 2 /\ IsText(v.fields[1]) /\ IsText(v.fields[2])
      /\ v.kind = "image" => Len(v.fields) = 2 /\ Len(v.fields[1]) = 2
  BY DEF ContentValues
<1>3. v.kind \in ContentKinds /\ v.fields \in Seq(Seq(Nat)) /\ v = [kind |-> v.kind, fields |-> v.fields]
  BY <1>1
<1>4. ASSUME NEW f \in Seq(Seq(Nat)), Len(f) = 1
      PROVE  f = <<f[1]>> /\ f[1] \in Seq(Nat)
  <2>1. f[1] \in Seq(Nat)
    BY <1>4
  <2>2. <<f[1]>> \in Seq(Seq(Nat)) /\ Len(<<f[1]>>) = 1 /\ <<f[1]>>[1] = f[1]
    BY <2>1
  <2>3. \A i \in 1..Len(f) : f[i] = <<f[1]>>[i]
    BY <1>4, <2>2
  <2> QED BY <1>4, <2>1, <2>2, <2>3, SeqEqual
<1>5. ASSUME NEW f \in Seq(Seq(Nat)), Len(f) = 2
      PROVE  f = <<f[1], f[2]>> /\ f[1] \in Seq(Nat) /\ f[2] \in Seq(Nat)
  <2>1. f[1] \in Seq(Nat) /\ f[2] \in Seq(Nat)
    BY <1>5
  <2>2. /\ <<f[1], f[2]>> \in Seq(Seq(Nat)) /\ Len(<<f[1], f[2]>>) = 2
        /\ <<f[1], f[2]>>[1] = f[1] /\ <<f[1], f[2]>>[2] = f[2]
    BY <2>1
  <2>3. \A i \in 1..Len(f) : f[i] = <<f[1], f[2]>>[i]
    BY <1>5, <2>2
  <2> QED BY <1>5, <2>1, <2>2, <2>3, SeqEqual
<1> QED
  BY <1>2, <1>3, <1>4, <1>5

\* What is hashed, by kind.
LEMMA DigestFacts ==
  ASSUME NEW v \in ContentValues, WellFormed(v)
  PROVE  /\ Digest(v).kind = v.kind /\ Digest(v) # Invalid
         /\ v.kind = "text" => Digest(v).hashed = v.fields[1]
         /\ v.kind = "image" => Digest(v).hashed = v.fields[1] \o v.fields[2]
         /\ v.kind \in {"html", "rtf"} =>
              Digest(v).hashed = Framed(v.fields[1], Frame(v.fields[2]))
         /\ v.kind = "files" => Digest(v).hashed = EncodePaths(v)
<1> DEFINE parts == CASE v.kind \in {"text", "image"} -> v.fields
                      [] v.kind \in {"html", "rtf"} -> [i \in DOMAIN v.fields |-> HashField(v.fields[i])]
                      [] v.kind = "files" -> [i \in DOMAIN v.fields |-> HashField(Lossy(v.fields[i]))]
<1>1. Digest(v) = [kind |-> v.kind, hashed |-> FlattenSeq(parts)]
  BY DEF Digest
<1>2. v.kind = "text" => parts = <<v.fields[1]>>
  BY ValueFacts
<1>3. v.kind = "image" => parts = <<v.fields[1], v.fields[2]>>
  BY ValueFacts
<1>4. v.kind \in {"html", "rtf"} => parts = <<Frame(v.fields[1]), Frame(v.fields[2])>>
  <2> SUFFICES ASSUME v.kind \in {"html", "rtf"}
               PROVE  parts = <<Frame(v.fields[1]), Frame(v.fields[2])>>
    OBVIOUS
  <2>1. parts = [i \in DOMAIN v.fields |-> HashField(v.fields[i])]
    OBVIOUS
  <2>2. v.fields = <<v.fields[1], v.fields[2]>>
    BY ValueFacts
  <2>3. DOMAIN v.fields = 1..2
    BY <2>2
  <2> HIDE DEF parts
  <2>4. parts = [i \in 1..2 |-> Frame(v.fields[i])]
    BY <2>1, <2>3 DEF HashField, Frame
  <2> QED BY <2>4
<1>5. v.kind = "files" => parts = [i \in DOMAIN v.fields |-> EncodePath(v.fields[i])]
  BY DEF EncodePath, HashField
<1>6. parts \in Seq(Seq(Nat)) /\ parts # << >>
  <2>1. CASE v.kind \in {"text", "image"}
    BY <1>2, <1>3, <2>1, ValueFacts
  <2>2. CASE v.kind \in {"html", "rtf"}
    <3>1. Frame(v.fields[1]) \in Seq(Nat) /\ Frame(v.fields[2]) \in Seq(Nat)
      BY <2>2, ValueFacts, FrameFacts
    <3> HIDE DEF parts
    <3>2. parts = <<Frame(v.fields[1]), Frame(v.fields[2])>>
      BY <1>4, <2>2
    <3>3. ASSUME NEW x \in Seq(Nat), NEW y \in Seq(Nat)
          PROVE  <<x, y>> \in Seq(Seq(Nat)) /\ <<x, y>> # << >>
      OBVIOUS
    <3> QED BY <3>1, <3>2, <3>3
  <2>3. CASE v.kind = "files"
    <3>1. v.fields \in Seq(Seq(Nat)) /\ v.fields # << >>
      BY <2>3, ValueFacts DEF WellFormed
    <3>2. Len(v.fields) \in Nat /\ Len(v.fields) # 0 /\ DOMAIN v.fields = 1..Len(v.fields)
      BY <3>1
    <3>3. ASSUME NEW i \in 1..Len(v.fields) PROVE EncodePath(v.fields[i]) \in Seq(Nat)
      <4>1. v.fields[i] \in Seq(Nat)
        BY <3>1
      <4>2. Lossy(v.fields[i]) \in Seq(Nat)
        BY <4>1, LossyFacts
      <4>3. Frame(Lossy(v.fields[i])) \in Seq(Nat)
        BY <4>2, FrameFacts
      <4> QED BY <4>3 DEF EncodePath, Frame
    <3>4. parts = [i \in 1..Len(v.fields) |-> EncodePath(v.fields[i])]
      BY <1>5, <2>3, <3>2
    <3> HIDE DEF parts
    <3>5. parts \in [1..Len(v.fields) -> Seq(Nat)]
      BY <3>3, <3>4
    <3>6. parts \in Seq(Seq(Nat)) /\ Len(parts) = Len(v.fields)
      BY <3>2, <3>5, IsSequence
    <3> QED BY <3>2, <3>6
  <2> QED BY <2>1, <2>2, <2>3, ValueFacts DEF ContentKinds
<1> HIDE DEF parts
<1>7. FlattenSeq(parts) \in Seq(Nat)
  BY <1>6, FlattenType
<1>8. Digest(v) # Invalid
  <2>1. Digest(v) \in [kind : ContentKinds, hashed : Seq(Nat)]
    BY <1>1, <1>7, ValueFacts
  <2> QED BY <2>1, ContentAssumption
<1>9. v.kind = "text" => FlattenSeq(parts) = v.fields[1]
  BY <1>2, ValueFacts, FlattenOne
<1>10. v.kind = "image" => FlattenSeq(parts) = v.fields[1] \o v.fields[2]
  BY <1>3, ValueFacts, FlattenTwo
<1>11. v.kind \in {"html", "rtf"} => FlattenSeq(parts) = Framed(v.fields[1], Frame(v.fields[2]))
  <2> SUFFICES ASSUME v.kind \in {"html", "rtf"}
               PROVE  FlattenSeq(parts) = Framed(v.fields[1], Frame(v.fields[2]))
    OBVIOUS
  <2>1. Frame(v.fields[1]) \in Seq(Nat) /\ Frame(v.fields[2]) \in Seq(Nat)
    BY ValueFacts, FrameFacts
  <2> QED BY <1>4, <2>1, FlattenTwo DEF Framed
<1>12. v.kind = "files" => FlattenSeq(parts) = EncodePaths(v)
  BY <1>5 DEF EncodePaths
<1>13. Digest(v).kind = v.kind /\ Digest(v).hashed = FlattenSeq(parts)
  BY <1>1
<1> QED
  BY <1>8, <1>9, <1>10, <1>11, <1>12, <1>13, Zenon

LEMMA FilesReturn ==
  ASSUME NEW v \in ContentValues, v.kind = "files", Portable(v)
  PROVE  DecodePaths(EncodePaths(v)) = v
<1>1. v = [kind |-> "files", fields |-> v.fields] /\ v.fields \in Seq(Seq(Nat))
  BY ValueFacts
<1>2. DOMAIN v.fields = 1..Len(v.fields)
  BY <1>1
<1>3. v.fields # << >> /\ \A k \in 1..Len(v.fields) : IsText(v.fields[k]) /\ IsAbsolute(v.fields[k])
  BY <1>2 DEF Portable, WellFormed
<1>4. DecodePaths(EncodePaths([kind |-> "files", fields |-> v.fields]))
         = [kind |-> "files", fields |-> v.fields]
  BY <1>1, <1>3, PathsReturn
<1> QED
  BY <1>1, <1>4, Zenon

LEMMA ImageHashed ==
  ASSUME NEW v \in ContentValues, v.kind = "image", WellFormed(v),
         NEW hashed, hashed = Digest(v).hashed
  PROVE  v.fields = <<SubSeq(hashed, 1, 2), SubSeq(hashed, 3, Len(hashed))>>
<1>1. /\ v.fields = <<v.fields[1], v.fields[2]>>
      /\ v.fields[1] \in Seq(Nat) /\ v.fields[2] \in Seq(Nat) /\ Len(v.fields[1]) = 2
  BY ValueFacts
<1>2. hashed = v.fields[1] \o v.fields[2]
  BY DigestFacts
<1>3. /\ Len(v.fields[1] \o v.fields[2]) = Len(v.fields[1]) + Len(v.fields[2])
      /\ SubSeq(v.fields[1] \o v.fields[2], 1, Len(v.fields[1])) = v.fields[1]
      /\ SubSeq(v.fields[1] \o v.fields[2], Len(v.fields[1]) + 1, Len(v.fields[1]) + Len(v.fields[2]))
            = v.fields[2]
  BY <1>1, SplitFacts, ZenonT(30)
<1>4. 2 + 1 = 3
  OBVIOUS
<1>5. SubSeq(hashed, 1, 2) = v.fields[1] /\ SubSeq(hashed, 3, Len(hashed)) = v.fields[2]
  BY <1>1, <1>2, <1>3, <1>4, Zenon
<1> QED
  BY <1>1, <1>5, Zenon

\* Values that differ have different digests.
LEMMA DigestsDiffer ==
  ASSUME NEW v \in ContentValues, NEW w \in ContentValues, Portable(v), Portable(w), Digest(v) = Digest(w)
  PROVE  v = w
<1>1. WellFormed(v) /\ WellFormed(w)
  BY DEF Portable
<1>2. v.kind = w.kind /\ v.kind \in ContentKinds /\ Digest(v).hashed = Digest(w).hashed
  BY <1>1, DigestFacts, ValueFacts
<1>3. v = [kind |-> v.kind, fields |-> v.fields] /\ w = [kind |-> w.kind, fields |-> w.fields]
  BY ValueFacts
<1>4. CASE v.kind = "text"
  <2>1. v.fields[1] = w.fields[1]
    <3>1. Digest(v).hashed = v.fields[1]
      BY <1>1, <1>4, DigestFacts
    <3>2. Digest(w).hashed = w.fields[1]
      BY <1>1, <1>2, <1>4, DigestFacts
    <3>3. Digest(v).hashed = Digest(w).hashed
      BY <1>2
    <3> QED BY <3>1, <3>2, <3>3
  <2>2. v.fields = <<v.fields[1]>> /\ w.fields = <<w.fields[1]>>
    BY <1>2, <1>4, ValueFacts, Zenon
  <2>3. v.fields = w.fields
    BY <2>1, <2>2, Zenon
  <2> QED BY <1>2, <1>3, <2>3, Zenon
<1>5. CASE v.kind = "image"
  <2> DEFINE hashed == Digest(v).hashed
  <2>1. hashed = Digest(v).hashed /\ hashed = Digest(w).hashed
    BY <1>2
  <2> HIDE DEF hashed
  <2>2. v.fields = <<SubSeq(hashed, 1, 2), SubSeq(hashed, 3, Len(hashed))>>
    BY <1>1, <1>5, <2>1, ImageHashed
  <2>3. w.fields = <<SubSeq(hashed, 1, 2), SubSeq(hashed, 3, Len(hashed))>>
    BY <1>1, <1>2, <1>5, <2>1, ImageHashed
  <2> QED BY <1>2, <1>3, <2>2, <2>3, Zenon
<1>6. CASE v.kind \in {"html", "rtf"}
  <2>1. /\ v.fields = <<v.fields[1], v.fields[2]>> /\ w.fields = <<w.fields[1], w.fields[2]>>
        /\ v.fields[1] \in Seq(Nat) /\ v.fields[2] \in Seq(Nat)
        /\ w.fields[1] \in Seq(Nat) /\ w.fields[2] \in Seq(Nat)
    BY <1>2, <1>6, ValueFacts
  <2>2. Framed(v.fields[1], Frame(v.fields[2])) = Framed(w.fields[1], Frame(w.fields[2]))
    BY <1>1, <1>2, <1>6, DigestFacts, Zenon
  <2>3. Frame(v.fields[2]) \in Seq(Nat) /\ Frame(w.fields[2]) \in Seq(Nat)
    BY <2>1, FrameFacts
  <2>4. v.fields[1] = w.fields[1] /\ Frame(v.fields[2]) = Frame(w.fields[2])
    BY <2>1, <2>2, <2>3, FramedOnce
  <2>5. v.fields[2] = w.fields[2]
    <3>1. /\ Frame(v.fields[2])[1] = Len(v.fields[2])
          /\ SubSeq(Frame(v.fields[2]), 2, 1 + Len(v.fields[2])) = v.fields[2]
      BY <2>1, FrameFacts
    <3>2. /\ Frame(w.fields[2])[1] = Len(w.fields[2])
          /\ SubSeq(Frame(w.fields[2]), 2, 1 + Len(w.fields[2])) = w.fields[2]
      BY <2>1, FrameFacts
    <3> QED BY <2>4, <3>1, <3>2, Zenon
  <2>6. v.fields = w.fields
    BY <2>1, <2>4, <2>5, Zenon
  <2> QED BY <1>2, <1>3, <2>6, Zenon
<1>7. CASE v.kind = "files"
  <2>1. EncodePaths(v) = EncodePaths(w)
    BY <1>1, <1>2, <1>7, DigestFacts, Zenon
  <2>2. ASSUME NEW u \in ContentValues, u.kind = "files", Portable(u)
        PROVE  DecodePaths(EncodePaths(u)) = u
    BY <2>2, FilesReturn
  <2> QED BY <1>2, <1>7, <2>1, <2>2, Zenon
<1> QED
  BY <1>2, <1>4, <1>5, <1>6, <1>7 DEF ContentKinds

LEMMA TextJoined ==
  ASSUME NEW a \in Seq(Nat), NEW b \in Seq(Nat), IsText(a), IsText(b)
  PROVE  IsText(a \o b)
BY RangeConcatenation DEF IsText

\* What was encoded is decoded again.
LEMMA ValueReturns ==
  ASSUME NEW v \in ContentValues, Decodable(v)
  PROVE  Decode(v.kind, Encode(v)) = v
<1>1. WellFormed(v) /\ Portable(v) /\ v.kind \in ContentKinds
  BY ValueFacts DEF Decodable, Portable
<1>2. v = [kind |-> v.kind, fields |-> v.fields]
  BY ValueFacts
<1>3. CASE v.kind = "text"
  <2>1. v.fields = <<v.fields[1]>> /\ v.fields[1] \in Seq(Nat) /\ IsText(v.fields[1])
    BY <1>3, ValueFacts
  <2>2. v.fields[1] # << >>
    <3>1. 1 \in DOMAIN v.fields
      BY <2>1
    <3> QED BY <1>1, <1>3, <3>1 DEF WellFormed
  <2>3. Encode(v) = v.fields[1]
    BY <1>3 DEF Encode
  <2>4. Decode("text", v.fields[1]) = [kind |-> "text", fields |-> <<v.fields[1]>>]
    BY <2>1, <2>2 DEF Decode
  <2> QED BY <1>2, <1>3, <2>1, <2>3, <2>4, Zenon
<1>4. CASE v.kind \in {"html", "rtf"}
  <2> DEFINE plain == v.fields[1]
             rich == v.fields[2]
             bytes == Framed(plain, rich)
  <2>1. /\ v.fields = <<plain, rich>> /\ plain \in Seq(Nat) /\ rich \in Seq(Nat)
        /\ IsText(plain) /\ IsText(rich)
    BY <1>4, ValueFacts
  <2>2. plain # << >> /\ rich # << >> /\ ~ \E i \in DOMAIN v.fields : v.fields[i] = << >>
    <3>1. 1 \in DOMAIN v.fields /\ 2 \in DOMAIN v.fields
      BY <2>1
    <3> QED BY <1>1, <1>4, <3>1 DEF WellFormed
  <2> HIDE DEF plain, rich
  <2>3. Encode(v) = bytes
    <3>1. Encode(v) = EncodeRich(v)
      BY <1>4 DEF Encode
    <3> QED BY <2>2, <3>1 DEF EncodeRich, Framed, Frame, plain, rich
  <2>4. /\ bytes \in Seq(Nat) /\ Len(bytes) = 1 + Len(plain) + Len(rich) /\ bytes[1] = Len(plain)
        /\ SubSeq(bytes, 2, 1 + Len(plain)) = plain
        /\ SubSeq(bytes, (1 + Len(plain)) + 1, Len(bytes)) = rich
    BY <2>1, FramedFacts
  <2>5. IsText(plain \o rich)
    BY <2>1, TextJoined
  <2>6. Len(plain) \in Nat /\ Len(rich) \in Nat
    BY <2>1
  <2> HIDE DEF bytes
  <2>7. bytes # << >> /\ ~(1 + bytes[1] > Len(bytes))
    BY <2>4, <2>6
  <2>8. DecodeRich(v.kind, bytes) = [kind |-> v.kind, fields |-> <<plain, rich>>]
    BY <2>2, <2>4, <2>5, <2>7 DEF DecodeRich
  <2>9. Decode(v.kind, bytes) = DecodeRich(v.kind, bytes)
    BY <1>4 DEF Decode
  <2> QED BY <1>2, <2>1, <2>3, <2>8, <2>9, Zenon
<1>5. CASE v.kind = "image"
  <2> DEFINE measures == v.fields[1]
             pixels == v.fields[2]
             bytes == measures \o pixels
             value == [kind |-> "image",
                       fields |-> <<SubSeq(bytes, 1, 2), SubSeq(bytes, 3, Len(bytes))>>]
  <2>1. /\ v.fields = <<measures, pixels>> /\ measures \in Seq(Nat) /\ pixels \in Seq(Nat)
        /\ Len(measures) = 2 /\ Len(pixels) <= DecodedBytes
    BY <1>5, ValueFacts DEF Decodable
  <2>2. Digest(v) # Invalid
    BY <1>1, DigestFacts
  <2>3. Encode(v) = bytes
    <3>1. Encode(v) = FlattenSeq(v.fields)
      BY <1>5, <2>2 DEF Encode
    <3> QED BY <2>1, <3>1, FlattenTwo
  <2> HIDE DEF measures, pixels
  <2>4. /\ Len(bytes) = Len(measures) + Len(pixels)
        /\ SubSeq(bytes, 1, Len(measures)) = measures
        /\ SubSeq(bytes, Len(measures) + 1, Len(measures) + Len(pixels)) = pixels
    BY <2>1, SplitFacts
  <2>5. Len(pixels) \in Nat /\ DecodedBytes \in Nat /\ 2 + 1 = 3
    BY <2>1, ContentAssumption
  <2>6. SubSeq(bytes, 1, 2) = measures /\ SubSeq(bytes, 3, Len(bytes)) = pixels
    BY <2>1, <2>4, <2>5, Zenon
  <2>7. value = v
    BY <1>2, <1>5, <2>1, <2>6, Zenon
  <2>8. ~(Len(bytes) < 2) /\ ~(Len(bytes) - 2 > DecodedBytes)
    <3> HIDE DEF bytes
    <3> QED BY <2>1, <2>4, <2>5
  <2>9. DecodePng(bytes) = IF Len(bytes) < 2 \/ Len(bytes) - 2 > DecodedBytes \/ Digest(value) = Invalid
                           THEN Invalid ELSE value
    BY DEF DecodePng
  <2>10. Decode("image", bytes) = DecodePng(bytes)
    BY DEF Decode
  <2> HIDE DEF bytes, value
  <2> QED BY <1>5, <2>2, <2>3, <2>7, <2>8, <2>9, <2>10, Zenon
<1>6. CASE v.kind = "files"
  <2>1. Encode(v) = EncodePaths(v)
    BY <1>6 DEF Encode
  <2>2. Decode("files", EncodePaths(v)) = DecodePaths(EncodePaths(v))
    BY DEF Decode
  <2>3. DecodePaths(EncodePaths(v)) = v
    BY <1>1, <1>6, FilesReturn
  <2> QED BY <1>6, <2>1, <2>2, <2>3, Zenon
<1> QED
  BY <1>1, <1>3, <1>4, <1>5, <1>6 DEF ContentKinds

-----------------------------------------------------------------------------
(* One value on its way.                                                   *)

\* What is known of the value at each phase: what was offered is what was copied, and
\* what the other monitor remembers is the digest of what is on its clipboard.
ContentInv ==
    /\ content \in [phase : {"copied", "refused", "offered", "failed", "applied", "settled"},
                    copied : NativeValues, event : {content.event}, bytes : {content.bytes},
                    board : {content.board}, seen : {content.seen}]
    /\ content.phase = "offered" => /\ Portable(content.copied)
                                    /\ content.event = EventOf(content.copied)
                                    /\ content.bytes = Encode(content.copied)
    /\ content.phase = "applied" => content.seen = Digest(content.board)
    /\ content.phase \in {"applied", "settled"} /\ content.event.content # "transfer" =>
          content.board = content.copied

LEMMA EventFacts ==
  ASSUME NEW v
  PROVE  /\ EventOf(v).kind = v.kind
         /\ EventOf(v).content = "transfer" <=> v.kind = "files"
BY DEF EventOf

LEMMA NativeFacts ==
  ASSUME NEW v \in NativeValues
  PROVE  v \in ContentValues /\ v.kind \in {"text", "image", "files"}
BY ContentAssumption

\* The value that arrives is applied as it is, or not at all.
LEMMA ArrivesWhole ==
  ASSUME NEW v \in NativeValues, Portable(v), v.kind # "files",
         Decode(v.kind, Encode(v)) # Invalid
  PROVE  Decode(v.kind, Encode(v)) = v
<1>1. v \in ContentValues /\ v.kind \in {"text", "image"}
  BY NativeFacts
<1>2. CASE Decodable(v)
  BY <1>1, <1>2, ValueReturns
<1>3. CASE ~Decodable(v)
  <2> DEFINE bytes == v.fields[1] \o v.fields[2]
  <2>1. v.kind = "image" /\ ~(Len(v.fields[2]) <= DecodedBytes)
    BY <1>3 DEF Decodable
  <2>2. /\ v.fields = <<v.fields[1], v.fields[2]>>
        /\ v.fields[1] \in Seq(Nat) /\ v.fields[2] \in Seq(Nat) /\ Len(v.fields[1]) = 2
    BY <1>1, <2>1, ValueFacts
  <2>3. Digest(v) # Invalid
    BY <1>1, DigestFacts DEF Portable
  <2>4. Encode(v) = bytes
    <3>1. Encode(v) = FlattenSeq(v.fields)
      BY <2>1, <2>3 DEF Encode
    <3> QED BY <2>2, <3>1, FlattenTwo
  <2>5. Len(bytes) = Len(v.fields[1]) + Len(v.fields[2])
    BY <2>2, SplitFacts
  <2>6. Len(v.fields[2]) \in Nat /\ DecodedBytes \in Nat
    BY <2>2, ContentAssumption
  <2> HIDE DEF bytes
  <2>7. Len(bytes) - 2 > DecodedBytes
    BY <2>1, <2>2, <2>5, <2>6
  <2>8. Decode("image", bytes) = Invalid
    BY <2>7 DEF Decode, DecodePng
  <2> QED BY <2>1, <2>4, <2>8
<1> QED
  BY <1>2, <1>3

LEMMA AppliedStep ==
  ASSUME ContentInv, content.phase = "offered", NEW v, Applied(v),
         content.event.content = "transfer" => v.kind = "files",
         v # Invalid /\ content.event.content # "transfer" => v = content.copied
  PROVE  ContentInv'
<1>1. CASE ContentEnds("failed")
  BY <1>1 DEF ContentEnds, ContentInv
<1>2. CASE ~ContentEnds("failed")
  <2>1. /\ v # Invalid /\ OnBoard(v) # Invalid
        /\ content' = [content EXCEPT !.phase = "applied", !.board = OnBoard(v), !.seen = Digest(v)]
    BY <1>2 DEF Applied
  <2>2. v.kind \in {"text", "image", "files"}
    <3>1. content.copied \in NativeValues
      BY DEF ContentInv
    <3> QED BY <2>1, <3>1, NativeFacts
  <2>3. OnBoard(v) = v
    BY <2>1, <2>2 DEF OnBoard
  <2> QED BY <2>1, <2>3 DEF ContentInv
<1> QED
  BY <1>1, <1>2

LEMMA OfferFacts ==
  ASSUME ContentInv, content.phase = "offered"
  PROVE  /\ content.copied \in NativeValues /\ Portable(content.copied)
         /\ content.event.kind = content.copied.kind /\ content.bytes = Encode(content.copied)
         /\ content.event.content = "transfer" <=> content.copied.kind = "files"
<1>1. content.event = EventOf(content.copied)
  BY DEF ContentInv
<1> QED
  BY <1>1, EventFacts DEF ContentInv

LEMMA ContentStep ==
  ContentInv /\ [ContentNext]_content => ContentInv'
<1> SUFFICES ASSUME ContentInv, [ContentNext]_content
             PROVE  ContentInv'
  OBVIOUS
<1>1. CASE CaptureCopied
  <2>1. CASE ContentEnds("refused")
    BY <2>1 DEF ContentEnds, ContentInv
  <2>2. CASE ~ContentEnds("refused")
    <3>1. /\ Portable(content.copied)
          /\ content' = [content EXCEPT !.phase = "offered", !.event = EventOf(content.copied),
                                         !.bytes = Encode(content.copied)]
      BY <1>1, <2>2 DEF CaptureCopied
    <3> QED BY <3>1 DEF ContentInv
  <2> QED BY <2>1, <2>2
<1>2. CASE ReceiveInline
  <2>1. content.phase = "offered" /\ content.event.content = "inline"
        /\ Applied(Decode(content.event.kind, content.bytes))
    BY <1>2 DEF ReceiveInline
  <2>2. Decode(content.event.kind, content.bytes) # Invalid =>
           Decode(content.event.kind, content.bytes) = content.copied
    BY <2>1, OfferFacts, ArrivesWhole
  <2> QED BY <2>1, <2>2, AppliedStep
<1>3. CASE ReceiveContentBlob
  <2>1. content.phase = "offered" /\ content.event.content = "blob"
    BY <1>3 DEF ReceiveContentBlob
  <2>2. CASE ContentEnds("failed")
    BY <2>2 DEF ContentEnds, ContentInv
  <2>3. CASE Applied(Decode(content.event.kind, content.bytes))
    <3>1. Decode(content.event.kind, content.bytes) # Invalid =>
             Decode(content.event.kind, content.bytes) = content.copied
      BY <2>1, OfferFacts, ArrivesWhole
    <3> QED BY <2>1, <2>3, <3>1, AppliedStep
  <2> QED BY <1>3, <2>2, <2>3 DEF ReceiveContentBlob
<1>4. CASE ReceivePublished
  <2> DEFINE published == [kind |-> "files", fields |-> <<content.copied.fields[1]>>]
  <2>1. content.phase = "offered" /\ content.event.content = "transfer" /\ Applied(published)
    BY <1>4 DEF ReceivePublished
  <2>2. published.kind = "files"
    OBVIOUS
  <2> HIDE DEF published
  <2> QED BY <2>1, <2>2, AppliedStep
<1>5. CASE PollApplied
  <2>1. content.phase = "applied" /\ Digest(content.board) = content.seen
    BY <1>5 DEF PollApplied, ContentInv
  <2>2. ContentEnds("settled")
    BY <1>5, <2>1 DEF PollApplied
  <2> QED BY <2>1, <2>2 DEF ContentEnds, ContentInv
<1>6. CASE UNCHANGED content
  BY <1>6 DEF ContentInv
<1> QED
  BY <1>1, <1>2, <1>3, <1>4, <1>5, <1>6 DEF ContentNext

LEMMA ContentInvariant == ContentSpec => []ContentInv
<1>1. ContentInit => ContentInv
  BY DEF ContentInit, ContentInv
<1> QED
  BY <1>1, ContentStep, PTL DEF ContentSpec

\* Every value of the code's types comes back from history and off the wire as it went
\* in, up to the limits ContentSurvives names; digests tell values apart; and what the
\* other device applied is what was copied and is not captured there again.
THEOREM ValuesSurvive == ContentSpec => []ContentSurvives
<1>1. ContentInv => ContentSurvives
  <2> SUFFICES ASSUME ContentInv
               PROVE  ContentSurvives
    OBVIOUS
  <2>1. AllValues \subseteq ContentValues
    BY ContentAssumption DEF AllValues
  <2>2. \A v \in AllValues : Decodable(v) => Decode(v.kind, Encode(v)) = v
    BY <2>1, ValueReturns
  <2>3. \A v, w \in AllValues : Portable(v) /\ Portable(w) /\ Digest(v) = Digest(w) => v = w
    BY <2>1, DigestsDiffer
  <2>4. /\ content.phase # "echoed"
        /\ content.phase = "settled" /\ content.event.content # "transfer" =>
              content.board = content.copied
    BY DEF ContentInv
  <2> QED BY <2>2, <2>3, <2>4 DEF ContentSurvives
<1> QED
  BY <1>1, ContentInvariant, PTL

\* The value has one of its phases, and was on the first clipboard.
THEOREM ContentTypeCorrect == ContentSpec => []ContentTypeOK
<1>1. ContentInv => ContentTypeOK
  BY DEF ContentInv, ContentTypeOK
<1> QED
  BY <1>1, ContentInvariant, PTL
=============================================================================
