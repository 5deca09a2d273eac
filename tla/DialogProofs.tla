---------------------------- MODULE DialogProofs ----------------------------
(***************************************************************************)
(* Proofs about Dialog, for any number of dialogs and any length of the    *)
(* keyboard's text: the conversions between UTF-8 and UTF-16 lose nothing  *)
(* that fits, the module and the system agree on the open dialog, results  *)
(* belong to their dialogs and tell the truth, modules are restored, and   *)
(* Dialog implements DialogSpec.                                           *)
(***************************************************************************)
EXTENDS Dialog, FiniteSetTheorems, SequenceTheorems, WellFoundedInduction, TLAPS

(* The conversions of the keyboard's text *)

\* The texts a script can pass, the units of a character, and how often c occurs among
\* the first n characters.
Script == Seq({"b", "a", "s"})
Width(c) == IF c = "a" THEN 2 ELSE IF c = "s" THEN 3 ELSE 1
Count(text, c, n) == Cardinality({i \in 1 .. n : text[i] = c})

\* The least-number principle, which stands in for induction over a text.
LEMMA LeastElement ==
  ASSUME NEW T, T \subseteq Nat, T # {}
  PROVE  \E x \in T : \A y \in T : x <= y
<1> DEFINE R == OpToRel(<, Nat)
<1>1. IsWellFoundedOn(R, Nat)
  BY NatLessThanWellFounded
<1>2. \A x, y \in Nat : x < y => <<x, y>> \in R
  BY DEF OpToRel
<1> HIDE DEF R
<1>3. PICK x \in T : \A y \in T : <<y, x>> \notin R
  BY <1>1, WFMin
<1>4. x \in Nat /\ \A y \in T : y \in Nat /\ ~(y < x)
  BY <1>2, <1>3
<1>5. \A y \in T : x <= y
  BY <1>4
<1> QED
  BY <1>5

\* Counting up to a character more.
LEMMA CountStep ==
  ASSUME NEW text, NEW c, NEW n \in Nat
  PROVE  /\ Count(text, c, n) \in Nat
         /\ Count(text, c, n + 1) = Count(text, c, n) + (IF text[n + 1] = c THEN 1 ELSE 0)
<1> DEFINE C(m) == {i \in 1 .. m : text[i] = c}
<1>1. IsFiniteSet(1 .. n)
  BY FS_Interval
<1>2. C(n) \in SUBSET (1 .. n)
  OBVIOUS
<1>3. IsFiniteSet(C(n)) /\ Cardinality(C(n)) \in Nat
  BY <1>1, <1>2, FS_Subset, FS_CardinalityType
<1>4. C(n + 1) = IF text[n + 1] = c THEN C(n) \cup {n + 1} ELSE C(n)
  <2>1. 1 .. n + 1 = (1 .. n) \cup {n + 1}
    OBVIOUS
  <2> QED
    BY <2>1
<1>5. n + 1 \notin C(n)
  OBVIOUS
<1>6. Cardinality(C(n) \cup {n + 1}) = Cardinality(C(n)) + 1
  BY <1>3, <1>5, FS_AddElement
<1> HIDE DEF C
<1>7. Cardinality(C(n + 1)) = Cardinality(C(n)) + (IF text[n + 1] = c THEN 1 ELSE 0)
  BY <1>3, <1>4, <1>6
<1> QED
  BY <1>3, <1>7 DEF Count, C

\* Counting further never finds less.
LEMMA CountMonotone ==
  ASSUME NEW text, NEW c, NEW n \in Nat, NEW m \in 0 .. n
  PROVE  Count(text, c, m) <= Count(text, c, n)
<1> DEFINE C(j) == {i \in 1 .. j : text[i] = c}
<1>1. IsFiniteSet(1 .. n)
  BY FS_Interval
<1>2. C(n) \in SUBSET (1 .. n) /\ C(m) \in SUBSET C(n)
  OBVIOUS
<1>3. Cardinality(C(m)) <= Cardinality(C(n))
  BY <1>1, <1>2, FS_Subset
<1> QED
  BY <1>3 DEF Count

\* Where the units of a character begin.
LEMMA OffsetStep ==
  ASSUME NEW text, NEW n \in Nat
  PROVE  /\ Offset(text, n) \in Nat /\ Offset(text, 0) = 0
         /\ Offset(text, n + 1) = Offset(text, n) + Width(text[n + 1])
<1>1. \A m \in Nat : Offset(text, m) = m + Count(text, "a", m) + 2 * Count(text, "s", m)
  BY DEF Offset, Count
<1>2. \A m \in Nat : Count(text, "a", m) \in Nat /\ Count(text, "s", m) \in Nat
  BY CountStep
<1>3. \A c : Count(text, c, 0) = 0
  <2>1. \A c : {i \in 1 .. 0 : text[i] = c} = {}
    OBVIOUS
  <2> QED
    BY <2>1, FS_EmptySet DEF Count
<1>4. /\ Count(text, "a", n + 1) = Count(text, "a", n) + (IF text[n + 1] = "a" THEN 1 ELSE 0)
      /\ Count(text, "s", n + 1) = Count(text, "s", n) + (IF text[n + 1] = "s" THEN 1 ELSE 0)
  BY CountStep
<1>5. Offset(text, n) \in Nat /\ Offset(text, 0) = 0
  BY <1>1, <1>2, <1>3
<1>6. n + 1 \in Nat
  OBVIOUS
<1>7. /\ Offset(text, n) = n + Count(text, "a", n) + 2 * Count(text, "s", n)
      /\ Offset(text, n + 1) = n + 1 + Count(text, "a", n + 1) + 2 * Count(text, "s", n + 1)
  BY <1>1, <1>6
<1>8. Width(text[n + 1]) = 1 + (IF text[n + 1] = "a" THEN 1 ELSE 0)
                             + 2 * (IF text[n + 1] = "s" THEN 1 ELSE 0)
  BY DEF Width
<1>9. Count(text, "a", n) \in Nat /\ Count(text, "s", n) \in Nat
  BY <1>2
<1>10. Offset(text, n + 1) = Offset(text, n) + Width(text[n + 1])
  BY <1>4, <1>7, <1>8, <1>9
<1> QED
  BY <1>5, <1>10

\* Later characters have later units.
LEMMA OffsetMonotone ==
  ASSUME NEW text, NEW n \in Nat, NEW m \in 0 .. n
  PROVE  Offset(text, m) + (n - m) <= Offset(text, n)
<1>1. \A j \in Nat : Offset(text, j) = j + Count(text, "a", j) + 2 * Count(text, "s", j)
  BY DEF Offset, Count
<1>2. \A j \in Nat : Count(text, "a", j) \in Nat /\ Count(text, "s", j) \in Nat
  BY CountStep
<1>3. /\ Count(text, "a", m) <= Count(text, "a", n)
      /\ Count(text, "s", m) <= Count(text, "s", n)
  BY CountMonotone
<1>4. m \in Nat
  OBVIOUS
<1> QED
  BY <1>1, <1>2, <1>3, <1>4

\* Every unit belongs to one character.
LEMMA Located ==
  ASSUME NEW text \in Script, NEW p \in 1 .. Offset(text, Len(text))
  PROVE  \E i \in 1 .. Len(text) : Offset(text, i - 1) < p /\ p <= Offset(text, i)
<1> DEFINE T == {j \in Nat : p <= Offset(text, j)}
<1>0. Len(text) \in Nat
  BY DEF Script
<1>1. \A j \in Nat : Offset(text, j) \in Nat
  BY OffsetStep
<1>2. Len(text) \in T /\ T \subseteq Nat
  BY <1>0, <1>1
<1>3. PICK i \in T : \A j \in T : i <= j
  BY <1>2, LeastElement
<1>4. i \in Nat /\ p <= Offset(text, i) /\ i <= Len(text)
  BY <1>2, <1>3
<1>5. i # 0
  BY <1>1, <1>4, OffsetStep
<1>6. i - 1 \in Nat /\ i - 1 \notin T
  BY <1>3, <1>4, <1>5
<1>7. Offset(text, i - 1) < p
  BY <1>1, <1>6
<1> QED
  BY <1>0, <1>4, <1>5, <1>7

\* What the units of a text are.
LEMMA UnitsAt ==
  ASSUME NEW text \in Script, NEW i \in 1 .. Len(text), NEW k \in 1 .. Width(text[i])
  PROVE  /\ Offset(text, i - 1) + k \in 1 .. Offset(text, Len(text))
         /\ UnitsOf(text)[Offset(text, i - 1) + k] = Decoded(text[i], k)
<1> DEFINE p == Offset(text, i - 1) + k
           In(j) == Offset(text, j - 1) < p /\ p <= Offset(text, j)
           unit(j) == Decoded(text[j], p - Offset(text, j - 1))
<1>1. Len(text) \in Nat /\ i \in Nat /\ i - 1 \in Nat /\ i <= Len(text)
  BY DEF Script
<1>2. \A j \in Nat : Offset(text, j) \in Nat
  BY OffsetStep
<1>3. Offset(text, i) = Offset(text, i - 1) + Width(text[i])
  BY <1>1, OffsetStep
<1>4. Width(text[i]) \in Nat /\ k \in Nat /\ 1 <= k /\ k <= Width(text[i])
  BY DEF Width
<1>o. Offset(text, i - 1) \in Nat /\ Offset(text, i) \in Nat /\ Offset(text, Len(text)) \in Nat
  BY <1>1, <1>2
<1>5. In(i)
  BY <1>o, <1>3, <1>4
<1>6. \A j \in 1 .. Len(text) : In(j) => j = i
  <2> SUFFICES ASSUME NEW j \in 1 .. Len(text), In(j) PROVE j = i
    OBVIOUS
  <2>1. j \in Nat /\ j - 1 \in Nat
    BY <1>1
  <2>2. CASE j < i
    <3>1. Offset(text, j) <= Offset(text, i - 1)
      <4>1. Offset(text, j) + ((i - 1) - j) <= Offset(text, i - 1)
        BY <1>1, <2>1, <2>2, OffsetMonotone
      <4> QED
        BY <1>1, <1>2, <2>1, <2>2, <4>1
    <3> QED
      BY <1>1, <1>2, <1>5, <2>1, <3>1, <1>4
  <2>3. CASE i < j
    <3>1. Offset(text, i) <= Offset(text, j - 1)
      <4>1. Offset(text, i) + ((j - 1) - i) <= Offset(text, j - 1)
        BY <1>1, <2>1, <2>3, OffsetMonotone
      <4> QED
        BY <1>1, <1>2, <2>1, <2>3, <4>1
    <3> QED
      BY <1>1, <1>2, <1>5, <2>1, <3>1, <1>4
  <2> QED
    BY <1>1, <2>1, <2>2, <2>3
<1>7. Offset(text, i) <= Offset(text, Len(text))
  <2>1. Offset(text, i) + (Len(text) - i) <= Offset(text, Len(text))
    BY <1>1, OffsetMonotone
  <2> QED
    BY <1>1, <1>2, <2>1
<1>8. p \in 1 .. Offset(text, Len(text))
  BY <1>o, <1>4, <1>5, <1>7
<1>9. p - Offset(text, i - 1) = k
  BY <1>1, <1>2, <1>4
<1>10. UnitsOf(text)[p] = unit(CHOOSE j \in 1 .. Len(text) : In(j))
  BY <1>8 DEF UnitsOf
<1> HIDE DEF In
<1>11. (CHOOSE j \in 1 .. Len(text) : In(j)) = i
  BY <1>5, <1>6
<1> QED
  BY <1>8, <1>9, <1>10, <1>11

\* The units of a text are as many as its offsets say.
LEMMA UnitsType ==
  ASSUME NEW text \in Script
  PROVE  UnitsOf(text) \in Seq(Units) /\ Len(UnitsOf(text)) = Offset(text, Len(text))
<1> DEFINE n == Offset(text, Len(text))
<1>1. Len(text) \in Nat /\ n \in Nat /\ \A i \in 1 .. Len(text) : text[i] \in {"b", "a", "s"}
  BY OffsetStep DEF Script
<1>2. \A c \in {"b", "a", "s"} : \A k : Decoded(c, k) \in Units
  BY DEF Decoded, Units
<1>3. ASSUME NEW p \in 1 .. n PROVE UnitsOf(text)[p] \in Units
  <2> DEFINE In(j) == Offset(text, j - 1) < p /\ p <= Offset(text, j)
             c == CHOOSE j \in 1 .. Len(text) : In(j)
  <2>1. UnitsOf(text)[p] = Decoded(text[c], p - Offset(text, c - 1))
    BY <1>3 DEF UnitsOf
  <2>2. \E j \in 1 .. Len(text) : In(j)
    BY <1>3, Located
  <2>3. c \in 1 .. Len(text)
    <3> HIDE DEF In
    <3> QED
      BY <2>2
  <2> HIDE DEF c
  <2> QED
    BY <1>1, <1>2, <2>1, <2>3
<1>4. UnitsOf(text) = [p \in 1 .. n |-> UnitsOf(text)[p]]
  BY DEF UnitsOf
<1> HIDE DEF n
<1> QED
  <2> DEFINE u == UnitsOf(text)
  <2> HIDE DEF u
  <2>1. u = [p \in 1 .. n |-> u[p]] /\ n \in Nat /\ \A p \in 1 .. n : u[p] \in Units
    BY <1>1, <1>3, <1>4 DEF u
  <2>2. u \in Seq(Units) /\ Len(u) = n
    BY <2>1
  <2> QED
    BY <2>2 DEF u, n

\* A pair has its high surrogate first and its low one after it; no text ends in a high one.
LEMMA UnitsPaired ==
  ASSUME NEW text \in Script, NEW p \in 1 .. Len(UnitsOf(text)), UnitsOf(text)[p] = "h"
  PROVE  p + 1 \in 1 .. Len(UnitsOf(text)) /\ UnitsOf(text)[p + 1] = "l"
<1>1. Len(UnitsOf(text)) = Offset(text, Len(text)) /\ Len(text) \in Nat
  BY UnitsType DEF Script
<1>2. PICK i \in 1 .. Len(text) : Offset(text, i - 1) < p /\ p <= Offset(text, i)
  BY <1>1, Located
<1> DEFINE k == p - Offset(text, i - 1)
<1>3. i - 1 \in Nat /\ i = (i - 1) + 1 /\ text[i] \in {"b", "a", "s"}
  BY DEF Script
<1>4. Offset(text, i - 1) \in Nat /\ Offset(text, i) = Offset(text, i - 1) + Width(text[i])
  BY <1>3, OffsetStep
<1>5. Width(text[i]) \in 1 .. 3 /\ (text[i] = "a" => Width(text[i]) = 2)
  BY DEF Width
<1>6. k \in 1 .. Width(text[i]) /\ p = Offset(text, i - 1) + k
  BY <1>2, <1>4, <1>5
<1> HIDE DEF k
<1>7. UnitsOf(text)[p] = Decoded(text[i], k)
  BY <1>6, UnitsAt
<1>8. text[i] = "a" /\ k = 1
  BY <1>3, <1>6, <1>7 DEF Decoded
<1>9. 2 \in 1 .. Width(text[i]) /\ Offset(text, i - 1) + 2 = p + 1
  BY <1>4, <1>5, <1>6, <1>8
<1>10. /\ Offset(text, i - 1) + 2 \in 1 .. Offset(text, Len(text))
       /\ UnitsOf(text)[Offset(text, i - 1) + 2] = Decoded(text[i], 2)
  BY <1>9, UnitsAt
<1> QED
  BY <1>1, <1>8, <1>9, <1>10 DEF Decoded

\* utf8_to_utf16() fills its buffer with units, leaves room for the 0, and loses
\* nothing of a text that fits.
LEMMA ToUtf16Type ==
  ASSUME NEW text \in Script, NEW cap \in Nat \ {0}
  PROVE  /\ utf8_to_utf16(text, cap) \in Seq(Units) /\ Len(utf8_to_utf16(text, cap)) < cap
         /\ Len(UnitsOf(text)) < cap => utf8_to_utf16(text, cap) = UnitsOf(text)
<1> DEFINE u == UnitsOf(text)
           room == IF Len(u) < cap THEN Len(u) ELSE cap - 1
           m == IF room > 0 /\ u[room] = "h" THEN room - 1 ELSE room
<1>1. u \in Seq(Units) /\ Len(u) \in Nat
  BY UnitsType
<1>2. Len(u) < cap => m = Len(u)
  <2> SUFFICES ASSUME Len(u) < cap PROVE m = Len(u)
    OBVIOUS
  <2>1. room = Len(u)
    OBVIOUS
  <2>2. room > 0 => u[room] # "h"
    BY <1>1, <2>1, UnitsPaired
  <2> QED
    BY <2>1, <2>2
<1>3. utf8_to_utf16(text, cap) = SubSeq(u, 1, m)
  BY DEF utf8_to_utf16
<1>4. m \in 0 .. Len(u) /\ m < cap
  BY <1>1
<1> HIDE DEF u, room, m
<1>5. SubSeq(u, 1, m) \in Seq(Units) /\ Len(SubSeq(u, 1, m)) = m
  BY <1>1, <1>4
<1>6. m = Len(u) => SubSeq(u, 1, m) = u
  BY <1>1
<1> QED
  BY <1>2, <1>3, <1>4, <1>5, <1>6 DEF u

\* utf8_to_utf16() never splits a pair, wherever the buffer ends.
THEOREM PairsKept ==
  ASSUME NEW text \in Script, NEW cap \in Nat \ {0},
         NEW p \in 1 .. Len(utf8_to_utf16(text, cap)), utf8_to_utf16(text, cap)[p] = "h"
  PROVE  /\ p + 1 \in 1 .. Len(utf8_to_utf16(text, cap))
         /\ utf8_to_utf16(text, cap)[p + 1] = "l"
<1> DEFINE u == UnitsOf(text)
           room == IF Len(u) < cap THEN Len(u) ELSE cap - 1
           m == IF room > 0 /\ u[room] = "h" THEN room - 1 ELSE room
<1>1. u \in Seq(Units) /\ Len(u) \in Nat
  BY UnitsType
<1>2. utf8_to_utf16(text, cap) = SubSeq(u, 1, m)
  BY DEF utf8_to_utf16
<1>3. room \in 0 .. Len(u) /\ m \in 0 .. Len(u) /\ (m = room \/ m + 1 = room)
  BY <1>1
<1>4. /\ m = room /\ room > 0 => u[room] # "h"
      /\ m + 1 = room => u[room] = "h"
  BY <1>3
<1> HIDE DEF u, room, m
<1>5. Len(SubSeq(u, 1, m)) = m /\ \A q \in 1 .. m : SubSeq(u, 1, m)[q] = u[q]
  BY <1>1, <1>3
<1>6. p \in 1 .. m /\ u[p] = "h" /\ p \in 1 .. Len(u)
  BY <1>1, <1>2, <1>3, <1>5
<1>7. p + 1 \in 1 .. Len(u) /\ u[p + 1] = "l"
  BY <1>6, UnitsPaired DEF u
<1>8. p # m
  BY <1>3, <1>4, <1>6, <1>7
<1>9. p + 1 \in 1 .. m
  BY <1>3, <1>6, <1>8
<1> QED
  BY <1>2, <1>5, <1>7, <1>9

\* The elements of a set of positions can be numbered in their order.
LEMMA Ranked ==
  ASSUME NEW len \in Nat, NEW S \in SUBSET (1 .. len), NEW n \in 1 .. Cardinality(S)
  PROVE  \E i \in S : Cardinality({j \in S : j <= i}) = n
<1> DEFINE Below(m) == {j \in S : j <= m}
           T == {m \in Nat : n <= Cardinality(Below(m))}
<1>0. IsFiniteSet(1 .. len) /\ \A j \in S : j \in Nat /\ 1 <= j /\ j <= len
  BY FS_Interval
<1>1. IsFiniteSet(S) /\ Cardinality(S) \in Nat
  BY <1>0, FS_Subset, FS_CardinalityType
<1>2. \A m \in Nat : IsFiniteSet(Below(m)) /\ Cardinality(Below(m)) \in Nat
  <2> SUFFICES ASSUME NEW m \in Nat PROVE IsFiniteSet(Below(m)) /\ Cardinality(Below(m)) \in Nat
    OBVIOUS
  <2>1. Below(m) \in SUBSET S
    OBVIOUS
  <2> HIDE DEF Below
  <2> QED
    BY <1>1, <2>1, FS_Subset, FS_CardinalityType
<1>3. Below(len) = S
  BY <1>0
<1>4. Below(0) = {}
  <2>1. \A j \in S : ~(j <= 0)
    BY <1>0
  <2> QED
    BY <2>1
<1>5. \A m \in Nat : /\ m + 1 \in S => Below(m + 1) = Below(m) \cup {m + 1}
                     /\ m + 1 \notin S => Below(m + 1) = Below(m)
                     /\ m + 1 \notin Below(m)
  <2> SUFFICES ASSUME NEW m \in Nat
               PROVE  /\ m + 1 \in S => Below(m + 1) = Below(m) \cup {m + 1}
                      /\ m + 1 \notin S => Below(m + 1) = Below(m)
                      /\ m + 1 \notin Below(m)
    OBVIOUS
  <2>1. \A j \in S : j <= m + 1 <=> j <= m \/ j = m + 1
    BY <1>0
  <2>2. m + 1 \in S => Below(m + 1) = Below(m) \cup {m + 1}
    BY <2>1, Zenon
  <2>3. m + 1 \notin S => Below(m + 1) = Below(m)
    BY <2>1, Zenon
  <2>4. ~(m + 1 <= m)
    OBVIOUS
  <2> QED
    BY <2>2, <2>3, <2>4
<1> HIDE DEF Below
<1>6. T \subseteq Nat /\ len \in T
  BY <1>1, <1>3
<1>7. PICK i \in T : \A m \in T : i <= m
  BY <1>6, LeastElement
<1>8. i \in Nat /\ n <= Cardinality(Below(i))
  OBVIOUS
<1>9. i # 0
  BY <1>4, <1>8, FS_EmptySet
<1>10. i - 1 \in Nat /\ i = (i - 1) + 1 /\ Cardinality(Below(i - 1)) < n
  <2>1. i - 1 \in Nat /\ i - 1 \notin T
    BY <1>7, <1>8, <1>9
  <2>2. Cardinality(Below(i - 1)) \in Nat
    BY <1>2, <2>1
  <2> QED
    BY <2>1, <2>2, <1>8
<1>11. i \in S
  BY <1>2, <1>5, <1>8, <1>10
<1>12. Cardinality(Below(i)) = Cardinality(Below(i - 1)) + 1
  <2>1. Below(i) = Below(i - 1) \cup {i} /\ i \notin Below(i - 1) /\ IsFiniteSet(Below(i - 1))
    BY <1>2, <1>5, <1>10, <1>11
  <2> QED
    BY <2>1, FS_AddElement
<1>13. Cardinality(Below(i)) = n
  BY <1>2, <1>8, <1>10, <1>12
<1> QED
  BY <1>11, <1>13 DEF Below

\* Whatever units the keyboard leaves behind, result() returns well-formed text.
LEMMA ToUtf8Type ==
  ASSUME NEW src \in Seq(Units)
  PROVE  utf16_to_utf8(src) \in Seq({"b", "a", "r"})
<1> DEFINE S == Starts(src)
           In(n, i) == Cardinality({j \in S : j <= i}) = n
           At(n) == CHOOSE i \in S : In(n, i)
<1>1. Len(src) \in Nat /\ S \in SUBSET (1 .. Len(src))
  BY DEF Starts
<1> HIDE DEF S
<1>2. Cardinality(S) \in Nat
  <2>1. IsFiniteSet(1 .. Len(src))
    BY <1>1, FS_Interval
  <2> QED
    BY <1>1, <2>1, FS_Subset, FS_CardinalityType
<1>3. ASSUME NEW n \in 1 .. Cardinality(S) PROVE Encoded(src, At(n)) \in {"b", "a", "r"}
  <2>1. \E i \in S : In(n, i)
    BY <1>1, <1>3, Ranked
  <2> HIDE DEF In
  <2>2. At(n) \in S
    BY <2>1
  <2> HIDE DEF At
  <2>3. At(n) \in 1 .. Len(src)
    BY <1>1, <2>2
  <2>4. src[At(n)] \in {"b", "h", "l", "r"}
    BY <2>3 DEF Units
  <2> QED
    BY <2>4 DEF Encoded
<1>4. utf16_to_utf8(src) = [n \in 1 .. Cardinality(S) |-> Encoded(src, At(n))]
  BY DEF utf16_to_utf8, S
<1> HIDE DEF At
<1> QED
  BY <1>2, <1>3, <1>4

\* Where the characters of a text without lone surrogates begin, and what is there.
First(text, i) == Offset(text, i - 1) + 1

\* Each such character is found again at its place.
LEMMA FirstUnit ==
  ASSUME NEW text \in Seq({"b", "a"}), NEW i \in 1 .. Len(text)
  PROVE  /\ First(text, i) \in 1 .. Len(UnitsOf(text))
         /\ First(text, i) \in Starts(UnitsOf(text))
         /\ Encoded(UnitsOf(text), First(text, i)) = text[i]
<1>0. text \in Script
  BY DEF Script
<1> DEFINE u == UnitsOf(text)
           p == First(text, i)
<1>1. u \in Seq(Units) /\ Len(u) = Offset(text, Len(text)) /\ text[i] \in {"b", "a"}
  BY <1>0, UnitsType
<1>2. 1 \in 1 .. Width(text[i])
  BY <1>1 DEF Width
<1>3. p \in 1 .. Len(u) /\ u[p] = Decoded(text[i], 1)
  BY <1>0, <1>1, <1>2, UnitsAt DEF First
<1>4. u[p] = IF text[i] = "a" THEN "h" ELSE "b"
  BY <1>1, <1>3 DEF Decoded
<1>5. text[i] = "a" => p + 1 \in 1 .. Len(u) /\ u[p + 1] = "l"
  BY <1>0, <1>3, <1>4, UnitsPaired
<1> HIDE DEF u, p
<1>6. p \in Starts(u)
  BY <1>3, <1>4 DEF Starts
<1>7. Encoded(u, p) = text[i]
  <2>1. CASE text[i] = "a"
    BY <1>1, <1>3, <1>4, <1>5, <2>1 DEF Encoded
  <2>2. CASE text[i] = "b"
    BY <1>4, <2>2 DEF Encoded
  <2> QED
    BY <1>1, <2>1, <2>2
<1> QED
  BY <1>3, <1>6, <1>7 DEF u, p

\* Nothing else begins a character.
LEMMA StartsFirst ==
  ASSUME NEW text \in Seq({"b", "a"}), NEW p \in Starts(UnitsOf(text))
  PROVE  \E i \in 1 .. Len(text) : p = First(text, i)
<1>0. text \in Script
  BY DEF Script
<1> DEFINE u == UnitsOf(text)
<1>1. u \in Seq(Units) /\ Len(u) = Offset(text, Len(text)) /\ p \in 1 .. Len(u)
  BY <1>0, UnitsType DEF Starts
<1>2. PICK i \in 1 .. Len(text) : Offset(text, i - 1) < p /\ p <= Offset(text, i)
  BY <1>0, <1>1, Located
<1> DEFINE k == p - Offset(text, i - 1)
<1>3. i - 1 \in Nat /\ i = (i - 1) + 1 /\ text[i] \in {"b", "a"}
  OBVIOUS
<1>4. Offset(text, i - 1) \in Nat /\ Offset(text, i) = Offset(text, i - 1) + Width(text[i])
  BY <1>3, OffsetStep
<1>5. Width(text[i]) \in 1 .. 2 /\ 1 \in 1 .. Width(text[i]) /\ (text[i] = "b" => Width(text[i]) = 1)
  BY <1>3 DEF Width
<1>p. p \in Nat
  BY <1>1
<1>6. k \in 1 .. Width(text[i]) /\ p = Offset(text, i - 1) + k
  <2>1. Width(text[i]) \in Nat
    BY <1>5
  <2> HIDE DEF u
  <2> QED
    BY <1>p, <1>2, <1>4, <2>1
<1> HIDE DEF k
<1>7. k = 1
  <2> SUFFICES ASSUME k # 1 PROVE FALSE
    OBVIOUS
  <2>1. text[i] = "a" /\ k = 2
    BY <1>3, <1>5, <1>6
  <2>2. u[p] = "l"
    BY <1>0, <1>6, <2>1, UnitsAt DEF Decoded
  <2>3. u[Offset(text, i - 1) + 1] = "h"
    BY <1>0, <1>5, <2>1, UnitsAt DEF Decoded
  <2>4. p - 1 = Offset(text, i - 1) + 1 /\ p > 1
    BY <1>4, <1>6, <2>1
  <2> HIDE DEF u
  <2> QED
    BY <2>2, <2>3, <2>4 DEF Starts, u
<1> QED
  BY <1>6, <1>7 DEF First

\* The n-th character to begin is the n-th character of the text.
LEMMA RankOfFirst ==
  ASSUME NEW text \in Seq({"b", "a"}), NEW n \in 1 .. Len(text)
  PROVE  Cardinality({p \in Starts(UnitsOf(text)) : p <= First(text, n)}) = n
<1> DEFINE B == {p \in Starts(UnitsOf(text)) : p <= First(text, n)}
           f == [i \in 1 .. n |-> First(text, i)]
<1>0. Len(text) \in Nat /\ n \in Nat /\ n <= Len(text)
  OBVIOUS
<1>1. \A i, j \in 1 .. Len(text) : i < j => First(text, i) < First(text, j)
  <2> SUFFICES ASSUME NEW i \in 1 .. Len(text), NEW j \in 1 .. Len(text), i < j
               PROVE  First(text, i) < First(text, j)
    OBVIOUS
  <2>1. i - 1 \in Nat /\ j - 1 \in Nat /\ i - 1 \in 0 .. j - 1
    BY <1>0
  <2>2. Offset(text, i - 1) + ((j - 1) - (i - 1)) <= Offset(text, j - 1)
    BY <2>1, OffsetMonotone
  <2>3. Offset(text, i - 1) \in Nat /\ Offset(text, j - 1) \in Nat
    BY <2>1, OffsetStep
  <2> QED
    BY <1>0, <2>2, <2>3 DEF First
<1>2. \A i \in 1 .. Len(text) : First(text, i) \in Nat /\ First(text, i) \in Starts(UnitsOf(text))
  <2> SUFFICES ASSUME NEW i \in 1 .. Len(text)
               PROVE  First(text, i) \in Nat /\ First(text, i) \in Starts(UnitsOf(text))
    OBVIOUS
  <2> QED
    BY FirstUnit
<1>3. f \in [1 .. n -> B]
  <2> SUFFICES ASSUME NEW i \in 1 .. n PROVE First(text, i) \in B
    OBVIOUS
  <2>1. i \in 1 .. Len(text) /\ (i < n \/ i = n)
    BY <1>0
  <2>2. First(text, i) <= First(text, n)
    BY <1>1, <1>2, <2>1
  <2> QED
    BY <1>2, <2>1, <2>2
<1>4. IsInjective(f)
  <2>1. \A i, j \in 1 .. n : i # j => First(text, i) # First(text, j)
    <3> SUFFICES ASSUME NEW i \in 1 .. n, NEW j \in 1 .. n, i # j
                 PROVE  First(text, i) # First(text, j)
      OBVIOUS
    <3>1. i \in 1 .. Len(text) /\ j \in 1 .. Len(text) /\ (i < j \/ j < i)
      BY <1>0
    <3> QED
      BY <1>1, <1>2, <3>1
  <2> QED
    BY <2>1 DEF IsInjective
<1>5. \A p \in B : \E i \in 1 .. n : f[i] = p
  <2> SUFFICES ASSUME NEW p \in B PROVE \E i \in 1 .. n : f[i] = p
    OBVIOUS
  <2>1. PICK i \in 1 .. Len(text) : p = First(text, i)
    BY StartsFirst
  <2>2. ~(n < i)
    BY <1>0, <1>1, <1>2, <2>1
  <2>3. i \in 1 .. n
    BY <1>0, <2>2
  <2> QED
    BY <2>1, <2>3
<1> HIDE DEF B, f
<1>6. ExistsBijection(1 .. n, B)
  BY <1>3, <1>4, <1>5 DEF ExistsBijection, Bijection, Injection, Surjection
<1>7. IsFiniteSet(1 .. n) /\ Cardinality(1 .. n) = n
  BY <1>0, FS_Interval
<1>8. Cardinality(B) = n
  BY <1>6, <1>7, FS_Bijection
<1> QED
  BY <1>8 DEF B

\* A text without lone surrogates survives the way to the keyboard and back.
THEOREM RoundTrip ==
  ASSUME NEW text \in Seq({"b", "a"})
  PROVE  utf16_to_utf8(UnitsOf(text)) = text
<1> DEFINE u == UnitsOf(text)
           S == Starts(u)
           rank(i) == Cardinality({j \in S : j <= i})
           At(n) == CHOOSE i \in S : rank(i) = n
<1>0. Len(text) \in Nat
  OBVIOUS
<1>1. \A n \in 1 .. Len(text) : First(text, n) \in S /\ rank(First(text, n)) = n
  BY FirstUnit, RankOfFirst
<1>2. \A p \in S : \E i \in 1 .. Len(text) : p = First(text, i)
  BY StartsFirst
<1>3. Cardinality(S) = Len(text)
  <2>1. CASE Len(text) = 0
    <3>1. S = {}
      BY <1>2, <2>1
    <3> QED
      BY <2>1, <3>1, FS_EmptySet
  <2>2. CASE Len(text) # 0
    <3> DEFINE n == Len(text)
    <3>1. n \in 1 .. Len(text)
      BY <1>0, <2>2
    <3>2. \A p \in S : p <= First(text, n)
      <4> SUFFICES ASSUME NEW p \in S PROVE p <= First(text, n)
        OBVIOUS
      <4>1. PICK i \in 1 .. Len(text) : p = First(text, i)
        BY <1>2
      <4>2. i - 1 \in Nat /\ n - 1 \in Nat /\ i - 1 \in 0 .. n - 1
        BY <1>0, <3>1
      <4>3. Offset(text, i - 1) + ((n - 1) - (i - 1)) <= Offset(text, n - 1)
        BY <4>2, OffsetMonotone
      <4>4. Offset(text, i - 1) \in Nat /\ Offset(text, n - 1) \in Nat
        BY <4>2, OffsetStep
      <4> QED
        BY <1>0, <4>1, <4>2, <4>3, <4>4 DEF First
    <3>3. {j \in S : j <= First(text, n)} = S
      BY <3>2
    <3> QED
      BY <1>1, <3>1, <3>3
  <2> QED
    BY <2>1, <2>2
<1>4. ASSUME NEW n \in 1 .. Len(text) PROVE Encoded(u, At(n)) = text[n]
  <2>1. First(text, n) \in S /\ rank(First(text, n)) = n
    BY <1>1, <1>4
  <2>2. ASSUME NEW i \in S, rank(i) = n PROVE i = First(text, n)
    <3>1. PICK m \in 1 .. Len(text) : i = First(text, m)
      BY <1>2
    <3>2. rank(i) = m
      BY <1>1, <3>1
    <3> QED
      BY <2>2, <3>1, <3>2
  <2> HIDE DEF rank, S
  <2>3. At(n) = First(text, n)
    BY <2>1, <2>2
  <2> QED
    BY <2>3, FirstUnit
<1>5. utf16_to_utf8(u) = [n \in 1 .. Cardinality(S) |-> Encoded(u, At(n))]
  BY DEF utf16_to_utf8
<1> HIDE DEF u, S, At
<1>6. utf16_to_utf8(u) = [n \in 1 .. Len(text) |-> text[n]]
  BY <1>3, <1>4, <1>5
<1> QED
  BY <1>6 DEF u

\* The texts of at most n characters.
LEMMA TextsAre ==
  ASSUME NEW n \in Nat, NEW chars
  PROVE  Texts(n, chars) = {s \in Seq(chars) : Len(s) <= n}
<1>1. ASSUME NEW s \in Texts(n, chars) PROVE s \in Seq(chars) /\ Len(s) <= n
  <2>1. PICK k \in 0 .. n : s \in [1 .. k -> chars]
    BY <1>1 DEF Texts
  <2>2. s \in Seq(chars) /\ Len(s) = k
    BY <2>1
  <2> QED
    BY <2>1, <2>2
<1>2. ASSUME NEW s \in Seq(chars), Len(s) <= n PROVE s \in Texts(n, chars)
  <2>1. Len(s) \in 0 .. n /\ s \in [1 .. Len(s) -> chars]
    BY <1>2
  <2> QED
    BY <2>1 DEF Texts
<1> QED
  BY <1>1, <1>2

\* What keyboard() writes into the buffer fits, and is the text the user should see.
LEMMA InitialShown ==
  ASSUME NEW max \in 1 .. MaxText, NEW text \in Texts(MaxText, {"b", "a", "s"})
  PROVE  /\ Initial(max, text) \in Texts(MaxText, Units)
         /\ Shown(max, text) \in Seq({"b", "a"}) \cup {Lost}
         /\ Shown(max, text) # Lost => Initial(max, text) = UnitsOf(Shown(max, text))
<1> DEFINE initial == utf8_to_utf16(text, MaxText + 1)
<1>0. MaxText \in Nat /\ MaxText + 1 \in Nat \ {0} /\ max \in Nat /\ max <= MaxText
  BY DialogAssumption
<1>1. text \in Script
  BY <1>0, TextsAre DEF Script
<1>2. /\ initial \in Seq(Units) /\ Len(initial) < MaxText + 1
      /\ Len(UnitsOf(text)) < MaxText + 1 => initial = UnitsOf(text)
  BY <1>0, <1>1, ToUtf16Type
<1>3. Initial(max, text) = IF Len(initial) > max THEN SubSeq(initial, 1, max) ELSE initial
  BY DEF Initial
<1>4. Len(UnitsOf(text)) \in Nat
  BY <1>1, UnitsType
<1> HIDE DEF initial
<1>5. Initial(max, text) \in Seq(Units) /\ Len(Initial(max, text)) <= MaxText
  <2>1. CASE Len(initial) > max
    <3>1. SubSeq(initial, 1, max) \in Seq(Units) /\ Len(SubSeq(initial, 1, max)) = max
      BY <1>0, <1>2, <2>1
    <3> QED
      BY <1>0, <1>3, <2>1, <3>1
  <2>2. CASE ~(Len(initial) > max)
    BY <1>0, <1>2, <1>3, <2>2
  <2> QED
    BY <2>1, <2>2
<1>6. CASE Len(UnitsOf(text)) <= max /\ "s" \notin Range(text)
  <2>1. Shown(max, text) = text
    BY <1>6 DEF Shown
  <2>2. text \in Seq({"b", "a"})
    <3>1. \A i \in 1 .. Len(text) : text[i] \in {"b", "a", "s"} /\ text[i] # "s"
      BY <1>1, <1>6 DEF Script, Range
    <3>2. text = [i \in 1 .. Len(text) |-> text[i]] /\ Len(text) \in Nat
      BY <1>1 DEF Script
    <3> QED
      BY <3>1, <3>2
  <2>3. Initial(max, text) = UnitsOf(text)
    BY <1>0, <1>2, <1>3, <1>4, <1>6
  <2> QED
    BY <1>0, <1>5, <2>1, <2>2, <2>3, TextsAre
<1>7. CASE ~(Len(UnitsOf(text)) <= max /\ "s" \notin Range(text))
  <2>1. Shown(max, text) = Lost
    BY <1>7 DEF Shown
  <2> QED
    BY <1>0, <1>5, <2>1, TextsAre
<1> QED
  BY <1>6, <1>7

\* What result() makes of the keyboard's buffer.
LEMMA TextReturned ==
  ASSUME NEW units \in Texts(MaxText, Units), NEW meant \in Seq({"b", "a"}) \cup {Lost},
         meant # Lost => units = UnitsOf(meant)
  PROVE  /\ meant # Lost => utf16_to_utf8(units) = meant
         /\ Range(utf16_to_utf8(units)) \subseteq {"b", "a", "r"}
<1>1. units \in Seq(Units)
  BY DialogAssumption, TextsAre
<1>2. utf16_to_utf8(units) \in Seq({"b", "a", "r"})
  BY <1>1, ToUtf8Type
<1>3. Range(utf16_to_utf8(units)) \subseteq {"b", "a", "r"}
  BY <1>2 DEF Range
<1> QED
  BY <1>3, RoundTrip

-----------------------------------------------------------------------------
(* The inductive invariant *)

\* An open dialog is the last one that was opened, and has its outcome when it has
\* finished.
OpenOK(v, n) ==
  /\ v.status \in {"running", "finished"} /\ v.id = n
  /\ v.status = "running" => v.outcome = "none"
  /\ v.status = "finished" => v.outcome \in Outcomes

\* A message box was laid out as the module remembers, and ended with a button of
\* that layout, or with none.
ButtonOK(v, layout) ==
  /\ v.layout = layout
  /\ v.button # 0 => layout \in {"yesNo", "okCancel", "cancel"} \/ (layout = "ok" /\ v.button = 1)

\* What the system has of a kind of which the module has no dialog.
Unowned(k) == IF k \in stranded THEN Stray ELSE Closed

\* Only the dialog of the kind the module remembers is open, while the script runs; the
\* system's other dialogs are closed or were left behind.
OpenDialog ==
  /\ \A k \in Kinds : current_dialog # k => native[k] = Unowned(k)
  /\ \A k \in Kinds : current_dialog = k => OpenOK(native[k], number) /\ k \notin stranded
  /\ current_dialog # "NONE" => at = "script"
  /\ current_dialog = "MESSAGE" => ButtonOK(native["MESSAGE"], message_button_type)
  /\ current_dialog = "IME" => ime_input.of = native["IME"].id

\* The keyboard's buffer holds the units of the text it should stand for.
Filled ==
  /\ ime_input \in [of : 0 .. MaxDialogs, text : Texts(MaxText, Units),
                    meant : Seq({"b", "a"}) \cup {Lost}]
  /\ ime_input.meant # Lost => ime_input.text = UnitsOf(ime_input.meant)

\* What was loaded is what was there before and what the module has loaded.
ModulesKnown ==
  /\ at = "boot" => loaded = preloaded /\ loaded_by_us = {}
  /\ at \in {"graphics", "script"} =>
       loaded = preloaded \cup loaded_by_us /\ preloaded \cap loaded_by_us = {}
  /\ at = "exited" /\ loaded_by_us = {} => loaded = preloaded
  /\ current_dialog = "IME" => "IME" \in loaded

\* AppUtil and the common dialogs go together.
AppUtilKnown ==
  /\ at \in {"boot", "exited"} => apputil = FALSE
  /\ at \in {"graphics", "script"} => apputil = TRUE /\ common_dialog_initialized = TRUE

IInv ==
  /\ StateOK /\ OpenDialog /\ Filled /\ ModulesKnown /\ AppUtilKnown /\ ResultsTruthful

-----------------------------------------------------------------------------
(* The invariant holds *)

\* A closed dialog.
LEMMA ClosedType ==
  /\ Closed \in NativeType
  /\ Closed.status = "none" /\ Closed.id = 0 /\ Closed.outcome = "none" /\ Closed.button = 0
  /\ Closed.layout = "none" /\ Closed.max = 0
BY DialogAssumption DEF Closed, NativeType, Layouts, Outcomes

\* A dialog that was left behind.
LEMMA StrayType == Stray \in NativeType /\ Stray.status = "finished"
BY ClosedType DEF Stray, NativeType

\* A buffer that is written like this is as it should be.
LEMMA FilledBy ==
  ASSUME NEW of \in 0 .. MaxDialogs, NEW text \in Texts(MaxText, Units),
         NEW meant \in Seq({"b", "a"}) \cup {Lost}, meant # Lost => text = UnitsOf(meant),
         ime_input' = [of |-> of, text |-> text, meant |-> meant]
  PROVE  Filled' /\ ime_input'.of = of
BY DEF Filled

\* The cleared buffer is one of these.
LEMMA NoTextUnits == <<>> \in Texts(MaxText, Units) /\ <<>> \in Seq({"b", "a"}) /\ <<>> = UnitsOf(<<>>)
<1>1. <<>> \in Script /\ Len(<<>>) = 0 /\ <<>> \in Seq({"b", "a"}) /\ <<>> \in Seq(Units)
  BY DEF Script
<1>2. Offset(<<>>, 0) = 0
  BY OffsetStep
<1>3. UnitsOf(<<>>) \in Seq(Units) /\ Len(UnitsOf(<<>>)) = 0
  BY <1>1, <1>2, UnitsType
<1>4. UnitsOf(<<>>) = <<>>
  BY <1>3
<1>5. <<>> \in Texts(MaxText, Units)
  <2>1. MaxText \in Nat /\ Texts(MaxText, Units) = {s \in Seq(Units) : Len(s) <= MaxText}
    BY TextsAre, DialogAssumption
  <2>2. 0 <= MaxText
    BY <2>1
  <2> QED
    BY <1>1, <2>1, <2>2, Zenon
<1> QED
  BY <1>1, <1>4, <1>5

\* A step of the open dialog: drawn, told to abort or finished.
LEMMA OpenKeeps ==
  ASSUME IInv, NEW k \in Kinds, current_dialog = k, NEW v \in NativeType,
         native' = [native EXCEPT ![k] = v], OpenOK(v, number),
         v.id = native[k].id, v.max = native[k].max,
         v.status = "running" => native[k].status = "running",
         k = "MESSAGE" => ButtonOK(v, message_button_type),
         k = "IME" => ime_input'.of = v.id, Filled',
         UNCHANGED <<at, system, current_dialog, message_button_type, stranded, number, results>>
  PROVE  IInv'
<1>0. /\ native \in [Kinds -> NativeType] /\ number \in 0 .. MaxDialogs
      /\ (native["IME"].status = "running" => native["IME"].max > 0)
      /\ OpenOK(native[k], number)
  BY DEF IInv, StateOK, OpenDialog
<1>1. /\ native' \in [Kinds -> NativeType]
      /\ \A j \in Kinds : native'[j] = IF j = k THEN v ELSE native[j]
  BY <1>0
<1>2. apputil' = apputil /\ common_dialog_initialized' = common_dialog_initialized
  BY DEF system
<1>3. UNCHANGED <<at, preloaded, loaded, loaded_by_us, current_dialog, message_button_type, stranded, number, last>>
  BY DEF system, results
<1>4. native'["IME"].status = "running" => native'["IME"].max > 0
  BY <1>0, <1>1 DEF Kinds, OpenOK
<1>5. StateOK'
  <2>1. apputil' \in BOOLEAN /\ common_dialog_initialized' \in BOOLEAN
    BY <1>2 DEF IInv, StateOK
  <2> QED
    BY <1>1, <1>3, <1>4, <2>1 DEF IInv, StateOK, NativeType
<1>6. OpenDialog'
  <2>1. \A j \in Kinds : current_dialog # j => native'[j] = Unowned(j)
    BY <1>1 DEF IInv, OpenDialog
  <2>2. \A j \in Kinds : current_dialog = j => OpenOK(native'[j], number) /\ j \notin stranded
    BY <1>1 DEF IInv, OpenDialog
  <2>3. current_dialog = "MESSAGE" => ButtonOK(native'["MESSAGE"], message_button_type)
    BY <1>1
  <2>4. current_dialog = "IME" => ime_input'.of = native'["IME"].id
    BY <1>1
  <2>5. \A j \in Kinds : Unowned(j)' = Unowned(j)
    BY <1>3 DEF Unowned, Stray, Closed
  <2>6. current_dialog # "NONE" => at = "script"
    BY DEF IInv, OpenDialog
  <2> QED
    BY <1>3, <2>1, <2>2, <2>3, <2>4, <2>5, <2>6 DEF OpenDialog, OpenOK, ButtonOK
<1>7. ModulesKnown' /\ ResultsTruthful'
  BY <1>3 DEF IInv, ModulesKnown, ResultsTruthful, ResultsOwn, TextSurvives
<1>8. AppUtilKnown'
  BY <1>2, <1>3 DEF IInv, AppUtilKnown
<1> QED
  BY <1>5, <1>6, <1>7, <1>8 DEF IInv

\* A step after which no dialog is open.
LEMMA NoneKeeps ==
  ASSUME IInv, current_dialog' = "NONE", number' = number, ResultsTruthful',
         native' \in [Kinds -> NativeType], stranded' \subseteq Kinds,
         \A k \in Kinds : native'[k] = Unowned(k)',
         at' \in {"boot", "graphics", "script", "exited"},
         message_button_type' \in Layouts \cup {"unknown"}, Filled',
         preloaded' = preloaded, loaded' \subseteq Modules, loaded_by_us' \subseteq Modules,
         ModulesKnown', AppUtilKnown',
         apputil' \in BOOLEAN, common_dialog_initialized' \in BOOLEAN
  PROVE  IInv'
<1>1. native'["IME"].status = "running" => native'["IME"].max > 0
  BY ClosedType, StrayType DEF Unowned, Kinds
<1>2. StateOK'
  BY <1>1 DEF IInv, StateOK, NativeType
<1>3. OpenDialog'
  BY DEF OpenDialog, Kinds
<1> QED
  BY <1>2, <1>3 DEF IInv

\* A step that leaves the system's dialogs and the results alone.
LEMMA Untouched ==
  ASSUME IInv, current_dialog = "NONE", UNCHANGED <<native, stranded, results>>
  PROVE  /\ native' \in [Kinds -> NativeType] /\ stranded' \subseteq Kinds /\ ResultsTruthful'
         /\ \A k \in Kinds : native'[k] = Unowned(k)'
<1>1. native \in [Kinds -> NativeType] /\ stranded \subseteq Kinds
  BY DEF IInv, StateOK
<1>2. \A k \in Kinds : native[k] = Unowned(k) /\ Unowned(k)' = Unowned(k)
  BY DEF IInv, OpenDialog, Kinds, Unowned, Stray, Closed
<1>3. ResultsTruthful'
  BY DEF IInv, ResultsTruthful, ResultsOwn, TextSurvives, results
<1>4. native' \in [Kinds -> NativeType] /\ stranded' \subseteq Kinds
  BY <1>1 DEF NativeType
<1> QED
  BY <1>2, <1>3, <1>4

\* The system keeps a dialog of kind k, or gives it up, when the others are unowned.
LEMMA GivenUp ==
  ASSUME IInv, NEW k \in Kinds, \A j \in Kinds \ {k} : native[j] = Unowned(j),
         LeftBehind(k) \/ (NativeTerm(k) /\ k \notin stranded)
  PROVE  /\ native' \in [Kinds -> NativeType] /\ stranded' \subseteq Kinds
         /\ \A j \in Kinds : native'[j] = Unowned(j)'
<1>0. native \in [Kinds -> NativeType] /\ stranded \subseteq Kinds
  BY DEF IInv, StateOK
<1>1. CASE LeftBehind(k)
  <2>1. native' = [native EXCEPT ![k] = Stray] /\ stranded' = stranded \cup {k}
    BY <1>1 DEF LeftBehind
  <2>2. native' \in [Kinds -> NativeType]
        /\ \A j \in Kinds : native'[j] = IF j = k THEN Stray ELSE native[j]
    BY <1>0, <2>1, StrayType
  <2> QED
    BY <1>0, <2>1, <2>2 DEF Unowned, Stray, Closed
<1>2. CASE NativeTerm(k) /\ k \notin stranded
  <2>1. native' = [native EXCEPT ![k] = Closed] /\ stranded' = stranded
    BY <1>2 DEF NativeTerm
  <2>2. native' \in [Kinds -> NativeType]
        /\ \A j \in Kinds : native'[j] = IF j = k THEN Closed ELSE native[j]
    BY <1>0, <2>1, ClosedType
  <2> QED
    BY <1>0, <1>2, <2>1, <2>2 DEF Unowned, Stray, Closed
<1> QED
  BY <1>1, <1>2

\* A dialog is opened.
LEMMA OpensKeeps ==
  ASSUME IInv, CanOpen, NEW k \in Kinds, NEW layout \in Layouts, NEW max \in 0 .. MaxText,
         NativeInit(k, layout, max), current_dialog' = k, UNCHANGED <<at, preloaded>>,
         message_button_type' \in Layouts \cup {"unknown"}, Filled',
         k = "MESSAGE" => message_button_type' = layout,
         k = "IME" => ime_input'.of = number' /\ "IME" \in loaded' /\ max > 0,
         loaded' \subseteq Modules, loaded_by_us' \subseteq Modules,
         loaded' = preloaded \cup loaded_by_us' /\ preloaded \cap loaded_by_us' = {},
         apputil' = apputil, common_dialog_initialized' = common_dialog_initialized
  PROVE  IInv' /\ number' = number + 1 /\ native'[k].status = "running"
<1> DEFINE v == [Closed EXCEPT !.status = "running", !.id = number', !.layout = layout, !.max = max]
<1>0. /\ native \in [Kinds -> NativeType] /\ number \in 0 .. MaxDialogs /\ at = "script"
      /\ stranded \subseteq Kinds /\ stranded' = stranded /\ native[k] = Closed
  BY DEF IInv, StateOK, CanOpen, NativeInit
<1>1. number' = number + 1 /\ number' \in 0 .. MaxDialogs /\ last' = NoResult /\ current_dialog = "NONE"
  BY <1>0, DialogAssumption DEF NativeInit, CanOpen
<1>2. native' = [native EXCEPT ![k] = v]
  BY DEF NativeInit
<1>3. v \in NativeType
  BY <1>1, ClosedType DEF NativeType
<1>4. /\ v.status = "running" /\ v.id = number' /\ v.layout = layout /\ v.max = max
      /\ v.outcome = "none" /\ v.button = 0
  BY ClosedType DEF NativeType
<1> HIDE DEF v
<1>5. /\ native' \in [Kinds -> NativeType]
      /\ \A j \in Kinds : native'[j] = IF j = k THEN v ELSE Unowned(j)
  BY <1>0, <1>1, <1>2, <1>3 DEF IInv, OpenDialog, Kinds
<1>s. k \notin stranded
  BY <1>0, <1>1, ClosedType, StrayType DEF IInv, OpenDialog, Kinds, Unowned
<1>6. StateOK'
  <2>1. apputil' \in BOOLEAN /\ common_dialog_initialized' \in BOOLEAN
    BY DEF IInv, StateOK
  <2>2. native'["IME"].status = "running" => native'["IME"].max > 0
    BY <1>4, <1>5, ClosedType, StrayType DEF Kinds, Unowned
  <2> QED
    BY <1>0, <1>1, <1>5, <2>1, <2>2 DEF IInv, StateOK, NativeType
<1>7. OpenOK(v, number') /\ (k = "MESSAGE" => ButtonOK(v, message_button_type'))
  BY <1>4 DEF OpenOK, ButtonOK
<1>8. OpenDialog'
  <2>1. \A j \in Kinds : k # j => native'[j] = Unowned(j)
    BY <1>5
  <2>2. \A j \in Kinds : k = j => OpenOK(native'[j], number') /\ j \notin stranded
    BY <1>5, <1>7, <1>s
  <2>3. k = "MESSAGE" => ButtonOK(native'["MESSAGE"], message_button_type')
    BY <1>5, <1>7
  <2>4. k = "IME" => ime_input'.of = native'["IME"].id
    BY <1>4, <1>5
  <2> QED
    BY <1>0, <2>1, <2>2, <2>3, <2>4 DEF OpenDialog, OpenOK, ButtonOK, Unowned, Stray, Closed
<1>9. ModulesKnown'
  BY <1>0 DEF ModulesKnown
<1>10. AppUtilKnown'
  BY <1>0 DEF IInv, AppUtilKnown
<1>11. ResultsTruthful'
  BY <1>1 DEF ResultsTruthful, ResultsOwn, TextSurvives, NoResult
<1> QED
  BY <1>1, <1>4, <1>5, <1>6, <1>8, <1>9, <1>10, <1>11 DEF IInv

\* What the script can see of opening a dialog, and of a step that leaves it alone.
Opened ==
  /\ at = "script" /\ at' = "script"
  /\ current_dialog = "NONE" /\ current_dialog' \in Kinds
  /\ native'[current_dialog'].status = "running"
  /\ number' = number + 1 /\ collected' = collected
Unseen ==
  current_dialog = "NONE" /\ UNCHANGED <<current_dialog, number, collected>>

\* Opening a dialog, or failing to, preserves the invariant.
LEMMA OpenStep == ASSUME IInv, Open PROVE IInv' /\ (Opened \/ (Unseen /\ at' = at))
<1>0. /\ preloaded \subseteq Modules /\ loaded \subseteq Modules /\ loaded_by_us \subseteq Modules
      /\ message_button_type \in Layouts \cup {"unknown"} /\ MaxText \in Nat
  BY DialogAssumption DEF IInv, StateOK
<1>b. apputil \in BOOLEAN /\ common_dialog_initialized \in BOOLEAN
  BY DEF IInv, StateOK
<1>c. CanOpen => /\ at = "script" /\ current_dialog = "NONE"
                 /\ loaded = preloaded \cup loaded_by_us /\ preloaded \cap loaded_by_us = {}
  BY DEF CanOpen, IInv, ModulesKnown
<1>1. ASSUME NEW layout \in Layouts, message(layout) PROVE IInv' /\ Opened
  <2>1. /\ CanOpen /\ NativeInit("MESSAGE", layout, 0) /\ message_button_type' = layout
        /\ current_dialog' = "MESSAGE"
        /\ UNCHANGED <<at, preloaded, loaded, loaded_by_us, ime_input, collected>>
    BY <1>1 DEF message, system
  <2>2. apputil' = apputil /\ common_dialog_initialized' = common_dialog_initialized
    BY <1>1 DEF message, system
  <2>3. Filled' /\ "MESSAGE" \in Kinds /\ 0 \in 0 .. MaxText
    BY <1>0, <2>1 DEF IInv, Filled, Kinds
  <2>4. IInv' /\ number' = number + 1 /\ native'["MESSAGE"].status = "running"
    BY <1>0, <1>c, <2>1, <2>2, <2>3, OpensKeeps
  <2> QED
    BY <1>c, <2>1, <2>3, <2>4 DEF Opened
<1>2. ASSUME NEW layout \in Layouts \cup {"unknown"}, message_fails(layout)
      PROVE  IInv' /\ Unseen /\ at' = at
  <2>1. /\ CanOpen /\ message_button_type' = layout
        /\ UNCHANGED <<at, preloaded, loaded, loaded_by_us, current_dialog, ime_input, number, results>>
    BY <1>2 DEF message_fails, system
  <2>2. apputil' = apputil /\ common_dialog_initialized' = common_dialog_initialized
    BY <1>2 DEF message_fails, system
  <2>3. Filled' /\ ModulesKnown' /\ at' = "script" /\ current_dialog = "NONE"
    BY <1>c, <2>1 DEF IInv, Filled, ModulesKnown
  <2>4. AppUtilKnown'
    BY <2>1, <2>2 DEF IInv, AppUtilKnown
  <2>5. Unseen
    BY <2>1, <2>3 DEF Unseen, results
  <2>6. ResultsTruthful'
    BY <2>1 DEF IInv, ResultsTruthful, ResultsOwn, TextSurvives, results
  <2>7. /\ native' \in [Kinds -> NativeType] /\ stranded' \subseteq Kinds
        /\ \A k \in Kinds : native'[k] = Unowned(k)'
    <3>1. CASE UNCHANGED dialogs
      BY <2>1, <2>3, <3>1, Untouched DEF dialogs
    <3>2. CASE LeftBehind("MESSAGE")
      BY <2>3, <3>2, GivenUp DEF IInv, OpenDialog, Kinds
    <3> QED
      BY <1>2, <3>1, <3>2 DEF message_fails
  <2> QED
    BY <1>0, <1>b, <2>1, <2>2, <2>3, <2>4, <2>5, <2>6, <2>7, NoneKeeps
<1>m. ASSUME CanOpen, ensure_ime_module_loaded
      PROVE  /\ preloaded' = preloaded /\ loaded' \subseteq Modules /\ loaded_by_us' \subseteq Modules
             /\ loaded' = preloaded \cup loaded_by_us' /\ preloaded \cap loaded_by_us' = {}
             /\ "IME" \in loaded'
  <2>1. /\ preloaded' = preloaded /\ loaded' = loaded \cup {"IME"}
        /\ loaded_by_us' = loaded_by_us \cup ({"IME"} \ loaded)
    BY <1>m DEF ensure_ime_module_loaded
  <2> QED
    BY <1>0, <1>c, <1>m, <2>1 DEF Modules
<1>3. ASSUME NEW max \in 0 .. MaxText + 1, NEW text \in Texts(MaxText, {"b", "a", "s"}),
             keyboard(max, text)
      PROVE  IInv' /\ Opened
  <2>1. /\ CanOpen /\ NativeInit("IME", "none", max) /\ max \in 1 .. MaxText
        /\ current_dialog' = "IME" /\ ensure_ime_module_loaded
        /\ UNCHANGED <<at, message_button_type, collected>>
    BY <1>3 DEF keyboard, LengthAllowed
  <2>2. ime_input' = [of |-> number', text |-> Initial(max, text), meant |-> Shown(max, text)]
    BY <1>3 DEF keyboard
  <2>3. apputil' = apputil /\ common_dialog_initialized' = common_dialog_initialized
    BY <2>1 DEF ensure_ime_module_loaded
  <2>4. Filled' /\ ime_input'.of = number'
    <3>1. number' \in 0 .. MaxDialogs
      BY <2>1, DialogAssumption DEF NativeInit, IInv, StateOK
    <3>2. /\ Initial(max, text) \in Texts(MaxText, Units)
          /\ Shown(max, text) \in Seq({"b", "a"}) \cup {Lost}
          /\ Shown(max, text) # Lost => Initial(max, text) = UnitsOf(Shown(max, text))
      BY <2>1, InitialShown
    <3> QED
      BY <2>2, <3>1, <3>2, FilledBy
  <2>5. "IME" \in Kinds /\ "none" \in Layouts /\ max \in 0 .. MaxText /\ max > 0
    BY <1>0, <2>1 DEF Kinds, Layouts
  <2>6. IInv' /\ number' = number + 1 /\ native'["IME"].status = "running"
    BY <1>0, <1>m, <2>1, <2>3, <2>4, <2>5, OpensKeeps
  <2> QED
    BY <1>c, <2>1, <2>5, <2>6 DEF Opened
<1>f. ASSUME CanOpen, ensure_ime_module_loaded, Filled',
             UNCHANGED <<at, current_dialog, message_button_type, native, stranded, number, results>>
      PROVE  IInv' /\ Unseen /\ at' = at
  <2>1. apputil' = apputil /\ common_dialog_initialized' = common_dialog_initialized
    BY <1>f DEF ensure_ime_module_loaded
  <2>2. ModulesKnown'
    BY <1>c, <1>m, <1>f DEF ModulesKnown
  <2>3. AppUtilKnown'
    BY <1>f, <2>1 DEF IInv, AppUtilKnown
  <2>4. Unseen
    BY <1>c, <1>f DEF Unseen, results
  <2>5. /\ native' \in [Kinds -> NativeType] /\ stranded' \subseteq Kinds /\ ResultsTruthful'
        /\ \A k \in Kinds : native'[k] = Unowned(k)'
    BY <1>c, <1>f, Untouched
  <2> QED
    BY <1>0, <1>b, <1>c, <1>m, <1>f, <2>1, <2>2, <2>3, <2>4, <2>5, NoneKeeps
<1>4. CASE keyboard_fails
  <2>1. /\ CanOpen /\ ensure_ime_module_loaded
        /\ ime_input' = [of |-> 0, text |-> <<>>, meant |-> <<>>]
        /\ UNCHANGED <<at, current_dialog, message_button_type, native, stranded, number, results>>
    BY <1>4 DEF keyboard_fails, NoText, dialogs
  <2>2. 0 \in 0 .. MaxDialogs
    BY DialogAssumption
  <2>3. Filled'
    BY <2>1, <2>2, NoTextUnits, FilledBy
  <2> QED
    BY <1>f, <2>1, <2>3
<1>5. ASSUME NEW max \in 0 .. MaxText + 1, NEW text \in Texts(MaxText, {"b", "a", "s"}),
             keyboard_failsLate(max, text)
      PROVE  IInv' /\ Unseen /\ at' = at
  <2>1. /\ CanOpen /\ ensure_ime_module_loaded /\ max \in 1 .. MaxText
        /\ ime_input' = [of |-> 0, text |-> Initial(max, text), meant |-> Shown(max, text)]
        /\ UNCHANGED <<at, current_dialog, message_button_type, native, stranded, number, results>>
    BY <1>5 DEF keyboard_failsLate, LengthAllowed, dialogs
  <2>2. 0 \in 0 .. MaxDialogs
    BY DialogAssumption
  <2>3. /\ Initial(max, text) \in Texts(MaxText, Units)
        /\ Shown(max, text) \in Seq({"b", "a"}) \cup {Lost}
        /\ Shown(max, text) # Lost => Initial(max, text) = UnitsOf(Shown(max, text))
    BY <2>1, InitialShown
  <2>4. Filled'
    BY <2>1, <2>2, <2>3, FilledBy
  <2> QED
    BY <1>f, <2>1, <2>4
<1> QED
  BY <1>1, <1>2, <1>3, <1>4, <1>5 DEF Open

\* A dialog that runs is the one the module remembers.
LEMMA RunningIsOpen ==
  ASSUME IInv, NEW k \in Kinds, native[k].status = "running"
  PROVE  /\ current_dialog = k /\ OpenOK(native[k], number) /\ native[k] \in NativeType
         /\ at = "script"
BY ClosedType, StrayType DEF IInv, OpenDialog, StateOK, Unowned, Kinds

\* The open dialog finishes.
LEMMA FinishStep ==
  ASSUME IInv, NEW k \in Kinds, NEW ending \in Outcomes, NEW button \in ButtonIds(k) \cup {0},
         NativeFinishes(k, ending, button), Filled', k = "IME" => ime_input'.of = native[k].id
  PROVE  IInv' /\ current_dialog = k /\ native[k].status = "running"
         /\ native'[k].status = "finished" /\ native'[k].outcome = ending
<1> DEFINE v == [native[k] EXCEPT !.status = "finished", !.outcome = ending, !.button = button]
<1>1. /\ native[k].status = "running"
      /\ UNCHANGED <<at, system, current_dialog, message_button_type, stranded, number, results>>
  BY DEF NativeFinishes
<1>2. current_dialog = k /\ OpenOK(native[k], number) /\ native[k] \in NativeType
  BY <1>1, RunningIsOpen
<1>3. native \in [Kinds -> NativeType]
  BY DEF IInv, StateOK
<1>4. native' = [native EXCEPT ![k] = v]
  BY <1>3 DEF NativeFinishes
<1>5. button \in 0 .. 2
  BY DEF ButtonIds
<1>6. v \in NativeType
  BY <1>2, <1>5 DEF NativeType
<1>7. /\ v.status = "finished" /\ v.outcome = ending /\ v.button = button
      /\ v.id = native[k].id /\ v.max = native[k].max /\ v.layout = native[k].layout
  BY <1>2 DEF NativeType
<1> HIDE DEF v
<1>8. OpenOK(v, number)
  BY <1>2, <1>7 DEF OpenOK
<1>9. k = "MESSAGE" => ButtonOK(v, message_button_type)
  <2> SUFFICES ASSUME k = "MESSAGE" PROVE ButtonOK(v, message_button_type)
    OBVIOUS
  <2>1. native[k].layout = message_button_type /\ native[k].layout \in Layouts
    BY <1>2 DEF IInv, OpenDialog, ButtonOK, NativeType
  <2>2. button # 0 => native[k].layout \in {"yesNo", "okCancel", "cancel"}
                      \/ (native[k].layout = "ok" /\ button = 1)
    BY <2>1 DEF ButtonIds, Layouts
  <2> QED
    BY <1>7, <2>1, <2>2 DEF ButtonOK
<1>10. IInv'
  BY <1>1, <1>2, <1>4, <1>6, <1>7, <1>8, <1>9, OpenKeeps
<1>11. native'[k] = v
  BY <1>3, <1>4
<1> QED
  BY <1>1, <1>2, <1>7, <1>10, <1>11

\* The user's answer, or the system's to abort().
LEMMA AnswerStep ==
  ASSUME IInv, NEW k \in Kinds, UserAnswers(k) \/ NativeAborts(k)
  PROVE  /\ IInv' /\ current_dialog = k /\ native[k].status = "running"
         /\ native'[k].status = "finished" /\ native'[k].outcome \in Outcomes
         /\ at = "script" /\ UNCHANGED <<at, current_dialog, number, collected>>
<1>1. PICK ending \in Outcomes, button \in ButtonIds(k) \cup {0} : NativeFinishes(k, ending, button)
  <2>1. CASE UserAnswers(k)
    BY <2>1 DEF UserAnswers, Outcomes
  <2>2. CASE NativeAborts(k)
    BY <2>2 DEF NativeAborts, Outcomes
  <2> QED
    BY <2>1, <2>2
<1>2. Filled' /\ (k = "IME" => ime_input'.of = native[k].id)
  <2>0. current_dialog = k /\ native[k] \in NativeType
    BY <1>1, RunningIsOpen DEF NativeFinishes
  <2>1. CASE ime_input' = ime_input
    BY <2>0, <2>1 DEF IInv, Filled, OpenDialog
  <2>2. ASSUME NEW text \in Texts(native[k].max, {"b", "a"}), Len(UnitsOf(text)) <= native[k].max,
               ime_input' = [of |-> native[k].id, text |-> UnitsOf(text), meant |-> text]
        PROVE  Filled' /\ ime_input'.of = native[k].id
    <3>1. /\ native[k].max \in 0 .. MaxText /\ native[k].id \in 0 .. MaxDialogs
          /\ native[k].max \in Nat /\ MaxText \in Nat
      BY <2>0, DialogAssumption DEF NativeType
    <3>2. text \in Seq({"b", "a"})
      BY <2>2, <3>1, TextsAre
    <3>3. UnitsOf(text) \in Seq(Units)
      <4>1. text \in Script
        BY <3>2 DEF Script
      <4> QED
        BY <4>1, UnitsType
    <3>4. Len(UnitsOf(text)) <= MaxText
      BY <2>2, <3>1, <3>3
    <3>5. UnitsOf(text) \in Texts(MaxText, Units)
      BY <3>1, <3>3, <3>4, TextsAre
    <3> QED
      BY <2>2, <3>1, <3>2, <3>5, FilledBy
  <2>3. \/ ime_input' = ime_input
        \/ \E text \in Texts(native[k].max, {"b", "a"}) :
             /\ Len(UnitsOf(text)) <= native[k].max
             /\ ime_input' = [of |-> native[k].id, text |-> UnitsOf(text), meant |-> text]
    <3>1. CASE UserAnswers(k)
      BY <3>1 DEF UserAnswers
    <3>2. CASE NativeAborts(k)
      BY <3>2 DEF NativeAborts
    <3> QED
      BY <3>1, <3>2
  <2> QED
    BY <2>1, <2>2, <2>3
<1>3. UNCHANGED <<at, current_dialog, number, collected>> /\ at = "script"
  BY <1>1, RunningIsOpen DEF NativeFinishes, results
<1> QED
  BY <1>1, <1>2, <1>3, FinishStep

\* update() and abort() mark the open dialog.
LEMMA MarkStep ==
  ASSUME IInv, update \/ abort
  PROVE  /\ IInv' /\ current_dialog \in Kinds
         /\ native'[current_dialog].status = native[current_dialog].status
         /\ native'[current_dialog].outcome = native[current_dialog].outcome
         /\ UNCHANGED <<at, current_dialog, number, collected>>
<1> DEFINE k == current_dialog
<1>0. native \in [Kinds -> NativeType] /\ current_dialog \in Kinds \cup {"NONE"}
  BY DEF IInv, StateOK
<1>1. /\ UNCHANGED <<at, system, current_dialog, message_button_type, ime_input, stranded, number,
                     results>>
      /\ get_native_status = "running"
  BY DEF update, abort
<1>2. k \in Kinds /\ native[k].status = "running"
  BY <1>0, <1>1 DEF get_native_status
<1>3. PICK v \in {[native[k] EXCEPT !.drawn = TRUE], [native[k] EXCEPT !.aborting = TRUE]} :
        native' = [native EXCEPT ![k] = v]
  BY <1>0, <1>2 DEF update, abort
<1>4. v \in NativeType
  BY <1>0, <1>2 DEF NativeType
<1>5. /\ v.status = native[k].status /\ v.outcome = native[k].outcome /\ v.button = native[k].button
      /\ v.id = native[k].id /\ v.max = native[k].max /\ v.layout = native[k].layout
  BY <1>0, <1>2 DEF NativeType
<1>6. OpenOK(v, number) /\ (k = "MESSAGE" => ButtonOK(v, message_button_type))
  BY <1>2, <1>5 DEF IInv, OpenDialog, OpenOK, ButtonOK
<1>7. Filled' /\ (k = "IME" => ime_input'.of = v.id)
  BY <1>1, <1>5 DEF IInv, Filled, OpenDialog
<1>8. IInv'
  BY <1>1, <1>2, <1>3, <1>4, <1>5, <1>6, <1>7, OpenKeeps
<1>9. native'[k] = v
  BY <1>0, <1>2, <1>3
<1> QED
  BY <1>1, <1>2, <1>5, <1>8, <1>9 DEF results

\* Starting up, and the graphics after it.
LEMMA StartStep ==
  ASSUME IInv, system_init \/ GraphicsStarts
  PROVE  IInv' /\ Unseen /\ at # "exited" /\ (at' = "exited" \/ at' = "script" \/ at' = "graphics")
<1>0. /\ loaded \subseteq Modules /\ loaded_by_us \subseteq Modules
      /\ message_button_type \in Layouts \cup {"unknown"}
  BY DEF IInv, StateOK
<1>b. apputil \in BOOLEAN /\ common_dialog_initialized \in BOOLEAN
  BY DEF IInv, StateOK
<1>1. /\ UNCHANGED <<current_dialog, message_button_type, ime_input, native, stranded, number, results,
                     preloaded>>
      /\ at' \in {"graphics", "script", "exited"} /\ at \in {"boot", "graphics"}
  BY DEF system_init, GraphicsStarts, system, dialogs
<1>2. Filled' /\ Unseen /\ current_dialog = "NONE"
  BY <1>1 DEF IInv, Filled, OpenDialog, Unseen, results
<1>3. ModulesKnown' /\ loaded' \subseteq Modules /\ loaded_by_us' \subseteq Modules
  <2>1. CASE system_init
    <3>1. at = "boot" /\ loaded = preloaded /\ loaded_by_us = {}
      BY <2>1 DEF system_init, IInv, ModulesKnown
    <3>2. \/ loaded' = loaded /\ loaded_by_us' = loaded_by_us /\ at' = "exited"
          \/ loaded' = loaded \cup {"APPUTIL"} /\ loaded_by_us' = {"APPUTIL"} \ loaded
      BY <2>1 DEF system_init, system
    <3> QED
      BY <1>0, <1>1, <1>2, <3>1, <3>2 DEF ModulesKnown, Modules
  <2>2. CASE GraphicsStarts
    BY <1>0, <1>1, <1>2, <2>2 DEF GraphicsStarts, system, IInv, ModulesKnown
  <2> QED
    BY <2>1, <2>2
<1>4. AppUtilKnown' /\ apputil' \in BOOLEAN /\ common_dialog_initialized' \in BOOLEAN
  <2>1. CASE system_init
    <3>1. \/ at' = "exited" /\ apputil' = apputil
              /\ common_dialog_initialized' = common_dialog_initialized
          \/ at' = "graphics" /\ apputil' = TRUE /\ common_dialog_initialized' = TRUE
      BY <2>1 DEF system_init, system
    <3>2. apputil = FALSE
      BY <2>1 DEF system_init, IInv, AppUtilKnown
    <3> QED
      BY <1>b, <3>1, <3>2 DEF AppUtilKnown
  <2>2. CASE GraphicsStarts
    <3>1. at = "graphics" /\ at' = "script" /\ apputil' = apputil
          /\ common_dialog_initialized' = common_dialog_initialized
      BY <2>2 DEF GraphicsStarts, system
    <3> QED
      BY <1>b, <3>1 DEF IInv, AppUtilKnown
  <2> QED
    BY <2>1, <2>2
<1>5. /\ native' \in [Kinds -> NativeType] /\ stranded' \subseteq Kinds /\ ResultsTruthful'
      /\ \A k \in Kinds : native'[k] = Unowned(k)'
  BY <1>1, <1>2, Untouched
<1> QED
  BY <1>0, <1>1, <1>2, <1>3, <1>4, <1>5, NoneKeeps

\* Shutting down closes the open dialog and unloads what was loaded.
LEMMA ShutdownStep ==
  ASSUME IInv, system_shutdown
  PROVE  /\ IInv' /\ current_dialog' = "NONE" /\ at # "exited" /\ at' = "exited"
         /\ UNCHANGED <<number, collected>>
<1>1. /\ at \in {"graphics", "script"} /\ at' = "exited" /\ current_dialog' = "NONE" /\ Shut
      /\ loaded' = loaded \ loaded_by_us /\ loaded_by_us' = {}
      /\ UNCHANGED <<preloaded, message_button_type, ime_input, number, results>>
  BY DEF system_shutdown, Shut
<1>2. apputil' = FALSE /\ common_dialog_initialized' = FALSE
  BY DEF system_shutdown, IInv, AppUtilKnown
<1>3. /\ loaded \subseteq Modules /\ current_dialog \in Kinds \cup {"NONE"}
      /\ message_button_type \in Layouts \cup {"unknown"}
  BY DEF IInv, StateOK
<1>4. /\ native' \in [Kinds -> NativeType] /\ stranded' \subseteq Kinds
      /\ \A k \in Kinds : native'[k] = Unowned(k)'
  <2>1. CASE current_dialog = "NONE"
    <3>1. UNCHANGED <<native, stranded>>
      BY <1>1, <2>1 DEF Shut, dialogs
    <3> QED
      BY <1>1, <2>1, <3>1, Untouched
  <2>2. CASE current_dialog # "NONE"
    <3>1. current_dialog \in Kinds /\ (LeftBehind(current_dialog) \/ NativeTerm(current_dialog))
      BY <1>1, <1>3, <2>2 DEF Shut
    <3>2. /\ current_dialog \notin stranded
          /\ \A j \in Kinds \ {current_dialog} : native[j] = Unowned(j)
      BY <3>1 DEF IInv, OpenDialog
    <3> QED
      BY <3>1, <3>2, GivenUp
  <2> QED
    BY <2>1, <2>2
<1>5. Filled' /\ ResultsTruthful' /\ UNCHANGED collected
  BY <1>1 DEF IInv, Filled, ResultsTruthful, ResultsOwn, TextSurvives, results
<1>6. ModulesKnown'
  BY <1>1 DEF IInv, ModulesKnown
<1>7. AppUtilKnown'
  BY <1>1, <1>2 DEF AppUtilKnown
<1>8. apputil' \in BOOLEAN /\ common_dialog_initialized' \in BOOLEAN
  BY <1>2
<1>9. IInv'
  BY <1>1, <1>3, <1>4, <1>5, <1>6, <1>7, <1>8, NoneKeeps
<1> QED
  BY <1>1, <1>5, <1>9

\* The result of a message box names a button of the box's own layout.
LEMMA ButtonNamed ==
  ASSUME NEW v \in NativeType, ButtonOK(v, message_button_type),
         message_button_type \in Layouts \cup {"unknown"}
  PROVE  message_button_name(v.button) = "invalid" <=> v.button = 0
<1>1. v.button \in 0 .. 2
  BY DEF NativeType
<1>2. CASE message_button_type \in {"yesNo", "okCancel"}
  BY <1>1, <1>2 DEF message_button_name
<1>3. CASE message_button_type = "cancel"
  BY <1>1, <1>3 DEF message_button_name
<1>4. CASE message_button_type \in {"ok", "none", "unknown"}
  BY <1>1, <1>4 DEF message_button_name, ButtonOK
<1> QED
  BY <1>2, <1>3, <1>4 DEF Layouts

\* result() hands out the open dialog's own result or loses it, and closes the dialog.
LEMMA ResultStep ==
  ASSUME IInv, result
  PROVE  /\ IInv' /\ current_dialog \in Kinds /\ native[current_dialog].status = "finished"
         /\ current_dialog' = "NONE" /\ at = "script" /\ UNCHANGED <<at, number>>
         /\ \/ collected' = collected \cup {<<number, native[current_dialog].outcome>>}
            \/ collected' = collected
<1> DEFINE k == current_dialog
<1>0. /\ native \in [Kinds -> NativeType] /\ current_dialog \in Kinds \cup {"NONE"}
      /\ message_button_type \in Layouts \cup {"unknown"}
      /\ loaded \subseteq Modules /\ loaded_by_us \subseteq Modules
  BY DEF IInv, StateOK
<1>b. apputil \in BOOLEAN /\ common_dialog_initialized \in BOOLEAN
  BY DEF IInv, StateOK
<1>1. /\ at = "script" /\ get_native_status = "finished" /\ current_dialog' = "NONE"
      /\ (Collect /\ NativeTerm(k)) \/ (UNCHANGED results /\ LeftBehind(k))
      /\ UNCHANGED <<at, preloaded, loaded, loaded_by_us, message_button_type, ime_input, number>>
  BY DEF result, system
<1>2. apputil' = apputil /\ common_dialog_initialized' = common_dialog_initialized
  BY DEF result, system
<1>3. k \in Kinds /\ native[k].status = "finished" /\ native[k].id = number
  BY <1>0, <1>1 DEF get_native_status, IInv, OpenDialog, OpenOK
<1>4. /\ native' \in [Kinds -> NativeType] /\ stranded' \subseteq Kinds
      /\ \A j \in Kinds : native'[j] = Unowned(j)'
  <2>1. k \notin stranded /\ \A j \in Kinds \ {k} : native[j] = Unowned(j)
    BY <1>3 DEF IInv, OpenDialog
  <2> QED
    BY <1>1, <1>3, <2>1, GivenUp
<1>5. Filled' /\ ModulesKnown'
  BY <1>1 DEF IInv, Filled, ModulesKnown
<1>6. AppUtilKnown'
  BY <1>1, <1>2 DEF IInv, AppUtilKnown
<1>7. CASE UNCHANGED results
  <2>1. ResultsTruthful' /\ collected' = collected
    BY <1>7 DEF IInv, ResultsTruthful, ResultsOwn, TextSurvives, results
  <2> QED
    BY <1>0, <1>b, <1>1, <1>2, <1>3, <1>4, <1>5, <1>6, <2>1, NoneKeeps
<1>8. CASE Collect
  <2>1. /\ last'.id = native[k].id /\ last'.type = k /\ last'.buttonId = native[k].button
        /\ k = "MESSAGE" => last'.button = message_button_name(native[k].button)
        /\ k = "IME" => last'.text = [ime_input EXCEPT !.text = utf16_to_utf8(@)]
    BY <1>8 DEF Collect, Result
  <2>2. k = "IME" => /\ last'.text.of = ime_input.of /\ last'.text.meant = ime_input.meant
                     /\ last'.text.text = utf16_to_utf8(ime_input.text)
    BY <2>1 DEF IInv, Filled
  <2>3. k = "MESSAGE" => (last'.button = "invalid" <=> last'.buttonId = 0)
    BY <1>0, <1>3, <2>1, ButtonNamed DEF IInv, OpenDialog
  <2>4. k = "IME" => last'.text.of = last'.id
    BY <2>1, <2>2 DEF IInv, OpenDialog
  <2>5. ResultsOwn'
    BY <2>1, <2>3, <2>4 DEF ResultsOwn
  <2>6. /\ ime_input.meant # Lost => utf16_to_utf8(ime_input.text) = ime_input.meant
        /\ Range(utf16_to_utf8(ime_input.text)) \subseteq {"b", "a", "r"}
    BY TextReturned DEF IInv, Filled
  <2>7. TextSurvives'
    BY <2>1, <2>2, <2>6 DEF TextSurvives
  <2>8. ResultsTruthful'
    BY <2>5, <2>7 DEF ResultsTruthful
  <2>9. collected' = collected \cup {<<number, native[k].outcome>>}
    BY <1>3, <1>8 DEF Collect, Result
  <2> QED
    BY <1>0, <1>b, <1>1, <1>2, <1>3, <1>4, <1>5, <1>6, <2>8, <2>9, NoneKeeps
<1> QED
  BY <1>1, <1>7, <1>8

-----------------------------------------------------------------------------
(* The theorems *)

\* The inductive invariant holds in every state of every execution.
THEOREM Invariance == Spec => []IInv
<1>1. Init => IInv
  <2> SUFFICES ASSUME Init PROVE IInv
    OBVIOUS
  <2>1. /\ at = "boot" /\ preloaded \subseteq Modules /\ loaded = preloaded /\ loaded_by_us = {}
        /\ current_dialog = "NONE" /\ message_button_type = "ok" /\ ime_input = NoText
        /\ native = [k \in Kinds |-> Closed] /\ stranded = {} /\ number = 0 /\ last = NoResult
    BY DialogAssumption DEF Init
  <2>2. apputil = FALSE /\ common_dialog_initialized = FALSE
    BY DEF Init
  <2>3. (\A k \in Kinds : native[k] = Closed) /\ native \in [Kinds -> NativeType]
    BY <2>1, ClosedType
  <2>4. StateOK
    <3>1. apputil \in BOOLEAN /\ common_dialog_initialized \in BOOLEAN
      BY <2>2
    <3>2. native["IME"].status = "running" => native["IME"].max > 0
      BY <2>3, ClosedType DEF Kinds
    <3> QED
      BY <2>1, <2>3, <3>1, <3>2, DialogAssumption DEF StateOK, Layouts
  <2>5. OpenDialog /\ ModulesKnown /\ ResultsTruthful
    BY <2>1, <2>3 DEF OpenDialog, Kinds, Unowned, NoText, ModulesKnown, ResultsTruthful, ResultsOwn,
                      TextSurvives, NoResult
  <2>f. Filled
    BY <2>1, NoTextUnits, DialogAssumption DEF Filled, NoText
  <2>6. AppUtilKnown
    BY <2>1, <2>2 DEF AppUtilKnown
  <2> QED
    BY <2>4, <2>5, <2>f, <2>6 DEF IInv
<1>2. IInv /\ [Next]_vars => IInv'
  <2> SUFFICES ASSUME IInv, [Next]_vars PROVE IInv'
    OBVIOUS
  <2>1. CASE UNCHANGED vars
    <3>1. UNCHANGED <<at, preloaded, loaded, loaded_by_us, current_dialog, message_button_type,
                      ime_input, native, stranded, number, last>>
      BY <2>1 DEF vars, system, results, dialogs
    <3>2. apputil' = apputil /\ common_dialog_initialized' = common_dialog_initialized
      BY <2>1 DEF vars, system
    <3>3. StateOK'
      <4>1. apputil' \in BOOLEAN /\ common_dialog_initialized' \in BOOLEAN
        BY <3>2 DEF IInv, StateOK
      <4> QED
        BY <3>1, <4>1 DEF IInv, StateOK, NativeType
    <3>4. OpenDialog' /\ Filled' /\ ModulesKnown' /\ ResultsTruthful'
      BY <3>1 DEF IInv, OpenDialog, OpenOK, ButtonOK, Unowned, Stray, Closed, Filled, ModulesKnown,
                  ResultsTruthful, ResultsOwn, TextSurvives
    <3>5. AppUtilKnown'
      BY <3>1, <3>2 DEF IInv, AppUtilKnown
    <3> QED
      BY <3>3, <3>4, <3>5 DEF IInv
  <2> QED
    BY <2>1, StartStep, ShutdownStep, OpenStep, MarkStep, ResultStep, AnswerStep DEF Next, Answer
<1> QED
  BY <1>1, <1>2, PTL DEF Spec

\* Every variable keeps its type; the keyboard is never opened with a length outside
\* 1 .. SCE_IME_DIALOG_MAX_TEXT_LENGTH, and neither the initial text nor the user
\* overruns its buffer.
THEOREM TypeCorrect == Spec => []TypeOK
<1>1. IInv => TypeOK
  BY DEF IInv, Filled, TypeOK, BufferOK
<1> QED
  BY <1>1, Invariance, PTL

\* Every native dialog has one owner: result() and system_shutdown() terminate what
\* message() and keyboard() opened, and a dialog the module has forgotten is one whose
\* Term call failed or that was not running after sceMsgDialogInit.
THEOREM NoneOrphaned == Spec => []NoOrphan
<1>1. IInv => NoOrphan
  <2> SUFFICES ASSUME IInv, NEW k \in Kinds
               PROVE  /\ native[k].status # "none" <=> current_dialog = k \/ k \in stranded
                      /\ ~(current_dialog = k /\ k \in stranded)
    BY DEF NoOrphan
  <2>1. CASE current_dialog = k
    BY <2>1 DEF IInv, OpenDialog, OpenOK
  <2>2. CASE current_dialog # k
    BY <2>2, ClosedType, StrayType DEF IInv, OpenDialog, Unowned
  <2> QED
    BY <2>1, <2>2
<1> QED
  BY <1>1, Invariance, PTL

\* result() reports a message box with a button of its own layout and a keyboard with
\* its own text, as it was written and well-formed, whatever calls failed while it was
\* open.
THEOREM ResultsAreTruthful == Spec => []ResultsTruthful
BY Invariance, PTL DEF IInv

\* AppUtil is there while the script runs, an open keyboard has its module, and a
\* program that started leaves the modules as it found them.
THEOREM ModulesAreRestored == Spec => []ModulesRestored
<1>1. IInv => ModulesRestored
  <2> SUFFICES ASSUME IInv PROVE ModulesRestored
    OBVIOUS
  <2>1. /\ current_dialog = "IME" => "IME" \in loaded
        /\ at = "exited" /\ loaded_by_us = {} => loaded = preloaded
    BY DEF IInv, ModulesKnown
  <2>2. at = "script" => apputil
    BY DEF IInv, AppUtilKnown
  <2>3. at = "exited" => ~apputil
    BY DEF IInv, AppUtilKnown
  <2> QED
    BY <2>1, <2>2, <2>3 DEF ModulesRestored
<1> QED
  BY <1>1, Invariance, PTL

\* Every step is one that DialogSpec allows, or one it does not see.
LEMMA StepRefines ==
  ASSUME IInv, Next
  PROVE  [Abstract!Next]_Abstract!vars
<1>0. \A k \in Kinds : k # "NONE"
  BY DEF Kinds
<1>1. CASE Opened /\ IInv'
  <2>1. Status = "none" /\ Outcome = "none" /\ ~Ended /\ Ended' = Ended
    BY <1>1 DEF Opened, Status, get_native_status, Outcome, Ended
  <2>2. Status' = "running"
    BY <1>0, <1>1 DEF Opened, Status, get_native_status
  <2>3. Outcome' = "none"
    BY <1>0, <1>1 DEF Opened, Outcome, IInv, OpenDialog, OpenOK
  <2> QED
    BY <1>1, <2>1, <2>2, <2>3 DEF Opened, Abstract!Next, Abstract!Open
<1>2. CASE Unseen /\ (Ended' <=> Ended)
  <2>1. Status' = Status /\ Outcome' = Outcome /\ UNCHANGED <<number, collected>>
    BY <1>2 DEF Unseen, Status, get_native_status, Outcome
  <2>2. Ended' = Ended
    BY <1>2 DEF Ended
  <2> QED
    BY <2>1, <2>2 DEF Abstract!vars
<1>3. ASSUME current_dialog' = "NONE", at # "exited", at' = "exited", UNCHANGED <<number, collected>>
      PROVE  Abstract!Next
  BY <1>3 DEF Status, get_native_status, Outcome, Ended, Abstract!Next, Abstract!Close,
              Abstract!NoOutcome
<1>4. CASE update \/ abort
  <2>1. Status' = Status /\ Outcome' = Outcome /\ UNCHANGED <<number, collected>>
    BY <1>0, <1>4, MarkStep DEF Status, get_native_status, Outcome
  <2>2. Ended' = Ended
    BY <1>4, MarkStep DEF Ended
  <2> QED
    BY <2>1, <2>2 DEF Abstract!vars
<1>5. CASE result
  <2>1. /\ Status = "finished" /\ Status' = "none" /\ Outcome' = "none" /\ number' = number
        /\ collected' = collected \cup {<<number, Outcome>>} \/ collected' = collected
    BY <1>0, <1>5, ResultStep DEF Status, get_native_status, Outcome
  <2>2. ~Ended /\ Ended' = Ended
    BY <1>5, ResultStep DEF Ended
  <2> QED
    BY <2>1, <2>2 DEF Abstract!Next, Abstract!Collect, Abstract!Lose, Abstract!NoOutcome
<1>6. ASSUME NEW k \in Kinds, UserAnswers(k) \/ NativeAborts(k)
      PROVE  Abstract!Next
  <2>1. /\ Status = "running" /\ Status' = "finished" /\ Outcome' \in Outcomes
        /\ UNCHANGED <<number, collected>>
    BY <1>0, <1>6, AnswerStep DEF Status, get_native_status, Outcome
  <2>2. ~Ended /\ Ended' = Ended
    BY <1>6, AnswerStep DEF Ended
  <2> QED
    BY <2>1, <2>2 DEF Abstract!Next, Abstract!Finish
<1>7. CASE system_init \/ GraphicsStarts
  <2>1. Unseen /\ at # "exited"
    BY <1>7, StartStep
  <2>2. CASE at' = "exited"
    BY <1>3, <2>1, <2>2 DEF Unseen
  <2>3. CASE at' # "exited"
    BY <1>2, <2>1, <2>3 DEF Ended
  <2> QED
    BY <2>2, <2>3
<1>8. CASE Open
  BY <1>1, <1>2, <1>8, OpenStep DEF Ended
<1>9. CASE system_shutdown
  BY <1>3, <1>9, ShutdownStep
<1> QED
  BY <1>4, <1>5, <1>6, <1>7, <1>8, <1>9 DEF Next, Answer

\* The Dialog module implements DialogSpec: opening maps to Open, the user's answer or
\* an obeyed abort() to Finish, result() to Collect or, when Term fails, to Lose, and the
\* end of the program to Close.
THEOREM Implements == Spec => OneAtATime
<1>1. Init => Abstract!Init
  BY DEF Init, Abstract!Init, Abstract!NoOutcome, Status, get_native_status, Outcome, Ended
<1>2. IInv /\ [Next]_vars => [Abstract!Next]_Abstract!vars
  <2> SUFFICES ASSUME IInv, [Next]_vars PROVE [Abstract!Next]_Abstract!vars
    OBVIOUS
  <2>1. CASE UNCHANGED vars
    <3>1. Status' = Status /\ Outcome' = Outcome /\ UNCHANGED <<number, collected>>
      BY <2>1 DEF vars, results, dialogs, Status, get_native_status, Outcome
    <3>2. Ended' = Ended
      BY <2>1 DEF vars, Ended
    <3> QED
      BY <3>1, <3>2 DEF Abstract!vars
  <2> QED
    BY <2>1, StepRefines
<1> QED
  BY <1>1, <1>2, Invariance, PTL DEF Spec, OneAtATime, Abstract!Spec

=============================================================================
