----------------------------- MODULE DialogText -----------------------------
(***************************************************************************)
(* The conversions between the UTF-8 of a script's strings and the UTF-16  *)
(* of the system's keyboard (src/modules/dialog.c).  A character of a text *)
(* is                                                                      *)
(*   "b"  of the basic plane: one UTF-16 unit, "b";                        *)
(*   "a"  beyond it: a high and a low surrogate, "h" and "l";              *)
(*   "s"  a lone surrogate of a JavaScript string;                         *)
(*   "r"  U+FFFD, the replacement character: one unit, "r".                *)
(* The loops are given by what every position of their output holds.       *)
(***************************************************************************)
EXTENDS Naturals, Sequences, FiniteSets

Characters == {"b", "a", "s", "r"}
Units == {"b", "h", "l", "r"}

\* The units of the first n characters: JS_ToCString writes a lone surrogate as three
\* bytes, of which none begins a sequence that is accepted, so that it becomes three
\* replacement characters.
Offset(text, n) ==
  n + Cardinality({i \in 1 .. n : text[i] = "a"})
    + 2 * Cardinality({i \in 1 .. n : text[i] = "s"})

\* The k-th unit of a character.
Decoded(c, k) ==
  CASE c = "a" -> IF k = 1 THEN "h" ELSE "l"
    [] c = "s" -> "r"
    [] OTHER   -> c

\* All the units of a text.
UnitsOf(text) ==
  [p \in 1 .. Offset(text, Len(text)) |->
    LET i == CHOOSE i \in 1 .. Len(text) : Offset(text, i - 1) < p /\ p <= Offset(text, i)
    IN Decoded(text[i], p - Offset(text, i - 1))]

\* Mutation: a pair that just fits is left out.
utf8_to_utf16NoLastPair(text, dst_capacity) ==
  LET units == UnitsOf(text)
      room == IF Len(units) < dst_capacity THEN Len(units) ELSE dst_capacity - 1
      pair == room = dst_capacity - 1 /\ room > 0 /\ units[room] \in {"h", "l"}
  IN SubSeq(units, 1, IF pair THEN (IF units[room] = "h" THEN room - 1 ELSE room - 2) ELSE room)

\* Code points are converted while they fit, with room for the terminating 0; a pair
\* is never split.
utf8_to_utf16(text, dst_capacity) ==
  LET units == UnitsOf(text)
      room == IF Len(units) < dst_capacity THEN Len(units) ELSE dst_capacity - 1
  IN SubSeq(units, 1, IF room > 0 /\ units[room] = "h" THEN room - 1 ELSE room)

\* Where a character begins: everywhere but at the low surrogate of a pair.
Starts(src) ==
  {i \in 1 .. Len(src) : ~(i > 1 /\ src[i] = "l" /\ src[i - 1] = "h")}

\* A pair is one character, a surrogate without its partner becomes U+FFFD.
Encoded(src, i) ==
  IF src[i] = "h" /\ i < Len(src) /\ src[i + 1] = "l" THEN "a"
  ELSE IF src[i] \in {"h", "l"} THEN "r" ELSE src[i]

\* The characters in their order.  The destination holds four bytes for every unit,
\* which is always enough.
utf16_to_utf8(src) ==
  [n \in 1 .. Cardinality(Starts(src)) |->
    Encoded(src, CHOOSE i \in Starts(src) : Cardinality({j \in Starts(src) : j <= i}) = n)]

=============================================================================
