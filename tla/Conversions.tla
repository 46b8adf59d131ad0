---------------------------- MODULE Conversions ----------------------------
(***************************************************************************)
(* Arithmetic of the drivers over integers.  A float is represented in the *)
(* smallest unit that the code tells apart, named where it is used; a      *)
(* quotient of floats is kept as numerator and denominator up to the       *)
(* conversion that ends it.                                                *)
(***************************************************************************)
EXTENDS Integers, Sequences

\* Implicit conversions of wider integers.
U8(n) == n % 256
U16(n) == n % 65536

AtLeast(a, b) == IF a >= b THEN a ELSE b
AtMost(a, b) == IF a <= b THEN a ELSE b
CLAMP(n, low, high) == AtLeast(low, AtMost(n, high))

Abs(n) == IF n >= 0 THEN n ELSE -n

\* The cast (int)(n / d) and lroundf(n / d), for d > 0.
Truncated(n, d) == IF n >= 0 THEN n \div d ELSE -((-n) \div d)
lroundf(n, d) ==
  IF n >= 0 THEN (2 * n + d) \div (2 * d) ELSE -((d - 2 * n) \div (2 * d))

(***************************************************************************)
(* The search for a setting in a table of the data sheet: the last entry   *)
(* that does not exceed the value, or the first entry.                     *)
(***************************************************************************)
ChosenEntry(table, value) ==
  CHOOSE i \in DOMAIN table :
    /\ i = 1 \/ table[i] <= value
    /\ \A j \in i + 1 .. Len(table) : table[j] > value

(***************************************************************************)
(* interpolate(): the tables rise or fall together with the argument; the  *)
(* first entry that is reached decides about the segment.                  *)
(***************************************************************************)
Reached(a, i, x) == IF a[1] < a[Len(a)] THEN x <= a[i] ELSE x >= a[i]

OnSegment(a, b, i, x) ==
  b[i - 1] + Truncated((b[i] - b[i - 1]) * Abs(x - a[i - 1]),
                       Abs(a[i] - a[i - 1]))

interpolate(a, b, x) ==
  LET reached == {i \in DOMAIN a : Reached(a, i, x)}
      first == CHOOSE i \in reached : \A j \in reached : i <= j
  IN  IF reached = {} THEN b[Len(b)]
      ELSE IF first = 1 THEN b[1]
      ELSE OnSegment(a, b, first, x)
=============================================================================
