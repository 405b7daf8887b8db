--------------------------- MODULE FloatingBuffer ---------------------------
(***************************************************************************)
(* RsFloatingBuffer<kSmallBuffer>, the buffer a log line is built in: how  *)
(* it fills and grows.  Its text is abstracted to its length; text holds   *)
(* no zero byte.                                                           *)
(***************************************************************************)
EXTENDS Integers

CONSTANTS
  Small,   \* kSmallBuffer: the first size, and the least it grows by
  Large,   \* kLargeBuffer: the size it never passes
  Numeric  \* kMaxNumericSize: no number is printed in so many bytes

ASSUME BufferAssumption ==
  /\ Small \in Nat \ {0} /\ Large \in Nat /\ Numeric \in Nat
  /\ Small <= Large

\* alloc: alloc_size_; fill: cur_ - data_;
\* zeroed: the bytes from fill up to this one are known to be zero
Buffer == [alloc : Nat, fill : Nat, zeroed : Nat]

NewBuffer == [alloc |-> Small, fill |-> 0, zeroed |-> Small]
Avail(b) == b.alloc - b.fill

-----------------------------------------------------------------------------
(* append of n bytes.                                                      *)

Put(b, n) == [b EXCEPT !.fill = b.fill + n]
AtMost(n, m) == IF n > m THEN m ELSE n

OneStep(n) == Small                          \* mutant: always by kSmallBuffer
GrowthStep(n) == IF n >= Small THEN n ELSE Small
GrownSize(b, n) == AtMost(b.alloc + GrowthStep(n), Large)

GrownDirty(b, n) ==                          \* mutant: no memset after realloc
  [b EXCEPT !.alloc = GrownSize(b, n)]
Grown(b, n) ==
  [b EXCEPT !.alloc = GrownSize(b, n), !.zeroed = GrownSize(b, n)]

AppendText(b, n) ==
  IF Avail(b) > n
  THEN Put(b, n)
  ELSE IF b.alloc < Large
  THEN LET g == Grown(b, n) IN Put(g, AtMost(n, Avail(g)))
  ELSE Put(b, Avail(b))

\* a number is converted in place, or dropped when the place is short
HasPlace(b) == Avail(b) >= Numeric
AppendNumber(b, n) == IF HasPlace(b) THEN Put(b, n) ELSE b

-----------------------------------------------------------------------------
(* Nothing is written past the end, and the buffer grows no further than   *)
(* its last size.  data() is printed with %s: the zero behind the text must *)
(* be there, and may be missing only in a buffer of the last size.         *)
WithinBounds(b) ==
  /\ b.fill <= b.alloc /\ b.alloc <= Large
  /\ b.alloc < Large => b.fill < b.zeroed

\* a buffer that can take nothing any more
Full(b) == b.alloc = Large /\ b.fill = b.alloc
=============================================================================
