------------------------------- MODULE Bitmap -------------------------------
(***************************************************************************)
(* types/bitmap.go: a set of small numbers kept in bytes.  A header holds  *)
(* two of them, the signers of the block (by key in the committee) and the *)
(* shards it sends to (by shard id - 1001).                                *)
(*                                                                         *)
(* A byte is the set of its bits, bit j having the value 2^j.  Byte i of   *)
(* the code is element i + 1 of the sequence.                              *)
(***************************************************************************)
EXTENDS Integers, Sequences, FiniteSets

Byte == SUBSET (0 .. 7)

\* Mutant of NewBitmap: the length is not rounded up.
NewBitmapTruncated(len) == [i \in 1 .. len \div 8 |-> {}]

NewBitmap(len) == [i \in 1 .. (len + 7) \div 8 |-> {}]

SetKey(b, x) == [b EXCEPT ![x \div 8 + 1] = @ \cup {x % 8}]

\* The numbers in the bitmap.  The loops run over the bytes from the first on
\* and over the bits of each from the lowest on, so that the code returns them
\* in ascending order; GetSize counts in the same loops.
GetElement(b) == UNION {{8 * (i - 1) + j : j \in b[i]} : i \in DOMAIN b}
GetSize(b) == Cardinality(GetElement(b))

\* Mutant of Merge: only the first byte is merged.
MergeFirst(b, x) ==
    [bitmap |-> [b EXCEPT ![1] = @ \cup x[1]], newKeys |-> x[1] \ b[1]]

\* What Merge leaves in b, and the keys that it returns as new.  Bitmaps of
\* different lengths are not merged, and nothing is new.
Merge(b, x) ==
    IF Len(b) # Len(x)
    THEN [bitmap |-> b, newKeys |-> {}]
    ELSE [bitmap |-> [i \in DOMAIN b |-> b[i] \cup x[i]],
          newKeys |-> UNION {{8 * (i - 1) + j : j \in x[i] \ b[i]} : i \in DOMAIN b}]
=============================================================================
