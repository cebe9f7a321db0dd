---------------------------- MODULE TrieEncoding ----------------------------
(***************************************************************************)
(* The key encodings of trie/encoding.go.  A key is a sequence of bytes.   *)
(* In memory the trie walks over the key's BINARY form: one element per    *)
(* bit, most significant first, and a trailing terminator 2 when the path  *)
(* ends in a value.  Nodes are stored with the COMPACT form: a flag byte   *)
(* (terminator bit, number of odd bits) followed by whole bytes.           *)
(***************************************************************************)
EXTENDS Integers, Sequences, SequencesExt

Terminator == 2

\* Number of a sequence of bits, most significant first.
BitsToNat(bits) ==
  LET upto[i \in 0 .. Len(bits)] == IF i = 0 THEN 0 ELSE 2 * upto[i - 1] + bits[i]
  IN  upto[Len(bits)]

Bit(byte, i) == (byte \div 2^(7 - i)) % 2

hasTermBin(s) == s # << >> /\ Last(s) = Terminator

keybytesToBinary(str) ==
  Append([i \in 1 .. 8 * Len(str) |-> Bit(str[((i - 1) \div 8) + 1], (i - 1) % 8)],
         Terminator)

\* The bytes of a sequence of bits whose length is a multiple of 8.
decodeNibblesBin(bits) ==
  [b \in 1 .. Len(bits) \div 8 |-> BitsToNat(SubSeq(bits, 8 * b - 7, 8 * b))]

binaryToKeybytes(bin) ==
  decodeNibblesBin(IF hasTermBin(bin) THEN Front(bin) ELSE bin)

\* The path after the flag byte, with its odd bits in their byte or without.
chopped(base, odd) == SubSeq(base, (IF odd > 4 THEN 16 ELSE 8) - odd + 1, Len(base))
unflagged(base) == chopped(base, 4 * base[2] + 2 * base[3] + base[4])

compactToBinary(compact) ==
  IF compact = << >> THEN << >>
  ELSE unflagged(IF Bit(compact[1], 0) = 0 THEN Front(keybytesToBinary(compact))
                                           ELSE keybytesToBinary(compact))

\* Mutant: four odd bits go to a byte of their own.
flaggedEarly(flag, odd, head, rest) ==
  IF odd >= 4 THEN <<flag, head>> \o rest ELSE <<flag + head>> \o rest

\* The flag byte has room for up to four odd bits; more go to a byte of their
\* own.
flagged(flag, odd, head, rest) ==
  IF odd > 4 THEN <<flag, head>> \o rest ELSE <<flag + head>> \o rest

compacted(bits, odd, term) ==
  flagged(term + 16 * odd, odd, BitsToNat(SubSeq(bits, 1, odd)),
          decodeNibblesBin(SubSeq(bits, odd + 1, Len(bits))))

binaryToCompact(binary) ==
  IF hasTermBin(binary) THEN compacted(Front(binary), (Len(binary) - 1) % 8, 128)
                        ELSE compacted(binary, Len(binary) % 8, 0)

\* Mutant, of the conversion below: the byte of the odd bits is overwritten.
binaryToCompactInPlaceNoShift(binary) ==
  LET n      == IF hasTermBin(binary) THEN Len(binary) - 1 ELSE Len(binary)
      odd    == n % 8
      flag   == (IF hasTermBin(binary) THEN 128 ELSE 0) + 16 * odd
      head   == BitsToNat(SubSeq(binary, 1, odd))
      start  == IF odd > 4 THEN [binary EXCEPT ![2] = head] ELSE binary
      buf[j \in 0 .. n \div 8] ==
        IF j = 0 THEN start
        ELSE [buf[j - 1] EXCEPT ![1 + j] =
                BitsToNat(SubSeq(buf[j - 1], odd + 8 * j - 7, odd + 8 * j))]
  IN  SubSeq([buf[n \div 8] EXCEPT ![1] = IF odd > 4 THEN flag ELSE flag + head],
             1, ((n + 3) \div 8) + 1)

(***************************************************************************)
(* The same conversion inside the caller's buffer: the bytes are written   *)
(* from the front while the bits further back are still to be read.  The   *)
(* result is the written prefix of the buffer.                             *)
(***************************************************************************)
binaryToCompactInPlace(binary) ==
  LET n      == IF hasTermBin(binary) THEN Len(binary) - 1 ELSE Len(binary)
      odd    == n % 8
      flag   == (IF hasTermBin(binary) THEN 128 ELSE 0) + 16 * odd
      head   == BitsToNat(SubSeq(binary, 1, odd))
      start  == IF odd > 4 THEN [binary EXCEPT ![2] = head] ELSE binary
      bi     == IF odd > 4 THEN 2 ELSE 1
      \* The buffer after j rounds: each reads eight bits of it, writes a byte.
      buf[j \in 0 .. n \div 8] ==
        IF j = 0 THEN start
        ELSE [buf[j - 1] EXCEPT ![bi + j] =
                BitsToNat(SubSeq(buf[j - 1], odd + 8 * j - 7, odd + 8 * j))]
  IN  SubSeq([buf[n \div 8] EXCEPT ![1] = IF odd > 4 THEN flag ELSE flag + head],
             1, ((n + 3) \div 8) + 1)

\* The length of the common prefix of a and b.
prefixLen(a, b) ==
  CHOOSE i \in 0 .. Len(a) :
    /\ i <= Len(b)
    /\ \A j \in 1 .. i : a[j] = b[j]
    /\ i < Len(a) /\ i < Len(b) => a[i + 1] # b[i + 1]

\* bytes.Compare(a, b) < 0, for sequences with a common prefix of length m.
LessAfter(a, b, m) ==
  \/ m = Len(a) /\ m < Len(b)
  \/ m < Len(a) /\ m < Len(b) /\ a[m + 1] < b[m + 1]
Less(a, b) == LessAfter(a, b, prefixLen(a, b))

Compare(a, b) == IF a = b THEN 0 ELSE IF Less(a, b) THEN -1 ELSE 1
=============================================================================
