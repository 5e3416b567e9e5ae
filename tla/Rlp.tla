--------------------------------- MODULE Rlp ---------------------------------
(***************************************************************************)
(* The scalar kinds of packages/core/src/encoding/rlp: what a profile      *)
(* accepts of a field's value (...Ok), the buffer it packs it into, what   *)
(* it accepts of a buffer (...BufferOk) and the value it unpacks.          *)
(*                                                                         *)
(* What Hex.isValid takes is a hexadecimal string: it may have a sign, and *)
(* no prefix.  A string of odd length is refused, whatever the kind.       *)
(***************************************************************************)
EXTENDS Integers, FiniteSets, Sequences

CONSTANTS
  Base,     \* the number of values of a byte
  MaxSafe,  \* Number.MAX_SAFE_INTEGER
  Null      \* null

ASSUME RlpAssumption == Base \in Nat \ {0, 1} /\ MaxSafe \in Nat

Byte   == 0 .. Base - 1
Buffer == Seq(Byte)

\* A JavaScript number, or the text of one in decimal or hexadecimal.
Numeric == [text : BOOLEAN, n : Int]

\* A hexadecimal string of even length: what its first two characters are, and
\* the others in pairs.  Of "-0x1a2" the rest is the pairs "x1" and "a2": the
\* first of them is no byte, and stands for any but zero.
Prefixes == {"0x", "-0x"}
Heads    == Prefixes \union {"", "digits", "-digit"}

Hex ==
  {h \in [head : Heads, rest : Buffer] :
     /\ h.head = "" => h.rest = <<>>
     /\ h.head = "-0x" => h.rest # <<>> /\ h.rest[1] # 0}

ASSUME NullAssumption == Null \notin Hex

-----------------------------------------------------------------------------
(* NumericKind *)

\* The bytes of a number, the most significant first, none for zero.
BytesOf(n) ==
  LET bytes[m \in 0 .. n] == IF m = 0 THEN <<>> ELSE Append(bytes[m \div Base], m % Base)
  IN  bytes[n]

Value(b) ==
  LET value[i \in 0 .. Len(b)] == IF i = 0 THEN 0 ELSE Base * value[i - 1] + b[i]
  IN  value[Len(b)]

NumericOk(d, width) ==
  /\ d.n >= 0
  /\ ~ d.text => d.n <= MaxSafe
  /\ Len(BytesOf(d.n)) <= width

NumericData(d) == BytesOf(d.n)

HasLeadingZero(b) == b # <<>> /\ b[1] = 0

\* Mutant of NumericBufferOk: any representation of a number is taken.
AnyNumericBufferOk(b, width) == Len(b) <= width

NumericBufferOk(b, width) == Len(b) <= width /\ ~ HasLeadingZero(b)

\* A number that is not safe is given as text.
NumericBuffer(b) == [text |-> Value(b) > MaxSafe, n |-> Value(b)]

-----------------------------------------------------------------------------
(* HexBlobKind, FixedHexBlobKind, OptionalFixedHexBlobKind *)

\* The first two characters are taken for the prefix.  Buffer.from stops at the
\* first pair that is no byte: what follows a negative prefix is lost.
HexBlobData(h) == IF h.head = "-0x" THEN <<>> ELSE h.rest

HexBlobBuffer(b) == [head |-> "0x", rest |-> b]

\* The length that is tested is that of the string, not that of its bytes.
FixedOk(h, width) == h.head # "" /\ Len(h.rest) = width

OptionalOk(h, width) == h = Null \/ FixedOk(h, width)

OptionalData(h) == IF h = Null THEN <<>> ELSE HexBlobData(h)

OptionalBufferOk(b, width) == Len(b) \in {0, width}

OptionalBuffer(b) == IF b = <<>> THEN Null ELSE HexBlobBuffer(b)

-----------------------------------------------------------------------------
(* CompactFixedHexBlobKind *)

CompactData(h) ==
  LET b == HexBlobData(h)
      significant == {i \in DOMAIN b : \E j \in 1 .. i : b[j] # 0}
  IN  SubSeq(b, Len(b) + 1 - Cardinality(significant), Len(b))

CompactBufferOk(b, width) == Len(b) <= width /\ ~ HasLeadingZero(b)

\* Mutant of CompactBuffer: the zeros are put back at the wrong end.
CompactBufferRight(b, width) == HexBlobBuffer(b \o [i \in 1 .. width - Len(b) |-> 0])

CompactBuffer(b, width) == HexBlobBuffer([i \in 1 .. width - Len(b) |-> 0] \o b)
==============================================================================
