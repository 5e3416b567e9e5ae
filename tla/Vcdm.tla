-------------------------------- MODULE Vcdm --------------------------------
(***************************************************************************)
(* The data model of core (packages/core/src/vcdm/): hexadecimal values    *)
(* and the classes derived from them.                                      *)
(*                                                                         *)
(* A program holds values, makes them of expressions and of one another,   *)
(* and compares them.  A value is a sign and its digits: the same number   *)
(* has many, of any length.  Sizes are constants: an id has 64 digits, an  *)
(* address 40.                                                             *)
(***************************************************************************)
EXTENDS Integers, Sequences, SequencesExt, FiniteSetsExt

CONSTANTS
  Slots,          \* the values that a program holds
  Expressions,    \* what they are made of
  IdDigits,       \* ThorId.DIGITS
  AddressDigits,  \* the digits of an address
  MaxSafe,        \* Number.MAX_SAFE_INTEGER
  MaxDigits       \* bound on the digits of a value

ASSUME VcdmAssumption ==
  /\ {IdDigits, AddressDigits, MaxSafe, MaxDigits} \subseteq Nat \ {0}
  /\ Expressions \subseteq [minus : BOOLEAN, prefix : BOOLEAN, chars : Seq(0 .. 16)]
                      \union [bytes : Seq(0 .. 255)] \union [big : Int] \union [halves : Int]

VARIABLES
  held,  \* the values
  is     \* history: the integer that each one stands for

vcdmVars == <<held, is>>

Thrown == [thrown |-> TRUE]

-----------------------------------------------------------------------------
(***************************************************************************)
(* Hex.  An expression is a text [minus, prefix, chars], 16 being any      *)
(* character that is no digit, bytes, a bigint, or a number, given by      *)
(* twice its value.                                                        *)
(***************************************************************************)
Hex(sign, digits) == [sign |-> sign, digits |-> digits]

Zeros(count) == [i \in 1 .. count |-> 0]

\* numberToHexUnpadded: no leading zero, but for zero itself.
DigitsOf[n \in Nat] == IF n < 16 THEN <<n>> ELSE Append(DigitsOf[n \div 16], n % 16)

\* The number of digits of a base.
Value(base, digits) == FoldLeft(LAMBDA n, d : base * n + d, 0, digits)

Bi(hex) == hex.sign * Value(16, hex.digits)

IsHex(text) == ToSet(text.chars) \subseteq 0 .. 15

AlignToBytes(hex) ==
  IF Len(hex.digits) % 2 = 0 THEN hex ELSE Hex(hex.sign, <<0>> \o hex.digits)

Bytes(hex) ==
  LET digits == AlignToBytes(hex).digits
  IN  [i \in 1 .. Len(digits) \div 2 |-> 16 * digits[2 * i - 1] + digits[2 * i]]

\* Mutant of Fit: a value that is too long loses its first digits, whatever they are.
FitCutting(hex, digits) ==
  LET length == Len(hex.digits)
  IN  IF digits < length THEN Hex(hex.sign, SubSeq(hex.digits, length - digits + 1, length))
      ELSE Hex(hex.sign, Zeros(digits - length) \o hex.digits)

\* fit: only leading zeros are added and taken away.
Fit(hex, digits) ==
  LET length == Len(hex.digits)
      cue    == length - digits
  IN  IF cue <= 0 THEN Hex(hex.sign, Zeros(-cue) \o hex.digits)
      ELSE IF \A i \in 1 .. cue : hex.digits[i] = 0
      THEN Hex(hex.sign, SubSeq(hex.digits, cue + 1, length))
      ELSE Thrown

\* The difference of the first bytes that differ, once as long as each other.
CompareTo(this, that) ==
  IF this.sign # that.sign THEN this.sign - that.sign
  ELSE LET digits    == Max({Len(this.digits), Len(that.digits)})
           thisBytes == Bytes(Fit(this, digits))
           thatBytes == Bytes(Fit(that, digits))
           first     == SelectInSeq([i \in DOMAIN thisBytes |-> thisBytes[i] - thatBytes[i]],
                                    LAMBDA d : d # 0)
       IN  IF first = 0 THEN 0 ELSE thisBytes[first] - thatBytes[first]

IsEqual(this, that) == CompareTo(this, that) = 0

-----------------------------------------------------------------------------
(***************************************************************************)
(* HexInt, HexUInt, Quantity, Address and ThorId.                          *)
(***************************************************************************)
OfText(text) ==
  IF IsHex(text) THEN Hex(IF text.minus THEN -1 ELSE 1, text.chars) ELSE Thrown

OfBytes(bytes) ==
  Hex(1, FlattenSeq([i \in DOMAIN bytes |-> <<bytes[i] \div 16, bytes[i] % 16>>]))

OfBigInt(n) == IF n < 0 THEN Hex(-1, DigitsOf[-n]) ELSE Hex(1, DigitsOf[n])

\* HexInt.of: of a number, only if it is an integer.
HexIntOf(exp) ==
  IF "chars" \in DOMAIN exp      THEN OfText(exp)
  ELSE IF "bytes" \in DOMAIN exp THEN OfBytes(exp.bytes)
  ELSE IF "big" \in DOMAIN exp   THEN OfBigInt(exp.big)
  ELSE IF exp.halves % 2 = 0     THEN OfBigInt(exp.halves \div 2)
  ELSE Thrown

\* HexInt.n: within the safe integers.
NumberOf(hex) == IF Bi(hex) \in -MaxSafe .. MaxSafe THEN [n |-> Bi(hex)] ELSE Thrown

HexUIntOf(exp) ==
  LET hint == HexIntOf(exp) IN IF hint # Thrown /\ hint.sign >= 1 THEN hint ELSE Thrown

\* Quantity.of: without leading zeros.
QuantityOf(n) ==
  LET huint == HexUIntOf([big |-> n])
      first == SelectInSeq(huint.digits, LAMBDA d : d # 0)
  IN  IF huint = Thrown THEN Thrown
      ELSE Hex(huint.sign, IF first = 0 THEN <<0>>
                           ELSE SubSeq(huint.digits, first, Len(huint.digits)))

\* Address.of: HexUInt.of what has the digits of an address.
AddressOf(exp) ==
  LET huint == HexUIntOf(exp)
  IN  IF huint # Thrown /\ Len(huint.digits) = AddressDigits THEN huint ELSE Thrown

\* ThorId.of: as many digits as an id, and positive.
ThorIdOf(exp) ==
  LET hex  == HexIntOf(exp)
      fits == IF hex = Thrown THEN Thrown ELSE Fit(hex, IdDigits)
  IN  IF fits = Thrown THEN Thrown ELSE Hex(1, fits.digits)

-----------------------------------------------------------------------------
(***************************************************************************)
(* A program.                                                              *)
(***************************************************************************)
VcdmInit ==
  /\ held = [s \in Slots |-> Hex(1, <<>>)]
  /\ is = [s \in Slots |-> 0]

\* A value replaces the one of a slot, unless it could not be made.
Holds(s, hex, n) ==
  /\ hex # Thrown /\ Len(hex.digits) <= MaxDigits
  /\ held' = [held EXCEPT ![s] = hex]
  /\ is' = [is EXCEPT ![s] = n]

ValueOf(exp) ==
  IF "chars" \in DOMAIN exp      THEN Bi(Hex(IF exp.minus THEN -1 ELSE 1, exp.chars))
  ELSE IF "bytes" \in DOMAIN exp THEN Value(256, exp.bytes)
  ELSE IF "big" \in DOMAIN exp   THEN exp.big
  ELSE exp.halves \div 2

Makes(s, exp) == HexUIntOf(exp) # Thrown /\ Holds(s, HexUIntOf(exp), ValueOf(exp))

MakesAddress(s, exp) == AddressOf(exp) # Thrown /\ Holds(s, AddressOf(exp), ValueOf(exp))

MakesId(s, exp) ==
  HexUIntOf(exp) # Thrown /\ ThorIdOf(exp) # Thrown /\ Holds(s, ThorIdOf(exp), ValueOf(exp))

MakesQuantity(s) == NumberOf(held[s]) # Thrown /\ Holds(s, QuantityOf(NumberOf(held[s]).n), is[s])

Aligns(s) == Holds(s, AlignToBytes(held[s]), is[s])

Fits(s, digits) == Holds(s, Fit(held[s], digits), is[s])

VcdmNext ==
  \/ \E s \in Slots, exp \in Expressions : Makes(s, exp) \/ MakesAddress(s, exp) \/ MakesId(s, exp)
  \/ \E s \in Slots : MakesQuantity(s) \/ Aligns(s)
  \/ \E s \in Slots, digits \in 0 .. MaxDigits : Fits(s, digits)

VcdmSpec == VcdmInit /\ [][VcdmNext]_vcdmVars

-----------------------------------------------------------------------------
Sign(n) == IF n < 0 THEN -1 ELSE IF n > 0 THEN 1 ELSE 0

\* However unsigned values were made, aligned, fitted and reduced to quantities,
\* compareTo orders them as the integers they stand for, and isEqual takes two of
\* them for equal exactly when those are.
OrderOfValues ==
  \A s, t \in Slots :
    /\ Sign(CompareTo(held[s], held[t])) = Sign(is[s] - is[t])
    /\ IsEqual(held[s], held[t]) <=> Bi(held[s]) = Bi(held[t])
=============================================================================
