-------------------------------- MODULE Units --------------------------------
(***************************************************************************)
(* What core writes for people and for contracts, and reads back: amounts  *)
(* in units (packages/core/src/utils/units) and texts in words of 32 bytes *)
(* (utils/data).  The precision, 80 decimals, and the size of a word are   *)
(* constants.                                                              *)
(***************************************************************************)
EXTENDS Integers, Sequences, SequencesExt, FiniteSetsExt

CONSTANTS
  Precision,  \* BIG_NUMBER_PRECISION
  Amounts,    \* amounts: pairs of a value and of its decimals or unit
  WordBytes,  \* the bytes of a word
  Words       \* texts, as sequences of bytes

ASSUME UnitsAssumption ==
  /\ {Precision, WordBytes} \subseteq Nat \ {0}
  /\ Amounts \subseteq Int \X ([name : 0 .. 6] \union [halves : Int])
  /\ Words \subseteq Seq(0 .. 255)

VARIABLE
  made  \* what was written and read back last, of what

Unmade == [thrown |-> TRUE]

-----------------------------------------------------------------------------
(***************************************************************************)
(* utils/units.  A decimal is an integer and how many of its digits are    *)
(* decimals.                                                               *)
(***************************************************************************)
Decimal(n, places) == [n |-> n, places |-> places]

Abs(n) == IF n < 0 THEN -n ELSE n

\* The powers of ten.
TenTo[n \in Nat] == IF n = 0 THEN 1 ELSE 10 * TenTo[n - 1]

\* Without the zeros at its end: digitsOfFractionalPart is its places.
Reduced(d) ==
  LET zeros == Max({z \in 0 .. d.places : Abs(d.n) % TenTo[z] = 0})
      n     == Abs(d.n) \div TenTo[zeros]
  IN  Decimal(IF d.n < 0 THEN -n ELSE n, d.places - zeros)

\* BigNumber.div by a power of ten: rounded half up, away from zero, to the precision.
Div(d, power) ==
  LET all  == Reduced(Decimal(d.n, d.places + power))
      over == all.places - Precision
      n    == (Abs(all.n) + 5 * TenTo[over - 1]) \div TenTo[over]
  IN  IF over <= 0 THEN all ELSE Reduced(Decimal(IF all.n < 0 THEN -n ELSE n, Precision))

Times(d, power) ==
  IF power <= d.places THEN Decimal(d.n, d.places - power)
  ELSE Decimal(d.n * TenTo[power - d.places], 0)

DigitsOfIntegerPart(d) ==
  LET i == Abs(d.n) \div TenTo[d.places]
  IN  IF i = 0 THEN 0 ELSE CHOOSE c \in 1 .. 9 : TenTo[c - 1] <= i /\ (c = 9 \/ i < TenTo[c])

\* Mutant of DigitsOfUnit: more digits than the precision has.
AnyDigitsOfUnit(unit) ==
  LET digits == IF "name" \in DOMAIN unit THEN 3 * unit.name ELSE unit.halves \div 2
  IN  IF digits >= 0 THEN digits ELSE -1

\* Three digits for each of the names, or the floor of a number, within the precision.
DigitsOfUnit(unit) ==
  LET digits == IF "name" \in DOMAIN unit THEN 3 * unit.name ELSE unit.halves \div 2
  IN  IF digits \in 0 .. Precision THEN digits ELSE -1

\* formatUnits: every decimal, and one at least, but in wei.
FormatUnits(value, unit) ==
  LET result == Div(Decimal(value, 0), DigitsOfUnit(unit))
      fixed  == IF result.places = 0 /\ unit # [name |-> 0] THEN 1 ELSE result.places
  IN  IF DigitsOfUnit(unit) < 0 THEN Unmade
      ELSE Decimal(result.n * TenTo[fixed - result.places], fixed)

\* parseUnits: toPrecision takes no 0 and BigInt no decimals.
ParseUnits(text, unit) ==
  LET result == Reduced(Times(Reduced(text), DigitsOfUnit(unit)))
  IN  IF \/ DigitsOfUnit(unit) < 0
         \/ result.places + DigitsOfIntegerPart(result) = 0
         \/ result.places > 0
      THEN Unmade ELSE [n |-> result.n]

-----------------------------------------------------------------------------
(***************************************************************************)
(* utils/data: a text as a word.                                           *)
(***************************************************************************)
EncodeBytes32String(text, zeroPadding) ==
  LET pad == [i \in 1 .. WordBytes - Len(text) |-> 0]
  IN  IF Len(text) > WordBytes THEN Unmade
      ELSE [word |-> IF zeroPadding = "left" THEN pad \o text ELSE text \o pad]

\* The bytes after the zeros at the beginning, or before the first zero; of
\* nothing but zeros, the last one.
DecodeBytes32String(word) ==
  LET zero    == SelectInSeq(word, LAMBDA b : b = 0)
      notZero == SelectInSeq(word, LAMBDA b : b # 0)
  IN  IF Len(word) # WordBytes THEN Unmade
      ELSE [text |-> IF zero = 0 THEN word
                     ELSE IF zero > 1 THEN SubSeq(word, 1, zero - 1)
                     ELSE IF notZero = 0 THEN <<0>> ELSE SubSeq(word, notZero, Len(word))]

-----------------------------------------------------------------------------
UnitsInit == made = Unmade

\* An amount is written, and read again with the same unit.
WritesAmount(value, unit) ==
  LET text == FormatUnits(value, unit)
  IN  made' = [of |-> value, text |-> text,
               back |-> IF text = Unmade THEN Unmade ELSE ParseUnits(text, unit)]

\* A text is made a word, and a text again.
WritesText(text, zeroPadding) ==
  LET word == EncodeBytes32String(text, zeroPadding)
  IN  made' = [of |-> text, text |-> word,
               back |-> IF word = Unmade THEN Unmade ELSE DecodeBytes32String(word.word)]

UnitsNext ==
  \/ \E a \in Amounts : WritesAmount(a[1], a[2])
  \/ \E text \in Words, zeroPadding \in {"left", "right"} : WritesText(text, zeroPadding)

UnitsSpec == UnitsInit /\ [][UnitsNext]_made

-----------------------------------------------------------------------------
\* What formatUnits writes parseUnits reads back, in every unit that both take, and
\* so do encodeBytes32String and decodeBytes32String with a text without zeros; but
\* neither reads back nothing: parseUnits throws for 0 and the empty text becomes a
\* zero byte.
ReadAsWritten ==
  made # Unmade /\ made.text # Unmade
  => IF "word" \in DOMAIN made.text
     THEN made.of # <<>> /\ 0 \notin ToSet(made.of) => made.back = [text |-> made.of]
     ELSE made.of # 0 => made.back = [n |-> made.of]
=============================================================================
