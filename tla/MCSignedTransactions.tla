----------------------- MODULE MCSignedTransactions -----------------------
(***************************************************************************)
(* SignedTransactions for TLC, with bytes of four values and fields of one *)
(* or two bytes: bodies that differ from a plain one in one field, with    *)
(* every kind of reserved field; raw transactions from elsewhere that      *)
(* differ from an encoding in one place.                                   *)
(***************************************************************************)
EXTENDS SignedTransactions

CONSTANTS k1, k2

MCKeys == {k1, k2}

MCWidth == [chainTag |-> 1, blockRef |-> 2, expiration |-> 1, to |-> 1, value |-> 2,
            gasPriceCoef |-> 1, gas |-> 2, dependsOn |-> 2, nonce |-> 2, features |-> 1]

MCGas == [tx |-> 5, clause |-> 16, creation |-> 48, zero |-> 1, nonzero |-> 3]

Number(n) == [text |-> FALSE, n |-> n]
Text(n)   == [text |-> TRUE, n |-> n]
Hex0x(b)  == [head |-> "0x", rest |-> b]
Bare(b)   == [head |-> "digits", rest |-> b]
Signed(b) == [head |-> "-digit", rest |-> b]
Minus(b)  == [head |-> "-0x", rest |-> b]
Nothing   == [head |-> "", rest |-> <<>>]

Transfer(n) == [to |-> Hex0x(<<2>>), value |-> n, data |-> Hex0x(<<>>)]
Calling(b)  == [to |-> Hex0x(<<0>>), value |-> Number(0), data |-> b]
Creation(b) == [to |-> Null, value |-> Number(0), data |-> b]

Plain == [chainTag |-> Number(3), blockRef |-> Hex0x(<<0, 2>>), expiration |-> Number(0),
          clauses |-> <<Transfer(Number(1)), Creation(Hex0x(<<0, 1>>))>>,
          gasPriceCoef |-> Number(0), gas |-> Number(5), dependsOn |-> Null,
          nonce |-> Number(7), features |-> Number(0), unused |-> <<>>]

\* The integers below 10 are safe: 10 to 15 fit in two bytes, and must be text.
Edges == {Number(n) : n \in {-1, 0, 3, 4, 9, 10}} \union {Text(n) : n \in {0, 4, 15, 16}}

Varied ==
  {[Plain EXCEPT ![f] = d] : f \in {"expiration", "gasPriceCoef", "gas", "nonce"},
                             d \in Edges \union {Absent}}
  \union {[Plain EXCEPT !.chainTag = d] : d \in {Number(0), Number(4), Absent}}
  \union {[Plain EXCEPT !.blockRef = h] :
            h \in {Hex0x(<<0, 0>>), Hex0x(<<1, 0>>), Hex0x(<<1>>), Bare(<<0>>),
                   Bare(<<0, 0>>), Minus(<<1, 0>>), Minus(<<1, 0, 0>>)}}
  \union {[Plain EXCEPT !.dependsOn = h] :
            h \in {Hex0x(<<0, 0>>), Hex0x(<<1>>), Bare(<<0, 3>>), Signed(<<0, 3>>),
                   Minus(<<1, 3>>), Nothing, Absent}}
  \union {[Plain EXCEPT !.clauses = cs] :
            cs \in {<<>>, <<Transfer(Text(15))>>, <<Transfer(Number(10))>>,
                    <<Calling(Bare(<<0>>))>>, <<Calling(Nothing), Creation(Bare(<<>>))>>,
                    <<Calling(Signed(<<2, 0>>)), Transfer(Number(1))>>,
                    <<Creation(Minus(<<1, 0, 2>>)), Calling(Hex0x(<<3, 0>>))>>}}
  \union {[Plain EXCEPT !.clauses = <<[Transfer(Number(3)) EXCEPT !.to = to]>>] :
            to \in {Name, Bare(<<2>>), Signed(<<2>>), Minus(<<2>>), Nothing}}

MCBodies ==
  Varied
  \union {[b EXCEPT !.features = n, !.unused = u] :
            b \in {Plain, [Plain EXCEPT !.nonce = Text(15)]},
            n \in {Number(n) : n \in 0 .. 4},
            u \in {<<>>, <<<<>>>>, <<<<0>>>>, <<<<>>, <<1>>>>, <<<<2>>, <<>>>>}}

Encoded == Encode(Plain)

\* Buffers that are not, or not always, what this package packs.
Odd == {<<>>, <<0>>, <<3>>, <<0, 1>>, <<3, 3>>, <<1, 1, 1>>}

Signatures == {<<>>, <<Part(SignatureHash(Plain, Absent), Stranger)>>,
               [i \in 1 .. 2 |-> Part(SignatureHash(Plain, Absent), Stranger)]}

UnsignedOnes ==
  {[Encoded EXCEPT ![f] = b] : f \in {1, 2, 3, 5, 6, 7, 8}, b \in Odd}
  \union {[Encoded EXCEPT ![4] = <<<<to, value, <<0>>>>>>] : to \in Odd, value \in Odd}
  \union {[Encoded EXCEPT ![9] = list] :
            list \in {<<<<>>>>, <<<<1>>>>, <<<<2>>>>, <<<<0>>>>, <<<<1, 1>>>>,
                      <<<<>>, <<0>>>>, <<<<1>>, <<>>>>, <<<<1>>, <<>>, <<2>>>>}}

MCForeign == UnsignedOnes \union {Append(r, s) : r \in UnsignedOnes, s \in Signatures}
==============================================================================
