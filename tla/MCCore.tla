------------------------------- MODULE MCCore -------------------------------
(***************************************************************************)
(* The data model, units, bloom filters, keystores, certificates and       *)
(* wallets for TLC.  They share nothing but keys, so a program uses one of *)
(* them: part says which.                                                  *)
(***************************************************************************)
EXTENDS Vcdm, Units, Bloom, Wallets

CONSTANTS k1, k2, w1, w2, words1, main, bad, say, tell, b1, t1, t2, t3

VARIABLE part

coreVars == <<part, vcdmVars, made, bloomVars, keysVars, walletVars>>

CoreInit ==
  /\ part \in {"vcdm", "units", "bloom", "stores", "certificates", "wallets"}
  /\ VcdmInit
  /\ UnitsInit
  /\ BloomInit
  /\ KeysInit
  /\ WalletsInit
  /\ part \in {"vcdm", "units", "bloom"} => \A b \in Buffers : buffer[b] = Short
  /\ part # "stores" => ~experimental

CoreNext ==
  \/ part = "vcdm"  /\ VcdmNext  /\ UNCHANGED <<part, made, bloomVars, keysVars, walletVars>>
  \/ part = "units" /\ UnitsNext /\ UNCHANGED <<part, vcdmVars, bloomVars, keysVars, walletVars>>
  \/ part = "bloom" /\ BloomNext /\ UNCHANGED <<part, vcdmVars, made, keysVars, walletVars>>
  \/ part = "stores" /\ (Obtains \/ KeystoresNext)
     /\ UNCHANGED <<part, vcdmVars, made, bloomVars, walletVars>>
  \/ part = "certificates" /\ (Obtains \/ CertificatesNext)
     /\ UNCHANGED <<part, vcdmVars, made, bloomVars, walletVars>>
  \/ part = "wallets" /\ WalletsNext /\ UNCHANGED <<part, vcdmVars, made, bloomVars>>
  \/ /\ part = "wallets"
     /\ Obtains \/ \E b \in Buffers : NodeFromPrivateKey(b)
     /\ UNCHANGED <<part, vcdmVars, made, bloomVars, walletVars>>

CoreSpec == CoreInit /\ [][CoreNext]_coreVars

Text(minus, prefix, chars) == [minus |-> minus, prefix |-> prefix, chars |-> chars]

MCExpressions ==
  {Text(FALSE, prefix, chars) : prefix \in BOOLEAN,
     chars \in {<<>>, <<0>>, <<1>>, <<0, 15>>, <<1, 0, 2>>, <<0, 0, 0, 1>>, <<1, 16>>}}
  \union {Text(TRUE, TRUE, <<1>>), [bytes |-> <<>>], [bytes |-> <<0, 16>>]}
  \union [big : {0, 15, 258, -1}] \union [halves : {0, 1, 32, -2}]

MCAmounts ==
  {0, 1, -1, 5, 10, 105, -4000, 99999} \X ([name : {0, 1, 2}] \union [halves : {-1, 0, 3, 8, 12}])

MCWords ==
  {<<>>, <<65>>, <<65, 66>>, <<65, 0, 66>>, <<65, 66, 67>>, <<65, 66, 67, 68>>,
   <<65, 66, 67, 68, 69>>}

MCBloomKeys == {"a", "b", "c", "d"}
MCAddresses == {"a", "b", "c"}
MCHashOf    == [key \in MCBloomKeys |-> CASE key = "a" -> 255 [] key = "b" -> 129
                                          [] key = "c" -> 64 [] OTHER -> 0]

MCChildOf == [x \in {words1} \X {main, bad} |-> IF x[2] = main THEN k2 ELSE BadPath]

MCHdKeyOf == [x \in {words1} \X (0 .. 3) |-> IF x[2] % 2 = 0 THEN k1 ELSE k2]

MCAddressText == [k \in {k1, k2} |-> IF k = k1 THEN t1 ELSE t2]

Network(host, accounts, delegator) ==
  [host |-> host, vechain |-> TRUE, accounts |-> accounts, delegator |-> delegator,
   enableDelegation |-> FALSE]

MCNetworks ==
  {Network("hardhat", accounts, NoDelegator) : accounts \in
     {[unset |-> TRUE], [remote |-> TRUE], [keys |-> <<k2, k1, k1>>], [keys |-> <<k1, Short>>],
      [words |-> words1, count |-> 2, initialIndex |-> 1]}}
  \union {Network("proxy", accounts, [key |-> k1]) : accounts \in
     {[keys |-> <<k2>>], [words |-> words1, count |-> 2, initialIndex |-> 1]}}

MCWhiches == [index : {0, 2}] \union [text : {t1, t3, NoAddressText}]

MCIntentions ==
  LET Token(amount) == [what |-> "token", of |-> t3, to |-> t1, amount |-> amount]
      Vet(amount)   == [what |-> "VET", to |-> t2, amount |-> amount]
      Nft(from)     == [what |-> "NFT", of |-> t3, from |-> from, to |-> t2, id |-> "7"]
      Create        == [what |-> "create", code |-> "0x60", params |-> <<1>>]
  IN  {<<>>, <<Token(-1)>>, <<Token(NotInteger)>>, <<Vet(2)>>, <<Vet(-1)>>,
       <<Nft(NoAddressText)>>, <<Create>>, <<Token(1), Nft(t1)>>}
=============================================================================
