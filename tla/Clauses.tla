------------------------------- MODULE Clauses -------------------------------
(***************************************************************************)
(* clauseBuilder (packages/core/src/clause/clause.ts): the clauses that    *)
(* create contracts and transfer tokens, VET and NFTs.                     *)
(*                                                                         *)
(* The data of a clause is empty, code with parameters, or a function with *)
(* its arguments: what the ABI coder makes of those is one to one.  What   *)
(* may be given wrongly is an amount or a text that is no address.         *)
(***************************************************************************)
EXTENDS Integers, Sequences

CONSTANTS
  AddressTexts,  \* texts that are addresses
  NoAddressText, \* a text that is not
  Nobody,        \* no recipient: null
  NotInteger     \* an amount that BigInt does not take

ASSUME ClausesAssumption ==
  Nobody \notin AddressTexts /\ NoAddressText \notin AddressTexts /\ Nobody # NoAddressText

BadClause == [thrown |-> TRUE]

Nothing == <<>>

\* Without parameters, the code alone.
DeployContract(bytecode, params) ==
  [to |-> Nobody, value |-> 0, data |-> <<"code", bytecode, params>>]

\* The coder takes no negative uint256 and no other text for an address.
Encodes(argument) ==
  CASE "address" \in DOMAIN argument -> argument.address \in AddressTexts
    [] "amount" \in DOMAIN argument  -> argument.amount # NotInteger /\ argument.amount >= 0
    [] OTHER                         -> TRUE

FunctionInteraction(contract, function, args, value) ==
  IF \A i \in DOMAIN args : Encodes(args[i])
  THEN [to |-> contract, value |-> value, data |-> <<"call", function, args>>]
  ELSE BadClause

TransferToken(token, recipient, amount) ==
  FunctionInteraction(token, "transfer", <<[address |-> recipient], [amount |-> amount]>>, 0)

TransferVET(recipient, amount) ==
  IF amount # NotInteger /\ amount >= 0
  THEN [to |-> recipient, value |-> amount, data |-> Nothing]
  ELSE BadClause

\* The id is not empty, the sender and the contract are addresses.
TransferNFT(contract, sender, recipient, tokenId) ==
  IF tokenId # "" /\ {sender, contract} \subseteq AddressTexts
  THEN FunctionInteraction(contract, "transferFrom",
         <<[address |-> sender], [address |-> recipient], [id |-> tokenId]>>, 0)
  ELSE BadClause

-----------------------------------------------------------------------------
(* What a program intends with a clause, and what the chain does with one. *)

\* An intention; who is paid may be given wrongly, but is somebody.
IsIntention(i) ==
  CASE i.what = "create" -> i = [what |-> "create", code |-> i.code, params |-> i.params]
    [] i.what = "token"  ->
         i = [what |-> "token", of |-> i.of, to |-> i.to, amount |-> i.amount] /\ i.of # Nobody
    [] i.what = "VET"    ->
         i = [what |-> "VET", to |-> i.to, amount |-> i.amount] /\ i.to # Nobody
    [] i.what = "NFT"    ->
         /\ i = [what |-> "NFT", of |-> i.of, from |-> i.from, to |-> i.to, id |-> i.id]
         /\ i.of # Nobody
    [] OTHER -> FALSE

\* The clause for an intention.
ClauseFor(i) ==
  CASE i.what = "create" -> DeployContract(i.code, i.params)
    [] i.what = "token"  -> TransferToken(i.of, i.to, i.amount)
    [] i.what = "VET"    -> TransferVET(i.to, i.amount)
    [] i.what = "NFT"    -> TransferNFT(i.of, i.from, i.to, i.id)

\* A clause without a recipient creates a contract, one without data moves VET.
Does(c) ==
  IF c.to = Nobody THEN [what |-> "create", code |-> c.data[2], params |-> c.data[3]]
  ELSE IF c.data = Nothing THEN [what |-> "VET", to |-> c.to, amount |-> c.value]
  ELSE IF c.data[2] = "transfer"
  THEN [what |-> "token", of |-> c.to, to |-> c.data[3][1].address, amount |-> c.data[3][2].amount]
  ELSE [what |-> "NFT", of |-> c.to, from |-> c.data[3][1].address,
        to |-> c.data[3][2].address, id |-> c.data[3][3].id]
=============================================================================
