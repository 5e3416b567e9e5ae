------------------------------ MODULE Contracts ------------------------------
(***************************************************************************)
(* A Contract of the client (packages/network/src/thor-client/contracts/   *)
(* model/): its signer, its options for reading and for transacting, the   *)
(* proxies that make calls, transactions, clauses and filters of them, and *)
(* the calls of ContractsModule.                                           *)
(*                                                                         *)
(* What a transaction sends is given to the signer, and from there on is   *)
(* the module Sending.  A read takes the signer's address before its       *)
(* options are looked at; signer and options may change meanwhile.         *)
(***************************************************************************)
EXTENDS ThorRequests

CONSTANTS
  ContractAddress,  \* the contract
  Functions,        \* its functions: how many inputs and outputs each has
  Events,           \* its events: the hash of each, and which inputs are indexed
  Signers,          \* the signers it may be given
  AddressOf,        \* the address of each
  ReadOptions,      \* the options it may be given to read: a caller, a revision
  TransactOptions,  \* the options it may be given to transact: a value
  MaxChanges        \* bound on the changes of signer and options during a call

\* The calls that look at the signer or the options of the contract.
OnContract == {"read", "transact", "clause"}

\* What a call may find there: the caller is that of the options or the signer.
Options ==
  ReadOptions \union TransactOptions
  \union {[options EXCEPT !.caller = AddressOf[s]] : options \in ReadOptions, s \in Signers}

ASSUME ContractAssumption ==
  /\ ContractAddress \notin Names
  /\ DOMAIN Functions \subseteq DOMAIN Simulated
  /\ Null \notin Signers
  /\ NoOptions \in ReadOptions
  /\ \A options \in ReadOptions :
       options = [revision |-> options.revision, caller |-> options.caller]
  /\ Null \notin Calls \union Options
  /\ \A c \in Calls :
       /\ c.name \in OnContract =>
            c = [name |-> c.name, member |-> c.member, args |-> c.args, signer |-> Null,
                 options |-> Null]
       /\ c.name \in OnContract =>
            \A s \in Signers \union {Null}, options \in Options \union {Null} :
              Null # [c EXCEPT !.signer = s, !.options = options]
       /\ c.name = "executeMultipleClausesCall" =>
            /\ c.clauses \in Seq(ToSet(c.clauses))
            /\ \A k \in DOMAIN c.clauses :
                 /\ c.clauses[k].clause.data.call \in DOMAIN Simulated
                 /\ c.clauses[k].fragment.outputs \in Nat
  /\ [value |-> Null] \in TransactOptions
  /\ MaxChanges \in Nat

VARIABLES
  signer,                      \* the signer of the contract, or Null
  contractCallOptions,         \* its options for reading
  contractTransactionOptions,  \* its options for transacting
  changes,                     \* history: how often one was changed
  callers                      \* history: who a read may call as

contractState == <<signer, contractCallOptions, contractTransactionOptions>>
contractVars  == <<thorVars, contractState, changes, callers>>

-----------------------------------------------------------------------------
(***************************************************************************)
(* Arguments.  An argument is a value or an object; the fields of an       *)
(* object that are looked at are value, comment and revision.              *)
(***************************************************************************)
IsOption(arg) == arg.value # Null \/ arg.comment # Null \/ arg.revision # Null

FirstField(args, field) ==
  LET with == SelectSeq(args, LAMBDA a : a[field] # Null)
  IN  IF with = <<>> THEN Null ELSE with[1][field]

\* Every object with one of the fields is taken out, wherever it is; the first one
\* with a field gives the option.
ExtractAndRemoveAdditionalOptions(args) ==
  [args     |-> SelectSeq(args, LAMBDA a : ~IsOption(a)),
   value    |-> FirstField(args, "value"),
   comment  |-> FirstField(args, "comment"),
   revision |-> FirstField(args, "revision")]

\* functionInteraction: a clause, with the ABI and the comment; or no clause when
\* the function is not of the contract or has other inputs.
CanEncode(function, args) ==
  function \in DOMAIN Functions /\ Len(args) = Functions[function].inputs

FunctionInteraction(function, args, value, comment) ==
  [to |-> ContractAddress, data |-> [call |-> function, args |-> args],
   value |-> value, comment |-> comment]

\* sanitizeValuesToEncode: the values in turn for the indexed inputs; more values
\* than inputs are left as they are.
SanitizeValuesToEncode(values, inputs) ==
  IF values = <<>> \/ Len(values) > Len(inputs) THEN values
  ELSE LET before(k) == Len(SelectSeq(SubSeq(inputs, 1, k), LAMBDA indexed : indexed))
       IN  [k \in DOMAIN inputs |->
              IF inputs[k] /\ before(k) <= Len(values) THEN values[before(k)] ELSE Null]

\* encodeFilterTopics: the hash and the indexed values, without what follows the last.
EncodeFilterTopics(event, values) ==
  LET sanitized == SanitizeValuesToEncode(values, event.inputs)
      given     == [k \in 1 .. Len(sanitized) |-> [value |-> sanitized[k], indexed |-> event.inputs[k]]]
      topics    == SelectSeq(given, LAMBDA v : v.indexed)
      last      == SelectLastInSeq(topics, LAMBDA v : v.value # Null)
  IN  <<event.hash>> \o [k \in 1 .. last |-> topics[k].value]

\* buildCriteria.
CanBuildCriteria(event, values) ==
  event \in DOMAIN Events /\ Len(values) <= Len(Events[event].inputs)

BuildCriteria(event, values) ==
  LET e       == Events[event]
      indexed == Len(SelectSeq(e.inputs, LAMBDA x : x))
  IN  [criteria |-> [address |-> ContractAddress, topics |-> EncodeFilterTopics(e, values)],
       fragment |-> [hash |-> e.hash, indexed |-> indexed, plain |-> Len(e.inputs) - indexed]]

-----------------------------------------------------------------------------
(***************************************************************************)
(* The calls.  `op.signer' and `op.options' are what the call looked at    *)
(* when it was made.                                                       *)
(***************************************************************************)
\* A read of a function of the contract waits until it knows its options, then is
\* an executeCall; the revision is that of the call alone.
AwaitsAddress(c) == c.name = "read" /\ c.options = Null /\ c.member \in DOMAIN Functions

Read(c) ==
  LET extracted == ExtractAndRemoveAdditionalOptions(c.args)
  IN  IF ~CanEncode(c.member, extracted.args) THEN Throw
      ELSE ExecuteCall(ContractAddress, Functions[c.member],
                       [call |-> c.member, args |-> extracted.args],
                       [caller |-> c.options.caller, revision |-> extracted.revision], 1)

\* The value of the contract's options comes before that of the call.
ValueOf(options, extracted) ==
  IF options.value # Null THEN options.value
  ELSE IF extracted.value # Null THEN extracted.value ELSE 0

\* A transaction: the signer is asked to send one clause, which has no comment.
Transact(c) ==
  LET extracted == ExtractAndRemoveAdditionalOptions(c.args)
  IN  IF c.signer = Null \/ ~CanEncode(c.member, extracted.args) THEN Throw
      ELSE Return([by |-> c.signer,
                   clause |-> FunctionInteraction(c.member, extracted.args,
                                                  ValueOf(c.options, extracted), Null)], 1)

\* A clause, and the fragment that decodes what it returns.
Clause(c) ==
  LET extracted == ExtractAndRemoveAdditionalOptions(c.args)
  IN  IF ~CanEncode(c.member, extracted.args) THEN Throw
      ELSE Return([clause |-> FunctionInteraction(c.member, extracted.args,
                                                  ValueOf(c.options, extracted),
                                                  extracted.comment),
                   fragment |-> Functions[c.member]], 1)

Criteria(c) ==
  IF CanBuildCriteria(c.member, c.args) THEN Return(BuildCriteria(c.member, c.args), 1) ELSE Throw

\* A filter, and its get: a range is found before filterGroupedEventLogs is called.
FilterGet(c) ==
  LET options(range) == [range |-> range, criteriaSet |-> <<BuildCriteria(c.member, c.args)>>]
  IN  IF ~CanBuildCriteria(c.member, c.args) THEN Throw
      ELSE IF c.range # Null THEN FilterGroupedEventLogs(options(c.range), 1)
      ELSE Then(GetBlockCompressed(BestBlock, 1),
                LAMBDA b, j :
                  FilterGroupedEventLogs(
                    options([from |-> 0, to |-> IF b = Null THEN Null ELSE NumberOf(b)]), j))

\* executeMultipleClausesCall: every result is decoded, reverted or not.
ExecuteMultipleClausesCall(c) ==
  Then(SimulateTransaction([k \in DOMAIN c.clauses |-> c.clauses[k].clause], c.options, 1),
       LAMBDA results, j :
         LET decoded == [k \in DOMAIN results |->
                           DecodeOutput(c.clauses[k].fragment, results[k].data, j)]
         IN  IF \A k \in DOMAIN results : "ret" \in DOMAIN decoded[k]
             THEN Return([k \in DOMAIN results |-> decoded[k].ret], j)
             ELSE Throw)

PerformOnContract(c) ==
  CASE c.name = "read"     -> Read(c)
    [] c.name = "transact" -> Transact(c)
    [] c.name = "clause"   -> Clause(c)
    [] c.name = "criteria" -> Criteria(c)
    [] c.name = "filter"   -> FilterGet(c)
    [] c.name = "executeMultipleClausesCall" -> ExecuteMultipleClausesCall(c)
    [] OTHER               -> Perform(c)

-----------------------------------------------------------------------------
(***************************************************************************)
(* The steps.                                                              *)
(***************************************************************************)
ContractInit ==
  /\ ThorInit
  /\ signer \in Signers \union {Null}
  /\ contractCallOptions \in ReadOptions
  /\ contractTransactionOptions \in TransactOptions
  /\ changes = 0
  /\ callers = {}

CallerOf(s) == IF s = Null THEN Null ELSE AddressOf[s]

\* A call of a proxy looks at the signer and, unless it has an address to wait for,
\* at the options.
CallContract(c) ==
  /\ op = Null
  /\ op' = [c EXCEPT !.signer = signer,
                     !.options = IF c.name # "read" THEN contractTransactionOptions
                                 ELSE IF signer # Null THEN Null ELSE contractCallOptions]
  /\ callers' = {CallerOf(signer), contractCallOptions.caller}
  /\ kept' = ToSet(trunk)
  /\ bests' = {Last(trunk)}
  /\ UNCHANGED <<httpVars, sent, got, answer, outcome, trunk, now, moves, contractState, changes>>

\* Mutant of AddressArrives: the signer is looked at again.
AddressOfLater ==
  /\ Running /\ AwaitsAddress(op)
  /\ op' = [op EXCEPT !.options =
               [contractCallOptions EXCEPT !.caller = IF @ = Null THEN CallerOf(signer) ELSE @]]
  /\ UNCHANGED <<httpVars, sent, got, answer, outcome, nodeVars, contractState, changes, callers>>

\* The address of the signer of a read; a caller of the options comes before it.
AddressArrives ==
  /\ Running /\ AwaitsAddress(op)
  /\ op' = [op EXCEPT !.options =
               [contractCallOptions EXCEPT !.caller = IF @ = Null THEN CallerOf(op.signer) ELSE @]]
  /\ UNCHANGED <<httpVars, sent, got, answer, outcome, nodeVars, contractState, changes, callers>>

\* setSigner, setContractReadOptions, setContractTransactOptions and their clears
\* during a call; those before it are the initial states.
Changes ==
  /\ changes < MaxChanges
  /\ Running /\ op.name \in OnContract
  /\ changes' = changes + 1
  /\ UNCHANGED <<thorVars>>

SetSigner(s) ==
  /\ Changes
  /\ signer' = s
  /\ UNCHANGED <<contractCallOptions, contractTransactionOptions, callers>>

SetContractReadOptions(options) ==
  /\ Changes
  /\ contractCallOptions' = options
  /\ callers' = callers \union {options.caller}
  /\ UNCHANGED <<signer, contractTransactionOptions>>

SetContractTransactOptions(options) ==
  /\ Changes
  /\ contractTransactionOptions' = options
  /\ UNCHANGED <<signer, contractCallOptions, callers>>

\* The other calls are made in one state of the contract.
Call(c) ==
  IF c.name \in OnContract THEN CallContract(c)
  ELSE /\ signer = Null /\ contractCallOptions = NoOptions
       /\ contractTransactionOptions.value = Null
       /\ Start(c)
       /\ UNCHANGED <<contractState, changes, callers>>

ContractProceeds ==
  /\ Running /\ ~AwaitsAddress(op)
  /\ \E step \in {PerformOnContract(op)} : Asks(step) \/ Ends(step)
  /\ UNCHANGED <<contractState, changes, callers>>

ContractNext ==
  \/ \E c \in Calls : Call(c)
  \/ ContractProceeds \/ AddressArrives
  \/ Outside /\ UNCHANGED <<contractState, changes, callers>>
  \/ \E s \in Signers : SetSigner(s)
  \/ \E options \in ReadOptions : SetContractReadOptions(options)
  \/ \E options \in TransactOptions : SetContractTransactOptions(options)

ContractSpec == ContractInit /\ [][ContractNext]_contractVars

\* Timers fire, the code after an await runs and a signer gives its address; the
\* server owes nothing.
ContractFairSpec ==
  /\ ContractSpec
  /\ WF_contractVars(\E r \in Requests : Fires(r) /\ UNCHANGED <<contractState, changes, callers>>)
  /\ WF_contractVars(ContractProceeds \/ AddressArrives)

-----------------------------------------------------------------------------
\* A read is made as the signer that the contract had when it was called, or as the
\* caller of its options since then: never as a signer that was set during it.
CallerOfTheCall ==
  op # Null /\ op.name = "read" /\ sent # <<>> /\ Last(sent).path = "simulate"
  => Last(sent).caller \in callers

\* No call returns outputs of a clause that was reverted, but a clause of
\* executeMultipleClausesCall without outputs, which is decoded from nothing; and
\* getRevertReason gives the reason of the clause that was.
RevertIsTold ==
  Returns =>
    /\ op.name \in {"read", "executeCall"} /\ Last(got)[1].reverted
       => "text" \in DOMAIN outcome.ret
    /\ op.name = "executeMultipleClausesCall"
       => \A k \in DOMAIN op.clauses :
            Last(got)[k].reverted => op.clauses[k].fragment.outputs = 0
    /\ op.name = "getRevertReason" => ReasonOfTheRevert
=============================================================================
