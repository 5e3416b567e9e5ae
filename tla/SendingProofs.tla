---------------------------- MODULE SendingProofs ----------------------------
(***************************************************************************)
(* What the node receives is what the caller asked for, fully signed, and  *)
(* one transaction for a request that fixes it: for any numbers of calls,  *)
(* objects and accounts, any values of gas and any chain.                  *)
(*                                                                         *)
(* The argument: nothing the caller gave is ever changed in an object      *)
(* (KeepsGiven), and at each of its places a call has settled some of the  *)
(* transaction's fields in agreement with what was given (RecordOK).       *)
(***************************************************************************)
EXTENDS Sending, TLAPS

Settled == {"genesis", "ref", "sponsor", "post", "reply"}
Signing == {"sponsor", "post", "reply"}

\* What r, the record of call c, is known to be at each place.
RecordOK(c, r) ==
  /\ r.object \in Requests \union {c}
  /\ r.at = "idle" => r.object = c
  /\ r.at \in {"name", "recheck"} \union Awaiting =>
       requested[r.object].from \in {Absent, r.account}
  /\ r.at \in {"recheck", "estimate"} => requested[r.object].gas = Absent
  /\ r.at \in Settled => r.gas \in Gas /\ requested[r.object].gas \in {Absent, r.gas}
  /\ r.at = "ref" => requested[r.object].ref = Absent
  /\ r.at \in Signing => /\ r.nonce \in Nonces /\ requested[r.object].nonce \in {Absent, r.nonce}
                         /\ r.ref \in Blocks   /\ requested[r.object].ref \in {Absent, r.ref}
  /\ r.at = "sponsor" => wallet.delegator = "url"
  /\ r.at \in {"post", "reply"} => /\ r.payer = wallet.delegator
                                   /\ wallet.enabled <=> r.payer # "none"
  /\ r.plans => /\ r.object = c
                /\ r.at \in {"estimate", "genesis", "ref"}
                /\ requested[c].from = Absent
                /\ requested[c].gas = Absent

\* What the caller put into an object is still there.
KeepsGiven ==
  \A o \in Objects :
    /\ requested[o].from \in {Absent, objects[o].from}
    /\ requested[o].gas \in {Absent, objects[o].gas}
    /\ requested[o].nonce \in {Absent, objects[o].nonce}
    /\ requested[o].ref \in {Absent, objects[o].ref}

\* A transaction of a call's own object comes from a call that has begun.
OwnHasBegun == \A t \in received : t.clauses \in Calls => call[t.clauses].at # "idle"

IInv ==
  /\ TypeOK
  /\ KeepsGiven
  /\ \A c \in Calls : RecordOK(c, call[c])
  /\ OwnHasBegun
  /\ SentAsAsked
  /\ FullySigned

-----------------------------------------------------------------------------
\* The invariant holds before anything is sent.
LEMMA InitIInv == Init => IInv
<1> SUFFICES ASSUME Init PROVE IInv
    OBVIOUS
<1>1. Shapes \union {Blank} \subseteq Request
  BY SendingAssumption DEF Blank, Request, Nonces, Blocks
<1>2. objects \in [Objects -> Request] /\ requested = objects
  BY <1>1 DEF Init
<1>3. \A c \in Calls : Idle(c) \in Call /\ RecordOK(c, Idle(c))
  BY SendingAssumption DEF Idle, Call, Objects, Payers, Blocks, Immediate, Awaiting, Ended,
     RecordOK, Settled, Signing
<1>4. call \in [Calls -> Call] /\ \A c \in Calls : RecordOK(c, call[c])
  BY <1>3 DEF Init
<1>5. TypeOK
  BY <1>2, <1>4, SendingAssumption DEF Init, TypeOK, Blocks
<1>6. KeepsGiven
  BY <1>2 DEF KeepsGiven
<1> QED
  BY <1>4, <1>5, <1>6 DEF Init, IInv, OwnHasBegun, SentAsAsked, FullySigned

-----------------------------------------------------------------------------
(* One call moves on. *)

\* Enough for what is known of all calls to stay so: the call that moves has
\* begun, and its new record is as it should be.
LEMMA CallMoves ==
  ASSUME IInv, NEW c \in Calls, NEW r \in Call, Becomes(c, r), RecordOK(c, r),
         r.at # "idle", UNCHANGED <<wallet, requested>>
  PROVE  /\ call' \in [Calls -> Call]
         /\ \A d \in Calls : RecordOK(d, call[d])'
         /\ \A d \in Calls : call[d].at # "idle" => call'[d].at # "idle"
<1>1. call' \in [Calls -> Call] /\ call'[c] = r /\ \A d \in Calls \ {c} : call'[d] = call[d]
  BY DEF IInv, TypeOK, Becomes
<1>2. ASSUME NEW d \in Calls PROVE RecordOK(d, call'[d])
  BY <1>1 DEF IInv
<1>3. ASSUME NEW d \in Calls PROVE RecordOK(d, call[d])'
  BY <1>2 DEF RecordOK
<1> QED
  BY <1>1, <1>3

\* The same for a whole step that leaves the node and the waits alone.
LEMMA CallStep ==
  ASSUME IInv, NEW c \in Calls, NEW r \in Call, Becomes(c, r), RecordOK(c, r),
         r.at # "idle", objects' \in [Objects -> Request], KeepsGiven',
         UNCHANGED <<wallet, requested, waiter, deployed, node>>
  PROVE  IInv'
<1>1. /\ call' \in [Calls -> Call]
      /\ \A d \in Calls : RecordOK(d, call[d])'
      /\ \A d \in Calls : call[d].at # "idle" => call'[d].at # "idle"
  BY CallMoves
<1>2. TypeOK'
  BY <1>1 DEF IInv, TypeOK, node
<1>3. OwnHasBegun'
  BY <1>1 DEF IInv, OwnHasBegun, node
<1>4. SentAsAsked' /\ FullySigned'
  BY DEF IInv, SentAsAsked, FullySigned, node
<1> QED
  BY <1>1, <1>2, <1>3, <1>4 DEF IInv

\* A call may end anywhere.
LEMMA EndedOK ==
  ASSUME NEW c \in Calls, NEW place \in Ended, TypeOK, NEW r,
         r = [Idle(c) EXCEPT !.at = place, !.deploys = call[c].deploys]
  PROVE  r \in Call /\ RecordOK(c, r) /\ r.at # "idle"
<1>1. r \in Call
  <2>1. Idle(c) \in Call
    BY SendingAssumption DEF Idle, Call, Objects, Payers, Blocks
  <2>2. call[c].deploys \in BOOLEAN
    BY DEF TypeOK, Call
  <2> QED
    BY <2>1, <2>2 DEF Call
<1>2. r.at = place /\ r.object = c /\ r.plans = FALSE
  BY DEF Idle
<1>3. RecordOK(c, r)
  BY <1>2 DEF RecordOK, Ended, Awaiting, Settled, Signing
<1> QED
  BY <1>1, <1>2, <1>3 DEF Ended

\* A call that ends, with an error or not, disturbs nothing.
LEMMA EndStep ==
  ASSUME IInv, NEW c \in Calls, NEW place \in Ended, Ends(c, place),
         UNCHANGED <<wallet, objects, requested, waiter, deployed, node>>
  PROVE  IInv'
<1> DEFINE r == [Idle(c) EXCEPT !.at = place, !.deploys = call[c].deploys]
<1>1. r \in Call /\ RecordOK(c, r) /\ r.at # "idle"
  BY EndedOK DEF IInv
<1>2. Becomes(c, r)
  BY DEF Ends
<1>3. objects' \in [Objects -> Request] /\ KeepsGiven'
  BY DEF IInv, TypeOK, KeepsGiven
<1> QED
  BY <1>1, <1>2, <1>3, CallStep

-----------------------------------------------------------------------------
(* The beginnings. *)

\* A signer is given an object, a caller's or one made for the call.
LEMMA BeginStep ==
  ASSUME IInv, NEW c \in Calls, NEW o \in Requests \union {c}, NEW account \in Accounts,
         Begin(c, o, account), UNCHANGED <<wallet, objects, requested, waiter, deployed, node>>
  PROVE  IInv'
<1> DEFINE r == [call[c] EXCEPT !.at = "check", !.object = o, !.account = account,
                                !.begun = best]
<1>1. Becomes(c, r)
  BY DEF Begin
<1>2. call[c] \in Call /\ best \in Blocks /\ o \in Objects /\ call[c].at = "idle"
  BY DEF IInv, TypeOK, Objects, Begin
<1>3. r \in Call
  BY <1>2 DEF Call, Immediate
<1>4. r.at = "check" /\ r.object = o /\ r.plans = call[c].plans
  BY <1>2 DEF Call
<1>5. ~ call[c].plans
  BY <1>2 DEF IInv, RecordOK
<1> HIDE DEF r
<1>6. RecordOK(c, r)
  BY <1>4, <1>5 DEF RecordOK, Awaiting, Settled, Signing
<1>7. objects' \in [Objects -> Request] /\ KeepsGiven'
  BY DEF IInv, TypeOK, KeepsGiven
<1> QED
  BY <1>1, <1>3, <1>4, <1>6, <1>7, CallStep

\* startDeployment puts its options into an object of its own, which no
\* transaction at the node is of.
LEMMA StartDeploymentStep ==
  ASSUME IInv, NEW c \in Calls, NEW options \in Options, StartDeployment(c, options)
  PROVE  IInv'
<1> DEFINE r == [call[c] EXCEPT !.at = "estimate", !.deploys = TRUE, !.plans = TRUE,
                                !.account = Owner, !.begun = best]
<1> USE DEF StartDeployment
<1>1. Becomes(c, r)
  OBVIOUS
<1>2. call[c] \in Call /\ best \in Blocks /\ call[c].at = "idle" /\ call[c].object = c
  BY DEF IInv, TypeOK, RecordOK
<1>3. r \in Call
  BY <1>2, SendingAssumption DEF Call, Awaiting
<1>4. r.at = "estimate" /\ r.object = c /\ r.account = Owner
  BY <1>2 DEF Call
<1> HIDE DEF r
<1>5. call' \in [Calls -> Call] /\ call'[c] = r /\ \A d \in Calls \ {c} : call'[d] = call[d]
  BY <1>1, <1>3 DEF IInv, TypeOK, Becomes
<1>6. options \in Request /\ options.from = Absent /\ options.gas = Absent
  BY SendingAssumption DEF Request, Nonces, Blocks
<1>7. c \in Objects /\ c \notin Requests
  BY SendingAssumption DEF Objects
<1>8. /\ objects' \in [Objects -> Request] /\ objects'[c] = options
      /\ requested' \in [Objects -> Request] /\ requested'[c] = options
      /\ \A o \in Objects \ {c} : objects'[o] = objects[o] /\ requested'[o] = requested[o]
  BY <1>6, <1>7 DEF IInv, TypeOK
<1>9. TypeOK'
  BY <1>5, <1>8 DEF IInv, TypeOK, node
<1>10. KeepsGiven'
  BY <1>8 DEF IInv, KeepsGiven
<1>11. RecordOK(c, call[c])'
  BY <1>4, <1>5, <1>6, <1>8 DEF RecordOK, Awaiting, Settled, Signing
<1>12. ASSUME NEW d \in Calls \ {c} PROVE RecordOK(d, call[d])'
  <2>1. call[d].object # c /\ call[d].object \in Objects /\ d \in Objects
    BY <1>7 DEF IInv, RecordOK, Objects
  <2>2. requested'[call[d].object] = requested[call[d].object] /\ requested'[d] = requested[d]
    BY <1>8, <1>12, <2>1
  <2> QED
    BY <1>5, <1>12, <2>2 DEF IInv, RecordOK
<1>13. \A t \in received : t.clauses # c /\ t.clauses \in Objects
  BY <1>2 DEF IInv, OwnHasBegun, TypeOK, Transactions
<1>14. SentAsAsked'
  BY <1>8, <1>13 DEF IInv, SentAsAsked, node
<1>15. OwnHasBegun' /\ FullySigned'
  BY <1>4, <1>5 DEF IInv, OwnHasBegun, FullySigned, node
<1> QED
  BY <1>9, <1>10, <1>11, <1>12, <1>14, <1>15 DEF IInv

-----------------------------------------------------------------------------
(* populateTransaction. *)

\* After populateCall the sender is settled, and the gas if it was given.
LEMMA PopulatedStep ==
  ASSUME IInv, NEW c \in Calls, call[c].at \in Immediate, Populated(c),
         requested[call[c].object].from \in {Absent, call[c].account},
         objects' \in [Objects -> Request], KeepsGiven',
         UNCHANGED <<wallet, requested, waiter, deployed, node>>
  PROVE  IInv'
<1>1. /\ call[c] \in Call
      /\ call[c].object \in Requests \union {c} /\ call[c].object \in Objects
      /\ ~ call[c].plans
  BY DEF IInv, TypeOK, RecordOK, Objects, Immediate
<1>2. /\ OfObject(c).gas \in Gas \union {Absent}
      /\ requested[call[c].object].gas \in {Absent, OfObject(c).gas}
  BY <1>1 DEF IInv, TypeOK, Request, KeepsGiven, OfObject
<1>3. ASSUME NEW place \in {"recheck", "estimate"}, At(c, place),
             requested[call[c].object].gas = Absent
      PROVE  IInv'
  <2> DEFINE r == [call[c] EXCEPT !.at = place]
  <2>1. r \in Call
    BY <1>1 DEF Call, Immediate, Awaiting
  <2>2. /\ r.at = place /\ r.object = call[c].object /\ r.account = call[c].account
        /\ r.plans = call[c].plans
    BY <1>1 DEF Call
  <2>3. Becomes(c, r)
    BY <1>3 DEF At
  <2> HIDE DEF r
  <2>4. RecordOK(c, r) /\ r.at # "idle"
    BY <1>1, <1>3, <2>2 DEF RecordOK, Awaiting, Settled, Signing
  <2> QED
    BY <2>1, <2>3, <2>4, CallStep
<1>4. CASE call[c].at # "recheck" /\ OfObject(c).gas = Absent /\ At(c, "recheck")
  BY <1>2, <1>3, <1>4
<1>5. CASE call[c].at = "recheck" /\ At(c, "estimate")
  <2>1. requested[call[c].object].gas = Absent
    BY <1>5 DEF IInv, RecordOK
  <2> QED
    BY <1>3, <1>5, <2>1
<1>6. CASE /\ OfObject(c).gas # Absent
           /\ Becomes(c, [call[c] EXCEPT !.at = "genesis", !.gas = OfObject(c).gas])
  <2> DEFINE r == [call[c] EXCEPT !.at = "genesis", !.gas = OfObject(c).gas]
  <2>1. r \in Call
    BY <1>1, <1>2 DEF Call, Awaiting
  <2>2. /\ r.at = "genesis" /\ r.object = call[c].object /\ r.account = call[c].account
        /\ r.plans = call[c].plans /\ r.gas = OfObject(c).gas
    BY <1>1 DEF Call
  <2>3. Becomes(c, r)
    BY <1>6
  <2> HIDE DEF r
  <2>4. RecordOK(c, r) /\ r.at # "idle"
    BY <1>1, <1>2, <1>6, <2>2 DEF RecordOK, Awaiting, Settled, Signing
  <2> QED
    BY <2>1, <2>3, <2>4, CallStep
<1> QED
  BY <1>4, <1>5, <1>6 DEF Populated

\* populateCall lets the signer's own account pass, and no other.
LEMMA CheckStep ==
  ASSUME IInv, NEW c \in Calls, Check(c)
  PROVE  IInv'
<1>1. /\ call[c] \in Call /\ call[c].at \in Immediate
      /\ call[c].object \in Requests \union {c} /\ call[c].object \in Objects
      /\ ~ call[c].plans
  BY DEF IInv, TypeOK, RecordOK, Objects, Immediate, Check
<1>2. requested[call[c].object].from \in {Absent, OfObject(c).from}
  BY <1>1 DEF IInv, KeepsGiven, OfObject
<1>3. /\ objects' \in [Objects -> Request] /\ KeepsGiven'
      /\ UNCHANGED <<wallet, objects, requested, waiter, deployed, node>>
  BY DEF IInv, TypeOK, KeepsGiven, Check
<1>4. CASE OfObject(c).from = Absent /\ At(c, "name")
  <2> DEFINE r == [call[c] EXCEPT !.at = "name"]
  <2>1. r \in Call
    BY <1>1 DEF Call, Immediate
  <2>2. r.at = "name" /\ r.object = call[c].object /\ r.plans = call[c].plans
    BY <1>1 DEF Call
  <2>3. Becomes(c, r)
    BY <1>4 DEF At
  <2> HIDE DEF r
  <2>4. RecordOK(c, r) /\ r.at # "idle"
    BY <1>1, <1>2, <1>4, <2>2 DEF RecordOK, Awaiting, Settled, Signing
  <2> QED
    BY <1>3, <2>1, <2>3, <2>4, CallStep
<1>5. CASE OfObject(c).from = call[c].account /\ Populated(c)
  BY <1>1, <1>2, <1>3, <1>5, PopulatedStep
<1>6. CASE Ends(c, "failed")
  BY <1>3, <1>6, EndStep DEF Ended
<1> QED
  BY <1>4, <1>5, <1>6 DEF Check

\* The sender is written only into an object to which the caller gave none, or
\* this one.
LEMMA NameStep ==
  ASSUME IInv, NEW c \in Calls, Name(c)
  PROVE  IInv'
<1>1. /\ call[c] \in Call /\ call[c].at \in Immediate
      /\ call[c].object \in Objects
      /\ requested[call[c].object].from \in {Absent, call[c].account}
      /\ objects[call[c].object] \in Request
  BY DEF IInv, TypeOK, RecordOK, Call, Immediate, Name
<1> DEFINE named == [objects[call[c].object] EXCEPT !.from = call[c].account]
<1>2. /\ named \in Request /\ named.from = call[c].account
      /\ named.gas = objects[call[c].object].gas
      /\ named.nonce = objects[call[c].object].nonce
      /\ named.ref = objects[call[c].object].ref
  BY <1>1 DEF Request, Call
<1>3. objects' = [objects EXCEPT ![call[c].object] = named]
  BY DEF Name
<1> HIDE DEF named
<1>4. objects' \in [Objects -> Request]
  BY <1>1, <1>2, <1>3 DEF IInv, TypeOK
<1>5. KeepsGiven'
  BY <1>1, <1>2, <1>3 DEF IInv, TypeOK, KeepsGiven, Name
<1> QED
  BY <1>1, <1>4, <1>5, PopulatedStep DEF Name

\* Gas is estimated only for an object without it.
LEMMA EstimateGasStep ==
  ASSUME IInv, NEW c \in Calls, EstimateGas(c)
  PROVE  IInv'
<1> PICK gas \in Gas : Becomes(c, [call[c] EXCEPT !.at = "genesis", !.gas = gas])
    BY DEF EstimateGas
<1> DEFINE r == [call[c] EXCEPT !.at = "genesis", !.gas = gas]
<1>1. call[c] \in Call /\ call[c].at = "estimate"
  BY DEF IInv, TypeOK, EstimateGas
<1>2. r \in Call
  BY <1>1 DEF Call, Awaiting
<1>3. /\ r.at = "genesis" /\ r.object = call[c].object /\ r.account = call[c].account
      /\ r.plans = call[c].plans /\ r.gas = gas
  BY <1>1 DEF Call
<1>4. Becomes(c, r)
  OBVIOUS
<1> HIDE DEF r
<1>5. RecordOK(c, r) /\ r.at # "idle"
  BY <1>1, <1>3 DEF IInv, RecordOK, Awaiting, Settled, Signing
<1>6. objects' \in [Objects -> Request] /\ KeepsGiven'
  BY DEF IInv, TypeOK, KeepsGiven, EstimateGas
<1> QED
  BY <1>2, <1>4, <1>5, <1>6, CallStep DEF EstimateGas

-----------------------------------------------------------------------------
(* buildTransactionBody. *)

\* A body agrees with its object, and so does the object startDeployment makes
\* of a body.
LEMMA BuiltStep ==
  ASSUME IInv, NEW c \in Calls, NEW ref \in Blocks, Built(c, ref),
         call[c].at \in {"genesis", "ref"},
         requested[call[c].object].ref \in {Absent, ref},
         UNCHANGED <<wallet, requested, waiter, deployed, node>>
  PROVE  IInv'
<1>1. /\ call[c] \in Call /\ c \in Objects
      /\ call[c].object \in Requests \union {c} /\ call[c].object \in Objects
      /\ call[c].gas \in Gas
      /\ requested[call[c].object].from \in {Absent, call[c].account}
      /\ requested[call[c].object].gas \in {Absent, call[c].gas}
  BY DEF IInv, TypeOK, RecordOK, Objects, Awaiting, Settled
<1>2. /\ NonceOf(c) \in Nonces
      /\ requested[call[c].object].nonce \in {Absent, NonceOf(c)}
  BY <1>1 DEF IInv, TypeOK, Request, Nonces, NonceOf, OfObject, KeepsGiven
<1>0. 0 \in Blocks
  BY SendingAssumption DEF Blocks
<1>3. CASE call[c].plans
  <2> DEFINE r == [call[c] EXCEPT !.at = "check", !.plans = FALSE, !.asked = 0]
  <2>1. Becomes(c, r) /\ objects' = [objects EXCEPT ![c] = Filled(c, ref)]
    BY <1>3 DEF Built
  <2>2. r \in Call
    BY <1>0, <1>1 DEF Call, Immediate
  <2>3. r.at = "check" /\ r.object = call[c].object /\ r.plans = FALSE
    BY <1>1 DEF Call
  <2> HIDE DEF r
  <2>4. RecordOK(c, r) /\ r.at # "idle"
    BY <1>1, <2>3 DEF RecordOK, Awaiting, Settled, Signing
  <2>5. call[c].object = c /\ requested[c].from = Absent /\ requested[c].gas = Absent
    BY <1>3 DEF IInv, RecordOK
  <2>6. Filled(c, ref) \in Request
    BY <1>1, <1>2 DEF Filled, Request, Call
  <2>7. objects' \in [Objects -> Request]
    BY <1>1, <2>1, <2>6 DEF IInv, TypeOK
  <2>8. KeepsGiven'
    BY <1>1, <1>2, <2>1, <2>5 DEF IInv, TypeOK, KeepsGiven, Filled
  <2> QED
    BY <2>1, <2>2, <2>4, <2>7, <2>8, CallStep
<1>4. CASE ~ call[c].plans
  <2>1. objects' = objects /\ objects' \in [Objects -> Request] /\ KeepsGiven'
    BY <1>4 DEF IInv, TypeOK, KeepsGiven, Built
  <2>2. CASE SignedBy = "failed"
    BY <1>4, <2>1, <2>2, EndStep DEF Built, Ended
  <2>3. CASE SignedBy # "failed"
    <3> DEFINE r == [call[c] EXCEPT !.at = SignedBy, !.asked = 0, !.ref = ref,
                                    !.nonce = NonceOf(c), !.payer = PayerFor(SignedBy)]
    <3>1. Becomes(c, r)
      BY <1>4, <2>3 DEF Built
    <3>2. /\ wallet.delegator \in Payers /\ SignedBy \in {"post", "sponsor"}
          /\ PayerFor(SignedBy) \in Payers
          /\ SignedBy = "sponsor" => wallet.delegator = "url"
          /\ SignedBy = "post" => /\ PayerFor(SignedBy) = wallet.delegator
                                  /\ wallet.enabled <=> wallet.delegator # "none"
      BY <2>3 DEF IInv, TypeOK, SignedBy, PayerFor, Payers
    <3>3. r \in Call
      BY <1>0, <1>1, <1>2, <3>2 DEF Call, Awaiting
    <3>4. /\ r.at = SignedBy /\ r.object = call[c].object /\ r.account = call[c].account
          /\ r.gas = call[c].gas /\ r.nonce = NonceOf(c) /\ r.ref = ref
          /\ r.payer = PayerFor(SignedBy) /\ r.plans = call[c].plans
      BY <1>1 DEF Call
    <3> HIDE DEF r
    <3>5. RecordOK(c, r) /\ r.at # "idle"
      BY <1>1, <1>2, <1>4, <3>2, <3>4 DEF RecordOK, Awaiting, Settled, Signing
    <3> QED
      BY <2>1, <3>1, <3>3, <3>5, CallStep
  <2> QED
    BY <2>2, <2>3
<1> QED
  BY <1>3, <1>4

\* A block reference that was given goes into the body.
LEMMA GenesisBlockStep ==
  ASSUME IInv, NEW c \in Calls, GenesisBlock(c)
  PROVE  IInv'
<1>1. /\ call[c] \in Call /\ call[c].at = "genesis" /\ call[c].object \in Objects
      /\ best \in Blocks
      /\ OfObject(c).ref \in Blocks \union {Absent}
      /\ requested[call[c].object].ref \in {Absent, OfObject(c).ref}
  BY DEF IInv, TypeOK, KeepsGiven, OfObject, Call, Request, GenesisBlock
<1>2. CASE OfObject(c).ref = Absent
  <2> DEFINE r == [call[c] EXCEPT !.at = "ref", !.asked = best]
  <2>1. Becomes(c, r)
    BY <1>2 DEF GenesisBlock
  <2>2. r \in Call
    BY <1>1 DEF Call, Awaiting
  <2>3. /\ r.at = "ref" /\ r.object = call[c].object /\ r.account = call[c].account
        /\ r.plans = call[c].plans /\ r.gas = call[c].gas
    BY <1>1 DEF Call
  <2> HIDE DEF r
  <2>4. RecordOK(c, r) /\ r.at # "idle"
    BY <1>1, <1>2, <2>3 DEF IInv, RecordOK, Awaiting, Settled, Signing
  <2>5. objects' \in [Objects -> Request] /\ KeepsGiven'
    BY <1>2 DEF IInv, TypeOK, KeepsGiven, GenesisBlock
  <2> QED
    BY <2>1, <2>2, <2>4, <2>5, CallStep DEF GenesisBlock
<1>3. CASE OfObject(c).ref # Absent
  BY <1>1, <1>3, BuiltStep DEF GenesisBlock
<1> QED
  BY <1>2, <1>3

\* The best block is asked for only for an object without a reference.
LEMMA BestBlockRefStep ==
  ASSUME IInv, NEW c \in Calls, BestBlockRef(c)
  PROVE  IInv'
<1> PICK ref \in call[c].asked .. best : Built(c, ref)
    BY DEF BestBlockRef
<1>1. call[c].asked \in Blocks /\ best \in Blocks
  BY DEF IInv, TypeOK, Call
<1>2. ref \in Blocks
  BY <1>1, SendingAssumption DEF Blocks
<1>3. requested[call[c].object].ref = Absent
  BY DEF IInv, RecordOK, BestBlockRef
<1> QED
  BY <1>2, <1>3, BuiltStep DEF BestBlockRef

\* A URL's signature completes a delegated body only.
LEMMA DelegatorSignsStep ==
  ASSUME IInv, NEW c \in Calls, DelegatorSigns(c)
  PROVE  IInv'
<1>1. UNCHANGED <<wallet, objects, requested, waiter, deployed, node>>
  BY DEF DelegatorSigns
<1>2. CASE wallet.enabled
  <2> DEFINE r == [call[c] EXCEPT !.at = "post", !.payer = "url"]
  <2>1. Becomes(c, r)
    BY <1>2 DEF DelegatorSigns
  <2>2. call[c] \in Call /\ call[c].at = "sponsor" /\ wallet.delegator = "url"
    BY DEF IInv, TypeOK, RecordOK, DelegatorSigns
  <2>3. r \in Call
    BY <2>2 DEF Call, Awaiting, Payers
  <2>4. /\ r.at = "post" /\ r.object = call[c].object /\ r.account = call[c].account
        /\ r.plans = call[c].plans /\ r.gas = call[c].gas /\ r.nonce = call[c].nonce
        /\ r.ref = call[c].ref /\ r.payer = "url"
    BY <2>2 DEF Call
  <2> HIDE DEF r
  <2>5. RecordOK(c, r) /\ r.at # "idle"
    BY <1>2, <2>2, <2>4 DEF IInv, RecordOK, Awaiting, Settled, Signing
  <2>6. objects' \in [Objects -> Request] /\ KeepsGiven'
    BY <1>1 DEF IInv, TypeOK, KeepsGiven
  <2> QED
    BY <1>1, <2>1, <2>3, <2>5, <2>6, CallStep
<1>3. CASE ~ wallet.enabled
  BY <1>1, <1>3, EndStep DEF DelegatorSigns, Ended
<1> QED
  BY <1>2, <1>3

-----------------------------------------------------------------------------
(* The node and the waits. *)

\* The transaction of a call that posts it is complete, as asked, and signed.
LEMMA Posted ==
  ASSUME IInv, NEW c \in Calls, call[c].at \in {"post", "reply"}
  PROVE  /\ Transaction(c) \in Transactions
         /\ Transaction(c).clauses \in Requests \union {c}
         /\ LET t == Transaction(c)
                given == requested[t.clauses]
            IN  /\ given.from \in {Absent, t.origin}
                /\ given.gas \in {Absent, t.gas}
                /\ given.nonce \in {Absent, t.nonce}
                /\ given.ref \in {Absent, t.ref}
                /\ t.payer = wallet.delegator
                /\ t.delegated <=> t.payer # "none"
<1>1. /\ call[c] \in Call
      /\ wallet.enabled \in BOOLEAN
  BY DEF IInv, TypeOK
<1>2. RecordOK(c, call[c])
  BY DEF IInv
<1>3. Transaction(c) \in Transactions
  BY <1>1, <1>2 DEF RecordOK, Settled, Signing, Transaction, Transactions, Call
<1> QED
  BY <1>2, <1>3 DEF RecordOK, Settled, Signing, Awaiting, Transaction

\* The node takes a transaction as it was signed.
LEMMA NodeAcceptsStep ==
  ASSUME IInv, NEW c \in Calls, NodeAccepts(c)
  PROVE  IInv'
<1> DEFINE r == [call[c] EXCEPT !.at = "reply"]
<1>1. call[c] \in Call /\ call[c].at = "post"
  BY DEF IInv, TypeOK, NodeAccepts
<1>2. r \in Call /\ Becomes(c, r)
  BY <1>1 DEF Call, Awaiting, NodeAccepts, At
<1>3. /\ r.at = "reply" /\ r.object = call[c].object /\ r.account = call[c].account
      /\ r.plans = call[c].plans /\ r.gas = call[c].gas /\ r.nonce = call[c].nonce
      /\ r.ref = call[c].ref /\ r.payer = call[c].payer
  BY <1>1 DEF Call
<1> HIDE DEF r
<1>4. RecordOK(c, r) /\ r.at # "idle"
  BY <1>1, <1>3 DEF IInv, RecordOK, Awaiting, Settled, Signing
<1>5. /\ call' \in [Calls -> Call]
      /\ \A d \in Calls : RecordOK(d, call[d])'
      /\ \A d \in Calls : call[d].at # "idle" => call'[d].at # "idle"
  BY <1>2, <1>4, CallMoves DEF NodeAccepts
<1> DEFINE t == Transaction(c)
<1>6. /\ t \in Transactions /\ t.clauses \in Requests \union {c}
      /\ requested[t.clauses].from \in {Absent, t.origin}
      /\ requested[t.clauses].gas \in {Absent, t.gas}
      /\ requested[t.clauses].nonce \in {Absent, t.nonce}
      /\ requested[t.clauses].ref \in {Absent, t.ref}
      /\ t.payer = wallet.delegator
      /\ t.delegated <=> t.payer # "none"
  BY <1>1, Posted
<1>7. received' = received \union {t}
  BY DEF NodeAccepts
<1> HIDE DEF t
<1>8. TypeOK' /\ KeepsGiven'
  BY <1>5, <1>6, <1>7 DEF IInv, TypeOK, KeepsGiven, NodeAccepts
<1>9. OwnHasBegun'
  BY <1>1, <1>5, <1>6, <1>7, SendingAssumption DEF IInv, OwnHasBegun
<1>10. SentAsAsked' /\ FullySigned'
  BY <1>6, <1>7 DEF IInv, SentAsAsked, FullySigned, NodeAccepts
<1> QED
  BY <1>5, <1>8, <1>9, <1>10 DEF IInv

\* The end of a send.
LEMMA SentStep ==
  ASSUME IInv, NEW c \in Calls, Sent(c)
  PROVE  IInv'
<1> DEFINE r == [Idle(c) EXCEPT !.at = "done", !.deploys = call[c].deploys]
<1>1. Becomes(c, r)
  BY DEF Sent, Ends
<1>2. r \in Call /\ RecordOK(c, r) /\ r.at # "idle"
  BY EndedOK DEF IInv, Ended
<1> HIDE DEF r
<1>3. /\ call' \in [Calls -> Call]
      /\ \A d \in Calls : RecordOK(d, call[d])'
      /\ \A d \in Calls : call[d].at # "idle" => call'[d].at # "idle"
  BY <1>1, <1>2, CallMoves DEF Sent
<1>4. deployed' \in Transactions \union {NoDeployment}
  BY Posted DEF IInv, TypeOK, Sent
<1>5. TypeOK' /\ KeepsGiven'
  BY <1>3, <1>4 DEF IInv, TypeOK, KeepsGiven, Sent, node
<1>6. OwnHasBegun' /\ SentAsAsked' /\ FullySigned'
  BY <1>3 DEF IInv, OwnHasBegun, SentAsAsked, FullySigned, Sent, node
<1> QED
  BY <1>3, <1>5, <1>6 DEF IInv

\* What touches neither calls, objects nor what the node has received.
LEMMA ElsewhereStep ==
  ASSUME IInv, TypeOK', UNCHANGED <<wallet, objects, requested, call, received>>
  PROVE  IInv'
  BY DEF IInv, KeepsGiven, RecordOK, OwnHasBegun, SentAsAsked, FullySigned

\* The waits for a deployment read only what the node has mined.
LEMMA WaiterStep ==
  ASSUME IInv, NEW w \in Waiters, WaitForDeployment(w) \/ Receipt(w) \/ ReceiptFails(w)
  PROVE  IInv'
<1>1. UNCHANGED <<wallet, objects, requested, call, deployed, node>>
  BY DEF WaitForDeployment, Receipt, ReceiptFails
<1>2. waiter' \in [Waiters -> [at : {"idle", "waiting"} \union Ended,
                               for : Transactions \union {NoDeployment}]]
  BY DEF IInv, TypeOK, Ended, WaitForDeployment, Receipt, ReceiptFails, WaitFails
<1>3. TypeOK'
  BY <1>1, <1>2 DEF IInv, TypeOK, node
<1> QED
  BY <1>1, <1>3, ElsewhereStep DEF node

\* A new block.
LEMMA NewBlockStep ==
  ASSUME IInv, NewBlock
  PROVE  IInv'
<1>1. best' \in Blocks
  BY SendingAssumption DEF IInv, TypeOK, Blocks, NewBlock
<1>2. mined' \subseteq [transaction : Transactions, reverted : BOOLEAN]
  <2> PICK included \in SUBSET Pending, reverted \in SUBSET Pending :
        mined' = mined \union {[transaction |-> t, reverted |-> t \in reverted] : t \in included}
    BY DEF NewBlock
  <2>1. included \subseteq Transactions
    BY DEF IInv, TypeOK, Pending
  <2>2. \A t \in included : [transaction |-> t, reverted |-> t \in reverted]
                               \in [transaction : Transactions, reverted : BOOLEAN]
    BY <2>1
  <2> QED
    BY <2>2 DEF IInv, TypeOK
<1>3. TypeOK'
  BY <1>1, <1>2 DEF IInv, TypeOK, NewBlock
<1> QED
  BY <1>3, ElsewhereStep DEF NewBlock

-----------------------------------------------------------------------------
\* Every step keeps the invariant.
LEMMA NextIInv == IInv /\ [Next]_vars => IInv'
<1> SUFFICES ASSUME IInv, [Next]_vars PROVE IInv'
    OBVIOUS
<1>1. ASSUME NEW c \in Calls, Start(c) PROVE IInv'
  <2>1. ASSUME NEW r \in Requests, EthSendTransaction(c, r) PROVE IInv'
    <3>1. CASE objects[r].from \in Wallet
      BY <2>1, <3>1, BeginStep, SendingAssumption DEF EthSendTransaction
    <3>2. CASE objects[r].from \notin Wallet
      BY <2>1, <3>2, EndStep DEF EthSendTransaction, Ended
    <3> QED
      BY <3>1, <3>2
  <2>2. ASSUME NEW r \in Requests, NEW account \in Accounts, SendTransaction(c, r, account)
        PROVE  IInv'
    BY <2>2, BeginStep DEF SendTransaction
  <2>3. ASSUME ExecuteTransaction(c) PROVE IInv'
    BY <2>3, BeginStep, SendingAssumption DEF ExecuteTransaction
  <2>4. ASSUME NEW options \in Options, StartDeployment(c, options) PROVE IInv'
    BY <2>4, StartDeploymentStep
  <2> QED
    BY <1>1, <2>1, <2>2, <2>3, <2>4 DEF Start
<1>2. ASSUME NEW c \in Calls, Step(c) PROVE IInv'
  BY <1>2, CheckStep, NameStep, EstimateGasStep, GenesisBlockStep, BestBlockRefStep,
     DelegatorSignsStep, NodeAcceptsStep, SentStep DEF Step
<1>3. ASSUME NEW c \in Calls, RequestFails(c) PROVE IInv'
  BY <1>3, EndStep DEF RequestFails, Ended
<1>4. ASSUME UNCHANGED vars PROVE IInv'
  <2>1. TypeOK'
    BY <1>4 DEF IInv, TypeOK, vars
  <2> QED
    BY <1>4, <2>1, ElsewhereStep DEF vars
<1> QED
  BY <1>1, <1>2, <1>3, <1>4, WaiterStep, NewBlockStep DEF Next

\* At each of its places a call has settled some of the transaction's fields in
\* agreement with what the caller gave, which nobody changes in the object.
THEOREM IInvHolds == Spec => []IInv
  BY InitIInv, NextIInv, PTL DEF Spec

\* Type correctness: a transaction at the node has all its fields.
THEOREM TypeCorrect == Spec => []TypeOK
<1>1. IInv => TypeOK
  BY DEF IInv
<1> QED
  BY <1>1, IInvHolds, PTL

\* However many calls share an object, in whatever order they read it and write
\* the sender into it, the node receives what the caller asked for.
THEOREM AsAsked == Spec => []SentAsAsked
<1>1. IInv => SentAsAsked
  BY DEF IInv
<1> QED
  BY <1>1, IInvHolds, PTL

\* With every configuration of the delegation, the node receives delegated
\* transactions with, and others without, a gas payer's signature.
THEOREM SignedByAll == Spec => []FullySigned
<1>1. IInv => FullySigned
  BY DEF IInv
<1> QED
  BY <1>1, IInvHolds, PTL

\* However often a request that fixes gas, nonce and block reference is sent,
\* an account's transactions for it are one.
THEOREM RetrySafe == Spec => []FixedIsSentOnce
<1>1. IInv => FixedIsSentOnce
  <2> SUFFICES ASSUME IInv, NEW t \in received, NEW u \in received,
                      t.clauses = u.clauses, t.origin = u.origin,
                      Absent \notin {requested[t.clauses].gas, requested[t.clauses].nonce,
                                     requested[t.clauses].ref}
               PROVE  t = u
    BY DEF FixedIsSentOnce
  <2>1. t \in Transactions /\ u \in Transactions
    BY DEF IInv, TypeOK
  <2>2. t.gas = u.gas /\ t.nonce = u.nonce /\ t.ref = u.ref
    BY DEF IInv, SentAsAsked
  <2>3. t.payer = u.payer /\ t.delegated = u.delegated
    BY <2>1 DEF IInv, FullySigned, Transactions
  <2> QED
    BY <2>1, <2>2, <2>3 DEF Transactions
<1> QED
  BY <1>1, IInvHolds, PTL

-----------------------------------------------------------------------------
(***************************************************************************)
(* How old a transaction's block reference is, and what a wait for a       *)
(* deployment gives.  FreshBlockRef says nothing of where the reference    *)
(* comes from: the best block, asked for since the call began, or, in a    *)
(* deployment, the object that startDeployment made of the first body.     *)
(***************************************************************************)
DateOK(c) ==
  /\ call[c].begun <= best
  /\ call[c].at = "ref" => call[c].begun <= call[c].asked
  /\ call[c].at \in Signing /\ requested[call[c].object].ref = Absent =>
       call[c].begun <= call[c].ref

\* Only a call that has begun writes a block reference into an object, its own.
RefOK(o) ==
  requested[o].ref = Absent /\ objects[o].ref # Absent =>
    /\ o \in Calls /\ call[o].at # "idle"
    /\ call[o].begun <= objects[o].ref

DateInv ==
  /\ \A c \in Calls : DateOK(c)
  /\ \A o \in Objects : RefOK(o)

\* A transaction of the contract factory.
OfDeployment(t) == t.origin = Owner /\ t.clauses \in Calls /\ call[t.clauses].deploys

DeploymentInv ==
  /\ \A c \in Calls : call[c].deploys =>
       call[c].at # "idle" /\ call[c].object = c /\ call[c].account = Owner
  /\ deployed # NoDeployment => OfDeployment(deployed)
  /\ \A w \in Waiters :
       /\ waiter[w].at \in {"waiting", "done"} => OfDeployment(waiter[w].for)
       /\ waiter[w].at = "done" => [transaction |-> waiter[w].for, reverted |-> FALSE] \in mined

SInv == IInv /\ DateInv /\ DeploymentInv

LEMMA InitSInv == Init => DateInv /\ DeploymentInv
<1> SUFFICES ASSUME Init PROVE DateInv /\ DeploymentInv
  OBVIOUS
<1>1. \A c \in Calls : call[c] = Idle(c)
  BY DEF Init
<1>2. DateInv
  <2>1. ASSUME NEW c \in Calls PROVE DateOK(c)
    <3>1. call[c].at = "idle" /\ call[c].begun = 0
      <4>1. Idle(c).at = "idle" /\ Idle(c).begun = 0
        BY DEF Idle
      <4> QED
        BY <1>1, <4>1
    <3>2. best = 0 /\ "idle" \notin {"ref"} \union Signing
      BY DEF Init, Signing
    <3> QED
      BY <3>1, <3>2 DEF DateOK
  <2>2. \A o \in Objects : RefOK(o)
    BY DEF Init, RefOK
  <2> QED
    BY <2>1, <2>2 DEF DateInv
<1>3. DeploymentInv
  BY <1>1 DEF Init, Idle, DeploymentInv
<1> QED
  BY <1>2, <1>3

\* A call goes on: for the same account, on the same object, begun when it was.
GoesOn(c) ==
  /\ \A d \in Calls \ {c} : call'[d] = call[d]
  /\ call'[c].at # "idle"
  /\ call'[c].object = call[c].object
  /\ call'[c].account = call[c].account
  /\ call'[c].begun = call[c].begun
  /\ call'[c].deploys = call[c].deploys

\* How a record given to a call shows in the next state.
LEMMA Became ==
  ASSUME TypeOK, NEW c \in Calls, NEW r, Becomes(c, r)
  PROVE  call'[c] = r /\ \A d \in Calls \ {c} : call'[d] = call[d]
BY DEF TypeOK, Becomes

LEMMA GoesOnAs ==
  ASSUME TypeOK, NEW c \in Calls, NEW r, Becomes(c, r), r.at # "idle",
         r.object = call[c].object, r.account = call[c].account,
         r.begun = call[c].begun, r.deploys = call[c].deploys
  PROVE  GoesOn(c) /\ call'[c] = r
BY Became DEF GoesOn

LEMMA GoesOnAt ==
  ASSUME TypeOK, NEW c \in Calls, NEW place, place # "idle", At(c, place)
  PROVE  GoesOn(c) /\ call'[c].at = place /\ call'[c].ref = call[c].ref
<1>1. call[c] \in Call
  BY DEF TypeOK
<1> QED
  BY <1>1, Became DEF At, Call, GoesOn

\* While a call goes on, the deployments are what they were.
LEMMA GoesOnDeployments ==
  ASSUME TypeOK, DeploymentInv, NEW c \in Calls, GoesOn(c), UNCHANGED <<waiter, deployed, mined>>
  PROVE  DeploymentInv'
<1>1. \A t : OfDeployment(t) => OfDeployment(t)'
  BY DEF OfDeployment, GoesOn
<1>2. \A d \in Calls : call'[d].deploys =>
        call'[d].at # "idle" /\ call'[d].object = d /\ call'[d].account = Owner
  BY DEF DeploymentInv, GoesOn
<1> QED
  BY <1>1, <1>2 DEF DeploymentInv

\* The dates of the other calls, and of the objects that nobody wrote a reference into.
LEMMA GoesOnDates ==
  ASSUME DateInv, NEW c \in Calls, GoesOn(c), DateOK(c)', UNCHANGED <<requested, best>>,
         \A o \in Objects : objects'[o].ref = objects[o].ref \/ RefOK(o)'
  PROVE  DateInv'
<1>1. ASSUME NEW d \in Calls \ {c} PROVE DateOK(d)'
  BY <1>1 DEF DateInv, DateOK, GoesOn
<1>2. ASSUME NEW o \in Objects, objects'[o].ref = objects[o].ref PROVE RefOK(o)'
  BY <1>2 DEF DateInv, RefOK, GoesOn
<1> QED
  BY <1>1, <1>2 DEF DateInv

\* A call on its way to the first question, which dates nothing.
LEMMA UndatedStep ==
  ASSUME TypeOK, DateInv, DeploymentInv, NEW c \in Calls, GoesOn(c),
         call'[c].at \notin {"ref"} \union Signing,
         UNCHANGED <<requested, best, waiter, deployed, mined>>,
         \A o \in Objects : objects'[o].ref = objects[o].ref \/ RefOK(o)'
  PROVE  DateInv' /\ DeploymentInv'
<1>1. DateOK(c)'
  BY DEF DateInv, DateOK, GoesOn
<1> QED
  BY <1>1, GoesOnDeployments, GoesOnDates

\* A call that ends keeps only whether it was a deployment.
LEMMA EndDates ==
  ASSUME TypeOK, DateInv, DeploymentInv, NEW c \in Calls, NEW place \in Ended, Ends(c, place),
         UNCHANGED <<objects, requested, best, waiter, mined>>,
         deployed' = deployed \/ OfDeployment(deployed)'
  PROVE  DateInv' /\ DeploymentInv'
<1>1. /\ call'[c].at = place /\ call'[c].object = c /\ call'[c].account = Owner
      /\ call'[c].begun = 0 /\ call'[c].deploys = call[c].deploys
      /\ \A d \in Calls \ {c} : call'[d] = call[d]
  <2> DEFINE r == [Idle(c) EXCEPT !.at = place, !.deploys = call[c].deploys]
  <2>1. Becomes(c, r)
    BY DEF Ends
  <2>2. /\ r.at = place /\ r.object = c /\ r.account = Owner /\ r.begun = 0
        /\ r.deploys = call[c].deploys
    BY DEF Idle
  <2> HIDE DEF r
  <2> QED
    BY <2>1, <2>2, Became
<1>2. place \notin {"idle", "ref"} \union Signing
  BY DEF Ended, Signing
<1>3. \A o \in Objects : objects[o].ref \in Blocks \union {Absent}
  BY DEF TypeOK, Request
<1>4. DateInv'
  <2>1. \A d \in Calls : DateOK(d)'
    BY <1>1, <1>2 DEF DateInv, DateOK, TypeOK, Blocks
  <2>2. \A o \in Objects : RefOK(o)'
    BY <1>1, <1>2, <1>3 DEF DateInv, RefOK, Blocks
  <2> QED
    BY <2>1, <2>2 DEF DateInv
<1>5. DeploymentInv'
  <2>1. \A t : OfDeployment(t) => OfDeployment(t)'
    BY <1>1 DEF OfDeployment
  <2>2. \A d \in Calls : call'[d].deploys =>
          call'[d].at # "idle" /\ call'[d].object = d /\ call'[d].account = Owner
    BY <1>1, <1>2 DEF DeploymentInv
  <2> QED
    BY <2>1, <2>2 DEF DeploymentInv
<1> QED
  BY <1>4, <1>5

-----------------------------------------------------------------------------
\* A call begins, at the best block there is.
LEMMA BeginDates ==
  ASSUME SInv, NEW c \in Calls, NEW o \in Requests \union {c}, NEW account,
         Begin(c, o, account), UNCHANGED <<wallet, objects, requested, waiter, deployed, node>>
  PROVE  DateInv' /\ DeploymentInv'
<1>1. call[c] \in Call /\ call[c].at = "idle" /\ ~ call[c].deploys
  BY DEF SInv, IInv, TypeOK, DeploymentInv, Begin
<1>2. /\ call'[c].at = "check" /\ call'[c].begun = best /\ ~ call'[c].deploys
      /\ \A d \in Calls \ {c} : call'[d] = call[d]
  <2> DEFINE r == [call[c] EXCEPT !.at = "check", !.object = o, !.account = account,
                                  !.begun = best]
  <2>1. Becomes(c, r)
    BY DEF Begin
  <2>2. r.at = "check" /\ r.begun = best /\ ~ r.deploys
    BY <1>1 DEF Call
  <2> HIDE DEF r
  <2> QED
    BY <2>1, <2>2, Became DEF SInv, IInv
<1>3. DateInv'
  <2>1. \A d \in Calls : DateOK(d)'
    BY <1>2 DEF SInv, IInv, TypeOK, Blocks, DateInv, DateOK, Signing, node
  <2>2. \A p \in Objects : RefOK(p)'
    BY <1>1, <1>2 DEF SInv, DateInv, RefOK
  <2> QED
    BY <2>1, <2>2 DEF DateInv
<1>4. DeploymentInv'
  <2>1. \A t : OfDeployment(t) => OfDeployment(t)'
    BY <1>1, <1>2 DEF OfDeployment
  <2>2. \A d \in Calls : call'[d].deploys =>
          call'[d].at # "idle" /\ call'[d].object = d /\ call'[d].account = Owner
    BY <1>2 DEF SInv, DeploymentInv
  <2> QED
    BY <2>1, <2>2 DEF SInv, DeploymentInv, node
<1> QED
  BY <1>3, <1>4

LEMMA StartDeploymentDates ==
  ASSUME SInv, NEW c \in Calls, NEW options \in Options, StartDeployment(c, options)
  PROVE  DateInv' /\ DeploymentInv'
<1> USE DEF StartDeployment
<1>1. call[c] \in Call /\ call[c].at = "idle" /\ call[c].object = c /\ ~ call[c].deploys
  BY DEF SInv, IInv, TypeOK, RecordOK, DeploymentInv
<1>2. /\ call'[c].at = "estimate" /\ call'[c].begun = best /\ call'[c].deploys
      /\ call'[c].object = c /\ call'[c].account = Owner
      /\ \A d \in Calls \ {c} : call'[d] = call[d]
  <2> DEFINE r == [call[c] EXCEPT !.at = "estimate", !.deploys = TRUE, !.plans = TRUE,
                                  !.account = Owner, !.begun = best]
  <2>1. Becomes(c, r)
    OBVIOUS
  <2>2. r.at = "estimate" /\ r.begun = best /\ r.deploys /\ r.object = c /\ r.account = Owner
    BY <1>1 DEF Call
  <2> HIDE DEF r
  <2> QED
    BY <2>1, <2>2, Became DEF SInv, IInv
<1>3. /\ objects'[c] = options /\ requested'[c] = options
      /\ \A o \in Objects \ {c} : objects'[o] = objects[o] /\ requested'[o] = requested[o]
  BY DEF SInv, IInv, TypeOK, Objects
<1>4. DateInv'
  <2>1. DateOK(c)'
    BY <1>2 DEF SInv, IInv, TypeOK, Blocks, DateOK, Signing, node
  <2>2. ASSUME NEW d \in Calls \ {c} PROVE DateOK(d)'
    <3>1. call[d].object # c /\ call[d].object \in Objects
      BY <1>1, <2>2, SendingAssumption DEF SInv, IInv, RecordOK, Objects
    <3> QED
      BY <1>2, <1>3, <2>2, <3>1 DEF SInv, DateInv, DateOK, node
  <2>3. \A o \in Objects : RefOK(o)'
    BY <1>1, <1>2, <1>3 DEF SInv, DateInv, RefOK
  <2> QED
    BY <2>1, <2>2, <2>3 DEF DateInv
<1>5. DeploymentInv'
  <2>1. \A t : OfDeployment(t) => OfDeployment(t)'
    BY <1>2 DEF OfDeployment
  <2>2. \A d \in Calls : call'[d].deploys =>
          call'[d].at # "idle" /\ call'[d].object = d /\ call'[d].account = Owner
    BY <1>2 DEF SInv, DeploymentInv
  <2> QED
    BY <2>1, <2>2 DEF SInv, DeploymentInv, node
<1> QED
  BY <1>4, <1>5

\* populateCall and the estimation of gas, whatever they write into the object.
LEMMA PopulatedDates ==
  ASSUME SInv, NEW c \in Calls, Populated(c), \A o \in Objects : objects'[o].ref = objects[o].ref,
         UNCHANGED <<requested, best, waiter, deployed, mined>>
  PROVE  DateInv' /\ DeploymentInv'
<1>1. CASE At(c, "recheck") \/ At(c, "estimate")
  BY <1>1, GoesOnAt, UndatedStep DEF SInv, IInv, Signing
<1>2. CASE Becomes(c, [call[c] EXCEPT !.at = "genesis", !.gas = OfObject(c).gas])
  <2> DEFINE r == [call[c] EXCEPT !.at = "genesis", !.gas = OfObject(c).gas]
  <2>1. /\ r.at = "genesis" /\ r.object = call[c].object /\ r.account = call[c].account
        /\ r.begun = call[c].begun /\ r.deploys = call[c].deploys
    BY DEF SInv, IInv, TypeOK, Call
  <2> HIDE DEF r
  <2>2. GoesOn(c) /\ call'[c].at = "genesis"
    BY <1>2, <2>1, GoesOnAs DEF SInv, IInv, r
  <2> QED
    BY <2>2, UndatedStep DEF SInv, IInv, Signing
<1> QED
  BY <1>1, <1>2 DEF Populated

LEMMA PopulateDates ==
  ASSUME SInv, NEW c \in Calls, Check(c) \/ Name(c) \/ EstimateGas(c)
  PROVE  DateInv' /\ DeploymentInv'
<1>1. CASE Check(c)
  <2>1. UNCHANGED <<objects, requested, best, waiter, deployed, mined>>
    BY <1>1 DEF Check, node
  <2>2. CASE At(c, "name")
    BY <2>1, <2>2, GoesOnAt, UndatedStep DEF SInv, IInv, Signing
  <2>3. CASE Populated(c)
    BY <2>1, <2>3, PopulatedDates
  <2>4. CASE Ends(c, "failed")
    BY <2>1, <2>4, EndDates DEF SInv, IInv, Ended
  <2> QED
    BY <1>1, <2>2, <2>3, <2>4 DEF Check
<1>2. CASE Name(c)
  <2>1. \A o \in Objects : objects'[o].ref = objects[o].ref
    BY <1>2 DEF Name, SInv, IInv, TypeOK, Request
  <2> QED
    BY <1>2, <2>1, PopulatedDates DEF Name, node
<1>3. CASE EstimateGas(c)
  <2>1. PICK gas \in Gas : Becomes(c, [call[c] EXCEPT !.at = "genesis", !.gas = gas])
    BY <1>3 DEF EstimateGas
  <2> DEFINE r == [call[c] EXCEPT !.at = "genesis", !.gas = gas]
  <2>2. /\ r.at = "genesis" /\ r.object = call[c].object /\ r.account = call[c].account
        /\ r.begun = call[c].begun /\ r.deploys = call[c].deploys
    BY DEF SInv, IInv, TypeOK, Call
  <2> HIDE DEF r
  <2>3. GoesOn(c) /\ call'[c].at = "genesis"
    BY <2>1, <2>2, GoesOnAs DEF SInv, IInv, r
  <2> QED
    BY <1>3, <2>3, UndatedStep DEF SInv, IInv, Signing, EstimateGas, node
<1> QED
  BY <1>1, <1>2, <1>3

\* A body dates the object of a deployment, or the transaction that is signed.
LEMMA BuiltDates ==
  ASSUME SInv, NEW c \in Calls, NEW ref \in Blocks, Built(c, ref),
         call[c].at \in {"genesis", "ref"},
         requested[call[c].object].ref = Absent => call[c].begun <= ref,
         UNCHANGED <<requested, best, waiter, deployed, mined>>
  PROVE  DateInv' /\ DeploymentInv'
<1>1. call[c] \in Call /\ TypeOK
  BY DEF SInv, IInv, TypeOK
<1>2. CASE call[c].plans
  <2> DEFINE r == [call[c] EXCEPT !.at = "check", !.plans = FALSE, !.asked = 0]
  <2>1. Becomes(c, r)
    BY <1>2 DEF Built
  <2>9. /\ r.at = "check" /\ r.object = call[c].object /\ r.account = call[c].account
        /\ r.begun = call[c].begun /\ r.deploys = call[c].deploys
    BY <1>1 DEF Call
  <2> HIDE DEF r
  <2>2. GoesOn(c) /\ call'[c].at = "check"
    BY <1>1, <2>1, <2>9, GoesOnAs
  <2>3. call[c].object = c /\ c \in Objects
    BY <1>2 DEF SInv, IInv, RecordOK, Objects
  <2>4. objects' = [objects EXCEPT ![c] = Filled(c, ref)]
    BY <1>2 DEF Built
  <2>5. objects'[c].ref = ref /\ \A o \in Objects \ {c} : objects'[o] = objects[o]
    BY <1>1, <2>3, <2>4 DEF TypeOK, Filled
  <2>6. RefOK(c)'
    BY <2>2, <2>3, <2>5 DEF RefOK, GoesOn
  <2> QED
    BY <2>2, <2>5, <2>6, UndatedStep DEF SInv, IInv, Signing
<1>3. CASE ~ call[c].plans
  <2>1. UNCHANGED objects
    BY <1>3 DEF Built
  <2>2. CASE Ends(c, "failed")
    BY <2>1, <2>2, EndDates DEF SInv, IInv, Ended
  <2>3. CASE Becomes(c, [call[c] EXCEPT !.at = SignedBy, !.asked = 0, !.ref = ref,
                                        !.nonce = NonceOf(c), !.payer = PayerFor(SignedBy)])
    <3>1. SignedBy \notin {"idle", "ref"}
      BY <1>1 DEF SignedBy, TypeOK, Payers
    <3> DEFINE r == [call[c] EXCEPT !.at = SignedBy, !.asked = 0, !.ref = ref,
                                    !.nonce = NonceOf(c), !.payer = PayerFor(SignedBy)]
    <3>5. Becomes(c, r)
      BY <2>3
    <3>6. /\ r.at = SignedBy /\ r.ref = ref
          /\ r.object = call[c].object /\ r.account = call[c].account
          /\ r.begun = call[c].begun /\ r.deploys = call[c].deploys
      BY <1>1 DEF Call
    <3> HIDE DEF r
    <3>2. GoesOn(c) /\ call'[c].at = SignedBy /\ call'[c].ref = ref
      BY <1>1, <3>1, <3>5, <3>6, GoesOnAs
    <3>3. DateOK(c)'
      BY <3>1, <3>2 DEF DateOK, GoesOn, SInv, DateInv
    <3> QED
      BY <2>1, <3>2, <3>3, GoesOnDates, GoesOnDeployments DEF SInv, IInv
  <2> QED
    BY <1>3, <2>2, <2>3 DEF Built
<1> QED
  BY <1>2, <1>3

\* The best block is asked for after the call began, and no answer is older than the question.
LEMMA BodyDates ==
  ASSUME SInv, NEW c \in Calls, GenesisBlock(c) \/ BestBlockRef(c)
  PROVE  DateInv' /\ DeploymentInv'
<1>1. /\ call[c] \in Call /\ TypeOK /\ call[c].object \in Objects
      /\ call[c].begun <= best /\ best \in Blocks
  BY DEF SInv, IInv, TypeOK, Call, DateInv, DateOK
<1>2. CASE BestBlockRef(c)
  <2>1. PICK ref \in call[c].asked .. best : Built(c, ref)
    BY <1>2 DEF BestBlockRef
  <2>2. /\ call[c].at = "ref" /\ call[c].begun <= call[c].asked
        /\ call[c].begun \in Blocks /\ call[c].asked \in Blocks
    BY <1>1, <1>2 DEF BestBlockRef, SInv, DateInv, DateOK, Call
  <2>3. ref \in Blocks /\ call[c].begun <= ref
    BY <1>1, <2>1, <2>2, SendingAssumption DEF Blocks
  <2> QED
    BY <1>2, <2>1, <2>2, <2>3, BuiltDates DEF BestBlockRef, node
<1>3. CASE GenesisBlock(c) /\ OfObject(c).ref = Absent
  <2> DEFINE r == [call[c] EXCEPT !.at = "ref", !.asked = best]
  <2>1. Becomes(c, r)
    BY <1>3 DEF GenesisBlock
  <2>5. /\ r.at = "ref" /\ r.asked = best /\ r.object = call[c].object /\ r.account = call[c].account
        /\ r.begun = call[c].begun /\ r.deploys = call[c].deploys
    BY <1>1 DEF Call
  <2> HIDE DEF r
  <2>2. GoesOn(c) /\ call'[c].at = "ref" /\ call'[c].asked = best
    BY <1>1, <2>1, <2>5, GoesOnAs
  <2>3. UNCHANGED <<objects, requested, best, waiter, deployed, mined>>
    BY <1>3 DEF GenesisBlock, node
  <2>4. DateOK(c)'
    BY <1>1, <2>2, <2>3 DEF DateOK, GoesOn, Signing
  <2> QED
    BY <2>2, <2>3, <2>4, GoesOnDates, GoesOnDeployments DEF SInv, IInv
<1>4. CASE GenesisBlock(c) /\ OfObject(c).ref # Absent
  <2>1. OfObject(c).ref \in Blocks
    BY <1>1, <1>4 DEF OfObject, TypeOK, Request
  <2>2. ASSUME requested[call[c].object].ref = Absent PROVE call[c].begun <= OfObject(c).ref
    <3>1. RefOK(call[c].object)
      BY <1>1 DEF SInv, DateInv
    <3>2. call[c].object \in Calls
      BY <1>4, <2>2, <3>1 DEF RefOK, OfObject
    <3>3. call[c].object = c
      BY <3>2, SendingAssumption DEF SInv, IInv, RecordOK
    <3> QED
      BY <1>4, <2>2, <3>1, <3>3 DEF RefOK, OfObject
  <2>3. Built(c, OfObject(c).ref) /\ call[c].at = "genesis"
    BY <1>4 DEF GenesisBlock
  <2>4. UNCHANGED <<requested, best, waiter, deployed, mined>>
    BY <1>4 DEF GenesisBlock, node
  <2> QED
    BY <2>1, <2>2, <2>3, <2>4, BuiltDates
<1> QED
  BY <1>2, <1>3, <1>4

\* A signed transaction keeps its date until the call ends.
LEMMA PostDates ==
  ASSUME SInv, NEW c \in Calls, DelegatorSigns(c) \/ NodeAccepts(c)
  PROVE  DateInv' /\ DeploymentInv'
<1>1. call[c] \in Call /\ TypeOK /\ call[c].at \in {"sponsor", "post"}
  BY DEF SInv, IInv, TypeOK, DelegatorSigns, NodeAccepts
<1>2. UNCHANGED <<objects, requested, best, waiter, deployed, mined>>
  BY DEF DelegatorSigns, NodeAccepts, node
<1>3. CASE Ends(c, "failed")
  BY <1>2, <1>3, EndDates DEF SInv, IInv, Ended
<1>4. ASSUME NEW r, Becomes(c, r), r.at \in {"post", "reply"},
             r.object = call[c].object, r.account = call[c].account,
             r.begun = call[c].begun, r.deploys = call[c].deploys, r.ref = call[c].ref
      PROVE  DateInv' /\ DeploymentInv'
  <2>1. GoesOn(c) /\ call'[c] = r
    BY <1>1, <1>4, GoesOnAs
  <2>2. DateOK(c)'
    BY <1>1, <1>2, <1>4, <2>1 DEF SInv, DateInv, DateOK, Signing
  <2> QED
    BY <1>1, <1>2, <2>1, <2>2, GoesOnDates, GoesOnDeployments DEF SInv
<1>5. CASE Becomes(c, [call[c] EXCEPT !.at = "post", !.payer = "url"])
  <2> DEFINE r == [call[c] EXCEPT !.at = "post", !.payer = "url"]
  <2>1. /\ r.at = "post" /\ r.object = call[c].object /\ r.account = call[c].account
        /\ r.begun = call[c].begun /\ r.deploys = call[c].deploys /\ r.ref = call[c].ref
    BY <1>1 DEF Call
  <2>2. Becomes(c, r)
    BY <1>5
  <2> HIDE DEF r
  <2> QED
    BY <1>4, <2>1, <2>2
<1>6. CASE At(c, "reply")
  <2> DEFINE r == [call[c] EXCEPT !.at = "reply"]
  <2>1. /\ r.at = "reply" /\ r.object = call[c].object /\ r.account = call[c].account
        /\ r.begun = call[c].begun /\ r.deploys = call[c].deploys /\ r.ref = call[c].ref
    BY <1>1 DEF Call
  <2>2. Becomes(c, r)
    BY <1>6 DEF At
  <2> HIDE DEF r
  <2> QED
    BY <1>4, <2>1, <2>2
<1> QED
  BY <1>3, <1>5, <1>6 DEF DelegatorSigns, NodeAccepts

\* What the contract factory keeps is the transaction of a deployment.
LEMMA SentDates ==
  ASSUME SInv, NEW c \in Calls, Sent(c)
  PROVE  DateInv' /\ DeploymentInv'
<1>1. Ends(c, "done") /\ UNCHANGED <<objects, requested, best, waiter, mined>>
  BY DEF Sent, node
<1>2. call'[c].deploys = call[c].deploys
  <2> DEFINE r == [Idle(c) EXCEPT !.at = "done", !.deploys = call[c].deploys]
  <2>1. Becomes(c, r)
    BY <1>1 DEF Ends
  <2>2. r.deploys = call[c].deploys
    BY DEF Idle
  <2> HIDE DEF r
  <2> QED
    BY <2>1, <2>2, Became DEF SInv, IInv
<1>3. ASSUME call[c].deploys PROVE OfDeployment(deployed)'
  <2>1. deployed' = Transaction(c)
    BY <1>3 DEF Sent
  <2>2. deployed'.origin = call[c].account /\ deployed'.clauses = call[c].object
    BY <2>1 DEF Transaction
  <2>3. call[c].object = c /\ call[c].account = Owner
    BY <1>3 DEF SInv, DeploymentInv
  <2> QED
    BY <1>2, <1>3, <2>2, <2>3 DEF OfDeployment
<1>4. ~ call[c].deploys => deployed' = deployed
  BY DEF Sent
<1> QED
  BY <1>1, <1>3, <1>4, EndDates DEF SInv, IInv, Ended

\* A wait takes up what the factory has deployed, and ends well with a block that
\* holds it, not reverted.
LEMMA WaiterDates ==
  ASSUME SInv, NEW w \in Waiters, WaitForDeployment(w) \/ Receipt(w) \/ ReceiptFails(w)
  PROVE  DateInv' /\ DeploymentInv'
<1>1. UNCHANGED <<wallet, objects, requested, call, deployed, node>>
  BY DEF WaitForDeployment, Receipt, ReceiptFails
<1>2. DateInv'
  BY <1>1 DEF SInv, DateInv, DateOK, RefOK, node
<1>3. \A t : OfDeployment(t) <=> OfDeployment(t)'
  BY <1>1 DEF OfDeployment
<1> DEFINE Good(r) == /\ r.at \in {"waiting", "done"} => OfDeployment(r.for)
                      /\ r.at = "done" => [transaction |-> r.for, reverted |-> FALSE] \in mined
<1>4. Good(waiter[w])
  BY DEF SInv, DeploymentInv
<1>5. \A x \in Waiters \ {w} : waiter'[x] = waiter[x]
  BY DEF SInv, IInv, TypeOK, WaitForDeployment, Receipt, ReceiptFails, WaitFails
<1>6. Good(waiter'[w])
  <2>1. CASE WaitForDeployment(w)
    <3>1. /\ waiter'[w].for = deployed /\ waiter'[w].at \in {"failed", "waiting"}
          /\ deployed = NoDeployment => waiter'[w].at = "failed"
      BY <2>1 DEF WaitForDeployment, SInv, IInv, TypeOK
    <3> QED
      BY <3>1 DEF SInv, DeploymentInv
  <2>2. CASE WaitFails(w)
    BY <2>2 DEF WaitFails, SInv, IInv, TypeOK
  <2>3. CASE Receipt(w) /\ ~ WaitFails(w)
    <3>1. PICK m \in mined : /\ m.transaction = waiter[w].for
                             /\ ~ m.reverted
                             /\ waiter' = [waiter EXCEPT ![w].at = "done"]
      BY <2>3 DEF Receipt
    <3>2. m \in [transaction : Transactions, reverted : BOOLEAN]
      BY DEF SInv, IInv, TypeOK
    <3>3. m = [transaction |-> waiter[w].for, reverted |-> FALSE]
      <4>1. m.reverted \in BOOLEAN /\ m = [transaction |-> m.transaction, reverted |-> m.reverted]
        BY <3>2
      <4>2. m.reverted = FALSE
        BY <3>1, <4>1, Zenon
      <4> QED
        BY <3>1, <4>1, <4>2
    <3>4. waiter'[w].for = waiter[w].for /\ waiter[w].at = "waiting" /\ m \in mined
      BY <2>3, <3>1 DEF Receipt, SInv, IInv, TypeOK
    <3> QED
      BY <1>4, <3>3, <3>4
  <2> QED
    BY <2>1, <2>2, <2>3 DEF ReceiptFails
<1>7. \A x \in Waiters : Good(waiter'[x])
  BY <1>5, <1>6 DEF SInv, DeploymentInv
<1> QED
  BY <1>1, <1>2, <1>3, <1>7 DEF SInv, DeploymentInv, node

LEMMA NextSInv == SInv /\ [Next]_vars => SInv'
<1> SUFFICES ASSUME SInv, [Next]_vars PROVE DateInv' /\ DeploymentInv'
  BY NextIInv DEF SInv
<1>1. ASSUME NEW c \in Calls, Start(c) PROVE DateInv' /\ DeploymentInv'
  <2>1. ASSUME NEW place \in Ended, Ends(c, place),
               UNCHANGED <<wallet, objects, requested, waiter, deployed, node>>
        PROVE  DateInv' /\ DeploymentInv'
    BY <2>1, EndDates DEF SInv, IInv, node
  <2>2. ASSUME NEW r \in Requests, EthSendTransaction(c, r) PROVE DateInv' /\ DeploymentInv'
    BY <2>1, <2>2, BeginDates DEF EthSendTransaction, Ended
  <2>3. ASSUME NEW r \in Requests, NEW account \in Accounts, SendTransaction(c, r, account)
        PROVE  DateInv' /\ DeploymentInv'
    BY <2>3, BeginDates DEF SendTransaction
  <2>4. ASSUME ExecuteTransaction(c) PROVE DateInv' /\ DeploymentInv'
    BY <2>4, BeginDates DEF ExecuteTransaction
  <2>5. ASSUME NEW options \in Options, StartDeployment(c, options)
        PROVE  DateInv' /\ DeploymentInv'
    BY <2>5, StartDeploymentDates
  <2> QED
    BY <1>1, <2>2, <2>3, <2>4, <2>5 DEF Start
<1>2. ASSUME NEW c \in Calls, Step(c) PROVE DateInv' /\ DeploymentInv'
  BY <1>2, PopulateDates, BodyDates, PostDates, SentDates DEF Step
<1>3. ASSUME NEW c \in Calls, RequestFails(c) PROVE DateInv' /\ DeploymentInv'
  BY <1>3, EndDates DEF RequestFails, SInv, IInv, Ended, node
<1>4. CASE NewBlock
  <2>1. /\ best' = best + 1 /\ mined \subseteq mined'
        /\ UNCHANGED <<wallet, objects, requested, call, waiter, deployed>>
    BY <1>4 DEF NewBlock
  <2>2. \A c \in Calls : DateOK(c)'
    BY <2>1 DEF SInv, IInv, TypeOK, Blocks, Call, DateInv, DateOK
  <2>3. \A o \in Objects : RefOK(o)'
    BY <2>1 DEF SInv, DateInv, RefOK
  <2>4. DeploymentInv'
    BY <2>1 DEF SInv, DeploymentInv, OfDeployment
  <2> QED
    BY <2>2, <2>3, <2>4 DEF DateInv
<1>5. CASE UNCHANGED vars
  BY <1>5 DEF vars, SInv, DateInv, DateOK, RefOK, DeploymentInv, OfDeployment
<1> QED
  BY <1>1, <1>2, <1>3, <1>4, <1>5, WaiterDates DEF Next

\* The references of all signed transactions are dated, and all waits are for
\* transactions of the contract factory.
LEMMA SInvHolds == Spec => []SInv
  BY InitIInv, InitSInv, NextSInv, PTL DEF Spec, SInv

\* Unless the caller gave an older one, the block a transaction refers to is not
\* older than the call that signed it, in a deployment that builds two bodies too.
THEOREM RefsAreFresh == Spec => []FreshBlockRef
<1>1. SInv => FreshBlockRef
  <2> SUFFICES ASSUME SInv, NEW c \in Calls, call[c].at \in {"post", "reply"},
                      requested[call[c].object].ref = Absent
               PROVE  call[c].ref >= call[c].begun
    BY DEF FreshBlockRef
  <2>1. call[c].begun <= call[c].ref
    BY DEF SInv, DateInv, DateOK, Signing
  <2>2. call[c].ref \in Blocks /\ call[c].begun \in Blocks
    BY DEF SInv, IInv, TypeOK, Call, RecordOK, Signing
  <2> QED
    BY <2>1, <2>2 DEF Blocks
<1> QED
  BY <1>1, SInvHolds, PTL

\* A contract that waitForDeployment gives exists, whichever of several deployments
\* of one factory it belongs to.
THEOREM WaitsGiveContracts == Spec => []WaitGivesContract
<1>1. SInv => WaitGivesContract
  BY DEF SInv, DeploymentInv, OfDeployment, WaitGivesContract
<1> QED
  BY <1>1, SInvHolds, PTL
==============================================================================
