--------------------------- MODULE SettleKitEscrow ---------------------------
(***************************************************************************)
(* SettleKitEscrow.sol and AgentReputationBond.sol: USDC held between two  *)
(* parties and an arbiter until it goes to one of the two.                 *)
(*                                                                         *)
(* A bond is an escrow that cannot be disputed: its broker funds it as the *)
(* buyer, slashing it to the client releases it to the seller, and giving  *)
(* it back to the broker refunds it.  In both contracts the side that      *)
(* loses, or the arbiter, resolves.  So one table models both, and each    *)
(* contract has a balance of its own, beyond which a transfer reverts.     *)
(***************************************************************************)
EXTENDS Naturals

CONSTANTS
  EscrowIds, BondIds,
  People,           \* buyers, sellers and arbiters
  NoPerson,         \* address(0), of a deal never made
  Prices            \* amounts

ASSUME EscrowNamesAssumption == EscrowIds \cap BondIds = {}
ASSUME EscrowPricesAssumption == Prices \subseteq Nat \ {0}

VARIABLES
  deals,            \* _escrows, _bonds
  balance,          \* token.balanceOf, per contract
  toSeller, toBuyer \* history: USDC each deal paid out

escrowVars == <<deals, balance, toSeller, toBuyer>>

Ids == EscrowIds \cup BondIds
Contracts == {"escrow", "bond"}
Home(id) == IF id \in EscrowIds THEN "escrow" ELSE "bond"

Deal == [buyer : People \cup {NoPerson}, seller : People \cup {NoPerson},
         arbiter : People \cup {NoPerson}, amount : Nat,
         state : {"None", "Funded", "Disputed", "Released", "Refunded"}]
Live == {id \in Ids : deals[id].state \in {"Funded", "Disputed"}}

EscrowTypeOK ==
  /\ deals \in [Ids -> Deal]
  /\ balance \in [Contracts -> Nat]
  /\ toSeller \in [Ids -> Nat] /\ toBuyer \in [Ids -> Nat]

EscrowInit ==
  /\ deals = [id \in Ids |->
       [buyer |-> NoPerson, seller |-> NoPerson, arbiter |-> NoPerson, amount |-> 0, state |-> "None"]]
  /\ balance = [c \in Contracts |-> 0]
  /\ toSeller = [id \in Ids |-> 0]
  /\ toBuyer = [id \in Ids |-> 0]

CreateAndFund(who, id, seller, arbiter, amount) ==
  /\ deals[id].state = "None"
  /\ seller # who
  /\ deals' = [deals EXCEPT ![id] =
       [buyer |-> who, seller |-> seller, arbiter |-> arbiter, amount |-> amount, state |-> "Funded"]]
  /\ balance' = [balance EXCEPT ![Home(id)] = @ + amount]
  /\ UNCHANGED <<toSeller, toBuyer>>

(* Mutant: a deal that was resolved is resolved again. *)
PayAgain(id, state) ==
  /\ deals[id].state # "None"
  /\ deals[id].amount <= balance[Home(id)]
  /\ deals' = [deals EXCEPT ![id].state = state]
  /\ balance' = [balance EXCEPT ![Home(id)] = @ - deals[id].amount]

Pay(id, state) ==
  /\ id \in Live
  /\ deals[id].amount <= balance[Home(id)]
  /\ deals' = [deals EXCEPT ![id].state = state]
  /\ balance' = [balance EXCEPT ![Home(id)] = @ - deals[id].amount]

ReleaseDeal(who, id) ==
  /\ who \in {deals[id].buyer, deals[id].arbiter}
  /\ Pay(id, "Released")
  /\ toSeller' = [toSeller EXCEPT ![id] = @ + deals[id].amount]
  /\ UNCHANGED toBuyer

RefundDeal(who, id) ==
  /\ who \in {deals[id].seller, deals[id].arbiter}
  /\ Pay(id, "Refunded")
  /\ toBuyer' = [toBuyer EXCEPT ![id] = @ + deals[id].amount]
  /\ UNCHANGED toSeller

Dispute(who, id) ==
  /\ id \in EscrowIds /\ deals[id].state = "Funded"
  /\ who \in {deals[id].buyer, deals[id].seller}
  /\ deals' = [deals EXCEPT ![id].state = "Disputed"]
  /\ UNCHANGED <<balance, toSeller, toBuyer>>

EscrowNext ==
  \E who \in People, id \in Ids :
    \/ \E seller \in People, arbiter \in People, amount \in Prices :
         CreateAndFund(who, id, seller, arbiter, amount)
    \/ ReleaseDeal(who, id) \/ RefundDeal(who, id) \/ Dispute(who, id)

EscrowSpec == EscrowInit /\ [][EscrowNext]_escrowVars

-----------------------------------------------------------------------------
(* A deal pays once, all of its amount, to the side its state names: no    *)
(* order of release, refund and dispute pays both or neither.              *)
DealPaysOnce ==
  \A id \in Ids :
    /\ toSeller[id] = (IF deals[id].state = "Released" THEN deals[id].amount ELSE 0)
    /\ toBuyer[id] = (IF deals[id].state = "Refunded" THEN deals[id].amount ELSE 0)
=============================================================================
