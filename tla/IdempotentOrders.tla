-------------------------- MODULE IdempotentOrders --------------------------
(***************************************************************************)
(* What order execution promises to its callers, with neither processes,   *)
(* nor a database, nor a broker: an idempotency key is claimed once, an    *)
(* order is sent at most once and only under a claim, and the claim is     *)
(* settled at most once, for good.                                         *)
(***************************************************************************)
EXTENDS Naturals

CONSTANT Keys

VARIABLES
  claim,    \* claim[k]: what the ledger says of idempotency key k
  sent      \* sent[k]: how many orders for k the broker has received

vars == <<claim, sent>>

ClaimState == {"free", "claimed", "blocking", "reconciled"}

Init ==
  /\ claim = [k \in Keys |-> "free"]
  /\ sent = [k \in Keys |-> 0]

Claim(k) ==
  /\ claim[k] = "free"
  /\ claim' = [claim EXCEPT ![k] = "claimed"]
  /\ UNCHANGED sent

Send(k) ==
  /\ claim[k] = "claimed"
  /\ sent[k] = 0
  /\ sent' = [sent EXCEPT ![k] = 1]
  /\ UNCHANGED claim

Settle(k) ==
  /\ claim[k] = "claimed"
  /\ \E verdict \in {"blocking", "reconciled"} :
       /\ verdict = "reconciled" => sent[k] = 1
       /\ claim' = [claim EXCEPT ![k] = verdict]
  /\ UNCHANGED sent

Next == \E k \in Keys : Claim(k) \/ Send(k) \/ Settle(k)

Spec == Init /\ [][Next]_vars
=============================================================================
