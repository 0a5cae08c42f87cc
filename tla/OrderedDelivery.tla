-------------------------- MODULE OrderedDelivery --------------------------
(***************************************************************************)
(* What one slot promises to the consumer of ShredListener::transactions():*)
(* a transaction of the slot is handed over at most once, and a hand-over  *)
(* never goes back in the ledger: everything it contains lies strictly     *)
(* after everything handed over before.  Transactions may be missing (UDP  *)
(* loses shreds); the abstract specification says nothing about when.      *)
(***************************************************************************)
EXTENDS Naturals

CONSTANTS
  Txs,       \* the transactions of the slot
  Position   \* [Txs -> Nat]: where in the ledger a transaction becomes whole

VARIABLE
  delivered  \* [Txs -> Nat]: how many times each transaction was handed over

Init == delivered = [t \in Txs |-> 0]

Deliver(D) ==
  /\ \A t \in D : delivered[t] = 0
  /\ \A t \in D, u \in Txs : delivered[u] # 0 => Position[u] < Position[t]
  /\ delivered' = [t \in Txs |-> IF t \in D THEN 1 ELSE delivered[t]]

Next == \E D \in SUBSET Txs : Deliver(D)

Spec == Init /\ [][Next]_delivered
=============================================================================
