------------------------- MODULE ExactlyOnceBilling -------------------------
(***************************************************************************)
(* What the billing subsystem promises for one deduction key, whatever the *)
(* order of enqueues, sends, retries, crashes and restarts: the key has a  *)
(* durable row before any money moves, money moves at most once, and a     *)
(* caller is told "deducted" only after it moved.                          *)
(***************************************************************************)
EXTENDS Naturals

CONSTANT Keys       \* idempotency keys

VARIABLES recorded, \* keys with a durable row
          charges,  \* charges[k]: how often the marketplace took credits for k
          confirmed \* keys some caller was told are deducted

vars == <<recorded, charges, confirmed>>

Init ==
    /\ recorded = {}
    /\ charges = [k \in Keys |-> 0]
    /\ confirmed = {}

Record(k) ==
    /\ recorded' = recorded \cup {k}
    /\ UNCHANGED <<charges, confirmed>>

Charge(k) ==
    /\ k \in recorded
    /\ charges[k] = 0
    /\ charges' = [charges EXCEPT ![k] = 1]
    /\ UNCHANGED <<recorded, confirmed>>

Confirm(k) ==
    /\ charges[k] = 1
    /\ confirmed' = confirmed \cup {k}
    /\ UNCHANGED <<recorded, charges>>

Next == \E k \in Keys : Record(k) \/ Charge(k) \/ Confirm(k)

Spec == Init /\ [][Next]_vars
=============================================================================
