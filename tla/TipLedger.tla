------------------------------ MODULE TipLedger ------------------------------
(***************************************************************************)
(* What the tip pool of one shift promises, whatever requests overlap: a   *)
(* total is declared, may be corrected until it is distributed, is split   *)
(* once among some employees, to the cent, and after that only moves       *)
(* between those employees, its sum unchanged.                             *)
(***************************************************************************)
EXTENDS Integers, Functions

CONSTANT Payees         \* who may receive a share

VARIABLES
    status,             \* of the pool
    total,              \* the declared total, in cents
    shares              \* cents per payee, the empty function until the split

ledgerVars == <<status, total, shares>>

NoShares == [p \in {} |-> 0]

Init ==
    /\ status = "NONE"
    /\ total = 0
    /\ shares = NoShares

Declare ==
    /\ status = "NONE"
    /\ status' = "DECLARED"
    /\ total' \in Nat \ {0}
    /\ UNCHANGED shares

Correct ==
    /\ status = "DECLARED"
    /\ total' \in Nat \ {0}
    /\ UNCHANGED <<status, shares>>

\* All the shares appear in one step, and with the lock of the total.
Split ==
    /\ status = "DECLARED"
    /\ status' = "DISTRIBUTED"
    /\ DOMAIN shares' \in (SUBSET Payees) \ {{}}
    /\ shares' \in [DOMAIN shares' -> Nat]
    /\ SumFunction(shares') = total
    /\ UNCHANGED total

\* POST /tip-pools/:id/distribute locks the pool and pays nobody.
Seal ==
    /\ status = "DECLARED"
    /\ status' = "DISTRIBUTED"
    /\ UNCHANGED <<total, shares>>

Reassign ==
    /\ status = "DISTRIBUTED"
    /\ shares # NoShares
    /\ shares' \in [DOMAIN shares -> Nat]
    /\ SumFunction(shares') = total
    /\ UNCHANGED <<status, total>>

Next == Declare \/ Correct \/ Split \/ Seal \/ Reassign

Spec == Init /\ [][Next]_ledgerVars
=============================================================================
