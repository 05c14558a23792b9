-------------------------- MODULE BoundedAllocation --------------------------
(***************************************************************************)
(* How a pool is split to the cent: allocateBounded and its loop           *)
(* distributeRemainder (apps/api/src/distribution/distribution-calculator/ *)
(* allocation.ts), the last stage of both the rules and the ML             *)
(* computation, and allocate_cents of the ML service.                      *)
(*                                                                         *)
(* A weight is a score or a blended share; only ratios of weights matter,  *)
(* so it is an integer here, and the 20 digits of Prisma.Decimal are exact.*)
(* An employee is a natural number, its place in the order of employeeId.  *)
(***************************************************************************)
EXTENDS Integers, FiniteSets, Functions

CONSTANTS
    Ids,            \* the employees of the shift, in the order of employeeId
    Pools,          \* the totals, in cents
    Percents,       \* maxSharePercent, in hundredths of a percent
    Weights,
    Minimums        \* minimumPerHour times the hours of an employee, in cents

ASSUME IdsAssumption == Ids \subseteq Nat /\ IsFiniteSet(Ids) /\ Ids # {}
ASSUME PoolsAssumption == Pools \subseteq Nat \ {0}
ASSUME PercentsAssumption == Percents \subseteq 1..10000
ASSUME WeightsAssumption == Weights \subseteq Nat
ASSUME MinimumsAssumption == Minimums \subseteq Nat

VARIABLES
    pool, percent, weight, minimum,     \* the input
    cents,          \* finalCents of each employee
    left,           \* remainingCents
    status          \* of the call

input == <<pool, percent, weight, minimum>>
vars == <<input, cents, left, status>>

TypeOK ==
    /\ pool \in Pools
    /\ percent \in Percents
    /\ weight \in [Ids -> Weights]
    /\ minimum \in [Ids -> Minimums]
    /\ cents \in [Ids -> Nat]
    /\ left \in Nat
    /\ status \in {"new", "rejected", "allocating", "done"}

Init ==
    /\ pool \in Pools
    /\ percent \in Percents
    /\ weight \in [Ids -> Weights]
    /\ minimum \in [Ids -> Minimums]
    /\ cents = [e \in Ids |-> 0]
    /\ left = 0
    /\ status = "new"

-----------------------------------------------------------------------------
Cap == (pool * percent) \div 10000

\* Else invalidWeights, invalidCap, capPreventsFullAllocation, minimumExceedsCap or
\* minimumPoolInsufficient.
Accepted ==
    /\ SumFunction(weight) > 0
    /\ Cap > 0
    /\ Cap * Cardinality(Ids) >= pool
    /\ \A e \in Ids : minimum[e] <= Cap
    /\ SumFunction(minimum) <= pool

Validate ==
    /\ status = "new"
    /\ \/ Accepted /\ status' = "allocating" /\ cents' = minimum
                   /\ left' = pool - SumFunction(minimum)
       \/ ~Accepted /\ status' = "rejected" /\ UNCHANGED <<cents, left>>
    /\ UNCHANGED input

-----------------------------------------------------------------------------
(* One turn of the while loop of distributeRemainder. *)

Open == {e \in Ids : cents[e] < Cap}
OpenWeight == SumFunctionOnSet(weight, Open)

\* An ideal addition is Whole + Fraction / OpenWeight cents.
Whole(e) == (left * weight[e]) \div OpenWeight
Fraction(e) == (left * weight[e]) % OpenWeight

MutAdditional(e) == Whole(e)

Additional(e) == IF Whole(e) < Cap - cents[e] THEN Whole(e) ELSE Cap - cents[e]

\* An order of the employees is the set of its pairs.
ById == {p \in Ids \X Ids : p[1] < p[2]}

MutByFractionIgnored == ById

\* Largest fraction first, then employeeId.
ByFraction ==
    {p \in Ids \X Ids : \/ Fraction(p[1]) > Fraction(p[2])
                        \/ Fraction(p[1]) = Fraction(p[2]) /\ p \in ById}

MutFirst(S, n, before) == {e \in S : Cardinality({f \in S : <<f, e>> \in before}) + 1 < n}

\* The first n elements of S.
First(S, n, before) == {e \in S : Cardinality({f \in S : <<f, e>> \in before}) < n}

Turn == status = "allocating" /\ left > 0

\* Whole cents by weight, up to the cap.
Floored == [e \in Ids |-> cents[e] + IF e \in Open THEN Additional(e) ELSE 0]
Rest == pool - SumFunction(Floored)
Under == {e \in Open : Floored[e] < Cap}

\* Then one cent each, by largest fraction, to those still under the cap.
ProportionalTurn ==
    /\ Turn
    /\ OpenWeight > 0
    /\ Rest > 0 => Under # {}                \* else capPreventsFullAllocation
    /\ LET lucky == First(Under, Rest, ByFraction)
       IN  cents' = [e \in Ids |-> Floored[e] + IF e \in lucky THEN 1 ELSE 0]
    /\ left' = pool - SumFunction(cents')
    /\ UNCHANGED <<input, status>>

\* Nobody under the cap has a weight: one cent each, by employeeId.
CentTurn ==
    /\ Turn
    /\ OpenWeight = 0
    /\ Open # {}                            \* else capPreventsFullAllocation
    /\ LET lucky == First(Open, left, ById)
       IN  cents' = [e \in Ids |-> cents[e] + IF e \in lucky THEN 1 ELSE 0]
    /\ left' = pool - SumFunction(cents')
    /\ UNCHANGED <<input, status>>

Finish ==
    /\ status = "allocating"
    /\ left = 0
    /\ status' = "done"
    /\ UNCHANGED <<input, cents, left>>

Next == Validate \/ ProportionalTurn \/ CentTurn \/ Finish

Spec == Init /\ [][Next]_vars

\* The engine is one synchronous function: once called, it runs.
FairSpec == Spec /\ WF_vars(Next)

-----------------------------------------------------------------------------
(* The ML service's own split. *)

\* distribution_allocation.allocate_cents for a non-zero total weight, by position, with
\* exact shares. The shares are floats in the code, which may order two equal fractions of
\* different weights either way.
AllocateCents(total, w) ==
    LET sum == SumFunction(w)
        whole == [i \in DOMAIN w |-> (total * w[i]) \div sum]
        part == [i \in DOMAIN w |-> (total * w[i]) % sum]
        leftover == total - SumFunction(whole)
        before == {p \in (DOMAIN w) \X (DOMAIN w) :
                      \/ part[p[1]] > part[p[2]]
                      \/ part[p[1]] = part[p[2]] /\ p[1] < p[2]}
        lucky == First(DOMAIN w, leftover, before)
    IN  [i \in DOMAIN w |-> whole[i] + IF i \in lucky THEN 1 ELSE 0]

-----------------------------------------------------------------------------
(* Properties. *)

\* What the engine's comment guarantees at every turn: nobody below the minimum or above
\* the cap, and the cents given and left make the pool.
WithinBounds ==
    status \in {"allocating", "done"} =>
        /\ \A e \in Ids : minimum[e] <= cents[e] /\ cents[e] <= Cap
        /\ SumFunction(cents) + left = pool
        /\ status = "done" => left = 0

\* An input that passes the checks made up front is allocated in full: the loop never
\* runs out of employees under the cap, the error it has for that is never thrown.
NeverStuck ==
    Turn => Open # {} /\ (OpenWeight > 0 /\ Rest > 0 => Under # {})

\* What holds at every turn of the loop: exact so far, within the bounds, never stuck
\* (allocation.ts:219-291).
AllocationSafe == TypeOK /\ WithinBounds /\ NeverStuck

\* Of two employees with the same minimum, the one with more weight never gets less, for
\* all the caps, turns and leftover cents in between.
PayFollowsWeight ==
    status \in {"allocating", "done"} =>
        \A e, f \in Ids : minimum[e] = minimum[f] /\ weight[e] > weight[f] =>
            cents[e] >= cents[f]

\* Without minimums, an employee gets its proportional amount rounded down at least, or
\* the cap; and less than a cent more, unless somebody is capped.
Quota ==
    status = "done" /\ (\A e \in Ids : minimum[e] = 0) =>
        \A e \in Ids :
            /\ cents[e] = Cap \/ (cents[e] + 1) * SumFunction(weight) > pool * weight[e]
            /\ Cap \in {cents[f] : f \in Ids} \/
                 (cents[e] - 1) * SumFunction(weight) < pool * weight[e]

Share(e) == (pool * weight[e]) % SumFunction(weight)

\* Where neither bound can bite, the engine and the ML service split alike, cent for cent,
\* given the employees in the order of their ids and no two different weights whose
\* fractions of a cent are equal, which floats cannot tell apart.
AgreesWithMlService ==
    (/\ status = "done" /\ percent = 10000
     /\ \A e \in Ids : minimum[e] = 0
     /\ \A e, f \in Ids : weight[e] # weight[f] /\ Share(e) = Share(f) => Share(e) = 0) =>
        cents = AllocateCents(pool, weight)

\* More weight never means less pay, nobody is a cent away from the proportional amount but
\* for a bound, and without bounds the amounts are those of the ML service
\* (allocation.ts:300-360, apps/ml-service/app/models/distribution_allocation.py:7-54).
FairShares == PayFollowsWeight /\ Quota /\ AgreesWithMlService

\* Every call returns: each turn of the loop hands out a cent at least.
Returns == status = "new" ~> status \in {"done", "rejected"}
=============================================================================
