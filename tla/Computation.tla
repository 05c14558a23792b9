----------------------------- MODULE Computation -----------------------------
(***************************************************************************)
(* Where the weights of a split come from: the second phase of distribute  *)
(* (computeDistribution, distribution.service.ts:204-249), the prediction  *)
(* it asks the ML service for (ml-client/ml-client.service.ts) and the     *)
(* calculator (distribution-calculator/distribution-calculator.service.ts, *)
(* computeScores of allocation.ts).  BoundedAllocation splits by them.     *)
(*                                                                         *)
(* Only ratios of weights matter, so each is an integer, scaled by a       *)
(* factor common to the team, and Prisma.Decimal is exact.  An error that  *)
(* is an input error answers 400 ("rejected"), any other 500 ("failed").   *)
(***************************************************************************)
EXTENDS Integers, FiniteSets, Functions, SequencesExt

CONSTANTS
    Team,           \* the employees of the shift
    Stranger,       \* an employee who is not
    Roles,          \* EmployeeRole
    Eligible,       \* SALES_ELIGIBLE_ROLES
    Bases,          \* hours times the role's times the employee's coefficient
    Sales,          \* paid sales of an employee
    Bonuses,        \* salesBonusWeight, as a numerator over BonusUnit
    BonusUnit,
    ShiftHours,     \* the UTC hours of startTime and endTime
    MlWeights,      \* the weights of a prediction, 0 among them for the client's schema
    ShareUnit,      \* shares of a prediction are numerators over it
    Tolerance,      \* SHARE_SUM_TOLERANCE
    Rounding        \* how far a sum of floats may be from the exact one

ASSUME TeamAssumption == IsFiniteSet(Team) /\ Team # {} /\ Stranger \notin Team
ASSUME RolesAssumption == Eligible \subseteq Roles
ASSUME AmountsAssumption ==
    /\ Bases \subseteq Nat \ {0} /\ Sales \subseteq Nat /\ Bonuses \subseteq Nat
    /\ MlWeights \subseteq Nat
    /\ BonusUnit \in Nat \ {0} /\ ShareUnit \in Nat \ {0}
    /\ Tolerance \in Nat /\ Rounding \in Nat
ASSUME HoursOfDayAssumption == ShiftHours \subseteq [start : 0..23, end : 0..23]

VARIABLES
    mode, declared, times, team, bonus,     \* what phase 1 read; declared is poolCents > 0
    step,           \* where the call is
    answer,         \* the allocations of the prediction
    method,         \* the realized ComputationMethod
    weights         \* what allocateBounded is given

given == <<mode, declared, times, team, bonus>>
computationVars == <<given, step, answer, method, weights>>

Modes == {"RULES_ONLY", "ML_ASSISTED", "ML_FULL"}

\* A row of a prediction, and what the service may answer, correct or not.
Row == [id : Team \cup {Stranger}, weight : MlWeights, share : 0..ShareUnit]

ComputationTypeOK ==
    /\ mode \in Modes
    /\ declared \in BOOLEAN
    /\ times \in ShiftHours
    /\ team \in [Team -> [role : Roles, base : Bases, sales : Sales]]
    /\ bonus \in Bonuses
    /\ step \in {"new", "asked", "answered", "unavailable", "computed", "rejected", "failed"}
    /\ answer \in Seq(Row)
    /\ method \in {"NONE", "RULES", "ML_ASSISTED", "ML_FULL"}
    /\ weights \in [Team -> Nat]

ComputationInit ==
    /\ mode \in Modes
    /\ declared \in BOOLEAN
    /\ times \in ShiftHours
    /\ team \in [Team -> [role : Roles, base : Bases, sales : Sales]]
    /\ bonus \in Bonuses
    /\ step = "new"
    /\ answer = <<>>
    /\ method = "NONE"
    /\ weights = [e \in Team |-> 0]

-----------------------------------------------------------------------------
(* The rules. *)

Sellers(t) == {e \in Team : t[e].role \in Eligible}
SalesIn(t, S) == SumFunctionOnSet([e \in Team |-> t[e].sales], S)

\* The average over everybody on the shift.
MutAboveAverage(t, e) ==
    LET excess == Cardinality(Team) * t[e].sales - SalesIn(t, Team)
    IN  IF e \in Sellers(t) /\ excess > 0 THEN excess ELSE 0

\* aboveAverageRatio, times the sales of the sellers.
AboveAverage(t, e) ==
    LET excess == Cardinality(Sellers(t)) * t[e].sales - SalesIn(t, Sellers(t))
    IN  IF e \in Sellers(t) /\ excess > 0 THEN excess ELSE 0

\* rawScore, times the sales of the sellers (when there are some) and BonusUnit.
Score(t, e) ==
    LET sold == SalesIn(t, Sellers(t))
    IN  t[e].base * IF sold = 0 THEN BonusUnit ELSE BonusUnit * sold + bonus * AboveAverage(t, e)

TotalScore(t) == SumFunction([e \in Team |-> Score(t, e)])

\* compute: invalidTotalAmount for a pool of zero.
ComputeByRules ==
    /\ IF declared
       THEN /\ step' = "computed"
            /\ method' = "RULES"
            /\ weights' = [e \in Team |-> Score(team, e)]
       ELSE /\ step' = "rejected"
            /\ UNCHANGED <<method, weights>>
    /\ UNCHANGED <<given, answer>>

Rules ==
    /\ step = "new"
    /\ mode = "RULES_ONLY" \/ ~declared
    /\ ComputeByRules

-----------------------------------------------------------------------------
(* The prediction. *)

\* The schema of the client's input.  A failure is a TypeError, which is not the
\* unavailability that computeDistribution catches.
ClientTakesHours == times.end >= 1 /\ times.end > times.start

\* The schema of the service, which refuses others with a 422.
ServiceTakesHours == (times.end - times.start) % 24 \in 1..16

Ask ==
    /\ step = "new"
    /\ mode # "RULES_ONLY" /\ declared
    /\ step' = IF ClientTakesHours THEN "asked" ELSE "failed"
    /\ UNCHANGED <<given, answer, method, weights>>

\* The breaker is open, a timeout, a refusal, a broken connection, an unreadable body.
Unavailable ==
    /\ step = "asked"
    /\ step' = "unavailable"
    /\ UNCHANGED <<given, answer, method, weights>>

Named(rows) == {rows[i].id : i \in DOMAIN rows}
ShareSum(rows) == SumFunction([i \in DOMAIN rows |-> rows[i].share])

\* How far the shares are from summing to 1.
Off(rows) ==
    IF ShareSum(rows) > ShareUnit THEN ShareSum(rows) - ShareUnit ELSE ShareUnit - ShareSum(rows)

\* A row that repeats an employee goes unnoticed.
MutPasses(rows, tolerance) ==
    Len(rows) = Cardinality(Team) /\ Named(rows) \subseteq Team /\ Off(rows) <= tolerance

\* assertPredictionInvariants.
Passes(rows, tolerance) ==
    /\ Len(rows) = Cardinality(Team)
    /\ Named(rows) \subseteq Team
    /\ IsInjective([i \in DOMAIN rows |-> rows[i].id])
    /\ Off(rows) <= tolerance

\* The client adds the shares as floats: near its tolerance they decide either way.
MayPass(rows) == Passes(rows, Tolerance + Rounding)
MustPass(rows) == Passes(rows, Tolerance - Rounding)

\* echoed: the ids and the pool are those of the request, and the tips sum to the pool.
Receive(rows, echoed) ==
    /\ step = "asked"
    /\ ServiceTakesHours
    /\ \/ /\ echoed /\ MayPass(rows)
          /\ step' = "answered"
          /\ answer' = rows
       \/ /\ ~(echoed /\ MustPass(rows))
          /\ step' = "unavailable"
          /\ UNCHANGED answer
    /\ UNCHANGED <<given, method, weights>>

\* validateAndIndexPrediction, the calculator's own checks, which add the shares exactly.
Indexed(rows) ==
    /\ Len(rows) = Cardinality(Team)
    /\ Named(rows) = Team
    /\ Off(rows) <= Tolerance

RowOf(e) == answer[CHOOSE i \in DOMAIN answer : answer[i].id = e]

\* blendShare: half the model's share and half the rules', in a common denominator.
Blend(e) == RowOf(e).share * TotalScore(team) + Score(team, e) * ShareUnit

\* The weights of the allocands.
MlAllocands == [e \in Team |-> IF mode = "ML_FULL" THEN RowOf(e).weight ELSE Blend(e)]

\* allocateBounded takes no weights that are all 0: invalidWeights.
Weighted == SumFunction(MlAllocands) > 0

\* computeFromMl.
UseAnswer ==
    /\ step = "answered"
    /\ \/ /\ Indexed(answer) /\ Weighted
          /\ step' = "computed"
          /\ method' = mode
          /\ weights' = MlAllocands
       \/ /\ ~(Indexed(answer) /\ Weighted)
          /\ step' = "rejected"
          /\ UNCHANGED <<method, weights>>
    /\ UNCHANGED <<given, answer>>

\* Only unavailability degrades to the rules.
FallBack ==
    /\ step = "unavailable"
    /\ ComputeByRules

ComputationNext ==
    \/ Rules \/ Ask \/ Unavailable \/ UseAnswer \/ FallBack
    \/ \E rows \in BoundedSeq(Row, Cardinality(Team)), echoed \in BOOLEAN : Receive(rows, echoed)

ComputationSpec == ComputationInit /\ [][ComputationNext]_computationVars

-----------------------------------------------------------------------------
(* Properties. *)

Weightless(rows) == \A i \in DOMAIN rows : rows[i].weight = 0

\* When the rules would distribute a shift within one day, every mode does, whether the ML
\* service answers or not and whatever it answers, except for the two answers that get past the
\* client and then answer 400 instead of falling back: ML_FULL with nothing but weights of 0,
\* and shares so close to the tolerance that the client's floats let them pass
\* (distribution.service.ts:217-248, ml-client.service.ts:495-532,
\* distribution-calculator.service.ts:276-323, allocation.ts:173-177).
RulesStandIn ==
    declared /\ ClientTakesHours =>
        /\ step # "failed"
        /\ step = "rejected" => (mode = "ML_FULL" /\ Weightless(answer)) \/ Off(answer) > Tolerance

\* What is computed can be allocated by, which allocateBounded leaves to its callers
\* (allocation.ts:152-154); outside ML_FULL everybody has some weight, whoever the model gives
\* a share of 0.
EveryoneWeighs ==
    step = "computed" =>
        /\ SumFunction(weights) > 0
        /\ method # "ML_FULL" => \A e \in Team : weights[e] > 0

\* The variables have their types, the rules stand in for the ML service, and what is
\* computed can be allocated.
ComputationSafe == ComputationTypeOK /\ RulesStandIn /\ EveryoneWeighs

\* allocation.ts:152-154: "Assumes totalWeight > 0; callers route the all-zero-weight case to
\* their own fallback."  An answer that passes the checks of computeFromMl is not refused.
CallersHandleZeroWeights ==
    answer # <<>> /\ Indexed(answer) => step # "rejected"

Selling(e, s) == [team EXCEPT ![e].sales = s]

\* Selling more never lowers one's share of the pool, although it raises the average that
\* the bonus is measured from.
SalesPay ==
    \A e \in Sellers(team), s \in Sales :
        s > team[e].sales =>
            Score(Selling(e, s), e) * TotalScore(team) >= Score(team, e) * TotalScore(Selling(e, s))

\* What somebody in another role sold changes nobody's share.
OthersSalesIgnored ==
    \A e \in Team \ Sellers(team), s \in Sales :
        \A f \in Team : Score(Selling(e, s), f) = Score(team, f)

\* The shares are those of the same shift in another currency.
BonusIsRelative ==
    LET doubled == [e \in Team |-> [team[e] EXCEPT !.sales = 2 * @]]
    IN  \A e \in Team : Score(doubled, e) * TotalScore(team) = Score(team, e) * TotalScore(doubled)

\* A blended share lies between the rules' and the model's, whose shares need not sum to 1.
BlendBetween ==
    \A e \in Team :
        LET total == SumFunction(weights)
            model == RowOf(e).share
            rules == Score(team, e)
        IN  \/ /\ model * total <= weights[e] * ShareSum(answer)
               /\ weights[e] * TotalScore(team) <= rules * total
            \/ /\ rules * total <= weights[e] * TotalScore(team)
               /\ weights[e] * ShareSum(answer) <= model * total

\* The weights are fair between employees, by the rules and blended
\* (allocation.ts:93-146, distribution-calculator.service.ts:203-212).
FairWeights ==
    /\ method = "RULES" => SalesPay /\ OthersSalesIgnored /\ BonusIsRelative
    /\ method = "ML_ASSISTED" => BlendBetween
=============================================================================
