------------------------------ MODULE MCEngine -------------------------------
(* Small instances, for TLC, of the two stages of the distribution engine: where the weights *)
(* come from and how a pool is split by weights.  A behaviour is about one of them. *)
EXTENDS BoundedAllocation, Computation

CONSTANTS e1, e2, x

VARIABLE stage          \* the stage this behaviour is about

ThreeIds == 1..3
SmallPools == 1..8
\* A cap that rejects, a fraction of a percent, the cap of two employees, and no cap.
SmallPercents == {3000, 3750, 6000, 10000}
SmallWeights == 0..3
SmallMinimums == 0..2

MCTeam == {e1, e2}
MCRoles == {"SERVER", "COOK"}
MCEligible == {"SERVER"}
MCBases == {1, 2}
MCSales == {0, 1, 3}
MCBonuses == {1, 2}
MCMlWeights == {0, 1}
\* Within a day, too long for the ML service, and over midnight.
MCShiftHours == {[start |-> 10, end |-> 18], [start |-> 1, end |-> 20], [start |-> 18, end |-> 2]}

\* The stage that a behaviour is not about stands still.
AllocationRests ==
    /\ pool = 1 /\ percent = 10000
    /\ weight = [e \in Ids |-> 1] /\ minimum = [e \in Ids |-> 0]
    /\ cents = [e \in Ids |-> 0] /\ left = 0 /\ status = "rejected"

ComputationRests ==
    /\ mode = "RULES_ONLY" /\ declared = FALSE /\ bonus = 1
    /\ times = [start |-> 10, end |-> 18]
    /\ team = [e \in Team |-> [role |-> "COOK", base |-> 1, sales |-> 0]]
    /\ step = "rejected" /\ answer = <<>> /\ method = "NONE" /\ weights = [e \in Team |-> 0]

WeightsInit == stage = "weights" /\ AllocationRests /\ ComputationInit
CentsInit == stage = "cents" /\ ComputationRests /\ Init

EngineNext ==
    /\ \/ stage = "weights" /\ ComputationNext /\ UNCHANGED vars
       \/ stage = "cents" /\ Next /\ UNCHANGED computationVars
    /\ UNCHANGED stage

engineVars == <<vars, computationVars, stage>>

EngineSpec == (WeightsInit \/ CentsInit) /\ [][EngineNext]_engineVars /\ WF_vars(Next)
=============================================================================
