--------------------------- MODULE TipDistribution ---------------------------
(***************************************************************************)
(* The tip pool of a shift, from its declaration to the payout of each     *)
(* employee and the manager's corrections: apps/api/src/tip-pools and      *)
(* apps/api/src/distribution/distribution.service.ts, over the shift of    *)
(* ShiftFloor.                                                             *)
(*                                                                         *)
(* DistributionService.distribute runs in three phases: it reads the       *)
(* context without a transaction, computes (calling the ML service), and   *)
(* persists in one Serializable transaction that checks the context again. *)
(* That transaction and the one of adjustDistribution read and write the   *)
(* pool under a conflict detection that makes each of them one step here.  *)
(* The transactions of tip-pools are READ COMMITTED, a read and a guarded  *)
(* write.                                                                  *)
(***************************************************************************)
EXTENDS ShiftFloor, Functions

CONSTANTS
    Managers,       \* the HTTP requests on the pool in flight at a time
    Cents,          \* the amounts a manager may declare, in cash or on card
    NoRow,          \* an employee without a tip_distributions row
    NoAmount        \* original_amount IS NULL

ASSUME CentsAssumption == Cents \subseteq Nat
ASSUME NoAmountAssumption == NoAmount \notin Nat

VARIABLES
    mode,           \* DistributionConfig.mode of the tenant
    pool,           \* the row of tip_pools
    row,            \* per employee, the row of tip_distributions
    work,           \* per manager, the operation in flight and what it holds
    jobs            \* the training jobs handed to the ml-training queue

tipVars == <<mode, pool, row, work, jobs>>
vars == <<floorVars, tipVars>>

-----------------------------------------------------------------------------
Modes == {"RULES_ONLY", "ML_ASSISTED", "ML_FULL"}
MlMethods == {"ML_ASSISTED", "ML_FULL"}
Methods == {"RULES", "MANUAL_OVERRIDE"} \cup MlMethods

Pool == [status : {"NONE", "DECLARED", "DISTRIBUTED"}, cash : Nat, card : Nat]
PoolTotal == pool.cash + pool.card

\* Inputs of an amount that the row keeps: features_snapshot.
Features == [hours : Hours, sales : SUBSET Orders]

\* source is explanation.source, which no correction rewrites.
Row == [amount : Nat, original : Nat \cup {NoAmount}, method : Methods,
        source : {"RULES"} \cup MlMethods, features : Features]

ASSUME NoRowAssumption == NoRow \notin Row

\* f gives some of the employees a value of T.
PerEmployee(f, T) == DOMAIN f \in SUBSET Employees /\ f \in [DOMAIN f -> T]

JobOK(j) == j.method \in MlMethods /\ PerEmployee(j.tips, Nat)

\* What an operation in flight holds between two of its steps.
WorkOK(w) ==
    \/ w.op \in {"idle", "seal"}
    \/ w.op \in {"declare", "amend"} /\ {w.cash, w.card} \subseteq Nat /\ w.cash + w.card > 0
    \/ w.op = "read" /\ w.total \in Nat /\ PerEmployee(w.hours, Hours)
                     /\ DOMAIN w.hours # {}
    \/ w.op = "compute" /\ w.total \in Nat /\ PerEmployee(w.features, Features)
                        /\ DOMAIN w.features # {} /\ w.mode \in Modes
    \/ w.op = "persist" /\ w.total \in Nat /\ PerEmployee(w.features, Features)
                        /\ DOMAIN w.features # {}
                        /\ w.method \in {"RULES"} \cup MlMethods
                        /\ PerEmployee(w.amounts, Nat)
                        /\ DOMAIN w.amounts = DOMAIN w.features
    \/ w.op = "enqueue" /\ JobOK(w.job)

TypeOK ==
    /\ FloorTypeOK
    /\ mode \in Modes
    /\ pool \in Pool
    /\ row \in [Employees -> Row \cup {NoRow}]
    /\ DOMAIN work = Managers /\ \A m \in Managers : WorkOK(work[m])
    /\ \A j \in jobs : JobOK(j)

Init ==
    /\ FloorInit
    /\ mode \in Modes
    /\ pool = [status |-> "NONE", cash |-> 0, card |-> 0]
    /\ row = [e \in Employees |-> NoRow]
    /\ work = [m \in Managers |-> Idle]
    /\ jobs = {}

-----------------------------------------------------------------------------
Paid == {e \in Employees : row[e] # NoRow}
Payout == [e \in Paid |-> row[e].amount]

\* Every way to split total cents among the employees of S.
Splits(S, total) == {f \in [S -> 0..total] : SumFunction(f) = total}

Take(m, w) == work[m] = Idle /\ work' = [work EXCEPT ![m] = w]
Continue(m, op, w) == work[m].op = op /\ work' = [work EXCEPT ![m] = w]

-----------------------------------------------------------------------------
(* TipPoolsService: declare, amend and the distribute endpoint of tip-pools. *)

BeginDeclare(m, cash, card) ==
    /\ shift.status = "CLOSED"
    /\ pool.status = "NONE"
    /\ cash + card > 0
    /\ Take(m, [op |-> "declare", cash |-> cash, card |-> card])
    /\ UNCHANGED <<floorVars, mode, pool, row, jobs>>

\* tip_pools.shift_id is unique: the second declaration gets 409 alreadyExists.
CommitDeclare(m) ==
    /\ Continue(m, "declare", Idle)
    /\ pool' = IF pool.status = "NONE"
               THEN [status |-> "DECLARED", cash |-> work[m].cash, card |-> work[m].card]
               ELSE pool
    /\ UNCHANGED <<floorVars, mode, row, jobs>>

\* A field the PATCH leaves out keeps the value read here.
BeginAmend(m, cash, card) ==
    /\ pool.status = "DECLARED"
    /\ cash = pool.cash \/ cash \in Cents
    /\ card = pool.card \/ card \in Cents
    /\ cash + card > 0
    /\ Take(m, [op |-> "amend", cash |-> cash, card |-> card])
    /\ UNCHANGED <<floorVars, mode, pool, row, jobs>>

\* updateMany ... WHERE status = 'DECLARED'
StillDeclared == pool.status = "DECLARED"

CommitAmend(m) ==
    /\ Continue(m, "amend", Idle)
    /\ pool' = IF StillDeclared
               THEN [pool EXCEPT !.cash = work[m].cash, !.card = work[m].card]
               ELSE pool                     \* 409 concurrentUpdateDetected
    /\ UNCHANGED <<floorVars, mode, row, jobs>>

BeginSeal(m) ==
    /\ pool.status = "DECLARED"
    /\ Active # {}
    /\ Take(m, [op |-> "seal"])
    /\ UNCHANGED <<floorVars, mode, pool, row, jobs>>

CommitSeal(m) ==
    /\ Continue(m, "seal", Idle)
    /\ pool' = IF StillDeclared THEN [pool EXCEPT !.status = "DISTRIBUTED"]
                                ELSE pool    \* 409 concurrentDistribution
    /\ UNCHANGED <<floorVars, mode, row, jobs>>

-----------------------------------------------------------------------------
(* DistributionService.distribute *)

MutAllWorked == TRUE

\* else 400 invalidHoursWorked
AllWorked == \A e \in Assigned : HoursOf(e) > 0

\* Phase 1, first read: the shift with its pool and its active assignments.
ReadShift(m) ==
    /\ shift.status = "CLOSED"
    /\ pool.status = "DECLARED"
    /\ Assigned # {}
    /\ Assigned \subseteq hired              \* else 400 employeeInactive
    /\ AllWorked
    /\ Take(m, [op |-> "read", hours |-> [e \in Assigned |-> HoursOf(e)],
                total |-> PoolTotal])
    /\ UNCHANGED <<floorVars, mode, pool, row, jobs>>

\* Phase 1, the reads after it: no row exists yet, the configuration, the paid orders.
ReadInputs(m) ==
    /\ Paid = {}                             \* else 409 alreadyExists
    /\ Continue(m, "read",
          [op |-> "compute", total |-> work[m].total, mode |-> mode,
           features |-> [e \in DOMAIN work[m].hours |->
                            [hours |-> work[m].hours[e], sales |-> PaidOrders(e)]]])
    /\ UNCHANGED <<floorVars, mode, pool, row, jobs>>

\* Phase 2.  ML modes fall back to the rules when the ML service is unavailable.  The
\* amounts are some split of the total: BoundedAllocation says which.
Compute(m, method) ==
    /\ work[m].op = "compute"
    /\ \E f \in Splits(DOMAIN work[m].features, work[m].total) :
          work' = [work EXCEPT ![m] =
             [op |-> "persist", features |-> work[m].features, total |-> work[m].total,
              amounts |-> f, method |-> method]]

ComputeByRules(m) ==
    /\ Compute(m, "RULES")
    /\ UNCHANGED <<floorVars, mode, pool, row, jobs>>

ComputeByMl(m) ==
    /\ work[m].op = "compute"
    /\ work[m].mode # "RULES_ONLY"
    /\ Compute(m, work[m].mode)
    /\ UNCHANGED <<floorVars, mode, pool, row, jobs>>

MutAmountUnchanged(w) == TRUE

\* The total the amounts were computed from is still the pool's.
AmountUnchanged(w) == PoolTotal = w.total

MutNotYetDistributed(w) == TRUE

\* The pool is still DECLARED, read again and by the optimistic lock, and has no rows.
NotYetDistributed(w) == pool.status = "DECLARED" /\ Paid = {}

\* Phase 3.  The roster is compared by its size alone.
Persist(m) ==
    LET w == work[m] IN
    /\ Continue(m, "persist", Idle)
    /\ shift.status = "CLOSED"
    /\ NotYetDistributed(w)
    /\ AmountUnchanged(w)
    /\ Cardinality(Active) = Cardinality(DOMAIN w.features)
    /\ pool' = [pool EXCEPT !.status = "DISTRIBUTED"]
    /\ row' = [e \in Employees |->
                  IF e \in DOMAIN w.amounts
                  THEN [amount |-> w.amounts[e], original |-> NoAmount, method |-> w.method,
                        source |-> w.method, features |-> w.features[e]]
                  ELSE row[e]]
    /\ UNCHANGED <<floorVars, mode, jobs>>

-----------------------------------------------------------------------------
(* DistributionService.adjustDistribution *)

\* The one method all rows carry, MANUAL_OVERRIDE if they carry several.
SourceMethod ==
    IF \E x \in Methods : \A e \in Paid : row[e].method = x
    THEN CHOOSE x \in Methods : \A e \in Paid : row[e].method = x
    ELSE "MANUAL_OVERRIDE"

MutShouldTrain == mode \in MlMethods

\* The tenant's mode now and the method of the rows must both be ML.
ShouldTrain == mode \in MlMethods /\ SourceMethod \in MlMethods

MutOverriddenIfMoved(r, cents) ==
    [r EXCEPT !.amount = cents, !.method = "MANUAL_OVERRIDE",
              !.original = IF r.original = NoAmount /\ cents # r.amount THEN r.amount
                                                                        ELSE r.original]

Overridden(r, cents) ==
    [r EXCEPT !.amount = cents, !.method = "MANUAL_OVERRIDE",
              !.original = IF r.original = NoAmount THEN r.amount ELSE r.original]

MutBalanced(f) == f \in [Paid -> 0..PoolTotal]

\* The manager's allocation covers exactly the rows and sums to the pool.
Balanced(f) == f \in Splits(Paid, PoolTotal)

\* A training set is built from the assignments of now: an assignment without a row
\* makes the transaction fail.
Adjust(m) ==
    /\ pool.status = "DISTRIBUTED"
    /\ Paid # {}
    /\ ShouldTrain => Assigned \subseteq Paid
    /\ \E f \in [Paid -> 0..PoolTotal] :
          /\ Balanced(f)
          /\ row' = [e \in Employees |-> IF e \in Paid THEN Overridden(row[e], f[e])
                                                       ELSE row[e]]
          /\ Take(m, IF ShouldTrain
                     THEN [op |-> "enqueue",
                           job |-> [method |-> SourceMethod,
                                    tips |-> [e \in Assigned |-> f[e]]]]
                     ELSE Idle)
    /\ UNCHANGED <<floorVars, mode, pool, jobs>>

\* After the commit, outside the transaction.
Enqueue(m) ==
    /\ Continue(m, "enqueue", Idle)
    /\ jobs' = jobs \cup {work[m].job}
    /\ UNCHANGED <<floorVars, mode, pool, row>>

-----------------------------------------------------------------------------
SetMode(x) ==
    /\ mode' = x
    /\ UNCHANGED <<floorVars, pool, row, work, jobs>>

\* An error answer (a check that fails, a timeout, Redis down) or a crash of the process.
Abandon(m) ==
    /\ work[m] # Idle
    /\ work' = [work EXCEPT ![m] = Idle]
    /\ UNCHANGED <<floorVars, mode, pool, row, jobs>>

ManagerStep(m) ==
    \/ \E cash, card \in Cents : BeginDeclare(m, cash, card)
    \/ \E cash \in Cents \cup {pool.cash}, card \in Cents \cup {pool.card} :
          BeginAmend(m, cash, card)
    \/ BeginSeal(m)
    \/ CommitDeclare(m) \/ CommitAmend(m) \/ CommitSeal(m)
    \/ ReadShift(m) \/ ReadInputs(m) \/ ComputeByRules(m) \/ ComputeByMl(m)
    \/ Persist(m) \/ Adjust(m) \/ Enqueue(m)
    \/ Abandon(m)

Next ==
    \/ FloorNext /\ UNCHANGED tipVars
    \/ \E m \in Managers : ManagerStep(m)
    \/ \E x \in Modes : SetMode(x)

Spec == Init /\ [][Next]_vars

-----------------------------------------------------------------------------
(* Properties. *)

\* The amounts of a pool exist only once it is DISTRIBUTED and sum to its total to
\* the cent, however declarations, corrections of the total and distributions overlap
\* (ADR-006, invariant 2); so do those a request holds, of the total it read.
Conservation ==
    /\ Paid # {} => pool.status = "DISTRIBUTED" /\ SumFunction(Payout) = PoolTotal
    /\ \A m \in Managers : work[m].op = "persist" =>
          SumFunction(work[m].amounts) = work[m].total

\* A distribution is created once, for all its employees together; what it was
\* computed from and how are never rewritten, and the amount a correction first
\* replaced stays readable through all later ones (ADR-006, invariant 6).
AuditTrail ==
    [][Paid # {} => \A e \in Employees :
          /\ row'[e] = NoRow <=> row[e] = NoRow
          /\ row[e] # NoRow =>
                /\ row'[e].source = row[e].source
                /\ row'[e].features = row[e].features
                /\ row'[e].original \in
                      (IF row[e].original # NoAmount THEN {row[e].original}
                       ELSE {row[e].amount, NoAmount})]_row

\* A correction of the total that was checked before a distribution and is written
\* after it changes nothing: a DISTRIBUTED pool is frozen.
PoolFrozen == [][pool.status = "DISTRIBUTED" => UNCHANGED pool]_pool

\* All rows of a pool carry one method, and MANUAL_OVERRIDE exactly when the amount
\* before the correction was kept; adjustDistribution relies on the first.
AdjustedAsAWhole ==
    \A e, f \in Paid :
        /\ row[e].method = row[f].method
        /\ row[e].method = "MANUAL_OVERRIDE" <=> row[e].original # NoAmount
        /\ row[e].original = NoAmount => row[e].method = row[e].source

Pending == {work[m].job : m \in {n \in Managers : work[n].op = "enqueue"}}

\* Training is only ever fed a distribution the ML service computed, whatever the
\* tenant's mode has become when it is corrected, and one allocation at most.
TrainedOnMlOnly ==
    /\ \A j \in jobs \cup Pending : \A e \in Paid : row[e].source = j.method
    /\ Cardinality(jobs \cup Pending) <= 1

\* The pool and its rows are a tip ledger.
Ledger == INSTANCE TipLedger WITH
            Payees <- Employees, status <- pool.status, total <- PoolTotal, shares <- Payout

\* No overlap of requests is visible in the ledger: every step of the code is one step
\* of it or none.
ImplementsLedger == Ledger!Spec

-----------------------------------------------------------------------------
(* What the repository says and the code does not do. *)

\* Phase 3 rejects if anything that fed the amounts changed since phase 1.
InputsCurrentAtPersist ==
    [][Paid = {} => \A e \in Employees : row'[e] # NoRow =>
          /\ e \in Assigned
          /\ row'[e].features = [hours |-> HoursOf(e), sales |-> PaidOrders(e)]]_row
=============================================================================
