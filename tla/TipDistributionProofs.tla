------------------------ MODULE TipDistributionProofs ------------------------
(***************************************************************************)
(* Theorems about ShiftFloor and, which extends it, TipDistribution, for   *)
(* every value of their constants.                                         *)
(* SumFunction, the sum of the cents of a function, is never expanded:     *)
(* what matters is that the same function is summed before and after.      *)
(***************************************************************************)
EXTENDS TipDistribution, FiniteSetTheorems, TLAPS

-----------------------------------------------------------------------------
(* The floor *)

LEMMA FloorInitTyped == FloorInit => FloorTypeOK
  BY DEF FloorInit, FloorTypeOK, Shift, Assignment, Order, Task

LEMMA FloorNextTyped == FloorTypeOK /\ [FloorNext]_floorVars => FloorTypeOK'
<1> SUFFICES ASSUME FloorTypeOK, [FloorNext]_floorVars
             PROVE  FloorTypeOK'
  OBVIOUS
<1> USE DEF FloorTypeOK
<1>1. ASSUME NEW c \in Clerks, NEW e \in Employees, NEW h \in Hours, BeginAdd(c, e, h)
      PROVE  FloorTypeOK'
  BY <1>1 DEF BeginAdd, Start, Task
<1>2. ASSUME NEW c \in Clerks, NEW e \in Employees, NEW h \in Hours \cup {0},
             BeginEdit(c, e, h)
      PROVE  FloorTypeOK'
  BY <1>2 DEF BeginEdit, Start, Task, Active
<1>3. ASSUME NEW c \in Clerks, NEW e \in Employees, BeginRemove(c, e)
      PROVE  FloorTypeOK'
  BY <1>3 DEF BeginRemove, Start, Task, Active
<1>4. ASSUME NEW c \in Clerks, NEW o \in Orders, NEW e \in Employees, BeginOpen(c, o, e)
      PROVE  FloorTypeOK'
  BY <1>4 DEF BeginOpen, Start, Task
<1>5. ASSUME NEW c \in Clerks, NEW o \in Orders, BeginPay(c, o)
      PROVE  FloorTypeOK'
  BY <1>5 DEF BeginPay, Start, Task
<1>6. ASSUME NEW c \in Clerks, BeginClose(c)
      PROVE  FloorTypeOK'
  BY <1>6 DEF BeginClose, Start, Task
<1>7. ASSUME NEW c \in Clerks, CommitAdd(c)
      PROVE  FloorTypeOK'
  <2>1. task[c] \in [op : {"add"}, employee : Employees, hours : Hours]
    BY <1>7 DEF CommitAdd, Task, Idle
  <2>2. task' \in [Clerks -> Task]
    BY <1>7 DEF CommitAdd, Finish, Task
  <2>3. assignment' \in [AssignmentIds -> Assignment]
    BY <1>7, <2>1 DEF CommitAdd, Assignment
  <2> QED
    BY <1>7, <2>2, <2>3 DEF CommitAdd
<1>8. ASSUME NEW c \in Clerks, CommitEdit(c)
      PROVE  FloorTypeOK'
  <2>1. task[c] \in [op : {"edit"}, row : AssignmentIds, hours : Hours \cup {0}]
    BY <1>8 DEF CommitEdit, Task, Idle
  <2>2. task' \in [Clerks -> Task]
    BY <1>8 DEF CommitEdit, Finish, Task
  <2>3. assignment' \in [AssignmentIds -> Assignment]
    BY <1>8, <2>1 DEF CommitEdit, Assignment
  <2> QED
    BY <1>8, <2>2, <2>3 DEF CommitEdit
<1>9. ASSUME NEW c \in Clerks, CommitRemove(c)
      PROVE  FloorTypeOK'
  <2>1. task[c] \in [op : {"remove"}, row : AssignmentIds]
    BY <1>9 DEF CommitRemove, Task, Idle
  <2>2. task' \in [Clerks -> Task]
    BY <1>9 DEF CommitRemove, Finish, Task
  <2>3. assignment' \in [AssignmentIds -> Assignment]
    BY <1>9, <2>1 DEF CommitRemove, Assignment
  <2> QED
    BY <1>9, <2>2, <2>3 DEF CommitRemove
<1>10. ASSUME NEW c \in Clerks, CommitClose(c)
       PROVE  FloorTypeOK'
  BY <1>10 DEF CommitClose, Finish, Task, Shift
<1>11. ASSUME NEW c \in Clerks, CommitOpen(c)
       PROVE  FloorTypeOK'
  <2>1. task[c] \in [op : {"open"}, order : Orders, server : Employees]
    BY <1>11 DEF CommitOpen, Task, Idle
  <2> QED
    BY <1>11, <2>1 DEF CommitOpen, Finish, Task, Order
<1>12. ASSUME NEW c \in Clerks, CommitPay(c)
       PROVE  FloorTypeOK'
  BY <1>12 DEF CommitPay, Finish, Task, Order
<1>13. ASSUME NEW c \in Clerks, RollBack(c)
       PROVE  FloorTypeOK'
  BY <1>13 DEF RollBack, Finish, Task
<1>14. ASSUME NEW e \in Employees, RemoveEmployee(e)
       PROVE  FloorTypeOK'
  BY <1>14 DEF RemoveEmployee
<1>15. CASE UNCHANGED floorVars
  BY <1>15 DEF floorVars
<1> QED
  BY <1>1, <1>2, <1>3, <1>4, <1>5, <1>6, <1>7, <1>8, <1>9, <1>10, <1>11, <1>12, <1>13,
     <1>14, <1>15 DEF FloorNext, ClerkStep

\* The variables of the floor keep their types.
THEOREM FloorTyped == FloorSpec => []FloorTypeOK
  BY FloorInitTyped, FloorNextTyped, PTL DEF FloorSpec

-----------------------------------------------------------------------------
\* Only an insert makes a row active, and it does so under the unique index; every
\* other write leaves a row's employee as it was.
LEMMA FloorNextOneActive ==
    FloorTypeOK /\ OneActiveAssignment /\ [FloorNext]_floorVars => OneActiveAssignment'
<1> SUFFICES ASSUME FloorTypeOK, OneActiveAssignment, [FloorNext]_floorVars
             PROVE  OneActiveAssignment'
  OBVIOUS
<1> USE DEF FloorTypeOK, OneActiveAssignment, Active
<1>1. ASSUME NEW c \in Clerks, CommitAdd(c)
      PROVE  OneActiveAssignment'
  <2>1. CASE UNCHANGED assignment
    BY <2>1
  <2>2. ASSUME UniqueIndexAdmits(task[c].employee),
               NEW a \in AssignmentIds,
               assignment[a].state = "free",
               assignment' = [assignment EXCEPT ![a] =
                    [state |-> "active", employee |-> task[c].employee,
                     hours |-> task[c].hours]]
        PROVE  OneActiveAssignment'
    BY <2>2 DEF UniqueIndexAdmits, Assigned, Assignment
  <2> QED
    BY <1>1, <2>1, <2>2 DEF CommitAdd
<1>2. ASSUME NEW c \in Clerks, CommitEdit(c)
      PROVE  OneActiveAssignment'
  <2>1. \A a \in AssignmentIds : /\ assignment'[a].state = assignment[a].state
                                 /\ assignment'[a].employee = assignment[a].employee
    BY <1>2 DEF CommitEdit, Assignment
  <2> QED
    BY <2>1
<1>3. ASSUME NEW c \in Clerks, CommitRemove(c)
      PROVE  OneActiveAssignment'
  <2>1. \A a \in AssignmentIds :
           /\ assignment'[a].state = "active" => assignment[a].state = "active"
           /\ assignment'[a].employee = assignment[a].employee
    BY <1>3 DEF CommitRemove, Assignment
  <2> QED
    BY <2>1
<1>4. CASE UNCHANGED assignment
  BY <1>4
<1> QED
  BY <1>1, <1>2, <1>3, <1>4
     DEF FloorNext, ClerkStep, floorVars, BeginAdd, BeginEdit, BeginRemove, BeginOpen,
         BeginPay, BeginClose, CommitClose, CommitOpen, CommitPay, RollBack, RemoveEmployee

\* However many assignment requests overlap, an employee holds one active assignment
\* of the shift at most.
THEOREM OneActive == FloorSpec => []OneActiveAssignment
<1>1. FloorInit => OneActiveAssignment
  BY DEF FloorInit, OneActiveAssignment, Active
<1> QED
  BY <1>1, FloorTyped, FloorNextOneActive, PTL DEF FloorSpec

\* Of the requests that overlap on closing a shift, one closes it.
THEOREM ShiftClosesOnce == FloorSpec => ClosedOnce
<1>1. [FloorNext]_floorVars => [shift.status = "CLOSED" => UNCHANGED shift]_shift
  BY DEF FloorNext, ClerkStep, floorVars, BeginAdd, BeginEdit, BeginRemove, BeginOpen,
         BeginPay, BeginClose, CommitAdd, CommitEdit, CommitRemove, CommitClose, CloseGuard,
         CommitOpen, CommitPay, RollBack, RemoveEmployee
<1> QED
  BY <1>1, PTL DEF FloorSpec, ClosedOnce

-----------------------------------------------------------------------------
(* What becomes of a row of assignments. *)

\* The employee of a row that was inserted is the row's for good.
Holder(a) == IF assignment[a].state = "free" THEN {} ELSE {assignment[a].employee}

LEMMA RowsOnlyGrow ==
    ASSUME FloorTypeOK, [FloorNext]_floorVars, NEW a \in AssignmentIds
    PROVE  /\ Holder(a) \subseteq Holder(a)'
           /\ assignment[a].state = "removed" => assignment'[a].state = "removed"
<1>1. ASSUME NEW c \in Clerks, CommitAdd(c)
      PROVE  assignment'[a] = assignment[a] \/ assignment[a].state = "free"
  BY <1>1 DEF CommitAdd, FloorTypeOK
<1>2. ASSUME NEW c \in Clerks, CommitEdit(c)
      PROVE  /\ assignment'[a].state = assignment[a].state
             /\ assignment'[a].employee = assignment[a].employee
  BY <1>2 DEF CommitEdit, FloorTypeOK, Assignment
<1>3. ASSUME NEW c \in Clerks, CommitRemove(c)
      PROVE  /\ assignment'[a].state \in {assignment[a].state, "removed"}
             /\ assignment'[a].employee = assignment[a].employee
  BY <1>3 DEF CommitRemove, FloorTypeOK, Assignment
<1>4. CASE UNCHANGED assignment
  BY <1>4 DEF Holder
<1>5. CASE \E c \in Clerks : CommitAdd(c)
  BY <1>1, <1>5 DEF Holder
<1>6. CASE \E c \in Clerks : CommitEdit(c)
  BY <1>2, <1>6 DEF Holder
<1>7. CASE \E c \in Clerks : CommitRemove(c)
  BY <1>3, <1>7 DEF Holder
<1> QED
  BY <1>4, <1>5, <1>6, <1>7
     DEF FloorNext, ClerkStep, floorVars, BeginAdd, BeginEdit, BeginRemove, BeginOpen,
         BeginPay, BeginClose, CommitClose, CommitOpen, CommitPay, RollBack, RemoveEmployee

\* A write by row id, checked before the row was removed, does not bring it back.
THEOREM RemovalIsFinal == FloorSpec => RemovedForGood
<1>1. FloorTypeOK /\ [FloorNext]_floorVars =>
        [\A a \in AssignmentIds :
            /\ assignment[a].state = "removed" => assignment'[a].state = "removed"
            /\ assignment[a].state # "free" =>
                  assignment'[a].employee = assignment[a].employee]_assignment
  BY RowsOnlyGrow DEF Holder
<1> QED
  BY <1>1, FloorTyped, PTL DEF FloorSpec, RemovedForGood

-----------------------------------------------------------------------------
(* Who serves an order. *)

Worked(e) == \E a \in AssignmentIds : e \in Holder(a)

\* An order on its way to the database names somebody who has worked the shift too.
StaffInv ==
    /\ \A o \in Orders : order[o].status # "free" => Worked(order[o].server)
    /\ \A c \in Clerks : task[c].op = "open" => Worked(task[c].server)

LEMMA WorkedStays ==
    ASSUME FloorTypeOK, [FloorNext]_floorVars, NEW e, Worked(e)
    PROVE  Worked(e)'
  BY RowsOnlyGrow DEF Worked

LEMMA FloorNextStaffed == FloorTypeOK /\ StaffInv /\ [FloorNext]_floorVars => StaffInv'
<1> SUFFICES ASSUME FloorTypeOK, StaffInv, [FloorNext]_floorVars
             PROVE  StaffInv'
  OBVIOUS
<1> USE DEF FloorTypeOK
\* A clerk takes up other work, or none; the orders stay.
<1>1. ASSUME NEW c \in Clerks, NEW t, task' = [task EXCEPT ![c] = t],
             t.op = "open" => Worked(t.server)', UNCHANGED order
      PROVE  StaffInv'
  <2>1. \A d \in Clerks : task'[d] = IF d = c THEN t ELSE task[d]
    BY <1>1
  <2> QED
    BY <1>1, <2>1, WorkedStays DEF StaffInv
<1>2. ASSUME NEW c \in Clerks, NEW o \in Orders, NEW e \in Employees, BeginOpen(c, o, e)
      PROVE  StaffInv'
  <2> DEFINE t == [op |-> "open", order |-> o, server |-> e]
  <2>1. Worked(t.server)
    BY <1>2 DEF BeginOpen, Assigned, Active, Worked, Holder
  <2>2. Worked(t.server)'
    BY <2>1, WorkedStays
  <2> HIDE DEF t
  <2>3. task' = [task EXCEPT ![c] = t] /\ UNCHANGED order
    BY <1>2 DEF BeginOpen, Start, t
  <2> QED
    BY <2>2, <2>3, <1>1
<1>3. ASSUME NEW c \in Clerks, CommitOpen(c)
      PROVE  StaffInv'
  <2>1. Worked(task[c].server)
    BY <1>3 DEF CommitOpen, StaffInv
  <2>2. \A o \in Orders :
           order'[o].status # "free" =>
              \/ order'[o].server = task[c].server
              \/ order[o].status # "free" /\ order'[o].server = order[o].server
    BY <1>3 DEF CommitOpen, Order
  <2>3. \A d \in Clerks : task'[d] = task[d] \/ task'[d] = Idle
    BY <1>3 DEF CommitOpen, Finish
  <2> QED
    BY <2>1, <2>2, <2>3, WorkedStays DEF StaffInv, Idle
<1>4. ASSUME NEW c \in Clerks, CommitPay(c)
      PROVE  StaffInv'
  <2>1. \A o \in Orders : /\ order'[o].status # "free" => order[o].status # "free"
                          /\ order'[o].server = order[o].server
    BY <1>4 DEF CommitPay, Order
  <2>2. \A d \in Clerks : task'[d] = task[d] \/ task'[d] = Idle
    BY <1>4 DEF CommitPay, Finish
  <2> QED
    BY <2>1, <2>2, WorkedStays DEF StaffInv, Idle
<1>5. ASSUME NEW c \in Clerks,
             \/ CommitAdd(c) \/ CommitEdit(c) \/ CommitRemove(c) \/ CommitClose(c)
             \/ RollBack(c)
      PROVE  StaffInv'
  <2>1. task' = [task EXCEPT ![c] = Idle] /\ UNCHANGED order
    BY <1>5 DEF CommitAdd, CommitEdit, CommitRemove, CommitClose, RollBack, Finish
  <2> QED
    BY <2>1, <1>1 DEF Idle
<1>6. ASSUME NEW c \in Clerks, NEW e, NEW h, NEW o,
             BeginAdd(c, e, h) \/ BeginEdit(c, e, h) \/ BeginRemove(c, e) \/ BeginClose(c)
                \/ BeginPay(c, o)
      PROVE  StaffInv'
  <2>1. PICK t : t.op # "open" /\ task' = [task EXCEPT ![c] = t] /\ UNCHANGED order
    BY <1>6 DEF BeginAdd, BeginEdit, BeginRemove, BeginClose, BeginPay, Start
  <2> QED
    BY <2>1, <1>1
<1>7. CASE UNCHANGED <<order, task>>
  BY <1>7, WorkedStays DEF StaffInv
<1> QED
  BY <1>2, <1>3, <1>4, <1>5, <1>6, <1>7
     DEF FloorNext, ClerkStep, floorVars, RemoveEmployee

\* An order is only ever credited to an employee who was assigned to the shift, though the
\* assignment may be gone before the order is inserted.
THEOREM OrdersAreStaffed == FloorSpec => []OrdersComeFromStaff
<1>1. FloorInit => StaffInv
  BY DEF FloorInit, StaffInv, Idle
<1>2. StaffInv => OrdersComeFromStaff
  BY DEF StaffInv, Worked, Holder, OrdersComeFromStaff
<1> QED
  BY <1>1, <1>2, FloorTyped, FloorNextStaffed, PTL DEF FloorSpec

-----------------------------------------------------------------------------
(* The pool *)


\* A step on the pool leaves the floor alone.
LEMMA PoolStepsSpareFloor == [Next]_vars => [FloorNext]_floorVars
  BY DEF Next, vars, ManagerStep, SetMode, BeginDeclare, CommitDeclare, BeginAmend,
         CommitAmend, BeginSeal, CommitSeal, ReadShift, ReadInputs, ComputeByRules,
         ComputeByMl, Persist, Adjust, Enqueue, Abandon

LEMMA RosterTyped ==
    ASSUME FloorTypeOK
    PROVE  /\ Assigned \subseteq Employees \cup {Nobody}
           /\ \A e \in Assigned : HoursOf(e) \in Hours \cup {0}
<1>1. \A a \in AssignmentIds : assignment[a].employee \in Employees \cup {Nobody}
                            /\ assignment[a].hours \in Hours \cup {0}
  BY DEF FloorTypeOK, Assignment
<1>2. ASSUME NEW e \in Assigned PROVE HoursOf(e) \in Hours \cup {0}
  <2>1. PICK a \in Active : assignment[a].employee = e
    BY DEF Assigned
  <2>2. (CHOOSE b \in Active : assignment[b].employee = e) \in AssignmentIds
    BY <2>1 DEF Active
  <2> QED
    BY <1>1, <2>2 DEF HoursOf
<1> QED
  BY <1>1, <1>2 DEF Assigned, Active

\* The request of one manager moves on, the others keep what they hold.
LEMMA WorkStep ==
    ASSUME TypeOK, NEW m \in Managers, NEW w, WorkOK(w), work' = [work EXCEPT ![m] = w]
    PROVE  DOMAIN work' = Managers /\ \A n \in Managers : WorkOK(work'[n])
<1>1. DOMAIN work' = Managers
  BY DEF TypeOK
<1>2. \A n \in Managers : work'[n] = IF n = m THEN w ELSE work[n]
  BY DEF TypeOK
<1> QED
  BY <1>1, <1>2 DEF TypeOK

LEMMA IdleWork == WorkOK(Idle)
  BY DEF WorkOK, Idle

-----------------------------------------------------------------------------
LEMMA InitTyped == Init => TypeOK
<1> SUFFICES ASSUME Init PROVE TypeOK
  OBVIOUS
<1>1. FloorTypeOK
  BY FloorInitTyped DEF Init
<1>2. DOMAIN work = Managers /\ \A m \in Managers : WorkOK(work[m])
  BY IdleWork DEF Init
<1> QED
  BY <1>1, <1>2 DEF Init, TypeOK, Pool

LEMMA NextTyped == TypeOK /\ [Next]_vars => TypeOK'
<1> SUFFICES ASSUME TypeOK, [Next]_vars
             PROVE  TypeOK'
  OBVIOUS
<1>0. FloorTypeOK'
  BY FloorNextTyped, PoolStepsSpareFloor DEF TypeOK
<1> USE CentsAssumption
<1> DEFINE TipTypeOK == /\ mode \in Modes
                        /\ pool \in Pool
                        /\ row \in [Employees -> Row \cup {NoRow}]
                        /\ DOMAIN work = Managers
                        /\ \A m \in Managers : WorkOK(work[m])
                        /\ \A j \in jobs : JobOK(j)
<1>S. SUFFICES TipTypeOK'
  BY <1>0 DEF TypeOK
<1>1. ASSUME NEW m \in Managers, NEW cash \in Cents, NEW card \in Cents,
             BeginDeclare(m, cash, card)
      PROVE  TipTypeOK'
  <2>1. WorkOK([op |-> "declare", cash |-> cash, card |-> card])
    BY <1>1 DEF WorkOK, BeginDeclare
  <2> QED
    BY <1>1, <2>1, WorkStep DEF BeginDeclare, Take, TypeOK
<1>2. ASSUME NEW m \in Managers, CommitDeclare(m)
      PROVE  TipTypeOK'
  <2>1. work[m].op = "declare" => {work[m].cash, work[m].card} \subseteq Nat
    BY DEF TypeOK, WorkOK
  <2> QED
    BY <1>2, <2>1, WorkStep, IdleWork DEF CommitDeclare, Continue, TypeOK, Pool
<1>3. ASSUME NEW m \in Managers, NEW cash \in Cents \cup {pool.cash},
             NEW card \in Cents \cup {pool.card}, BeginAmend(m, cash, card)
      PROVE  TipTypeOK'
  <2>1. WorkOK([op |-> "amend", cash |-> cash, card |-> card])
    BY <1>3 DEF WorkOK, TypeOK, Pool, BeginAmend
  <2> QED
    BY <1>3, <2>1, WorkStep DEF BeginAmend, Take, TypeOK
<1>4. ASSUME NEW m \in Managers, CommitAmend(m)
      PROVE  TipTypeOK'
  <2>1. work[m].op = "amend" => {work[m].cash, work[m].card} \subseteq Nat
    BY DEF TypeOK, WorkOK
  <2>2. pool' \in Pool
    BY <1>4, <2>1 DEF CommitAmend, Continue, TypeOK, Pool
  <2> QED
    BY <1>4, <2>2, WorkStep, IdleWork DEF CommitAmend, Continue, TypeOK
<1>5. ASSUME NEW m \in Managers, BeginSeal(m)
      PROVE  TipTypeOK'
  <2>1. WorkOK([op |-> "seal"])
    BY DEF WorkOK
  <2> QED
    BY <1>5, <2>1, WorkStep DEF BeginSeal, Take, TypeOK
<1>6. ASSUME NEW m \in Managers, CommitSeal(m)
      PROVE  TipTypeOK'
  <2>1. pool' \in Pool
    BY <1>6 DEF CommitSeal, TypeOK, Pool
  <2> QED
    BY <1>6, <2>1, WorkStep, IdleWork DEF CommitSeal, Continue, TypeOK
<1>7. ASSUME NEW m \in Managers, ReadShift(m)
      PROVE  TipTypeOK'
  <2> DEFINE w == [op |-> "read", hours |-> [e \in Assigned |-> HoursOf(e)],
                   total |-> PoolTotal]
  <2>1. Assigned \in SUBSET Employees
    BY <1>7 DEF ReadShift, TypeOK, FloorTypeOK
  <2>2. \A e \in Assigned : HoursOf(e) \in Hours
    BY <1>7, RosterTyped, HoursAssumption DEF ReadShift, AllWorked, TypeOK
  <2>3. PerEmployee(w.hours, Hours) /\ DOMAIN w.hours # {}
    BY <1>7, <2>1, <2>2 DEF PerEmployee, ReadShift
  <2>4. WorkOK(w)
    BY <2>3 DEF WorkOK, TypeOK, Pool, PoolTotal
  <2> QED
    BY <1>7, <2>4, WorkStep DEF ReadShift, Take, TypeOK
<1>8. ASSUME NEW m \in Managers, ReadInputs(m)
      PROVE  TipTypeOK'
  <2> DEFINE F == [e \in DOMAIN work[m].hours |->
                      [hours |-> work[m].hours[e], sales |-> PaidOrders(e)]]
             w == [op |-> "compute", total |-> work[m].total, mode |-> mode, features |-> F]
  <2>1. work[m].total \in Nat /\ PerEmployee(work[m].hours, Hours) /\ DOMAIN work[m].hours # {}
    BY <1>8 DEF ReadInputs, Continue, TypeOK, WorkOK
  <2>2. PerEmployee(F, Features)
    BY <2>1 DEF PerEmployee, Features, PaidOrders
  <2>3. WorkOK(w)
    BY <2>1, <2>2 DEF WorkOK, TypeOK
  <2> QED
    BY <1>8, <2>3, WorkStep DEF ReadInputs, Continue, TypeOK
<1>9. ASSUME NEW m \in Managers, NEW method \in {"RULES"} \cup MlMethods,
             Compute(m, method), UNCHANGED <<floorVars, mode, pool, row, jobs>>
      PROVE  TipTypeOK'
  <2>1. PICK f \in Splits(DOMAIN work[m].features, work[m].total) :
           work' = [work EXCEPT ![m] =
              [op |-> "persist", features |-> work[m].features, total |-> work[m].total,
               amounts |-> f, method |-> method]]
    BY <1>9 DEF Compute
  <2>2. work[m].total \in Nat /\ PerEmployee(work[m].features, Features)
        /\ DOMAIN work[m].features # {}
    BY <1>9 DEF Compute, TypeOK, WorkOK
  <2>3. DOMAIN f = DOMAIN work[m].features /\ PerEmployee(f, Nat)
    BY <2>2 DEF Splits, PerEmployee
  <2>4. WorkOK([op |-> "persist", features |-> work[m].features, total |-> work[m].total,
                amounts |-> f, method |-> method])
    BY <2>2, <2>3 DEF WorkOK
  <2> QED
    BY <1>9, <2>1, <2>4, WorkStep DEF TypeOK
<1>10. ASSUME NEW m \in Managers, ComputeByRules(m)
       PROVE  TipTypeOK'
  BY <1>9, <1>10 DEF ComputeByRules
<1>11. ASSUME NEW m \in Managers, ComputeByMl(m)
       PROVE  TipTypeOK'
  <2>1. work[m].mode \in MlMethods
    BY <1>11 DEF ComputeByMl, TypeOK, WorkOK, Modes, MlMethods
  <2> QED
    BY <1>9, <1>11, <2>1 DEF ComputeByMl
<1>12. ASSUME NEW m \in Managers, Persist(m)
       PROVE  TipTypeOK'
  <2>1. /\ PerEmployee(work[m].features, Features)
        /\ PerEmployee(work[m].amounts, Nat)
        /\ DOMAIN work[m].amounts = DOMAIN work[m].features
        /\ work[m].method \in {"RULES"} \cup MlMethods
    BY <1>12 DEF Persist, Continue, TypeOK, WorkOK
  <2>2. \A e \in DOMAIN work[m].amounts :
           [amount |-> work[m].amounts[e], original |-> NoAmount, method |-> work[m].method,
            source |-> work[m].method, features |-> work[m].features[e]] \in Row
    BY <2>1 DEF PerEmployee, Row, Methods
  <2>3. row' \in [Employees -> Row \cup {NoRow}]
    BY <1>12, <2>2 DEF Persist, TypeOK
  <2>4. pool' \in Pool
    BY <1>12 DEF Persist, TypeOK, Pool
  <2> QED
    BY <1>12, <2>3, <2>4, WorkStep, IdleWork DEF Persist, Continue, TypeOK
<1>13. ASSUME NEW m \in Managers, Adjust(m)
       PROVE  TipTypeOK'
  <2>1. PICK f \in [Paid -> 0..PoolTotal] :
           /\ row' = [e \in Employees |-> IF e \in Paid THEN Overridden(row[e], f[e])
                                                        ELSE row[e]]
           /\ Take(m, IF ShouldTrain
                      THEN [op |-> "enqueue",
                            job |-> [method |-> SourceMethod,
                                     tips |-> [e \in Assigned |-> f[e]]]]
                      ELSE Idle)
    BY <1>13 DEF Adjust
  <2>2. \A e \in Paid : e \in Employees /\ row[e] \in Row /\ f[e] \in Nat
    BY <2>1 DEF Paid, TypeOK, Pool, PoolTotal
  <2>3. \A e \in Paid : Overridden(row[e], f[e]) \in Row
    BY <2>2 DEF Overridden, Row, Methods
  <2>4. row' \in [Employees -> Row \cup {NoRow}]
    BY <2>1, <2>3 DEF TypeOK
  <2>5. CASE ShouldTrain
    <3> DEFINE j == [method |-> SourceMethod, tips |-> [e \in Assigned |-> f[e]]]
    <3>1. JobOK(j)
      BY <1>13, <2>2, <2>5 DEF Adjust, ShouldTrain, JobOK, PerEmployee, Paid
    <3>2. WorkOK([op |-> "enqueue", job |-> j])
      BY <3>1 DEF WorkOK
    <3> QED
      BY <1>13, <2>1, <2>4, <2>5, <3>2, WorkStep DEF Adjust, Take, TypeOK
  <2>6. CASE ~ShouldTrain
    BY <1>13, <2>1, <2>4, <2>6, WorkStep, IdleWork DEF Adjust, Take, TypeOK
  <2> QED
    BY <2>5, <2>6
<1>14. ASSUME NEW m \in Managers, Enqueue(m)
       PROVE  TipTypeOK'
  <2>1. JobOK(work[m].job)
    BY <1>14 DEF Enqueue, Continue, TypeOK, WorkOK
  <2> QED
    BY <1>14, <2>1, WorkStep, IdleWork DEF Enqueue, Continue, TypeOK
<1>15. ASSUME NEW m \in Managers, Abandon(m)
       PROVE  TipTypeOK'
  BY <1>15, WorkStep, IdleWork DEF Abandon, TypeOK
<1>16. ASSUME NEW x \in Modes, SetMode(x)
       PROVE  TipTypeOK'
  BY <1>16 DEF SetMode, TypeOK
<1>17. CASE UNCHANGED tipVars
  BY <1>17 DEF tipVars, TypeOK
<1> QED
  BY <1>1, <1>2, <1>3, <1>4, <1>5, <1>6, <1>7, <1>8, <1>10, <1>11, <1>12, <1>13, <1>14,
     <1>15, <1>16, <1>17 DEF Next, ManagerStep, vars

\* The variables of the pool keep their types: hours a distribution computes from are
\* positive, a training job is labelled with an ML method.
THEOREM Typed == Spec => []TypeOK
  BY InitTyped, NextTyped, PTL DEF Spec

-----------------------------------------------------------------------------
\* On the floor of the whole system too, an employee holds one active assignment at
\* most: HoursOf reads the one there is, and a distribution pays him once.
THEOREM RosterOneActive == Spec => []OneActiveAssignment
<1>1. Init => OneActiveAssignment
  BY DEF Init, FloorInit, OneActiveAssignment, Active
<1>2. TypeOK /\ OneActiveAssignment /\ [Next]_vars => OneActiveAssignment'
  BY PoolStepsSpareFloor, FloorNextOneActive DEF TypeOK
<1> QED
  BY <1>1, <1>2, Typed, PTL DEF Spec

-----------------------------------------------------------------------------
(* The amounts of a pool. *)

\* What a distribution inserts: the amounts the request holds, in a pool that had none.
LEMMA PersistPays ==
    ASSUME TypeOK, NEW m \in Managers, Persist(m)
    PROVE  /\ Payout' = work[m].amounts
           /\ Paid' = DOMAIN work[m].amounts
           /\ Paid = {}
           /\ Paid' \in SUBSET Employees /\ Paid' # {}
           /\ work[m].amounts \in [Paid' -> Nat]
<1> DEFINE w == work[m]
           new(e) == [amount |-> w.amounts[e], original |-> NoAmount, method |-> w.method,
                      source |-> w.method, features |-> w.features[e]]
<1>1. /\ PerEmployee(w.features, Features)
      /\ PerEmployee(w.amounts, Nat)
      /\ DOMAIN w.amounts = DOMAIN w.features
      /\ DOMAIN w.features # {}
      /\ w.method \in {"RULES"} \cup MlMethods
  BY DEF Persist, Continue, TypeOK, WorkOK
<1>2. \A e \in DOMAIN w.amounts : new(e) \in Row
  BY <1>1 DEF PerEmployee, Row, Methods
<1>3. \A e \in DOMAIN w.amounts : new(e) # NoRow /\ new(e).amount = w.amounts[e]
  BY <1>2, NoRowAssumption
<1>4. Paid = {}
  BY DEF Persist, NotYetDistributed
<1>5. row' = [e \in Employees |-> IF e \in DOMAIN w.amounts THEN new(e) ELSE row[e]]
  BY DEF Persist
<1>6. \A e \in Employees : row[e] = NoRow
  BY <1>4 DEF Paid
<1>7. Paid' = DOMAIN w.amounts
  <2>1. DOMAIN w.amounts \subseteq Employees
    BY <1>1 DEF PerEmployee
  <2> HIDE DEF new
  <2> QED
    BY <1>3, <1>5, <1>6, <2>1 DEF Paid
<1>8. Payout' = w.amounts
  <2>1. \A e \in Paid' : row'[e].amount = w.amounts[e]
    BY <1>1, <1>3, <1>5, <1>7 DEF PerEmployee
  <2> QED
    BY <1>1, <1>7, <2>1 DEF PerEmployee, Payout
<1> QED
  BY <1>1, <1>4, <1>7, <1>8 DEF PerEmployee

\* What a correction writes: an allocation of the pool's total over the rows there are.
LEMMA AdjustPays ==
    ASSUME TypeOK, NEW m \in Managers, Adjust(m)
    PROVE  /\ Paid' = Paid
           /\ Payout' \in [Paid -> Nat]
           /\ SumFunction(Payout') = PoolTotal
<1>1. PICK f \in [Paid -> 0..PoolTotal] :
         /\ Balanced(f)
         /\ row' = [e \in Employees |-> IF e \in Paid THEN Overridden(row[e], f[e])
                                                      ELSE row[e]]
  BY DEF Adjust
<1>2. \A e \in Paid : e \in Employees /\ row[e] \in Row /\ f[e] \in Nat
  BY <1>1 DEF Paid, TypeOK, Pool, PoolTotal
<1>3. \A e \in Paid : Overridden(row[e], f[e]) \in Row /\ Overridden(row[e], f[e]).amount = f[e]
  BY <1>2 DEF Overridden, Row, Methods
<1>4. Paid' = Paid
  BY <1>1, <1>3, NoRowAssumption DEF Paid
<1>5. Payout' = f
  <2>1. \A e \in Paid : row'[e].amount = f[e]
    BY <1>1, <1>2, <1>3
  <2> QED
    BY <1>1, <1>4, <2>1 DEF Payout
<1> QED
  BY <1>1, <1>2, <1>4, <1>5 DEF Balanced, Splits

LEMMA SameRowsSamePayout ==
    ASSUME UNCHANGED row
    PROVE  Paid' = Paid /\ Payout' = Payout
  BY DEF Paid, Payout

\* A write to the pool is admitted only before the rows exist, and the rows are
\* inserted and corrected to the total the pool then keeps.
LEMMA NextConserves == TypeOK /\ Conservation /\ [Next]_vars => Conservation'
<1> SUFFICES ASSUME TypeOK, Conservation, [Next]_vars
             PROVE  Conservation'
  OBVIOUS
<1> DEFINE Sums == Paid # {} => pool.status = "DISTRIBUTED" /\ SumFunction(Payout) = PoolTotal
           Holds(m) == work[m].op = "persist" => SumFunction(work[m].amounts) = work[m].total
<1>a. DOMAIN work = Managers
  BY DEF TypeOK
\* A request that is not computing holds no amounts afterwards.
<1>b. ASSUME NEW m \in Managers, NEW w, work' = [work EXCEPT ![m] = w],
             w.op = "persist" => SumFunction(w.amounts) = w.total
      PROVE  \A n \in Managers : Holds(n)'
  <2>1. \A n \in Managers : work'[n] = IF n = m THEN w ELSE work[n]
    BY <1>a, <1>b
  <2> QED
    BY <1>b, <2>1 DEF Conservation
<1>c. ASSUME UNCHANGED <<pool, row>> PROVE Sums'
  BY <1>c, SameRowsSamePayout DEF Conservation, PoolTotal
<1>d. ASSUME UNCHANGED row, pool.status # "DISTRIBUTED" PROVE Sums'
  BY <1>d, SameRowsSamePayout DEF Conservation
<1>1. ASSUME NEW m \in Managers, NEW cash \in Cents, NEW card \in Cents,
             BeginDeclare(m, cash, card)
      PROVE  Conservation'
  BY <1>1, <1>b, <1>c DEF BeginDeclare, Take, Conservation
<1>2. ASSUME NEW m \in Managers, CommitDeclare(m)
      PROVE  Conservation'
  <2>1. Sums'
    BY <1>2, <1>c, <1>d DEF CommitDeclare
  <2> QED
    BY <1>2, <2>1, <1>b DEF CommitDeclare, Continue, Conservation, Idle
<1>3. ASSUME NEW m \in Managers, NEW cash \in Cents \cup {pool.cash},
             NEW card \in Cents \cup {pool.card}, BeginAmend(m, cash, card)
      PROVE  Conservation'
  BY <1>3, <1>b, <1>c DEF BeginAmend, Take, Conservation
<1>4. ASSUME NEW m \in Managers, CommitAmend(m)
      PROVE  Conservation'
  <2>1. Sums'
    BY <1>4, <1>c, <1>d DEF CommitAmend, StillDeclared
  <2> QED
    BY <1>4, <2>1, <1>b DEF CommitAmend, Continue, Conservation, Idle
<1>5. ASSUME NEW m \in Managers, BeginSeal(m)
      PROVE  Conservation'
  BY <1>5, <1>b, <1>c DEF BeginSeal, Take, Conservation
<1>6. ASSUME NEW m \in Managers, CommitSeal(m)
      PROVE  Conservation'
  <2>1. Sums'
    BY <1>6, <1>c, <1>d DEF CommitSeal, StillDeclared
  <2> QED
    BY <1>6, <2>1, <1>b DEF CommitSeal, Continue, Conservation, Idle
<1>7. ASSUME NEW m \in Managers, ReadShift(m)
      PROVE  Conservation'
  BY <1>7, <1>b, <1>c DEF ReadShift, Take, Conservation
<1>8. ASSUME NEW m \in Managers, ReadInputs(m)
      PROVE  Conservation'
  BY <1>8, <1>b, <1>c DEF ReadInputs, Continue, Conservation
<1>9. ASSUME NEW m \in Managers, NEW method, Compute(m, method), UNCHANGED <<pool, row>>
      PROVE  Conservation'
  BY <1>9, <1>b, <1>c DEF Compute, Splits, Conservation
<1>10. ASSUME NEW m \in Managers, Persist(m)
       PROVE  Conservation'
  <2>1. work[m].op = "persist"
    BY <1>10 DEF Persist, Continue
  <2>2. SumFunction(work[m].amounts) = PoolTotal
    BY <1>10, <2>1 DEF Persist, AmountUnchanged, Conservation
  <2>3. pool'.status = "DISTRIBUTED" /\ PoolTotal' = PoolTotal
    BY <1>10 DEF Persist, PoolTotal, TypeOK, Pool
  <2>4. Sums'
    BY <1>10, <2>2, <2>3, PersistPays
  <2> QED
    BY <1>10, <2>4, <1>b DEF Persist, Continue, Conservation, Idle
<1>11. ASSUME NEW m \in Managers, Adjust(m)
       PROVE  Conservation'
  <2>1. Sums'
    BY <1>11, AdjustPays DEF Adjust, PoolTotal
  <2>2. \A n \in Managers : Holds(n)'
    BY <1>11, <1>b DEF Adjust, Take, Idle
  <2> QED
    BY <2>1, <2>2 DEF Conservation
<1>12. ASSUME NEW m \in Managers, Enqueue(m) \/ Abandon(m)
       PROVE  Conservation'
  BY <1>12, <1>b, <1>c DEF Enqueue, Abandon, Continue, Conservation, Idle
<1>13. ASSUME UNCHANGED <<pool, row, work>>
       PROVE  Conservation'
  BY <1>13, <1>c DEF Conservation
<1> QED
  BY <1>1, <1>2, <1>3, <1>4, <1>5, <1>6, <1>7, <1>8, <1>9, <1>10, <1>11, <1>12, <1>13
     DEF Next, ManagerStep, vars, tipVars, ComputeByRules, ComputeByMl, SetMode

\* Whatever the number of employees and the amounts, and however declarations,
\* corrections of the total and distributions overlap, the amounts paid from a pool sum
\* to its total.
THEOREM TipsConserved == Spec => []Conservation
<1>1. Init => Conservation
  BY DEF Init, Conservation, Paid, Idle
<1> QED
  BY <1>1, NextConserves, Typed, PTL DEF Spec

\* A pool is frozen once it is distributed: each write to it carries its status.
THEOREM DistributedPoolFrozen == Spec => PoolFrozen
<1>1. [Next]_vars => [pool.status = "DISTRIBUTED" => UNCHANGED pool]_pool
  BY DEF Next, ManagerStep, vars, tipVars, SetMode, BeginDeclare, CommitDeclare, BeginAmend,
         CommitAmend, BeginSeal, CommitSeal, StillDeclared, ReadShift, ReadInputs,
         ComputeByRules, ComputeByMl, Persist, NotYetDistributed, Adjust, Enqueue, Abandon
<1> QED
  BY <1>1, PTL DEF Spec, PoolFrozen

-----------------------------------------------------------------------------
LEMMA NextAdjustsAsAWhole == TypeOK /\ AdjustedAsAWhole /\ [Next]_vars => AdjustedAsAWhole'
<1> SUFFICES ASSUME TypeOK, AdjustedAsAWhole, [Next]_vars
             PROVE  AdjustedAsAWhole'
  OBVIOUS
<1>1. ASSUME NEW m \in Managers, Persist(m)
      PROVE  AdjustedAsAWhole'
  <2>1. work[m].method # "MANUAL_OVERRIDE"
    BY <1>1 DEF Persist, Continue, TypeOK, WorkOK, MlMethods
  <2>2. \A e \in Paid' : /\ row'[e].method = work[m].method
                         /\ row'[e].source = work[m].method
                         /\ row'[e].original = NoAmount
    BY <1>1, PersistPays DEF Persist
  <2> QED
    BY <2>1, <2>2 DEF AdjustedAsAWhole
<1>2. ASSUME NEW m \in Managers, Adjust(m)
      PROVE  AdjustedAsAWhole'
  <2>1. PICK f : row' = [e \in Employees |-> IF e \in Paid THEN Overridden(row[e], f[e])
                                                           ELSE row[e]]
    BY <1>2 DEF Adjust
  <2>2. \A e \in Paid : e \in Employees /\ row[e] \in Row
    BY DEF Paid, TypeOK
  <2>3. \A e \in Paid : /\ Overridden(row[e], f[e]).method = "MANUAL_OVERRIDE"
                        /\ Overridden(row[e], f[e]).original # NoAmount
    BY <2>2, NoAmountAssumption DEF Overridden, Row
  <2> QED
    BY <1>2, <2>1, <2>2, <2>3, AdjustPays DEF AdjustedAsAWhole
<1>3. CASE UNCHANGED row
  BY <1>3 DEF AdjustedAsAWhole, Paid
<1> QED
  BY <1>1, <1>2, <1>3
     DEF Next, ManagerStep, vars, tipVars, SetMode, BeginDeclare, CommitDeclare, BeginAmend,
         CommitAmend, BeginSeal, CommitSeal, ReadShift, ReadInputs, ComputeByRules,
         ComputeByMl, Enqueue, Abandon

\* A correction covers all the rows of a pool, so they never mix methods, and the first
\* amounts are kept by all or by none.
THEOREM CorrectionsCoverThePool == Spec => []AdjustedAsAWhole
<1>1. Init => AdjustedAsAWhole
  BY DEF Init, AdjustedAsAWhole, Paid
<1> QED
  BY <1>1, NextAdjustsAsAWhole, Typed, PTL DEF Spec

-----------------------------------------------------------------------------
\* A distribution finds no rows, and a correction covers the rows there are and keeps
\* the amount each had before the first of them.
LEMMA NextAudits ==
    TypeOK /\ [Next]_vars =>
      [Paid # {} => \A e \in Employees :
          /\ row'[e] = NoRow <=> row[e] = NoRow
          /\ row[e] # NoRow =>
                /\ row'[e].source = row[e].source
                /\ row'[e].features = row[e].features
                /\ row'[e].original \in
                      (IF row[e].original # NoAmount THEN {row[e].original}
                       ELSE {row[e].amount, NoAmount})]_row
<1> DEFINE Audited(e) ==
        /\ row'[e] = NoRow <=> row[e] = NoRow
        /\ row[e] # NoRow =>
              /\ row'[e].source = row[e].source
              /\ row'[e].features = row[e].features
              /\ row'[e].original \in
                    (IF row[e].original # NoAmount THEN {row[e].original}
                     ELSE {row[e].amount, NoAmount})
<1> SUFFICES ASSUME TypeOK, [Next]_vars
             PROVE  [Paid # {} => \A e \in Employees : Audited(e)]_row
  OBVIOUS
<1>1. ASSUME NEW m \in Managers, Persist(m)
      PROVE  Paid = {}
  BY <1>1, PersistPays
<1>2. ASSUME NEW m \in Managers, Adjust(m), NEW e \in Employees
      PROVE  Audited(e)
  <2>1. PICK f : row' = [x \in Employees |-> IF x \in Paid THEN Overridden(row[x], f[x])
                                                           ELSE row[x]]
    BY <1>2 DEF Adjust
  <2>2. CASE e \in Paid
    <3>1. row[e] \in Row /\ row'[e] = Overridden(row[e], f[e]) /\ row[e] # NoRow
      BY <1>2, <2>1, <2>2 DEF Paid, TypeOK
    <3>2. e \in Paid'
      BY <1>2, <2>2, AdjustPays
    <3> QED
      BY <3>1, <3>2 DEF Overridden, Row, Paid
  <2>3. CASE e \notin Paid
    BY <1>2, <2>1, <2>3 DEF Paid
  <2> QED
    BY <2>2, <2>3
<1>3. CASE UNCHANGED row
  BY <1>3
<1> HIDE DEF Audited
<1> QED
  BY <1>1, <1>2, <1>3
     DEF Next, ManagerStep, vars, tipVars, SetMode, BeginDeclare, CommitDeclare, BeginAmend,
         CommitAmend, BeginSeal, CommitSeal, ReadShift, ReadInputs, ComputeByRules,
         ComputeByMl, Enqueue, Abandon

\* The rows of a pool are created once, and however often they are corrected, what they
\* were computed from and the first amount stay readable.
THEOREM CorrectionsLeaveATrail == Spec => AuditTrail
  BY NextAudits, Typed, PTL DEF Spec, AuditTrail

-----------------------------------------------------------------------------
(* The pool and its rows implement TipLedger. *)

\* The ledger sums cents as the pool does.
LEMMA SameSum == \A f : Ledger!SumFunction(f) = SumFunction(f)
  BY Zenon DEF Ledger!SumFunction, SumFunction, Ledger!SumFunctionOnSet, SumFunctionOnSet,
         Ledger!FoldFunctionOnSet, FoldFunctionOnSet, Ledger!MapThenFoldSet, MapThenFoldSet

LEMMA LedgerStep ==
    TypeOK /\ Conservation /\ [Next]_vars => [Ledger!Next]_(Ledger!ledgerVars)
<1> SUFFICES ASSUME TypeOK, Conservation, [Next]_vars
             PROVE  [Ledger!Next]_(Ledger!ledgerVars)
  OBVIOUS
<1>a. ASSUME UNCHANGED <<pool, row>> PROVE UNCHANGED Ledger!ledgerVars
  BY <1>a, SameRowsSamePayout DEF Ledger!ledgerVars, PoolTotal
\* A request declares or corrects to a total that is a positive number of cents.
<1>b. ASSUME NEW m \in Managers, work[m].op \in {"declare", "amend"}
      PROVE  /\ work[m].cash \in Nat /\ work[m].card \in Nat
             /\ work[m].cash + work[m].card \in Nat \ {0}
  BY <1>b DEF TypeOK, WorkOK
<1>1. ASSUME NEW m \in Managers, CommitDeclare(m)
      PROVE  [Ledger!Next]_(Ledger!ledgerVars)
  <2>1. CASE pool.status = "NONE"
    <3>1. work[m].op = "declare" /\ pool' = [status |-> "DECLARED", cash |-> work[m].cash,
                                             card |-> work[m].card]
      BY <1>1, <2>1 DEF CommitDeclare, Continue
    <3>2. PoolTotal' \in Nat \ {0} /\ pool'.status = "DECLARED"
      BY <1>b, <3>1 DEF PoolTotal
    <3>3. Ledger!Declare
      BY <1>1, <2>1, <3>2, SameRowsSamePayout DEF CommitDeclare, Ledger!Declare
    <3> QED
      BY <3>3 DEF Ledger!Next
  <2> QED
    BY <1>1, <1>a, <2>1 DEF CommitDeclare
<1>2. ASSUME NEW m \in Managers, CommitAmend(m)
      PROVE  [Ledger!Next]_(Ledger!ledgerVars)
  <2>1. CASE StillDeclared
    <3>1. work[m].op = "amend" /\ pool' = [pool EXCEPT !.cash = work[m].cash,
                                                       !.card = work[m].card]
      BY <1>2, <2>1 DEF CommitAmend, Continue
    <3>2. PoolTotal' \in Nat \ {0} /\ pool'.status = pool.status
      BY <1>b, <3>1 DEF PoolTotal, TypeOK, Pool
    <3>3. Ledger!Correct
      BY <1>2, <2>1, <3>2, SameRowsSamePayout DEF CommitAmend, StillDeclared, Ledger!Correct
    <3> QED
      BY <3>3 DEF Ledger!Next
  <2> QED
    BY <1>2, <1>a, <2>1 DEF CommitAmend
<1>3. ASSUME NEW m \in Managers, CommitSeal(m)
      PROVE  [Ledger!Next]_(Ledger!ledgerVars)
  <2>1. CASE StillDeclared
    <3>1. PoolTotal' = PoolTotal /\ pool'.status = "DISTRIBUTED"
      BY <1>3, <2>1 DEF CommitSeal, PoolTotal, TypeOK, Pool
    <3>2. Ledger!Seal
      BY <1>3, <2>1, <3>1, SameRowsSamePayout DEF CommitSeal, StillDeclared, Ledger!Seal
    <3> QED
      BY <3>2 DEF Ledger!Next
  <2> QED
    BY <1>3, <1>a, <2>1 DEF CommitSeal
<1>4. ASSUME NEW m \in Managers, Persist(m)
      PROVE  [Ledger!Next]_(Ledger!ledgerVars)
  <2>1. PoolTotal' = PoolTotal /\ pool'.status = "DISTRIBUTED" /\ pool.status = "DECLARED"
    BY <1>4 DEF Persist, NotYetDistributed, PoolTotal, TypeOK, Pool
  <2>2. SumFunction(Payout') = PoolTotal
    BY <1>4, PersistPays DEF Persist, Continue, AmountUnchanged, Conservation
  <2>3. DOMAIN Payout' = Paid' /\ Payout' \in [Paid' -> Nat]
    BY <1>4, PersistPays DEF Payout
  <2>4. Ledger!Split
    BY <1>4, <2>1, <2>2, <2>3, PersistPays, SameSum DEF Ledger!Split
  <2> QED
    BY <2>4 DEF Ledger!Next
<1>5. ASSUME NEW m \in Managers, Adjust(m)
      PROVE  [Ledger!Next]_(Ledger!ledgerVars)
  <2>1. PoolTotal' = PoolTotal /\ pool' = pool /\ pool.status = "DISTRIBUTED" /\ Paid # {}
    BY <1>5 DEF Adjust, PoolTotal
  <2>2. DOMAIN Payout = Paid
    BY DEF Payout
  <2>3. Payout # Ledger!NoShares
    BY <2>1, <2>2 DEF Ledger!NoShares
  <2>4. Ledger!Reassign
    BY <1>5, <2>1, <2>2, <2>3, AdjustPays, SameSum DEF Ledger!Reassign
  <2> QED
    BY <2>4 DEF Ledger!Next
<1>6. CASE UNCHANGED <<pool, row>>
  BY <1>6, <1>a
<1> QED
  BY <1>1, <1>2, <1>3, <1>4, <1>5, <1>6
     DEF Next, ManagerStep, vars, tipVars, SetMode, BeginDeclare, BeginAmend, BeginSeal,
         ReadShift, ReadInputs, ComputeByRules, ComputeByMl, Enqueue, Abandon

\* The pool of a shift behaves as TipLedger says, for any number of employees, requests
\* and cents: every step of the code is one step of the ledger or none.
THEOREM TipLedgerImplemented == Spec => ImplementsLedger
<1>1. Init => Ledger!Init
  <2> SUFFICES ASSUME Init PROVE Ledger!Init
    OBVIOUS
  <2>1. Paid = {} /\ PoolTotal = 0 /\ pool.status = "NONE"
    BY DEF Init, Paid, PoolTotal
  <2>2. Payout = Ledger!NoShares
    BY <2>1 DEF Payout, Ledger!NoShares
  <2> QED
    BY <2>1, <2>2 DEF Ledger!Init
<1> QED
  BY <1>1, LedgerStep, Typed, TipsConserved, PTL DEF Spec, ImplementsLedger, Ledger!Spec

-----------------------------------------------------------------------------
(* What is handed to training. *)

Handed == jobs \cup Pending

\* Once a job is handed over all rows are MANUAL_OVERRIDE, so no later correction finds an
\* ML method to train on.
TrainingInv ==
    /\ \A j, k \in Handed : j = k
    /\ \A j \in Handed : \A e \in Paid : row[e].source = j.method
    /\ Handed # {} => Paid # {} /\ \A e \in Paid : row[e].method = "MANUAL_OVERRIDE"

LEMMA PendingStep ==
    ASSUME TypeOK, NEW m \in Managers, NEW w, work' = [work EXCEPT ![m] = w]
    PROVE  /\ Pending' \subseteq Pending \cup {w.job}
           /\ w.op # "enqueue" => Pending' \subseteq Pending
<1>1. \A n \in Managers : work'[n] = IF n = m THEN w ELSE work[n]
  BY DEF TypeOK
<1> QED
  BY <1>1 DEF Pending

\* A step that leaves the rows alone and hands nothing new over.
LEMMA TrainingQuiet ==
    ASSUME TrainingInv, UNCHANGED row, Handed' \subseteq Handed
    PROVE  TrainingInv'
  BY SameRowsSamePayout DEF TrainingInv

\* A correction that trains: the rows carry the one ML method they were computed by.
LEMMA TrainedMethod ==
    ASSUME AdjustedAsAWhole, Paid # {}, SourceMethod \in MlMethods
    PROVE  /\ \A e \in Paid : row[e].method = SourceMethod /\ row[e].source = SourceMethod
           /\ SourceMethod # "MANUAL_OVERRIDE"
<1>1. SourceMethod # "MANUAL_OVERRIDE"
  BY DEF MlMethods
<1>2. \A e \in Paid : row[e].method = SourceMethod
  BY <1>1 DEF SourceMethod
<1> QED
  BY <1>1, <1>2 DEF AdjustedAsAWhole

LEMMA NextTrains ==
    TypeOK /\ AdjustedAsAWhole /\ TrainingInv /\ [Next]_vars => TrainingInv'
<1> SUFFICES ASSUME TypeOK, AdjustedAsAWhole, TrainingInv, [Next]_vars
             PROVE  TrainingInv'
  OBVIOUS
<1>a. DOMAIN work = Managers
  BY DEF TypeOK
<1>1. ASSUME UNCHANGED <<jobs, row>>,
             \A n \in Managers : work'[n] = work[n] \/ work'[n].op # "enqueue"
      PROVE  TrainingInv'
  <2>1. Handed' \subseteq Handed
    BY <1>1 DEF Handed, Pending
  <2> QED
    BY <1>1, <2>1, TrainingQuiet
<1>2. ASSUME NEW m \in Managers, Persist(m)
      PROVE  TrainingInv'
  <2>1. Handed = {}
    BY <1>2, PersistPays DEF TrainingInv
  <2>2. Handed' \subseteq Handed
    <3>1. Idle.op # "enqueue" /\ work' = [work EXCEPT ![m] = Idle] /\ jobs' = jobs
      BY <1>2 DEF Persist, Continue, Idle
    <3> QED
      BY <3>1, PendingStep DEF Handed
  <2> QED
    BY <2>1, <2>2 DEF TrainingInv
<1>3. ASSUME NEW m \in Managers, Adjust(m)
      PROVE  TrainingInv'
  <2>1. PICK f : /\ row' = [e \in Employees |-> IF e \in Paid THEN Overridden(row[e], f[e])
                                                              ELSE row[e]]
                 /\ work' = [work EXCEPT ![m] =
                       IF ShouldTrain
                       THEN [op |-> "enqueue",
                             job |-> [method |-> SourceMethod,
                                      tips |-> [e \in Assigned |-> f[e]]]]
                       ELSE Idle]
    BY <1>3 DEF Adjust, Take
  <2>2. \A e \in Paid : e \in Employees /\ row[e] \in Row
    BY DEF Paid, TypeOK
  <2>3. \A e \in Paid' : /\ e \in Paid
                         /\ row'[e].method = "MANUAL_OVERRIDE"
                         /\ row'[e].source = row[e].source
    BY <1>3, <2>1, <2>2, AdjustPays DEF Overridden, Row
  <2>4. Paid' # {}
    BY <1>3, AdjustPays DEF Adjust
  <2>5. CASE ShouldTrain
    <3> DEFINE j == [method |-> SourceMethod, tips |-> [e \in Assigned |-> f[e]]]
    <3>1. /\ \A e \in Paid : row[e].method = SourceMethod /\ row[e].source = SourceMethod
          /\ SourceMethod # "MANUAL_OVERRIDE"
      BY <1>3, <2>5, TrainedMethod DEF Adjust, ShouldTrain
    <3>2. Handed = {}
      BY <1>3, <3>1 DEF TrainingInv, Adjust
    <3>3. Pending' \subseteq Pending \cup {j}
      <4>1. work' = [work EXCEPT ![m] = [op |-> "enqueue", job |-> j]]
        BY <2>1, <2>5
      <4>2. [op |-> "enqueue", job |-> j].job = j
        OBVIOUS
      <4> HIDE DEF j
      <4> QED
        BY <4>1, <4>2, PendingStep
    <3>4. Handed' \subseteq {j}
      BY <1>3, <3>2, <3>3 DEF Handed, Adjust
    <3>5. j.method = SourceMethod
      OBVIOUS
    <3> QED
      BY <2>3, <2>4, <3>1, <3>4, <3>5 DEF TrainingInv
  <2>6. CASE ~ShouldTrain
    <3>1. Handed' \subseteq Handed
      <4>1. Idle.op # "enqueue" /\ work' = [work EXCEPT ![m] = Idle] /\ jobs' = jobs
        BY <1>3, <2>1, <2>6 DEF Adjust, Idle
      <4> QED
        BY <4>1, PendingStep DEF Handed
    <3> QED
      BY <2>3, <2>4, <3>1 DEF TrainingInv
  <2> QED
    BY <2>5, <2>6
<1>4. ASSUME NEW m \in Managers, Enqueue(m)
      PROVE  TrainingInv'
  <2>1. work[m].job \in Pending
    BY <1>4 DEF Enqueue, Continue, Pending
  <2>2. Handed' \subseteq Handed
    <3>1. /\ Idle.op # "enqueue" /\ work' = [work EXCEPT ![m] = Idle]
          /\ jobs' = jobs \cup {work[m].job}
      BY <1>4 DEF Enqueue, Continue, Idle
    <3> QED
      BY <2>1, <3>1, PendingStep DEF Handed
  <2> QED
    BY <1>4, <2>2, TrainingQuiet DEF Enqueue
<1>5. ASSUME UNCHANGED <<jobs, row, work>>
      PROVE  TrainingInv'
  BY <1>1, <1>5
<1>6. ASSUME NEW m \in Managers, NEW method, Compute(m, method), UNCHANGED <<jobs, row>>
      PROVE  TrainingInv'
  BY <1>a, <1>1, <1>6 DEF Compute
<1>7. ASSUME NEW m \in Managers, NEW cash, NEW card,
             BeginDeclare(m, cash, card) \/ BeginAmend(m, cash, card)
      PROVE  TrainingInv'
  BY <1>a, <1>1, <1>7 DEF BeginDeclare, BeginAmend, Take
<1>8. ASSUME NEW m \in Managers,
             CommitDeclare(m) \/ CommitAmend(m) \/ CommitSeal(m) \/ Abandon(m)
      PROVE  TrainingInv'
  BY <1>a, <1>1, <1>8 DEF CommitDeclare, CommitAmend, CommitSeal, Abandon, Continue, Idle
<1>9. ASSUME NEW m \in Managers, BeginSeal(m) \/ ReadShift(m) \/ ReadInputs(m)
      PROVE  TrainingInv'
  BY <1>a, <1>1, <1>9 DEF BeginSeal, ReadShift, ReadInputs, Take, Continue
<1> QED
  BY <1>2, <1>3, <1>4, <1>5, <1>6, <1>7, <1>8, <1>9
     DEF Next, ManagerStep, vars, tipVars, SetMode, ComputeByRules, ComputeByMl

\* The model is trained on a distribution once at most and only if it computed it, whatever
\* the tenant's mode becomes in between and however often the manager corrects it.
THEOREM OnlyMlIsTrained == Spec => []TrainedOnMlOnly
<1>1. Init => TrainingInv
  BY DEF Init, TrainingInv, Handed, Pending, Idle
<1>2. TrainingInv => TrainedOnMlOnly
  <2> SUFFICES ASSUME TrainingInv PROVE TrainedOnMlOnly
    OBVIOUS
  <2>1. CASE Handed = {}
    BY <2>1, FS_EmptySet DEF TrainedOnMlOnly, Handed
  <2>2. ASSUME NEW j \in Handed PROVE TrainedOnMlOnly
    <3>1. Handed = {j}
      BY <2>2 DEF TrainingInv
    <3>2. Cardinality(Handed) = 1
      BY <3>1, FS_Singleton
    <3> QED
      BY <3>2 DEF TrainingInv, TrainedOnMlOnly, Handed
  <2> QED
    BY <2>1, <2>2
<1> QED
  BY <1>1, <1>2, NextTrains, Typed, CorrectionsCoverThePool, PTL DEF Spec
=============================================================================
