----------------------------- MODULE ShiftFloor -----------------------------
(***************************************************************************)
(* One shift of a restaurant while it is staffed, sold on and closed:      *)
(* apps/api/src/shifts, apps/api/src/orders and the removal of an employee *)
(* (apps/api/src/employees).                                               *)
(*                                                                         *)
(* Every mutation is an interactive PostgreSQL transaction at the default  *)
(* isolation, READ COMMITTED: it first reads what it checks, then writes,  *)
(* and another transaction may commit in between.  Begin... is the reads   *)
(* of a transaction and its checks, Commit... its write with the conditions*)
(* the write itself carries (a WHERE clause, a unique index), RollBack any *)
(* error or crash in between.                                              *)
(***************************************************************************)
EXTENDS Integers, FiniteSets

CONSTANTS
    Employees,      \* the employees of the tenant
    AssignmentIds,  \* ids of shift_assignments rows; bounds how many are inserted
    Orders,         \* ids of orders; bounds how many are opened
    Hours,          \* the positive hours an assignment may carry
    Clerks,         \* the HTTP requests of the floor in flight at a time
    Nobody          \* no employee, no closer

ASSUME HoursAssumption == Hours \subseteq Nat \ {0}
ASSUME NobodyAssumption == Nobody \notin Employees /\ Nobody \notin Clerks

VARIABLES
    shift,          \* the row of shifts
    hired,          \* employees whose row is active and not soft deleted
    assignment,     \* the rows of shift_assignments
    order,          \* the rows of orders
    task            \* per clerk, the transaction in flight and what it read

floorVars == <<shift, hired, assignment, order, task>>

-----------------------------------------------------------------------------
Idle == [op |-> "idle"]

\* Nothing in the source writes IN_PROGRESS or CANCELLED to a shift.
Shift == [status : {"PLANNED", "CLOSED"}, closedBy : Clerks \cup {Nobody}]

\* "free" is an id not inserted yet, "removed" a row with deleted_at set; hours
\* are the effective hours, hoursWorked ?? scheduledHours.
Assignment == [state : {"free", "active", "removed"},
               employee : Employees \cup {Nobody},
               hours : Hours \cup {0}]

Order == [status : {"free", "OPEN", "PAID"}, server : Employees \cup {Nobody}]

Task == {Idle}
        \cup [op : {"add"}, employee : Employees, hours : Hours]
        \cup [op : {"edit"}, row : AssignmentIds, hours : Hours \cup {0}]
        \cup [op : {"remove"}, row : AssignmentIds]
        \cup [op : {"close"}]
        \cup [op : {"open"}, order : Orders, server : Employees]
        \cup [op : {"pay"}, order : Orders]

FloorTypeOK ==
    /\ shift \in Shift
    /\ hired \in SUBSET Employees
    /\ assignment \in [AssignmentIds -> Assignment]
    /\ order \in [Orders -> Order]
    /\ task \in [Clerks -> Task]

\* A shift just created by POST /shifts, nobody assigned to it yet.
FloorInit ==
    /\ shift = [status |-> "PLANNED", closedBy |-> Nobody]
    /\ hired = Employees
    /\ assignment = [a \in AssignmentIds |->
                        [state |-> "free", employee |-> Nobody, hours |-> 0]]
    /\ order = [o \in Orders |-> [status |-> "free", server |-> Nobody]]
    /\ task = [c \in Clerks |-> Idle]

-----------------------------------------------------------------------------
Active == {a \in AssignmentIds : assignment[a].state = "active"}
Assigned == {assignment[a].employee : a \in Active}
HoursOf(e) == assignment[CHOOSE a \in Active : assignment[a].employee = e].hours
PaidOrders(e) == {o \in Orders : order[o].status = "PAID" /\ order[o].server = e}

Accepting == shift.status # "CLOSED"

Start(c, t) == task[c] = Idle /\ task' = [task EXCEPT ![c] = t]
Finish(c) == task' = [task EXCEPT ![c] = Idle]

-----------------------------------------------------------------------------
(* Assignments. *)

BeginAdd(c, e, h) ==
    /\ Accepting
    /\ e \in hired
    /\ Start(c, [op |-> "add", employee |-> e, hours |-> h])
    /\ UNCHANGED <<shift, hired, assignment, order>>

MutNoUniqueIndex(e) == TRUE

\* The partial unique index on (tenant, shift, employee) WHERE deleted_at IS NULL.
UniqueIndexAdmits(e) == e \notin Assigned

CommitAdd(c) ==
    /\ task[c].op = "add"
    /\ \/ /\ UniqueIndexAdmits(task[c].employee)
          /\ \E a \in AssignmentIds :
                /\ assignment[a].state = "free"
                /\ assignment' = [assignment EXCEPT ![a] =
                        [state |-> "active", employee |-> task[c].employee,
                         hours |-> task[c].hours]]
       \/ /\ ~UniqueIndexAdmits(task[c].employee)   \* 409 employeeAlreadyAssigned
          /\ UNCHANGED assignment
    /\ Finish(c)
    /\ UNCHANGED <<shift, hired, order>>

\* UpdateAssignmentDto accepts 0 hours worked, CreateAssignmentDto does not.
BeginEdit(c, e, h) ==
    /\ Accepting
    /\ \E a \in Active :
          /\ assignment[a].employee = e
          /\ Start(c, [op |-> "edit", row |-> a, hours |-> h])
    /\ UNCHANGED <<shift, hired, assignment, order>>

MutCommitEdit(c) ==
    /\ task[c].op = "edit"
    /\ assignment' = [assignment EXCEPT ![task[c].row].hours = task[c].hours,
                                        ![task[c].row].state = "active"]
    /\ Finish(c)
    /\ UNCHANGED <<shift, hired, order>>

\* The write is by id alone: it lands on a row removed in between, and leaves it removed.
CommitEdit(c) ==
    /\ task[c].op = "edit"
    /\ assignment' = [assignment EXCEPT ![task[c].row].hours = task[c].hours]
    /\ Finish(c)
    /\ UNCHANGED <<shift, hired, order>>

BeginRemove(c, e) ==
    /\ Accepting
    /\ \E a \in Active :
          /\ assignment[a].employee = e
          /\ Start(c, [op |-> "remove", row |-> a])
    /\ UNCHANGED <<shift, hired, assignment, order>>

CommitRemove(c) ==
    /\ task[c].op = "remove"
    /\ assignment' = [assignment EXCEPT ![task[c].row].state = "removed"]
    /\ Finish(c)
    /\ UNCHANGED <<shift, hired, order>>

-----------------------------------------------------------------------------
(* Closing the shift. *)

BeginClose(c) ==
    /\ Accepting
    /\ Active # {}
    /\ Start(c, [op |-> "close"])
    /\ UNCHANGED <<shift, hired, assignment, order>>

\* updateMany ... WHERE status <> 'CLOSED'
CloseGuard == shift.status # "CLOSED"

CommitClose(c) ==
    /\ task[c].op = "close"
    /\ shift' = IF CloseGuard THEN [status |-> "CLOSED", closedBy |-> c]
                              ELSE shift     \* 409 concurrentCloseDetected
    /\ Finish(c)
    /\ UNCHANGED <<hired, assignment, order>>

-----------------------------------------------------------------------------
(* Orders.  Only OPEN and PAID are ever written; tables, menu items, prices and *)
(* taxes are left out.                                                          *)

MutBeginOpen(c, o, e) ==
    /\ Accepting
    /\ e \in hired
    /\ Start(c, [op |-> "open", order |-> o, server |-> e])
    /\ UNCHANGED <<shift, hired, assignment, order>>

BeginOpen(c, o, e) ==
    /\ Accepting
    /\ e \in hired \cap Assigned
    /\ Start(c, [op |-> "open", order |-> o, server |-> e])
    /\ UNCHANGED <<shift, hired, assignment, order>>

MutCommitOpen(c) ==
    /\ task[c].op = "open"
    /\ order[task[c].order].status = "free"
    /\ order' = [order EXCEPT ![task[c].order] =
                    [status |-> "SENT", server |-> task[c].server]]
    /\ Finish(c)
    /\ UNCHANGED <<shift, hired, assignment>>

CommitOpen(c) ==
    /\ task[c].op = "open"
    /\ order[task[c].order].status = "free"
    /\ order' = [order EXCEPT ![task[c].order] =
                    [status |-> "OPEN", server |-> task[c].server]]
    /\ Finish(c)
    /\ UNCHANGED <<shift, hired, assignment>>

\* Nothing here looks at the shift: an order is payable after the shift is closed.
BeginPay(c, o) ==
    /\ order[o].status = "OPEN"
    /\ Start(c, [op |-> "pay", order |-> o])
    /\ UNCHANGED <<shift, hired, assignment, order>>

CommitPay(c) ==
    /\ task[c].op = "pay"
    /\ order' = IF order[task[c].order].status = "OPEN"
                THEN [order EXCEPT ![task[c].order].status = "PAID"]
                ELSE order                   \* 409 concurrentPaymentDetected
    /\ Finish(c)
    /\ UNCHANGED <<shift, hired, assignment>>

-----------------------------------------------------------------------------
RemoveEmployee(e) ==
    /\ e \in hired
    /\ hired' = hired \ {e}
    /\ UNCHANGED <<shift, assignment, order, task>>

RollBack(c) ==
    /\ task[c] # Idle
    /\ Finish(c)
    /\ UNCHANGED <<shift, hired, assignment, order>>

ClerkStep(c) ==
    \/ \E e \in Employees, h \in Hours : BeginAdd(c, e, h)
    \/ \E e \in Employees, h \in Hours \cup {0} : BeginEdit(c, e, h)
    \/ \E e \in Employees : BeginRemove(c, e)
    \/ \E o \in Orders, e \in Employees : BeginOpen(c, o, e)
    \/ \E o \in Orders : BeginPay(c, o)
    \/ BeginClose(c)
    \/ CommitAdd(c) \/ CommitEdit(c) \/ CommitRemove(c) \/ CommitClose(c)
    \/ CommitOpen(c) \/ CommitPay(c)
    \/ RollBack(c)

FloorNext ==
    \/ \E c \in Clerks : ClerkStep(c)
    \/ \E e \in Employees : RemoveEmployee(e)

FloorSpec == FloorInit /\ [][FloorNext]_floorVars

-----------------------------------------------------------------------------
(* Properties. *)

\* Whatever assignment requests overlap, an employee never holds two active
\* assignments of the shift, so no one is paid twice by a distribution.
OneActiveAssignment ==
    \A a, b \in Active : assignment[a].employee = assignment[b].employee => a = b

\* An assignment that was removed is never paid again: an edit that was checked
\* before the removal and written after it does not bring the row back, and the
\* employee a row stands for never changes.
RemovedForGood ==
    [][\A a \in AssignmentIds :
          /\ assignment[a].state = "removed" => assignment'[a].state = "removed"
          /\ assignment[a].state # "free" =>
                assignment'[a].employee = assignment[a].employee]_assignment

\* A shift is closed by one request only: of two that overlap, the second changes
\* neither the status nor who closed it ("protégée contre les doubles exécutions",
\* shifts.controller.ts).
ClosedOnce == [][shift.status = "CLOSED" => UNCHANGED shift]_shift

\* Every order belongs to an employee who was assigned to the shift at some point,
\* even if the assignment was removed while the order was being opened.
OrdersComeFromStaff ==
    \A o \in Orders : order[o].status # "free" =>
        \E a \in AssignmentIds : /\ assignment[a].state # "free"
                                 /\ assignment[a].employee = order[o].server
=============================================================================
