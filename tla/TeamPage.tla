------------------------------ MODULE TeamPage ------------------------------
(***************************************************************************)
(* Archiving employees in the manager's browser: the page                  *)
(* apps/web app/(dashboard)/dashboard/employees/page.tsx with its undo     *)
(* toast and its bulk bar, the delete mutation and the cached list under   *)
(* it (use-employees.ts), and EmployeesService.remove, which it calls.     *)
(*                                                                         *)
(* An archive shows a toast at once and sends the delete six seconds       *)
(* later, from a timer that "Annuler" clears.  A bulk archive does this    *)
(* with its first employee and sends the others from timers of their own.  *)
(* The mutation hook calls back (onSettled) only for the last delete it    *)
(* sent.                                                                   *)
(***************************************************************************)
EXTENDS FiniteSets

CONSTANTS
    Members,        \* the employees when the page is opened
    Nobody

ASSUME TeamAssumption == Nobody \notin Members

VARIABLES
    staff,          \* employees with deletedAt null
    list,           \* the cached list: allEmployees
    selected,       \* the checkboxes
    pending,        \* pendingArchive: whom the toast is about
    timer,          \* archiveTimerRef: whom it will delete
    recent,         \* the last archive was less than ARCHIVE_COOLDOWN_MS ago
    bulk,           \* bulkTimersRef: whom they will delete
    deletes,        \* the deletes in flight, one at most for an employee
    previous,       \* onMutate's copy of the list, per delete in flight
    heard,          \* whose delete the hook calls back for, or has called back for
    wish            \* history: what the manager last asked for an employee

teamVars == <<staff, list, selected, pending, timer, recent, bulk, deletes, previous, heard, wish>>

-----------------------------------------------------------------------------
\* The server has the request, has removed the employee, has not found it.
Delete == {"none", "sent", "removed", "refused"}

\* dropped: an archive the page gave up: another one took its timer or came too soon before it,
\* the manager left the page, the request failed.
TeamTypeOK ==
    /\ staff \subseteq Members /\ list \subseteq Members
    /\ selected \subseteq Members /\ bulk \subseteq Members
    /\ pending \in Members \cup {Nobody} /\ timer \in Members \cup {Nobody}
    /\ heard \in Members \cup {Nobody}
    /\ recent \in BOOLEAN
    /\ deletes \in [Members -> Delete]
    /\ previous \in [Members -> SUBSET Members]
    /\ wish \in [Members -> {"keep", "archive", "dropped"}]
    /\ pending # Nobody /\ timer # Nobody => pending = timer

TeamInit ==
    /\ staff = Members /\ list = Members
    /\ selected = {} /\ bulk = {}
    /\ pending = Nobody /\ timer = Nobody /\ heard = Nobody
    /\ recent = FALSE
    /\ deletes = [e \in Members |-> "none"]
    /\ previous = [e \in Members |-> {}]
    /\ wish = [e \in Members |-> "keep"]

-----------------------------------------------------------------------------
\* filteredEmployees: what can be clicked.
Listed == list \ {pending}

Underway(e) == deletes[e] # "none"

\* History: the wishes once some archives are given up; a delete that is scheduled or sent
\* elsewhere still carries one out.
GivenUp(w, gone) ==
    [e \in Members |-> IF e \in gone /\ w[e] = "archive" /\ e \notin bulk /\ ~Underway(e)
                          THEN "dropped" ELSE w[e]]

\* mutate: onMutate keeps the list and takes the employee off it.  told: the employee whose
\* delete has an onSettled of its own.
SendDelete(e, told) ==
    /\ deletes' = [deletes EXCEPT ![e] = "sent"]
    /\ previous' = [previous EXCEPT ![e] = list]
    /\ list' = list \ {e}
    /\ heard' = told

-----------------------------------------------------------------------------
(* The page *)

Check(e) ==
    /\ e \in Listed
    /\ selected' = (selected \cup {e}) \ (selected \cap {e})
    /\ UNCHANGED <<staff, list, pending, timer, recent, bulk, deletes, previous, heard, wish>>

Dismiss ==
    /\ selected # {}
    /\ selected' = {}
    /\ UNCHANGED <<staff, list, pending, timer, recent, bulk, deletes, previous, heard, wish>>

\* A timer that runs is cleared: whom it was about is not deleted.
TimerFor(e) == e

\* handleArchive, from a row or from the drawer.
ArchiveOne(e) ==
    /\ e \in Listed /\ ~recent
    /\ pending' = e /\ timer' = TimerFor(e)
    /\ recent' = TRUE
    /\ wish' = [GivenUp(wish, {timer}) EXCEPT ![e] = "archive"]
    /\ UNCHANGED <<staff, list, selected, bulk, deletes, previous, heard>>

Cool ==
    /\ recent
    /\ recent' = FALSE
    /\ UNCHANGED <<staff, list, selected, pending, timer, bulk, deletes, previous, heard, wish>>

\* Six seconds later, the cooldown is long over.
TimerFires ==
    /\ timer # Nobody /\ ~recent /\ ~Underway(timer)
    /\ SendDelete(timer, timer)
    /\ timer' = Nobody
    /\ UNCHANGED <<staff, selected, pending, recent, bulk, wish>>

MutUndoTimer == timer

\* The timer once "Annuler" is clicked.
UndoTimer == Nobody

Undo ==
    /\ pending # Nobody
    /\ pending' = Nobody
    /\ timer' = UndoTimer
    /\ wish' = [wish EXCEPT ![pending] = "keep"]
    /\ UNCHANGED <<staff, list, selected, recent, bulk, deletes, previous, heard>>

MutFlushed == Nobody

\* handleBulkArchive sends at once the delete that waits behind the toast.
Flushed == IF timer # Nobody THEN pending ELSE Nobody

\* The first of the selection then goes the way of handleArchive, cooldown included; it is not
\* there to be found if a delete has taken it off the list.
BulkArchive(first) ==
    /\ first \in selected
    /\ Flushed # Nobody => ~Underway(Flushed)
    /\ LET starts == first \in list /\ ~recent
           rest == selected \ {first}
           asked == [e \in Members |-> IF e \in selected THEN "archive" ELSE wish[e]]
           gone == (({timer} \ {pending}) \cup {first}) \ (rest \cup {Flushed, timer'})
       IN  /\ IF Flushed # Nobody THEN SendDelete(Flushed, Nobody)
              ELSE UNCHANGED <<deletes, previous, list, heard>>
           /\ IF starts THEN pending' = first /\ timer' = first /\ recent' = TRUE
              ELSE /\ pending' = IF Flushed # Nobody THEN Nobody ELSE pending
                   /\ timer' = Nobody
                   /\ UNCHANGED recent
           /\ bulk' = bulk \cup rest
           /\ wish' = GivenUp(asked, gone)
    /\ selected' = {}
    /\ UNCHANGED staff

BulkTimerFires(e) ==
    /\ e \in bulk /\ ~Underway(e)
    /\ SendDelete(e, Nobody)
    /\ bulk' = bulk \ {e}
    /\ UNCHANGED <<staff, selected, pending, timer, recent, wish>>

\* The effect's cleanup clears the timers.  The list is not kept (gcTime 0) and is loaded again
\* when the manager comes back, which is when this step ends.
LeaveTeam ==
    /\ bulk' = {}
    /\ pending' = Nobody /\ timer' = Nobody /\ heard' = Nobody
    /\ selected' = {} /\ recent' = FALSE
    /\ list' = staff
    /\ wish' = [e \in Members |-> IF wish[e] = "archive" /\ ~Underway(e) THEN "dropped"
                                  ELSE wish[e]]
    /\ UNCHANGED <<staff, deletes, previous>>

\* After a delete, or when the window gets the focus.
RefreshTeam ==
    /\ list # staff
    /\ list' = staff
    /\ UNCHANGED <<staff, selected, pending, timer, recent, bulk, deletes, previous, heard, wish>>

-----------------------------------------------------------------------------
(* A delete *)

\* EmployeesService.remove: findOne misses an employee that is removed.
RemoveOne(e) ==
    /\ deletes[e] = "sent"
    /\ deletes' = [deletes EXCEPT ![e] = IF e \in staff THEN "removed" ELSE "refused"]
    /\ staff' = staff \ {e}
    /\ UNCHANGED <<list, selected, pending, timer, recent, bulk, previous, heard, wish>>

\* onSettled, whatever the outcome, of the last delete the hook sent.
ToastEnds(e, ok) == heard = e

\* A failure restores the list of before the delete, whatever has happened to it since; both
\* outcomes ask for a refresh, which comes later, as RefreshTeam.
Settle(e, ok) ==
    /\ deletes' = [deletes EXCEPT ![e] = "none"]
    /\ list' = IF ok THEN list ELSE previous[e]
    /\ previous' = [previous EXCEPT ![e] = {}]
    /\ pending' = IF ToastEnds(e, ok) THEN Nobody ELSE pending
    /\ UNCHANGED <<staff, selected, timer, recent, bulk, heard>>

Deleted(e) ==
    /\ deletes[e] = "removed"
    /\ Settle(e, TRUE)
    /\ UNCHANGED wish

\* Refused, failed, or the answer is lost.
DeleteFailed(e) ==
    /\ Underway(e)
    /\ Settle(e, FALSE)
    /\ wish' = IF e \in staff /\ wish[e] = "archive" /\ e \notin bulk /\ timer # e
               THEN [wish EXCEPT ![e] = "dropped"] ELSE wish

TeamNext ==
    \/ Dismiss \/ Cool \/ TimerFires \/ Undo \/ LeaveTeam \/ RefreshTeam
    \/ \E e \in Members :
          \/ Check(e) \/ ArchiveOne(e) \/ BulkArchive(e) \/ BulkTimerFires(e)
          \/ RemoveOne(e) \/ Deleted(e) \/ DeleteFailed(e)

TeamSpec == TeamInit /\ [][TeamNext]_teamVars

-----------------------------------------------------------------------------
(* Correctness *)

\* employees/page.tsx:174-226, "ROB-C2: flush any pending single-archive undo before starting
\* bulk" (206): an archive the page has announced and not dropped is on its way, by a timer or
\* a delete, until the employee is removed.  A second archive within six seconds does drop the
\* first, whose timer it clears (183); a bulk archive does not.
ArchivesGoThrough ==
    \A e \in Members :
        wish[e] = "archive" => e \notin staff \/ timer = e \/ e \in bulk \/ Underway(e)

\* employees/page.tsx:76-83, 183-200: no delete is sent for an employee the manager chose to
\* keep, nor for an archive that was given up; but a bulk timer does not know of an undo of the
\* same employee.
DeletesAreAsked ==
    [][\A e \in Members :
          ~Underway(e) /\ deletes'[e] = "sent" => wish'[e] = "archive" \/ e \in bulk]_teamVars

\* employees/page.tsx:184-188, undo-toast.tsx:11-34: the toast is about an employee whose delete
\* is scheduled or in flight; it outlives the delete only if the hook sent another one since.
ToastIsTrue ==
    pending # Nobody => timer = pending \/ Underway(pending) \/ heard # pending

\* The page's state is well formed, its archives are on their way and its toast is true.
TeamSafe == TeamTypeOK /\ ArchivesGoThrough /\ ToastIsTrue
=============================================================================
