----------------------------- MODULE ShiftScreen -----------------------------
(***************************************************************************)
(* The page of one shift in the manager's browser, apps/web                *)
(* app/(dashboard)/dashboard/shifts/[id]/page.tsx: its rows                *)
(* (assignment-row.tsx), the dialog that assigns an employee, the dialog   *)
(* that closes the shift and declares its tips (close-shift-dialog.tsx),   *)
(* the mutations and the cached query under them (use-shifts.ts,           *)
(* use-tip-pools.ts), and the requests they send, which the API            *)
(* (apps/api/src/shifts, tip-pools) checks in one step of a transaction    *)
(* and writes in a later one.  Other managers change the shift as well.    *)
(*                                                                         *)
(* The page shows the cached shift, which a mutation changes before the    *)
(* server has answered, and which a refresh replaces.                      *)
(***************************************************************************)
EXTENDS Naturals, FiniteSets

CONSTANTS
    Rows,           \* employees, assigned to the shift or not
    Team,           \* those assigned when the page is opened
    Hours,          \* hours worked; 0 until somebody enters them
    Slots,          \* requests of the rows; bounds how many are sent
    MaxOther,       \* bound on the changes of other managers
    Absent,         \* of a row: not assigned
    None

ASSUME ScreenAssumption ==
    /\ Team \subseteq Rows /\ Team # {}
    /\ 0 \in Hours
    /\ MaxOther \in Nat
    /\ Absent \notin Hours
    /\ None \notin Rows

VARIABLES
    server,         \* the shift and its assignments in the database
    pool,           \* whether the tips of the shift are declared
    view,           \* the cached shift, which is what the page shows
    fetch,          \* the refresh in flight
    typed,          \* what is typed in a row and not yet saved
    edit,           \* the requests of the rows
    latest,         \* the slot whose state the rows see: of the last update
    dialog,         \* the close dialog and the request it waits for
    others,         \* changes of other managers so far
    outdated,       \* history: the server changed, or a refresh failed, since the last read
    overlap,        \* history: a request wrote between another's check and write
    owes            \* history: the page closed the shift and must declare its tips

vars == <<server, pool, view, fetch, typed, edit, latest, dialog, others,
          outdated, overlap, owes>>

-----------------------------------------------------------------------------
Shift == [closed : BOOLEAN, hours : [Rows -> Hours \cup {Absent}]]

Fetch == [at : {"idle", "asked"}] \cup [at : {"read"}, shift : Shift]
NoFetch == [at |-> "idle"]
Asked == [at |-> "asked"]

\* hours: what the row is set to; 0 where a row is added.  was: the view before, of a request
\* that changes it.  The server has the request, has checked it (void: the row that was found
\* is removed since), has answered.
Edit == [at : {"sent", "checked", "void"}, kind : {"update", "remove", "add"},
         row : Rows, hours : Hours, was : Shift \cup {None}]
        \cup [at : {"done"}, row : Rows] \cup [at : {"refused"}, row : Rows, was : Shift \cup {None}]
Free == [at |-> "free"]
Settled == [at |-> "settled"]

\* heard: the page that sent the request is still there.
Dialog == [at : {"closed", "open", "error"}]
          \cup [at : {"closing", "counted", "unclosed", "declaring", "declared", "conflict",
                      "failed"},
                heard : BOOLEAN]
          \cup [at : {"sealed"}, heard : BOOLEAN, shift : Shift]

\* One field has the focus at a time.
Draft == {None} \cup [row : Rows, hours : Hours]

ScreenTypeOK ==
    /\ server \in Shift /\ view \in Shift
    /\ pool \in BOOLEAN
    /\ fetch \in Fetch
    /\ typed \in Draft
    /\ edit \in [Slots -> Edit \cup {Free, Settled}]
    /\ latest \in Slots \cup {None}
    /\ dialog \in Dialog
    /\ others \in 0..MaxOther
    /\ outdated \in BOOLEAN /\ overlap \in BOOLEAN /\ owes \in BOOLEAN

Assigned(s) == {r \in Rows : s.hours[r] \in Hours}

Init ==
    /\ server = [closed |-> FALSE, hours |-> [r \in Rows |-> IF r \in Team THEN 0 ELSE Absent]]
    /\ view = server
    /\ pool = FALSE
    /\ fetch = NoFetch
    /\ typed = None
    /\ edit = [k \in Slots |-> Free]
    /\ latest = None
    /\ dialog = [at |-> "closed"]
    /\ others = 0
    /\ outdated = FALSE /\ overlap = FALSE /\ owes = FALSE

-----------------------------------------------------------------------------
InFlight == {k \in Slots : edit[k] \notin {Free, Settled}}

\* A row keeps what is typed in it until the value it shows is another one.
Synced(v) == IF typed # None /\ v.hours[typed.row] # view.hours[typed.row] THEN None ELSE typed

Show(v) == view' = v /\ typed' = Synced(v)

\* The page and each of its rows.
Locked == view.closed

\* The dialog covers the rows.
AtRows == ~Locked /\ (dialog.at = "closed" \/ ("heard" \in DOMAIN dialog /\ ~dialog.heard))

-----------------------------------------------------------------------------
(* The cached query *)

\* The window gets the focus and the shift is stale: a refresh in flight is kept.
Focus ==
    /\ fetch = NoFetch
    /\ fetch' = Asked
    /\ UNCHANGED <<server, pool, view, typed, edit, latest, dialog, others, outdated, overlap,
                   owes>>

ReadShift ==
    /\ fetch = Asked
    /\ fetch' = [at |-> "read", shift |-> server]
    /\ outdated' = FALSE
    /\ UNCHANGED <<server, pool, view, typed, edit, latest, dialog, others, overlap, owes>>

Deliver ==
    /\ fetch.at = "read"
    /\ Show(fetch.shift)
    /\ fetch' = NoFetch
    /\ UNCHANGED <<server, pool, edit, latest, dialog, others, outdated, overlap, owes>>

\* After the retries.
LoseFetch ==
    /\ fetch # NoFetch
    /\ fetch' = NoFetch
    /\ outdated' = TRUE
    /\ UNCHANGED <<server, pool, view, typed, edit, latest, dialog, others, overlap, owes>>

-----------------------------------------------------------------------------
(* The rows *)

\* The hook reports one mutation at a time: a row is disabled by its own update only while no
\* other row has sent a later one.
Updating(r) == latest # None /\ edit[latest].row = r

Type(r, h) ==
    /\ AtRows /\ ~Updating(r)
    /\ typed = None
    /\ view.hours[r] \in Hours \ {h}
    /\ typed' = [row |-> r, hours |-> h]
    /\ UNCHANGED <<server, pool, view, fetch, edit, latest, dialog, others, outdated, overlap,
                   owes>>

Send(k, kind, r, h, was) ==
    edit' = [edit EXCEPT ![k] =
                [at |-> "sent", kind |-> kind, row |-> r, hours |-> h, was |-> was]]

\* Leaving the field saves it.  The refresh in flight is cancelled, lest it bring back the
\* old value.
SaveHours(k) ==
    /\ typed # None
    /\ edit[k] = Free
    /\ Send(k, "update", typed.row, typed.hours, view)
    /\ latest' = k
    /\ fetch' = NoFetch
    /\ view' = [view EXCEPT !.hours[typed.row] = typed.hours]
    /\ typed' = None
    /\ UNCHANGED <<server, pool, dialog, others, outdated, overlap, owes>>

RemoveRow(k, r) ==
    /\ AtRows /\ typed = None
    /\ edit[k] = Free
    /\ view.hours[r] \in Hours
    /\ Send(k, "remove", r, 0, view)
    /\ fetch' = NoFetch
    /\ Show([view EXCEPT !.hours[r] = Absent])
    /\ UNCHANGED <<server, pool, latest, dialog, others, outdated, overlap, owes>>

\* The row appears with the refresh.
AddRow(k, r) ==
    /\ AtRows /\ typed = None
    /\ edit[k] = Free
    /\ view.hours[r] = Absent
    /\ Send(k, "add", r, 0, None)
    /\ UNCHANGED <<server, pool, view, fetch, typed, latest, dialog, others, outdated, overlap,
                   owes>>

MutAllowed(e) == e.kind = "add" \/ server.hours[e.row] \in Hours

\* What updateAssignment, removeAssignment and addAssignment check.
Allowed(e) == ~server.closed /\ (e.kind = "add" \/ server.hours[e.row] \in Hours)

\* The edits once row r is set to h.
Orphaned(r, h) ==
    [k \in Slots |->
        IF h = Absent /\ k \in InFlight /\ edit[k].row = r /\ edit[k].at = "checked" /\ edit[k].kind # "add"
        THEN [edit[k] EXCEPT !.at = "void"] ELSE edit[k]]

Done(e) == [at |-> "done", row |-> e.row]
Refused(e) == [at |-> "refused", row |-> e.row, was |-> e.was]

\* Refused, or lost on the way.
CheckEdit(k) ==
    /\ edit[k].at = "sent"
    /\ \/ Allowed(edit[k]) /\ edit' = [edit EXCEPT ![k].at = "checked"]
       \/ edit' = [edit EXCEPT ![k] = Refused(@)]
    /\ UNCHANGED <<server, pool, view, fetch, typed, latest, dialog, others, outdated, overlap,
                   owes>>

\* Updates and removals are by the id of the row that was found; the unique index refuses to
\* assign an employee twice.  The answer may be lost.
WriteEdit(k) ==
    /\ edit[k].at \in {"checked", "void"}
    /\ LET e == edit[k]
           hours == IF e.kind = "remove" THEN Absent ELSE e.hours
           taken == e.kind = "add" /\ server.hours[e.row] # Absent
       IN  \/ /\ e.at = "checked" /\ ~taken
              /\ server' = [server EXCEPT !.hours[e.row] = hours]
              /\ \E answer \in {Done(e), Refused(e)} :
                    edit' = [Orphaned(e.row, hours) EXCEPT ![k] = answer]
           \/ /\ e.at = "void" \/ taken
              /\ \/ ~taken /\ edit' = [edit EXCEPT ![k] = Done(e)]
                 \/ edit' = [edit EXCEPT ![k] = Refused(e)]
              /\ UNCHANGED server
    /\ overlap' = (overlap \/ dialog.at = "counted")
    /\ UNCHANGED <<pool, view, fetch, typed, latest, dialog, others, outdated, owes>>

MutRefreshed(ok) == IF ok THEN Asked ELSE fetch

\* onSettled invalidates the query whatever the answer, which drops the refresh in flight.
Refreshed(ok) == Asked

\* onError brings back the view of the request, if the request changed it.
Restored(e) == IF e.was = None THEN view ELSE e.was

\* onSuccess files the answer, an assignment, under its own id: the shift shown is the
\* optimistic one.
SettleEdit(k) ==
    /\ \/ edit[k].at = "done" /\ UNCHANGED <<view, typed>> /\ fetch' = Refreshed(TRUE)
       \/ edit[k].at = "refused" /\ Show(Restored(edit[k])) /\ fetch' = Refreshed(FALSE)
    /\ edit' = [edit EXCEPT ![k] = Settled]
    /\ latest' = IF latest = k THEN None ELSE latest
    /\ UNCHANGED <<server, pool, dialog, others, outdated, overlap, owes>>

-----------------------------------------------------------------------------
(* The close dialog *)

OpenDialog ==
    /\ dialog.at = "closed" /\ ~Locked /\ typed = None
    /\ dialog' = [at |-> "open"]
    /\ UNCHANGED <<server, pool, view, fetch, typed, edit, latest, others, outdated, overlap,
                   owes>>

CloseDialog ==
    /\ dialog.at \in {"open", "error"}
    /\ dialog' = [at |-> "closed"]
    /\ UNCHANGED <<server, pool, view, fetch, typed, edit, latest, others, outdated, overlap,
                   owes>>

\* Two amounts of 0 ask for a confirmation and are sent.
Seal ==
    /\ dialog.at = "open" /\ ~Locked
    /\ dialog' = [at |-> "closing", heard |-> TRUE]
    /\ UNCHANGED <<server, pool, view, fetch, typed, edit, latest, others, outdated, overlap,
                   owes>>

MutClosable == ~server.closed

Closable == ~server.closed /\ Assigned(server) # {}

CountAssignments ==
    /\ dialog.at = "closing"
    /\ \/ Closable /\ dialog' = [dialog EXCEPT !.at = "counted"]
       \/ dialog' = [dialog EXCEPT !.at = "unclosed"]
    /\ UNCHANGED <<server, pool, view, fetch, typed, edit, latest, others, outdated, overlap,
                   owes>>

\* updateMany ... WHERE status <> 'CLOSED'.  The answer, the shift as it is now, may be lost.
CommitClose ==
    /\ dialog.at = "counted"
    /\ IF server.closed
       THEN dialog' = [dialog EXCEPT !.at = "unclosed"] /\ UNCHANGED <<server, overlap, owes>>
       ELSE /\ server' = [server EXCEPT !.closed = TRUE]
            /\ overlap' = (overlap \/ \E k \in InFlight : edit[k].at = "checked")
            /\ \/ /\ dialog' = [at |-> "sealed", heard |-> dialog.heard, shift |-> server']
                  /\ owes' = dialog.heard
               \/ dialog' = [dialog EXCEPT !.at = "unclosed"] /\ owes' = FALSE
    /\ UNCHANGED <<pool, view, fetch, typed, edit, latest, others, outdated>>

MutDeclares(d) == FALSE

\* The call's own onSuccess, which the page must still be there to run.
Declares(d) == d.heard

\* The shift is shown closed before its tips are declared.
CloseAnswered ==
    /\ \/ /\ dialog.at = "sealed"
          /\ Show(dialog.shift)
          /\ dialog' = IF Declares(dialog)
                       THEN [at |-> "declaring", heard |-> TRUE]
                       ELSE [at |-> "closed"]
       \/ /\ dialog.at = "unclosed"
          /\ dialog' = IF dialog.heard THEN [at |-> "open"] ELSE [at |-> "closed"]
          /\ UNCHANGED <<view, typed>>
    /\ fetch' = Refreshed(dialog.at = "sealed")
    /\ UNCHANGED <<server, pool, edit, latest, others, outdated, overlap, owes>>

\* tip-pools: create.  A total of 0 is refused; the request or its answer may be lost.
Declare ==
    /\ dialog.at = "declaring"
    /\ \/ /\ server.closed /\ ~pool
          /\ pool' = TRUE
          /\ \E a \in {"declared", "failed"} : dialog' = [dialog EXCEPT !.at = a]
          /\ owes' = owes
       \/ /\ server.closed /\ pool
          /\ dialog' = [dialog EXCEPT !.at = "conflict"]
          /\ UNCHANGED <<pool, owes>>
       \/ /\ dialog' = [dialog EXCEPT !.at = "failed"]
          /\ owes' = FALSE
          /\ UNCHANGED pool
    /\ UNCHANGED <<server, view, fetch, typed, edit, latest, others, outdated, overlap>>

DeclareAnswered ==
    /\ dialog.at \in {"declared", "conflict", "failed"}
    /\ dialog' = IF dialog.at = "failed" /\ dialog.heard THEN [at |-> "error"]
                                                         ELSE [at |-> "closed"]
    /\ fetch' = Refreshed(dialog.at = "declared")
    /\ UNCHANGED <<server, pool, view, typed, edit, latest, others, outdated, overlap, owes>>

\* The manager goes to another page and comes back: requests go on, unheard.
Leave ==
    /\ dialog' = IF dialog.at \in {"open", "error", "closed"} THEN [at |-> "closed"]
                 ELSE [dialog EXCEPT !.heard = FALSE]
    /\ dialog' # dialog \/ typed # None
    /\ owes' = (owes /\ dialog.at # "sealed")
    /\ typed' = None
    /\ latest' = None
    /\ UNCHANGED <<server, pool, view, fetch, edit, others, outdated, overlap>>

-----------------------------------------------------------------------------
(* Other managers, whose requests are checked and written in one step *)

Other ==
    /\ others < MaxOther
    /\ others' = others + 1
    /\ \/ /\ \E r \in Rows, h \in Hours \cup {Absent} :
                /\ ~server.closed /\ server.hours[r] \in Hours \ {h}
                /\ server' = [server EXCEPT !.hours[r] = h]
                /\ edit' = Orphaned(r, h)
          /\ overlap' = (overlap \/ dialog.at = "counted")
          /\ UNCHANGED pool
       \/ /\ Closable
          /\ server' = [server EXCEPT !.closed = TRUE]
          /\ overlap' = (overlap \/ \E k \in InFlight : edit[k].at = "checked")
          /\ UNCHANGED <<pool, edit>>
       \/ /\ server.closed /\ ~pool
          /\ pool' = TRUE
          /\ UNCHANGED <<server, overlap, edit>>
    /\ outdated' = TRUE
    /\ UNCHANGED <<view, fetch, typed, latest, dialog, owes>>

-----------------------------------------------------------------------------
RowNext(k) ==
    \/ SaveHours(k) \/ \E r \in Rows : RemoveRow(k, r) \/ AddRow(k, r)
    \/ CheckEdit(k) \/ WriteEdit(k) \/ SettleEdit(k)

DialogNext ==
    \/ OpenDialog \/ CloseDialog \/ Seal
    \/ CountAssignments \/ CommitClose \/ CloseAnswered
    \/ Declare \/ DeclareAnswered

Next ==
    \/ Focus \/ ReadShift \/ Deliver \/ LoseFetch
    \/ \E r \in Rows, h \in Hours : Type(r, h)
    \/ \E k \in Slots : RowNext(k)
    \/ DialogNext \/ Leave \/ Other

Spec == Init /\ [][Next]_vars

-----------------------------------------------------------------------------
\* Once every request of the page is answered, the page shows what the server holds, whatever
\* optimistic values, refusals and refreshes overlapped, unless another manager changed the
\* shift since or the last refresh failed (use-shifts.ts:105-176).
Converges ==
    /\ fetch = NoFetch /\ InFlight = {} /\ ~outdated
    /\ dialog.at \in {"closed", "open", "error"}
    => view = server

\* A page that closed the shift declares its tips, or is still on its way to, unless an answer
\* is lost, the manager leaves, or both amounts are 0: no screen declares them afterwards
\* (close-shift-dialog.tsx:127-170).
SealedIsDeclared ==
    owes /\ ~pool => dialog.at \in {"sealed", "declaring"}

\* A closed shift has an assignment, unless a removal is written between the count of closeShift
\* and its update, or is checked before the close and written after it (shifts.service.ts:310).
StaffedWhenClosed == server.closed /\ ~overlap => Assigned(server) # {}

\* The page's state is well formed, and the shift it may close is not left without staff.
ScreenSafe == ScreenTypeOK /\ StaffedWhenClosed

\* The assignments of a closed shift change only through a request that was checked before
\* the close (shifts.service.ts:192-296).
FrozenWhenClosed ==
    [][server.closed /\ ~overlap => server'.hours = server.hours]_vars
=============================================================================
