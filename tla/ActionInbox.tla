----------------------------- MODULE ActionInbox -----------------------------
(***************************************************************************)
(* The managers' inbox over a shift, its pool and the disputes about it:   *)
(* apps/api/src/action-inbox.  A refresh, sent by a manager's browser, runs*)
(* five detectors side by side, reads the items, then creates and resolves *)
(* them one statement at a time.  Nothing but the unique index on          *)
(* (tenant, dedupeKey) protects it from another refresh or from a manager  *)
(* who answers meanwhile.  What the detectors read moves on its own here;  *)
(* ShiftFloor, TipDistribution and Disputes say how.                       *)
(*                                                                         *)
(* The audit entry that follows each write is left out: nothing reads it.  *)
(***************************************************************************)
EXTENDS FiniteSets

CONSTANTS
    DisputeIds,     \* ids of tip_disputes rows
    Managers,       \* the managers, one updateStatus request of each in flight
    None,           \* nobody
    Sweeps          \* the refresh requests; bounds how many are sent

VARIABLES
    shift,          \* the shift: status, whether anyone is assigned to it
    when,           \* the shift starts within 48 hours, has started, is 30 days old
    pool,           \* the status of its tip pool; no pool counts as DECLARED
    dispute,        \* per dispute about it, whether it is OPEN
    item,           \* per dedupeKey, the row of action_items
    sweep,          \* per refresh, how far it is
    desk,           \* per manager, the answer about to be written
    undisturbed     \* history: no step of anyone else since the refresh began

worldVars == <<shift, when, pool, dispute>>
inboxVars == <<item, sweep, desk, undisturbed>>
vars == <<worldVars, inboxVars>>

-----------------------------------------------------------------------------
\* One shift and one pool: the type is the whole dedupeKey, save for disputes.
Kinds == {"DISTRIBUTION_MISSING", "DISTRIBUTION_PENDING_APPROVAL", "SHIFT_CLOSE_OVERDUE",
          "SHIFT_UNASSIGNED"}
Keys == Kinds \cup DisputeIds

\* What the detectors query; the three that query shifts count as one.
Tables == {"shifts", "tip_pools", "tip_disputes"}

Item == [status : {"none", "OPEN", "RESOLVED", "DISMISSED"}, by : Managers \cup {None}]

NoSweep == [at |-> "idle"]
Over == [at |-> "over"]
Sweep == {NoSweep, Over}
         \cup [at : {"detect"}, todo : SUBSET Tables, found : SUBSET Keys]
         \cup [at : {"read"}, found : SUBSET Keys]
         \cup [at : {"write"}, new : SUBSET Keys, stale : SUBSET Keys]

NoAnswer == [at |-> "idle"]
Answer == {NoAnswer} \cup [at : {"write"}, key : Keys]

InboxTypeOK ==
    /\ shift \in [status : {"PLANNED", "CLOSED"}, staffed : BOOLEAN]
    /\ when \in {"soon", "past", "old"}
    /\ pool \in {"DECLARED", "DISTRIBUTED"}
    /\ dispute \in [DisputeIds -> {"none", "OPEN", "left OPEN"}]
    /\ item \in [Keys -> Item]
    /\ sweep \in [Sweeps -> Sweep]
    /\ desk \in [Managers -> Answer]
    /\ undisturbed \in [Sweeps -> BOOLEAN]

Init ==
    /\ shift = [status |-> "PLANNED", staffed |-> FALSE]
    /\ when = "soon"
    /\ pool = "DECLARED"
    /\ dispute = [d \in DisputeIds |-> "none"]
    /\ item = [k \in Keys |-> [status |-> "none", by |-> None]]
    /\ sweep = [s \in Sweeps |-> NoSweep]
    /\ desk = [m \in Managers |-> NoAnswer]
    /\ undisturbed = [s \in Sweeps |-> FALSE]

-----------------------------------------------------------------------------
\* What the detectors find.  Nothing writes IN_PROGRESS to a shift, so that no close is
\* ever overdue, nor FINALIZED to a pool, so that a distribution stays pending approval.
Missing == shift.status = "CLOSED" /\ when # "old" /\ pool # "DISTRIBUTED"
Unassigned == shift.status = "PLANNED" /\ when = "soon" /\ ~shift.staffed
CloseOverdue == FALSE

Detected(t) ==
    CASE t = "shifts" -> {k \in Kinds : \/ k = "DISTRIBUTION_MISSING" /\ Missing
                                        \/ k = "SHIFT_UNASSIGNED" /\ Unassigned
                                        \/ k = "SHIFT_CLOSE_OVERDUE" /\ CloseOverdue}
      [] t = "tip_pools" -> {k \in {"DISTRIBUTION_PENDING_APPROVAL"} : pool = "DISTRIBUTED"}
      [] t = "tip_disputes" -> {d \in DisputeIds : dispute[d] = "OPEN"}

Conditions == UNION {Detected(t) : t \in Tables}

Open == {k \in Keys : item[k].status = "OPEN"}

-----------------------------------------------------------------------------
(* What the detectors read. *)

Tick ==
    /\ when # "old"
    /\ when' = IF when = "soon" THEN "past" ELSE "old"
    /\ UNCHANGED <<shift, pool, dispute>>

Staff ==
    /\ shift.status = "PLANNED"
    /\ shift' = [shift EXCEPT !.staffed = ~@]
    /\ UNCHANGED <<when, pool, dispute>>

Close ==
    /\ shift = [status |-> "PLANNED", staffed |-> TRUE]
    /\ shift' = [shift EXCEPT !.status = "CLOSED"]
    /\ UNCHANGED <<when, pool, dispute>>

Distribute ==
    /\ pool = "DECLARED" /\ shift.status = "CLOSED"
    /\ pool' = "DISTRIBUTED"
    /\ UNCHANGED <<shift, when, dispute>>

MoveDispute(d) ==
    /\ \/ dispute[d] = "none" /\ pool = "DISTRIBUTED" /\ dispute' = [dispute EXCEPT ![d] = "OPEN"]
       \/ dispute[d] = "OPEN" /\ dispute' = [dispute EXCEPT ![d] = "left OPEN"]
    /\ UNCHANGED <<shift, when, pool>>

WorldNext == Tick \/ Staff \/ Close \/ Distribute \/ \E d \in DisputeIds : MoveDispute(d)

-----------------------------------------------------------------------------
(* refresh *)

BeginSweep(s) ==
    /\ sweep[s] = NoSweep
    /\ sweep' = [sweep EXCEPT ![s] = [at |-> "detect", todo |-> Tables, found |-> {}]]
    /\ UNCHANGED item

Detect(s) ==
    /\ sweep[s].at = "detect"
    /\ \E t \in sweep[s].todo :
          LET found == sweep[s].found \cup Detected(t)
              todo == sweep[s].todo \ {t}
          IN  sweep' = [sweep EXCEPT ![s] =
                           IF todo = {} THEN [at |-> "read", found |-> found]
                           ELSE [at |-> "detect", todo |-> todo, found |-> found]]
    /\ UNCHANGED item

MutStale(found) == (Open \cap Kinds) \ found

New(found) == {k \in found : item[k].status = "none"}
Stale(found) == Open \ found

ReadItems(s) ==
    /\ sweep[s].at = "read"
    /\ sweep' = [sweep EXCEPT ![s] = [at |-> "write", new |-> New(sweep[s].found),
                                      stale |-> Stale(sweep[s].found)]]
    /\ UNCHANGED item

\* The unique index refuses a key that another refresh has created meanwhile, and the
\* error ends the whole refresh.
CreateItem(s) ==
    /\ sweep[s].at = "write"
    /\ \E k \in sweep[s].new :
          IF item[k].status = "none"
          THEN /\ item' = [item EXCEPT ![k].status = "OPEN"]
               /\ sweep' = [sweep EXCEPT ![s].new = @ \ {k}]
          ELSE sweep' = [sweep EXCEPT ![s] = Over] /\ UNCHANGED item

AutoResolved(k) == [status |-> "RESOLVED", by |-> None]

\* update ... WHERE id: the status read earlier is not checked again.
AutoResolve(s) ==
    /\ sweep[s].at = "write"
    /\ sweep[s].new = {}
    /\ \E k \in sweep[s].stale :
          /\ item' = [item EXCEPT ![k] = AutoResolved(k)]
          /\ sweep' = [sweep EXCEPT ![s].stale = @ \ {k}]

SweepDone(s) == sweep[s].at = "write" /\ sweep[s].new = {} /\ sweep[s].stale = {}

\* The refresh answers, or ends in an error anywhere.
EndSweep(s) ==
    /\ sweep[s] \notin {NoSweep, Over}
    /\ sweep' = [sweep EXCEPT ![s] = Over]
    /\ UNCHANGED item

-----------------------------------------------------------------------------
(* updateStatus *)

BeginAnswer(m, k) ==
    /\ desk[m] = NoAnswer
    /\ item[k].status = "OPEN"
    /\ desk' = [desk EXCEPT ![m] = [at |-> "write", key |-> k]]
    /\ UNCHANGED item

\* MANUAL_TARGET_STATUSES
Targets == {"RESOLVED", "DISMISSED"}

MutItemStillOpen(k) == TRUE

\* updateMany ... WHERE status = 'OPEN'
ItemStillOpen(k) == item[k].status = "OPEN"

CommitAnswer(m) ==
    /\ desk[m].at = "write"
    /\ LET k == desk[m].key
       IN  IF ItemStillOpen(k)
           THEN \E st \in Targets :
                   item' = [item EXCEPT ![k] = [status |-> st, by |-> m]]
           ELSE UNCHANGED item                   \* 400 invalidTransition
    /\ desk' = [desk EXCEPT ![m] = NoAnswer]

-----------------------------------------------------------------------------
SweepNext(s) ==
    \/ BeginSweep(s)
    \/ Detect(s)
    \/ ReadItems(s)
    \/ CreateItem(s)
    \/ AutoResolve(s)
    \/ EndSweep(s)

AnswerNext(m) ==
    \/ CommitAnswer(m)
    \/ \E k \in Keys : BeginAnswer(m, k)

Next ==
    \/ /\ WorldNext
       /\ undisturbed' = [s \in Sweeps |-> FALSE]
       /\ UNCHANGED <<item, sweep, desk>>
    \/ /\ \E m \in Managers : AnswerNext(m)
       /\ undisturbed' = [s \in Sweeps |-> FALSE]
       /\ UNCHANGED <<worldVars, sweep>>
    \/ \E s \in Sweeps :
          /\ SweepNext(s)
          /\ undisturbed' = [t \in Sweeps |-> /\ t = s /\ sweep'[t] # Over
                                             /\ (undisturbed[t] \/ sweep[t] = NoSweep)]
          /\ UNCHANGED <<worldVars, desk>>

Spec == Init /\ [][Next]_vars

-----------------------------------------------------------------------------
\* A refresh that nobody disturbed leaves the inbox true: every open item stands for a
\* condition that holds, and every condition has an item (action-inbox-detectors:52-61).
SweepIsAccurate ==
    \A s \in Sweeps : SweepDone(s) /\ undisturbed[s] =>
        /\ Open \subseteq Conditions
        /\ \A k \in Conditions : item[k].status # "none"

\* Items have known states, and those an undisturbed refresh leaves are true.
InboxSafe == InboxTypeOK /\ SweepIsAccurate

\* The refresh found this item open, without its condition, and has not resolved it yet.
ToResolve(s, k) == sweep[s].at = "write" /\ k \in sweep[s].stale

\* An answered item is never reopened and never answered by a second manager, by no
\* overlap of refreshes and answers.  The update of a refresh asks for no status: it does
\* replace an answer, but only one refresh that had found the item open at a time, and each
\* once (action-inbox-detectors.service.ts:140).
AnsweredOnce ==
    [][\A k \in Keys : item[k].status \in {"RESOLVED", "DISMISSED"} =>
          \/ item'[k] = item[k]
          \/ /\ item'[k] = [status |-> "RESOLVED", by |-> None]
             /\ \E s \in Sweeps : ToResolve(s, k) /\ ~ToResolve(s, k)']_vars
=============================================================================
