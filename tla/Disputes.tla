------------------------------ MODULE Disputes ------------------------------
(***************************************************************************)
(* Disputes of employees about their share of a distributed pool:          *)
(* apps/api/src/disputes/disputes.service.ts.                              *)
(*                                                                         *)
(* No operation opens a transaction.  Each reads what it checks, then      *)
(* writes with one statement, then writes an audit entry, and requests     *)
(* interleave between these steps.  The updates repeat their condition on  *)
(* the status (updateMany ... WHERE status), the insertion of a dispute    *)
(* repeats nothing.  AuditService.log swallows its own errors.             *)
(***************************************************************************)
EXTENDS Naturals, FiniteSets

CONSTANTS
    Rows,           \* the tip_distributions rows of a pool, one per employee paid
    Amounts,        \* the amounts such a row may carry
    DisputeIds,     \* ids of tip_disputes rows; bounds how many are inserted
    Reviewers,      \* the managers who answer
    Outcomes,       \* TipDisputeOutcome
    Requests,       \* the HTTP requests on disputes in flight at a time
    None            \* not paid, not inserted, nobody, no outcome

ASSUME NoneAssumption ==
    None \notin Amounts /\ None \notin Reviewers /\ None \notin Outcomes /\ None \notin Rows

VARIABLES
    payout,         \* per row, the amount paid, which corrections change
    linked,         \* rows whose employee is linked to a user and not soft deleted
    dispute,        \* the rows of tip_disputes
    audit,          \* the entries of audit_logs about disputes
    request         \* per request, the operation in flight and what it read

disputeVars == <<payout, linked, dispute, audit, request>>

-----------------------------------------------------------------------------
Active == {"OPEN", "IN_REVIEW"}
Ended == {"RESOLVED", "WITHDRAWN"}

\* evidence is the amount of evidenceSnapshot.  seen is history, not stored by the code:
\* the disputes that existed when the request that inserted this one looked for an
\* active one.
Dispute == [row : Rows \cup {None},
            status : {"free"} \cup Active \cup Ended,
            evidence : Amounts \cup {None},
            reviewedBy : Reviewers \cup {None},
            resolvedBy : Reviewers \cup {None},
            outcome : Outcomes \cup {None},
            seen : SUBSET DisputeIds]

Entry == [action : {"OPENED"}, id : DisputeIds]
         \cup [action : {"WITHDRAWN"}, id : DisputeIds]
         \cup [action : {"REVIEW_STARTED"}, id : DisputeIds, by : Reviewers]
         \cup [action : {"RESOLVED"}, id : DisputeIds, by : Reviewers, was : Active,
               outcome : Outcomes]

Idle == [op |-> "idle"]

Request == {Idle}
           \cup [op : {"open"}, row : Rows, evidence : Amounts]
           \cup [op : {"insert"}, row : Rows, evidence : Amounts, seen : SUBSET DisputeIds]
           \cup [op : {"withdraw"}, id : DisputeIds]
           \cup [op : {"review"}, id : DisputeIds, by : Reviewers]
           \cup [op : {"resolve"}, id : DisputeIds, by : Reviewers, was : Active,
                 outcome : Outcomes]
           \cup [op : {"log"}, entry : Entry]

DisputesTypeOK ==
    /\ payout \in [Rows -> Amounts \cup {None}]
    /\ linked \in SUBSET Rows
    /\ dispute \in [DisputeIds -> Dispute]
    /\ audit \in SUBSET Entry
    /\ request \in [Requests -> Request]

NoDispute == [row |-> None, status |-> "free", evidence |-> None, reviewedBy |-> None,
              resolvedBy |-> None, outcome |-> None, seen |-> {}]

DisputesInit ==
    /\ payout = [r \in Rows |-> None]
    /\ linked = Rows
    /\ dispute = [d \in DisputeIds |-> NoDispute]
    /\ audit = {}
    /\ request = [q \in Requests |-> Idle]

-----------------------------------------------------------------------------
Filed == {d \in DisputeIds : dispute[d].status # "free"}
DisputesOf(r) == {d \in Filed : dispute[d].row = r}
ActiveDisputes(r) == {d \in DisputesOf(r) : dispute[d].status \in Active}

\* resolveEmployee: a soft deleted employee answers 404 everywhere below.
MayAct(r) == r \in linked

Start(q, w) == request[q] = Idle /\ request' = [request EXCEPT ![q] = w]
Goto(q, w) == request' = [request EXCEPT ![q] = w]
Finish(q) == request' = [request EXCEPT ![q] = Idle]

-----------------------------------------------------------------------------
(* The surroundings: distribution, its corrections, the end of a contract. *)

Distribute ==
    /\ \A r \in Rows : payout[r] = None
    /\ payout' \in [Rows -> Amounts]
    /\ UNCHANGED <<linked, dispute, audit, request>>

Correct ==
    /\ \A r \in Rows : payout[r] # None
    /\ payout' \in [Rows -> Amounts] \ {payout}
    /\ UNCHANGED <<linked, dispute, audit, request>>

Unlink(r) ==
    /\ linked' = linked \ {r}
    /\ linked' # linked
    /\ UNCHANGED <<payout, dispute, audit, request>>

-----------------------------------------------------------------------------
(* The employee. *)

\* The row a dispute is opened on must exist.
PaidOut(r) == payout[r] # None

BeginOpen(q, r) ==
    /\ MayAct(r)
    /\ PaidOut(r)
    /\ Start(q, [op |-> "open", row |-> r, evidence |-> payout[r]])
    /\ UNCHANGED <<payout, linked, dispute, audit>>

MutNoneActive(r) == \A d \in DisputesOf(r) : dispute[d].status # "OPEN"

NoneActive(r) == ActiveDisputes(r) = {}

CheckActive(q) ==
    /\ request[q].op = "open"
    /\ IF NoneActive(request[q].row)
       THEN Goto(q, [op |-> "insert", row |-> request[q].row,
                     evidence |-> request[q].evidence, seen |-> Filed])
       ELSE Finish(q)                        \* 409 alreadyActive
    /\ UNCHANGED <<payout, linked, dispute, audit>>

InsertDispute(q) ==
    /\ request[q].op = "insert"
    /\ \E d \in DisputeIds \ Filed :
          /\ dispute' = [dispute EXCEPT ![d] =
                [NoDispute EXCEPT !.row = request[q].row, !.status = "OPEN",
                                  !.evidence = request[q].evidence,
                                  !.seen = request[q].seen]]
          /\ Goto(q, [op |-> "log", entry |-> [action |-> "OPENED", id |-> d]])
    /\ UNCHANGED <<payout, linked, audit>>

BeginWithdraw(q, d) ==
    /\ dispute[d].status = "OPEN"
    /\ MayAct(dispute[d].row)
    /\ Start(q, [op |-> "withdraw", id |-> d])
    /\ UNCHANGED <<payout, linked, dispute, audit>>

\* updateMany ... WHERE status = 'OPEN', in withdraw and startReview
StillOpen(d) == dispute[d].status = "OPEN"

CommitWithdraw(q) ==
    /\ request[q].op = "withdraw"
    /\ LET d == request[q].id
       IN  IF StillOpen(d)
           THEN /\ dispute' = [dispute EXCEPT ![d].status = "WITHDRAWN"]
                /\ Goto(q, [op |-> "log", entry |-> [action |-> "WITHDRAWN", id |-> d]])
           ELSE Finish(q) /\ UNCHANGED dispute   \* 400 invalidTransition
    /\ UNCHANGED <<payout, linked, audit>>

-----------------------------------------------------------------------------
(* The managers. *)

BeginReview(q, d, m) ==
    /\ dispute[d].status = "OPEN"
    /\ Start(q, [op |-> "review", id |-> d, by |-> m])
    /\ UNCHANGED <<payout, linked, dispute, audit>>

CommitReview(q) ==
    /\ request[q].op = "review"
    /\ LET d == request[q].id
           m == request[q].by
       IN  IF StillOpen(d)
           THEN /\ dispute' = [dispute EXCEPT ![d].status = "IN_REVIEW",
                                              ![d].reviewedBy = m]
                /\ Goto(q, [op |-> "log",
                            entry |-> [action |-> "REVIEW_STARTED", id |-> d, by |-> m]])
           ELSE Finish(q) /\ UNCHANGED dispute
    /\ UNCHANGED <<payout, linked, audit>>

BeginResolve(q, d, m, o) ==
    /\ dispute[d].status \in Active
    /\ Start(q, [op |-> "resolve", id |-> d, by |-> m, was |-> dispute[d].status,
                 outcome |-> o])
    /\ UNCHANGED <<payout, linked, dispute, audit>>

MutStillActive(d) == dispute[d].status # "WITHDRAWN"

\* updateMany ... WHERE status IN ('OPEN', 'IN_REVIEW')
StillActive(d) == dispute[d].status \in Active

\* The entry keeps the status read first, not the one the update replaced.
CommitResolve(q) ==
    /\ request[q].op = "resolve"
    /\ LET d == request[q].id
           m == request[q].by
       IN  IF StillActive(d)
           THEN /\ dispute' = [dispute EXCEPT ![d].status = "RESOLVED",
                                              ![d].resolvedBy = m,
                                              ![d].outcome = request[q].outcome]
                /\ Goto(q, [op |-> "log",
                            entry |-> [action |-> "RESOLVED", id |-> d, by |-> m,
                                       was |-> request[q].was,
                                       outcome |-> request[q].outcome]])
           ELSE Finish(q) /\ UNCHANGED dispute
    /\ UNCHANGED <<payout, linked, audit>>

-----------------------------------------------------------------------------
WriteEntry(q) ==
    /\ request[q].op = "log"
    /\ audit' = audit \cup {request[q].entry}
    /\ Finish(q)
    /\ UNCHANGED <<payout, linked, dispute>>

\* The request ends in an error, its process stops, or log fails without saying so.
Drop(q) ==
    /\ request[q] # Idle
    /\ Finish(q)
    /\ UNCHANGED <<payout, linked, dispute, audit>>

RequestNext(q) ==
    \/ \E r \in Rows : BeginOpen(q, r)
    \/ CheckActive(q)
    \/ InsertDispute(q)
    \/ CommitWithdraw(q)
    \/ CommitReview(q)
    \/ CommitResolve(q)
    \/ WriteEntry(q)
    \/ Drop(q)
    \/ \E d \in DisputeIds :
          \/ BeginWithdraw(q, d)
          \/ \E m \in Reviewers :
                \/ BeginReview(q, d, m)
                \/ \E o \in Outcomes : BeginResolve(q, d, m, o)

DisputesNext ==
    \/ Distribute
    \/ Correct
    \/ \E r \in Rows : Unlink(r)
    \/ \E q \in Requests : RequestNext(q)

DisputesSpec == DisputesInit /\ [][DisputesNext]_disputeVars

-----------------------------------------------------------------------------
\* A row has two active disputes only if neither could be seen when the other was
\* checked: a dispute found by the check has ended, and no dispute comes back.  create
\* (disputes.service.ts:98) checks and inserts in two statements and says so at line 55.
TwoActiveOnlyByRace ==
    \A r \in Rows : \A c, d \in ActiveDisputes(r) : c # d => c \notin dispute[d].seen

\* Whatever requests overlap, the entries of the audit log tell what became of the
\* dispute: one manager took it up, one manager decided it, with the outcome stored on
\* the row, and an entry of withdrawal means that nobody did either.  The status a
\* resolution is dated from, read before the update (disputes.service.ts:346), may miss a
\* review that has begun since, but never claims a review that has not.
AuditAgrees ==
    \A x \in audit :
        CASE x.action = "REVIEW_STARTED" -> dispute[x.id].reviewedBy = x.by
          [] x.action = "RESOLVED" -> /\ dispute[x.id].status = "RESOLVED"
                                      /\ dispute[x.id].resolvedBy = x.by
                                      /\ dispute[x.id].outcome = x.outcome
                                      /\ x.was = "IN_REVIEW" => dispute[x.id].reviewedBy # None
          [] x.action = "WITHDRAWN" -> /\ dispute[x.id].status = "WITHDRAWN"
                                       /\ dispute[x.id].reviewedBy = None
          [] OTHER -> dispute[x.id].status # "free"

\* What holds of disputes and of their traces in every state: the three above together.
DisputesSafe == DisputesTypeOK /\ TwoActiveOnlyByRace /\ AuditAgrees

\* A dispute that was resolved or withdrawn never changes again, and no dispute changes
\* its row or its evidence once inserted, whatever corrections follow
\* (disputes.service.ts:37-40).
EndedForGood ==
    [][\A d \in Filed :
          /\ dispute[d].status \in Ended => dispute'[d] = dispute[d]
          /\ dispute'[d].row = dispute[d].row
          /\ dispute'[d].evidence = dispute[d].evidence]_disputeVars
=============================================================================
