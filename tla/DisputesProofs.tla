--------------------------- MODULE DisputesProofs ---------------------------
(***************************************************************************)
(* Proofs about Disputes, for any shares, disputes, managers and requests. *)
(*                                                                         *)
(* DisputesSafe is not inductive: what a request holds between two of its  *)
(* steps matters as much as what is stored.  DisputesInv adds it: a        *)
(* dispute that was seen by the check of another one has ended, an entry   *)
(* about to be written is as true as one that is, and who reviewed a       *)
(* dispute follows its status.                                             *)
(***************************************************************************)
EXTENDS Disputes, TLAPS

-----------------------------------------------------------------------------
\* What the disputes that a request saw have become.
SeenEnded(r, seen) ==
    \A c \in seen : c \in Filed /\ (dispute[c].row = r => dispute[c].status \in Ended)

SeenInv ==
    \A d \in Filed : \A c \in dispute[d].seen :
        c \in Filed /\ (dispute[c].row = dispute[d].row => dispute[c].status \in Ended)

\* A manager took the dispute up exactly if it has left OPEN by a review.
ReviewerInv ==
    \A d \in DisputeIds :
        /\ dispute[d].status \in {"free", "OPEN", "WITHDRAWN"} => dispute[d].reviewedBy = None
        /\ dispute[d].status = "IN_REVIEW" => dispute[d].reviewedBy # None

\* The entry is true of the dispute as it is now.
Agrees(x) ==
    /\ x.action = "OPENED" => dispute[x.id].status # "free"
    /\ x.action = "REVIEW_STARTED" => dispute[x.id].reviewedBy = x.by
    /\ x.action = "WITHDRAWN" => /\ dispute[x.id].status = "WITHDRAWN"
                                 /\ dispute[x.id].reviewedBy = None
    /\ x.action = "RESOLVED" => /\ dispute[x.id].status = "RESOLVED"
                                /\ dispute[x.id].resolvedBy = x.by
                                /\ dispute[x.id].outcome = x.outcome
                                /\ x.was = "IN_REVIEW" => dispute[x.id].reviewedBy # None

\* What a request has read, or is about to write, is true.
RequestOK(w) ==
    /\ w.op = "insert" => SeenEnded(w.row, w.seen)
    /\ w.op \in {"withdraw", "review", "resolve"} => dispute[w.id].status # "free"
    /\ w.op = "resolve" => (w.was = "IN_REVIEW" => dispute[w.id].reviewedBy # None)
    /\ w.op = "log" => Agrees(w.entry)

RequestInv == \A q \in Requests : RequestOK(request[q])

TrailInv == \A x \in audit : Agrees(x)

DisputesInv == DisputesTypeOK /\ SeenInv /\ ReviewerInv /\ RequestInv /\ TrailInv

-----------------------------------------------------------------------------
(* The steps of a dispute. *)

Same(d) == dispute'[d] = dispute[d]

Inserted(d) ==
    /\ dispute[d].status = "free"
    /\ dispute'[d].status = "OPEN"
    /\ dispute'[d].reviewedBy = None

\* A step that leaves the row, the evidence and what was seen alone.
Kept(d) ==
    /\ dispute'[d].row = dispute[d].row
    /\ dispute'[d].evidence = dispute[d].evidence
    /\ dispute'[d].seen = dispute[d].seen

Withdrawn(d) ==
    /\ Kept(d)
    /\ dispute[d].status = "OPEN" /\ dispute'[d].status = "WITHDRAWN"
    /\ dispute'[d].reviewedBy = dispute[d].reviewedBy

Reviewed(d) ==
    /\ Kept(d)
    /\ dispute[d].status = "OPEN" /\ dispute'[d].status = "IN_REVIEW"
    /\ dispute'[d].reviewedBy \in Reviewers

Resolved(d) ==
    /\ Kept(d)
    /\ dispute[d].status \in Active /\ dispute'[d].status = "RESOLVED"
    /\ dispute'[d].reviewedBy = dispute[d].reviewedBy

Moves == \A d \in DisputeIds : Same(d) \/ Inserted(d) \/ Withdrawn(d) \/ Reviewed(d) \/ Resolved(d)

-----------------------------------------------------------------------------
(* Types *)

LEMMA DisputesInitTyped == DisputesInit => DisputesTypeOK
  BY DEF DisputesInit, DisputesTypeOK, NoDispute, Dispute, Request

LEMMA DisputesNextTyped == DisputesTypeOK /\ [DisputesNext]_disputeVars => DisputesTypeOK'
<1> SUFFICES ASSUME DisputesTypeOK, [DisputesNext]_disputeVars
             PROVE  DisputesTypeOK'
  OBVIOUS
<1> USE DEF DisputesTypeOK
<1>1. CASE Distribute \/ Correct
  BY <1>1 DEF Distribute, Correct
<1>2. ASSUME NEW r \in Rows, Unlink(r)
      PROVE  DisputesTypeOK'
  BY <1>2 DEF Unlink
<1>3. ASSUME NEW q \in Requests, NEW r \in Rows, BeginOpen(q, r)
      PROVE  DisputesTypeOK'
  <2>1. payout[r] \in Amounts
    BY <1>3 DEF BeginOpen, PaidOut
  <2> QED
    BY <1>3, <2>1 DEF BeginOpen, Start, Request
<1>4. ASSUME NEW q \in Requests, CheckActive(q)
      PROVE  DisputesTypeOK'
  <2>1. request[q] \in [op : {"open"}, row : Rows, evidence : Amounts]
    BY <1>4 DEF CheckActive, Request, Idle
  <2>2. Filed \in SUBSET DisputeIds
    BY DEF Filed
  <2> QED
    BY <1>4, <2>1, <2>2 DEF CheckActive, Goto, Finish, Request
<1>5. ASSUME NEW q \in Requests, InsertDispute(q)
      PROVE  DisputesTypeOK'
  <2>1. request[q] \in [op : {"insert"}, row : Rows, evidence : Amounts, seen : SUBSET DisputeIds]
    BY <1>5 DEF InsertDispute, Request, Idle
  <2>2. PICK d \in DisputeIds \ Filed :
           /\ dispute' = [dispute EXCEPT ![d] =
                 [NoDispute EXCEPT !.row = request[q].row, !.status = "OPEN",
                                   !.evidence = request[q].evidence,
                                   !.seen = request[q].seen]]
           /\ request' = [request EXCEPT ![q] = [op |-> "log", entry |-> [action |-> "OPENED", id |-> d]]]
    BY <1>5 DEF InsertDispute, Goto
  <2>3. [NoDispute EXCEPT !.row = request[q].row, !.status = "OPEN",
                          !.evidence = request[q].evidence, !.seen = request[q].seen] \in Dispute
    BY <2>1 DEF NoDispute, Dispute, Active
  <2>4. [op |-> "log", entry |-> [action |-> "OPENED", id |-> d]] \in Request
    BY DEF Request, Entry
  <2> QED
    BY <1>5, <2>2, <2>3, <2>4 DEF InsertDispute
<1>6. ASSUME NEW q \in Requests, NEW d \in DisputeIds, BeginWithdraw(q, d)
      PROVE  DisputesTypeOK'
  BY <1>6 DEF BeginWithdraw, Start, Request
<1>7. ASSUME NEW q \in Requests, CommitWithdraw(q)
      PROVE  DisputesTypeOK'
  <2>1. request[q] \in [op : {"withdraw"}, id : DisputeIds]
    BY <1>7 DEF CommitWithdraw, Request, Idle
  <2>2. dispute' \in [DisputeIds -> Dispute]
    BY <1>7, <2>1 DEF CommitWithdraw, Dispute, Ended
  <2>3. [op |-> "log", entry |-> [action |-> "WITHDRAWN", id |-> request[q].id]] \in Request
    BY <2>1 DEF Request, Entry
  <2>4. request' \in [Requests -> Request]
    BY <1>7, <2>3 DEF CommitWithdraw, Goto, Finish, Request
  <2> QED
    BY <1>7, <2>2, <2>4 DEF CommitWithdraw
<1>8. ASSUME NEW q \in Requests, NEW d \in DisputeIds, NEW m \in Reviewers, BeginReview(q, d, m)
      PROVE  DisputesTypeOK'
  BY <1>8 DEF BeginReview, Start, Request
<1>9. ASSUME NEW q \in Requests, CommitReview(q)
      PROVE  DisputesTypeOK'
  <2>1. request[q] \in [op : {"review"}, id : DisputeIds, by : Reviewers]
    BY <1>9 DEF CommitReview, Request, Idle
  <2>2. dispute' \in [DisputeIds -> Dispute]
    BY <1>9, <2>1 DEF CommitReview, Dispute, Active
  <2>3. [op |-> "log", entry |-> [action |-> "REVIEW_STARTED", id |-> request[q].id,
                                  by |-> request[q].by]] \in Request
    BY <2>1 DEF Request, Entry
  <2>4. request' \in [Requests -> Request]
    BY <1>9, <2>3 DEF CommitReview, Goto, Finish, Request
  <2> QED
    BY <1>9, <2>2, <2>4 DEF CommitReview
<1>10. ASSUME NEW q \in Requests, NEW d \in DisputeIds, NEW m \in Reviewers, NEW o \in Outcomes,
              BeginResolve(q, d, m, o)
       PROVE  DisputesTypeOK'
  BY <1>10 DEF BeginResolve, Start, Request
<1>11. ASSUME NEW q \in Requests, CommitResolve(q)
       PROVE  DisputesTypeOK'
  <2>1. request[q] \in [op : {"resolve"}, id : DisputeIds, by : Reviewers, was : Active,
                        outcome : Outcomes]
    BY <1>11 DEF CommitResolve, Request, Idle
  <2>2. dispute' \in [DisputeIds -> Dispute]
    <3>1. dispute[request[q].id] \in Dispute
      BY <2>1
    <3>2. [dispute[request[q].id] EXCEPT !.status = "RESOLVED", !.resolvedBy = request[q].by,
                                         !.outcome = request[q].outcome] \in Dispute
      BY <2>1, <3>1 DEF Dispute, Ended
    <3>3. \/ dispute' = dispute
          \/ dispute' = [dispute EXCEPT ![request[q].id] =
                            [@ EXCEPT !.status = "RESOLVED", !.resolvedBy = request[q].by,
                                      !.outcome = request[q].outcome]]
      BY <1>11 DEF CommitResolve
    <3> QED
      BY <2>1, <3>2, <3>3
  <2>3. [op |-> "log", entry |-> [action |-> "RESOLVED", id |-> request[q].id,
                                  by |-> request[q].by, was |-> request[q].was,
                                  outcome |-> request[q].outcome]] \in Request
    BY <2>1 DEF Request, Entry
  <2>4. request' \in [Requests -> Request]
    BY <1>11, <2>3 DEF CommitResolve, Goto, Finish, Request
  <2> QED
    BY <1>11, <2>2, <2>4 DEF CommitResolve
<1>12. ASSUME NEW q \in Requests, WriteEntry(q)
       PROVE  DisputesTypeOK'
  <2>1. request[q].entry \in Entry
    BY <1>12 DEF WriteEntry, Request, Idle
  <2> QED
    BY <1>12, <2>1 DEF WriteEntry, Finish, Request
<1>13. ASSUME NEW q \in Requests, Drop(q)
       PROVE  DisputesTypeOK'
  BY <1>13 DEF Drop, Finish, Request
<1>14. CASE UNCHANGED disputeVars
  BY <1>14 DEF disputeVars
<1> QED
  BY <1>1, <1>2, <1>3, <1>4, <1>5, <1>6, <1>7, <1>8, <1>9, <1>10, <1>11, <1>12, <1>13, <1>14
  DEF DisputesNext, RequestNext

\* The variables keep their types: in particular, a request holds a row that was paid and
\* a decision with its reviewer (disputes.service.ts:59-352).
THEOREM DisputesTyped == DisputesSpec => []DisputesTypeOK
  BY DisputesInitTyped, DisputesNextTyped, PTL DEF DisputesSpec

-----------------------------------------------------------------------------
(* Every step moves a dispute along its life or leaves it alone. *)

LEMMA DisputesMove == DisputesTypeOK /\ [DisputesNext]_disputeVars => Moves
<1> SUFFICES ASSUME DisputesTypeOK, [DisputesNext]_disputeVars
             PROVE  Moves
  OBVIOUS
<1> USE DEF DisputesTypeOK
<1>1. CASE UNCHANGED dispute
  BY <1>1 DEF Moves, Same
<1>2. ASSUME NEW q \in Requests, InsertDispute(q)
      PROVE  Moves
  BY <1>2 DEF InsertDispute, Filed, NoDispute, Moves, Same, Inserted
<1>3. ASSUME NEW q \in Requests, CommitWithdraw(q)
      PROVE  Moves
  <2>1. request[q] \in [op : {"withdraw"}, id : DisputeIds]
    BY <1>3 DEF CommitWithdraw, Request, Idle
  <2> QED
    BY <1>3, <2>1 DEF CommitWithdraw, StillOpen, Dispute, Moves, Same, Withdrawn, Kept
<1>4. ASSUME NEW q \in Requests, CommitReview(q)
      PROVE  Moves
  <2>1. request[q] \in [op : {"review"}, id : DisputeIds, by : Reviewers]
    BY <1>4 DEF CommitReview, Request, Idle
  <2>2. CASE dispute' = dispute
    BY <2>2 DEF Moves, Same
  <2>3. CASE dispute' # dispute
    <3> DEFINE d == request[q].id
    <3>1. /\ d \in DisputeIds
          /\ request[q].by \in Reviewers
          /\ dispute[d].status = "OPEN"
          /\ dispute' = [dispute EXCEPT ![d] = [@ EXCEPT !.status = "IN_REVIEW",
                                                       !.reviewedBy = request[q].by]]
      BY <1>4, <2>1, <2>3 DEF CommitReview, StillOpen
    <3>2. \A e \in DisputeIds : e # d => Same(e)
      BY <3>1 DEF Same
    <3>3. dispute[d] \in Dispute
      BY <3>1
    <3>4. dispute'[d] = [dispute[d] EXCEPT !.status = "IN_REVIEW", !.reviewedBy = request[q].by]
      BY <3>1
    <3>5. Reviewed(d)
      BY <3>1, <3>3, <3>4 DEF Reviewed, Kept, Dispute
    <3> QED
      BY <3>1, <3>2, <3>5 DEF Moves
  <2> QED
    BY <2>2, <2>3
<1>5. ASSUME NEW q \in Requests, CommitResolve(q)
      PROVE  Moves
  <2>1. request[q] \in [op : {"resolve"}, id : DisputeIds, by : Reviewers, was : Active,
                        outcome : Outcomes]
    BY <1>5 DEF CommitResolve, Request, Idle
  <2> QED
    BY <1>5, <2>1 DEF CommitResolve, StillActive, Dispute, Moves, Same, Resolved, Kept
<1> QED
  BY <1>1, <1>2, <1>3, <1>4, <1>5
  DEF DisputesNext, RequestNext, Distribute, Correct, Unlink, BeginOpen, CheckActive, BeginWithdraw,
      BeginReview, BeginResolve, WriteEntry, Drop, disputeVars

\* Once a dispute has ended it stays as it is; once inserted it stays.
LEMMA EndedStays ==
  ASSUME Moves, NEW d \in DisputeIds
  PROVE  /\ dispute[d].status \in Ended => dispute'[d] = dispute[d]
         /\ dispute[d].status # "free" => /\ dispute'[d].status # "free"
                                         /\ dispute'[d].row = dispute[d].row
                                         /\ dispute'[d].evidence = dispute[d].evidence
                                         /\ dispute'[d].seen = dispute[d].seen
  BY DEF Moves, Same, Inserted, Withdrawn, Reviewed, Resolved, Kept, Ended, Active

LEMMA SeenStays ==
  ASSUME Moves, NEW r, NEW seen, SeenEnded(r, seen)
  PROVE  SeenEnded(r, seen)'
<1> SUFFICES ASSUME NEW c \in seen
             PROVE  c \in Filed' /\ (dispute'[c].row = r => dispute'[c].status \in Ended)
  BY DEF SeenEnded
<1>1. c \in DisputeIds /\ dispute[c].status # "free"
  BY DEF SeenEnded, Filed
<1> QED
  BY <1>1, EndedStays DEF SeenEnded, Filed

LEMMA ReviewerStays ==
  ASSUME DisputesTypeOK, ReviewerInv, Moves
  PROVE  ReviewerInv'
  BY NoneAssumption
  DEF ReviewerInv, Moves, Same, Inserted, Withdrawn, Reviewed, Resolved, Kept, Active

\* A reviewer is never forgotten nor replaced.
LEMMA ReviewStays ==
  ASSUME DisputesTypeOK, ReviewerInv, Moves,
         NEW d \in DisputeIds, dispute[d].reviewedBy # None
  PROVE  dispute'[d].reviewedBy = dispute[d].reviewedBy
  BY DEF ReviewerInv, Moves, Same, Inserted, Withdrawn, Reviewed, Resolved, Kept, Active

LEMMA AgreesStays ==
  ASSUME DisputesTypeOK, ReviewerInv, Moves, NEW x \in Entry, Agrees(x)
  PROVE  Agrees(x)'
<1>1. x.id \in DisputeIds
  BY DEF Entry
<1>2. CASE x.action = "OPENED"
  BY <1>1, <1>2, EndedStays DEF Agrees
<1>3. CASE x.action = "REVIEW_STARTED"
  <2>1. x.by \in Reviewers
    BY <1>3 DEF Entry
  <2> QED
    BY <1>1, <1>3, <2>1, ReviewStays, NoneAssumption DEF Agrees
<1>4. CASE x.action \in {"WITHDRAWN", "RESOLVED"}
  BY <1>1, <1>4, EndedStays DEF Agrees, Ended
<1> QED
  BY <1>2, <1>3, <1>4 DEF Entry

LEMMA RequestStays ==
  ASSUME DisputesTypeOK, ReviewerInv, Moves, NEW w \in Request, RequestOK(w)
  PROVE  RequestOK(w)'
<1>1. CASE w.op = "insert"
  BY <1>1, SeenStays DEF RequestOK
<1>2. CASE w.op \in {"withdraw", "review", "resolve"}
  <2>1. w.id \in DisputeIds
    BY <1>2 DEF Request, Idle
  <2> QED
    BY <1>2, <2>1, EndedStays, ReviewStays DEF RequestOK
<1>3. CASE w.op = "log"
  <2>1. w.entry \in Entry
    BY <1>3 DEF Request, Idle
  <2> QED
    BY <1>3, <2>1, AgreesStays DEF RequestOK
<1> QED
  BY <1>1, <1>2, <1>3 DEF RequestOK

-----------------------------------------------------------------------------
(* The invariant. *)

LEMMA DisputesInvInit == DisputesInit => DisputesInv
<1> SUFFICES ASSUME DisputesInit
             PROVE  DisputesInv
  OBVIOUS
<1>1. DisputesTypeOK
  BY DisputesInitTyped
<1>2. SeenInv /\ ReviewerInv
  BY DEF DisputesInit, SeenInv, ReviewerInv, Filed, NoDispute
<1>3. RequestInv
  BY DEF DisputesInit, RequestInv, RequestOK, Idle
<1>4. TrailInv
  BY DEF DisputesInit, TrailInv
<1> QED
  BY <1>1, <1>2, <1>3, <1>4 DEF DisputesInv

\* What a step has to show: what it left in the request it served, what it inserted, and
\* what it wrote to the audit log.
LEMMA DisputesStep ==
  ASSUME DisputesInv, [DisputesNext]_disputeVars,
         \A q \in Requests : request'[q] = request[q] \/ RequestOK(request[q])',
         \A d \in DisputeIds : Inserted(d) => \A c \in dispute'[d].seen :
            c \in Filed' /\ (dispute'[c].row = dispute'[d].row => dispute'[c].status \in Ended),
         \A x \in audit' : x \in audit \/ Agrees(x)'
  PROVE  DisputesInv'
<1>1. DisputesTypeOK' /\ Moves
  BY DisputesNextTyped, DisputesMove DEF DisputesInv
<1>2. SeenInv'
  <2> SUFFICES ASSUME NEW d \in Filed'
               PROVE  \A c \in dispute'[d].seen :
                         c \in Filed' /\ (dispute'[c].row = dispute'[d].row
                                               => dispute'[c].status \in Ended)
    BY DEF SeenInv
  <2>1. d \in DisputeIds
    BY DEF Filed
  <2>2. CASE Inserted(d)
    BY <2>1, <2>2
  <2>3. CASE ~Inserted(d)
    <3>1. d \in Filed
      BY <1>1, <2>1, <2>3 DEF Moves, Same, Withdrawn, Reviewed, Resolved, Active, Filed
    <3>2. dispute'[d].row = dispute[d].row /\ dispute'[d].seen = dispute[d].seen
      BY <1>1, <2>1, <3>1, EndedStays DEF Filed
    <3>3. \A c \in dispute[d].seen :
             c \in Filed /\ (dispute[c].row = dispute[d].row => dispute[c].status \in Ended)
      BY <3>1 DEF DisputesInv, SeenInv
    <3>4. \A c \in dispute[d].seen :
             c \in Filed' /\ (dispute'[c].row = dispute[d].row => dispute'[c].status \in Ended)
      BY <1>1, <3>3, EndedStays DEF Filed
    <3> QED
      BY <3>2, <3>4
  <2> QED
    BY <2>2, <2>3
<1>3. ReviewerInv'
  BY <1>1, ReviewerStays DEF DisputesInv
<1>4. RequestInv'
  <2> SUFFICES ASSUME NEW q \in Requests, request'[q] = request[q]
               PROVE  RequestOK(request[q])'
    BY DEF RequestInv
  <2>1. PICK w \in Request : w = request[q]
    BY DEF DisputesInv, DisputesTypeOK
  <2>2. RequestOK(w)'
    BY <1>1, <2>1, RequestStays DEF DisputesInv, RequestInv
  <2> QED
    BY <2>1, <2>2
<1>5. TrailInv'
  <2> SUFFICES ASSUME NEW x \in audit'
               PROVE  Agrees(x)'
    BY DEF TrailInv
  <2>1. CASE x \in audit
    BY <1>1, <2>1, AgreesStays DEF DisputesInv, DisputesTypeOK, TrailInv
  <2> QED
    BY <2>1
<1> QED
  BY <1>1, <1>2, <1>3, <1>4, <1>5 DEF DisputesInv

\* The step of one request.
LEMMA OneRequest ==
  ASSUME DisputesTypeOK, NEW q \in Requests, NEW w, request' = [request EXCEPT ![q] = w]
  PROVE  request'[q] = w /\ \A p \in Requests : p # q => request'[p] = request[p]
  BY DEF DisputesTypeOK

LEMMA DisputesInvNext == DisputesInv /\ [DisputesNext]_disputeVars => DisputesInv'
<1> SUFFICES ASSUME DisputesInv, [DisputesNext]_disputeVars
             PROVE  DisputesInv'
  OBVIOUS
<1> USE DEF DisputesInv
<1>0. DisputesTypeOK /\ DisputesTypeOK' /\ Moves
  BY DisputesNextTyped, DisputesMove
<1>a. ASSUME UNCHANGED <<dispute, audit>>,
             \A q \in Requests : request'[q] = request[q] \/ RequestOK(request[q])'
      PROVE  DisputesInv'
  BY <1>a, DisputesStep DEF Inserted
<1>1. CASE Distribute \/ Correct \/ (\E r \in Rows : Unlink(r)) \/ UNCHANGED disputeVars
  BY <1>1, <1>a DEF Distribute, Correct, Unlink, disputeVars
<1>2. ASSUME NEW q \in Requests,
             (\E r \in Rows : BeginOpen(q, r)) \/ Drop(q)
      PROVE  DisputesInv'
  <2>1. UNCHANGED <<dispute, audit>> /\ \A p \in Requests : p # q => request'[p] = request[p]
    BY <1>0, <1>2 DEF BeginOpen, Start, Drop, Finish, DisputesTypeOK
  <2>2. request'[q].op \in {"idle", "open"}
    BY <1>0, <1>2 DEF BeginOpen, Start, Drop, Finish, DisputesTypeOK, Idle
  <2> QED
    BY <1>a, <2>1, <2>2 DEF RequestOK
<1>3. ASSUME NEW q \in Requests, CheckActive(q)
      PROVE  DisputesInv'
  <2>1. UNCHANGED <<dispute, audit>> /\ \A p \in Requests : p # q => request'[p] = request[p]
    BY <1>0, <1>3 DEF CheckActive, Goto, Finish, DisputesTypeOK
  <2>2. CASE NoneActive(request[q].row)
    <3>1. /\ request'[q].op = "insert"
          /\ request'[q].row = request[q].row
          /\ request'[q].seen = Filed
      BY <1>0, <1>3, <2>2 DEF CheckActive, Goto, DisputesTypeOK
    <3>2. \A c \in Filed : dispute[c].row = request[q].row => dispute[c].status \in Ended
      BY <1>0, <2>2 DEF NoneActive, ActiveDisputes, DisputesOf, Filed, Active, Ended, DisputesTypeOK,
         Dispute
    <3>3. RequestOK(request[q])'
      BY <2>1, <3>1, <3>2 DEF RequestOK, SeenEnded, Filed
    <3> QED
      BY <1>a, <2>1, <3>3
  <2>3. CASE ~NoneActive(request[q].row)
    <3>1. request'[q].op = "idle"
      BY <1>0, <1>3, <2>3 DEF CheckActive, Finish, DisputesTypeOK, Idle
    <3> QED
      BY <1>a, <2>1, <3>1 DEF RequestOK
  <2> QED
    BY <2>2, <2>3
<1>4. ASSUME NEW q \in Requests, NEW d \in DisputeIds,
             \/ BeginWithdraw(q, d)
             \/ \E m \in Reviewers : \/ BeginReview(q, d, m)
                                     \/ \E o \in Outcomes : BeginResolve(q, d, m, o)
      PROVE  DisputesInv'
  <2>1. UNCHANGED <<dispute, audit>> /\ \A p \in Requests : p # q => request'[p] = request[p]
    BY <1>0, <1>4 DEF BeginWithdraw, BeginReview, BeginResolve, Start, DisputesTypeOK
  <2>2. /\ request'[q].op \in {"withdraw", "review", "resolve"}
        /\ request'[q].id = d
        /\ request'[q].op = "resolve" => request'[q].was = dispute[d].status
        /\ dispute[d].status \in Active
    BY <1>0, <1>4 DEF BeginWithdraw, BeginReview, BeginResolve, Start, DisputesTypeOK, Active
  <2>3. RequestOK(request[q])'
    BY <2>1, <2>2 DEF RequestOK, Active, ReviewerInv
  <2> QED
    BY <1>a, <2>1, <2>3
<1>5. ASSUME NEW q \in Requests, InsertDispute(q)
      PROVE  DisputesInv'
  <2>1. audit' = audit /\ request[q].op = "insert"
    BY <1>5 DEF InsertDispute
  <2>2. request[q] \in [op : {"insert"}, row : Rows, evidence : Amounts, seen : SUBSET DisputeIds]
    BY <1>0, <2>1 DEF DisputesTypeOK, Request, Idle
  <2>3. PICK d \in DisputeIds \ Filed :
           /\ dispute' = [dispute EXCEPT ![d] =
                 [NoDispute EXCEPT !.row = request[q].row, !.status = "OPEN",
                                   !.evidence = request[q].evidence,
                                   !.seen = request[q].seen]]
           /\ request' = [request EXCEPT ![q] = [op |-> "log", entry |-> [action |-> "OPENED", id |-> d]]]
    BY <1>5 DEF InsertDispute, Goto
  <2>4. /\ dispute'[d].row = request[q].row
        /\ dispute'[d].seen = request[q].seen
        /\ dispute'[d].status = "OPEN"
    BY <1>0, <2>3 DEF DisputesTypeOK, NoDispute
  <2>5. \A e \in DisputeIds : e # d => Same(e)
    BY <1>0, <2>3 DEF DisputesTypeOK, Same
  <2>6. SeenEnded(request[q].row, request[q].seen)
    BY <2>1 DEF RequestInv, RequestOK
  <2>7. \A c \in request[q].seen :
           c \in Filed' /\ (dispute'[c].row = request[q].row => dispute'[c].status \in Ended)
    BY <1>0, <2>6, EndedStays DEF SeenEnded, Filed
  <2>8. \A c \in dispute'[d].seen :
           c \in Filed' /\ (dispute'[c].row = dispute'[d].row => dispute'[c].status \in Ended)
    BY <2>4, <2>7
  <2>9. \A e \in DisputeIds : Inserted(e) => e = d
    BY <2>5 DEF Inserted, Same
  <2>10. /\ request'[q] = [op |-> "log", entry |-> [action |-> "OPENED", id |-> d]]
         /\ \A p \in Requests : p # q => request'[p] = request[p]
    BY <1>0, <2>3 DEF DisputesTypeOK
  <2>11. RequestOK(request[q])'
    BY <2>4, <2>10 DEF RequestOK, Agrees
  <2> QED
    BY <2>1, <2>8, <2>9, <2>10, <2>11, DisputesStep
<1>6. ASSUME NEW q \in Requests, CommitWithdraw(q) \/ CommitReview(q) \/ CommitResolve(q),
             RequestOK(request[q])'
      PROVE  DisputesInv'
  <2>1. audit' = audit /\ \A p \in Requests : p # q => request'[p] = request[p]
    BY <1>0, <1>6 DEF CommitWithdraw, CommitReview, CommitResolve, Goto, Finish, DisputesTypeOK
  <2>2. \A d \in DisputeIds : ~Inserted(d)
    <3>1. \/ dispute' = dispute
          \/ \A d \in DisputeIds : dispute[d].status = "free" => dispute'[d] = dispute[d]
      BY <1>0, <1>6 DEF CommitWithdraw, CommitReview, CommitResolve, StillOpen, StillActive, Active,
         DisputesTypeOK
    <3> QED
      BY <3>1 DEF Inserted
  <2> QED
    BY <1>6, <2>1, <2>2, DisputesStep
<1>7. ASSUME NEW q \in Requests, CommitWithdraw(q)
      PROVE  DisputesInv'
  <2>1. request[q] \in [op : {"withdraw"}, id : DisputeIds]
    BY <1>0, <1>7 DEF CommitWithdraw, DisputesTypeOK, Request, Idle
  <2>2. CASE StillOpen(request[q].id)
    <3>1. /\ dispute[request[q].id] \in Dispute
          /\ dispute' = [dispute EXCEPT ![request[q].id].status = "WITHDRAWN"]
          /\ request'[q] = [op |-> "log", entry |-> [action |-> "WITHDRAWN", id |-> request[q].id]]
      BY <1>0, <1>7, <2>1, <2>2 DEF CommitWithdraw, Goto, DisputesTypeOK
    <3>2. /\ dispute'[request[q].id].status = "WITHDRAWN"
          /\ dispute'[request[q].id].reviewedBy = dispute[request[q].id].reviewedBy
      BY <1>0, <2>1, <3>1 DEF DisputesTypeOK, Dispute
    <3>3. dispute[request[q].id].reviewedBy = None
      BY <2>1, <2>2 DEF StillOpen, ReviewerInv
    <3>4. RequestOK(request[q])'
      BY <3>1, <3>2, <3>3 DEF RequestOK, Agrees
    <3> QED
      BY <1>6, <1>7, <3>4
  <2>3. CASE ~StillOpen(request[q].id)
    <3>1. request'[q].op = "idle"
      BY <1>0, <1>7, <2>3 DEF CommitWithdraw, Finish, DisputesTypeOK, Idle
    <3>2. RequestOK(request[q])'
      BY <3>1 DEF RequestOK
    <3> QED
      BY <1>6, <1>7, <3>2
  <2> QED
    BY <2>2, <2>3
<1>8. ASSUME NEW q \in Requests, CommitReview(q)
      PROVE  DisputesInv'
  <2>1. request[q] \in [op : {"review"}, id : DisputeIds, by : Reviewers]
    BY <1>0, <1>8 DEF CommitReview, DisputesTypeOK, Request, Idle
  <2>2. CASE StillOpen(request[q].id)
    <3>1. /\ dispute[request[q].id] \in Dispute
          /\ dispute' = [dispute EXCEPT ![request[q].id] =
                            [@ EXCEPT !.status = "IN_REVIEW", !.reviewedBy = request[q].by]]
          /\ request'[q] = [op |-> "log", entry |-> [action |-> "REVIEW_STARTED", id |-> request[q].id,
                                                     by |-> request[q].by]]
      BY <1>0, <1>8, <2>1, <2>2 DEF CommitReview, Goto, DisputesTypeOK
    <3>2. dispute'[request[q].id].reviewedBy = request[q].by
      BY <1>0, <2>1, <3>1 DEF DisputesTypeOK, Dispute
    <3>3. RequestOK(request[q])'
      BY <3>1, <3>2 DEF RequestOK, Agrees
    <3> QED
      BY <1>6, <1>8, <3>3
  <2>3. CASE ~StillOpen(request[q].id)
    <3>1. request'[q].op = "idle"
      BY <1>0, <1>8, <2>3 DEF CommitReview, Finish, DisputesTypeOK, Idle
    <3>2. RequestOK(request[q])'
      BY <3>1 DEF RequestOK
    <3> QED
      BY <1>6, <1>8, <3>2
  <2> QED
    BY <2>2, <2>3
<1>9. ASSUME NEW q \in Requests, CommitResolve(q)
      PROVE  DisputesInv'
  <2>1. request[q] \in [op : {"resolve"}, id : DisputeIds, by : Reviewers, was : Active,
                        outcome : Outcomes]
    BY <1>0, <1>9 DEF CommitResolve, DisputesTypeOK, Request, Idle
  <2>2. CASE StillActive(request[q].id)
    <3>1. /\ dispute[request[q].id] \in Dispute
          /\ dispute' = [dispute EXCEPT ![request[q].id] =
                            [@ EXCEPT !.status = "RESOLVED", !.resolvedBy = request[q].by,
                                      !.outcome = request[q].outcome]]
          /\ request'[q] = [op |-> "log", entry |-> [action |-> "RESOLVED", id |-> request[q].id,
                                                     by |-> request[q].by, was |-> request[q].was,
                                                     outcome |-> request[q].outcome]]
      BY <1>0, <1>9, <2>1, <2>2 DEF CommitResolve, Goto, DisputesTypeOK
    <3>2. /\ dispute'[request[q].id].status = "RESOLVED"
          /\ dispute'[request[q].id].resolvedBy = request[q].by
          /\ dispute'[request[q].id].outcome = request[q].outcome
          /\ dispute'[request[q].id].reviewedBy = dispute[request[q].id].reviewedBy
      BY <1>0, <2>1, <3>1 DEF DisputesTypeOK, Dispute
    <3>3. request[q].was = "IN_REVIEW" => dispute[request[q].id].reviewedBy # None
      BY <2>1 DEF RequestInv, RequestOK
    <3>4. RequestOK(request[q])'
      BY <3>1, <3>2, <3>3 DEF RequestOK, Agrees
    <3> QED
      BY <1>6, <1>9, <3>4
  <2>3. CASE ~StillActive(request[q].id)
    <3>1. request'[q].op = "idle"
      BY <1>0, <1>9, <2>3 DEF CommitResolve, Finish, DisputesTypeOK, Idle
    <3>2. RequestOK(request[q])'
      BY <3>1 DEF RequestOK
    <3> QED
      BY <1>6, <1>9, <3>2
  <2> QED
    BY <2>2, <2>3
<1>10. ASSUME NEW q \in Requests, WriteEntry(q)
       PROVE  DisputesInv'
  <2>1. /\ dispute' = dispute
        /\ audit' = audit \cup {request[q].entry}
        /\ request'[q].op = "idle"
        /\ \A p \in Requests : p # q => request'[p] = request[p]
    BY <1>0, <1>10 DEF WriteEntry, Finish, DisputesTypeOK, Idle
  <2>2. Agrees(request[q].entry)
    BY <1>10 DEF WriteEntry, RequestInv, RequestOK
  <2>3. \A x \in audit' : x \in audit \/ Agrees(x)'
    BY <2>1, <2>2 DEF Agrees
  <2>4. RequestOK(request[q])'
    BY <2>1 DEF RequestOK
  <2> QED
    BY <2>1, <2>3, <2>4, DisputesStep DEF Inserted
<1> QED
  BY <1>1, <1>2, <1>3, <1>4, <1>5, <1>7, <1>8, <1>9, <1>10 DEF DisputesNext, RequestNext

-----------------------------------------------------------------------------
LEMMA DisputesInvSafe == DisputesInv => DisputesSafe
<1> SUFFICES ASSUME DisputesInv
             PROVE  DisputesSafe
  OBVIOUS
<1>1. TwoActiveOnlyByRace
  BY DEF DisputesInv, SeenInv, TwoActiveOnlyByRace, ActiveDisputes, DisputesOf, Filed,
     Active, Ended
<1>2. AuditAgrees
  <2>1. \A x \in audit : x \in Entry /\ Agrees(x)
    BY DEF DisputesInv, DisputesTypeOK, TrailInv
  <2> QED
    BY <2>1 DEF AuditAgrees, Agrees, Entry
<1> QED
  BY <1>1, <1>2 DEF DisputesSafe, DisputesInv

\* However the requests interleave between what they check and what they write
\* (disputes.service.ts:59-352), a share has two active disputes only when the requests that
\* opened them raced, neither finding the other, and every entry of the audit log is true of
\* its dispute.
THEOREM DisputesStaySafe == DisputesSpec => []DisputesSafe
<1>1. DisputesSpec => []DisputesInv
  BY DisputesInvInit, DisputesInvNext, PTL DEF DisputesSpec
<1> QED
  BY <1>1, DisputesInvSafe, PTL

\* A resolved or withdrawn dispute never changes again, and a dispute keeps the share and
\* the evidence it was opened with (disputes.service.ts:37-40).
THEOREM DisputesEndForGood == DisputesSpec => EndedForGood
<1>1. DisputesTypeOK /\ [DisputesNext]_disputeVars =>
        [\A d \in Filed :
            /\ dispute[d].status \in Ended => dispute'[d] = dispute[d]
            /\ dispute'[d].row = dispute[d].row
            /\ dispute'[d].evidence = dispute[d].evidence]_disputeVars
  BY DisputesMove, EndedStays DEF Filed
<1> QED
  BY <1>1, DisputesTyped, PTL DEF DisputesSpec, EndedForGood
=============================================================================
