-------------------------- MODULE MembershipProofs ---------------------------
(***************************************************************************)
(* Proofs about Membership, for any employees, addresses, invitations,     *)
(* dialogs and browsers.                                                   *)
(*                                                                         *)
(* All steps but CommitAccept are quiet: accounts and links stay, and no   *)
(* invitation becomes accepted.  The invariant adds to the property what   *)
(* the rows that are in use hold, and that an invitation seen by the       *)
(* request for another one of the same employee is over, or late.          *)
(***************************************************************************)
EXTENDS Membership, TLAPS

-----------------------------------------------------------------------------
RowsInv ==
    /\ \A i \in Inserted : invitation[i].emp \in Employees /\ invitation[i].email \in Emails
    /\ \A e \in Employees : employee[e].status = "none" => employee[e].user = None
    /\ \A p \in Pages : page[p] # None => page[p] \in Inserted

\* An invitation of that employee which can still be accepted.
Live(i, e) == invitation[i].status = "PENDING" /\ invitation[i].emp = e /\ ~invitation[i].late

SeenInv ==
    /\ \A j \in Inserted : \A i \in invitation[j].seen : i \in Inserted /\ ~Live(i, invitation[j].emp)
    /\ \A m \in Modals : modal[m].at = "insert" =>
          \A i \in modal[m].seen : i \in Inserted /\ ~Live(i, modal[m].order.emp)

MembershipInv == MembershipTypeOK /\ RowsInv /\ SeenInv /\ OneAccountEach

-----------------------------------------------------------------------------
(* The steps *)

Over == {"ACCEPTED", "REVOKED", "EXPIRED"}

\* What may become of a row of employee_invitations.
Steady(i) ==
    /\ invitation'[i].emp = invitation[i].emp
    /\ invitation'[i].email = invitation[i].email
    /\ invitation'[i].seen = invitation[i].seen
    /\ invitation[i].late => invitation'[i].late
    /\ \/ invitation'[i].status = invitation[i].status
       \/ invitation[i].status = "PENDING" /\ invitation'[i].status \in Over

New(i) ==
    /\ invitation[i].status = "none"
    /\ invitation'[i].status = "PENDING"
    /\ invitation'[i].emp \in Employees
    /\ invitation'[i].email \in Emails

Moves == \A i \in InvitationIds : Steady(i) \/ New(i)

Quiet ==
    /\ account' = account
    /\ \A e \in Employees : employee'[e].user = employee[e].user
    /\ \A i \in InvitationIds : invitation'[i].status = "ACCEPTED" => invitation[i].status = "ACCEPTED"

-----------------------------------------------------------------------------
LEMMA MembershipInit == Init => MembershipInv
<1> SUFFICES ASSUME Init
             PROVE  MembershipInv
  OBVIOUS
<1>1. MembershipTypeOK
  BY DEF Init, MembershipTypeOK, Employee, Invitation, Modal, Form, Page
<1>2. RowsInv /\ SeenInv
  BY DEF Init, RowsInv, SeenInv, Inserted, Form
<1>3. OneAccountEach
  BY DEF Init, OneAccountEach
<1> QED
  BY <1>1, <1>2, <1>3 DEF MembershipInv

\* What a dialog waits for, by its phase.
LEMMA ModalAt ==
  ASSUME MembershipTypeOK, NEW m \in Modals
  PROVE  /\ modal[m].at = "create" => modal[m] \in [at : {"create"}, email : Emails]
         /\ modal[m].at = "invite" => modal[m] \in [at : {"invite"}, order : Order]
         /\ modal[m].at = "partial" => modal[m] \in [at : {"partial"}, order : Order]
         /\ modal[m].at = "insert" => modal[m] \in [at : {"insert"}, order : Order,
                                                    seen : SUBSET InvitationIds]
         /\ modal[m].at = "mail" => modal[m] \in [at : {"mail"}, order : Order, id : InvitationIds]
         /\ modal[m].at = "unsent" => modal[m] \in [at : {"unsent"}, order : Order,
                                                    id : InvitationIds]
<1>1. modal[m] \in Modal
  BY DEF MembershipTypeOK
<1> QED
  BY <1>1 DEF Modal, Form

LEMMA FailureTyped == ASSUME NEW o \in Order PROVE Failure(o) \in Modal /\ Failure(o).at # "insert"
  BY DEF Failure, Modal, Form

\* How a dialog moves on: only a new look at the invitations of its employee readies it
\* to insert one.
ModalMoves ==
    \A m \in Modals :
        /\ modal'[m] \in Modal
        /\ modal'[m].at = "insert" =>
              \/ modal'[m] = modal[m]
              \/ /\ modal'[m].seen = Inserted
                 /\ ~OpenInvitation(modal'[m].order.emp)
                 /\ invitation' = invitation

\* What every step of a dialog shows.
Shown ==
    /\ employee' \in [Employees -> Employee]
    /\ invitation' \in [InvitationIds -> Invitation]
    /\ modal' \in [Modals -> Modal]
    /\ ModalMoves
    /\ Moves
    /\ \A i \in InvitationIds : New(i) =>
          \E m \in Modals : /\ modal[m].at = "insert"
                            /\ invitation'[i].seen = modal[m].seen
                            /\ invitation'[i].emp = modal[m].order.emp
    /\ \A e \in Employees : employee'[e].status = "none" => employee[e].status = "none"
    /\ Quiet

LEMMA SetModal ==
  ASSUME MembershipTypeOK, NEW m \in Modals, NEW s \in Modal, Goto(m, s),
         s.at = "insert" => /\ s.seen = Inserted
                            /\ ~OpenInvitation(s.order.emp)
                            /\ invitation' = invitation
  PROVE  modal' \in [Modals -> Modal] /\ ModalMoves
<1>1. modal' = [modal EXCEPT ![m] = s] /\ modal \in [Modals -> Modal]
  BY DEF Goto, MembershipTypeOK
<1>2. \A n \in Modals : modal'[n] = IF n = m THEN s ELSE modal[n]
  BY <1>1
<1> QED
  BY <1>1, <1>2 DEF ModalMoves

LEMMA InvitationsStand ==
  ASSUME MembershipTypeOK, invitation' = invitation
  PROVE  Moves /\ \A i \in InvitationIds : ~New(i)
  BY DEF Moves, Steady, New

LEMMA ModalShows ==
  ASSUME MembershipTypeOK, RowsInv, NEW m \in Modals, ModalNext(m)
  PROVE  Shown
<1> USE DEF MembershipTypeOK
<1>1. ASSUME NEW x \in Emails,
             Submit(m, x) \/ \E e \in Employees : InviteExisting(m, e, x)
      PROVE  Shown
  <2>1. PICK s \in Modal : Goto(m, s) /\ s.at # "insert"
    <3>1. CASE Submit(m, x)
      <4>1. Goto(m, [at |-> "create", email |-> x])
        BY <3>1 DEF Submit
      <4>2. [at |-> "create", email |-> x] \in Modal
        BY DEF Modal
      <4> QED
        BY <4>1, <4>2
    <3>2. ASSUME NEW e \in Employees, InviteExisting(m, e, x)
          PROVE  \E s \in Modal : Goto(m, s) /\ s.at # "insert"
      <4>1. Goto(m, [at |-> "invite", order |-> [emp |-> e, email |-> x, new |-> FALSE]])
        BY <3>2 DEF InviteExisting
      <4>2. [at |-> "invite", order |-> [emp |-> e, email |-> x, new |-> FALSE]] \in Modal
        BY DEF Modal, Order
      <4> QED
        BY <4>1, <4>2
    <3> QED
      BY <1>1, <3>1, <3>2
  <2>2. UNCHANGED <<employee, account, invitation, page>>
    BY <1>1 DEF Submit, InviteExisting
  <2> QED
    BY <2>1, <2>2, SetModal, InvitationsStand DEF Shown, Quiet
<1>2. CASE InsertEmployee(m)
  <2>1. modal[m] \in [at : {"create"}, email : Emails]
    BY <1>2, ModalAt DEF InsertEmployee
  <2>2. PICK e \in Employees :
          /\ employee[e].status = "none"
          /\ employee' = [employee EXCEPT ![e] = [status |-> "active", email |-> modal[m].email,
                                                  user |-> None]]
          /\ \/ Goto(m, [at |-> "invite",
                         order |-> [emp |-> e, email |-> modal[m].email, new |-> TRUE]])
             \/ Goto(m, Form)
    BY <1>2 DEF InsertEmployee
  <2>3. PICK s \in Modal : Goto(m, s) /\ s.at # "insert"
    <3>1. [at |-> "invite", order |-> [emp |-> e, email |-> modal[m].email, new |-> TRUE]] \in Modal
      BY <2>1 DEF Modal, Order
    <3>2. Form \in Modal /\ Form.at # "insert"
      BY DEF Modal, Form
    <3> QED
      BY <2>2, <3>1, <3>2
  <2>4. UNCHANGED <<account, invitation>>
    BY <1>2 DEF InsertEmployee
  <2>5. employee' \in [Employees -> Employee]
    BY <2>1, <2>2 DEF Employee
  <2>6. \A f \in Employees : /\ employee'[f].user = employee[f].user
                             /\ employee'[f].status = "none" => employee[f].status = "none"
    BY <2>1, <2>2 DEF RowsInv
  <2> QED
    BY <2>3, <2>4, <2>5, <2>6, SetModal, InvitationsStand DEF Shown, Quiet
<1>3. CASE BeginInvite(m)
  <2>1. modal[m].order \in Order
    BY <1>3, ModalAt DEF BeginInvite
  <2>2. UNCHANGED <<employee, account, invitation>>
    BY <1>3 DEF BeginInvite
  <2> DEFINE o == modal[m].order
  <2>3. CASE Eligible(o.emp) /\ account[o.email] = None /\ ~OpenInvitation(o.emp)
    <3>1. Goto(m, [at |-> "insert", order |-> o, seen |-> Inserted])
      BY <1>3, <2>3 DEF BeginInvite
    <3>2. [at |-> "insert", order |-> o, seen |-> Inserted] \in Modal
      BY <2>1 DEF Modal, Inserted
    <3> QED
      BY <2>2, <2>3, <3>1, <3>2, SetModal, InvitationsStand DEF Shown, Quiet
  <2>4. CASE ~(Eligible(o.emp) /\ account[o.email] = None /\ ~OpenInvitation(o.emp))
    <3>1. Goto(m, Failure(o))
      BY <1>3, <2>4 DEF BeginInvite
    <3> QED
      BY <2>1, <2>2, <3>1, FailureTyped, SetModal, InvitationsStand DEF Shown, Quiet
  <2> QED
    BY <2>3, <2>4
<1>4. CASE InsertInvitation(m)
  <2>1. modal[m] \in [at : {"insert"}, order : Order, seen : SUBSET InvitationIds]
    BY <1>4, ModalAt DEF InsertInvitation
  <2> DEFINE o == modal[m].order
  <2>2. PICK i \in InvitationIds \ Inserted :
              /\ invitation' = [Expired(o.emp) EXCEPT ![i] =
                    [status |-> "PENDING", emp |-> o.emp, email |-> o.email,
                     late |-> FALSE, sent |-> FALSE, seen |-> modal[m].seen]]
              /\ Goto(m, [at |-> "mail", order |-> o, id |-> i])
    BY <1>4 DEF InsertInvitation
  <2>3. o.emp \in Employees /\ o.email \in Emails /\ o \in Order
    BY <2>1 DEF Order
  <2>4. [at |-> "mail", order |-> o, id |-> i] \in Modal
    BY <2>2, <2>3 DEF Modal
  <2>5. ASSUME NEW j \in InvitationIds
        PROVE  /\ Expired(o.emp)[j] \in Invitation
               /\ Expired(o.emp)[j].emp = invitation[j].emp
               /\ Expired(o.emp)[j].email = invitation[j].email
               /\ Expired(o.emp)[j].seen = invitation[j].seen
               /\ Expired(o.emp)[j].late = invitation[j].late
               /\ \/ Expired(o.emp)[j].status = invitation[j].status
                  \/ invitation[j].status = "PENDING" /\ Expired(o.emp)[j].status = "EXPIRED"
    <3>1. invitation[j] \in Invitation
      OBVIOUS
    <3>2. Expired(o.emp)[j] = IF j \in Pending /\ invitation[j].emp = o.emp /\ invitation[j].late
                              THEN [invitation[j] EXCEPT !.status = "EXPIRED"] ELSE invitation[j]
      BY DEF Expired
    <3> HIDE DEF o
    <3> QED
      BY <3>1, <3>2 DEF Pending, Invitation
  <2>6. invitation'[i] = [status |-> "PENDING", emp |-> o.emp, email |-> o.email,
                          late |-> FALSE, sent |-> FALSE, seen |-> modal[m].seen]
    BY <2>2 DEF Expired
  <2>7. \A j \in InvitationIds : j # i => invitation'[j] = Expired(o.emp)[j]
    BY <2>2 DEF Expired
  <2>8. invitation'[i] \in Invitation
    BY <2>1, <2>3, <2>6 DEF Invitation
  <2>9. invitation' \in [InvitationIds -> Invitation]
    BY <2>2, <2>5, <2>7, <2>8 DEF Expired
  <2>10. \A j \in InvitationIds : j # i => Steady(j) /\ ~New(j)
    BY <2>5, <2>7 DEF Steady, New, Over
  <2>11. New(i) /\ invitation'[i].seen = modal[m].seen /\ invitation'[i].emp = o.emp
    BY <2>2, <2>3, <2>6 DEF New, Inserted
  <2>12. UNCHANGED <<employee, account>>
    BY <1>4 DEF InsertInvitation
  <2>13. modal' \in [Modals -> Modal] /\ ModalMoves
    BY <2>2, <2>4, SetModal
  <2>14. Quiet
    BY <2>5, <2>7, <2>11, <2>12 DEF Quiet, New
  <2> QED
    BY <2>1, <2>9, <2>10, <2>11, <2>12, <2>13, <2>14 DEF Shown, Moves
<1>5. CASE SendEmail(m)
  <2>1. modal[m] \in [at : {"mail"}, order : Order, id : InvitationIds]
    BY <1>5, ModalAt DEF SendEmail
  <2>2. PICK sent \in BOOLEAN : invitation' = [invitation EXCEPT ![modal[m].id].sent = sent]
    BY <1>5 DEF SendEmail
  <2>3. [modal[m] EXCEPT !.at = "unsent"] \in Modal /\ [modal[m] EXCEPT !.at = "unsent"].at = "unsent"
    BY <2>1 DEF Modal
  <2>4. PICK s \in Modal : Goto(m, s) /\ s.at # "insert"
    <3>1. \/ Goto(m, [at |-> "success"])
          \/ Goto(m, Failure(modal[m].order))
          \/ Goto(m, [modal[m] EXCEPT !.at = "unsent"])
      BY <1>5 DEF SendEmail
    <3>2. [at |-> "success"] \in Modal
      BY DEF Modal
    <3> QED
      BY <2>1, <2>3, <3>1, <3>2, FailureTyped
  <2>5. invitation' \in [InvitationIds -> Invitation]
    <3>1. invitation[modal[m].id] \in Invitation
      BY <2>1
    <3>2. [invitation[modal[m].id] EXCEPT !.sent = sent] \in Invitation
      BY <3>1 DEF Invitation
    <3> QED
      BY <2>2, <3>2
  <2>6. \A i \in InvitationIds : Steady(i) /\ invitation'[i].status = invitation[i].status
    BY <2>1, <2>2 DEF Steady, Invitation
  <2>7. UNCHANGED <<employee, account>>
    BY <1>5 DEF SendEmail
  <2> QED
    BY <2>4, <2>5, <2>6, <2>7, SetModal DEF Shown, Moves, New, Quiet
<1>6. CASE RevokeUnsent(m)
  <2>1. modal[m] \in [at : {"unsent"}, order : Order, id : InvitationIds]
    BY <1>6, ModalAt DEF RevokeUnsent
  <2>2. invitation' = Revoked(modal[m].id) /\ Goto(m, Failure(modal[m].order))
    BY <1>6 DEF RevokeUnsent
  <2>3. /\ invitation' \in [InvitationIds -> Invitation]
        /\ \A i \in InvitationIds :
              Steady(i) /\ invitation'[i].status \in {invitation[i].status, "REVOKED"}
    BY <2>1, <2>2 DEF Revoked, StillPending, Steady, Invitation, Over
  <2>4. UNCHANGED <<employee, account>>
    BY <1>6 DEF RevokeUnsent
  <2> QED
    BY <2>1, <2>2, <2>3, <2>4, FailureTyped, SetModal DEF Shown, Moves, New, Quiet
<1>7. CASE Interrupt(m) \/ Retry(m) \/ CloseModal(m)
  <2>1. PICK s \in Modal : Goto(m, s) /\ s.at # "insert"
    <3>1. CASE Interrupt(m)
      BY <3>1, ModalAt, FailureTyped DEF Interrupt, Modal, Form
    <3>2. CASE Retry(m)
      BY <3>2, ModalAt DEF Retry, Modal
    <3>3. CASE CloseModal(m)
      BY <3>3 DEF CloseModal, Modal, Form
    <3> QED
      BY <1>7, <3>1, <3>2, <3>3
  <2>2. UNCHANGED <<employee, account, invitation>>
    BY <1>7 DEF Interrupt, Retry, CloseModal
  <2> QED
    BY <2>1, <2>2, SetModal, InvitationsStand DEF Shown, Quiet
<1> QED
  BY <1>1, <1>2, <1>3, <1>4, <1>5, <1>6, <1>7 DEF ModalNext

\* The same of the steps that neither a dialog nor an acceptance makes.
LEMMA OthersShow ==
  ASSUME MembershipTypeOK, UNCHANGED modal,
         \/ \E i \in InvitationIds : Lapse(i) \/ Validate(i) \/ Revoke(i)
         \/ \E i \in InvitationIds, p \in Pages : BeginAccept(p, i)
         \/ \E e \in Employees : Remove(e)
         \/ UNCHANGED vars
  PROVE  Shown
<1> USE DEF MembershipTypeOK
<1>0. modal' \in [Modals -> Modal] /\ ModalMoves
  BY DEF ModalMoves
<1>1. ASSUME NEW i \in InvitationIds, Lapse(i) \/ Validate(i) \/ Revoke(i)
      PROVE  Shown
  <2>1. invitation[i] \in Invitation
    OBVIOUS
  <2>2. \/ invitation' = [invitation EXCEPT ![i] = [invitation[i] EXCEPT !.late = TRUE]]
        \/ /\ invitation[i].status = "PENDING"
           /\ \/ invitation' = [invitation EXCEPT ![i] = [invitation[i] EXCEPT !.status = "EXPIRED"]]
              \/ invitation' = [invitation EXCEPT ![i] = [invitation[i] EXCEPT !.status = "REVOKED"]]
    BY <1>1 DEF Lapse, Validate, Revoke, Revoked, StillPending
  <2>3. /\ [invitation[i] EXCEPT !.late = TRUE] \in Invitation
        /\ [invitation[i] EXCEPT !.status = "EXPIRED"] \in Invitation
        /\ [invitation[i] EXCEPT !.status = "REVOKED"] \in Invitation
    BY <2>1 DEF Invitation
  <2>4. invitation' \in [InvitationIds -> Invitation]
    BY <2>2, <2>3
  <2>5. \A j \in InvitationIds : j # i => invitation'[j] = invitation[j]
    BY <2>2
  <2>6. Steady(i) /\ invitation'[i].status \in {invitation[i].status, "EXPIRED", "REVOKED"}
    <3>1. \/ invitation'[i] = [invitation[i] EXCEPT !.late = TRUE]
          \/ /\ invitation[i].status = "PENDING"
             /\ \/ invitation'[i] = [invitation[i] EXCEPT !.status = "EXPIRED"]
                \/ invitation'[i] = [invitation[i] EXCEPT !.status = "REVOKED"]
      BY <2>2
    <3> QED
      BY <2>1, <3>1 DEF Steady, Over, Invitation
  <2>7. UNCHANGED <<employee, account>>
    BY <1>1 DEF Lapse, Validate, Revoke
  <2>8. \A j \in InvitationIds : Steady(j) /\ ~New(j)
                                 /\ invitation'[j].status \in {invitation[j].status, "EXPIRED", "REVOKED"}
    BY <2>5, <2>6 DEF Steady, New
  <2> QED
    BY <1>0, <2>4, <2>7, <2>8 DEF Shown, Moves, Quiet
<1>2. ASSUME NEW i \in InvitationIds, NEW p \in Pages, BeginAccept(p, i)
      PROVE  Shown
  BY <1>0, <1>2, InvitationsStand DEF BeginAccept, Shown, Quiet
<1>3. ASSUME NEW e \in Employees, Remove(e)
      PROVE  Shown
  <2>1. employee[e] \in Employee /\ employee[e].status = "active"
    BY <1>3 DEF Remove, Present
  <2>2. /\ employee' \in [Employees -> Employee]
        /\ employee'[e].user = employee[e].user /\ employee'[e].status # "none"
        /\ \A f \in Employees : f # e => employee'[f] = employee[f]
    BY <1>3, <2>1 DEF Remove, Employee
  <2>3. UNCHANGED <<account, invitation>>
    BY <1>3 DEF Remove
  <2> QED
    BY <1>0, <2>2, <2>3, InvitationsStand DEF Shown, Quiet
<1>4. CASE UNCHANGED vars
  BY <1>0, <1>4, InvitationsStand DEF vars, Shown, Quiet
<1> QED
  BY <1>1, <1>2, <1>3, <1>4

-----------------------------------------------------------------------------
(* The acceptance *)

Accepts(p) ==
    LET i == page[p]
    IN  /\ StillPending(i)
        /\ account[invitation[i].email] = None
        /\ Eligible(invitation[i].emp)

\* An acceptance links the employee and the address of an invitation that was pending.
LEMMA AcceptShows ==
  ASSUME MembershipInv, NEW p \in Pages, CommitAccept(p), Accepts(p)
  PROVE  \E i \in Inserted, e \in Employees, x \in Emails :
            /\ i = page[p]
            /\ invitation[i].emp = e /\ invitation[i].email = x
            /\ invitation[i].status = "PENDING" /\ account[x] = None
            /\ employee[e].status = "active" /\ employee[e].user = None
            /\ employee' \in [Employees -> Employee]
            /\ employee'[e].status = "active" /\ employee'[e].user = x
            /\ \A f \in Employees : f # e => employee'[f] = employee[f]
            /\ account' = [account EXCEPT ![x] = e]
            /\ invitation' \in [InvitationIds -> Invitation]
            /\ invitation'[i].status = "ACCEPTED"
            /\ \A j \in InvitationIds : j # i => invitation'[j] = invitation[j]
            /\ \A j \in InvitationIds : Steady(j) /\ ~New(j)
<1> USE DEF MembershipInv, MembershipTypeOK
<1>1. page[p] \in Inserted /\ page[p] \in InvitationIds
  BY DEF CommitAccept, RowsInv, Inserted
<1>2. PICK i \in Inserted : i = page[p]
  BY <1>1
<1>3. PICK e \in Employees, x \in Emails : invitation[i].emp = e /\ invitation[i].email = x
  BY <1>2 DEF RowsInv
<1>4. /\ invitation[i].status = "PENDING" /\ account[x] = None
      /\ employee[e].status = "active" /\ employee[e].user = None
  BY <1>2, <1>3 DEF Accepts, StillPending, Eligible
<1>5. /\ invitation' = [invitation EXCEPT ![i].status = "ACCEPTED"]
      /\ account' = [account EXCEPT ![x] = e]
      /\ employee' = [employee EXCEPT ![e].user = x, ![e].email = x]
  BY <1>2, <1>3 DEF CommitAccept, Accepts
<1>6. /\ employee' \in [Employees -> Employee]
      /\ employee'[e].status = "active" /\ employee'[e].user = x
      /\ \A f \in Employees : f # e => employee'[f] = employee[f]
  BY <1>4, <1>5 DEF Employee
<1>7. i \in InvitationIds
  BY <1>1, <1>2
<1>8. /\ invitation' \in [InvitationIds -> Invitation]
      /\ invitation'[i].status = "ACCEPTED"
      /\ \A j \in InvitationIds : j # i => invitation'[j] = invitation[j]
      /\ Steady(i)
  BY <1>4, <1>5, <1>7 DEF Invitation, Steady, Over
<1>9. \A j \in InvitationIds : Steady(j) /\ ~New(j)
  BY <1>4, <1>8 DEF Steady, New
<1> HIDE DEF MembershipInv, MembershipTypeOK
<1> WITNESS i \in Inserted, e \in Employees, x \in Emails
<1>10. invitation[i].emp = e /\ invitation[i].email = x
  BY <1>3
<1> QED
  BY <1>2, <1>10, <1>4, <1>5, <1>6, <1>8, <1>9

LEMMA RefusalShows ==
  ASSUME MembershipTypeOK, NEW p \in Pages, CommitAccept(p), ~Accepts(p)
  PROVE  Shown
<1>1. UNCHANGED <<employee, account, invitation, modal>>
  BY DEF CommitAccept, Accepts
<1> QED
  BY <1>1, InvitationsStand DEF MembershipTypeOK, ModalMoves, Shown, Quiet

\* Every step is one or the other, and acceptances begin on invitations that exist.
LEMMA NextShows ==
  ASSUME MembershipInv, [Next]_vars
  PROVE  /\ Shown \/ \E p \in Pages : CommitAccept(p) /\ Accepts(p)
         /\ page' \in [Pages -> Page]
         /\ \A p \in Pages : page'[p] = page[p] \/ page'[p] \in Inserted \cup {None}
<1> USE DEF MembershipInv
<1>1. ASSUME NEW m \in Modals, ModalNext(m)
      PROVE  Shown /\ page' = page
  BY <1>1, ModalShows
  DEF ModalNext, Submit, InviteExisting, InsertEmployee, BeginInvite, InsertInvitation, SendEmail,
      RevokeUnsent, Interrupt, Retry, CloseModal
<1>2. ASSUME NEW i \in InvitationIds, Lapse(i) \/ Validate(i) \/ Revoke(i)
      PROVE  Shown /\ page' = page
  <2>1. UNCHANGED <<modal, page>>
    BY <1>2 DEF Lapse, Validate, Revoke
  <2> QED
    BY <1>2, <2>1, OthersShow
<1>3. ASSUME NEW e \in Employees, Remove(e)
      PROVE  Shown /\ page' = page
  <2>1. UNCHANGED <<modal, page>>
    BY <1>3 DEF Remove
  <2> QED
    BY <1>3, <2>1, OthersShow
<1>4. CASE UNCHANGED vars
  <2>1. UNCHANGED <<modal, page>>
    BY <1>4 DEF vars
  <2> QED
    BY <1>4, <2>1, OthersShow DEF MembershipTypeOK
<1>5. ASSUME NEW i \in InvitationIds, NEW p \in Pages, BeginAccept(p, i)
      PROVE  /\ Shown
             /\ page' \in [Pages -> Page]
             /\ \A q \in Pages : page'[q] = page[q] \/ page'[q] \in Inserted
  <2>1. Shown
    BY <1>5, OthersShow DEF BeginAccept
  <2>2. i \in Inserted
    BY <1>5 DEF BeginAccept, Inserted
  <2> QED
    BY <1>5, <2>1, <2>2 DEF BeginAccept, MembershipTypeOK, Page
<1>6. ASSUME NEW p \in Pages, CommitAccept(p)
      PROVE  /\ Shown \/ Accepts(p)
             /\ page' \in [Pages -> Page]
             /\ \A q \in Pages : page'[q] = page[q] \/ page'[q] = None
  BY <1>6, RefusalShows DEF CommitAccept, MembershipTypeOK, Page
<1> QED
  BY <1>1, <1>2, <1>3, <1>4, <1>5, <1>6 DEF Next, InvitationNext, MembershipTypeOK

-----------------------------------------------------------------------------
(* The invariant *)

LEMMA LiveStays ==
  ASSUME MembershipTypeOK, Moves, NEW i \in Inserted
  PROVE  /\ i \in Inserted'
         /\ \A e : ~Live(i, e) => ~(/\ invitation'[i].status = "PENDING"
                                    /\ invitation'[i].emp = e /\ ~invitation'[i].late)
<1>1. i \in InvitationIds /\ Steady(i)
  BY DEF Inserted, Moves, New
<1> QED
  BY <1>1 DEF Inserted, Steady, Live, Over

LEMMA SeenKept ==
  ASSUME MembershipTypeOK, SeenInv, Moves, ModalMoves,
         \A i \in InvitationIds : New(i) =>
            \E m \in Modals : /\ modal[m].at = "insert"
                              /\ invitation'[i].seen = modal[m].seen
                              /\ invitation'[i].emp = modal[m].order.emp
  PROVE  SeenInv'
<1>1. ASSUME NEW j \in Inserted', NEW i \in invitation'[j].seen
      PROVE  i \in Inserted' /\ ~Live(i, invitation[j].emp)'
  <2>1. j \in InvitationIds
    BY DEF Inserted
  <2>2. CASE New(j)
    <3>1. PICK m \in Modals : /\ modal[m].at = "insert"
                              /\ invitation'[j].seen = modal[m].seen
                              /\ invitation'[j].emp = modal[m].order.emp
      BY <2>1, <2>2
    <3>2. i \in Inserted /\ ~Live(i, modal[m].order.emp)
      BY <1>1, <3>1 DEF SeenInv
    <3> QED
      BY <3>1, <3>2, LiveStays DEF Live
  <2>3. CASE ~New(j)
    <3>1. Steady(j)
      BY <2>1, <2>3 DEF Moves
    <3>2. j \in Inserted /\ invitation'[j].seen = invitation[j].seen
                         /\ invitation'[j].emp = invitation[j].emp
      BY <2>1, <3>1 DEF Steady, Inserted
    <3>3. i \in Inserted /\ ~Live(i, invitation[j].emp)
      BY <1>1, <3>2 DEF SeenInv
    <3> QED
      BY <3>2, <3>3, LiveStays DEF Live
  <2> QED
    BY <2>2, <2>3
<1>2. ASSUME NEW m \in Modals, modal'[m].at = "insert", NEW i \in modal'[m].seen
      PROVE  i \in Inserted' /\ ~Live(i, modal[m].order.emp)'
  <2>1. CASE modal'[m] = modal[m]
    <3>1. i \in Inserted /\ ~Live(i, modal[m].order.emp)
      BY <1>2, <2>1 DEF SeenInv
    <3> QED
      BY <2>1, <3>1, LiveStays DEF Live
  <2>2. CASE /\ modal'[m].seen = Inserted
             /\ ~OpenInvitation(modal'[m].order.emp)
             /\ invitation' = invitation
    BY <1>2, <2>2 DEF OpenInvitation, Pending, Inserted, Live
  <2> QED
    BY <1>2, <2>1, <2>2 DEF ModalMoves
<1> QED
  BY <1>1, <1>2 DEF SeenInv

LEMMA AccountsKept ==
  ASSUME MembershipTypeOK, RowsInv, OneAccountEach, Moves, Quiet
  PROVE  OneAccountEach'
<1>0. \A i \in InvitationIds :
         /\ invitation[i].status = "ACCEPTED" <=> invitation'[i].status = "ACCEPTED"
         /\ invitation[i].status = "ACCEPTED" => /\ invitation'[i].emp = invitation[i].emp
                                                 /\ invitation'[i].email = invitation[i].email
  BY DEF Moves, Steady, New, Quiet
<1>1. ASSUME NEW x \in Emails, account'[x] # None
      PROVE  /\ employee'[account'[x]].user = x
             /\ \E i \in InvitationIds :
                   invitation'[i].status = "ACCEPTED" /\ invitation'[i].email = x
  BY <1>0, <1>1 DEF OneAccountEach, Quiet, MembershipTypeOK
<1>2. ASSUME NEW e \in Employees, employee'[e].user # None
      PROVE  account'[employee'[e].user] = e
  BY <1>2 DEF OneAccountEach, Quiet
<1>3. ASSUME NEW i \in InvitationIds, invitation'[i].status = "ACCEPTED"
      PROVE  /\ account'[invitation'[i].email] = invitation'[i].emp
             /\ \A j \in InvitationIds \ {i} :
                   invitation'[j].status = "ACCEPTED" => invitation'[j].emp # invitation'[i].emp
  BY <1>0, <1>3 DEF OneAccountEach, Quiet
<1> QED
  BY <1>1, <1>2, <1>3 DEF OneAccountEach

LEMMA MembershipNext == MembershipInv /\ [Next]_vars => MembershipInv'
<1> SUFFICES ASSUME MembershipInv, [Next]_vars
             PROVE  MembershipInv'
  OBVIOUS
<1> USE DEF MembershipInv
<1>1. /\ page' \in [Pages -> Page]
      /\ \A p \in Pages : page'[p] = page[p] \/ page'[p] \in Inserted \cup {None}
  BY NextShows
<1>2. CASE Shown
  <2>1. Moves /\ ModalMoves /\ Quiet
    BY <1>2 DEF Shown
  <2>2. MembershipTypeOK'
    BY <1>1, <1>2, <2>1 DEF Shown, Quiet, MembershipTypeOK
  <2>3. SeenInv'
    BY <1>2, <2>1, SeenKept DEF Shown
  <2>4. OneAccountEach'
    BY <2>1, AccountsKept
  <2>5. RowsInv'
    <3>1. \A i \in Inserted' : invitation'[i].emp \in Employees /\ invitation'[i].email \in Emails
      BY <2>1 DEF Moves, Steady, New, Inserted, RowsInv
    <3>2. \A e \in Employees : employee'[e].status = "none" => employee'[e].user = None
      BY <1>2, <2>1 DEF Shown, Quiet, RowsInv
    <3>3. \A p \in Pages : page'[p] # None => page'[p] \in Inserted'
      BY <1>1, <2>1, LiveStays DEF RowsInv
    <3> QED
      BY <3>1, <3>2, <3>3 DEF RowsInv
  <2> QED
    BY <2>2, <2>3, <2>4, <2>5
<1>3. ASSUME NEW p \in Pages, CommitAccept(p), Accepts(p)
      PROVE  MembershipInv'
  <2>0. modal' = modal
    BY <1>3 DEF CommitAccept
  <2>1. PICK i \in Inserted, e \in Employees, x \in Emails :
            /\ i = page[p]
            /\ invitation[i].emp = e /\ invitation[i].email = x
            /\ invitation[i].status = "PENDING" /\ account[x] = None
            /\ employee[e].status = "active" /\ employee[e].user = None
            /\ employee' \in [Employees -> Employee]
            /\ employee'[e].status = "active" /\ employee'[e].user = x
            /\ \A f \in Employees : f # e => employee'[f] = employee[f]
            /\ account' = [account EXCEPT ![x] = e]
            /\ invitation' \in [InvitationIds -> Invitation]
            /\ invitation'[i].status = "ACCEPTED"
            /\ \A j \in InvitationIds : j # i => invitation'[j] = invitation[j]
            /\ \A j \in InvitationIds : Steady(j) /\ ~New(j)
    BY <1>3, AcceptShows
  <2>2. Moves /\ ModalMoves
    BY <2>0, <2>1 DEF Moves, ModalMoves, MembershipTypeOK
  <2>3. MembershipTypeOK'
    BY <1>1, <2>0, <2>1 DEF MembershipTypeOK
  <2>4. SeenInv'
    BY <2>1, <2>2, SeenKept
  <2>5. RowsInv'
    <3>1. \A j \in Inserted' : invitation'[j].emp \in Employees /\ invitation'[j].email \in Emails
      BY <2>1 DEF Steady, Inserted, RowsInv
    <3>2. \A f \in Employees : employee'[f].status = "none" => employee'[f].user = None
      BY <2>1 DEF RowsInv
    <3>3. \A q \in Pages : page'[q] # None => page'[q] \in Inserted'
      BY <1>1, <2>2, LiveStays DEF RowsInv
    <3> QED
      BY <3>1, <3>2, <3>3 DEF RowsInv
  <2>6. i \in InvitationIds /\ invitation'[i].emp = e /\ invitation'[i].email = x
    BY <2>1 DEF Inserted, Steady
  <2>7. account'[x] = e /\ \A y \in Emails : y # x => account'[y] = account[y]
    BY <2>1 DEF MembershipTypeOK
  <2>8. \A y \in Emails : account[y] # e
    BY <2>1, NoneAssumption DEF OneAccountEach, MembershipTypeOK
  <2>9. \A j \in InvitationIds \ {i} : invitation'[j].status = "ACCEPTED" =>
           /\ invitation[j].status = "ACCEPTED"
           /\ account[invitation[j].email] = invitation[j].emp
           /\ invitation[j].emp \in Employees /\ invitation[j].email \in Emails
    BY <2>1 DEF OneAccountEach, RowsInv, Inserted
  <2>10. \A j \in InvitationIds \ {i} : invitation'[j].status = "ACCEPTED" =>
            invitation[j].emp # e /\ invitation[j].email # x
    BY <2>1, <2>8, <2>9, NoneAssumption
  <2>11. ASSUME NEW y \in Emails, account'[y] # None
         PROVE  /\ employee'[account'[y]].user = y
                /\ \E j \in InvitationIds :
                      invitation'[j].status = "ACCEPTED" /\ invitation'[j].email = y
    <3>1. CASE y = x
      BY <2>1, <2>6, <2>7, <3>1
    <3>2. CASE y # x
      <4>1. account'[y] = account[y] /\ account[y] # None /\ account[y] \in Employees /\ account[y] # e
        BY <2>7, <2>8, <2>11, <3>2 DEF MembershipTypeOK
      <4>2. employee'[account'[y]].user = y
        BY <2>1, <4>1 DEF OneAccountEach
      <4>3. PICK j \in InvitationIds : invitation[j].status = "ACCEPTED" /\ invitation[j].email = y
        BY <4>1 DEF OneAccountEach
      <4>4. invitation'[j].status = "ACCEPTED" /\ invitation'[j].email = y
        BY <2>1, <4>3
      <4> QED
        BY <4>2, <4>4
    <3> QED
      BY <3>1, <3>2
  <2>12. ASSUME NEW f \in Employees, employee'[f].user # None
         PROVE  account'[employee'[f].user] = f
    <3>1. CASE f = e
      BY <2>1, <2>7, <3>1
    <3>2. CASE f # e
      <4>1. employee'[f].user = employee[f].user /\ employee[f].user \in Emails
        BY <2>1, <2>12, <3>2 DEF MembershipTypeOK, Employee
      <4>2. account[employee[f].user] = f
        BY <2>12, <4>1 DEF OneAccountEach
      <4>3. employee[f].user # x
        BY <2>1, <4>2, NoneAssumption
      <4> QED
        BY <2>7, <4>1, <4>2, <4>3
    <3> QED
      BY <3>1, <3>2
  <2>13. ASSUME NEW j \in InvitationIds, invitation'[j].status = "ACCEPTED"
         PROVE  /\ account'[invitation'[j].email] = invitation'[j].emp
                /\ \A k \in InvitationIds \ {j} :
                      invitation'[k].status = "ACCEPTED" => invitation'[k].emp # invitation'[j].emp
    <3>1. CASE j = i
      BY <2>1, <2>6, <2>7, <2>10, <3>1
    <3>2. CASE j # i
      <4>1. /\ invitation'[j] = invitation[j] /\ invitation[j].status = "ACCEPTED"
            /\ account[invitation[j].email] = invitation[j].emp
            /\ invitation[j].email \in Emails /\ invitation[j].email # x /\ invitation[j].emp # e
        BY <2>1, <2>9, <2>10, <2>13, <3>2
      <4>2. \A k \in InvitationIds \ {j} :
               invitation'[k].status = "ACCEPTED" => invitation'[k].emp # invitation'[j].emp
        BY <2>1, <2>6, <2>9, <4>1 DEF OneAccountEach
      <4> QED
        BY <2>7, <4>1, <4>2
    <3> QED
      BY <3>1, <3>2
  <2>14. OneAccountEach'
    BY <2>11, <2>12, <2>13 DEF OneAccountEach
  <2> QED
    BY <2>3, <2>4, <2>5, <2>14
<1> QED
  BY <1>2, <1>3, NextShows

-----------------------------------------------------------------------------
LEMMA MembershipInvSafe == MembershipInv => MembershipSafe
<1> SUFFICES ASSUME MembershipInv
             PROVE  TwoInvitationsOnlyByRace
  BY DEF MembershipInv, MembershipSafe
<1> QED
  BY DEF MembershipInv, SeenInv, Live, TwoInvitationsOnlyByRace, Pending, Inserted

LEMMA MembershipInvariant == Spec => []MembershipInv
  BY MembershipInit, MembershipNext, PTL DEF Spec

\* Whatever dialogs, browsers and managers interleave, and wherever a request fails
\* (invitations.service.ts:148-499), accounts, linked employees and accepted invitations
\* stay one to one, and an employee has two open invitations only by a race.
THEOREM MembershipStaysSafe == Spec => []MembershipSafe
  BY MembershipInvariant, MembershipInvSafe, PTL

\* An invitation ends once and for good, and an acceptance links only an active employee
\* without an account (invitations.service.ts:216-226, 464-481).
THEOREM InvitationsEndOnce == Spec => EndsOnceAndLinksOnce
<1>1. MembershipInv /\ [Next]_vars =>
        [\A i \in InvitationIds : invitation[i].status \in {"ACCEPTED", "REVOKED", "EXPIRED"} =>
            invitation'[i].status = invitation[i].status]_vars
  <2> SUFFICES ASSUME MembershipInv, [Next]_vars
               PROVE  Moves
    BY DEF Moves, Steady, New
  <2> QED
    BY NextShows, AcceptShows DEF Shown, Moves
<1>2. MembershipInv /\ [Next]_vars =>
        [\A e \in Employees : employee'[e].user # employee[e].user =>
            employee[e].status = "active" /\ employee[e].user = None]_vars
  <2> SUFFICES ASSUME MembershipInv, [Next]_vars, NEW e \in Employees,
                      employee'[e].user # employee[e].user
               PROVE  employee[e].status = "active" /\ employee[e].user = None
    OBVIOUS
  <2>1. PICK p \in Pages : CommitAccept(p) /\ Accepts(p)
    BY NextShows DEF Shown, Quiet
  <2> QED
    BY <2>1, AcceptShows
<1> QED
  BY <1>1, <1>2, MembershipInvariant, PTL DEF Spec, EndsOnceAndLinksOnce, InvitationsEnd, NoLateLink
=============================================================================
