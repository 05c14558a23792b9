----------------------------- MODULE Membership ------------------------------
(***************************************************************************)
(* How an employee gets an account: apps/api/src/invitations, the parts of *)
(* apps/api/src/employees that create and remove employees, and            *)
(* the two screens that drive them, apps/web components invite-modal.tsx   *)
(* (a manager creates an employee, then sends an invitation) and           *)
(* app/invite/page.tsx (the invitee accepts it).                           *)
(*                                                                         *)
(* The server runs the manager's requests step by step: what a transaction *)
(* reads under READ COMMITTED may be stale when it commits.  A user is     *)
(* known by the e-mail address, unique among users but not among employees.*)
(***************************************************************************)
EXTENDS Naturals, FiniteSets

CONSTANTS
    Employees,      \* ids of employees; bounds how many are created
    Emails,         \* e-mail addresses
    InvitationIds,  \* ids of employee_invitations rows; bounds how many are created
    Modals,         \* the managers' invitation dialogs
    Pages,          \* browsers on the invitation page
    None

ASSUME NoneAssumption == None \notin Employees \cup Emails

VARIABLES
    employee,       \* the rows of employees
    account,        \* the rows of users: per address, the employee it was created for
    invitation,     \* the rows of employee_invitations
    modal,          \* per dialog, its phase, and the request it waits for
    page            \* per browser, the acceptance in flight

vars == <<employee, account, invitation, modal, page>>

-----------------------------------------------------------------------------
\* Nothing in the API writes `active`, which is true by default: an employee that is there is
\* active until it is removed.
Employee == [status : {"none", "active", "removed"},
             email : Emails \cup {None}, user : Emails \cup {None}]

\* late: past expiresAt.  sent: the message left, whether or not the server knows.  seen is
\* history, not stored by the code: the invitations that existed when the request that
\* inserted this one looked for one.
Invitation == [status : {"none", "PENDING", "ACCEPTED", "REVOKED", "EXPIRED"},
               emp : Employees \cup {None}, email : Emails \cup {None},
               late : BOOLEAN, sent : BOOLEAN,
               seen : SUBSET InvitationIds]

\* The server has an invitation to insert, has inserted it, has failed to send it.  new:
\* the dialog has created the employee itself.
Order == [emp : Employees, email : Emails, new : BOOLEAN]
Form == [at |-> "form"]          \* also the error phase, which leads back to the form
Modal == {Form} \cup [at : {"create"}, email : Emails]
         \cup [at : {"invite", "partial"}, order : Order]
         \cup [at : {"insert"}, order : Order, seen : SUBSET InvitationIds]
         \cup [at : {"mail", "unsent"}, order : Order, id : InvitationIds]
         \cup [at : {"success"}]

Page == {None} \cup InvitationIds

MembershipTypeOK ==
    /\ employee \in [Employees -> Employee]
    /\ account \in [Emails -> Employees \cup {None}]
    /\ invitation \in [InvitationIds -> Invitation]
    /\ modal \in [Modals -> Modal]
    /\ page \in [Pages -> Page]

Init ==
    /\ employee = [e \in Employees |-> [status |-> "none", email |-> None, user |-> None]]
    /\ account = [x \in Emails |-> None]
    /\ invitation = [i \in InvitationIds |->
                        [status |-> "none", emp |-> None, email |-> None,
                         late |-> FALSE, sent |-> FALSE, seen |-> {}]]
    /\ modal = [m \in Modals |-> Form]
    /\ page = [p \in Pages |-> None]

-----------------------------------------------------------------------------
Present == {e \in Employees : employee[e].status = "active"}
Inserted == {i \in InvitationIds : invitation[i].status # "none"}
Pending == {i \in InvitationIds : invitation[i].status = "PENDING"}

MutEligible(e) == employee[e].status = "active"

\* What create, validate and accept ask of an employee, and accept again when it links it.
Eligible(e) == employee[e].status = "active" /\ employee[e].user = None

Goto(m, s) == modal' = [modal EXCEPT ![m] = s]

\* The dialog keeps an employee it has created for a retry.
Failure(order) == IF order.new THEN [at |-> "partial", order |-> order] ELSE Form

-----------------------------------------------------------------------------
(* employees: create *)

\* 409
Taken(x) == \E e \in Present : employee[e].email = x

Submit(m, x) ==
    /\ modal[m] = Form
    /\ ~Taken(x)
    /\ Goto(m, [at |-> "create", email |-> x])
    /\ UNCHANGED <<employee, account, invitation, page>>

\* The answer may be lost.
InsertEmployee(m) ==
    /\ modal[m].at = "create"
    /\ \E e \in Employees :
          /\ employee[e].status = "none"
          /\ employee' = [employee EXCEPT ![e] = [status |-> "active", email |-> modal[m].email,
                                                  user |-> None]]
          /\ \/ Goto(m, [at |-> "invite",
                         order |-> [emp |-> e, email |-> modal[m].email, new |-> TRUE]])
             \/ Goto(m, Form)
    /\ UNCHANGED <<account, invitation, page>>

-----------------------------------------------------------------------------
(* invitations: create *)

\* From the drawer of an employee whose account, at the last refresh, was missing.
InviteExisting(m, e, x) ==
    /\ modal[m] = Form
    /\ employee[e].status # "none"
    /\ Goto(m, [at |-> "invite", order |-> [emp |-> e, email |-> x, new |-> FALSE]])
    /\ UNCHANGED <<employee, account, invitation, page>>

OpenInvitation(e) == \E i \in Pending : invitation[i].emp = e /\ ~invitation[i].late

BeginInvite(m) ==
    /\ modal[m].at = "invite"
    /\ LET o == modal[m].order
       IN  Goto(m, IF Eligible(o.emp) /\ account[o.email] = None /\ ~OpenInvitation(o.emp)
                   THEN [at |-> "insert", order |-> o, seen |-> Inserted]
                   ELSE Failure(o))
    /\ UNCHANGED <<employee, account, invitation, page>>

\* The transaction also expires the employee's invitations that are late.
Expired(e) == [i \in InvitationIds |->
    IF i \in Pending /\ invitation[i].emp = e /\ invitation[i].late
    THEN [invitation[i] EXCEPT !.status = "EXPIRED"] ELSE invitation[i]]

InsertInvitation(m) ==
    /\ modal[m].at = "insert"
    /\ LET o == modal[m].order
       IN  \E i \in InvitationIds \ Inserted :
              /\ invitation' = [Expired(o.emp) EXCEPT ![i] =
                    [status |-> "PENDING", emp |-> o.emp, email |-> o.email,
                     late |-> FALSE, sent |-> FALSE, seen |-> modal[m].seen]]
              /\ Goto(m, [at |-> "mail", order |-> o, id |-> i])
    /\ UNCHANGED <<employee, account, page>>

\* The e-mail service may fail after the message has left, and the answer may be lost.
SendEmail(m) ==
    /\ modal[m].at = "mail"
    /\ \E sent \in BOOLEAN :
          /\ invitation' = [invitation EXCEPT ![modal[m].id].sent = sent]
          /\ \/ sent /\ Goto(m, [at |-> "success"])
             \/ sent /\ Goto(m, Failure(modal[m].order))
             \/ Goto(m, [modal[m] EXCEPT !.at = "unsent"])
    /\ UNCHANGED <<employee, account, page>>

MutStillPending(i) == TRUE

\* updateMany ... WHERE status = 'PENDING'
StillPending(i) == invitation[i].status = "PENDING"

Revoked(i) == [invitation EXCEPT ![i].status = IF StillPending(i) THEN "REVOKED" ELSE @]

\* 503: the invitation is revoked, not removed.
RevokeUnsent(m) ==
    /\ modal[m].at = "unsent"
    /\ invitation' = Revoked(modal[m].id)
    /\ Goto(m, Failure(modal[m].order))
    /\ UNCHANGED <<employee, account, page>>

\* The server stops, or the request is lost.
Interrupt(m) ==
    /\ \/ modal[m].at = "create" /\ Goto(m, Form)
       \/ modal[m].at \in {"invite", "insert", "mail", "unsent"}
          /\ Goto(m, Failure(modal[m].order))
    /\ UNCHANGED <<employee, account, invitation, page>>

Retry(m) ==
    /\ modal[m].at = "partial"
    /\ Goto(m, [modal[m] EXCEPT !.at = "invite"])
    /\ UNCHANGED <<employee, account, invitation, page>>

CloseModal(m) ==
    /\ modal[m].at \in {"success", "partial"}
    /\ Goto(m, Form)
    /\ UNCHANGED <<employee, account, invitation, page>>

-----------------------------------------------------------------------------
(* invitations: validate, accept, revoke *)

Lapse(i) ==
    /\ invitation[i].status = "PENDING" /\ ~invitation[i].late
    /\ invitation' = [invitation EXCEPT ![i].late = TRUE]
    /\ UNCHANGED <<employee, account, modal, page>>

\* accept writes EXPIRED too, but takes it back when it throws.
Validate(i) ==
    /\ invitation[i].sent /\ invitation[i].status = "PENDING" /\ invitation[i].late
    /\ invitation' = [invitation EXCEPT ![i].status = "EXPIRED"]
    /\ UNCHANGED <<employee, account, modal, page>>

\* The clock is read once, before the transaction: an invitation that expires during the
\* acceptance is accepted.
BeginAccept(p, i) ==
    /\ page[p] = None
    /\ invitation[i].sent /\ invitation[i].status = "PENDING" /\ ~invitation[i].late
    /\ Eligible(invitation[i].emp) /\ account[invitation[i].email] = None
    /\ page' = [page EXCEPT ![p] = i]
    /\ UNCHANGED <<employee, account, invitation, modal>>

\* The claim, the unique index of users and the conditional link each hold until the commit
\* what they have checked; one that fails takes all of it back.
CommitAccept(p) ==
    /\ page[p] # None
    /\ LET i == page[p]
           e == invitation[i].emp
           x == invitation[i].email
       IN  IF StillPending(i) /\ account[x] = None /\ Eligible(e)
           THEN /\ invitation' = [invitation EXCEPT ![i].status = "ACCEPTED"]
                /\ account' = [account EXCEPT ![x] = e]
                /\ employee' = [employee EXCEPT ![e].user = x, ![e].email = x]
           ELSE UNCHANGED <<invitation, account, employee>>
    /\ page' = [page EXCEPT ![p] = None]
    /\ UNCHANGED modal

Revoke(i) ==
    /\ StillPending(i)
    /\ invitation' = Revoked(i)
    /\ UNCHANGED <<employee, account, modal, page>>

-----------------------------------------------------------------------------
(* employees: remove *)

\* The address is made unusable; the account and the invitations stay.
Remove(e) ==
    /\ e \in Present
    /\ employee' = [employee EXCEPT ![e].status = "removed", ![e].email = None]
    /\ UNCHANGED <<account, invitation, modal, page>>

-----------------------------------------------------------------------------
ModalNext(m) ==
    \/ \E x \in Emails : Submit(m, x) \/ \E e \in Employees : InviteExisting(m, e, x)
    \/ InsertEmployee(m) \/ BeginInvite(m) \/ InsertInvitation(m)
    \/ SendEmail(m) \/ RevokeUnsent(m) \/ Interrupt(m) \/ Retry(m) \/ CloseModal(m)

InvitationNext(i) ==
    \/ Lapse(i) \/ Validate(i) \/ Revoke(i)
    \/ \E p \in Pages : BeginAccept(p, i)

Next ==
    \/ \E m \in Modals : ModalNext(m)
    \/ \E i \in InvitationIds : InvitationNext(i)
    \/ \E p \in Pages : CommitAccept(p)
    \/ \E e \in Employees : Remove(e)

Spec == Init /\ [][Next]_vars

-----------------------------------------------------------------------------
\* Accounts, the employees linked to them and the accepted invitations correspond one to
\* one, whatever acceptances overlap and wherever one fails (invitations.service.ts:360-499).
OneAccountEach ==
    /\ \A x \in Emails : account[x] # None =>
          /\ employee[account[x]].user = x
          /\ \E i \in InvitationIds :
                invitation[i].status = "ACCEPTED" /\ invitation[i].email = x
    /\ \A e \in Employees : employee[e].user # None => account[employee[e].user] = e
    /\ \A i \in InvitationIds : invitation[i].status = "ACCEPTED" =>
          /\ account[invitation[i].email] = invitation[i].emp
          /\ \A j \in InvitationIds \ {i} :
                invitation[j].status = "ACCEPTED" => invitation[j].emp # invitation[i].emp

\* An employee has two open invitations only when neither of the requests that sent them
\* could see the other (invitations.service.ts:163-179; no index forbids it).
TwoInvitationsOnlyByRace ==
    \A i, j \in Pending : i # j /\ invitation[i].emp = invitation[j].emp =>
        \/ invitation[i].late \/ invitation[j].late
        \/ i \notin invitation[j].seen /\ j \notin invitation[i].seen

\* What holds of employees, accounts and invitations in every state.
MembershipSafe == MembershipTypeOK /\ OneAccountEach /\ TwoInvitationsOnlyByRace

\* An invitation that was accepted, revoked or expired stays so; the revocation after a
\* failed e-mail cannot take back an acceptance (invitations.service.ts:216-226).
InvitationsEnd ==
    [][\A i \in InvitationIds : invitation[i].status \in {"ACCEPTED", "REVOKED", "EXPIRED"} =>
          invitation'[i].status = invitation[i].status]_vars

\* An acceptance begun before never links an employee who was removed meanwhile, and never
\* links one twice (invitations.service.ts:464-481).
NoLateLink ==
    [][\A e \in Employees : employee'[e].user # employee[e].user =>
          employee[e].status = "active" /\ employee[e].user = None]_vars

\* Both: however requests overlap, an invitation ends once and links whom it may.
EndsOnceAndLinksOnce == InvitationsEnd /\ NoLateLink
=============================================================================
