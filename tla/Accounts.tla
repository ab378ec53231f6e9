------------------------------- MODULE Accounts -------------------------------
(***************************************************************************)
(* The accounts and employee records of one person, that is, of one e-mail *)
(* address: invitations, set-password and reset links, portal access of    *)
(* employees, cancelling and removing an invitation, deactivation.         *)
(*                                                                         *)
(* Each handler reads and checks first and writes in a transaction or a    *)
(* statement afterwards.  users.email is unique; employees.email is not.   *)
(***************************************************************************)
EXTENDS Server

CONSTANTS
  Accounts,       \* rows of users
  Staff,          \* rows of employees
  Links,          \* rows of invite_tokens and password_reset_tokens
  NoAccount       \* SQL NULL

ASSUME AccountsAssumption == NoAccount \notin Accounts

VARIABLES
  account,        \* users
  employee,       \* employees: status, is_platform_user, linked_user_uuid
  link            \* invite_tokens and password_reset_tokens

accountVars == <<account, employee, link>>

Managers == {"org_admin", "sub_admin"}

AccountRows  == [status   : {"absent", "active", "inactive"},
                 verified : BOOLEAN,
                 role     : Managers \union {"employee"}]
EmployeeRows == [status   : {"absent", "current", "inactive", "ex"},
                 platform : BOOLEAN,
                 linked   : Accounts \union {NoAccount}]
LinkRows     == [state : {"none", "open", "used"},
                 kind  : {"invite", "reset"},
                 of    : Accounts \union {NoAccount}]

NoRow      == [status |-> "absent", verified |-> FALSE, role |-> "employee"]
NoEmployee == [status |-> "absent", platform |-> FALSE, linked |-> NoAccount]
NoLink     == [state |-> "none", kind |-> "invite", of |-> NoAccount]

Exists(a)  == account[a].status # "absent"

AccountRequests ==
  [kind : {"invite"}, role : Managers]
    \union [kind : {"hireDirect"}, portal : BOOLEAN]
    \union [kind : {"portal", "unhire"}, employee : Staff]
    \union [kind : {"relink", "forgot"}, of : Accounts, step : {"retire", "insert"}]
    \union [kind : {"cancelInvite", "remove"}, of : Accounts]
    \union [kind : {"setPassword", "resetPassword"}, of : Accounts]

AccountsTypeOK ==
  /\ account \in [Accounts -> AccountRows]
  /\ employee \in [Staff -> EmployeeRows]
  /\ link \in [Links -> LinkRows]
  /\ request \in [Requests -> {Idle} \union AccountRequests]

AccountsInit ==
  /\ account = [a \in Accounts |-> NoRow]
  /\ employee = [e \in Staff |-> NoEmployee]
  /\ link = [k \in Links |-> NoLink]

----------------------------------------------------------------------------
\* UNIQUE KEY email: no row of users has the address.
EmailFree == \A a \in Accounts : ~Exists(a)

\* assertEmailAvailable looks at both tables.
AssertEmailAvailable == EmailFree /\ \A e \in Staff : employee[e].status = "absent"

NewLink(k, kind, a) == [link EXCEPT ![k] = [state |-> "open", kind |-> kind, of |-> a]]

Drop(links)   == [k \in Links |-> IF k \in links THEN NoLink ELSE link[k]]
Retire(links) == [k \in Links |-> IF k \in links THEN [link[k] EXCEPT !.state = "used"] ELSE link[k]]

OpenLinks(a, kind) == {k \in Links : link[k].of = a /\ link[k].kind = kind /\ link[k].state = "open"}
LinksOf(a, kind)   == {k \in Links : link[k].of = a /\ link[k].kind = kind}

----------------------------------------------------------------------------
\* New accounts: createAdminUser (sub_admin, inactive until the password is
\* set) and createUserWithOrganization (org_admin, active at once).

InviteRead(h, role) ==
  /\ AssertEmailAvailable
  /\ Begin(h, [kind |-> "invite", role |-> role])
  /\ UNCHANGED accountVars

InviteInsert(h, a, k, verified) ==
  /\ Doing(h, "invite")
  /\ account[a] = NoRow /\ link[k] = NoLink
  /\ LET role == request[h].role
     IN IF EmailFree
        THEN /\ account' = [account EXCEPT ![a] =
                  [status   |-> IF role = "org_admin" THEN "active" ELSE "inactive",
                   verified |-> role = "org_admin" /\ verified,
                   role     |-> role]]
             /\ link' = NewLink(k, "invite", a)
        ELSE UNCHANGED <<account, link>>
  /\ End(h)
  /\ UNCHANGED employee

----------------------------------------------------------------------------
\* Employees and their portal accounts

CreateEmployeeRead(h, portal) ==
  /\ \A e \in Staff : employee[e].status = "absent"
  /\ Begin(h, [kind |-> "hireDirect", portal |-> portal])
  /\ UNCHANGED accountVars

\* createEmployeePortalInvite, in the caller's transaction: account, link and
\* the employee's row, if there still is one; or the 409.
PortalInvite(e, row, a, k) ==
  /\ account[a] = NoRow /\ link[k] = NoLink
  /\ IF EmailFree
     THEN /\ account' = [account EXCEPT ![a] = [NoRow EXCEPT !.status = "inactive"]]
          /\ link' = NewLink(k, "invite", a)
          /\ employee' = [employee EXCEPT ![e] =
               IF row.status = "absent" THEN row ELSE [row EXCEPT !.platform = TRUE, !.linked = a]]
     ELSE UNCHANGED accountVars

CreateEmployeeInsert(h, e, a, k) ==
  /\ Doing(h, "hireDirect")
  /\ employee[e] = NoEmployee
  /\ LET hired == [NoEmployee EXCEPT !.status = "current"]
     IN IF request[h].portal THEN PortalInvite(e, hired, a, k)
        ELSE employee' = [employee EXCEPT ![e] = hired] /\ UNCHANGED <<account, link>>
  /\ End(h)

\* createReference: a former employee, kept to answer verifications.
CreateReference(e) ==
  /\ \A f \in Staff : employee[f].status = "absent"
  /\ employee' = [employee EXCEPT ![e] = [NoEmployee EXCEPT !.status = "ex"]]
  /\ UNCHANGED <<account, link, request>>

\* updateEmployee with a status, and archiveReference ("ex").
SetEmployeeStatus(e, status) ==
  /\ employee[e].status \notin {"absent", status}
  /\ employee' = [employee EXCEPT ![e].status = status]
  /\ UNCHANGED <<account, link, request>>

DeleteEmployeeRead(h, e) ==
  /\ employee[e].status # "absent"
  /\ ~employee[e].platform
  /\ Begin(h, [kind |-> "unhire", employee |-> e])
  /\ UNCHANGED accountVars

DeleteEmployeeWrite(h) ==
  /\ Doing(h, "unhire")
  /\ employee' = [employee EXCEPT ![request[h].employee] = NoEmployee]
  /\ End(h)
  /\ UNCHANGED <<account, link>>

\* resendEmployeeInvite for somebody without an account yet
PortalRead(h, e) ==
  /\ employee[e].status # "absent"
  /\ ~employee[e].platform
  /\ Begin(h, [kind |-> "portal", employee |-> e])
  /\ UNCHANGED accountVars

PortalInsert(h, a, k) ==
  /\ Doing(h, "portal")
  /\ LET e == request[h].employee IN PortalInvite(e, employee[e], a, k)
  /\ End(h)

----------------------------------------------------------------------------
\* Another link: resendEmployeeInvite for an account that is not active marks
\* the old links used, resendInvite of the platform deletes them.

EmployeeRelinkRead(h, e) ==
  /\ employee[e].status # "absent" /\ employee[e].platform
  /\ account[employee[e].linked].status = "inactive"
  /\ Begin(h, [kind |-> "relink", of |-> employee[e].linked, step |-> "retire"])
  /\ UNCHANGED accountVars

EmployeeRelinkRetire(h) ==
  /\ Doing(h, "relink") /\ request[h].step = "retire"
  /\ link' = Retire(OpenLinks(request[h].of, "invite"))
  /\ Go(h, [request[h] EXCEPT !.step = "insert"])
  /\ UNCHANGED <<account, employee>>

ResendInvite(h, a) ==
  /\ Exists(a) /\ ~account[a].verified
  /\ link' = Drop(OpenLinks(a, "invite"))
  /\ Begin(h, [kind |-> "relink", of |-> a, step |-> "insert"])
  /\ UNCHANGED <<account, employee>>

\* The foreign key refuses a link to an account that is gone.
RelinkInsert(h, k) ==
  /\ Doing(h, "relink") /\ request[h].step = "insert"
  /\ link[k] = NoLink
  /\ link' = IF Exists(request[h].of) THEN NewLink(k, "invite", request[h].of) ELSE link
  /\ End(h)
  /\ UNCHANGED <<account, employee>>

ForgotPassword(h, a) ==
  /\ account[a].status = "active"
  /\ link' = Retire(OpenLinks(a, "reset"))
  /\ Begin(h, [kind |-> "forgot", of |-> a, step |-> "insert"])
  /\ UNCHANGED <<account, employee>>

ForgotInsert(h, k) ==
  /\ Doing(h, "forgot")
  /\ link[k] = NoLink
  /\ link' = IF Exists(request[h].of) THEN NewLink(k, "reset", request[h].of) ELSE link
  /\ End(h)
  /\ UNCHANGED <<account, employee>>

----------------------------------------------------------------------------
\* Redeeming a link: it is checked first, and the account written afterwards.

LinkRead(h, k, kind, handler) ==
  /\ link[k].state = "open" /\ link[k].kind = kind
  /\ Begin(h, [kind |-> handler, of |-> link[k].of])
  /\ UNCHANGED accountVars

SetPasswordRead(h, k) == LinkRead(h, k, "invite", "setPassword")

ResetPasswordRead(h, k) ==
  /\ link[k].of # NoAccount /\ account[link[k].of].status = "active"
  /\ LinkRead(h, k, "reset", "resetPassword")

\* Whatever became of the link; an account that is gone is not written.
SetPasswordCommit(h) ==
  /\ Doing(h, "setPassword")
  /\ LET a == request[h].of
     IN /\ account' = IF Exists(a)
                      THEN [account EXCEPT ![a].status = "active", ![a].verified = TRUE]
                      ELSE account
        /\ link' = Retire(OpenLinks(a, "invite"))
  /\ End(h)
  /\ UNCHANGED employee

ResetPasswordCommit(h) ==
  /\ Doing(h, "resetPassword")
  /\ link' = Retire(OpenLinks(request[h].of, "reset"))
  /\ End(h)
  /\ UNCHANGED <<account, employee>>

----------------------------------------------------------------------------
\* Cancelling and removing an invitation that was not accepted; sub-admins
\* through the pages of their organization, all accounts through the platform's.

CancelRead(h, a, handler) ==
  /\ Exists(a) /\ ~account[a].verified
  /\ Begin(h, [kind |-> handler, of |-> a])
  /\ UNCHANGED accountVars

CancelInvite(h, a)          == CancelRead(h, a, "cancelInvite")
CancelAdminUserInvite(h, a) == account[a].role = "sub_admin" /\ CancelRead(h, a, "cancelInvite")
RemoveUser(h, a)            == CancelRead(h, a, "remove")
RemoveAdminUser(h, a)       == account[a].role = "sub_admin" /\ CancelRead(h, a, "remove")

CancelCommit(h) ==
  /\ Doing(h, "cancelInvite")
  /\ LET a == request[h].of
     IN /\ link' = Drop(LinksOf(a, "invite"))
        /\ account' = IF Exists(a) /\ ~account[a].verified
                      THEN [account EXCEPT ![a].status = "inactive"] ELSE account
  /\ End(h)
  /\ UNCHANGED employee

\* Mutant: the account is deleted as it was read.
RemovableAsRead(a) == Exists(a)

\* DELETE FROM users WHERE uuid=? AND is_verified='no'
Removable(a) == Exists(a) /\ ~account[a].verified

\* Links, portal access and account go together, or the 409 rolls all back.
RemoveCommit(h) ==
  /\ Doing(h, "remove")
  /\ LET a == request[h].of
     IN IF Removable(a)
        THEN /\ account' = [account EXCEPT ![a] = NoRow]
             /\ link' = Drop({k \in Links : link[k].of = a})
             /\ employee' = [e \in Staff |->
                  IF employee[e].linked = a
                  THEN [employee[e] EXCEPT !.linked = NoAccount, !.platform = FALSE]
                  ELSE employee[e]]
        ELSE UNCHANGED accountVars
  /\ End(h)

\* revokeAdminUser, and updateUser with a status or is_verified.
RevokeAdminUser(a) ==
  /\ Exists(a) /\ account[a].role = "sub_admin"
  /\ account' = [account EXCEPT ![a].status = "inactive"]
  /\ UNCHANGED <<employee, link, request>>

UpdateUser(a, status, verified) ==
  /\ Exists(a)
  /\ account' = [account EXCEPT ![a].status = status, ![a].verified = verified]
  /\ UNCHANGED <<employee, link, request>>

AccountsNext ==
  \/ \E h \in Requests :
       \/ \E role \in Managers : InviteRead(h, role)
       \/ \E portal \in BOOLEAN : CreateEmployeeRead(h, portal)
       \/ \E e \in Staff : DeleteEmployeeRead(h, e) \/ PortalRead(h, e) \/ EmployeeRelinkRead(h, e)
       \/ \E k \in Links :
            \/ RelinkInsert(h, k) \/ ForgotInsert(h, k)
            \/ SetPasswordRead(h, k) \/ ResetPasswordRead(h, k)
            \/ \E a \in Accounts :
                 \/ \E verified \in BOOLEAN : InviteInsert(h, a, k, verified)
                 \/ PortalInsert(h, a, k)
                 \/ \E e \in Staff : CreateEmployeeInsert(h, e, a, k)
       \/ \E a \in Accounts :
            \/ ResendInvite(h, a) \/ ForgotPassword(h, a)
            \/ CancelInvite(h, a) \/ CancelAdminUserInvite(h, a)
            \/ RemoveUser(h, a) \/ RemoveAdminUser(h, a)
       \/ DeleteEmployeeWrite(h) \/ EmployeeRelinkRetire(h)
       \/ SetPasswordCommit(h) \/ ResetPasswordCommit(h)
       \/ CancelCommit(h) \/ RemoveCommit(h)
       \/ Abandon(h) /\ UNCHANGED accountVars
  \/ \E e \in Staff :
       \/ CreateReference(e)
       \/ \E status \in {"current", "inactive", "ex"} : SetEmployeeStatus(e, status)
  \/ \E a \in Accounts :
       \/ RevokeAdminUser(a)
       \/ \E status \in {"active", "inactive"}, verified \in BOOLEAN : UpdateUser(a, status, verified)

AccountsSpec ==
  ServerInit /\ AccountsInit /\ [][AccountsNext]_<<request, accountVars>>

----------------------------------------------------------------------------
\* Whoever has accepted stays: an account whose password was set is never
\* removed, also when it is set between the check and the DELETE; and nobody is
\* left with the portal access of an account that does not exist.
AcceptedAccountStays ==
  [][/\ \A a \in Accounts : account[a].verified => account'[a].status # "absent"
     /\ \A e \in Staff : employee'[e].platform =>
          employee'[e].linked # NoAccount /\ account'[employee'[e].linked].status # "absent"
    ]_<<account, employee>>
============================================================================
