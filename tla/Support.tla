-------------------------------- MODULE Support --------------------------------
(***************************************************************************)
(* Support tickets of one organization (support.controller.js).            *)
(*                                                                         *)
(* Employees and sub-admins write to their organization's administrator,   *)
(* that administrator writes to the platform's.  Every handler reads the   *)
(* ticket, checks it, and writes without a condition; a reply is a row     *)
(* of its own, so it may land on a ticket that was closed meanwhile.       *)
(***************************************************************************)
EXTENDS Server, Naturals, Sequences, SequencesExt

CONSTANTS
  Tickets,        \* rows of support_tickets
  MaxReplies      \* bound: replies on one ticket

ASSUME SupportAssumption == MaxReplies \in Nat \ {0}

VARIABLE ticket   \* support_tickets, with the rows of support_ticket_replies

supportVars == ticket

Callers  == {"employee", "org_admin", "system_admin"}
Authors == {"admin", "org_user"}

Statuses == {"open", "in_progress", "resolved", "closed"}

TicketRows == [status  : {"absent"} \union Statuses,
               raiser  : {"employee", "org_admin"},
               tier    : {"org_admin", "system_admin"},
               replies : BoundedSeq(Authors, MaxReplies)]

NoTicket == [status |-> "absent", raiser |-> "employee", tier |-> "org_admin", replies |-> <<>>]

SupportRequests ==
  [kind : {"reply"}, ticket : Tickets, by : Authors]
    \union [kind : {"setStatus"}, ticket : Tickets, status : Statuses]

SupportTypeOK ==
  /\ ticket \in [Tickets -> TicketRows]
  /\ request \in [Requests -> {Idle} \union SupportRequests]

SupportInit == ticket = [t \in Tickets |-> NoTicket]

----------------------------------------------------------------------------
\* resolveTicketAssignment: who owns the next action, recorded with the ticket.
AssignedTier(raiser) == IF raiser = "org_admin" THEN "system_admin" ELSE "org_admin"

CreateTicket(t, raiser) ==
  /\ ticket[t].status = "absent"
  /\ ticket' = [ticket EXCEPT ![t] = [status  |-> "open",
                                      raiser  |-> raiser,
                                      tier    |-> AssignedTier(raiser),
                                      replies |-> <<>>]]
  /\ UNCHANGED request

\* assertTicketVisible: the raiser, and the tier that owns the ticket.
Visible(t, who) ==
  /\ ticket[t].status # "absent"
  /\ who \in {ticket[t].raiser, ticket[t].tier}

\* replyTypeFor: whoever works the queue answers as "admin".
ReplyTypeFor(t, who) == IF who = ticket[t].tier THEN "admin" ELSE "org_user"

\* loadTicket, assertTicketVisible, assertOpenForReply.
ReplyRead(h, t, who) ==
  /\ Visible(t, who)
  /\ ticket[t].status # "closed"
  /\ Begin(h, [kind |-> "reply", ticket |-> t, by |-> ReplyTypeFor(t, who)])
  /\ UNCHANGED supportVars

AddOrgReply(h, t) == \E who \in {"employee", "org_admin"} : ReplyRead(h, t, who)

AddAdminReply(h, t) == ReplyRead(h, t, "system_admin")

AddReplyInsert(h) ==
  /\ Doing(h, "reply")
  /\ Len(ticket[request[h].ticket].replies) < MaxReplies
  /\ ticket' = [ticket EXCEPT ![request[h].ticket].replies = Append(@, request[h].by)]
  /\ End(h)

\* updateTicketStatus: any status may follow any other, for administrators.
SetStatusRead(h, t, who, status) ==
  /\ Visible(t, who)
  /\ who # "employee"
  /\ Begin(h, [kind |-> "setStatus", ticket |-> t, status |-> status])
  /\ UNCHANGED supportVars

SetStatusWrite(h) ==
  /\ Doing(h, "setStatus")
  /\ ticket' = [ticket EXCEPT ![request[h].ticket].status = request[h].status]
  /\ End(h)

SupportNext ==
  \/ \E t \in Tickets, raiser \in {"employee", "org_admin"} : CreateTicket(t, raiser)
  \/ \E h \in Requests :
       \/ \E t \in Tickets, who \in Callers :
            \E status \in Statuses : SetStatusRead(h, t, who, status)
       \/ \E t \in Tickets : \/ AddOrgReply(h, t) \/ AddAdminReply(h, t)
       \/ AddReplyInsert(h) \/ SetStatusWrite(h)
       \/ Abandon(h) /\ UNCHANGED supportVars

SupportSpec == ServerInit /\ SupportInit /\ [][SupportNext]_<<request, supportVars>>
============================================================================
