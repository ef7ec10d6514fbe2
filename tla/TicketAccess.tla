---------------------------- MODULE TicketAccess ----------------------------
(***************************************************************************)
(* Who may do what with one ticket, while roles are granted and revoked    *)
(* and the ticket changes hands.                                           *)
(*                                                                         *)
(* The scope of a ticket is written four times in the code: as an SQL      *)
(* condition for the list, and in Python for the detail and its timelines, *)
(* for comments and for attachments.  Each has its definition here; the    *)
(* properties say where they must agree.                                   *)
(*                                                                         *)
(* A request's roles are read from the database when it begins, its ticket *)
(* later; both are read at once here.                                      *)
(***************************************************************************)
EXTENDS Integers, FiniteSets

CONSTANTS
  People, Owner,   \* Owner is the requester of the ticket
  Founder,         \* an administrator from the start
  Nobody

AccessAssumption == {Owner, Founder} \subseteq People /\ Owner # Founder /\ Nobody \notin People

VARIABLES
  roles,     \* user_roles, of accounts that are all active
  charge,    \* the assignee of the current assignment
  terminal   \* current_status.is_terminal

vars == <<roles, charge, terminal>>

RoleCode == {"REQUESTER", "PROCESSOR", "ADMIN"}

TypeOK ==
  /\ roles \in [People -> SUBSET RoleCode]
  /\ charge \in People \union {Nobody}
  /\ terminal \in BOOLEAN

Init ==
  /\ roles = [u \in People |-> CASE u = Owner   -> {"REQUESTER"}
                                 [] u = Founder -> {"ADMIN"}
                                 [] OTHER       -> {}]
  /\ charge = Nobody /\ terminal = FALSE

Has(u, role) == role \in roles[u]
IsAdmin(u) == Has(u, "ADMIN")
IsCurrentProcessor(u) == Has(u, "PROCESSOR") /\ charge = u

-----------------------------------------------------------------------------
(* The four scopes *)

\* Variant: whoever is assigned sees the ticket in the list.
ListedByAssignment(u) ==
  IsAdmin(u) \/ (Has(u, "REQUESTER") /\ u = Owner) \/ charge = u

\* _list_conditions of the ticket repository; AnyBusinessRoleContext.
Listed(u) ==
  \/ IsAdmin(u)
  \/ Has(u, "REQUESTER") /\ u = Owner
  \/ Has(u, "PROCESSOR") /\ charge = u

\* _assert_ticket_scope of the ticket detail.
Opens(u) == IsAdmin(u) \/ (Has(u, "REQUESTER") /\ u = Owner) \/ IsCurrentProcessor(u)

\* create_comment.
CommentsOn(u) ==
  /\ IsAdmin(u) \/ IsCurrentProcessor(u) \/ (Has(u, "REQUESTER") /\ u = Owner)
  /\ ~terminal

\* _assert_comment_kind.
CommentsInternally(u) == CommentsOn(u) /\ (IsAdmin(u) \/ IsCurrentProcessor(u))

\* Variant: a past assignment is enough.
FileScopeOfProcessors(u) ==
  roles[u] # {} /\ (u = Owner \/ IsAdmin(u) \/ Has(u, "PROCESSOR"))

\* _assert_ticket_scope of the attachments: the owner needs any role at all.
FileScope(u) == roles[u] # {} /\ (u = Owner \/ IsAdmin(u) \/ IsCurrentProcessor(u))

Uploads(u) == FileScope(u) /\ ~terminal

\* _assert_internal_comment_scope.
Downloads(u, visibility) ==
  FileScope(u) /\ (visibility = "INTERNAL" => IsAdmin(u) \/ Has(u, "PROCESSOR"))

-----------------------------------------------------------------------------
(* The ticket detail and its timelines *)

\* Variant: whether the ticket has ended is not looked at.
PermissionsAtAnyTime(u) ==
  {"VIEW_DETAIL", "VIEW_ATTACHMENTS", "VIEW_STATUS_HISTORY", "ADD_COMMENT", "UPLOAD_ATTACHMENT"}
    \union (IF IsAdmin(u) \/ IsCurrentProcessor(u)
              THEN {"VIEW_INTERNAL_COMMENTS", "VIEW_ASSIGNMENT_HISTORY"} ELSE {})
    \union (IF IsAdmin(u) THEN {"ADMINISTER_TICKET"} ELSE {})

\* _permissions, as the detail shows them.
Permissions(u) ==
  {"VIEW_DETAIL", "VIEW_ATTACHMENTS", "VIEW_STATUS_HISTORY"}
    \union (IF terminal THEN {} ELSE {"ADD_COMMENT", "UPLOAD_ATTACHMENT"})
    \union (IF IsAdmin(u) \/ IsCurrentProcessor(u)
              THEN {"VIEW_INTERNAL_COMMENTS", "VIEW_ASSIGNMENT_HISTORY"} ELSE {})
    \union (IF IsAdmin(u) THEN {"ADMINISTER_TICKET"} ELSE {})

\* list_comments: include_internal.
ReadsInternal(u) == Opens(u) /\ (Has(u, "PROCESSOR") \/ IsAdmin(u))

\* list_assignments.
ReadsAssignments(u) == Opens(u) /\ (IsAdmin(u) \/ IsCurrentProcessor(u))

-----------------------------------------------------------------------------
\* assign_role and remove_role, one after another.
Grant(u, role) ==
  /\ ~Has(u, role)
  /\ roles' = [roles EXCEPT ![u] = @ \union {role}]
  /\ UNCHANGED <<charge, terminal>>

Revoke(u, role) ==
  /\ Has(u, role)
  /\ role = "ADMIN" => Cardinality({v \in People : IsAdmin(v)}) > 1
  /\ roles' = [roles EXCEPT ![u] = @ \ {role}]
  /\ UNCHANGED <<charge, terminal>>

\* assign_ticket.
Assign(u) ==
  /\ ~terminal /\ charge # u /\ Has(u, "PROCESSOR")
  /\ charge' = u
  /\ UNCHANGED <<roles, terminal>>

\* A handler of workflow_service.py closes or rejects the ticket.
EndTicket ==
  /\ ~terminal
  /\ terminal' = TRUE
  /\ UNCHANGED <<roles, charge>>

Next ==
  \/ EndTicket
  \/ \E u \in People : Assign(u) \/ \E role \in RoleCode : Grant(u, role) \/ Revoke(u, role)

Spec == Init /\ [][Next]_vars

-----------------------------------------------------------------------------
\* The list shows exactly the tickets that can be opened, whatever roles were
\* lost since the ticket was assigned (list_tickets, get_ticket_detail).
ListedAreOpened == \A u \in People : Listed(u) <=> Opens(u)

\* What the detail offers, the other services grant, and they grant it to no
\* one else who can open the ticket (_permissions).  But for one offer: internal
\* comments, and the files on them, are given to every processor who can open
\* the ticket, so also to a requester who is one and is not in charge, to whom
\* the detail does not offer them (list_comments, _assert_internal_comment_scope).
PermissionsAreHonoured ==
  \A u \in People : Opens(u) =>
    /\ "ADD_COMMENT" \in Permissions(u) <=> CommentsOn(u)
    /\ "UPLOAD_ATTACHMENT" \in Permissions(u) <=> Uploads(u)
    /\ {"ADD_COMMENT", "VIEW_INTERNAL_COMMENTS"} \subseteq Permissions(u) <=> CommentsInternally(u)
    /\ "VIEW_ATTACHMENTS" \in Permissions(u) <=> Downloads(u, "PUBLIC")
    /\ "VIEW_ASSIGNMENT_HISTORY" \in Permissions(u) <=> ReadsAssignments(u)
    /\ "VIEW_INTERNAL_COMMENTS" \in Permissions(u) \/ (u = Owner /\ Has(u, "PROCESSOR"))
         <=> ReadsInternal(u)
    /\ ReadsInternal(u) <=> Downloads(u, "INTERNAL")

\* Nobody writes to the ticket who cannot open it, but its owner may keep
\* adding files after losing the role REQUESTER.
WritersAreReaders ==
  \A u \in People :
    /\ CommentsOn(u) => Opens(u)
    /\ CommentsInternally(u) => ReadsInternal(u)
    /\ Uploads(u) => Opens(u) \/ u = Owner
=============================================================================
