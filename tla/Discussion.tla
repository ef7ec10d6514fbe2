----------------------------- MODULE Discussion -----------------------------
(***************************************************************************)
(* The comments of one ticket and their editing (comment_service.py), and  *)
(* those that WF-02 and WF-03 write (workflow_service.py).                 *)
(*                                                                         *)
(* A comment is created under the lock on the ticket, one step from the    *)
(* lock to the commit.  COM-02 dates it then and records it in the audit;  *)
(* the workflow leaves the date to the database, which takes the begin of  *)
(* the transaction, and records no content.  An edit locks the comment     *)
(* only: it reads the ticket, decides, and commits later.                  *)
(*                                                                         *)
(* The first public reply's effect on the response clock is in             *)
(* TicketWorkflow, who may read what in TicketAccess.                      *)
(***************************************************************************)
EXTENDS Integers, FiniteSets, Sequences

CONSTANTS
  Requester, Processors, Admin,
  Contents, NoContent,
  Requests,      \* requests under way at the same time
  EditWindow,    \* COMMENT_EDIT_WINDOW_MINUTES
  MaxTime,       \* bound on the clock
  MaxComments, MaxEdits  \* bounds on what is written

DiscussionAssumption ==
  /\ NoContent \notin Contents
  /\ Requester \notin Processors /\ Admin \notin Processors /\ Requester # Admin
  /\ EditWindow \in Nat /\ MaxTime \in Nat /\ MaxComments \in Nat /\ MaxEdits \in Nat

VARIABLES
  phase, charge,  \* of the ticket: what matters of its status, the current assignee
  now,
  comments,  \* in the order of comment_id
  audit,     \* COMMENT_CREATED and COMMENT_UPDATED rows, in the order of their commits
  request

vars == <<phase, charge, now, comments, audit, request>>

People == Processors \union {Requester, Admin}
Phases == {"OPEN", "IN_PROGRESS", "PENDING_INFO", "ENDED"}  \* "OPEN" is any other active one

\* Beside its row: the operation that wrote it, what it wrote, and whom the
\* notification sent with it is for.
Comment == [author : People, visibility : {"PUBLIC", "INTERNAL"}, content : Contents,
            created_at : 0..MaxTime, via : {"COM-02", "WF-02", "WF-03"}, first : Contents,
            told : SUBSET People]
AuditRow == [comment : 1..MaxComments, old : Contents \union {NoContent}, new : Contents]
Idle == [step |-> "idle"]

TypeOK ==
  /\ phase \in Phases /\ charge \in Processors /\ now \in 0..MaxTime
  /\ comments \in Seq(Comment) /\ Len(comments) <= MaxComments
  /\ audit \in Seq(AuditRow)
  /\ request \in [Requests -> {Idle}
       \union [step : {"begun"}, actor : People, begun : 0..MaxTime]
       \union [step : {"editing"}, actor : People,
               edit : [comment : 1..MaxComments, old : Contents, new : Contents]]]

Init ==
  /\ phase = "OPEN" /\ charge \in Processors /\ now = 0
  /\ comments = <<>> /\ audit = <<>>
  /\ request = [r \in Requests |-> Idle]

InScope(u) == u \in {Requester, charge, Admin}
IsHandler(u) == u \in {charge, Admin}
Edits == Cardinality({i \in DOMAIN audit : audit[i].old # NoContent})
IsLocked(c) == \E r \in Requests : request[r].step = "editing" /\ request[r].edit.comment = c
Done(r) == request' = [request EXCEPT ![r] = Idle]

-----------------------------------------------------------------------------
Begin(r, actor) ==
  /\ request[r] = Idle
  /\ request' = [request EXCEPT ![r] = [step |-> "begun", actor |-> actor, begun |-> now]]
  /\ UNCHANGED <<phase, charge, now, comments, audit>>

\* 403, 404, 409 or 422.
Refuse(r) ==
  /\ request[r].step = "begun"
  /\ Done(r)
  /\ UNCHANGED <<phase, charge, now, comments, audit>>

\* Variant: the requester is told, whoever writes.
ToldRequester(actor, visibility) ==
  IF visibility = "INTERNAL" THEN {} ELSE {Requester} \ {actor}

\* notify_public_reply
ToldOfReply(actor, visibility) ==
  IF visibility = "INTERNAL" THEN {}
  ELSE (IF actor = Requester THEN {charge} ELSE {Requester}) \ {actor}

\* The row that request r inserts (the two create_comment_record).
NewComment(r, via, visibility, content, created_at, told) ==
  [author |-> request[r].actor, visibility |-> visibility, content |-> content,
   created_at |-> created_at, via |-> via, first |-> content, told |-> told]

\* Insert a comment of COM-02, and its audit row.
Comments(r, visibility, content, created_at) ==
  /\ request[r].step = "begun" /\ Len(comments) < MaxComments
  /\ InScope(request[r].actor) /\ phase # "ENDED"
  /\ visibility = "INTERNAL" => IsHandler(request[r].actor)
  /\ comments' = Append(comments,
       NewComment(r, "COM-02", visibility, content, created_at,
                  ToldOfReply(request[r].actor, visibility)))
  /\ audit' = Append(audit, [comment |-> Len(comments) + 1, old |-> NoContent, new |-> content])
  /\ Done(r)
  /\ UNCHANGED <<phase, charge, now>>

\* Variant: created_at is the time of the transaction.
CreateAtBegin(r, visibility, content) ==
  request[r].step = "begun" /\ Comments(r, visibility, content, request[r].begun)

\* create_comment, from the lock on the ticket to the commit.
Create(r, visibility, content) == Comments(r, visibility, content, now)

\* notify_status_change
ToldOfChange(actor) == {Requester, charge} \ {actor}

\* A transition that inserts a public comment: its created_at is the server's
\* default, the begin of the transaction.
MoveWithComment(r, wf, to, content) ==
  /\ Len(comments) < MaxComments
  /\ phase' = to
  /\ comments' = Append(comments,
       NewComment(r, wf, "PUBLIC", content, request[r].begun, ToldOfChange(request[r].actor)))
  /\ Done(r)
  /\ UNCHANGED <<charge, now, audit>>

\* request_information
RequestInformation(r, content) ==
  /\ request[r].step = "begun" /\ IsHandler(request[r].actor) /\ phase = "IN_PROGRESS"
  /\ MoveWithComment(r, "WF-02", "PENDING_INFO", content)

\* provide_information
ProvideInformation(r, content) ==
  /\ request[r].step = "begun" /\ request[r].actor = Requester /\ phase = "PENDING_INFO"
  /\ MoveWithComment(r, "WF-03", "IN_PROGRESS", content)

MayEdit(u, c) ==
  /\ InScope(u) /\ phase # "ENDED"
  /\ u = Admin \/ (comments[c].author = u /\ now <= comments[c].created_at + EditWindow)

Edit(r, c, content) ==
  /\ request' = [request EXCEPT ![r] =
       [step |-> "editing", actor |-> @.actor,
        edit |-> [comment |-> c, old |-> comments[c].content, new |-> content]]]
  /\ UNCHANGED <<phase, charge, now, comments, audit>>

\* Variant: the comment is read without a lock.
CheckEditUnlocked(r, c, content) ==
  /\ request[r].step = "begun" /\ Edits < MaxEdits
  /\ MayEdit(request[r].actor, c) /\ content # comments[c].content
  /\ Edit(r, c, content)

\* update_comment up to its decision: the comment is locked, the ticket read.
CheckEdit(r, c, content) ==
  /\ request[r].step = "begun" /\ Edits < MaxEdits
  /\ ~IsLocked(c)
  /\ MayEdit(request[r].actor, c) /\ content # comments[c].content
  /\ Edit(r, c, content)

\* The content, its audit row and the commit.
CommitEdit(r) ==
  /\ request[r].step = "editing"
  /\ LET e == request[r].edit IN
       /\ comments' = [comments EXCEPT ![e.comment].content = e.new]
       /\ audit' = Append(audit, e)
  /\ Done(r)
  /\ UNCHANGED <<phase, charge, now>>

\* The other transitions: WF-01 and WF-07, WF-04, WF-05 and WF-08.
Proceed ==
  /\ \/ phase = "OPEN" /\ phase' \in {"IN_PROGRESS", "ENDED"}
     \/ phase = "IN_PROGRESS" /\ phase' = "OPEN"
  /\ UNCHANGED <<charge, now, comments, audit, request>>

\* assign_ticket, of a ticket that has a processor.
Reassign(u) ==
  /\ phase # "ENDED" /\ u # charge
  /\ charge' = u
  /\ UNCHANGED <<phase, now, comments, audit, request>>

Tick ==
  /\ now < MaxTime
  /\ now' = now + 1
  /\ UNCHANGED <<phase, charge, comments, audit, request>>

Next ==
  \/ Tick \/ Proceed \/ \E u \in Processors : Reassign(u)
  \/ \E r \in Requests :
       \/ \E actor \in People : Begin(r, actor)
       \/ \E visibility \in {"PUBLIC", "INTERNAL"}, content \in Contents : Create(r, visibility, content)
       \/ \E content \in Contents : RequestInformation(r, content) \/ ProvideInformation(r, content)
       \/ \E c \in DOMAIN comments, content \in Contents : CheckEdit(r, c, content)
       \/ CommitEdit(r) \/ Refuse(r)

Spec == Init /\ [][Next]_vars

-----------------------------------------------------------------------------
\* Of the first n audit rows, the i-th is the last about comment c.
IsLatest(i, c, n) ==
  audit[i].comment = c /\ \A j \in (i + 1)..n : audit[j].comment # c

\* However edits overlap, each audit row starts from what the one before it
\* wrote, and the last tells the content (create_comment_audit_record).  What
\* WF-02 and WF-03 write is in no audit row until it is edited, and then the
\* first row starts from it.
AuditTellsTheContent ==
  /\ \A n \in DOMAIN audit :
       LET row     == audit[n]
           c       == comments[row.comment]
           earlier == {i \in 1..(n - 1) : audit[i].comment = row.comment}
       IN  IF earlier = {} THEN row.old = IF c.via = "COM-02" THEN NoContent ELSE c.first
           ELSE \E i \in earlier : IsLatest(i, row.comment, n - 1) /\ row.old = audit[i].new
  /\ \A c \in DOMAIN comments :
       \/ \E i \in DOMAIN audit : IsLatest(i, c, Len(audit)) /\ audit[i].new = comments[c].content
       \/ /\ comments[c].via # "COM-02" /\ comments[c].content = comments[c].first
          /\ \A i \in DOMAIN audit : audit[i].comment # c

\* The list is ordered by created_at and then by number (list_comments).  A
\* comment of COM-02 comes after all that were made before it, whoever waited
\* for the ticket; a comment of WF-02 or WF-03, which is dated at the begin of
\* its transaction, may come before them, and nothing else is out of order.
CommentsAreChronological ==
  \A i, j \in DOMAIN comments :
    i < j /\ comments[j].created_at < comments[i].created_at => comments[j].via # "COM-02"

\* Of every public comment the other side is told, as of a reply or of a change
\* of status: the requester, or whoever is in charge when it is committed; of an
\* internal one, nobody (notify_public_reply, notify_status_change).
OtherSideIsTold ==
  [][Len(comments') > Len(comments) =>
       LET c == comments'[Len(comments')]
       IN  IF c.visibility = "INTERNAL" THEN c.told = {}
           ELSE (IF c.author = Requester THEN charge ELSE Requester) \in c.told]_vars
=============================================================================
