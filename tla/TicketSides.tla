----------------------------- MODULE TicketSides ----------------------------
(***************************************************************************)
(* What hangs on one ticket beside its workflow: its attachments           *)
(* (AttachmentStore), history, notifications and rating (TicketJournal),   *)
(* comments (Discussion), the people who may see it (TicketAccess), and    *)
(* the catalogue it is filed under (Catalogue).                            *)
(*                                                                         *)
(* As in Accounts the parts share no variable, and a behaviour lets one    *)
(* move.  In "one by one" it is the journal, and a request waits until     *)
(* the one before it ended.                                                *)
(***************************************************************************)
EXTENDS AttachmentStore, Sequences

CONSTANTS
  Requester, Processors, Admin, System, Nobody,  \* the people of the ticket
  Viewers,                                       \* TicketAccess; whoever may come to see it
  Writers,                                       \* requests of journal, discussion, catalogue
  MaxTime, MaxChanges,                           \* TicketJournal
  Contents, NoContent, EditWindow, MaxComments, MaxEdits,  \* Discussion
  Words, Ids, Codes, Levels                      \* Catalogue

VARIABLES
  part,
  status, processor, clock, posting, history, inbox, rating,  \* TicketJournal
  phase, charge, time, comments, audit, writing,              \* Discussion
  roles, assignee, final,                                     \* TicketAccess
  categories, priorities, editing                             \* Catalogue

journalVars == <<status, processor, clock, posting, history, inbox, rating>>
discussionVars == <<phase, charge, time, comments, audit, writing>>
accessVars == <<roles, assignee, final>>
catalogueVars == <<categories, priorities, editing>>
sidesVars == <<part, vars, journalVars, discussionVars, accessVars, catalogueVars>>

Journal == INSTANCE TicketJournal WITH Requests <- Writers, now <- clock, request <- posting

Talk == INSTANCE Discussion
  WITH Requests <- Writers, now <- time, request <- writing

Access == INSTANCE TicketAccess
  WITH People <- Viewers, Owner <- Requester, Founder <- Admin, charge <- assignee,
       terminal <- final

Shelf == INSTANCE Catalogue WITH Requests <- Writers, request <- editing

ASSUME PartsAssumption ==
  Journal!JournalAssumption /\ Talk!DiscussionAssumption /\ Access!AccessAssumption

SidesInit ==
  /\ part \in {"files", "journal", "one by one", "discussion", "access", "catalogue"}
  /\ Init /\ Journal!Init /\ Talk!Init /\ Access!Init /\ Shelf!Init

FilesMove ==
  /\ part = "files"
  /\ Next
  /\ UNCHANGED <<part, journalVars, discussionVars, accessVars, catalogueVars>>

JournalMoves ==
  /\ part \in {"journal", "one by one"}
  /\ Journal!Next
  /\ part = "one by one" =>
       \A r, q \in Writers : posting'[r] # Journal!Idle /\ posting'[q] # Journal!Idle => r = q
  /\ UNCHANGED <<part, vars, discussionVars, accessVars, catalogueVars>>

DiscussionMoves ==
  /\ part = "discussion"
  /\ Talk!Next
  /\ UNCHANGED <<part, vars, journalVars, accessVars, catalogueVars>>

AccessMoves ==
  /\ part = "access"
  /\ Access!Next
  /\ UNCHANGED <<part, vars, journalVars, discussionVars, catalogueVars>>

CatalogueMoves ==
  /\ part = "catalogue"
  /\ Shelf!Next
  /\ UNCHANGED <<part, vars, journalVars, discussionVars, accessVars>>

SidesNext == FilesMove \/ JournalMoves \/ DiscussionMoves \/ AccessMoves \/ CatalogueMoves

SidesSpec == SidesInit /\ [][SidesNext]_sidesVars

-----------------------------------------------------------------------------
(***************************************************************************)
(* What each part promises                                                 *)
(***************************************************************************)

\* The rows, files and local states of all five parts are what their modules say.
SidesTypeOK == TypeOK /\ Journal!TypeOK /\ Talk!TypeOK /\ Access!TypeOK /\ Shelf!TypeOK

\* The status history is one path to the status of the ticket, a rating is
\* about a result, and one by one the timeline is in the order of the changes
\* (TicketJournal).
JournalMatchesTicket ==
  /\ Journal!HistoryIsAPath
  /\ Journal!RatingIsAboutAResult
  /\ part = "one by one" => Journal!TimelineIsChronological

\* The requester and the processor in charge have been told of the state of the
\* ticket (TicketJournal), and the other side of every public comment (Discussion).
EveryoneIsTold == []Journal!PartiesAreTold /\ Talk!OtherSideIsTold

\* The comments are listed in the order in which they were made, but for those
\* of WF-02 and WF-03, and their audit rows lead to their content (Discussion).
CommentsAreAccounted == Talk!CommentsAreChronological /\ Talk!AuditTellsTheContent

\* The scopes that list, detail, comments and attachments write separately
\* agree: the list shows what can be opened; what the detail offers the other
\* services grant, and nothing else but internal comments to a requester who is
\* also a processor; nobody writes to a ticket he cannot open (TicketAccess).
ScopesAgree ==
  Access!ListedAreOpened /\ Access!PermissionsAreHonoured /\ Access!WritersAreReaders

\* Names, codes and levels are unambiguous, the conflict an administrator is
\* told of is there, and an update overwrites only its columns (Catalogue).
CatalogueIsSound ==
  /\ [](Shelf!CatalogueIsUnambiguous /\ Shelf!ConflictIsThere)
  /\ Shelf!UpdatesKeepToTheirColumns
=============================================================================
