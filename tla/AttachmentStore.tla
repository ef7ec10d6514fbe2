--------------------------- MODULE AttachmentStore --------------------------
(***************************************************************************)
(* The attachments of one ticket (attachment_service.py): their rows in    *)
(* PostgreSQL and their files in the ticket's directory.                   *)
(*                                                                         *)
(* An upload is copied to a temporary file, looked at, renamed, and only   *)
(* then recorded; a deletion commits first and then removes the file.      *)
(* Whoever removes a file removes the directory too if it is empty, while  *)
(* others create it, open files in it or die half-way.                     *)
(*                                                                         *)
(* Names, types and contents are left out: a file is wrong or right.  The  *)
(* scope of a ticket is in TicketAccess.                                   *)
(***************************************************************************)
EXTENDS Integers, FiniteSets

CONSTANTS
  Keys,       \* object keys and the rows that name them; each is made up once
  NoKey,
  Requests,   \* uploads and deletions under way at the same time
  MaxDeaths,  \* bound: requests that die half-way
  MaxLost     \* bound: commits whose answer is lost with the connection

ASSUME StoreAssumption ==
  NoKey \notin Keys /\ MaxDeaths \in Nat /\ MaxLost \in Nat /\ IsFiniteSet(Requests)

VARIABLES
  terminal,   \* the ticket's current_status.is_terminal
  directory,  \* the ticket's directory exists
  temps,      \* the requests whose temporary file is in it
  files,      \* the object keys in it
  rows,       \* the committed attachments
  used,       \* the keys made up so far
  request,    \* what each request is about to do, and for which key
  deaths, lost

vars == <<terminal, directory, temps, files, rows, used, request, deaths, lost>>
disk == <<directory, temps, files>>

Idle == [step |-> "idle", key |-> NoKey]
Steps ==
  {"idle",
   "mkdir", "open", "inspect", "rename", "insert", "reload",  \* upload_attachment
   "delete", "look", "unlink",                                \* delete_attachment
   "rmdir"}                                                   \* _remove_directory_if_empty

TypeOK ==
  /\ terminal \in BOOLEAN /\ directory \in BOOLEAN
  /\ temps \in SUBSET Requests
  /\ files \in SUBSET Keys /\ rows \in SUBSET Keys /\ used \in SUBSET Keys
  /\ request \in [Requests -> [step : Steps, key : Keys \union {NoKey}]]
  /\ deaths \in 0..MaxDeaths /\ lost \in 0..MaxLost

Init ==
  /\ terminal = FALSE /\ directory = FALSE
  /\ temps = {} /\ files = {} /\ rows = {} /\ used = {}
  /\ request = [r \in Requests |-> Idle]
  /\ deaths = 0 /\ lost = 0

At(r, s) == request[r].step = s
Goto(r, s) == request' = [request EXCEPT ![r].step = s]
Finish(r) == request' = [request EXCEPT ![r] = Idle]

-----------------------------------------------------------------------------
(* upload_attachment *)

\* The ticket is in scope and open; it is not locked.
BeginUpload(r) ==
  /\ At(r, "idle") /\ used # Keys
  /\ ~terminal
  /\ Goto(r, "mkdir")
  /\ UNCHANGED <<terminal, disk, rows, used, deaths, lost>>

MakeDirectory(r) ==
  /\ At(r, "mkdir")
  /\ directory' = TRUE
  /\ Goto(r, "open")
  /\ UNCHANGED <<terminal, temps, files, rows, used, deaths, lost>>

\* _copy_upload_to_temp fails when the directory was removed meanwhile.
OpenTemp(r) ==
  /\ At(r, "open")
  /\ temps' = IF directory THEN temps \union {r} ELSE temps
  /\ Goto(r, IF directory THEN "inspect" ELSE "rmdir")
  /\ UNCHANGED <<terminal, directory, files, rows, used, deaths, lost>>

\* Empty, too large, or not what its name and type say.
RejectTemp(r) ==
  /\ At(r, "inspect")
  /\ temps' = temps \ {r}
  /\ Goto(r, "rmdir")
  /\ UNCHANGED <<terminal, directory, files, rows, used, deaths, lost>>

\* Variant: the upload goes on without a key of its own.
AcceptUnnamed(r) ==
  /\ At(r, "inspect")
  /\ Goto(r, "rename")
  /\ UNCHANGED <<terminal, disk, rows, used, deaths, lost>>

\* _detect_mime agrees; the object key is a new uuid.
AcceptTemp(r) ==
  /\ At(r, "inspect")
  /\ \E k \in Keys \ used :
       /\ used' = used \union {k}
       /\ request' = [request EXCEPT ![r] = [step |-> "rename", key |-> k]]
  /\ UNCHANGED <<terminal, disk, rows, deaths, lost>>

Rename(r) ==
  /\ At(r, "rename")
  /\ temps' = temps \ {r}
  /\ files' = files \union {request[r].key}
  /\ Goto(r, "insert")
  /\ UNCHANGED <<terminal, directory, rows, used, deaths, lost>>

InsertRow(r) ==
  /\ At(r, "insert")
  /\ rows' = rows \union {request[r].key}
  /\ Goto(r, "reload")
  /\ UNCHANGED <<terminal, disk, used, deaths, lost>>

\* Variant: a failed insert leaves the file where it is.
InsertFailsDirty(r) ==
  /\ At(r, "insert")
  /\ Finish(r)
  /\ UNCHANGED <<terminal, disk, rows, used, deaths, lost>>

\* SQLAlchemyError: rolled back, the file is removed.
InsertFails(r) ==
  /\ At(r, "insert")
  /\ files' = files \ {request[r].key}
  /\ Goto(r, "rmdir")
  /\ UNCHANGED <<terminal, directory, temps, rows, used, deaths, lost>>

\* The same error after the commit took effect on the server.
InsertAnswerLost(r) ==
  /\ At(r, "insert") /\ lost < MaxLost
  /\ lost' = lost + 1
  /\ rows' = rows \union {request[r].key}
  /\ files' = files \ {request[r].key}
  /\ Goto(r, "rmdir")
  /\ UNCHANGED <<terminal, directory, temps, used, deaths>>

\* The row is read back for the answer; when it is gone, so must the file be.
Reload(r) ==
  /\ At(r, "reload")
  /\ IF request[r].key \in rows
       THEN Finish(r) /\ UNCHANGED files
       ELSE Goto(r, "rmdir") /\ files' = files \ {request[r].key}
  /\ UNCHANGED <<terminal, directory, temps, rows, used, deaths, lost>>

-----------------------------------------------------------------------------
(* delete_attachment *)

\* The row is there and the caller may delete it: an administrator always, its
\* uploader while the ticket is open.
BeginDelete(r, k, admin) ==
  /\ At(r, "idle")
  /\ k \in rows
  /\ admin \/ ~terminal
  /\ request' = [request EXCEPT ![r] = [step |-> "delete", key |-> k]]
  /\ UNCHANGED <<terminal, disk, rows, used, deaths, lost>>

\* Commits; deleting a row that is gone is only warned of.
DeleteRow(r) ==
  /\ At(r, "delete")
  /\ rows' = rows \ {request[r].key}
  /\ Goto(r, "look")
  /\ UNCHANGED <<terminal, disk, used, deaths, lost>>

\* path.is_file()
Look(r) ==
  /\ At(r, "look")
  /\ IF request[r].key \in files THEN Goto(r, "unlink") ELSE Finish(r)
  /\ UNCHANGED <<terminal, disk, rows, used, deaths, lost>>

\* path.unlink raises when another request has removed the file.
Unlink(r) ==
  /\ At(r, "unlink")
  /\ IF request[r].key \in files THEN Goto(r, "rmdir") ELSE Finish(r)
  /\ files' = files \ {request[r].key}
  /\ UNCHANGED <<terminal, directory, temps, rows, used, deaths, lost>>

\* Variant: the directory is removed with what is in it.
RemoveDirectoryTree(r) ==
  /\ At(r, "rmdir")
  /\ directory' = FALSE /\ temps' = {} /\ files' = {}
  /\ Finish(r)
  /\ UNCHANGED <<terminal, rows, used, deaths, lost>>

\* rmdir fails, and is not minded, unless the directory is empty.
RemoveDirectory(r) ==
  /\ At(r, "rmdir")
  /\ directory' = (directory /\ (temps # {} \/ files # {}))
  /\ Finish(r)
  /\ UNCHANGED <<terminal, temps, files, rows, used, deaths, lost>>

-----------------------------------------------------------------------------
\* The process dies; what it had not committed is rolled back.
Die(r) ==
  /\ ~At(r, "idle") /\ deaths < MaxDeaths
  /\ deaths' = deaths + 1
  /\ Finish(r)
  /\ UNCHANGED <<terminal, disk, rows, used, lost>>

\* A handler of workflow_service.py closes or rejects the ticket for good.
EndTicket ==
  /\ ~terminal
  /\ terminal' = TRUE
  /\ UNCHANGED <<disk, rows, used, request, deaths, lost>>

Upload(r) ==
  \/ BeginUpload(r) \/ MakeDirectory(r) \/ OpenTemp(r) \/ RejectTemp(r) \/ AcceptTemp(r)
  \/ Rename(r) \/ InsertRow(r) \/ InsertFails(r) \/ InsertAnswerLost(r) \/ Reload(r)

Delete(r) ==
  \/ \E k \in Keys, admin \in BOOLEAN : BeginDelete(r, k, admin)
  \/ DeleteRow(r) \/ Look(r) \/ Unlink(r)

Next == EndTicket \/ \E r \in Requests : Upload(r) \/ Delete(r) \/ RemoveDirectory(r) \/ Die(r)

Spec == Init /\ [][Next]_vars

-----------------------------------------------------------------------------
\* Whatever deletions, failures and deaths come between its steps, an
\* attachment on record can be downloaded (get_attachment_for_download), unless
\* the answer to a commit was lost.
RowsHaveFiles == lost = 0 => rows \subseteq files

\* When no request is under way and none has died or lost an answer, nothing is left over: each
\* file has its row, and the directory is gone with the last of them.
NothingLeftOver ==
  deaths = 0 /\ lost = 0 /\ (\A r \in Requests : At(r, "idle"))
    => files = rows /\ temps = {} /\ (directory <=> files # {})
=============================================================================
