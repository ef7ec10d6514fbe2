-------------------------- MODULE TicketSides_proofs -------------------------
(***************************************************************************)
(* Proofs about what hangs on a ticket: its attachments, for any number of *)
(* requests, keys, deaths and lost answers, its journal, its discussion,   *)
(* who may see it, and the catalogue it is filed under.                    *)
(***************************************************************************)
EXTENDS TicketSides, TLAPS

-----------------------------------------------------------------------------
(***************************************************************************)
(* The attachments                                                         *)
(*                                                                         *)
(* An attachment on record has its file, because                           *)
(*   - a key is made up once: what is on record or in the directory has    *)
(*     been used, and an upload that has not inserted yet holds a key of   *)
(*     its own, which is not on record;                                    *)
(*   - the file is in place before the insert; and                         *)
(*   - whoever removes a file has seen its row gone, or has just failed to *)
(*     insert it, and a key that was deleted never comes back.             *)
(***************************************************************************)
\* About to insert a row, under a key of its own.
Inserting(r) == request[r].step \in {"rename", "insert"}

\* After the row was deleted.
Removing(r) == request[r].step \in {"look", "unlink"}

\* The requests that have a key.
Keyed(r) == Inserting(r) \/ Removing(r) \/ request[r].step \in {"reload", "delete"}

KeysAreUsed ==
  /\ rows \subseteq used /\ files \subseteq used /\ used \subseteq Keys
  /\ \A r \in Requests : Keyed(r) => request[r].key \in used

KeyIsOwn ==
  \A r \in Requests : Inserting(r) =>
    /\ request[r].key \notin rows
    /\ \A s \in Requests : s # r /\ Keyed(s) => request[s].key # request[r].key

FileIsThere == \A r \in Requests : At(r, "insert") => request[r].key \in files

RowIsGone == \A r \in Requests : Removing(r) => request[r].key \notin rows

StoreInv == TypeOK /\ KeysAreUsed /\ KeyIsOwn /\ FileIsThere /\ RowIsGone /\ RowsHaveFiles

RequestRow == [step : Steps, key : Keys \union {NoKey}]

-----------------------------------------------------------------------------
\* Request r goes on to step st with key k; the others stay where they are.
Moves(r, st, k) ==
  /\ request' \in [Requests -> RequestRow]
  /\ request'[r].step = st /\ request'[r].key = k
  /\ \A s \in Requests : s # r => request'[s] = request[s]

\* What a step that moves request r does to the local states.
LEMMA RequestsMove ==
  ASSUME TypeOK, NEW r \in Requests
  PROVE  /\ Finish(r) => Moves(r, "idle", NoKey)
         /\ \A st \in Steps : Goto(r, st) => Moves(r, st, request[r].key)
         /\ \A st \in Steps, k \in Keys :
              request' = [request EXCEPT ![r] = [step |-> st, key |-> k]] => Moves(r, st, k)
<1>1. request \in [Requests -> RequestRow]
  BY DEF TypeOK, RequestRow
<1>2. Idle \in RequestRow /\ Idle.step = "idle" /\ Idle.key = NoKey
  BY DEF Idle, RequestRow, Steps
<1>3. ASSUME NEW st \in Steps, Goto(r, st)  PROVE Moves(r, st, request[r].key)
  BY <1>1, <1>3 DEF Goto, RequestRow, Moves
<1>4. ASSUME NEW st \in Steps, NEW k \in Keys,
             request' = [request EXCEPT ![r] = [step |-> st, key |-> k]]
      PROVE  Moves(r, st, k)
  BY <1>1, <1>4 DEF RequestRow, Moves
<1>5. ASSUME Finish(r)  PROVE Moves(r, "idle", NoKey)
  BY <1>1, <1>2, <1>5 DEF Finish, Moves
<1> QED BY <1>3, <1>4, <1>5

\* The places a request can be at.
LEMMA StepNames ==
  {"idle", "mkdir", "open", "inspect", "rename", "insert", "reload", "delete", "look", "unlink",
   "rmdir"} \subseteq Steps
BY DEF Steps

-----------------------------------------------------------------------------
(***************************************************************************)
(* The steps keep the invariant                                            *)
(***************************************************************************)

\* What is not about keys.
Surroundings ==
  /\ terminal \in BOOLEAN /\ directory \in BOOLEAN /\ temps \in SUBSET Requests
  /\ deaths \in 0..MaxDeaths /\ lost \in 0..MaxLost

\* A step that only moves requests keeps what is around them.
LEMMA SurroundingsStay ==
  ASSUME TypeOK, NEW r \in Requests, Upload(r) \/ Delete(r) \/ RemoveDirectory(r) \/ Die(r)
  PROVE  Surroundings'
<1> USE DEF Surroundings, TypeOK, disk
<1>1. CASE BeginUpload(r) \/ MakeDirectory(r) \/ OpenTemp(r) \/ RejectTemp(r) \/ AcceptTemp(r)
  BY <1>1 DEF BeginUpload, MakeDirectory, OpenTemp, RejectTemp, AcceptTemp
<1>2. CASE Rename(r) \/ InsertRow(r) \/ InsertFails(r) \/ Reload(r)
  BY <1>2 DEF Rename, InsertRow, InsertFails, Reload
<1>3. CASE InsertAnswerLost(r)
  BY <1>3, StoreAssumption DEF InsertAnswerLost
<1>4. CASE Delete(r)
  BY <1>4 DEF Delete, BeginDelete, DeleteRow, Look, Unlink
<1>5. CASE RemoveDirectory(r)
  BY <1>5 DEF RemoveDirectory
<1>6. CASE Die(r)
  BY <1>6, StoreAssumption DEF Die
<1> QED BY <1>1, <1>2, <1>3, <1>4, <1>5, <1>6 DEF Upload

\* The invariant, but for the surroundings, when request r has moved.
KeysInv == KeysAreUsed /\ KeyIsOwn /\ FileIsThere /\ RowIsGone /\ RowsHaveFiles

\* The parts make up the invariant of the next state.
LEMMA InvAgain ==
  ASSUME Surroundings', KeysInv', request' \in [Requests -> RequestRow]
  PROVE  StoreInv'
BY DEF StoreInv, KeysInv, Surroundings, TypeOK, RequestRow, KeysAreUsed

\* A request that gives up its key, or has none, and leaves the store alone.
LEMMA WithoutKey ==
  ASSUME StoreInv, NEW r \in Requests, Surroundings', UNCHANGED <<files, rows, used, lost>>,
         NEW st \in {"idle", "mkdir", "open", "inspect", "rmdir"},
         NEW k \in Keys \union {NoKey}, Moves(r, st, k)
  PROVE  StoreInv'
<1> USE DEF StoreInv, Moves, Keyed, Inserting, Removing, At
<1>1. KeysAreUsed'
  BY DEF KeysAreUsed
<1>2. KeyIsOwn' /\ FileIsThere' /\ RowIsGone'
  BY DEF KeyIsOwn, FileIsThere, RowIsGone
<1>3. RowsHaveFiles'
  BY DEF RowsHaveFiles
<1> QED BY <1>1, <1>2, <1>3, InvAgain DEF KeysInv

\* A request that removes its file: it could not insert the row, or has seen it
\* gone.
LEMMA WithoutFile ==
  ASSUME StoreInv, NEW r \in Requests, Surroundings', UNCHANGED <<rows, used, lost>>,
         Keyed(r), request[r].key \notin rows, files' = files \ {request[r].key},
         NEW st \in {"idle", "rmdir"},
         NEW k \in Keys \union {NoKey}, Moves(r, st, k)
  PROVE  StoreInv'
<1> USE DEF StoreInv, Moves, Keyed, Inserting, Removing, At
<1>1. KeysAreUsed'
  BY DEF KeysAreUsed
<1>2. KeyIsOwn' /\ RowIsGone'
  BY DEF KeyIsOwn, RowIsGone
<1>3. FileIsThere'
  BY DEF FileIsThere, KeyIsOwn
<1>4. RowsHaveFiles'
  BY DEF RowsHaveFiles
<1> QED BY <1>1, <1>2, <1>3, <1>4, InvAgain DEF KeysInv

\* The steps of upload_attachment keep the invariant.
LEMMA UploadKeepsInv ==
  ASSUME StoreInv, NEW r \in Requests, Surroundings', Upload(r)
  PROVE  StoreInv'
<1>0. TypeOK /\ request[r].key \in Keys \union {NoKey} /\ (Keyed(r) => request[r].key \in Keys)
  BY DEF StoreInv, TypeOK, KeysAreUsed
<1>1. CASE BeginUpload(r) \/ MakeDirectory(r) \/ OpenTemp(r) \/ RejectTemp(r)
  <2>1. \E st \in {"mkdir", "open", "inspect", "rmdir"} : Moves(r, st, request[r].key)
    BY <1>0, <1>1, RequestsMove, StepNames DEF BeginUpload, MakeDirectory, OpenTemp, RejectTemp
  <2>2. UNCHANGED <<files, rows, used, lost>>
    BY <1>1 DEF BeginUpload, MakeDirectory, OpenTemp, RejectTemp, disk
  <2> QED BY <1>0, <2>1, <2>2, WithoutKey
<1>2. CASE AcceptTemp(r)
  <2>1. PICK k \in Keys \ used : used' = used \union {k} /\ Moves(r, "rename", k)
    BY <1>0, <1>2, RequestsMove, StepNames DEF AcceptTemp
  <2>2. UNCHANGED <<files, rows, lost>>
    BY <1>2 DEF AcceptTemp, disk
  <2> USE <2>1, <2>2 DEF StoreInv, Moves, Keyed, Inserting, Removing, At
  <2>3. KeysAreUsed'
    BY DEF KeysAreUsed
  <2>4. KeyIsOwn'
    BY DEF KeyIsOwn, KeysAreUsed
  <2>5. FileIsThere' /\ RowIsGone' /\ RowsHaveFiles'
    BY DEF FileIsThere, RowIsGone, RowsHaveFiles
  <2> QED BY <2>3, <2>4, <2>5, InvAgain DEF KeysInv
<1>3. CASE Rename(r)
  <2>1. At(r, "rename") /\ Moves(r, "insert", request[r].key)
    BY <1>0, <1>3, RequestsMove, StepNames DEF Rename
  <2>2. files' = files \union {request[r].key} /\ UNCHANGED <<rows, used, lost>>
    BY <1>3 DEF Rename
  <2> USE <2>1, <2>2 DEF StoreInv, Moves, Keyed, Inserting, Removing, At
  <2>3. KeysAreUsed'
    BY DEF KeysAreUsed
  <2>4. KeyIsOwn'
    BY DEF KeyIsOwn
  <2>5. FileIsThere' /\ RowIsGone' /\ RowsHaveFiles'
    BY DEF FileIsThere, RowIsGone, RowsHaveFiles
  <2> QED BY <2>3, <2>4, <2>5, InvAgain DEF KeysInv
<1>4. CASE InsertRow(r)
  <2>1. At(r, "insert") /\ Moves(r, "reload", request[r].key)
    BY <1>0, <1>4, RequestsMove, StepNames DEF InsertRow
  <2>2. rows' = rows \union {request[r].key} /\ UNCHANGED <<files, used, lost>>
    BY <1>4 DEF InsertRow, disk
  <2> USE <2>1, <2>2 DEF StoreInv, Moves, Keyed, Inserting, Removing, At
  <2>3. KeysAreUsed'
    BY DEF KeysAreUsed
  <2>4. KeyIsOwn'
    BY DEF KeyIsOwn
  <2>5. FileIsThere' /\ RowIsGone'
    BY DEF FileIsThere, RowIsGone, KeyIsOwn
  <2>6. RowsHaveFiles'
    BY DEF FileIsThere, RowsHaveFiles
  <2> QED BY <2>3, <2>4, <2>5, <2>6, InvAgain DEF KeysInv
<1>5. CASE InsertFails(r) \/ (Reload(r) /\ request[r].key \notin rows)
  <2>1. Keyed(r) /\ Moves(r, "rmdir", request[r].key)
    BY <1>0, <1>5, RequestsMove, StepNames DEF InsertFails, Reload, Keyed, Inserting, At
  <2>2. files' = files \ {request[r].key} /\ UNCHANGED <<rows, used, lost>>
    BY <1>5 DEF InsertFails, Reload
  <2>3. request[r].key \notin rows
    BY <1>5 DEF InsertFails, At, Inserting, StoreInv, KeyIsOwn
  <2> QED BY <1>0, <2>1, <2>2, <2>3, WithoutFile
<1>6. CASE InsertAnswerLost(r)
  <2>1. At(r, "insert") /\ Moves(r, "rmdir", request[r].key)
    BY <1>0, <1>6, RequestsMove, StepNames DEF InsertAnswerLost
  <2>2. /\ rows' = rows \union {request[r].key} /\ files' = files \ {request[r].key}
        /\ UNCHANGED used
    BY <1>6 DEF InsertAnswerLost
  <2>3. lost' # 0
    BY <1>0, <1>6, StoreAssumption DEF InsertAnswerLost, TypeOK
  <2> USE <2>1, <2>2 DEF StoreInv, Moves, Keyed, Inserting, Removing, At
  <2>4. KeysAreUsed'
    BY DEF KeysAreUsed
  <2>5. KeyIsOwn'
    BY DEF KeyIsOwn
  <2>6. FileIsThere' /\ RowIsGone'
    BY DEF FileIsThere, RowIsGone, KeyIsOwn
  <2> QED BY <2>3, <2>4, <2>5, <2>6, InvAgain DEF KeysInv, RowsHaveFiles
<1>7. CASE Reload(r) /\ request[r].key \in rows
  <2>1. Moves(r, "idle", NoKey) /\ UNCHANGED <<files, rows, used, lost>>
    BY <1>0, <1>7, RequestsMove DEF Reload
  <2> QED BY <2>1, WithoutKey
<1> QED BY <1>1, <1>2, <1>3, <1>4, <1>5, <1>6, <1>7 DEF Upload

\* The steps of delete_attachment keep the invariant.
LEMMA DeleteKeepsInv ==
  ASSUME StoreInv, NEW r \in Requests, Surroundings', Delete(r)
  PROVE  StoreInv'
<1>0. TypeOK /\ request[r].key \in Keys \union {NoKey} /\ rows \subseteq Keys
  BY DEF StoreInv, TypeOK, KeysAreUsed
<1>1. ASSUME NEW k \in Keys, NEW admin \in BOOLEAN, BeginDelete(r, k, admin)  PROVE StoreInv'
  <2>1. k \in rows /\ Moves(r, "delete", k)
    BY <1>0, <1>1, RequestsMove, StepNames DEF BeginDelete
  <2>2. UNCHANGED <<files, rows, used, lost>>
    BY <1>1 DEF BeginDelete, disk
  <2> USE <2>1, <2>2 DEF StoreInv, Moves, Keyed, Inserting, Removing, At
  <2>3. KeysAreUsed'
    BY DEF KeysAreUsed
  <2>4. KeyIsOwn'
    BY DEF KeyIsOwn
  <2>5. FileIsThere' /\ RowIsGone' /\ RowsHaveFiles'
    BY DEF FileIsThere, RowIsGone, RowsHaveFiles
  <2> QED BY <2>3, <2>4, <2>5, InvAgain DEF KeysInv
<1>2. CASE DeleteRow(r)
  <2>1. At(r, "delete") /\ Moves(r, "look", request[r].key)
    BY <1>0, <1>2, RequestsMove, StepNames DEF DeleteRow
  <2>2. rows' = rows \ {request[r].key} /\ UNCHANGED <<files, used, lost>>
    BY <1>2 DEF DeleteRow, disk
  <2> USE <2>1, <2>2 DEF StoreInv, Moves, Keyed, Inserting, Removing, At
  <2>3. KeysAreUsed'
    BY DEF KeysAreUsed
  <2>4. KeyIsOwn'
    BY DEF KeyIsOwn
  <2>5. FileIsThere' /\ RowIsGone' /\ RowsHaveFiles'
    BY DEF FileIsThere, RowIsGone, RowsHaveFiles
  <2> QED BY <2>3, <2>4, <2>5, InvAgain DEF KeysInv
<1>3. CASE Look(r) /\ request[r].key \in files
  <2>1. At(r, "look") /\ Moves(r, "unlink", request[r].key)
    BY <1>0, <1>3, RequestsMove, StepNames DEF Look
  <2>2. UNCHANGED <<files, rows, used, lost>>
    BY <1>3 DEF Look, disk
  <2> USE <2>1, <2>2 DEF StoreInv, Moves, Keyed, Inserting, Removing, At
  <2>3. KeysAreUsed'
    BY DEF KeysAreUsed
  <2>4. KeyIsOwn'
    BY DEF KeyIsOwn
  <2>5. FileIsThere' /\ RowIsGone' /\ RowsHaveFiles'
    BY DEF FileIsThere, RowIsGone, RowsHaveFiles
  <2> QED BY <2>3, <2>4, <2>5, InvAgain DEF KeysInv
<1>4. CASE Look(r) /\ request[r].key \notin files
  <2>1. Moves(r, "idle", NoKey) /\ UNCHANGED <<files, rows, used, lost>>
    BY <1>0, <1>4, RequestsMove DEF Look, disk
  <2> QED BY <2>1, WithoutKey
<1>5. CASE Unlink(r)
  <2>1. Keyed(r) /\ request[r].key \notin rows
    BY <1>5 DEF Unlink, At, Keyed, Removing, StoreInv, RowIsGone
  <2>2. Moves(r, "rmdir", request[r].key) \/ Moves(r, "idle", NoKey)
    BY <1>0, <1>5, RequestsMove, StepNames DEF Unlink
  <2>3. files' = files \ {request[r].key} /\ UNCHANGED <<rows, used, lost>>
    BY <1>5 DEF Unlink
  <2> QED BY <1>0, <2>1, <2>2, <2>3, WithoutFile
<1> QED BY <1>1, <1>2, <1>3, <1>4, <1>5 DEF Delete

\* So do the last step of a deletion and the death of a request.
LEMMA EndKeepsInv ==
  ASSUME StoreInv, NEW r \in Requests, Surroundings', RemoveDirectory(r) \/ Die(r)
  PROVE  StoreInv'
<1>1. Moves(r, "idle", NoKey)
  BY RequestsMove DEF RemoveDirectory, Die, StoreInv
<1>2. UNCHANGED <<files, rows, used, lost>>
  BY DEF RemoveDirectory, Die, disk
<1> QED BY <1>1, <1>2, WithoutKey

\* The invariant holds of every behaviour.
LEMMA StoreInvariant == Spec => []StoreInv
<1>1. Init => StoreInv
  <2> SUFFICES ASSUME Init  PROVE StoreInv
    OBVIOUS
  <2>1. request \in [Requests -> RequestRow] /\ \A r \in Requests : At(r, "idle")
    BY DEF Init, Idle, RequestRow, Steps, At
  <2>2. deaths \in 0..MaxDeaths /\ lost \in 0..MaxLost
    BY StoreAssumption DEF Init
  <2>3. TypeOK
    BY <2>1, <2>2 DEF Init, TypeOK, RequestRow
  <2>4. \A r \in Requests : ~Keyed(r) /\ ~Inserting(r) /\ ~Removing(r) /\ ~At(r, "insert")
    BY <2>1 DEF Keyed, Inserting, Removing, At
  <2> QED BY <2>3, <2>4 DEF Init, StoreInv, KeysAreUsed, KeyIsOwn, FileIsThere, RowIsGone,
            RowsHaveFiles
<1>2. StoreInv /\ [Next]_vars => StoreInv'
  <2> SUFFICES ASSUME StoreInv, [Next]_vars  PROVE StoreInv'
    OBVIOUS
  <2>1. CASE EndTicket \/ UNCHANGED vars
    <3>1. UNCHANGED <<temps, directory, files, rows, used, request, deaths, lost>>
      BY <2>1 DEF EndTicket, vars, disk
    <3>2. Surroundings'
      BY <2>1, <3>1 DEF EndTicket, vars, StoreInv, TypeOK, Surroundings
    <3>3. KeysInv'
      BY <3>1 DEF StoreInv, KeysInv, KeysAreUsed, KeyIsOwn, FileIsThere, RowIsGone,
        RowsHaveFiles, Keyed, Inserting, Removing, At
    <3>4. request' \in [Requests -> RequestRow]
      BY <3>1 DEF StoreInv, TypeOK, RequestRow
    <3> QED BY <3>2, <3>3, <3>4, InvAgain
  <2>2. ASSUME NEW r \in Requests, Upload(r) \/ Delete(r) \/ RemoveDirectory(r) \/ Die(r)
        PROVE  StoreInv'
    BY <2>2, SurroundingsStay, UploadKeepsInv, DeleteKeepsInv, EndKeepsInv DEF StoreInv
  <2> QED BY <2>1, <2>2 DEF Next
<1> QED BY <1>1, <1>2, PTL DEF Spec

-----------------------------------------------------------------------------
\* Rows, files and the local states of the requests are well typed.
THEOREM TypeCorrect == Spec => []TypeOK
<1>1. StoreInv => TypeOK
  BY DEF StoreInv
<1> QED BY <1>1, StoreInvariant, PTL

\* Whatever uploads, deletions, failures and deaths come between the steps of
\* one another, an attachment on record can be downloaded, unless the answer to
\* a commit was lost.
THEOREM RowsKeepFiles == Spec => []RowsHaveFiles
<1>1. StoreInv => RowsHaveFiles
  BY DEF StoreInv
<1> QED BY <1>1, StoreInvariant, PTL

-----------------------------------------------------------------------------
(***************************************************************************)
(* Nothing is left over                                                    *)
(***************************************************************************)

\* A temporary file is in the directory while its upload works on it.
TempsAreHeld ==
  /\ \A r \in Requests : request[r].step \in {"inspect", "rename"} => r \in temps
  /\ deaths = 0 => \A r \in temps : request[r].step \in {"inspect", "rename"}

\* Files are in a directory, and somebody will look after one that is empty.
DirectoryIsMinded ==
  /\ temps # {} \/ files # {} => directory
  /\ deaths = 0 /\ directory =>
       temps # {} \/ files # {} \/ \E r \in Requests : request[r].step \in {"open", "rmdir"}

\* A file without a row has an upload about to insert it or a deletion about to
\* remove it.
FilesAreMinded ==
  deaths = 0 /\ lost = 0 =>
    \A k \in files \ rows :
      \E r \in Requests : request[r].step \in {"insert", "look", "unlink"} /\ request[r].key = k

TidyInv == TempsAreHeld /\ DirectoryIsMinded /\ FilesAreMinded

\* The steps of upload_attachment keep the directory tidy: each temporary file,
\* file or empty directory is left to a request that will see to it.
LEMMA TidyUpload ==
  ASSUME StoreInv, TidyInv, NEW r \in Requests, Upload(r)
  PROVE  TidyInv'
<1>0. TypeOK /\ temps \subseteq Requests
  BY DEF StoreInv, TypeOK
<1> USE DEF TidyInv, TempsAreHeld, DirectoryIsMinded, FilesAreMinded, Moves, At, disk
<1>1. CASE BeginUpload(r)
  <2>1. Moves(r, "mkdir", request[r].key)
    BY <1>0, <1>1, RequestsMove, StepNames DEF BeginUpload
  <2> QED BY <1>0, <1>1, <2>1 DEF BeginUpload
<1>2. CASE MakeDirectory(r)
  <2>1. Moves(r, "open", request[r].key)
    BY <1>0, <1>2, RequestsMove, StepNames DEF MakeDirectory
  <2> QED BY <1>0, <1>2, <2>1 DEF MakeDirectory
<1>3. CASE OpenTemp(r)
  <2>1. Moves(r, IF directory THEN "inspect" ELSE "rmdir", request[r].key)
    BY <1>0, <1>3, RequestsMove, StepNames DEF OpenTemp
  <2> QED BY <1>0, <1>3, <2>1 DEF OpenTemp
<1>4. CASE RejectTemp(r)
  <2>1. Moves(r, "rmdir", request[r].key)
    BY <1>0, <1>4, RequestsMove, StepNames DEF RejectTemp
  <2> QED BY <1>0, <1>4, <2>1 DEF RejectTemp
<1>5. CASE AcceptTemp(r)
  <2>1. PICK k \in Keys \ used : request' = [request EXCEPT ![r] = [step |-> "rename", key |-> k]]
    BY <1>5 DEF AcceptTemp
  <2>2. Moves(r, "rename", k)
    BY <1>0, <2>1, RequestsMove, StepNames
  <2> QED BY <1>0, <1>5, <2>2 DEF AcceptTemp
<1>6. CASE Rename(r)
  <2>1. Moves(r, "insert", request[r].key)
    BY <1>0, <1>6, RequestsMove, StepNames DEF Rename
  <2> QED BY <1>0, <1>6, <2>1 DEF Rename
<1>7. CASE InsertRow(r)
  <2>1. Moves(r, "reload", request[r].key)
    BY <1>0, <1>7, RequestsMove, StepNames DEF InsertRow
  <2> QED BY <1>0, <1>7, <2>1 DEF InsertRow
<1>8. CASE InsertFails(r)
  <2>1. Moves(r, "rmdir", request[r].key)
    BY <1>0, <1>8, RequestsMove, StepNames DEF InsertFails
  <2> QED BY <1>0, <1>8, <2>1 DEF InsertFails
<1>9. CASE InsertAnswerLost(r)
  <2>1. Moves(r, "rmdir", request[r].key)
    BY <1>0, <1>9, RequestsMove, StepNames DEF InsertAnswerLost
  <2>2. lost' # 0
    BY <1>0, <1>9, StoreAssumption DEF InsertAnswerLost, TypeOK
  <2> QED BY <1>0, <1>9, <2>1, <2>2 DEF InsertAnswerLost
<1>10. CASE Reload(r)
  <2>1. CASE request[r].key \in rows
    <3>1. Moves(r, "idle", NoKey)
      BY <1>0, <1>10, <2>1, RequestsMove DEF Reload
    <3> QED BY <1>0, <1>10, <2>1, <3>1 DEF Reload
  <2>2. CASE request[r].key \notin rows
    <3>1. Moves(r, "rmdir", request[r].key)
      BY <1>0, <1>10, <2>2, RequestsMove, StepNames DEF Reload
    <3> QED BY <1>0, <1>10, <2>2, <3>1 DEF Reload
  <2> QED BY <2>1, <2>2
<1> QED BY <1>1, <1>2, <1>3, <1>4, <1>5, <1>6, <1>7, <1>8, <1>9, <1>10 DEF Upload

\* So do those of delete_attachment, and the removal of the directory; after a
\* death less is promised.
LEMMA TidyDelete ==
  ASSUME StoreInv, TidyInv, NEW r \in Requests, Delete(r) \/ RemoveDirectory(r) \/ Die(r)
  PROVE  TidyInv'
<1>0. TypeOK /\ temps \subseteq Requests /\ rows \subseteq Keys
  BY DEF StoreInv, TypeOK
<1> USE DEF TidyInv, TempsAreHeld, DirectoryIsMinded, FilesAreMinded, Moves, At, disk
<1>1. ASSUME NEW k \in Keys, NEW admin \in BOOLEAN, BeginDelete(r, k, admin)
      PROVE  TidyInv'
  <2>1. Moves(r, "delete", k)
    BY <1>0, <1>1, RequestsMove, StepNames DEF BeginDelete
  <2> QED BY <1>0, <1>1, <2>1 DEF BeginDelete
<1>2. CASE DeleteRow(r)
  <2>1. Moves(r, "look", request[r].key)
    BY <1>0, <1>2, RequestsMove, StepNames DEF DeleteRow
  <2> QED BY <1>0, <1>2, <2>1 DEF DeleteRow
<1>3. CASE Look(r) /\ request[r].key \in files
  <2>1. Moves(r, "unlink", request[r].key)
    BY <1>0, <1>3, RequestsMove, StepNames DEF Look
  <2> QED BY <1>0, <1>3, <2>1 DEF Look
<1>4. CASE Look(r) /\ request[r].key \notin files
  <2>1. Moves(r, "idle", NoKey)
    BY <1>0, <1>4, RequestsMove DEF Look
  <2> QED BY <1>0, <1>4, <2>1 DEF Look
<1>5. CASE Unlink(r) /\ request[r].key \in files
  <2>1. Moves(r, "rmdir", request[r].key)
    BY <1>0, <1>5, RequestsMove, StepNames DEF Unlink
  <2> QED BY <1>0, <1>5, <2>1 DEF Unlink
<1>6. CASE Unlink(r) /\ request[r].key \notin files
  <2>1. Moves(r, "idle", NoKey)
    BY <1>0, <1>6, RequestsMove DEF Unlink
  <2> QED BY <1>0, <1>6, <2>1 DEF Unlink
<1>7. CASE RemoveDirectory(r)
  <2>1. Moves(r, "idle", NoKey)
    BY <1>0, <1>7, RequestsMove DEF RemoveDirectory
  <2>2. directory' <=> directory /\ (temps # {} \/ files # {})
    BY <1>7 DEF RemoveDirectory
  <2>3. At(r, "rmdir") /\ UNCHANGED <<temps, files, rows, deaths, lost>>
    BY <1>7 DEF RemoveDirectory
  <2>4. TempsAreHeld' /\ FilesAreMinded'
    BY <1>0, <2>1, <2>3
  <2>5. DirectoryIsMinded'
    BY <2>1, <2>2, <2>3
  <2> QED BY <2>4, <2>5
<1>8. CASE Die(r)
  <2>1. Moves(r, "idle", NoKey) /\ deaths' # 0
    BY <1>0, <1>8, RequestsMove, StoreAssumption DEF Die, TypeOK
  <2> QED BY <1>0, <1>8, <2>1 DEF Die
<1> QED BY <1>1, <1>2, <1>3, <1>4, <1>5, <1>6, <1>7, <1>8 DEF Delete

\* The directory stays tidy.
LEMMA TidyInvariant == Spec => []TidyInv
<1>1. Init => TidyInv
  BY DEF Init, Idle, TidyInv, TempsAreHeld, DirectoryIsMinded, FilesAreMinded
<1>2. StoreInv /\ TidyInv /\ [Next]_vars => TidyInv'
  <2>1. ASSUME TidyInv, EndTicket \/ UNCHANGED vars  PROVE TidyInv'
    BY <2>1 DEF EndTicket, vars, disk, TidyInv, TempsAreHeld, DirectoryIsMinded, FilesAreMinded
  <2> QED BY <2>1, TidyUpload, TidyDelete DEF Next
<1> QED BY <1>1, <1>2, StoreInvariant, PTL DEF Spec

\* When all requests have ended, and none by dying or with a lost answer, each
\* file has its row, and the directory is gone with the last of them.
THEOREM NothingRemains == Spec => []NothingLeftOver
<1>1. StoreInv /\ TidyInv => NothingLeftOver
  <2> SUFFICES ASSUME StoreInv, TidyInv, deaths = 0, lost = 0, \A r \in Requests : At(r, "idle")
               PROVE  files = rows /\ temps = {} /\ (directory <=> files # {})
    BY DEF NothingLeftOver
  <2>1. temps = {}
    BY DEF TidyInv, TempsAreHeld, At, StoreInv, TypeOK
  <2>2. files = rows
    BY DEF TidyInv, FilesAreMinded, At, StoreInv, RowsHaveFiles
  <2>3. directory <=> files # {}
    BY <2>1 DEF TidyInv, DirectoryIsMinded, At
  <2> QED BY <2>1, <2>2, <2>3
<1> QED BY <1>1, StoreInvariant, TidyInvariant, PTL

\* Beside the other parts the attachments are those of AttachmentStore.
LEMMA AttachmentsAreAttachments == SidesSpec => Spec
<1>1. SidesInit => Init
  BY DEF SidesInit
<1>2. [SidesNext]_sidesVars => [Next]_vars
  BY DEF SidesNext, FilesMove, JournalMoves, DiscussionMoves, AccessMoves, CatalogueMoves,
         sidesVars, vars
<1> QED BY <1>1, <1>2, PTL DEF SidesSpec, Spec

\* So both hold here as well.
THEOREM FilesBesideTheRest == SidesSpec => [](RowsHaveFiles /\ NothingLeftOver)
BY AttachmentsAreAttachments, RowsKeepFiles, NothingRemains, PTL

-----------------------------------------------------------------------------
(***************************************************************************)
(* The journal                                                             *)
(*                                                                         *)
(* A transition compares the status with the one it leads from, under the  *)
(* lock, so the row it appends continues the path.  What was told and what *)
(* was rated refers to rows of the history, which stay as they are.  One   *)
(* by one, a request that is under way began after the last change.        *)
(***************************************************************************)
Actors == Journal!People \union {System}
Waiting == [step : {"waiting"}, actor : Actors, begun : 0..MaxTime]
Assigning == [step : {"assigning"}, actor : {Admin}, begun : 0..MaxTime, assignee : Processors]
Posting == {Journal!Idle} \union Waiting \union Assigning

OneAtATime(posts) ==
  \A r, q \in Writers : posts[r] # Journal!Idle /\ posts[q] # Journal!Idle => r = q

JournalInv ==
  /\ Journal!TypeOK
  /\ Len(history) \in 1..MaxChanges /\ rating <= Len(history)
  /\ Journal!HistoryIsAPath /\ Journal!RatingIsAboutAResult /\ Journal!PartiesAreTold

\* The last change and what is under way, in the order of time.
OrderedInv ==
  /\ Journal!TimelineIsChronological
  /\ OneAtATime(posting)
  /\ history[Len(history)].at <= clock
  /\ \A r \in Writers : posting[r] # Journal!Idle =>
       history[Len(history)].at <= posting[r].begun /\ posting[r].begun <= clock

\* A step of the whole is a step of the journal, or leaves it alone.
LEMMA JournalSteps ==
  [SidesNext]_sidesVars =>
    part' = part /\ [Journal!Next /\ (part = "one by one" => OneAtATime(posting'))]_Journal!vars
BY DEF SidesNext, FilesMove, JournalMoves, DiscussionMoves, AccessMoves, CatalogueMoves,
       sidesVars, journalVars, Journal!vars, OneAtATime

\* What a request carries.
LEMMA PostingRow ==
  ASSUME NEW row \in Posting
  PROVE  /\ row.step = "waiting" => row \in Waiting /\ row # Journal!Idle
         /\ row.step = "assigning" => row \in Assigning /\ row # Journal!Idle
         /\ row # Journal!Idle => row.actor \in Actors /\ row.begun \in 0..MaxTime
BY DEF Posting, Waiting, Assigning, Journal!Idle, Actors, Journal!People

\* A request that moves has its new row; the others keep theirs.
LEMMA PostingMoves ==
  ASSUME Journal!TypeOK, NEW r \in Writers, NEW row \in Posting,
         posting' = [posting EXCEPT ![r] = row]
  PROVE  /\ posting' \in [Writers -> Posting]
         /\ posting'[r] = row
         /\ \A q \in Writers \ {r} : posting'[q] = posting[q]
BY DEF Journal!TypeOK, Posting, Waiting, Assigning, Actors

\* A row appended to the history leaves the others where they are.
LEMMA HistoryGrows ==
  ASSUME JournalInv, Len(history) < MaxChanges,
         NEW row \in Journal!HistoryRow, history' = Append(history, row)
  PROVE  /\ history' \in Seq(Journal!HistoryRow)
         /\ Len(history') = Len(history) + 1 /\ Len(history') \in 1..MaxChanges
         /\ history'[Len(history')] = row
         /\ \A i \in 1..Len(history) : history'[i] = history[i]
BY PartsAssumption DEF Journal!JournalAssumption, JournalInv, Journal!TypeOK

\* A change of status: the row continues the path, and the requester is told of
\* it unless it is their own.
LEMMA ChangeIsKept ==
  ASSUME JournalInv, NEW r \in Writers, posting[r] # Journal!Idle, Len(history) < MaxChanges,
         NEW row \in Journal!HistoryRow, history' = Append(history, row),
         row.from = status, row.by = posting[r].actor,
         status' = row.to, status' \in Journal!Statuses,
         clock' = clock, rating' = rating, Journal!Done(r),
         inbox \subseteq inbox', inbox' \subseteq Journal!Notice,
         row.by # Requester =>
           [to |-> Requester, about |-> Len(history) + 1, type |-> "status"] \in inbox',
         processor' \in Processors \union {Nobody},
         processor' # Nobody =>
           \E n \in inbox' : n.to = processor' /\ n.type \in {"assigned", "reassigned"}
  PROVE  JournalInv'
<1>1. /\ history' \in Seq(Journal!HistoryRow)
      /\ Len(history') = Len(history) + 1 /\ Len(history') \in 1..MaxChanges
      /\ history'[Len(history')] = row
      /\ \A i \in 1..Len(history) : history'[i] = history[i]
  BY HistoryGrows
<1>2. Len(history) \in Nat \ {0}
  BY PartsAssumption DEF Journal!JournalAssumption, JournalInv, Journal!TypeOK
<1>3. \A i \in 2..Len(history') :
        \/ i = Len(history')
        \/ i \in 2..Len(history) /\ history'[i] = history[i] /\ history'[i - 1] = history[i - 1]
  BY <1>1, <1>2
<1>4. Journal!TypeOK'
  <2>1. Journal!Idle \in Posting
    BY DEF Posting
  <2>2. posting' \in [Writers -> Posting]
    BY <2>1, PostingMoves DEF JournalInv, Journal!Done
  <2> QED BY <1>1, <2>2 DEF JournalInv, Journal!TypeOK, Posting, Waiting, Assigning, Actors
<1>5. Journal!HistoryIsAPath'
  BY <1>1, <1>2, <1>3 DEF JournalInv, Journal!HistoryIsAPath
<1>6. Journal!RatingIsAboutAResult' /\ rating' <= Len(history')
  BY <1>1, <1>2, PartsAssumption DEF JournalInv, Journal!RatingIsAboutAResult, Journal!TypeOK,
     Journal!JournalAssumption
<1>7. Journal!PartiesAreTold'
  BY <1>1, <1>2, <1>3 DEF JournalInv, Journal!PartiesAreTold
<1> QED BY <1>1, <1>4, <1>5, <1>6, <1>7 DEF JournalInv

\* A request that opens, is checked or is refused leaves the ticket alone.
LEMMA OnlyPostingMoves ==
  ASSUME JournalInv, NEW r \in Writers, NEW row \in Posting,
         posting' = [posting EXCEPT ![r] = row],
         UNCHANGED <<status, processor, clock, history, inbox, rating>>
  PROVE  JournalInv'
<1>1. posting' \in [Writers -> Posting]
  BY PostingMoves DEF JournalInv
<1>2. Journal!TypeOK'
  BY <1>1 DEF JournalInv, Journal!TypeOK, Posting, Waiting, Assigning, Actors
<1> QED BY <1>2 DEF JournalInv, Journal!HistoryIsAPath, Journal!RatingIsAboutAResult,
           Journal!PartiesAreTold

\* The transitions lead from statuses to statuses.
LEMMA MovesAreTyped ==
  \A m \in Journal!Moves : m.from \in Journal!Statuses /\ m.to \in Journal!Statuses
<1>1. Journal!Moves \subseteq [from : Journal!Statuses, to : Journal!Statuses,
                             by : {"processor or admin", "owner", "close", "admin"}]
  BY DEF Journal!Moves, Journal!Statuses
<1> QED BY <1>1

\* WF-01 to WF-08 and the auto-close job.
LEMMA MoveKeepsJournal ==
  ASSUME JournalInv, NEW r \in Writers, NEW m \in Journal!Moves, Journal!Move(r, m)
  PROVE  JournalInv'
<1> DEFINE row  == [from |-> m.from, to |-> m.to, by |-> posting[r].actor,
                    at |-> posting[r].begun]
           told == Journal!Notices(Journal!StatusRecipients(posting[r].actor, m.to), "status",
                                   Len(history) + 1)
<1>0. posting[r] \in Posting
  BY DEF JournalInv, Journal!TypeOK, Posting, Waiting, Assigning, Actors
<1>1. posting[r] # Journal!Idle /\ posting[r].actor \in Actors /\ posting[r].begun \in 0..MaxTime
  BY <1>0, PostingRow DEF Journal!Move
<1>2. m.from \in Journal!Statuses /\ m.to \in Journal!Statuses
  BY MovesAreTyped
<1>3. row \in Journal!HistoryRow
  BY <1>1, <1>2 DEF Journal!HistoryRow, Actors
<1>4. /\ history' = Append(history, row) /\ status = m.from /\ status' = m.to
      /\ Len(history) < MaxChanges /\ inbox' = inbox \union told /\ Journal!Done(r)
      /\ UNCHANGED <<processor, clock, rating>>
  BY DEF Journal!Move, Journal!Record
<1>5. Len(history) + 1 \in 1..MaxChanges
  BY <1>4, PartsAssumption DEF JournalInv, Journal!JournalAssumption
<1>6. told \subseteq Journal!Notice
  BY <1>5 DEF Journal!Notices, Journal!StatusRecipients, Journal!Notice, Journal!People,
     JournalInv, Journal!TypeOK
<1>7. row.by # Requester =>
        [to |-> Requester, about |-> Len(history) + 1, type |-> "status"] \in told
  BY DEF Journal!Notices, Journal!StatusRecipients
<1>8. inbox \subseteq Journal!Notice /\ processor \in Processors \union {Nobody}
  BY DEF JournalInv, Journal!TypeOK
<1>9. processor' # Nobody =>
        \E n \in inbox' : n.to = processor' /\ n.type \in {"assigned", "reassigned"}
  BY <1>4 DEF JournalInv, Journal!PartiesAreTold
<1> HIDE DEF told
<1> QED BY <1>1, <1>2, <1>3, <1>4, <1>6, <1>7, <1>8, <1>9, ChangeIsKept

\* The first assignment.
LEMMA AssignKeepsJournal ==
  ASSUME JournalInv, NEW r \in Writers, Journal!Assign(r)
  PROVE  JournalInv'
<1> DEFINE row  == [from |-> "NEW", to |-> "ASSIGNED", by |-> posting[r].actor,
                    at |-> posting[r].begun]
           mine == Journal!Notices({posting[r].assignee}, "assigned", Len(history) + 1)
           told == Journal!Notices(Journal!StatusRecipients(Admin, "ASSIGNED"), "status",
                                   Len(history) + 1)
<1>0. posting[r] \in Posting
  BY DEF JournalInv, Journal!TypeOK, Posting, Waiting, Assigning, Actors
<1>1. posting[r] # Journal!Idle /\ posting[r] \in Assigning
  BY <1>0, PostingRow DEF Journal!Assign
<1>2. posting[r].actor = Admin /\ posting[r].assignee \in Processors /\ posting[r].begun \in 0..MaxTime
  BY <1>1 DEF Assigning
<1>3. row \in Journal!HistoryRow /\ row.to \in Journal!Statuses
  BY <1>2 DEF Journal!HistoryRow, Journal!People, Journal!Statuses
<1>4. /\ history' = Append(history, row) /\ status = "NEW" /\ status' = "ASSIGNED"
      /\ Len(history) < MaxChanges /\ processor' = posting[r].assignee
      /\ inbox' = inbox \union mine \union told
      /\ Journal!Done(r) /\ UNCHANGED <<clock, rating>>
  BY DEF Journal!Assign, Journal!Record
<1>5. Len(history) + 1 \in 1..MaxChanges
  BY <1>4, PartsAssumption DEF JournalInv, Journal!JournalAssumption
<1>6. told \subseteq Journal!Notice /\ mine \subseteq Journal!Notice
  BY <1>2, <1>5 DEF Journal!Notices, Journal!StatusRecipients, Journal!Notice, Journal!People,
     JournalInv, Journal!TypeOK
<1>7. row.by # Requester =>
        [to |-> Requester, about |-> Len(history) + 1, type |-> "status"] \in told
  BY <1>2 DEF Journal!Notices, Journal!StatusRecipients
<1>8. \E n \in mine : n.to = posting[r].assignee /\ n.type \in {"assigned", "reassigned"}
  <2> DEFINE n == [to |-> posting[r].assignee, about |-> Len(history) + 1, type |-> "assigned"]
  <2>1. n \in mine
    BY DEF Journal!Notices
  <2> QED BY <2>1
<1>9. inbox \subseteq Journal!Notice
  BY DEF JournalInv, Journal!TypeOK
<1> HIDE DEF told, mine
<1> QED BY <1>1, <1>2, <1>3, <1>4, <1>6, <1>7, <1>8, <1>9, ChangeIsKept

\* A later assignment: the new processor is told.
LEMMA ReassignKeepsJournal ==
  ASSUME JournalInv, NEW r \in Writers, Journal!Reassign(r)
  PROVE  JournalInv'
<1> DEFINE mine == Journal!Notices({posting[r].assignee}, "reassigned", Len(history))
<1>0. posting[r] \in Posting
  BY DEF JournalInv, Journal!TypeOK, Posting, Waiting, Assigning, Actors
<1>1. posting[r].assignee \in Processors
  BY <1>0, PostingRow DEF Journal!Reassign, Assigning
<1>2. mine \subseteq Journal!Notice
  BY <1>1 DEF Journal!Notices, Journal!Notice, Journal!People, JournalInv
<1>3. \E n \in mine : n.to = posting[r].assignee /\ n.type \in {"assigned", "reassigned"}
  <2> DEFINE n == [to |-> posting[r].assignee, about |-> Len(history), type |-> "reassigned"]
  <2>1. n \in mine
    BY DEF Journal!Notices
  <2> QED BY <2>1
<1>4. /\ processor' = posting[r].assignee /\ inbox' = inbox \union mine /\ Journal!Done(r)
      /\ UNCHANGED <<status, clock, history, rating>>
  BY DEF Journal!Reassign
<1> HIDE DEF mine
<1>5. posting' \in [Writers -> Posting]
  <2>1. Journal!Idle \in Posting
    BY DEF Posting
  <2> QED BY <1>4, <2>1, PostingMoves DEF JournalInv, Journal!Done
<1>6. Journal!TypeOK'
  BY <1>1, <1>2, <1>4, <1>5 DEF JournalInv, Journal!TypeOK, Posting, Waiting, Assigning, Actors
<1>7. Journal!PartiesAreTold'
  BY <1>3, <1>4 DEF JournalInv, Journal!PartiesAreTold
<1> QED BY <1>4, <1>6, <1>7 DEF JournalInv, Journal!HistoryIsAPath, Journal!RatingIsAboutAResult

\* The rating is about the last row, which led to the status there is.
LEMMA RateKeepsJournal ==
  ASSUME JournalInv, NEW r \in Writers, Journal!Rate(r)
  PROVE  JournalInv'
<1>1. Journal!Idle \in Posting
  BY DEF Posting
<1>2. posting' \in [Writers -> Posting]
  BY <1>1, PostingMoves DEF JournalInv, Journal!Done, Journal!Rate
<1>3. Journal!TypeOK'
  BY <1>2, PartsAssumption DEF JournalInv, Journal!TypeOK, Posting, Waiting, Assigning, Actors,
     Journal!Rate, Journal!JournalAssumption
<1> QED BY <1>3 DEF JournalInv, Journal!Rate, Journal!HistoryIsAPath,
           Journal!RatingIsAboutAResult, Journal!PartiesAreTold

\* Requests that open the transaction, check the assignee, or are refused.
LEMMA WaitingMoves ==
  ASSUME JournalInv, NEW r \in Writers,
         \/ \E actor \in Journal!People \union {System} : Journal!Begin(r, actor)
         \/ \E u \in Processors : Journal!CheckAssignee(r, u)
         \/ Journal!Refuse(r)
  PROVE  /\ UNCHANGED <<status, processor, clock, history, inbox, rating>>
         /\ \E row \in Posting :
              /\ posting' = [posting EXCEPT ![r] = row]
              /\ row # Journal!Idle =>
                   row.begun = clock \/ (posting[r] # Journal!Idle /\ row.begun = posting[r].begun)
<1>0. posting[r] \in Posting
  BY DEF JournalInv, Journal!TypeOK, Posting, Waiting, Assigning, Actors
<1>1. ASSUME NEW actor \in Journal!People \union {System}, Journal!Begin(r, actor)
      PROVE  \E row \in Posting : posting' = [posting EXCEPT ![r] = row] /\ row.begun = clock
  <2> DEFINE row == [step |-> "waiting", actor |-> actor, begun |-> clock]
  <2>1. row \in Posting
    BY DEF Posting, Waiting, Actors, JournalInv, Journal!TypeOK
  <2> QED BY <1>1, <2>1 DEF Journal!Begin
<1>2. ASSUME NEW u \in Processors, Journal!CheckAssignee(r, u)
      PROVE  /\ posting[r] # Journal!Idle
             /\ \E row \in Posting :
                  posting' = [posting EXCEPT ![r] = row] /\ row.begun = posting[r].begun
  <2> DEFINE row == [step |-> "assigning", actor |-> Admin, begun |-> posting[r].begun,
                     assignee |-> u]
  <2>1. posting[r] # Journal!Idle /\ posting[r].begun \in 0..MaxTime
    BY <1>0, <1>2, PostingRow DEF Journal!CheckAssignee
  <2>2. row \in Posting
    BY <2>1 DEF Posting, Assigning
  <2>3. posting' = [posting EXCEPT ![r] = row]
    BY <1>2 DEF Journal!CheckAssignee, JournalInv, Journal!TypeOK
  <2> QED BY <2>1, <2>2, <2>3
<1>3. ASSUME Journal!Refuse(r)
      PROVE  Journal!Idle \in Posting /\ posting' = [posting EXCEPT ![r] = Journal!Idle]
  BY <1>3 DEF Journal!Refuse, Journal!Done, Posting
<1>4. UNCHANGED <<status, processor, clock, history, inbox, rating>>
  BY DEF Journal!Begin, Journal!CheckAssignee, Journal!Refuse
<1> QED BY <1>1, <1>2, <1>3, <1>4

\* Every step of the journal keeps its invariant.
LEMMA JournalStays ==
  ASSUME JournalInv, [Journal!Next]_Journal!vars
  PROVE  JournalInv'
<1>1. CASE Journal!Tick \/ UNCHANGED Journal!vars
  BY <1>1, PartsAssumption DEF Journal!Tick, Journal!vars, JournalInv, Journal!TypeOK,
     Journal!HistoryIsAPath, Journal!RatingIsAboutAResult, Journal!PartiesAreTold,
     Journal!JournalAssumption
<1>2. ASSUME NEW r \in Writers,
             \/ \E actor \in Journal!People \union {System} : Journal!Begin(r, actor)
             \/ \E u \in Processors : Journal!CheckAssignee(r, u)
             \/ Journal!Refuse(r)
      PROVE  JournalInv'
  BY <1>2, WaitingMoves, OnlyPostingMoves
<1> QED BY <1>1, <1>2, MoveKeepsJournal, AssignKeepsJournal, ReassignKeepsJournal,
           RateKeepsJournal DEF Journal!Next

\* A row appended by the one request under way continues the order of time.
LEMMA AppendKeepsOrder ==
  ASSUME JournalInv, OrderedInv, NEW r \in Writers, posting[r] # Journal!Idle,
         Len(history) < MaxChanges,
         NEW row \in Journal!HistoryRow, row.at = posting[r].begun,
         history' = Append(history, row), clock' = clock, Journal!Done(r)
  PROVE  OrderedInv'
<1>1. /\ Len(history') = Len(history) + 1
      /\ history'[Len(history')] = row
      /\ \A i \in 1..Len(history) : history'[i] = history[i]
  BY HistoryGrows
<1>2. Len(history) \in Nat \ {0}
  BY PartsAssumption DEF Journal!JournalAssumption, JournalInv, Journal!TypeOK
<1>3. \A i \in 2..Len(history') :
        \/ i = Len(history') /\ history'[i - 1] = history[Len(history)]
        \/ i \in 2..Len(history) /\ history'[i] = history[i] /\ history'[i - 1] = history[i - 1]
  BY <1>1, <1>2
<1>4. \A q \in Writers : posting'[q] = Journal!Idle
  BY DEF OrderedInv, OneAtATime, Journal!Done, JournalInv, Journal!TypeOK
<1>5. history[Len(history)].at <= row.at /\ row.at <= clock
  BY DEF OrderedInv
<1>6. Journal!TimelineIsChronological'
  BY <1>1, <1>3, <1>5 DEF OrderedInv, Journal!TimelineIsChronological
<1> QED BY <1>1, <1>4, <1>5, <1>6 DEF OrderedInv, OneAtATime

\* Every other step leaves the history as it is.
LEMMA OrderStays ==
  ASSUME JournalInv, OrderedInv, OneAtATime(posting'), Journal!Next
  PROVE  OrderedInv'
<1>0. \A q \in Writers : posting[q] \in Posting
  BY DEF JournalInv, Journal!TypeOK, Posting, Waiting, Assigning, Actors
<1>1. clock \in Nat /\ history[Len(history)].at \in Nat
  <2>1. history[Len(history)] \in Journal!HistoryRow
    BY PartsAssumption DEF JournalInv, Journal!TypeOK, Journal!JournalAssumption
  <2> QED BY <2>1, PartsAssumption DEF JournalInv, Journal!TypeOK, Journal!HistoryRow,
             Journal!JournalAssumption
<1>2. CASE Journal!Tick
  <2>1. \A q \in Writers : posting[q] # Journal!Idle => posting[q].begun \in 0..MaxTime
    BY <1>0, PostingRow
  <2> QED BY <1>1, <1>2, <2>1, PartsAssumption DEF Journal!Tick, OrderedInv, OneAtATime,
             Journal!TimelineIsChronological, Journal!JournalAssumption
<1>3. ASSUME NEW r \in Writers,
             \/ \E actor \in Journal!People \union {System} : Journal!Begin(r, actor)
             \/ \E u \in Processors : Journal!CheckAssignee(r, u)
             \/ Journal!Refuse(r)
      PROVE  OrderedInv'
  <2>1. PICK row \in Posting :
          /\ posting' = [posting EXCEPT ![r] = row]
          /\ row # Journal!Idle =>
               row.begun = clock \/ (posting[r] # Journal!Idle /\ row.begun = posting[r].begun)
    BY <1>3, WaitingMoves
  <2>2. posting'[r] = row /\ \A q \in Writers \ {r} : posting'[q] = posting[q]
    BY <2>1, PostingMoves DEF JournalInv
  <2>3. clock' = clock /\ history' = history
    BY <1>3, WaitingMoves
  <2> QED BY <1>1, <2>1, <2>2, <2>3 DEF OrderedInv, Journal!TimelineIsChronological
<1>4. ASSUME NEW r \in Writers, NEW m \in Journal!Moves, Journal!Move(r, m)
      PROVE  OrderedInv'
  <2> DEFINE row == [from |-> m.from, to |-> m.to, by |-> posting[r].actor,
                     at |-> posting[r].begun]
  <2>1. posting[r] # Journal!Idle /\ posting[r].actor \in Actors /\ posting[r].begun \in 0..MaxTime
    BY <1>0, <1>4, PostingRow DEF Journal!Move
  <2>2. row \in Journal!HistoryRow
    BY <2>1, MovesAreTyped DEF Journal!HistoryRow, Actors
  <2> QED BY <1>4, <2>1, <2>2, AppendKeepsOrder DEF Journal!Move, Journal!Record
<1>5. ASSUME NEW r \in Writers, Journal!Assign(r)
      PROVE  OrderedInv'
  <2> DEFINE row == [from |-> "NEW", to |-> "ASSIGNED", by |-> posting[r].actor,
                     at |-> posting[r].begun]
  <2>1. posting[r] # Journal!Idle /\ posting[r].actor \in Actors /\ posting[r].begun \in 0..MaxTime
    BY <1>0, <1>5, PostingRow DEF Journal!Assign
  <2>2. row \in Journal!HistoryRow
    BY <2>1 DEF Journal!HistoryRow, Journal!Statuses, Actors
  <2> QED BY <1>5, <2>1, <2>2, AppendKeepsOrder DEF Journal!Assign, Journal!Record
<1>6. ASSUME NEW r \in Writers, Journal!Reassign(r) \/ Journal!Rate(r)
      PROVE  OrderedInv'
  <2>1. /\ posting'[r] = Journal!Idle
        /\ \A q \in Writers \ {r} : posting'[q] = posting[q]
        /\ clock' = clock /\ history' = history
    BY <1>6 DEF Journal!Reassign, Journal!Rate, Journal!Done, JournalInv, Journal!TypeOK
  <2> QED BY <2>1 DEF OrderedInv, OneAtATime, Journal!TimelineIsChronological
<1> QED BY <1>2, <1>3, <1>4, <1>5, <1>6 DEF Journal!Next

\* Both hold in every reachable state.
LEMMA JournalHolds ==
  SidesSpec => [](JournalInv /\ (part = "one by one" => OrderedInv))
<1>1. SidesInit => JournalInv /\ OrderedInv
  <2> SUFFICES ASSUME Journal!Init  PROVE JournalInv /\ OrderedInv
    BY DEF SidesInit
  <2> DEFINE row == [from |-> "NONE", to |-> "NEW", by |-> Requester, at |-> 0]
  <2>1. MaxTime \in Nat /\ MaxChanges \in Nat \ {0}
    BY PartsAssumption DEF Journal!JournalAssumption
  <2>2. row \in Journal!HistoryRow
    BY <2>1 DEF Journal!HistoryRow, Journal!Statuses, Journal!People
  <2>3. history = <<row>>
    BY DEF Journal!Init
  <2> HIDE DEF row
  <2>4. history \in Seq(Journal!HistoryRow) /\ Len(history) = 1 /\ history[1] = row
    BY <2>2, <2>3
  <2>5. Journal!TypeOK
    BY <2>1, <2>4 DEF Journal!Init, Journal!TypeOK, Journal!Statuses
  <2>6. Journal!HistoryIsAPath /\ Journal!RatingIsAboutAResult /\ Journal!PartiesAreTold
    BY <2>4 DEF Journal!Init, Journal!HistoryIsAPath, Journal!RatingIsAboutAResult,
       Journal!PartiesAreTold, row
  <2> QED BY <2>1, <2>4, <2>5, <2>6 DEF Journal!Init, JournalInv, OrderedInv, OneAtATime,
             Journal!TimelineIsChronological, row
<1>2. JournalInv /\ (part = "one by one" => OrderedInv) /\ [SidesNext]_sidesVars =>
        JournalInv' /\ (part = "one by one" => OrderedInv)'
  <2> SUFFICES ASSUME JournalInv, part = "one by one" => OrderedInv, [SidesNext]_sidesVars
               PROVE  JournalInv' /\ (part' = "one by one" => OrderedInv')
    OBVIOUS
  <2>1. part' = part
    BY JournalSteps
  <2>2. CASE UNCHANGED Journal!vars
    BY <2>1, <2>2, JournalStays DEF Journal!vars, OrderedInv, OneAtATime,
       Journal!TimelineIsChronological
  <2>3. CASE Journal!Next /\ (part = "one by one" => OneAtATime(posting'))
    BY <2>1, <2>3, JournalStays, OrderStays
  <2> QED BY <2>2, <2>3, JournalSteps
<1> QED BY <1>1, <1>2, PTL DEF SidesSpec

\* However requests interleave, the status history is one path to the status of
\* the ticket (create_status_history_record) and a rating is about a result
\* (create_rating); one by one the timeline is in the order of the changes.
THEOREM JournalStaysTrue == SidesSpec => []JournalMatchesTicket
<1>1. JournalInv /\ (part = "one by one" => OrderedInv) => JournalMatchesTicket
  BY DEF JournalInv, OrderedInv, JournalMatchesTicket
<1> QED BY <1>1, JournalHolds, PTL

-----------------------------------------------------------------------------
(***************************************************************************)
(* The discussion                                                          *)
(*                                                                         *)
(* An edit that is under way holds the lock on its comment, so what it has *)
(* read of the content is still there when it commits; the last audit row  *)
(* about the comment tells it, or, of WF-02 and WF-03, the first content.  *)
(***************************************************************************)
Editing == [step : {"editing"}, actor : Talk!People,
            edit : [comment : 1..MaxComments, old : Contents, new : Contents]]
Begun == [step : {"begun"}, actor : Talk!People, begun : 0..MaxTime]
Writing == {Talk!Idle} \union Begun \union Editing

\* What an edit has read is the content, and the comment is its alone.
EditsAreLocked ==
  \A r \in Writers : writing[r].step = "editing" =>
    LET c == writing[r].edit.comment IN
      /\ c \in 1..Len(comments) /\ writing[r].edit.old = comments[c].content
      /\ \A q \in Writers : writing[q].step = "editing" /\ writing[q].edit.comment = c => q = r

\* Audit rows are about comments there are.
AuditIsAboutComments == \A i \in 1..Len(audit) : audit[i].comment \in 1..Len(comments)

TalkInv ==
  /\ Talk!TypeOK
  /\ Talk!CommentsAreChronological /\ Talk!AuditTellsTheContent
  /\ EditsAreLocked /\ AuditIsAboutComments
  /\ \A c \in 1..Len(comments) : comments[c].created_at <= time
  /\ \A r \in Writers : writing[r].step = "begun" => writing[r].begun <= time

\* A step of the whole is a step of the discussion, or leaves it alone.
LEMMA TalkSteps == [SidesNext]_sidesVars => [Talk!Next]_Talk!vars
BY DEF SidesNext, FilesMove, JournalMoves, DiscussionMoves, AccessMoves, CatalogueMoves,
       sidesVars, discussionVars, Talk!vars

\* What a request carries.
LEMMA WritingRow ==
  ASSUME NEW row \in Writing
  PROVE  /\ row.step = "begun" => row \in Begun
         /\ row.step = "editing" => row \in Editing
BY DEF Writing, Begun, Editing, Talk!Idle

\* A request that moves has its new row; the others keep theirs.
LEMMA WritingMoves ==
  ASSUME Talk!TypeOK, NEW r \in Writers, NEW row \in Writing,
         writing' = [writing EXCEPT ![r] = row]
  PROVE  /\ writing' \in [Writers -> Writing]
         /\ writing'[r] = row
         /\ \A q \in Writers \ {r} : writing'[q] = writing[q]
BY DEF Talk!TypeOK, Writing, Begun, Editing

\* What AuditTellsTheContent says, of any audit log and any list of comments.
Latest(log, i, c, n) == log[i].comment = c /\ \A j \in (i + 1)..n : log[j].comment # c

Earlier(log, n) == {i \in 1..(n - 1) : log[i].comment = log[n].comment}

Base(comment) == IF comment.via = "COM-02" THEN NoContent ELSE comment.first

StartsFromTheLast(log, list, n) ==
  IF Earlier(log, n) = {} THEN log[n].old = Base(list[log[n].comment])
  ELSE \E i \in Earlier(log, n) :
         Latest(log, i, log[n].comment, n - 1) /\ log[n].old = log[i].new

ToldByTheLast(log, list, c) ==
  \E i \in DOMAIN log : Latest(log, i, c, Len(log)) /\ log[i].new = list[c].content

Untold(log, list, c) ==
  /\ list[c].via # "COM-02" /\ list[c].content = list[c].first
  /\ \A i \in DOMAIN log : log[i].comment # c

Tells(log, list) ==
  /\ \A n \in DOMAIN log : StartsFromTheLast(log, list, n)
  /\ \A c \in DOMAIN list : ToldByTheLast(log, list, c) \/ Untold(log, list, c)

\* What the audit tells, said of a log and a list.
LEMMA AuditTells ==
  /\ Talk!AuditTellsTheContent <=> Tells(audit, comments)
  /\ Talk!AuditTellsTheContent' <=> Tells(audit', comments')
BY DEF Talk!AuditTellsTheContent, Talk!IsLatest, Tells, StartsFromTheLast, ToldByTheLast,
       Untold, Base, Earlier, Latest

\* The bounds, and the lengths of both lists.
LEMMA TalkBounds ==
  ASSUME TalkInv
  PROVE  /\ MaxTime \in Nat /\ MaxComments \in Nat /\ time \in Nat
         /\ Len(comments) \in Nat /\ Len(audit) \in Nat
         /\ \A c \in 1..Len(comments) : comments[c] \in Talk!Comment
         /\ \A i \in 1..Len(audit) : audit[i] \in Talk!AuditRow
         /\ writing \in [Writers -> Writing]
<1>1. MaxTime \in Nat /\ MaxComments \in Nat
  BY PartsAssumption DEF Talk!DiscussionAssumption
<1> QED BY <1>1 DEF TalkInv, Talk!TypeOK, Writing, Begun, Editing

\* Every comment is told by the last row about it, or no row is about it.
LEMMA CommentsAreTold ==
  ASSUME TalkInv, NEW d \in 1..Len(comments)
  PROVE  \/ \E i \in 1..Len(audit) :
              Latest(audit, i, d, Len(audit)) /\ audit[i].new = comments[d].content
         \/ Untold(audit, comments, d)
<1>1. DOMAIN audit = 1..Len(audit) /\ DOMAIN comments = 1..Len(comments)
  BY DEF TalkInv, Talk!TypeOK
<1> QED BY <1>1, AuditTells DEF TalkInv, Tells, ToldByTheLast

\* The audit grows by a row about comment c that starts from its content, or is
\* the first; the comment now says what the row tells.
LEMMA AuditGrows ==
  ASSUME TalkInv, NEW c \in Nat \ {0}, NEW row \in Talk!AuditRow, row.comment = c,
         NEW n \in Nat, Len(comments') = n,
         \/ /\ c = Len(comments) + 1 /\ n = c
            /\ row.old = NoContent /\ comments'[c].via = "COM-02"
         \/ c \in 1..Len(comments) /\ n = Len(comments) /\ row.old = comments[c].content,
         comments' \in Seq(Talk!Comment), comments'[c].content = row.new,
         \A d \in 1..Len(comments) :
           comments'[d].via = comments[d].via /\ comments'[d].first = comments[d].first,
         \A d \in 1..Len(comments) : d # c => comments'[d].content = comments[d].content,
         audit' = Append(audit, row)
  PROVE  /\ audit' \in Seq(Talk!AuditRow)
         /\ Talk!AuditTellsTheContent' /\ AuditIsAboutComments'
<1> DEFINE last == Len(audit)
<1>1. last \in Nat /\ Len(comments) \in Nat
  BY TalkBounds
<1>2. /\ audit' \in Seq(Talk!AuditRow) /\ Len(audit') = last + 1 /\ audit'[last + 1] = row
      /\ \A i \in 1..last : audit'[i] = audit[i]
  BY DEF TalkInv, Talk!TypeOK
<1>3. DOMAIN audit = 1..last /\ DOMAIN audit' = 1..(last + 1)
      /\ DOMAIN comments = 1..Len(comments) /\ DOMAIN comments' = 1..n
  BY <1>2 DEF TalkInv, Talk!TypeOK
<1>4. \A i \in 1..last : audit[i].comment \in 1..Len(comments)
  BY DEF TalkInv, AuditIsAboutComments
<1>5. \A d \in 1..Len(comments) :
        \/ \E i \in 1..last : Latest(audit, i, d, last) /\ audit[i].new = comments[d].content
        \/ Untold(audit, comments, d)
  BY CommentsAreTold
<1> HIDE DEF last
<1>6. AuditIsAboutComments'
  BY <1>1, <1>2, <1>4 DEF AuditIsAboutComments
<1>b. \A d \in 1..Len(comments) : Base(comments'[d]) = Base(comments[d])
  BY DEF Base
<1>7. ASSUME NEW m \in 1..(last + 1)
      PROVE  StartsFromTheLast(audit', comments', m)
  <2>1. CASE m \in 1..last
    <3>1. StartsFromTheLast(audit, comments, m)
      BY <1>3, <2>1, AuditTells DEF TalkInv, Tells
    <3>2. audit'[m] = audit[m] /\ \A i \in 1..(m - 1) : audit'[i] = audit[i]
      BY <1>1, <1>2, <2>1
    <3>3. Earlier(audit', m) = Earlier(audit, m)
      BY <3>2 DEF Earlier
    <3>4. ASSUME NEW i \in Earlier(audit, m), Latest(audit, i, audit[m].comment, m - 1)
          PROVE  Latest(audit', i, audit'[m].comment, m - 1) /\ audit'[i] = audit[i]
      <4>1. i \in 1..(m - 1) /\ \A j \in (i + 1)..(m - 1) : j \in 1..(m - 1)
        BY <2>1 DEF Earlier
      <4> QED BY <3>2, <3>4, <4>1 DEF Latest
    <3>5. Base(comments'[audit'[m].comment]) = Base(comments[audit[m].comment])
      BY <1>4, <1>b, <2>1, <3>2
    <3>6. CASE Earlier(audit, m) = {}
      BY <3>1, <3>2, <3>3, <3>5, <3>6 DEF StartsFromTheLast
    <3>7. CASE Earlier(audit, m) # {}
      BY <3>1, <3>2, <3>3, <3>4, <3>7 DEF StartsFromTheLast
    <3> QED BY <3>6, <3>7
  <2>2. CASE m = last + 1 /\ c = Len(comments) + 1
    <3>1. Earlier(audit', m) = {}
      BY <1>1, <1>2, <1>4, <2>2 DEF Earlier
    <3>2. audit'[m] = row /\ row.old = Base(comments'[c])
      BY <1>1, <1>2, <2>2 DEF Base
    <3> QED BY <3>1, <3>2 DEF StartsFromTheLast
  <2>3. CASE m = last + 1 /\ c \in 1..Len(comments)
    <3>1. audit'[m] = row /\ m - 1 = last /\ row.old = comments[c].content
      BY <1>1, <1>2, <2>3
    <3>2. CASE \E i \in 1..last : Latest(audit, i, c, last) /\ audit[i].new = comments[c].content
      <4>1. PICK i \in 1..last : Latest(audit, i, c, last) /\ audit[i].new = comments[c].content
        BY <3>2
      <4>2. audit'[i] = audit[i] /\ \A j \in (i + 1)..last : audit'[j] = audit[j]
        BY <1>1, <1>2
      <4>3. Latest(audit', i, c, last)
        BY <4>1, <4>2 DEF Latest
      <4>4. i \in Earlier(audit', m)
        BY <1>1, <3>1, <4>1, <4>2 DEF Earlier, Latest
      <4> QED BY <3>1, <4>1, <4>2, <4>3, <4>4 DEF StartsFromTheLast
    <3>3. CASE Untold(audit, comments, c)
      <4>1. Earlier(audit', m) = {}
        BY <1>1, <1>2, <1>3, <3>1, <3>3 DEF Earlier, Untold
      <4>2. row.old = Base(comments'[c])
        BY <1>b, <2>3, <3>1, <3>3 DEF Untold, Base
      <4> QED BY <3>1, <4>1, <4>2 DEF StartsFromTheLast
    <3> QED BY <1>5, <2>3, <3>2, <3>3
  <2> QED BY <1>1, <2>1, <2>2, <2>3
<1>8. ASSUME NEW d \in 1..n
      PROVE  ToldByTheLast(audit', comments', d) \/ Untold(audit', comments', d)
  <2>1. CASE d = c
    <3>1. Latest(audit', last + 1, c, last + 1)
      BY <1>1, <1>2 DEF Latest
    <3>2. last + 1 \in DOMAIN audit'
      <4>1. last + 1 \in 1..(last + 1)
        BY <1>1
      <4> QED BY <1>3, <4>1
    <3>3. audit'[last + 1].new = comments'[d].content
      BY <1>2, <2>1
    <3> QED BY <1>2, <2>1, <3>1, <3>2, <3>3 DEF ToldByTheLast
  <2>2. CASE d # c
    <3>1. d \in 1..Len(comments) /\ comments'[d].content = comments[d].content
      BY <1>1, <2>2
    <3>2. CASE \E i \in 1..last : Latest(audit, i, d, last) /\ audit[i].new = comments[d].content
      <4>1. PICK i \in 1..last : Latest(audit, i, d, last) /\ audit[i].new = comments[d].content
        BY <3>2
      <4>2. audit'[i] = audit[i]
        BY <1>2
      <4>3. \A j \in (i + 1)..(last + 1) : audit'[j].comment # d
        <5> SUFFICES ASSUME NEW j \in (i + 1)..(last + 1)  PROVE audit'[j].comment # d
          OBVIOUS
        <5>1. CASE j = last + 1
          BY <1>2, <2>2, <5>1
        <5>2. CASE j # last + 1
          <6>1. j \in (i + 1)..last /\ j \in 1..last
            BY <1>1, <5>2
          <6> QED BY <1>2, <4>1, <6>1 DEF Latest
        <5> QED BY <5>1, <5>2
      <4>4. Latest(audit', i, d, last + 1)
        BY <4>1, <4>2, <4>3 DEF Latest
      <4>5. audit'[i].new = comments'[d].content /\ i \in 1..(last + 1)
        BY <1>1, <3>1, <4>1, <4>2
      <4> QED BY <1>2, <1>3, <4>4, <4>5 DEF ToldByTheLast
    <3>3. CASE Untold(audit, comments, d)
      <4>1. comments'[d].via # "COM-02" /\ comments'[d].content = comments'[d].first
        BY <3>1, <3>3 DEF Untold
      <4>2. ASSUME NEW i \in 1..(last + 1)  PROVE audit'[i].comment # d
        <5>1. CASE i = last + 1
          BY <1>2, <2>2, <5>1
        <5>2. CASE i # last + 1
          <6>1. i \in 1..last
            BY <1>1, <5>2
          <6> QED BY <1>2, <1>3, <3>3, <6>1 DEF Untold
        <5> QED BY <5>1, <5>2
      <4> QED BY <1>3, <4>1, <4>2 DEF Untold
    <3> QED BY <1>5, <3>1, <3>2, <3>3
  <2> QED BY <2>1, <2>2
<1>9. Talk!AuditTellsTheContent'
  BY <1>3, <1>7, <1>8, AuditTells DEF Tells
<1> QED BY <1>2, <1>6, <1>9

\* A comment of WF-02 or WF-03 comes without a row.
LEMMA AuditIsSilent ==
  ASSUME TalkInv, NEW row \in Talk!Comment, row.via # "COM-02", row.content = row.first,
         comments' = Append(comments, row), UNCHANGED audit
  PROVE  audit' \in Seq(Talk!AuditRow) /\ Talk!AuditTellsTheContent' /\ AuditIsAboutComments'
<1> DEFINE n == Len(comments)
<1>1. n \in Nat /\ audit' = audit /\ audit' \in Seq(Talk!AuditRow) /\ DOMAIN audit = 1..Len(audit)
  BY TalkBounds DEF TalkInv, Talk!TypeOK
<1>2. /\ DOMAIN comments = 1..n /\ DOMAIN comments' = 1..(n + 1) /\ Len(comments') = n + 1
      /\ comments'[n + 1] = row /\ \A d \in 1..n : comments'[d] = comments[d]
  BY DEF TalkInv, Talk!TypeOK
<1>3. \A i \in DOMAIN audit : audit[i].comment \in 1..n
  BY <1>1 DEF TalkInv, AuditIsAboutComments
<1> HIDE DEF n
<1>4. AuditIsAboutComments'
  BY <1>1, <1>2, <1>3 DEF AuditIsAboutComments
<1>5. \A m \in DOMAIN audit : StartsFromTheLast(audit', comments', m)
  <2> SUFFICES ASSUME NEW m \in DOMAIN audit  PROVE StartsFromTheLast(audit', comments', m)
    OBVIOUS
  <2>1. StartsFromTheLast(audit, comments, m)
    BY AuditTells DEF TalkInv, Tells
  <2>2. comments'[audit[m].comment] = comments[audit[m].comment]
    BY <1>2, <1>3
  <2> QED BY <1>1, <2>1, <2>2 DEF StartsFromTheLast
<1>6. \A d \in 1..(n + 1) : ToldByTheLast(audit', comments', d) \/ Untold(audit', comments', d)
  <2> SUFFICES ASSUME NEW d \in 1..(n + 1)
               PROVE  ToldByTheLast(audit', comments', d) \/ Untold(audit', comments', d)
    OBVIOUS
  <2>1. CASE d = n + 1
    <3>1. d \notin 1..n
      BY <1>1, <2>1
    <3> QED BY <1>1, <1>2, <1>3, <2>1, <3>1 DEF Untold
  <2>2. CASE d # n + 1
    <3>1. d \in 1..n
      BY <1>1, <2>2
    <3>2. ToldByTheLast(audit, comments, d) \/ Untold(audit, comments, d)
      BY <1>2, <3>1, AuditTells DEF TalkInv, Tells
    <3> QED BY <1>1, <1>2, <3>1, <3>2 DEF ToldByTheLast, Untold
  <2> QED BY <2>1, <2>2
<1> QED BY <1>1, <1>2, <1>4, <1>5, <1>6, AuditTells DEF Tells

\* A step that writes neither comments nor audit rows.
LEMMA OnlyWritingMoves ==
  ASSUME TalkInv, NEW r \in Writers, NEW row \in Writing,
         writing' = [writing EXCEPT ![r] = row],
         UNCHANGED <<phase, charge, time, comments, audit>>,
         row.step = "begun" => row.begun <= time,
         row.step = "editing" =>
           /\ row.edit.comment \in 1..Len(comments)
           /\ row.edit.old = comments[row.edit.comment].content
           /\ ~Talk!IsLocked(row.edit.comment)
  PROVE  TalkInv'
<1>1. /\ writing' \in [Writers -> Writing] /\ writing'[r] = row
      /\ \A q \in Writers \ {r} : writing'[q] = writing[q]
  BY WritingMoves DEF TalkInv
<1>2. Talk!TypeOK'
  BY <1>1 DEF TalkInv, Talk!TypeOK, Writing, Begun, Editing
<1>3. EditsAreLocked'
  BY <1>1 DEF TalkInv, EditsAreLocked, Talk!IsLocked
<1>4. \A q \in Writers : writing'[q].step = "begun" => writing'[q].begun <= time
  BY <1>1 DEF TalkInv
<1> QED BY <1>2, <1>3, <1>4, AuditTells DEF TalkInv, Talk!CommentsAreChronological,
           AuditIsAboutComments

\* Another comment, dated now if it is of COM-02, and earlier if it is not.
LEMMA NewCommentKeepsTalk ==
  ASSUME TalkInv, NEW r \in Writers, Len(comments) < MaxComments,
         NEW row \in Talk!Comment, comments' = Append(comments, row), Talk!Done(r),
         row.created_at <= time, row.via = "COM-02" => row.created_at = time,
         phase' \in Talk!Phases, UNCHANGED <<charge, time>>,
         audit' \in Seq(Talk!AuditRow), Talk!AuditTellsTheContent', AuditIsAboutComments'
  PROVE  TalkInv'
<1> DEFINE n == Len(comments)
<1>1. n \in Nat /\ MaxComments \in Nat /\ time \in Nat /\ row.created_at \in Nat
  BY TalkBounds DEF Talk!Comment
<1>2. /\ comments' \in Seq(Talk!Comment) /\ Len(comments') = n + 1 /\ comments'[n + 1] = row
      /\ \A c \in 1..n : comments'[c] = comments[c]
      /\ DOMAIN comments' = 1..(n + 1) /\ DOMAIN comments = 1..n
  BY DEF TalkInv, Talk!TypeOK
<1>3. Talk!Idle \in Writing /\ Talk!Idle.step = "idle"
  BY DEF Writing, Talk!Idle
<1>4. /\ writing' \in [Writers -> Writing] /\ writing'[r] = Talk!Idle
      /\ \A q \in Writers \ {r} : writing'[q] = writing[q]
  BY <1>3, WritingMoves DEF TalkInv, Talk!Done
<1>5. Talk!TypeOK'
  BY <1>1, <1>2, <1>4 DEF TalkInv, Talk!TypeOK, Writing, Begun, Editing
<1>6. EditsAreLocked'
  BY <1>1, <1>2, <1>3, <1>4 DEF TalkInv, EditsAreLocked
<1>7. \A c \in 1..(n + 1) : comments'[c].created_at <= time'
  BY <1>1, <1>2 DEF TalkInv
<1>8. \A q \in Writers : writing'[q].step = "begun" => writing'[q].begun <= time'
  BY <1>3, <1>4 DEF TalkInv
<1>9. Talk!CommentsAreChronological'
  <2> SUFFICES ASSUME NEW i \in 1..(n + 1), NEW j \in 1..(n + 1), i < j,
                      comments'[j].created_at < comments'[i].created_at
               PROVE  comments'[j].via # "COM-02"
    BY <1>2 DEF Talk!CommentsAreChronological
  <2>1. i \in 1..n
    BY <1>1
  <2>2. CASE j = n + 1
    <3>1. comments'[i].created_at \in Nat /\ comments'[i].created_at <= time
      BY <1>2, <2>1, TalkBounds DEF TalkInv, Talk!Comment
    <3> QED BY <1>1, <1>2, <2>2, <3>1
  <2>3. CASE j # n + 1
    <3>1. j \in 1..n
      BY <1>1, <2>3
    <3> QED BY <1>2, <2>1, <3>1 DEF TalkInv, Talk!CommentsAreChronological
  <2> QED BY <2>2, <2>3
<1> QED BY <1>2, <1>5, <1>6, <1>7, <1>8, <1>9 DEF TalkInv

\* Whoever has begun is one of the people, and began no later than now.
LEMMA BegunEarlier ==
  ASSUME TalkInv, NEW r \in Writers, writing[r].step = "begun"
  PROVE  /\ writing[r].actor \in Talk!People
         /\ writing[r].begun \in 0..MaxTime /\ writing[r].begun <= time
BY TalkBounds, WritingRow DEF Begun, TalkInv

\* A comment of COM-02 and its first audit row.
LEMMA CreateKeepsTalk ==
  ASSUME TalkInv, NEW r \in Writers, NEW visibility \in {"PUBLIC", "INTERNAL"},
         NEW content \in Contents, Talk!Create(r, visibility, content)
  PROVE  /\ TalkInv'
         /\ comments' = Append(comments,
              Talk!NewComment(r, "COM-02", visibility, content, time,
                              Talk!ToldOfReply(writing[r].actor, visibility)))
<1> DEFINE told == Talk!ToldOfReply(writing[r].actor, visibility)
           row  == Talk!NewComment(r, "COM-02", visibility, content, time, told)
           n    == Len(comments)
           made == [comment |-> n + 1, old |-> NoContent, new |-> content]
<1>1. /\ comments' = Append(comments, row) /\ audit' = Append(audit, made) /\ n < MaxComments
      /\ Talk!Done(r) /\ UNCHANGED <<phase, charge, time>>
  BY DEF Talk!Create, Talk!Comments
<1>2. writing[r].actor \in Talk!People
  BY BegunEarlier DEF Talk!Create, Talk!Comments
<1>3. told \subseteq Talk!People
  BY DEF Talk!ToldOfReply, Talk!People, TalkInv, Talk!TypeOK
<1>4. time \in 0..MaxTime /\ n \in Nat /\ MaxComments \in Nat
  BY TalkBounds DEF TalkInv, Talk!TypeOK
<1>5. row \in Talk!Comment
  BY <1>2, <1>3, <1>4 DEF Talk!Comment, Talk!NewComment
<1>6. made \in Talk!AuditRow /\ made.comment = n + 1 /\ made.old = NoContent /\ made.new = content
  BY <1>1, <1>4 DEF Talk!AuditRow
<1> HIDE DEF made
<1>7. row.content = content /\ row.created_at = time /\ row.via = "COM-02"
  BY DEF Talk!NewComment
<1> HIDE DEF row
<1>8. /\ comments' \in Seq(Talk!Comment) /\ Len(comments') = n + 1 /\ comments'[n + 1] = row
      /\ \A c \in 1..n : comments'[c] = comments[c]
  BY <1>1, <1>5 DEF TalkInv, Talk!TypeOK
<1>9. audit' \in Seq(Talk!AuditRow) /\ Talk!AuditTellsTheContent' /\ AuditIsAboutComments'
  BY <1>1, <1>4, <1>6, <1>7, <1>8, AuditGrows
<1>10. time <= time /\ phase' \in Talk!Phases
  BY <1>1, <1>4 DEF TalkInv, Talk!TypeOK
<1>11. TalkInv'
  BY <1>1, <1>5, <1>7, <1>9, <1>10, NewCommentKeepsTalk
<1> QED BY <1>1, <1>11 DEF row

\* A transition with a comment, dated at the begin of the request.
LEMMA MoveKeepsTalk ==
  ASSUME TalkInv, NEW r \in Writers, NEW wf \in {"WF-02", "WF-03"}, NEW to \in Talk!Phases,
         NEW content \in Contents, Talk!MoveWithComment(r, wf, to, content),
         writing[r].step = "begun"
  PROVE  /\ TalkInv'
         /\ comments' = Append(comments,
              Talk!NewComment(r, wf, "PUBLIC", content, writing[r].begun,
                              Talk!ToldOfChange(writing[r].actor)))
<1> DEFINE told == Talk!ToldOfChange(writing[r].actor)
           row  == Talk!NewComment(r, wf, "PUBLIC", content, writing[r].begun, told)
<1>1. /\ comments' = Append(comments, row) /\ Len(comments) < MaxComments /\ phase' = to
      /\ Talk!Done(r) /\ UNCHANGED <<charge, time, audit>>
  BY DEF Talk!MoveWithComment
<1>2. /\ writing[r].actor \in Talk!People
      /\ writing[r].begun \in 0..MaxTime /\ writing[r].begun <= time
  BY BegunEarlier
<1>3. told \subseteq Talk!People
  BY DEF Talk!ToldOfChange, Talk!People, TalkInv, Talk!TypeOK
<1>4. row \in Talk!Comment
  BY <1>2, <1>3 DEF Talk!Comment, Talk!NewComment
<1>5. row.content = row.first /\ row.created_at = writing[r].begun /\ row.via # "COM-02"
  BY DEF Talk!NewComment
<1> HIDE DEF row
<1>6. audit' \in Seq(Talk!AuditRow) /\ Talk!AuditTellsTheContent' /\ AuditIsAboutComments'
  BY <1>1, <1>4, <1>5, AuditIsSilent
<1>7. TalkInv'
  BY <1>1, <1>2, <1>4, <1>5, <1>6, NewCommentKeepsTalk
<1> QED BY <1>1, <1>7 DEF row

\* The new content and its audit row, under the lock on the comment.
LEMMA EditKeepsTalk ==
  ASSUME TalkInv, NEW r \in Writers, Talk!CommitEdit(r)
  PROVE  TalkInv' /\ Len(comments') = Len(comments)
<1> DEFINE e == writing[r].edit
           c == e.comment
           n == Len(comments)
<1>1. /\ comments' = [comments EXCEPT ![c].content = e.new] /\ audit' = Append(audit, e)
      /\ Talk!Done(r) /\ UNCHANGED <<phase, charge, time>> /\ writing[r].step = "editing"
  BY DEF Talk!CommitEdit
<1>2. e \in [comment : 1..MaxComments, old : Contents, new : Contents]
  BY <1>1, TalkBounds, WritingRow DEF Editing
<1>3. c \in 1..n /\ e.old = comments[c].content
  BY <1>1 DEF TalkInv, EditsAreLocked
<1>4. n \in Nat /\ time \in Nat /\ \A d \in 1..n : comments[d] \in Talk!Comment
  BY TalkBounds
<1>5. e \in Talk!AuditRow
  BY <1>2 DEF Talk!AuditRow
<1>6. comments \in [1..n -> Talk!Comment]
  BY DEF TalkInv, Talk!TypeOK
<1>7. [comments[c] EXCEPT !.content = e.new] \in Talk!Comment
  BY <1>2, <1>3, <1>4 DEF Talk!Comment
<1>8. /\ comments' \in [1..n -> Talk!Comment]
      /\ comments'[c] = [comments[c] EXCEPT !.content = e.new]
      /\ \A d \in 1..n : d # c => comments'[d] = comments[d]
  BY <1>1, <1>3, <1>6, <1>7
<1>9. comments' \in Seq(Talk!Comment) /\ Len(comments') = n
  BY <1>4, <1>8
<1>10. /\ comments'[c].content = e.new
       /\ \A d \in 1..n : /\ comments'[d].created_at = comments[d].created_at
                         /\ comments'[d].via = comments[d].via
                         /\ comments'[d].first = comments[d].first
  BY <1>3, <1>4, <1>8 DEF Talk!Comment
<1>11. audit' \in Seq(Talk!AuditRow) /\ Talk!AuditTellsTheContent' /\ AuditIsAboutComments'
  <2>1. c \in Nat \ {0} /\ e.comment = c
    BY <1>3, <1>4
  <2> HIDE DEF e, c
  <2> QED BY <1>1, <1>3, <1>4, <1>5, <1>8, <1>9, <1>10, <2>1, AuditGrows
<1>12. Talk!Idle \in Writing /\ Talk!Idle.step = "idle"
  BY DEF Writing, Talk!Idle
<1>13. /\ writing' \in [Writers -> Writing] /\ writing'[r] = Talk!Idle
       /\ \A q \in Writers \ {r} : writing'[q] = writing[q]
  BY <1>1, <1>12, WritingMoves DEF TalkInv, Talk!Done
<1>14. Talk!TypeOK'
  BY <1>1, <1>9, <1>11, <1>13 DEF TalkInv, Talk!TypeOK, Writing, Begun, Editing
<1>15. EditsAreLocked'
  <2>1. \A q \in Writers \ {r} : writing[q].step = "editing" => writing[q].edit.comment # c
    BY <1>1 DEF TalkInv, EditsAreLocked
  <2> HIDE DEF c, e
  <2> QED BY <1>8, <1>9, <1>12, <1>13, <2>1 DEF TalkInv, EditsAreLocked
<1>16. Talk!CommentsAreChronological'
  <2>1. DOMAIN comments = 1..n /\ DOMAIN comments' = 1..n
    BY <1>6, <1>8
  <2> QED BY <1>10, <2>1 DEF TalkInv, Talk!CommentsAreChronological
<1>17. \A q \in Writers : writing'[q].step = "begun" => writing'[q].begun <= time
  BY <1>12, <1>13 DEF TalkInv
<1> QED BY <1>1, <1>9, <1>10, <1>11, <1>14, <1>15, <1>16, <1>17 DEF TalkInv

\* Whoever inserts a comment.
Inserts(r, content) ==
  \/ \E visibility \in {"PUBLIC", "INTERNAL"} : Talk!Create(r, visibility, content)
  \/ Talk!RequestInformation(r, content) \/ Talk!ProvideInformation(r, content)

\* Every step of the discussion.
LEMMA TalkStays ==
  ASSUME TalkInv, Talk!Next
  PROVE  /\ TalkInv'
         /\ \/ Len(comments') = Len(comments)
            \/ \E r \in Writers, content \in Contents : Inserts(r, content)
<1>1. CASE Talk!Tick \/ Talk!Proceed \/ \E u \in Processors : Talk!Reassign(u)
  <2>1. UNCHANGED <<comments, audit, writing>> /\ time' \in 0..MaxTime /\ time' >= time
    BY <1>1, TalkBounds DEF Talk!Tick, Talk!Proceed, Talk!Reassign, TalkInv, Talk!TypeOK
  <2>2. phase' \in Talk!Phases
    BY <1>1 DEF Talk!Tick, Talk!Proceed, Talk!Reassign, Talk!Phases, TalkInv, Talk!TypeOK
  <2>3. Talk!TypeOK'
    BY <1>1, <2>1, <2>2 DEF Talk!Tick, Talk!Proceed, Talk!Reassign, TalkInv, Talk!TypeOK
  <2>4. \A c \in 1..Len(comments) : comments[c].created_at <= time'
    BY <2>1, TalkBounds DEF TalkInv, Talk!Comment
  <2>5. \A q \in Writers : writing[q].step = "begun" => writing[q].begun <= time'
    BY <2>1, TalkBounds, BegunEarlier
  <2> QED BY <2>1, <2>3, <2>4, <2>5, AuditTells DEF TalkInv, Talk!CommentsAreChronological,
             EditsAreLocked, AuditIsAboutComments
<1>2. ASSUME NEW r \in Writers, NEW actor \in Talk!People, Talk!Begin(r, actor)
      PROVE  TalkInv' /\ Len(comments') = Len(comments)
  <2> DEFINE row == [step |-> "begun", actor |-> actor, begun |-> time]
  <2>1. row \in Writing /\ row.step # "editing" /\ row.begun <= time
    BY TalkBounds DEF Writing, Begun, TalkInv, Talk!TypeOK
  <2> QED BY <1>2, <2>1, OnlyWritingMoves DEF Talk!Begin
<1>3. ASSUME NEW r \in Writers, Talk!Refuse(r)
      PROVE  TalkInv' /\ Len(comments') = Len(comments)
  <2>1. Talk!Idle \in Writing /\ Talk!Idle.step = "idle"
    BY DEF Writing, Talk!Idle
  <2> QED BY <1>3, <2>1, OnlyWritingMoves DEF Talk!Refuse, Talk!Done
<1>4. ASSUME NEW r \in Writers, NEW c \in DOMAIN comments, NEW content \in Contents,
             Talk!CheckEdit(r, c, content)
      PROVE  TalkInv' /\ Len(comments') = Len(comments)
  <2> DEFINE row == [step |-> "editing", actor |-> writing[r].actor,
                     edit |-> [comment |-> c, old |-> comments[c].content, new |-> content]]
  <2>1. c \in 1..Len(comments) /\ Len(comments) <= MaxComments
    BY DEF TalkInv, Talk!TypeOK
  <2>2. writing[r].actor \in Talk!People
    BY <1>4, TalkBounds, WritingRow DEF Talk!CheckEdit, Begun
  <2>3. c \in 1..MaxComments /\ comments[c].content \in Contents
    BY <2>1, TalkBounds DEF Talk!Comment
  <2>4. row \in Writing
    BY <2>2, <2>3 DEF Writing, Editing
  <2>5. writing' = [writing EXCEPT ![r] = row]
    BY <1>4, TalkBounds DEF Talk!CheckEdit, Talk!Edit
  <2> QED BY <1>4, <2>1, <2>4, <2>5, OnlyWritingMoves DEF Talk!CheckEdit, Talk!Edit
<1>5. ASSUME NEW r \in Writers, NEW content \in Contents,
             Talk!RequestInformation(r, content) \/ Talk!ProvideInformation(r, content)
      PROVE  TalkInv'
  <2>1. /\ writing[r].step = "begun"
        /\ \/ Talk!MoveWithComment(r, "WF-02", "PENDING_INFO", content)
           \/ Talk!MoveWithComment(r, "WF-03", "IN_PROGRESS", content)
    BY <1>5 DEF Talk!RequestInformation, Talk!ProvideInformation
  <2>2. {"PENDING_INFO", "IN_PROGRESS"} \subseteq Talk!Phases
    BY DEF Talk!Phases
  <2> QED BY <2>1, <2>2, MoveKeepsTalk
<1>6. CASE Talk!Tick \/ Talk!Proceed \/ \E u \in Processors : Talk!Reassign(u)
  BY <1>1, <1>6 DEF Talk!Tick, Talk!Proceed, Talk!Reassign
<1> QED BY <1>2, <1>3, <1>4, <1>5, <1>6, CreateKeepsTalk, EditKeepsTalk DEF Talk!Next, Inserts

\* The invariant of the discussion, and who is told by a step of it.
LEMMA TalkHolds == SidesSpec => []TalkInv /\ Talk!OtherSideIsTold
<1>1. SidesInit => TalkInv
  <2> SUFFICES ASSUME Talk!Init  PROVE TalkInv
    BY DEF SidesInit
  <2>0. MaxTime \in Nat /\ MaxComments \in Nat /\ Len(comments) = 0 /\ Len(audit) = 0
    BY PartsAssumption DEF Talk!Init, Talk!DiscussionAssumption
  <2>1. Talk!TypeOK
    <3>1. comments \in Seq(Talk!Comment) /\ audit \in Seq(Talk!AuditRow)
      BY DEF Talk!Init
    <3>2. charge \in Processors /\ time \in 0..MaxTime
      BY <2>0 DEF Talk!Init
    <3>3. phase \in Talk!Phases
      BY DEF Talk!Init, Talk!Phases
    <3> QED BY <2>0, <3>1, <3>2, <3>3 DEF Talk!Init, Talk!TypeOK
  <2> QED BY <2>1 DEF Talk!Init, TalkInv, Talk!CommentsAreChronological, EditsAreLocked,
             AuditIsAboutComments, Talk!AuditTellsTheContent, Talk!Idle
<1>2. TalkInv /\ [SidesNext]_sidesVars => TalkInv'
  <2> SUFFICES ASSUME TalkInv, UNCHANGED Talk!vars  PROVE TalkInv'
    BY TalkSteps, TalkStays
  <2> QED BY AuditTells DEF Talk!vars, TalkInv, Talk!TypeOK, Talk!CommentsAreChronological,
             EditsAreLocked, AuditIsAboutComments
<1>3. TalkInv /\ [SidesNext]_sidesVars =>
        [Len(comments') > Len(comments) =>
           LET c == comments'[Len(comments')]
           IN  IF c.visibility = "INTERNAL" THEN c.told = {}
               ELSE (IF c.author = Requester THEN charge ELSE Requester) \in c.told]_Talk!vars
  <2> SUFFICES ASSUME TalkInv, Talk!Next, Len(comments') > Len(comments)
               PROVE  LET c == comments'[Len(comments')]
                      IN  IF c.visibility = "INTERNAL" THEN c.told = {}
                          ELSE (IF c.author = Requester THEN charge ELSE Requester) \in c.told
    BY TalkSteps
  <2>1. charge # Requester /\ charge \in Processors
    BY PartsAssumption DEF TalkInv, Talk!TypeOK, Talk!DiscussionAssumption
  <2>2. ASSUME NEW row \in Talk!Comment, comments' = Append(comments, row)
        PROVE  comments'[Len(comments')] = row
    BY <2>2 DEF TalkInv, Talk!TypeOK
  <2>3. PICK r \in Writers, content \in Contents : Inserts(r, content)
    BY TalkStays, TalkBounds
  <2>4. writing[r].step = "begun" /\ Len(comments) \in Nat /\ comments \in Seq(Talk!Comment)
    BY <2>3, TalkBounds DEF Inserts, Talk!Create, Talk!Comments, Talk!RequestInformation,
       Talk!ProvideInformation, TalkInv, Talk!TypeOK
  <2>5. ASSUME NEW visibility \in {"PUBLIC", "INTERNAL"}, Talk!Create(r, visibility, content)
        PROVE  LET c == comments'[Len(comments')]
               IN  IF c.visibility = "INTERNAL" THEN c.told = {}
                   ELSE (IF c.author = Requester THEN charge ELSE Requester) \in c.told
    <3> DEFINE told == Talk!ToldOfReply(writing[r].actor, visibility)
               row  == Talk!NewComment(r, "COM-02", visibility, content, time, told)
    <3>1. comments' = Append(comments, row)
      BY <2>5, CreateKeepsTalk
    <3>2. comments'[Len(comments')] = row
      BY <2>4, <3>1
    <3>3. row.visibility = visibility /\ row.author = writing[r].actor /\ row.told = told
      BY DEF Talk!NewComment
    <3>4. IF visibility = "INTERNAL" THEN told = {}
          ELSE (IF writing[r].actor = Requester THEN charge ELSE Requester) \in told
      BY <2>1 DEF Talk!ToldOfReply
    <3> QED BY <3>2, <3>3, <3>4
  <2>6. ASSUME NEW wf \in {"WF-02", "WF-03"}, NEW to \in Talk!Phases,
               Talk!MoveWithComment(r, wf, to, content)
        PROVE  LET c == comments'[Len(comments')]
               IN  IF c.visibility = "INTERNAL" THEN c.told = {}
                   ELSE (IF c.author = Requester THEN charge ELSE Requester) \in c.told
    <3> DEFINE told == Talk!ToldOfChange(writing[r].actor)
               row  == Talk!NewComment(r, wf, "PUBLIC", content, writing[r].begun, told)
    <3>1. comments' = Append(comments, row)
      BY <2>4, <2>6, MoveKeepsTalk
    <3>2. comments'[Len(comments')] = row
      BY <2>4, <3>1
    <3>3. row.visibility = "PUBLIC" /\ row.author = writing[r].actor /\ row.told = told
      BY DEF Talk!NewComment
    <3>4. (IF writing[r].actor = Requester THEN charge ELSE Requester) \in told
      BY <2>1 DEF Talk!ToldOfChange
    <3> QED BY <3>2, <3>3, <3>4
  <2>7. {"PENDING_INFO", "IN_PROGRESS"} \subseteq Talk!Phases
    BY DEF Talk!Phases
  <2> QED BY <2>3, <2>5, <2>6, <2>7 DEF Inserts, Talk!RequestInformation, Talk!ProvideInformation
<1> QED BY <1>1, <1>2, <1>3, PTL DEF SidesSpec, Talk!OtherSideIsTold

\* The comments are listed in the order in which they were made, but for those
\* of WF-02 and WF-03, which may be listed too early (list_comments); and however
\* edits overlap the audit rows lead to the content, from the comment's creation
\* or, of WF-02 and WF-03, from its first edit (create_comment_audit_record).
THEOREM CommentsStayAccounted == SidesSpec => []CommentsAreAccounted
<1>1. TalkInv => CommentsAreAccounted
  BY DEF TalkInv, CommentsAreAccounted
<1> QED BY <1>1, TalkHolds, PTL

\* The requester and the processor in charge have been told of the state of the
\* ticket, and of every public comment the other side (notification_service.py).
THEOREM EveryoneStaysTold == SidesSpec => EveryoneIsTold
<1>1. JournalInv => Journal!PartiesAreTold
  BY DEF JournalInv
<1> QED BY <1>1, JournalHolds, TalkHolds, PTL DEF EveryoneIsTold

-----------------------------------------------------------------------------
(***************************************************************************)
(* Who may see the ticket                                                  *)
(*                                                                         *)
(* The scopes agree in every state, whatever roles are held; that there is *)
(* someone left to hold them is a matter of the administration.            *)
(***************************************************************************)
\* A step of the whole is a step of the access, or leaves it alone.
LEMMA AccessSteps == [SidesNext]_sidesVars => [Access!Next]_Access!vars
BY DEF SidesNext, FilesMove, JournalMoves, DiscussionMoves, AccessMoves, CatalogueMoves,
       sidesVars, accessVars, Access!vars

\* The roles, the charge and the status are what they are declared to be.
LEMMA AccessHolds == SidesSpec => []Access!TypeOK
<1>1. SidesInit => Access!TypeOK
  <2> SUFFICES ASSUME Access!Init  PROVE Access!TypeOK
    BY DEF SidesInit
  <2>1. roles \in [Viewers -> SUBSET Access!RoleCode]
    BY DEF Access!Init, Access!RoleCode
  <2>2. assignee \in Viewers \union {Nobody} /\ final \in BOOLEAN
    BY DEF Access!Init
  <2> QED BY <2>1, <2>2 DEF Access!TypeOK
<1>2. Access!TypeOK /\ [SidesNext]_sidesVars => Access!TypeOK'
  <2> SUFFICES ASSUME Access!TypeOK, [Access!Next]_Access!vars  PROVE Access!TypeOK'
    BY AccessSteps
  <2>1. ASSUME NEW u \in Viewers, NEW role \in Access!RoleCode,
               Access!Grant(u, role) \/ Access!Revoke(u, role)
        PROVE  Access!TypeOK'
    BY <2>1 DEF Access!TypeOK, Access!Grant, Access!Revoke
  <2>2. ASSUME NEW u \in Viewers, Access!Assign(u)
        PROVE  Access!TypeOK'
    BY <2>2 DEF Access!TypeOK, Access!Assign
  <2>3. CASE Access!EndTicket \/ UNCHANGED Access!vars
    BY <2>3 DEF Access!TypeOK, Access!EndTicket, Access!vars
  <2> QED BY <2>1, <2>2, <2>3 DEF Access!Next
<1> QED BY <1>1, <1>2, PTL DEF SidesSpec

\* What the detail offers is what the services grant to whoever can open it.
LEMMA OffersAreGranted ==
  ASSUME NEW u \in Viewers, Access!Opens(u)
  PROVE  /\ "ADD_COMMENT" \in Access!Permissions(u) <=> Access!CommentsOn(u)
         /\ "UPLOAD_ATTACHMENT" \in Access!Permissions(u) <=> Access!Uploads(u)
         /\ {"ADD_COMMENT", "VIEW_INTERNAL_COMMENTS"} \subseteq Access!Permissions(u)
              <=> Access!CommentsInternally(u)
         /\ "VIEW_ATTACHMENTS" \in Access!Permissions(u) <=> Access!Downloads(u, "PUBLIC")
         /\ "VIEW_ASSIGNMENT_HISTORY" \in Access!Permissions(u) <=> Access!ReadsAssignments(u)
         /\ "VIEW_INTERNAL_COMMENTS" \in Access!Permissions(u)
              \/ (u = Requester /\ Access!Has(u, "PROCESSOR")) <=> Access!ReadsInternal(u)
         /\ Access!ReadsInternal(u) <=> Access!Downloads(u, "INTERNAL")
<1> DEFINE handles == Access!IsAdmin(u) \/ Access!IsCurrentProcessor(u)
<1>1. /\ "ADD_COMMENT" \in Access!Permissions(u) <=> ~final
      /\ "UPLOAD_ATTACHMENT" \in Access!Permissions(u) <=> ~final
      /\ "VIEW_INTERNAL_COMMENTS" \in Access!Permissions(u) <=> handles
      /\ "VIEW_ATTACHMENTS" \in Access!Permissions(u)
      /\ "VIEW_ASSIGNMENT_HISTORY" \in Access!Permissions(u) <=> handles
  BY DEF Access!Permissions
<1>2. roles[u] # {} /\ (u = Requester \/ handles)
  BY DEF Access!Opens, Access!IsAdmin, Access!IsCurrentProcessor, Access!Has
<1>3. /\ Access!CommentsOn(u) <=> ~final
      /\ Access!Uploads(u) <=> ~final
      /\ Access!CommentsInternally(u) <=> ~final /\ handles
      /\ Access!Downloads(u, "PUBLIC")
      /\ Access!ReadsAssignments(u) <=> handles
      /\ Access!Downloads(u, "INTERNAL") <=> Access!IsAdmin(u) \/ Access!Has(u, "PROCESSOR")
      /\ Access!ReadsInternal(u) <=> Access!IsAdmin(u) \/ Access!Has(u, "PROCESSOR")
  BY <1>2 DEF Access!Opens, Access!CommentsOn, Access!Uploads, Access!FileScope,
     Access!CommentsInternally, Access!Downloads, Access!ReadsAssignments, Access!ReadsInternal
<1>4. Access!IsAdmin(u) \/ Access!Has(u, "PROCESSOR") <=>
        handles \/ (u = Requester /\ Access!Has(u, "PROCESSOR"))
  BY DEF Access!Opens, Access!IsCurrentProcessor
<1> HIDE DEF handles
<1> QED BY <1>1, <1>3, <1>4

\* The list shows what can be opened, what the detail offers the other services
\* grant, and nobody writes to a ticket he cannot open (list_tickets,
\* get_ticket_detail, _permissions).
THEOREM ScopesStayTheSame == SidesSpec => []ScopesAgree
<1>1. Access!ListedAreOpened
  BY DEF Access!ListedAreOpened, Access!Listed, Access!Opens, Access!IsCurrentProcessor
<1>2. Access!PermissionsAreHonoured
  BY OffersAreGranted DEF Access!PermissionsAreHonoured
<1>3. Access!WritersAreReaders
  BY DEF Access!WritersAreReaders, Access!CommentsOn, Access!CommentsInternally,
     Access!ReadsInternal, Access!Uploads, Access!FileScope, Access!Opens,
     Access!IsCurrentProcessor, Access!IsAdmin
<1>4. ScopesAgree
  BY <1>1, <1>2, <1>3 DEF ScopesAgree
<1> QED BY <1>4, PTL

-----------------------------------------------------------------------------
(***************************************************************************)
(* The catalogue                                                           *)
(*                                                                         *)
(* What a request looked at may be gone by the time it writes; the unique  *)
(* indexes are what keeps names, codes and levels apart.  Priorities are   *)
(* never taken away, so a conflict met by an insert is still there when it *)
(* is explained.                                                           *)
(***************************************************************************)
Creating == [step : {"creating"}, name : Shelf!Name, is_active : BOOLEAN]
Updating == [step : {"updating"}, id : Ids, seen : Shelf!Category, new : Shelf!Category]
Prioritising == [step : {"prioritising", "failed"}, priority : Shelf!Priority]
Refused == [step : {"refused"}, priority : Shelf!Priority,
            code : {"PRIORITY_CODE_CONFLICT", "PRIORITY_LEVEL_CONFLICT"}]

\* An insert that failed, failed for a reason, and an update is of a category there is.
ReasonsRemain ==
  \A r \in Writers :
    /\ editing[r].step = "failed" =>
         Shelf!CodeTaken(editing[r].priority) \/ Shelf!LevelTaken(editing[r].priority)
    /\ editing[r].step = "updating" => editing[r].id \in Shelf!Known

ShelfInv ==
  /\ Shelf!TypeOK
  /\ Shelf!CatalogueIsUnambiguous /\ Shelf!ConflictIsThere
  /\ ReasonsRemain

\* The columns an update is meant to leave alone, it leaves alone.
UpdateKeepsToItsColumns ==
  \A id \in Shelf!Known : \A r \in Writers :
    editing[r].step = "updating" /\ editing[r].id = id /\ editing'[r] = Shelf!Idle =>
      /\ editing[r].new.name = editing[r].seen.name => categories'[id].name = categories[id].name
      /\ editing[r].new.is_active = editing[r].seen.is_active =>
           categories'[id].is_active = categories[id].is_active

\* A step of the whole is a step of the catalogue, or leaves it alone.
LEMMA ShelfSteps == [SidesNext]_sidesVars => [Shelf!Next]_Shelf!vars
BY DEF SidesNext, FilesMove, JournalMoves, DiscussionMoves, AccessMoves, CatalogueMoves,
       sidesVars, catalogueVars, Shelf!vars

\* What a request carries.
LEMMA EditingRow ==
  ASSUME NEW row \in Shelf!Request
  PROVE  /\ row.step = "creating" => row \in Creating
         /\ row.step = "updating" => row \in Updating
         /\ row.step \in {"prioritising", "failed"} => row \in Prioritising
         /\ row.step = "refused" => row \in Refused
BY DEF Shelf!Request, Creating, Updating, Prioritising, Refused, Shelf!Idle

\* A request that moves has its new row; the others keep theirs.
LEMMA EditingMoves ==
  ASSUME Shelf!TypeOK, NEW r \in Writers, NEW row \in Shelf!Request, Shelf!Goto(r, row)
  PROVE  /\ editing' \in [Writers -> Shelf!Request]
         /\ editing'[r] = row
         /\ \A q \in Writers \ {r} : editing'[q] = editing[q]
BY DEF Shelf!TypeOK, Shelf!Goto

\* A request that only looks leaves both tables alone, and has a reason for
\* what it does next.
LEMMA LookingKeepsShelf ==
  ASSUME ShelfInv, NEW r \in Writers, NEW row \in Shelf!Request, Shelf!Goto(r, row),
         UNCHANGED <<categories, priorities>>, editing[r].step # "updating",
         row.step = "failed" => Shelf!CodeTaken(row.priority) \/ Shelf!LevelTaken(row.priority),
         row.step = "updating" => row.id \in Shelf!Known,
         row.step = "refused" =>
           IF row.code = "PRIORITY_CODE_CONFLICT"
             THEN Shelf!CodeTaken(row.priority) ELSE Shelf!LevelTaken(row.priority)
  PROVE  ShelfInv' /\ UpdateKeepsToItsColumns
<1>1. /\ editing' \in [Writers -> Shelf!Request] /\ editing'[r] = row
      /\ \A q \in Writers \ {r} : editing'[q] = editing[q]
  BY EditingMoves DEF ShelfInv
<1>2. Shelf!TypeOK' /\ Shelf!CatalogueIsUnambiguous'
  BY <1>1 DEF ShelfInv, Shelf!TypeOK, Shelf!Known, Shelf!CatalogueIsUnambiguous, Shelf!Lower
<1>3. Shelf!ConflictIsThere'
  BY <1>1 DEF ShelfInv, Shelf!ConflictIsThere, Shelf!CodeTaken, Shelf!LevelTaken
<1>4. ReasonsRemain'
  BY <1>1 DEF ShelfInv, ReasonsRemain, Shelf!Known, Shelf!CodeTaken, Shelf!LevelTaken
<1> QED BY <1>1, <1>2, <1>3, <1>4 DEF ShelfInv, UpdateKeepsToItsColumns

\* A row of categories that collides with no other is written.
LEMMA CategoryWritten ==
  ASSUME ShelfInv, NEW r \in Writers, Shelf!Goto(r, Shelf!Idle), UNCHANGED priorities,
         NEW id \in Ids, NEW row \in Shelf!Category,
         DOMAIN categories' = Shelf!Known \union {id}, categories'[id] = row,
         \A i \in Shelf!Known \ {id} : categories'[i] = categories[i],
         ~Shelf!Collides(row.name, Shelf!Known \ {id})
  PROVE  ShelfInv'
<1>1. Shelf!Idle \in Shelf!Request /\ Shelf!Idle.step = "idle"
  BY DEF Shelf!Request, Shelf!Idle
<1>2. /\ editing' \in [Writers -> Shelf!Request] /\ editing'[r] = Shelf!Idle
      /\ \A q \in Writers \ {r} : editing'[q] = editing[q]
  BY <1>1, EditingMoves DEF ShelfInv
<1>3. Shelf!TypeOK'
  BY <1>2 DEF ShelfInv, Shelf!TypeOK, Shelf!Known
<1>4. Shelf!CatalogueIsUnambiguous'
  BY DEF ShelfInv, Shelf!CatalogueIsUnambiguous, Shelf!Known, Shelf!Collides, Shelf!Lower
<1>5. Shelf!ConflictIsThere' /\ ReasonsRemain'
  BY <1>1, <1>2 DEF ShelfInv, Shelf!ConflictIsThere, ReasonsRemain, Shelf!Known,
     Shelf!CodeTaken, Shelf!LevelTaken
<1> QED BY <1>3, <1>4, <1>5 DEF ShelfInv

\* Or nothing is, and the request ends.
LEMMA CategoryRefused ==
  ASSUME ShelfInv, NEW r \in Writers, Shelf!Goto(r, Shelf!Idle),
         UNCHANGED <<categories, priorities>>
  PROVE  ShelfInv'
<1>1. Shelf!Idle \in Shelf!Request /\ Shelf!Idle.step = "idle"
  BY DEF Shelf!Request, Shelf!Idle
<1>2. /\ editing' \in [Writers -> Shelf!Request] /\ editing'[r] = Shelf!Idle
      /\ \A q \in Writers \ {r} : editing'[q] = editing[q]
  BY <1>1, EditingMoves DEF ShelfInv
<1>3. Shelf!TypeOK' /\ Shelf!CatalogueIsUnambiguous'
  BY <1>2 DEF ShelfInv, Shelf!TypeOK, Shelf!Known, Shelf!CatalogueIsUnambiguous, Shelf!Lower
<1>4. Shelf!ConflictIsThere' /\ ReasonsRemain'
  BY <1>1, <1>2 DEF ShelfInv, Shelf!ConflictIsThere, ReasonsRemain, Shelf!Known,
     Shelf!CodeTaken, Shelf!LevelTaken
<1> QED BY <1>3, <1>4 DEF ShelfInv

\* A creation that collides is refused by the index.
LEMMA InsertKeepsShelf ==
  ASSUME ShelfInv, NEW r \in Writers, Shelf!InsertCategory(r)
  PROVE  ShelfInv' /\ UpdateKeepsToItsColumns
<1> DEFINE row == [name |-> editing[r].name, is_active |-> editing[r].is_active]
<1>1. editing[r] \in Creating
  BY EditingRow DEF ShelfInv, Shelf!TypeOK, Shelf!InsertCategory
<1>2. row \in Shelf!Category
  BY <1>1 DEF Creating, Shelf!Category
<1>3. UpdateKeepsToItsColumns
  <2>1. \A q \in Writers \ {r} : editing'[q] = editing[q]
    BY DEF ShelfInv, Shelf!TypeOK, Shelf!InsertCategory, Shelf!Goto
  <2>2. editing[r].step = "creating" /\ Shelf!Idle.step = "idle"
    BY DEF Shelf!InsertCategory, Shelf!Idle
  <2> QED BY <2>1, <2>2 DEF UpdateKeepsToItsColumns
<1>4. CASE Shelf!Collides(editing[r].name, Shelf!Known)
  BY <1>3, <1>4, CategoryRefused DEF Shelf!InsertCategory
<1>5. CASE ~Shelf!Collides(editing[r].name, Shelf!Known)
  <2>1. PICK id \in Ids \ Shelf!Known :
          categories' = [i \in Shelf!Known \union {id} |-> IF i = id THEN row ELSE categories[i]]
    BY <1>5 DEF Shelf!InsertCategory
  <2>2. /\ DOMAIN categories' = Shelf!Known \union {id} /\ categories'[id] = row
        /\ \A i \in Shelf!Known \ {id} : categories'[i] = categories[i]
        /\ Shelf!Known \ {id} = Shelf!Known
    BY <2>1
  <2> QED BY <1>2, <1>3, <1>5, <2>2, CategoryWritten DEF Shelf!InsertCategory
<1> QED BY <1>4, <1>5

\* An update writes the columns it changed, unless the index refuses its name.
LEMMA UpdateKeepsShelf ==
  ASSUME ShelfInv, NEW r \in Writers, Shelf!CommitUpdate(r)
  PROVE  ShelfInv' /\ UpdateKeepsToItsColumns
<1> DEFINE id   == editing[r].id
           seen == editing[r].seen
           new  == editing[r].new
           row  == Shelf!Written(categories[id], seen, new)
<1>1. editing[r] \in Updating
  BY EditingRow DEF ShelfInv, Shelf!TypeOK, Shelf!CommitUpdate
<1>2. id \in Ids /\ id \in Shelf!Known /\ seen \in Shelf!Category /\ new \in Shelf!Category
  BY <1>1 DEF Updating, ShelfInv, ReasonsRemain, Shelf!CommitUpdate
<1>3. categories[id] \in Shelf!Category
  BY <1>2 DEF ShelfInv, Shelf!TypeOK
<1>4. row \in Shelf!Category
  BY <1>2, <1>3 DEF Shelf!Written, Shelf!Category
<1>5. /\ new.name = seen.name => row.name = categories[id].name
      /\ new.is_active = seen.is_active => row.is_active = categories[id].is_active
  BY DEF Shelf!Written
<1>6. /\ Shelf!Goto(r, Shelf!Idle) /\ UNCHANGED priorities
      /\ categories' = IF Shelf!Collides(row.name, Shelf!Known \ {id})
                         THEN categories ELSE [categories EXCEPT ![id] = row]
  BY DEF Shelf!CommitUpdate
<1>7. Shelf!Known = DOMAIN categories
  BY DEF Shelf!Known
<1> HIDE DEF row, seen, new
<1>8. categories'[id] = categories[id] \/ categories'[id] = row
  BY <1>2, <1>6, <1>7
<1>9. UpdateKeepsToItsColumns
  <2>1. \A q \in Writers \ {r} : editing'[q] = editing[q]
    BY <1>6 DEF ShelfInv, Shelf!TypeOK, Shelf!Goto
  <2>2. \A q \in Writers \ {r} : editing[q].step = "updating" => editing'[q] # Shelf!Idle
    BY <2>1 DEF Shelf!Idle
  <2> QED BY <1>5, <1>8, <2>2 DEF UpdateKeepsToItsColumns, seen, new
<1>10. CASE Shelf!Collides(row.name, Shelf!Known \ {id})
  BY <1>6, <1>9, <1>10, CategoryRefused
<1>11. CASE ~Shelf!Collides(row.name, Shelf!Known \ {id})
  <2>1. /\ DOMAIN categories' = Shelf!Known \union {id} /\ categories'[id] = row
        /\ \A i \in Shelf!Known \ {id} : categories'[i] = categories[i]
    BY <1>2, <1>6, <1>7, <1>11
  <2> HIDE DEF id
  <2> QED BY <1>2, <1>4, <1>6, <1>9, <1>11, <2>1, CategoryWritten
<1> QED BY <1>10, <1>11

\* A priority whose code and level are free.
LEMMA PriorityKeepsShelf ==
  ASSUME ShelfInv, NEW r \in Writers, Shelf!InsertPriority(r)
  PROVE  ShelfInv' /\ UpdateKeepsToItsColumns
<1> DEFINE p == editing[r].priority
<1>1. editing[r] \in Prioritising
  BY EditingRow DEF ShelfInv, Shelf!TypeOK, Shelf!InsertPriority
<1>2. p \in Shelf!Priority /\ editing[r].step = "prioritising" /\ categories' = categories
  BY <1>1 DEF Prioritising, Shelf!InsertPriority
<1>3. CASE Shelf!CodeTaken(p) \/ Shelf!LevelTaken(p)
  <2> DEFINE row == [step |-> "failed", priority |-> p]
  <2>1. row \in Shelf!Request
    BY <1>2 DEF Shelf!Request
  <2>2. Shelf!Goto(r, row) /\ UNCHANGED priorities
    BY <1>3 DEF Shelf!InsertPriority
  <2>3. row.step = "failed" /\ row.priority = p
    OBVIOUS
  <2> HIDE DEF row
  <2> QED BY <1>2, <1>3, <2>1, <2>2, <2>3, LookingKeepsShelf
<1>4. CASE ~(Shelf!CodeTaken(p) \/ Shelf!LevelTaken(p))
  <2>1. priorities' = priorities \union {p} /\ Shelf!Goto(r, Shelf!Idle)
    BY <1>4 DEF Shelf!InsertPriority
  <2>2. Shelf!Idle \in Shelf!Request /\ Shelf!Idle.step = "idle"
    BY DEF Shelf!Request, Shelf!Idle
  <2>3. /\ editing' \in [Writers -> Shelf!Request] /\ editing'[r] = Shelf!Idle
        /\ \A q \in Writers \ {r} : editing'[q] = editing[q]
    BY <2>1, <2>2, EditingMoves DEF ShelfInv
  <2>4. Shelf!TypeOK'
    BY <1>2, <2>1, <2>3 DEF ShelfInv, Shelf!TypeOK, Shelf!Known
  <2>5. Shelf!CatalogueIsUnambiguous'
    BY <1>2, <1>4, <2>1 DEF ShelfInv, Shelf!CatalogueIsUnambiguous, Shelf!Known, Shelf!Lower,
       Shelf!CodeTaken, Shelf!LevelTaken
  <2>6. Shelf!ConflictIsThere' /\ ReasonsRemain'
    BY <1>2, <2>1, <2>2, <2>3 DEF ShelfInv, Shelf!ConflictIsThere, ReasonsRemain, Shelf!Known,
       Shelf!CodeTaken, Shelf!LevelTaken
  <2> QED BY <1>2, <2>3, <2>4, <2>5, <2>6 DEF ShelfInv, UpdateKeepsToItsColumns
<1> QED BY <1>3, <1>4

\* Every step of the catalogue.
LEMMA ShelfStays ==
  ASSUME ShelfInv, Shelf!Next
  PROVE  ShelfInv' /\ UpdateKeepsToItsColumns
<1>1. PICK r \in Writers :
        \/ \E name \in Shelf!Name, active \in BOOLEAN : Shelf!CheckCreate(r, name, active)
        \/ Shelf!InsertCategory(r)
        \/ \E id \in Shelf!Known, new \in Shelf!Category : Shelf!CheckUpdate(r, id, new)
        \/ Shelf!CommitUpdate(r)
        \/ \E p \in Shelf!Priority : Shelf!CheckPriority(r, p)
        \/ Shelf!InsertPriority(r) \/ Shelf!Explain(r) \/ Shelf!Leave(r)
  BY DEF Shelf!Next
<1>2. editing[r] = Shelf!Idle => editing[r].step = "idle"
  BY DEF Shelf!Idle
<1>3. ASSUME NEW name \in Shelf!Name, NEW active \in BOOLEAN, Shelf!CheckCreate(r, name, active)
      PROVE  ShelfInv' /\ UpdateKeepsToItsColumns
  <2> DEFINE row == [step |-> "creating", name |-> name, is_active |-> active]
  <2>1. row \in Shelf!Request /\ row.step = "creating"
    BY DEF Shelf!Request
  <2>2. Shelf!Goto(r, row) /\ UNCHANGED <<categories, priorities>> /\ editing[r] = Shelf!Idle
    BY <1>3 DEF Shelf!CheckCreate
  <2> HIDE DEF row
  <2> QED BY <1>2, <2>1, <2>2, LookingKeepsShelf
<1>4. ASSUME NEW id \in Shelf!Known, NEW new \in Shelf!Category, Shelf!CheckUpdate(r, id, new)
      PROVE  ShelfInv' /\ UpdateKeepsToItsColumns
  <2> DEFINE row == [step |-> "updating", id |-> id, seen |-> categories[id], new |-> new]
  <2>1. id \in Ids /\ categories[id] \in Shelf!Category
    BY DEF ShelfInv, Shelf!TypeOK
  <2>2. row \in Shelf!Request /\ row.step = "updating" /\ row.id = id
    BY <2>1 DEF Shelf!Request
  <2>3. Shelf!Goto(r, row) /\ UNCHANGED <<categories, priorities>> /\ editing[r] = Shelf!Idle
    BY <1>4 DEF Shelf!CheckUpdate
  <2> HIDE DEF row
  <2> QED BY <1>2, <2>2, <2>3, LookingKeepsShelf
<1>5. ASSUME NEW p \in Shelf!Priority, Shelf!CheckPriority(r, p)
      PROVE  ShelfInv' /\ UpdateKeepsToItsColumns
  <2> DEFINE row == [step |-> "prioritising", priority |-> p]
  <2>1. row \in Shelf!Request /\ row.step = "prioritising"
    BY DEF Shelf!Request
  <2>2. Shelf!Goto(r, row) /\ UNCHANGED <<categories, priorities>> /\ editing[r] = Shelf!Idle
    BY <1>5 DEF Shelf!CheckPriority
  <2> HIDE DEF row
  <2> QED BY <1>2, <2>1, <2>2, LookingKeepsShelf
<1>6. ASSUME Shelf!Explain(r)
      PROVE  ShelfInv' /\ UpdateKeepsToItsColumns
  <2> DEFINE p == editing[r].priority
             told == IF Shelf!CodeTaken(p)
                       THEN "PRIORITY_CODE_CONFLICT" ELSE "PRIORITY_LEVEL_CONFLICT"
             row == [step |-> "refused", priority |-> p, code |-> told]
  <2>1. editing[r] \in Prioritising /\ editing[r].step = "failed"
    BY <1>6, EditingRow DEF ShelfInv, Shelf!TypeOK, Shelf!Explain
  <2>2. p \in Shelf!Priority /\ (Shelf!CodeTaken(p) \/ Shelf!LevelTaken(p))
    BY <2>1 DEF Prioritising, ShelfInv, ReasonsRemain
  <2>3. /\ row \in Shelf!Request /\ row.step = "refused" /\ row.priority = p /\ row.code = told
        /\ Shelf!Goto(r, row) /\ UNCHANGED <<categories, priorities>>
    BY <1>6, <2>2 DEF Shelf!Request, Shelf!Explain
  <2>4. IF row.code = "PRIORITY_CODE_CONFLICT"
          THEN Shelf!CodeTaken(row.priority) ELSE Shelf!LevelTaken(row.priority)
    BY <2>2, <2>3
  <2> HIDE DEF row
  <2> QED BY <2>1, <2>3, <2>4, LookingKeepsShelf
<1>7. ASSUME Shelf!Leave(r)
      PROVE  ShelfInv' /\ UpdateKeepsToItsColumns
  <2>1. Shelf!Idle \in Shelf!Request /\ Shelf!Idle.step = "idle"
    BY DEF Shelf!Request, Shelf!Idle
  <2> QED BY <1>7, <2>1, LookingKeepsShelf DEF Shelf!Leave
<1> QED BY <1>1, <1>3, <1>4, <1>5, <1>6, <1>7, InsertKeepsShelf, UpdateKeepsShelf,
           PriorityKeepsShelf

\* The invariant of the catalogue, and the columns an update writes.
LEMMA ShelfHolds == SidesSpec => []ShelfInv /\ Shelf!UpdatesKeepToTheirColumns
<1>1. SidesInit => ShelfInv
  <2> SUFFICES ASSUME Shelf!Init  PROVE ShelfInv
    BY DEF SidesInit
  <2>1. /\ Shelf!Known = {} /\ priorities = {}
        /\ \A r \in Writers : editing[r] = Shelf!Idle /\ editing[r].step = "idle"
    BY DEF Shelf!Init, Shelf!Known, Shelf!Idle
  <2>2. Shelf!TypeOK
    BY <2>1 DEF Shelf!Init, Shelf!TypeOK, Shelf!Request
  <2> QED BY <2>1, <2>2 DEF ShelfInv, Shelf!CatalogueIsUnambiguous, Shelf!ConflictIsThere,
             ReasonsRemain
<1>2. ShelfInv /\ [SidesNext]_sidesVars => ShelfInv'
  <2> SUFFICES ASSUME ShelfInv, UNCHANGED Shelf!vars  PROVE ShelfInv'
    BY ShelfSteps, ShelfStays
  <2> QED BY DEF Shelf!vars, ShelfInv, Shelf!TypeOK, Shelf!Known, Shelf!CatalogueIsUnambiguous,
             Shelf!ConflictIsThere, ReasonsRemain, Shelf!CodeTaken, Shelf!LevelTaken, Shelf!Lower
<1>3. ShelfInv /\ [SidesNext]_sidesVars => [UpdateKeepsToItsColumns]_Shelf!vars
  BY ShelfSteps, ShelfStays
<1>4. []ShelfInv /\ [][SidesNext]_sidesVars => Shelf!UpdatesKeepToTheirColumns
  BY <1>3, PTL DEF Shelf!UpdatesKeepToTheirColumns, UpdateKeepsToItsColumns
<1> QED BY <1>1, <1>2, <1>4, PTL DEF SidesSpec

\* However creations and renamings overlap, names, codes and levels stay
\* unambiguous, the conflict an administrator is told of is there
\* (create_priority), and an update overwrites only its columns
\* (update_category).
THEOREM CatalogueStaysSound == SidesSpec => CatalogueIsSound
<1>1. ShelfInv => Shelf!CatalogueIsUnambiguous /\ Shelf!ConflictIsThere
  BY DEF ShelfInv
<1> QED BY <1>1, ShelfHolds, PTL DEF CatalogueIsSound

-----------------------------------------------------------------------------
(***************************************************************************)
(* All five parts                                                          *)
(***************************************************************************)
\* The rows, files and local states of all five parts are what their modules say.
THEOREM SidesTyped == SidesSpec => []SidesTypeOK
<1>1. JournalInv => Journal!TypeOK
  BY DEF JournalInv
<1>2. TalkInv => Talk!TypeOK
  BY DEF TalkInv
<1>3. ShelfInv => Shelf!TypeOK
  BY DEF ShelfInv
<1> QED BY <1>1, <1>2, <1>3, AttachmentsAreAttachments, TypeCorrect, JournalHolds, TalkHolds,
           AccessHolds, ShelfHolds, PTL DEF SidesTypeOK
=============================================================================
