------------------------------ MODULE Catalogue -----------------------------
(***************************************************************************)
(* Categories and priorities (catalog_service.py), kept by administrators  *)
(* who do not know of one another.                                         *)
(*                                                                         *)
(* Every request looks first and writes later.  What keeps the catalogue   *)
(* unambiguous in between are the unique indexes of the database, on the   *)
(* lower-case name of a category, on the code and on the level of a        *)
(* priority.  Descriptions and the names of priorities are left out.       *)
(***************************************************************************)
EXTENDS Integers, FiniteSets

CONSTANTS
  Words,       \* names that differ in more than their case
  Ids,         \* of categories; bounds how many there are
  Codes,       \* of priorities
  Levels,      \* priority_level
  Requests     \* requests under way at the same time

Name == [word : Words, caps : BOOLEAN]
Lower(name) == name.word

VARIABLES
  categories,  \* the rows, by category_id, of those there are
  priorities,
  request

vars == <<categories, priorities, request>>

Category == [name : Name, is_active : BOOLEAN]
Priority == [code : Codes, level : Levels]
Idle == [step |-> "idle"]
Known == DOMAIN categories

Request ==
  {Idle}
    \union [step : {"creating"}, name : Name, is_active : BOOLEAN]
    \union [step : {"updating"}, id : Ids, seen : Category, new : Category]
    \union [step : {"prioritising", "failed"}, priority : Priority]
    \union [step : {"refused"}, priority : Priority,
            code : {"PRIORITY_CODE_CONFLICT", "PRIORITY_LEVEL_CONFLICT"}]

TypeOK ==
  /\ Known \in SUBSET Ids /\ \A id \in Known : categories[id] \in Category
  /\ priorities \in SUBSET Priority
  /\ request \in [Requests -> Request]

Init ==
  /\ categories = [id \in {} |-> id]
  /\ priorities = {}
  /\ request = [r \in Requests |-> Idle]

Goto(r, next) == request' = [request EXCEPT ![r] = next]

-----------------------------------------------------------------------------
(* Categories *)

\* get_category_by_name: the first look, by the lower-case name.
Namesakes(name, others) == {id \in others : Lower(categories[id].name) = Lower(name)}

\* Variant: the index is on the name as it is written.
CollidesAsWritten(name, others) == \E id \in others : categories[id].name = name

\* The unique index on lower(category_name).
Collides(name, others) == \E id \in others : Lower(categories[id].name) = Lower(name)

\* create_category up to the insert.
CheckCreate(r, name, active) ==
  /\ request[r] = Idle
  /\ Cardinality(Known) + Cardinality({q \in Requests : request[q].step = "creating"})
       < Cardinality(Ids)
  /\ Namesakes(name, Known) = {}
  /\ Goto(r, [step |-> "creating", name |-> name, is_active |-> active])
  /\ UNCHANGED <<categories, priorities>>

\* The insert and the commit, or CATEGORY_NAME_CONFLICT.
InsertCategory(r) ==
  /\ request[r].step = "creating"
  /\ IF Collides(request[r].name, Known)
       THEN UNCHANGED categories
       ELSE \E id \in Ids \ Known :
              categories' = [i \in Known \union {id} |->
                IF i = id THEN [name |-> request[r].name, is_active |-> request[r].is_active]
                          ELSE categories[i]]
  /\ Goto(r, Idle)
  /\ UNCHANGED priorities

\* update_category up to the commit; what is left as it was seen is not sent.
CheckUpdate(r, id, new) ==
  /\ request[r] = Idle
  /\ new # categories[id]
  /\ new.name # categories[id].name => Namesakes(new.name, Known) \subseteq {id}
  /\ Goto(r, [step |-> "updating", id |-> id, seen |-> categories[id], new |-> new])
  /\ UNCHANGED <<categories, priorities>>

\* Variant: every column is written.
WrittenWhole(row, seen, new) == new

\* The columns that differ from what was loaded.
Written(row, seen, new) ==
  [name |-> IF new.name = seen.name THEN row.name ELSE new.name,
   is_active |-> IF new.is_active = seen.is_active THEN row.is_active ELSE new.is_active]

CommitUpdate(r) ==
  /\ request[r].step = "updating"
  /\ LET id == request[r].id
         row == Written(categories[id], request[r].seen, request[r].new) IN
       categories' = IF Collides(row.name, Known \ {id})
                       THEN categories ELSE [categories EXCEPT ![id] = row]
  /\ Goto(r, Idle)
  /\ UNCHANGED priorities

-----------------------------------------------------------------------------
(* Priorities *)

CodeTaken(p) == \E q \in priorities : q.code = p.code
LevelTaken(p) == \E q \in priorities : q.level = p.level

\* create_priority up to the insert: neither code nor level is in use.
CheckPriority(r, p) ==
  /\ request[r] = Idle
  /\ ~CodeTaken(p) /\ ~LevelTaken(p)
  /\ Goto(r, [step |-> "prioritising", priority |-> p])
  /\ UNCHANGED <<categories, priorities>>

InsertPriority(r) ==
  /\ request[r].step = "prioritising"
  /\ LET p == request[r].priority IN
       IF CodeTaken(p) \/ LevelTaken(p)
         THEN Goto(r, [step |-> "failed", priority |-> p]) /\ UNCHANGED priorities
         ELSE Goto(r, Idle) /\ priorities' = priorities \union {p}
  /\ UNCHANGED categories

\* Variant: the error is taken for one of the level.
ExplainByLevel(r) ==
  /\ request[r].step = "failed"
  /\ Goto(r, [step |-> "refused", priority |-> request[r].priority,
              code |-> "PRIORITY_LEVEL_CONFLICT"])
  /\ UNCHANGED <<categories, priorities>>

\* IntegrityError: rolled back; a second look for the code names the conflict.
Explain(r) ==
  /\ request[r].step = "failed"
  /\ Goto(r, [step |-> "refused", priority |-> request[r].priority,
              code |-> IF CodeTaken(request[r].priority)
                         THEN "PRIORITY_CODE_CONFLICT" ELSE "PRIORITY_LEVEL_CONFLICT"])
  /\ UNCHANGED <<categories, priorities>>

Leave(r) ==
  /\ request[r].step = "refused"
  /\ Goto(r, Idle)
  /\ UNCHANGED <<categories, priorities>>

Next ==
  \E r \in Requests :
    \/ \E name \in Name, active \in BOOLEAN : CheckCreate(r, name, active)
    \/ InsertCategory(r)
    \/ \E id \in Known, new \in Category : CheckUpdate(r, id, new)
    \/ CommitUpdate(r)
    \/ \E p \in Priority : CheckPriority(r, p)
    \/ InsertPriority(r) \/ Explain(r) \/ Leave(r)

Spec == Init /\ [][Next]_vars

-----------------------------------------------------------------------------
\* No two categories have names that differ in their case only, no two
\* priorities share a code or a level, however creations and renamings overlap.
CatalogueIsUnambiguous ==
  /\ \A i, j \in Known : Lower(categories[i].name) = Lower(categories[j].name) => i = j
  /\ \A p, q \in priorities : p.code = q.code \/ p.level = q.level => p = q

\* Who renames a category does not switch it on or off, and the reverse, even
\* when the row changed since it was loaded (update_category).
UpdatesKeepToTheirColumns ==
  [][\A id \in Known : \A r \in Requests :
       request[r].step = "updating" /\ request[r].id = id /\ request'[r] = Idle =>
         /\ request[r].new.name = request[r].seen.name => categories'[id].name = categories[id].name
         /\ request[r].new.is_active = request[r].seen.is_active =>
              categories'[id].is_active = categories[id].is_active]_vars

\* The conflict an administrator is told of is there (create_priority).
ConflictIsThere ==
  \A r \in Requests : request[r].step = "refused" =>
    IF request[r].code = "PRIORITY_CODE_CONFLICT"
      THEN CodeTaken(request[r].priority) ELSE LevelTaken(request[r].priority)
=============================================================================
