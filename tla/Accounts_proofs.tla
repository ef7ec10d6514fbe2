--------------------------- MODULE Accounts_proofs ---------------------------
(***************************************************************************)
(* Proofs about an account, for any number of accounts, families, token    *)
(* pairs, logins and requests that overlap or die: first its sessions      *)
(* (AuthSessions), then the throttle on its logins, its administration and *)
(* its inbox.  What is proved of the sessions holds of the whole, because  *)
(* the other parts leave them alone.                                       *)
(*                                                                         *)
(* A family is opened by the only request that works on it, so its first   *)
(* session is its only one; later ones replace an active session of the    *)
(* family, which the WATCH guarantees.  Hence one active session at most.  *)
(***************************************************************************)
EXTENDS Accounts, FiniteSetTheorems, TLAPS

RequestRow == [step : Step, pair : Pairs \union {NoPair}, access : Pairs \union {NoPair},
               family : Families \union {<<>>}, members : SUBSET Pairs, conflicts : 0..3]

\* What a request holds fits the sessions s in the store: the pair it was sent
\* and the members it has read belong to its family, a family that is being
\* opened has no session yet, a rotation has tries left, and
\* there is an access token to block.
Fits(s, row) ==
  /\ row.step \notin {"idle", "creating"} =>
       row.pair \in Pairs /\ row.family \in Families /\ s[row.pair].family = row.family
  /\ row.step = "creating" =>
       row.family \in Families /\ \A p \in Pairs : s[p].family # row.family
  /\ row.step = "revoking" => \A p \in row.members : s[p].family = row.family
  /\ row.step = "rotating" => row.conflicts < 3
  /\ row.step = "blocking" => row.access \in Pairs

RequestsFit == \A r \in Requests : Fits(session, request[r])

OpensAlone ==
  \A r, q \in Requests :
    r # q /\ request[r].step = "creating" => request[q].family # request[r].family

SessionInv == TypeOK /\ RequestsFit /\ OpensAlone /\ OneActivePerFamily

-----------------------------------------------------------------------------
\* A family is not the empty tuple, which an absent session has in its place.
LEMMA NoFamily == <<>> \notin Families
BY DEF Families

\* A hash exists exactly when it names a family.
LEMMA SessionRows ==
  ASSUME NEW s \in [Pairs -> Session], NEW p \in Pairs
  PROVE  /\ s[p].family \in Families <=> s[p].status # "absent"
         /\ s[p].status = "absent" => s[p].family = <<>>
         /\ s[p].status \in Status
BY NoFamily DEF Session, Absent, Status

\* Request r goes on with this row; the others stay where they are.
Becomes(r, row) ==
  /\ row \in RequestRow
  /\ request' \in [Requests -> RequestRow]
  /\ request'[r] = row
  /\ \A q \in Requests : q # r => request'[q] = request[q]

\* What a step that moves request r does to the local states.
LEMMA RequestsMove ==
  ASSUME TypeOK, NEW r \in Requests
  PROVE  /\ request[r] \in RequestRow
         /\ \A row \in RequestRow : request' = [request EXCEPT ![r] = row] => Becomes(r, row)
         /\ Finish(r) => Becomes(r, Idle)
         /\ \A st \in Step : Goto(r, st) => Becomes(r, [request[r] EXCEPT !.step = st])
<1>1. request \in [Requests -> RequestRow]
  BY DEF TypeOK, RequestRow
<1>2. Idle \in RequestRow
  BY DEF Idle, Begun, RequestRow, Step
<1>3. ASSUME NEW row \in RequestRow, request' = [request EXCEPT ![r] = row]
      PROVE  Becomes(r, row)
  BY <1>1, <1>3 DEF Becomes
<1>4. ASSUME NEW st \in Step, Goto(r, st)
      PROVE  Becomes(r, [request[r] EXCEPT !.step = st])
  <2>1. request' = [request EXCEPT ![r] = [request[r] EXCEPT !.step = st]]
    BY <1>1, <1>4 DEF Goto
  <2>2. [request[r] EXCEPT !.step = st] \in RequestRow
    BY <1>1 DEF RequestRow
  <2> QED BY <1>3, <2>1, <2>2
<1> QED BY <1>1, <1>2, <1>3, <1>4 DEF Finish

\* The places a request can be at.
LEMMA StepNames ==
  {"idle", "creating", "loading", "watching", "rotating", "listing", "revoking", "blocking"}
    \subseteq Step
BY DEF Step

\* What a request holds when it starts.
LEMMA NewRows ==
  ASSUME NEW f \in Families, NEW p \in Pairs \union {NoPair},
         NEW a \in Pairs \union {NoPair}, NEW st \in Step
  PROVE  /\ Begun(st, p, a, f) \in RequestRow
         /\ Begun(st, p, a, f).step = st
         /\ Begun(st, p, a, f).pair = p
         /\ Begun(st, p, a, f).family = f
BY DEF Begun, RequestRow

\* A step that leaves the store alone keeps the invariant when the new row fits
\* and is not of a family that is being opened.
LEMMA StoreAlone ==
  ASSUME SessionInv, NEW r \in Requests, NEW row, Becomes(r, row),
         UNCHANGED <<active, session>>, revoked' \subseteq Pairs, Fits(session, row),
         \A q \in Requests : q # r =>
           /\ request[q].step = "creating" => row.family # request[q].family
           /\ row.step = "creating" => request[q].family # row.family
  PROVE  SessionInv'
<1>1. TypeOK'
  BY DEF SessionInv, TypeOK, Becomes, RequestRow
<1>2. RequestsFit'
  BY DEF SessionInv, RequestsFit, Becomes
<1>3. OpensAlone'
  BY DEF SessionInv, OpensAlone, Becomes
<1>4. OneActivePerFamily'
  BY DEF SessionInv, OneActivePerFamily, IsActive
<1> QED BY <1>1, <1>2, <1>3, <1>4 DEF SessionInv

-----------------------------------------------------------------------------
\* The steps of a request that only read the store.
LEMMA ReadsKeepInv ==
  ASSUME SessionInv, NEW r \in Requests,
         \/ \E f \in Families : Login(r, f)
         \/ \E p \in Pairs : Refresh(r, p)
         \/ \E a, p \in Pairs : Logout(r, a, p)
         \/ LoadUser(r) \/ Watch(r) \/ Conflict(r) \/ ListMembers(r)
         \/ BlockAccess(r) \/ Die(r)
  PROVE  SessionInv'
<1>0. /\ TypeOK /\ revoked \subseteq Pairs
      /\ \A q \in Requests : Fits(session, request[q])
      /\ request[r] \in RequestRow
  BY RequestsMove DEF SessionInv, TypeOK, RequestsFit
<1>1. ASSUME NEW f \in Families, Login(r, f)
      PROVE  SessionInv'
  <2> DEFINE row == Begun("creating", NoPair, NoPair, f)
  <2>1. row \in RequestRow /\ row.step = "creating" /\ row.family = f
    <3>1. "creating" \in Step /\ NoPair \in Pairs \union {NoPair}
      BY StepNames
    <3> QED BY <3>1, NewRows DEF row
  <2>2. request' = [request EXCEPT ![r] = row]
    BY <1>1 DEF Login
  <2> HIDE DEF row
  <2>3. Becomes(r, row)
    BY <1>0, <2>1, <2>2, RequestsMove
  <2>4. \A p \in Pairs : session[p].family # f
    BY <1>1 DEF Login, Members
  <2>5. Fits(session, row)
    BY <2>1, <2>4 DEF Fits
  <2>6. \A q \in Requests : q # r => request[q].family # f
    BY <1>1 DEF Login
  <2> QED BY <1>0, <1>1, <2>1, <2>3, <2>5, <2>6, StoreAlone DEF Login
<1>2. ASSUME NEW st \in {"loading", "listing"}, NEW p \in Pairs,
             NEW a \in Pairs \union {NoPair}, NEW f \in Families, session[p].family = f,
             request' = [request EXCEPT ![r] = Begun(st, p, a, f)],
             UNCHANGED <<active, session, revoked>>
      PROVE  SessionInv'
  <2> DEFINE row == Begun(st, p, a, f)
  <2>1. st \in Step /\ p \in Pairs \union {NoPair}
    BY StepNames
  <2>2. row \in RequestRow /\ row.step = st /\ row.pair = p /\ row.family = f
    BY <2>1, NewRows DEF row
  <2>3. Becomes(r, row)
    BY <1>0, <1>2, <2>2, RequestsMove DEF row
  <2> HIDE DEF row
  <2>4. Fits(session, row)
    BY <1>2, <2>2 DEF Fits
  <2>5. \A q \in Requests : request[q].step = "creating" => row.family # request[q].family
    BY <1>0, <1>2, <2>2 DEF Fits
  <2> QED BY <1>0, <1>2, <2>2, <2>3, <2>4, <2>5, StoreAlone
<1>3. ASSUME NEW p \in Pairs, Refresh(r, p)
      PROVE  SessionInv'
  <2>1. session[p].family \in Families
    BY <1>0, <1>3, SessionRows DEF Refresh, Issued, TypeOK
  <2>2. CASE IsActive(p)
    BY <1>2, <1>3, <2>1, <2>2 DEF Refresh
  <2>3. CASE ~IsActive(p)
    BY <1>2, <1>3, <2>1, <2>3 DEF Refresh
  <2> QED BY <2>2, <2>3
<1>4. ASSUME NEW a \in Pairs, NEW p \in Pairs, Logout(r, a, p)
      PROVE  SessionInv'
  <2>1. session[p].family \in Families
    BY <1>0, <1>4, SessionRows DEF Logout, Issued, TypeOK
  <2> QED BY <1>2, <1>4, <2>1 DEF Logout
<1>5. ASSUME NEW st \in {"watching", "rotating", "listing"}, Goto(r, st),
             st = "rotating" => request[r].conflicts < 3,
             request[r].step \in {"loading", "watching"},
             UNCHANGED <<active, session, revoked>>
      PROVE  SessionInv'
  <2> DEFINE row == [request[r] EXCEPT !.step = st]
  <2>1. Becomes(r, row)
    BY <1>0, <1>5, RequestsMove, StepNames
  <2>2. row.step = st /\ row.pair = request[r].pair /\ row.family = request[r].family
        /\ row.conflicts = request[r].conflicts
    BY <1>0 DEF RequestRow
  <2>3. Fits(session, row)
    BY <1>0, <1>5, <2>2 DEF Fits
  <2>4. \A q \in Requests : q # r /\ request[q].step = "creating"
          => row.family # request[q].family
    BY <2>2 DEF SessionInv, OpensAlone
  <2>5. st # "creating" /\ revoked' \subseteq Pairs /\ UNCHANGED <<active, session>>
    BY <1>0, <1>5, RequestsMove
  <2> HIDE DEF row
  <2> QED BY <2>1, <2>2, <2>3, <2>4, <2>5, StoreAlone
<1>6. CASE LoadUser(r)
  BY <1>5, <1>6 DEF LoadUser, At
<1>7. CASE Watch(r)
  BY <1>5, <1>7 DEF Watch, At
<1>8. CASE Conflict(r)
  <2> DEFINE row == [request[r] EXCEPT !.step = "watching", !.conflicts = @ + 1]
  <2>1. request[r].step = "rotating" /\ request[r].conflicts \in 0..2
    BY <1>0, <1>8 DEF Conflict, At, Fits, RequestRow
  <2>2. row \in RequestRow
    <3>1. request[r].conflicts + 1 \in 0..3 /\ "watching" \in Step
      BY <2>1, StepNames
    <3> QED BY <1>0, <3>1 DEF RequestRow
  <2>3. row.step = "watching" /\ row.pair = request[r].pair
        /\ row.family = request[r].family
    BY <1>0 DEF RequestRow
  <2>4. request' = [request EXCEPT ![r] = row]
    BY <1>0, <1>8 DEF Conflict, TypeOK
  <2>5. Becomes(r, row)
    BY <1>0, <2>2, <2>4, RequestsMove
  <2>6. Fits(session, row)
    BY <1>0, <2>1, <2>3 DEF Fits
  <2>7. \A q \in Requests : q # r /\ request[q].step = "creating"
          => row.family # request[q].family
    BY <2>3 DEF SessionInv, OpensAlone
  <2> QED BY <1>0, <1>8, <2>3, <2>5, <2>6, <2>7, StoreAlone DEF Conflict
<1>9. CASE ListMembers(r)
  <2> DEFINE row == [request[r] EXCEPT !.step = "revoking",
                                       !.members = Members(request[r].family)]
  <2>2. row \in RequestRow
    BY <1>0, StepNames DEF RequestRow, Members
  <2>3. row.step = "revoking" /\ row.pair = request[r].pair
        /\ row.family = request[r].family /\ row.members = Members(request[r].family)
    BY <1>0 DEF RequestRow
  <2>4. request' = [request EXCEPT ![r] = row]
    BY <1>0, <1>9 DEF ListMembers, TypeOK
  <2>5. Becomes(r, row)
    BY <1>0, <2>2, <2>4, RequestsMove
  <2>6. Fits(session, row)
    BY <1>0, <1>9, <2>3 DEF Fits, ListMembers, At, Members
  <2>7. \A q \in Requests : q # r /\ request[q].step = "creating"
          => row.family # request[q].family
    BY <2>3 DEF SessionInv, OpensAlone
  <2> QED BY <1>0, <1>9, <2>3, <2>5, <2>6, <2>7, StoreAlone DEF ListMembers
<1>10. ASSUME Finish(r), UNCHANGED <<active, session>>, revoked' \subseteq Pairs
      PROVE  SessionInv'
  <2>1. Becomes(r, Idle)
    BY <1>0, <1>10, RequestsMove
  <2>2. Idle.step = "idle" /\ Idle.family = <<>>
    BY DEF Idle, Begun
  <2>3. \A q \in Requests : request[q].step = "creating" => request[q].family # <<>>
    BY <1>0, NoFamily DEF Fits
  <2> QED BY <1>0, <1>10, <2>1, <2>2, <2>3, StoreAlone DEF Fits
<1>11. CASE Die(r)
  BY <1>0, <1>10, <1>11 DEF Die
<1>12. CASE BlockAccess(r)
  BY <1>0, <1>10, <1>12 DEF BlockAccess, At, Fits
<1> QED BY <1>1, <1>3, <1>4, <1>6, <1>7, <1>8, <1>9, <1>11, <1>12

-----------------------------------------------------------------------------
\* A step that writes sessions of the request's family keeps the invariant when
\* the request is then done with it, or goes on without opening it, and one
\* session of the family at most is active.
LEMMA StoreWritten ==
  ASSUME SessionInv, NEW r \in Requests, NEW row, Becomes(r, row), Fits(session', row),
         row.step # "creating", row.family \in {<<>>, request[r].family},
         session' \in [Pairs -> Session], UNCHANGED <<active, revoked>>,
         \A p \in Pairs :
           \/ session'[p].family = session[p].family
           \/ session[p].family = <<>> /\ session'[p].family = request[r].family,
         OneActivePerFamily'
  PROVE  SessionInv'
<1>1. TypeOK'
  BY DEF SessionInv, TypeOK, Becomes, RequestRow
<1>2. \A q \in Requests : q # r => Fits(session', request[q])
  <2>1. ASSUME NEW q \in Requests, q # r
        PROVE  Fits(session', request[q])
    <3>1. request[q].step = "creating" => request[q].family # request[r].family
      BY <2>1 DEF SessionInv, OpensAlone
    <3>2. request[q] \in RequestRow /\ Fits(session, request[q])
      BY DEF SessionInv, TypeOK, RequestsFit, RequestRow
    <3>3. session \in [Pairs -> Session]
      BY DEF SessionInv, TypeOK
    <3> QED BY <3>1, <3>2, <3>3, NoFamily DEF Fits, RequestRow
  <2> QED BY <2>1
<1>3. RequestsFit'
  BY <1>2 DEF RequestsFit, Becomes
<1>4. OpensAlone'
  <2>1. \A q \in Requests : request[q].step = "creating" => request[q].family # <<>>
    BY NoFamily DEF SessionInv, RequestsFit, Fits
  <2> QED BY <2>1 DEF SessionInv, OpensAlone, Becomes
<1> QED BY <1>1, <1>3, <1>4 DEF SessionInv

\* An idle request fits any store.
LEMMA IdleFits ==
  ASSUME NEW s
  PROVE  Fits(s, Idle) /\ Idle.step = "idle" /\ Idle.family = <<>>
BY DEF Fits, Idle, Begun

\* What the three writes do to the sessions.
LEMMA SessionCreated ==
  ASSUME SessionInv, NEW r \in Requests, NEW p \in Pairs, CreateSession(r, p)
  PROVE  /\ session' \in [Pairs -> Session]
         /\ session[p].status = "absent" /\ session[p].family = <<>>
         /\ session'[p].status = "active" /\ session'[p].family = request[r].family
         /\ \A q \in Pairs : q # p => session'[q] = session[q]
         /\ request[r].family \in Families
         /\ \A q \in Pairs : session[q].family # request[r].family
<1>1. session \in [Pairs -> Session] /\ ~Issued(p)
      /\ session' = [session EXCEPT ![p] = [status |-> "active", family |-> request[r].family]]
      /\ request[r].step = "creating"
  BY DEF SessionInv, TypeOK, CreateSession, At
<1>2. /\ request[r].family \in Families
      /\ \A q \in Pairs : session[q].family # request[r].family
  BY <1>1 DEF SessionInv, RequestsFit, Fits
<1>3. [status |-> "active", family |-> request[r].family] \in Session
  BY <1>2 DEF Session, Status
<1>4. session[p].status = "absent" /\ session[p].family = <<>>
  BY <1>1, SessionRows DEF Issued
<1> QED BY <1>1, <1>2, <1>3, <1>4

\* One pair is spent and one issued.
LEMMA SessionRotated ==
  ASSUME SessionInv, NEW r \in Requests, NEW p \in Pairs, Rotate(r, p)
  PROVE  LET old == request[r].pair IN
         /\ session' \in [Pairs -> Session]
         /\ session[p].status = "absent" /\ session[p].family = <<>>
         /\ session'[p].status = "active" /\ session'[p].family = request[r].family
         /\ old \in Pairs /\ old # p
         /\ session[old].status = "active" /\ session[old].family = request[r].family
         /\ session'[old].status = "used" /\ session'[old].family = request[r].family
         /\ \A q \in Pairs : q # p /\ q # old => session'[q] = session[q]
         /\ request[r].family \in Families
<1> DEFINE old == request[r].pair
<1>1. session \in [Pairs -> Session] /\ ~Issued(p) /\ IsActive(old)
      /\ session' = [session EXCEPT ![old].status = "used",
                       ![p] = [status |-> "active", family |-> request[r].family]]
      /\ request[r].step = "rotating"
  BY DEF SessionInv, TypeOK, Rotate, At
<1>2. old \in Pairs /\ request[r].family \in Families
      /\ session[old].family = request[r].family
  BY <1>1 DEF SessionInv, RequestsFit, Fits
<1>3. [status |-> "active", family |-> request[r].family] \in Session
  BY <1>2 DEF Session, Status
<1>4. session[p].status = "absent" /\ session[p].family = <<>>
  BY <1>1, SessionRows DEF Issued
<1>5. session[old].status = "active" /\ old # p
  BY <1>1, <1>4 DEF IsActive
<1>6. session[old] \in [status : Status \ {"absent"}, family : Families]
  BY <1>1, <1>2, <1>5 DEF Session, Absent
<1>7. /\ [session[old] EXCEPT !.status = "used"] \in Session
      /\ [session[old] EXCEPT !.status = "used"].status = "used"
      /\ [session[old] EXCEPT !.status = "used"].family = request[r].family
  BY <1>2, <1>6 DEF Session, Status
<1> HIDE DEF old
<1>8. /\ session'[p] = [status |-> "active", family |-> request[r].family]
      /\ session'[old] = [session[old] EXCEPT !.status = "used"]
      /\ \A q \in Pairs : q # p /\ q # old => session'[q] = session[q]
      /\ session' \in [Pairs -> Session]
  BY <1>1, <1>2, <1>3, <1>5, <1>7
<1> QED BY <1>2, <1>4, <1>5, <1>7, <1>8 DEF old

\* Sessions of the family, and no others, are revoked.
LEMMA MembersRevoked ==
  ASSUME SessionInv, NEW r \in Requests, RevokeMembers(r)
  PROVE  /\ session' \in [Pairs -> Session]
         /\ \A p \in Pairs : session'[p].family = session[p].family
         /\ \A p \in Pairs :
              \/ session'[p] = session[p]
              \/ session'[p].status = "revoked" /\ session[p].family = request[r].family
         /\ request[r].family \in Families
<1>1. session \in [Pairs -> Session] /\ request[r].members \subseteq Pairs
      /\ session' = [p \in Pairs |-> IF p \in request[r].members
                                     THEN [session[p] EXCEPT !.status = "revoked"]
                                     ELSE session[p]]
      /\ request[r].step = "revoking"
  BY DEF SessionInv, TypeOK, RevokeMembers, At
<1>2. request[r].family \in Families
      /\ \A p \in request[r].members : session[p].family = request[r].family
  BY <1>1 DEF SessionInv, RequestsFit, Fits
<1>3. ASSUME NEW p \in request[r].members
      PROVE  /\ [session[p] EXCEPT !.status = "revoked"] \in Session
             /\ [session[p] EXCEPT !.status = "revoked"].status = "revoked"
             /\ [session[p] EXCEPT !.status = "revoked"].family = session[p].family
  <2>1. session[p] \in [status : Status \ {"absent"}, family : Families]
    BY <1>1, <1>2, NoFamily DEF Session, Absent
  <2> QED BY <2>1 DEF Session, Status
<1> QED BY <1>1, <1>2, <1>3

\* The steps of a request that write the store.
LEMMA WritesKeepInv ==
  ASSUME SessionInv, NEW r \in Requests,
         \/ \E p \in Pairs : CreateSession(r, p) \/ Rotate(r, p)
         \/ RevokeMembers(r)
  PROVE  SessionInv'
<1>0. OneActivePerFamily /\ request[r] \in RequestRow
  BY DEF SessionInv, TypeOK, RequestRow
<1>1. ASSUME NEW p \in Pairs, CreateSession(r, p)
      PROVE  SessionInv'
  <2>1. OneActivePerFamily'
    BY <1>0, <1>1, SessionCreated DEF OneActivePerFamily, IsActive
  <2>2. Becomes(r, Idle)
    BY <1>1, RequestsMove DEF CreateSession, SessionInv
  <2>3. \A q \in Pairs : \/ session'[q].family = session[q].family
                         \/ session[q].family = <<>> /\ session'[q].family = request[r].family
    <3>1. session[p].family = <<>> /\ session'[p].family = request[r].family
      BY <1>1, SessionCreated
    <3>2. \A q \in Pairs : q # p => session'[q] = session[q]
      BY <1>1, SessionCreated
    <3> QED BY <3>1, <3>2
  <2> QED BY <1>1, <2>1, <2>2, <2>3, SessionCreated, StoreWritten, IdleFits DEF CreateSession
<1>2. ASSUME NEW p \in Pairs, Rotate(r, p)
      PROVE  SessionInv'
  <2>1. OneActivePerFamily'
    BY <1>0, <1>2, SessionRotated DEF OneActivePerFamily, IsActive
  <2>2. Becomes(r, Idle)
    BY <1>2, RequestsMove DEF Rotate, SessionInv
  <2>3. \A q \in Pairs : \/ session'[q].family = session[q].family
                         \/ session[q].family = <<>> /\ session'[q].family = request[r].family
    <3> DEFINE old == request[r].pair
    <3>1. session[p].family = <<>> /\ session'[p].family = request[r].family
      BY <1>2, SessionRotated
    <3>2. session'[old].family = session[old].family
      BY <1>2, SessionRotated
    <3>3. \A q \in Pairs : q # p /\ q # old => session'[q] = session[q]
      BY <1>2, SessionRotated
    <3> HIDE DEF old
    <3> QED BY <3>1, <3>2, <3>3
  <2>4. session' \in [Pairs -> Session]
    BY <1>2, SessionRotated
  <2>5. UNCHANGED <<active, revoked>>
    BY <1>2 DEF Rotate
  <2> QED BY <2>1, <2>2, <2>3, <2>4, <2>5, StoreWritten, IdleFits
<1>3. CASE RevokeMembers(r)
  <2>1. OneActivePerFamily'
    BY <1>0, <1>3, MembersRevoked DEF OneActivePerFamily, IsActive
  <2>2. UNCHANGED <<active, revoked>> /\ AfterRevocation(r)
    BY <1>3 DEF RevokeMembers
  <2>3. CASE request[r].access = NoPair
    <3>1. Becomes(r, Idle)
      BY <2>2, <2>3, RequestsMove DEF AfterRevocation, SessionInv
    <3> QED BY <2>1, <2>2, <3>1, <1>3, MembersRevoked, StoreWritten, IdleFits
  <2>4. CASE request[r].access # NoPair
    <3> DEFINE row == [request[r] EXCEPT !.step = "blocking"]
    <3>1. Becomes(r, row)
      BY <2>2, <2>4, RequestsMove, StepNames DEF AfterRevocation, SessionInv
    <3>2. row.step = "blocking" /\ row.pair = request[r].pair
          /\ row.family = request[r].family /\ row.access \in Pairs
      BY <1>0, <2>4 DEF RequestRow
    <3>3. Fits(session, request[r]) /\ request[r].step = "revoking"
      BY <1>3 DEF SessionInv, RequestsFit, RevokeMembers, At
    <3>4. Fits(session', row)
      BY <1>3, <3>2, <3>3, MembersRevoked DEF Fits
    <3> HIDE DEF row
    <3> QED BY <2>1, <2>2, <3>1, <3>2, <3>4, <1>3, MembersRevoked, StoreWritten
  <2> QED BY <2>3, <2>4
<1> QED BY <1>1, <1>2, <1>3

\* The invariant holds of every behaviour.
LEMMA SessionInvHolds == Spec => []SessionInv
<1>1. Init => SessionInv
  <2> SUFFICES ASSUME Init PROVE SessionInv
    OBVIOUS
  <2>1. Absent \in Session /\ Absent.status = "absent"
    BY DEF Session, Absent
  <2>2. Idle \in RequestRow
    BY DEF Idle, Begun, RequestRow, Step
  <2>3. TypeOK
    BY <2>1, <2>2 DEF Init, TypeOK, RequestRow
  <2>4. RequestsFit /\ OpensAlone
    BY IdleFits DEF Init, RequestsFit, OpensAlone
  <2>5. OneActivePerFamily
    BY <2>1 DEF Init, OneActivePerFamily, IsActive
  <2> QED BY <2>3, <2>4, <2>5 DEF SessionInv
<1>2. SessionInv /\ [Next]_vars => SessionInv'
  <2> SUFFICES ASSUME SessionInv, [Next]_vars PROVE SessionInv'
    OBVIOUS
  <2>1. ASSUME NEW u \in Users, Switch(u)
        PROVE  SessionInv'
    BY <2>1 DEF Switch, SessionInv, TypeOK, RequestsFit, OpensAlone, OneActivePerFamily, IsActive
  <2>2. CASE UNCHANGED vars
    BY <2>2 DEF vars, SessionInv, TypeOK, RequestsFit, OpensAlone, OneActivePerFamily, IsActive
  <2> QED BY <2>1, <2>2, ReadsKeepInv, WritesKeepInv DEF Next
<1> QED BY <1>1, <1>2, PTL DEF Spec

\* Every variable keeps its type.
THEOREM TypeCorrect == Spec => []TypeOK
<1>1. SessionInv => TypeOK
  BY DEF SessionInv
<1> QED BY <1>1, SessionInvHolds, PTL

\* However many refreshes, replays and sign-outs overlap, one pair of a family
\* at most can be refreshed (rotate_refresh_session).
THEOREM OneActive == Spec => []OneActivePerFamily
<1>1. SessionInv => OneActivePerFamily
  BY DEF SessionInv
<1> QED BY <1>1, SessionInvHolds, PTL

-----------------------------------------------------------------------------
\* Who holds the families when the sessions are s.
HoldsIn(s, f, p) ==
  /\ p \in {q \in Pairs : s[q].family = f}
  /\ s[p].status = "active"
  /\ \A q \in {x \in Pairs : s[x].family = f} : s[q].status = "active" => q = p

HeldIn(s) == [f \in Families |->
  IF \E p \in Pairs : HoldsIn(s, f, p) THEN CHOOSE p \in Pairs : HoldsIn(s, f, p) ELSE NoPair]

Alone(s) ==
  \A p, q \in Pairs :
    s[p].status = "active" /\ s[q].status = "active" /\ s[p].family = s[q].family => p = q

SpentIn(s) == {p \in Pairs : s[p].status \in {"used", "revoked"}}
OpenedIn(s) == {f \in Families : \E p \in Pairs : s[p].family = f}

\* The refinement mapping, now and after the step.
LEMMA SeenFromOutside ==
  /\ Current = HeldIn(session) /\ Current' = HeldIn(session')
  /\ Spent = SpentIn(session) /\ Spent' = SpentIn(session')
  /\ Opened = OpenedIn(session) /\ Opened' = OpenedIn(session')
<1>1. Current = HeldIn(session) /\ Current' = HeldIn(session')
  BY DEF Current, IsCurrent, IsActive, Members, HeldIn, HoldsIn
<1>2. Spent = SpentIn(session) /\ Spent' = SpentIn(session')
  BY DEF Spent, SpentIn
<1>3. Opened = OpenedIn(session) /\ Opened' = OpenedIn(session')
  BY DEF Opened, OpenedIn, Members
<1> QED BY <1>1, <1>2, <1>3

\* The holder of a family is its active session.
LEMMA Holder ==
  ASSUME NEW s \in [Pairs -> Session], Alone(s), NEW f \in Families
  PROVE  /\ \A p \in Pairs : s[p].status = "active" /\ s[p].family = f => HeldIn(s)[f] = p
         /\ (\A p \in Pairs : ~(s[p].status = "active" /\ s[p].family = f))
              => HeldIn(s)[f] = NoPair
<1>1. ASSUME NEW p \in Pairs, s[p].status = "active", s[p].family = f
      PROVE  HeldIn(s)[f] = p
  <2>1. HoldsIn(s, f, p)
    BY <1>1 DEF HoldsIn, Alone
  <2>2. \A q \in Pairs : HoldsIn(s, f, q) => q = p
    BY <1>1 DEF HoldsIn
  <2>3. (CHOOSE q \in Pairs : HoldsIn(s, f, q)) = p
    BY <2>1, <2>2
  <2> QED BY <2>1, <2>3 DEF HeldIn
<1>2. ASSUME \A p \in Pairs : ~(s[p].status = "active" /\ s[p].family = f)
      PROVE  HeldIn(s)[f] = NoPair
  BY <1>2 DEF HeldIn, HoldsIn
<1> QED BY <1>1, <1>2

\* A pair that has not been issued is held by nobody and not spent.
LEMMA NewPair ==
  ASSUME NEW s \in [Pairs -> Session], Alone(s), NEW p \in Pairs, s[p].status = "absent"
  PROVE  p \notin SpentIn(s) /\ \A f \in Families : HeldIn(s)[f] # p
<1>1. ASSUME NEW f \in Families
      PROVE  HeldIn(s)[f] # p
  <2>1. CASE \E q \in Pairs : s[q].status = "active" /\ s[q].family = f
    BY <2>1, Holder
  <2>2. CASE \A q \in Pairs : ~(s[q].status = "active" /\ s[q].family = f)
    BY <2>2, Holder, PairsAssumption
  <2> QED BY <2>1, <2>2
<1> QED BY <1>1 DEF SpentIn

\* A family whose sessions have not changed has the same holder.
LEMMA SameHolder ==
  ASSUME NEW s \in [Pairs -> Session], Alone(s), NEW t \in [Pairs -> Session], Alone(t),
         NEW f \in Families,
         \A p \in Pairs : s[p].family = f \/ t[p].family = f => t[p] = s[p]
  PROVE  HeldIn(t)[f] = HeldIn(s)[f]
<1>1. CASE \E p \in Pairs : s[p].status = "active" /\ s[p].family = f
  <2>1. PICK p \in Pairs : s[p].status = "active" /\ s[p].family = f
    BY <1>1
  <2>2. t[p].status = "active" /\ t[p].family = f
    BY <2>1
  <2> QED BY <2>1, <2>2, Holder
<1>2. CASE \A p \in Pairs : ~(s[p].status = "active" /\ s[p].family = f)
  <2>1. \A p \in Pairs : ~(t[p].status = "active" /\ t[p].family = f)
    BY <1>2
  <2> QED BY <1>2, <2>1, Holder
<1> QED BY <1>1, <1>2

\* The holders after a step that concerns family f alone.
LEMMA HeldIsFunction ==
  ASSUME NEW s, NEW t, NEW f \in Families, NEW p, HeldIn(t)[f] = p,
         \A g \in Families : g # f => HeldIn(t)[g] = HeldIn(s)[g]
  PROVE  HeldIn(t) = [HeldIn(s) EXCEPT ![f] = p]
BY DEF HeldIn

-----------------------------------------------------------------------------
SeenStep == Sessions!Next \/ UNCHANGED Sessions!vars

\* Every step of the store is a step of the abstract families, or none.
LEMMA StepRefines ==
  ASSUME SessionInv, SessionInv', [Next]_vars
  PROVE  SeenStep
<1>0. /\ session \in [Pairs -> Session] /\ Alone(session)
      /\ session' \in [Pairs -> Session] /\ Alone(session')
  BY DEF SessionInv, TypeOK, OneActivePerFamily, IsActive, Alone
<1>1. ASSUME UNCHANGED session
      PROVE  SeenStep
  BY <1>1, SeenFromOutside DEF SeenStep, Sessions!vars
<1>2. ASSUME NEW r \in Requests, NEW p \in Pairs, CreateSession(r, p)
      PROVE  SeenStep
  <2> DEFINE f == request[r].family
  <2>1. f \in Families /\ f \notin OpenedIn(session)
    BY <1>2, SessionCreated DEF OpenedIn
  <2>2. p \notin SpentIn(session) /\ \A g \in Families : HeldIn(session)[g] # p
    BY <1>0, <1>2, SessionCreated, NewPair
  <2>3. OpenedIn(session') = OpenedIn(session) \union {f}
    <3>1. \A g \in Families : g \in OpenedIn(session') <=> g \in OpenedIn(session) \/ g = f
      BY <1>2, NoFamily, SessionCreated DEF OpenedIn
    <3> QED BY <2>1, <3>1 DEF OpenedIn
  <2>4. SpentIn(session') = SpentIn(session)
    BY <1>2, SessionCreated DEF SpentIn
  <2>5. HeldIn(session')[f] = p
    BY <1>0, <1>2, <2>1, SessionCreated, Holder
  <2>6. \A g \in Families : g # f => HeldIn(session')[g] = HeldIn(session)[g]
    <3>1. ASSUME NEW g \in Families, g # f
          PROVE  \A q \in Pairs : session[q].family = g \/ session'[q].family = g
                                    => session'[q] = session[q]
      BY <1>2, <3>1, NoFamily, SessionCreated
    <3> QED BY <1>0, <3>1, SameHolder
  <2>7. HeldIn(session') = [HeldIn(session) EXCEPT ![f] = p]
    BY <2>1, <2>5, <2>6, HeldIsFunction
  <2> HIDE DEF f
  <2>8. Sessions!Open(f, p)
    BY <2>1, <2>2, <2>3, <2>4, <2>7, SeenFromOutside DEF Sessions!Open, Sessions!Unheld
  <2> QED BY <2>1, <2>8 DEF SeenStep, Sessions!Next
<1>3. ASSUME NEW r \in Requests, NEW p \in Pairs, Rotate(r, p)
      PROVE  SeenStep
  <2> DEFINE f == request[r].family
             old == request[r].pair
  <2>1. f \in Families /\ old \in Pairs
    BY <1>3, SessionRotated
  <2>2. p \notin SpentIn(session) /\ \A g \in Families : HeldIn(session)[g] # p
    BY <1>0, <1>3, SessionRotated, NewPair
  <2>3. OpenedIn(session') = OpenedIn(session)
    <3>1. \A g \in Families : g \in OpenedIn(session') <=> g \in OpenedIn(session)
      BY <1>3, NoFamily, SessionRotated DEF OpenedIn
    <3> QED BY <3>1 DEF OpenedIn
  <2>4. SpentIn(session') = SpentIn(session) \union {old}
    <3>1. \A q \in Pairs : q \in SpentIn(session') <=> q \in SpentIn(session) \/ q = old
      BY <1>3, SessionRotated DEF SpentIn
    <3> QED BY <2>1, <3>1 DEF SpentIn
  <2>5. HeldIn(session)[f] = old /\ HeldIn(session')[f] = p /\ old # NoPair
    BY <1>0, <1>3, <2>1, SessionRotated, Holder, PairsAssumption
  <2>6. \A g \in Families : g # f => HeldIn(session')[g] = HeldIn(session)[g]
    <3>1. ASSUME NEW g \in Families, g # f
          PROVE  \A q \in Pairs : session[q].family = g \/ session'[q].family = g
                                    => session'[q] = session[q]
      BY <1>3, <3>1, NoFamily, SessionRotated
    <3> QED BY <1>0, <3>1, SameHolder
  <2>7. HeldIn(session') = [HeldIn(session) EXCEPT ![f] = p]
    BY <2>1, <2>5, <2>6, HeldIsFunction
  <2> HIDE DEF f, old
  <2>8. Sessions!HandOn(f, p)
    BY <2>2, <2>3, <2>4, <2>5, <2>7, SeenFromOutside DEF Sessions!HandOn, Sessions!Unheld
  <2> QED BY <2>1, <2>8 DEF SeenStep, Sessions!Next
<1>4. ASSUME NEW r \in Requests, RevokeMembers(r)
      PROVE  SeenStep
  <2> DEFINE f == request[r].family
  <2>1. /\ f \in Families
        /\ \A p \in Pairs : session'[p].family = session[p].family
        /\ \A p \in Pairs : \/ session'[p] = session[p]
                            \/ session'[p].status = "revoked" /\ session[p].family = f
    BY <1>4, MembersRevoked
  <2> HIDE DEF f
  <2>2. OpenedIn(session') = OpenedIn(session)
    BY <2>1 DEF OpenedIn
  <2>3. \A g \in Families : g # f => HeldIn(session')[g] = HeldIn(session)[g]
    <3>1. ASSUME NEW g \in Families, g # f
          PROVE  \A q \in Pairs : session[q].family = g \/ session'[q].family = g
                                    => session'[q] = session[q]
      BY <2>1, <3>1
    <3> QED BY <1>0, <3>1, SameHolder
  <2>4. \A p \in Pairs : session[p].family = f => session[p].status \in {"active", "used", "revoked"}
    BY <1>0, <2>1, SessionRows DEF Status
  <2>5. CASE \E p \in Pairs : session[p].status = "active" /\ session[p] # session'[p]
    <3>1. PICK p \in Pairs : session[p].status = "active" /\ session[p] # session'[p]
      BY <2>5
    <3>2. session'[p].status = "revoked" /\ session[p].family = f
      BY <2>1, <3>1
    <3>3. \A q \in Pairs : q # p => ~(session[q].status = "active" /\ session[q].family = f)
      BY <1>0, <3>1, <3>2 DEF Alone
    <3>4. HeldIn(session)[f] = p /\ p # NoPair
      BY <1>0, <2>1, <3>1, <3>2, Holder, PairsAssumption
    <3>5. \A q \in Pairs : ~(session'[q].status = "active" /\ session'[q].family = f)
      BY <2>1, <3>2, <3>3
    <3>6. HeldIn(session')[f] = NoPair
      BY <1>0, <2>1, <3>5, Holder
    <3>7. HeldIn(session') = [HeldIn(session) EXCEPT ![f] = NoPair]
      BY <2>1, <2>3, <3>6, HeldIsFunction
    <3>8. SpentIn(session') = SpentIn(session) \union {p}
      <4>1. \A q \in Pairs : q \in SpentIn(session') <=> q \in SpentIn(session) \/ q = p
        BY <2>1, <2>4, <3>2, <3>3 DEF SpentIn
      <4> QED BY <4>1 DEF SpentIn
    <3>9. Sessions!Close(f)
      BY <2>2, <3>4, <3>7, <3>8, SeenFromOutside DEF Sessions!Close
    <3> QED BY <2>1, <3>9 DEF SeenStep, Sessions!Next
  <2>6. CASE \A p \in Pairs : session[p].status = "active" => session[p] = session'[p]
    <3>1. \A q \in Pairs : q \in SpentIn(session') <=> q \in SpentIn(session)
      BY <2>1, <2>4, <2>6 DEF SpentIn
    <3>2. SpentIn(session') = SpentIn(session)
      BY <3>1 DEF SpentIn
    <3>3. HeldIn(session')[f] = HeldIn(session)[f]
      <4>1. CASE \E p \in Pairs : session[p].status = "active" /\ session[p].family = f
        <5>1. PICK p \in Pairs : session[p].status = "active" /\ session[p].family = f
          BY <4>1
        <5>2. session'[p] = session[p]
          BY <2>6, <5>1
        <5> QED BY <1>0, <2>1, <5>1, <5>2, Holder
      <4>2. CASE \A p \in Pairs : ~(session[p].status = "active" /\ session[p].family = f)
        <5>1. \A p \in Pairs : ~(session'[p].status = "active" /\ session'[p].family = f)
          BY <2>1, <4>2
        <5> QED BY <1>0, <2>1, <4>2, <5>1, Holder
      <4> QED BY <4>1, <4>2
    <3>4. HeldIn(session') = HeldIn(session)
      BY <2>1, <2>3, <3>3 DEF HeldIn
    <3> QED BY <2>2, <3>2, <3>4, SeenFromOutside DEF SeenStep, Sessions!vars
  <2> QED BY <2>5, <2>6
<1>5. ASSUME NEW r \in Requests,
             \/ \E f \in Families : Login(r, f)
             \/ \E p \in Pairs : Refresh(r, p)
             \/ \E a, p \in Pairs : Logout(r, a, p)
             \/ LoadUser(r) \/ Watch(r) \/ Conflict(r) \/ ListMembers(r)
             \/ BlockAccess(r) \/ Die(r)
      PROVE  UNCHANGED session
  BY <1>5 DEF Login, Refresh, Logout, LoadUser, Watch, Conflict, ListMembers, BlockAccess, Die
<1>6. ASSUME \E u \in Users : Switch(u)
      PROVE  UNCHANGED session
  BY <1>6 DEF Switch
<1>7. CASE UNCHANGED vars
  BY <1>1, <1>7 DEF vars
<1>8. CASE Next
  <2>1. CASE \E u \in Users : Switch(u)
    BY <1>1, <1>6, <2>1
  <2>2. CASE ~\E u \in Users : Switch(u)
    <3>1. PICK r \in Requests :
            \/ \E p \in Pairs : CreateSession(r, p)
            \/ \E p \in Pairs : Rotate(r, p)
            \/ RevokeMembers(r)
            \/ \E f \in Families : Login(r, f)
            \/ \E p \in Pairs : Refresh(r, p)
            \/ \E a, p \in Pairs : Logout(r, a, p)
            \/ LoadUser(r) \/ Watch(r) \/ Conflict(r) \/ ListMembers(r)
            \/ BlockAccess(r) \/ Die(r)
      BY <1>8, <2>2 DEF Next
    <3>2. CASE \E p \in Pairs : CreateSession(r, p)
      BY <1>2, <3>2
    <3>3. CASE \E p \in Pairs : Rotate(r, p)
      BY <1>3, <3>3
    <3>4. CASE RevokeMembers(r)
      BY <1>4, <3>4
    <3> QED BY <1>1, <1>5, <3>1, <3>2, <3>3, <3>4
  <2> QED BY <2>1, <2>2
<1> QED BY <1>7, <1>8

\* Whatever overlaps, a family is seen to pass from one pair to the next and to
\* end for good (auth_session_store.py).
THEOREM FamiliesImplemented == Spec => ImplementsFamilies
<1>1. Init => Sessions!Init
  <2> SUFFICES ASSUME Init PROVE Sessions!Init
    OBVIOUS
  <2>1. \A p \in Pairs : session[p].status = "absent" /\ session[p].family = <<>>
    BY DEF Init, Absent
  <2>2. Opened = {} /\ Spent = {}
    BY <2>1, NoFamily DEF Opened, Members, Spent
  <2>3. \A f \in Families : ~\E p \in Pairs : IsCurrent(f, p)
    BY <2>1 DEF IsCurrent, IsActive
  <2>4. Current = [f \in Families |-> NoPair]
    BY <2>3 DEF Current
  <2> QED BY <2>2, <2>4 DEF Sessions!Init
<1>2. SessionInv /\ SessionInv' /\ [Next]_vars => [Sessions!Next]_(Sessions!vars)
  BY StepRefines DEF SeenStep
<1> QED BY <1>1, <1>2, SessionInvHolds, PTL DEF Spec, ImplementsFamilies, Sessions!Spec

-----------------------------------------------------------------------------
(***************************************************************************)
(* Steps of the whole are steps of its parts, or leave them alone          *)
(***************************************************************************)
\* The sessions are those of AuthSessions.
THEOREM SessionsAreSessions == AccountsSpec => Spec
<1>1. AccountsInit => Init
  BY DEF AccountsInit
<1>2. [AccountsNext]_accountsVars => [Next]_vars
  BY DEF AccountsNext, SessionsMove, ThrottleMoves, AdminMoves, InboxMoves, accountsVars, vars
<1> QED BY <1>1, <1>2, PTL DEF AccountsSpec, Spec

\* The throttle is that of LoginThrottle.
LEMMA ThrottleSteps == [AccountsNext]_accountsVars => [Throttle!Next]_Throttle!vars
BY DEF AccountsNext, SessionsMove, ThrottleMoves, AdminMoves, InboxMoves, accountsVars,
       throttleVars, Throttle!vars

OneAtATime ==
  \A r, q \in Requests : order[r] # Admin!Idle /\ order[q] # Admin!Idle => r = q

\* The administration is that of AccountAdmin; one by one, a request waits.
LEMMA AdminSteps ==
  [AccountsNext]_accountsVars =>
    part' = part /\ [Admin!Next /\ (part = "one by one" => OneAtATime')]_Admin!vars
BY DEF AccountsNext, SessionsMove, ThrottleMoves, AdminMoves, InboxMoves, accountsVars,
       adminVars, Admin!vars, OneAtATime

\* The inbox is that of NotificationInbox.
LEMMA InboxSteps == [AccountsNext]_accountsVars => [Inbox!Next]_Inbox!vars
BY DEF AccountsNext, SessionsMove, ThrottleMoves, AdminMoves, InboxMoves, accountsVars,
       inboxVars, Inbox!vars

\* Sets are counted alike in all modules.
LEMMA SameCounting ==
  \A S : /\ Throttle!IsFiniteSet(S) <=> IsFiniteSet(S)
         /\ Throttle!Cardinality(S) = Cardinality(S)
BY DEF Throttle!IsFiniteSet, IsFiniteSet, Throttle!Cardinality, Cardinality

\* So they are in the administration and in the inbox.
LEMMA SameCounts ==
  \A S : /\ Admin!Cardinality(S) = Cardinality(S)
         /\ Inbox!IsFiniteSet(S) <=> IsFiniteSet(S)
         /\ Inbox!Cardinality(S) = Cardinality(S)
BY DEF Admin!Cardinality, Cardinality, Inbox!Cardinality, Inbox!IsFiniteSet, IsFiniteSet

-----------------------------------------------------------------------------
(***************************************************************************)
(* The throttle                                                            *)
(*                                                                         *)
(* A login is admitted below the limit, and counts once.  So the counter   *)
(* and the logins that may still count grow together only below the limit, *)
(* by one login at a time: both bounds are inductive with the types.       *)
(***************************************************************************)
\* The logins that may still raise the counter.
Uncounted == {r \in Logins : step[r] \in {"verifying", "counting"}}

ThrottleInv == Throttle!TypeOK /\ Throttle!OvershootIsBounded /\ Throttle!CounterWillExpire

-----------------------------------------------------------------------------
\* A login that moves is in its new place; the others are where they were.
LEMMA LoginMoves ==
  ASSUME Throttle!TypeOK, NEW r \in Logins,
         NEW s \in {"idle", "verifying", "counting", "expiring", "clearing"}, Throttle!Goto(r, s)
  PROVE  /\ step' \in [Logins -> {"idle", "verifying", "counting", "expiring", "clearing"}]
         /\ step'[r] = s
         /\ \A q \in Logins : q # r => step'[q] = step[q]
BY DEF Throttle!TypeOK, Throttle!Goto

\* The logins that may count are some of all logins, so their number is a number.
LEMMA UncountedAreFew ==
  ASSUME Throttle!ThrottleAssumption, NEW S \in SUBSET Logins
  PROVE  /\ IsFiniteSet(S) /\ Cardinality(S) \in Nat /\ Cardinality(Logins) \in Nat
         /\ Cardinality(S) <= Cardinality(Logins)
<1>1. IsFiniteSet(Logins)
  BY SameCounting DEF Throttle!ThrottleAssumption
<1>2. IsFiniteSet(S) /\ Cardinality(S) <= Cardinality(Logins)
  BY <1>1, FS_Subset
<1> QED BY <1>1, <1>2, FS_CardinalityType

\* A step after which no more logins may count, and the counter is no higher,
\* keeps the bound.
LEMMA StaysBounded ==
  ASSUME Throttle!ThrottleAssumption, Throttle!TypeOK, Throttle!TypeOK', Throttle!OvershootIsBounded,
         Uncounted' \subseteq Uncounted, attempts' <= attempts
  PROVE  Throttle!OvershootIsBounded'
<1>1. /\ IsFiniteSet(Uncounted) /\ Cardinality(Uncounted) \in Nat
      /\ Cardinality(Uncounted') \in Nat /\ Cardinality(Logins) \in Nat
  BY UncountedAreFew DEF Uncounted
<1>2. Cardinality(Uncounted') <= Cardinality(Uncounted)
  BY <1>1, FS_Subset
<1>3. attempts + Cardinality(Uncounted) <= MaxAttempts - 1 + Cardinality(Logins)
  BY SameCounting DEF Throttle!OvershootIsBounded, Uncounted
<1>4. attempts' + Cardinality(Uncounted') <= MaxAttempts - 1 + Cardinality(Logins)
  BY <1>1, <1>2, <1>3 DEF Throttle!TypeOK, Throttle!ThrottleAssumption
<1> QED BY <1>4, SameCounting DEF Throttle!OvershootIsBounded, Uncounted

\* The types are kept.
LEMMA ThrottleTypesStay ==
  ASSUME Throttle!ThrottleAssumption, Throttle!TypeOK, [Throttle!Next]_Throttle!vars
  PROVE  Throttle!TypeOK'
<1>1. ASSUME NEW r \in Logins, Throttle!Admit(r) \/ Throttle!Finish(r)
      PROVE  Throttle!TypeOK'
  <2>1. CASE Throttle!Admit(r)
    BY <2>1, LoginMoves DEF Throttle!Admit, Throttle!TypeOK
  <2>2. CASE Throttle!Verify(r)
    BY <2>2, LoginMoves DEF Throttle!Verify, Throttle!TypeOK
  <2>3. CASE Throttle!Count(r)
    <3>1. attempts' \in Nat
      BY <2>3 DEF Throttle!Count, Throttle!TypeOK
    <3>2. Throttle!Goto(r, "expiring") \/ Throttle!Goto(r, "idle")
      BY <2>3 DEF Throttle!Count
    <3> QED BY <2>3, <3>1, <3>2, LoginMoves DEF Throttle!Count, Throttle!TypeOK
  <2>4. CASE Throttle!Expire(r)
    <3>1. Window \in 0..Window
      BY SameCounting DEF Throttle!ThrottleAssumption
    <3> QED BY <2>4, <3>1, LoginMoves DEF Throttle!Expire, Throttle!TypeOK
  <2>5. CASE Throttle!Clear(r)
    BY <2>5, LoginMoves DEF Throttle!Clear, Throttle!TypeOK
  <2> QED BY <1>1, <2>1, <2>2, <2>3, <2>4, <2>5 DEF Throttle!Finish
<1>2. ASSUME NEW r \in Logins, Throttle!Die(r)
      PROVE  Throttle!TypeOK'
  <2>1. deaths' \in 0..MaxDeaths
    BY <1>2 DEF Throttle!Die, Throttle!TypeOK, Throttle!ThrottleAssumption
  <2> QED BY <1>2, <2>1, LoginMoves DEF Throttle!Die, Throttle!TypeOK
<1>3. CASE Throttle!Second
  <2>1. ttl \in 1..Window /\ ttl' \in 0..Window \union {Throttle!NoExpiry}
    BY <1>3 DEF Throttle!Second, Throttle!TypeOK, Throttle!NoExpiry, Throttle!ThrottleAssumption
  <2>2. attempts' \in Nat
    BY <1>3 DEF Throttle!Second, Throttle!TypeOK
  <2> QED BY <1>3, <2>1, <2>2 DEF Throttle!Second, Throttle!TypeOK
<1>4. CASE UNCHANGED Throttle!vars
  BY <1>4 DEF Throttle!vars, Throttle!TypeOK
<1> QED BY <1>1, <1>2, <1>3, <1>4 DEF Throttle!Next

\* So is the bound on the overshoot.
LEMMA OvershootStays ==
  ASSUME Throttle!ThrottleAssumption, Throttle!TypeOK, Throttle!TypeOK', Throttle!OvershootIsBounded, [Throttle!Next]_Throttle!vars
  PROVE  Throttle!OvershootIsBounded'
<1>1. ASSUME NEW r \in Logins, Throttle!Admit(r)
      PROVE  Throttle!OvershootIsBounded'
  <2>1. attempts' = attempts /\ attempts <= MaxAttempts - 1
    BY <1>1 DEF Throttle!Admit, Throttle!Locked, Throttle!TypeOK, Throttle!ThrottleAssumption
  <2>2. /\ Cardinality(Uncounted') \in Nat /\ Cardinality(Logins) \in Nat
        /\ Cardinality(Uncounted') <= Cardinality(Logins)
    BY UncountedAreFew DEF Uncounted
  <2>3. attempts' + Cardinality(Uncounted') <= MaxAttempts - 1 + Cardinality(Logins)
    BY <2>1, <2>2 DEF Throttle!TypeOK, Throttle!ThrottleAssumption
  <2> QED BY <2>3, SameCounting DEF Throttle!OvershootIsBounded, Uncounted
<1>2. ASSUME NEW r \in Logins, Throttle!Count(r)
      PROVE  Throttle!OvershootIsBounded'
  <2>1. step'[r] \in {"expiring", "idle"} /\ \A q \in Logins : q # r => step'[q] = step[q]
    <3>1. Throttle!Goto(r, "expiring") \/ Throttle!Goto(r, "idle")
      BY <1>2 DEF Throttle!Count
    <3> QED BY <3>1, LoginMoves
  <2>2. r \in Uncounted /\ Uncounted' = Uncounted \ {r}
    BY <1>2, <2>1 DEF Uncounted, Throttle!Count
  <2>3. IsFiniteSet(Uncounted) /\ Cardinality(Uncounted) \in Nat /\ Cardinality(Logins) \in Nat
    BY UncountedAreFew DEF Uncounted
  <2>4. Cardinality(Uncounted') = Cardinality(Uncounted) - 1
    BY <2>2, <2>3, FS_RemoveElement
  <2>5. attempts + Cardinality(Uncounted) <= MaxAttempts - 1 + Cardinality(Logins)
    BY SameCounting DEF Throttle!OvershootIsBounded, Uncounted
  <2>6. attempts' + Cardinality(Uncounted') <= MaxAttempts - 1 + Cardinality(Logins)
    BY <1>2, <2>3, <2>4, <2>5 DEF Throttle!Count, Throttle!TypeOK, Throttle!ThrottleAssumption
  <2> QED BY <2>6, SameCounting DEF Throttle!OvershootIsBounded, Uncounted
<1>3. ASSUME NEW r \in Logins, NEW s \in {"counting", "clearing", "idle"}, Throttle!Goto(r, s),
             s = "counting" => step[r] = "verifying", attempts' <= attempts
      PROVE  Throttle!OvershootIsBounded'
  <2>1. step'[r] = s /\ \A q \in Logins : q # r => step'[q] = step[q]
    BY <1>3, LoginMoves
  <2>2. Uncounted' \subseteq Uncounted
    BY <1>3, <2>1 DEF Uncounted
  <2> QED BY <1>3, <2>2, StaysBounded
<1>4. ASSUME NEW r \in Logins, Throttle!Verify(r) \/ Throttle!Expire(r) \/ Throttle!Clear(r) \/ Throttle!Die(r)
      PROVE  Throttle!OvershootIsBounded'
  <2>1. CASE Throttle!Verify(r)
    BY <1>3, <2>1 DEF Throttle!Verify, Throttle!TypeOK
  <2>2. CASE Throttle!Expire(r)
    BY <1>3, <2>2 DEF Throttle!Expire, Throttle!TypeOK
  <2>3. CASE Throttle!Clear(r)
    BY <1>3, <2>3 DEF Throttle!Clear, Throttle!TypeOK
  <2>4. CASE Throttle!Die(r)
    BY <1>3, <2>4 DEF Throttle!Die, Throttle!TypeOK
  <2> QED BY <1>4, <2>1, <2>2, <2>3, <2>4
<1>5. CASE Throttle!Second
  <2>1. attempts' <= attempts /\ Uncounted' \subseteq Uncounted
    BY <1>5 DEF Throttle!Second, Throttle!TypeOK, Uncounted
  <2> QED BY <2>1, StaysBounded
<1>6. CASE UNCHANGED Throttle!vars
  BY <1>6 DEF Throttle!vars, Throttle!OvershootIsBounded
<1> QED BY <1>1, <1>2, <1>4, <1>5, <1>6 DEF Throttle!Next, Throttle!Finish

\* And so is the promise of an expiry.
LEMMA ExpiryStays ==
  ASSUME Throttle!ThrottleAssumption, Throttle!TypeOK, Throttle!TypeOK', Throttle!CounterWillExpire, [Throttle!Next]_Throttle!vars
  PROVE  Throttle!CounterWillExpire'
<1>1. ASSUME NEW r \in Logins, Throttle!Goto(r, "expiring")
      PROVE  Throttle!CounterWillExpire'
  BY <1>1, LoginMoves DEF Throttle!CounterWillExpire
<1>2. ASSUME NEW r \in Logins, NEW s \in {"idle", "verifying", "counting", "clearing"},
             Throttle!Goto(r, s), step[r] # "expiring", deaths' = deaths, ttl' = ttl,
             attempts' > 0 => attempts > 0
      PROVE  Throttle!CounterWillExpire'
  BY <1>2, LoginMoves DEF Throttle!CounterWillExpire
<1>3. ASSUME NEW r \in Logins, Throttle!Admit(r) \/ Throttle!Finish(r)
      PROVE  Throttle!CounterWillExpire'
  <2>1. CASE Throttle!Admit(r)
    BY <1>2, <2>1 DEF Throttle!Admit
  <2>2. CASE Throttle!Verify(r)
    BY <1>2, <2>2 DEF Throttle!Verify
  <2>3. CASE Throttle!Count(r)
    <3>1. CASE attempts = 0
      BY <1>1, <2>3, <3>1 DEF Throttle!Count
    <3>2. CASE attempts # 0
      BY <1>2, <2>3, <3>2 DEF Throttle!Count, Throttle!TypeOK
    <3> QED BY <3>1, <3>2
  <2>4. CASE Throttle!Expire(r)
    <3>1. ttl' # Throttle!NoExpiry \/ attempts' = 0
      BY <2>4 DEF Throttle!Expire, Throttle!TypeOK, Throttle!NoExpiry, Throttle!ThrottleAssumption
    <3> QED BY <3>1 DEF Throttle!CounterWillExpire
  <2>5. CASE Throttle!Clear(r)
    BY <2>5 DEF Throttle!Clear, Throttle!CounterWillExpire
  <2> QED BY <1>3, <2>1, <2>2, <2>3, <2>4, <2>5 DEF Throttle!Finish
<1>4. ASSUME NEW r \in Logins, Throttle!Die(r)
      PROVE  Throttle!CounterWillExpire'
  <2>1. deaths' # 0
    BY <1>4 DEF Throttle!Die, Throttle!TypeOK
  <2> QED BY <2>1 DEF Throttle!CounterWillExpire
<1>5. CASE Throttle!Second
  <2>1. CASE ttl = 1
    BY <1>5, <2>1 DEF Throttle!Second, Throttle!CounterWillExpire
  <2>2. CASE ttl # 1
    <3>1. ttl' # Throttle!NoExpiry
      BY <1>5, <2>2 DEF Throttle!Second, Throttle!TypeOK, Throttle!NoExpiry
    <3> QED BY <3>1 DEF Throttle!CounterWillExpire
  <2> QED BY <2>1, <2>2
<1>6. CASE UNCHANGED Throttle!vars
  BY <1>6 DEF Throttle!vars, Throttle!CounterWillExpire
<1> QED BY <1>3, <1>4, <1>5, <1>6 DEF Throttle!Next

\* The types and both bounds hold in every reachable state.
LEMMA ThrottleStays == AccountsSpec => []ThrottleInv
<1>1. AccountsInit => ThrottleInv
  <2> SUFFICES ASSUME Throttle!Init PROVE ThrottleInv
    BY DEF AccountsInit
  <2>1. Throttle!TypeOK
    BY PartsAssumption DEF Throttle!Init, Throttle!TypeOK, Throttle!ThrottleAssumption
  <2>2. Throttle!CounterWillExpire
    BY DEF Throttle!Init, Throttle!CounterWillExpire
  <2>3. /\ Cardinality(Uncounted) \in Nat /\ Cardinality(Logins) \in Nat
        /\ Cardinality(Uncounted) <= Cardinality(Logins)
    BY PartsAssumption, UncountedAreFew DEF Uncounted
  <2>4. attempts + Cardinality(Uncounted) <= MaxAttempts - 1 + Cardinality(Logins)
    BY <2>3, PartsAssumption DEF Throttle!Init, Throttle!ThrottleAssumption
  <2> QED BY <2>1, <2>2, <2>4, SameCounting DEF ThrottleInv, Throttle!OvershootIsBounded, Uncounted
<1>2. ThrottleInv /\ [AccountsNext]_accountsVars => ThrottleInv'
  BY PartsAssumption, ThrottleSteps, ThrottleTypesStay, OvershootStays, ExpiryStays DEF ThrottleInv
<1> QED BY <1>1, <1>2, PTL DEF AccountsSpec

\* Logins sent together exceed the limit by less than their number, and a
\* counter without an expiry is about to get one unless a login has died
\* (login_retry_after, record_login_failure).
THEOREM ThrottleStaysCorrect == AccountsSpec => []ThrottleHolds
<1>1. ThrottleInv => ThrottleHolds
  BY DEF ThrottleInv, ThrottleHolds
<1> QED BY <1>1, ThrottleStays, PTL

-----------------------------------------------------------------------------
(***************************************************************************)
(* The administration                                                      *)
(*                                                                         *)
(* Whatever overlaps, an account stays once it is there, so what a request *)
(* has seen tells at least whether it is.  One by one, what it has seen is *)
(* the account itself, and one about to depose an administrator has        *)
(* counted another.                                                        *)
(***************************************************************************)
OrderRow == [step : {"counting", "writing"}, user : Everyone, order : Admin!Order,
             seen : Admin!Account]

\* An order other than a creation is about an account, and has seen one.
Informed(accounts, row) ==
  /\ row.seen.exists <=> row.order.op # "create"
  /\ row.order.op # "create" => accounts[row.user].exists

AdminInv ==
  /\ Admin!TypeOK
  /\ \A u \in Everyone : trail[u].exists <=> account[u].exists
  /\ \A r \in Requests : order[r] # Admin!Idle => Informed(account, order[r])

AnotherRemains(accounts, user) ==
  \E u \in Everyone \ {user} : accounts[u].active /\ "ADMIN" \in accounts[u].roles

\* The request knows the account as it is, and that another administrator
\* remains when it is about to depose one.
UpToDate(accounts, row) ==
  /\ row.seen = accounts[row.user]
  /\ row.step = "writing" /\ Admin!Deposes(row.seen, row.order) =>
       AnotherRemains(accounts, row.user)

OrderlyInv ==
  part = "one by one" =>
    /\ OneAtATime
    /\ Admin!AdminRemains /\ Admin!AuditTellsTheAccount
    /\ \A r \in Requests : order[r] # Admin!Idle => UpToDate(account, order[r])

\* The fields of an account, and the one row that is none.
LEMMA AccountRow ==
  ASSUME NEW row \in Admin!Account
  PROVE  /\ row.exists \in BOOLEAN /\ row.active \in BOOLEAN /\ row.roles \in SUBSET RoleCodes
         /\ ~row.exists => row = Admin!NoAccount
         /\ row.active => row.exists
         /\ row.exists => row \in [exists : {TRUE}, active : BOOLEAN, roles : SUBSET RoleCodes]
<1> DEFINE Rows == [exists : {TRUE}, active : BOOLEAN, roles : SUBSET RoleCodes]
<1>1. CASE row \in Rows
  BY <1>1, Zenon
<1>2. CASE row = Admin!NoAccount
  BY <1>2 DEF Admin!NoAccount
<1> QED BY <1>1, <1>2 DEF Admin!Account

\* The fields of an order.
LEMMA OrderFields ==
  ASSUME NEW o \in Admin!Order
  PROVE  /\ o.op \in {"create", "switch", "grant", "revoke"}
         /\ o.op \in {"create", "switch"} => o.active \in BOOLEAN
         /\ o.op = "create" => o.roles \in SUBSET RoleCodes
         /\ o.op \in {"grant", "revoke"} => o.role \in RoleCodes
BY DEF Admin!Order

\* A request is idle or knows its account, its order and what it has seen.
LEMMA OrderRows ==
  ASSUME Admin!TypeOK, NEW r \in Requests, order[r] # Admin!Idle
  PROVE  /\ order[r] \in OrderRow
         /\ order[r].step \in {"counting", "writing"} /\ order[r].user \in Everyone
         /\ order[r].order \in Admin!Order /\ order[r].seen \in Admin!Account
         /\ account[order[r].user] \in Admin!Account /\ trail[order[r].user] \in Admin!Account
BY DEF Admin!TypeOK, OrderRow

\* Request r is at this row now; the others are where they were.
Placed(r, row) ==
  /\ order' \in [Requests -> {Admin!Idle} \union OrderRow]
  /\ order'[r] = row
  /\ \A q \in Requests : q # r => order'[q] = order[q]

\* The step of a request moves nothing but that request.
LEMMA OrderMoves ==
  ASSUME Admin!TypeOK, NEW r \in Requests, NEW row \in {Admin!Idle} \union OrderRow,
         order' = [order EXCEPT ![r] = row]
  PROVE  Placed(r, row)
BY DEF Admin!TypeOK, Placed, OrderRow

\* A row that has a step is not idle.
LEMMA NotIdle ==
  ASSUME NEW r \in Requests, order[r].step \in {"counting", "writing"}
  PROVE  order[r] # Admin!Idle
BY DEF Admin!Idle

\* What carrying out an order makes of the account it is about.
LEMMA CarriedRow ==
  ASSUME NEW row \in Admin!Account, NEW o \in Admin!Order, row.exists <=> o.op # "create"
  PROVE  /\ Admin!Carried(row, o) \in Admin!Account
         /\ Admin!Carried(row, o).exists
<1>0. row.exists => row \in [exists : {TRUE}, active : BOOLEAN, roles : SUBSET RoleCodes]
  BY AccountRow
<1>1. CASE o.op = "create"
  <2>1. Admin!Carried(row, o) = [exists |-> TRUE, active |-> o.active, roles |-> o.roles]
    BY <1>1 DEF Admin!Carried
  <2> QED BY <1>1, <2>1, OrderFields DEF Admin!Account
<1>2. CASE o.op = "switch"
  <2>1. Admin!Carried(row, o) = [row EXCEPT !.active = o.active]
    BY <1>2 DEF Admin!Carried
  <2> QED BY <1>0, <1>2, <2>1, OrderFields DEF Admin!Account
<1>3. CASE o.op = "grant"
  <2>1. Admin!Carried(row, o) = [row EXCEPT !.roles = row.roles \union {o.role}]
    BY <1>3 DEF Admin!Carried
  <2>2. row.exists /\ o.role \in RoleCodes
    BY <1>3, OrderFields
  <2> QED BY <1>0, <2>1, <2>2 DEF Admin!Account
<1>4. CASE o.op = "revoke"
  <2>1. Admin!Carried(row, o) = [row EXCEPT !.roles = row.roles \ {o.role}]
    BY <1>4 DEF Admin!Carried
  <2> QED BY <1>0, <1>4, <2>1, OrderFields DEF Admin!Account
<1> QED BY <1>1, <1>2, <1>3, <1>4, OrderFields

\* What request r writes: its account becomes row, its audit tells of told.
Writes(r, row, told) ==
  /\ account' = [account EXCEPT ![order[r].user] = row]
  /\ trail' = [trail EXCEPT ![order[r].user] = told]
  /\ Placed(r, Admin!Idle)

\* A commit, spelled out.
LEMMA WriteWrites ==
  ASSUME AdminInv, NEW r \in Requests, Admin!Write(r)
  PROVE  LET o    == order[r].order
             seen == order[r].seen
             u    == order[r].user
             row  == IF Admin!Noop(seen, o) THEN account[u] ELSE Admin!Carried(account[u], o)
             told == Admin!Carried(trail[u], o)
         IN  /\ order[r] # Admin!Idle /\ u \in Everyone /\ o \in Admin!Order
             /\ Informed(account, order[r])
             /\ account[u].exists <=> o.op # "create"
             /\ row \in Admin!Account /\ row.exists
             /\ told \in Admin!Account /\ told.exists
             /\ Writes(r, row, told)
<1> DEFINE o    == order[r].order
           seen == order[r].seen
           u    == order[r].user
           row  == IF Admin!Noop(seen, o) THEN account[u] ELSE Admin!Carried(account[u], o)
           told == Admin!Carried(trail[u], o)
<1>1. order[r] # Admin!Idle
  BY NotIdle DEF Admin!Write
<1>2. u \in Everyone /\ o \in Admin!Order /\ account[u] \in Admin!Account /\ trail[u] \in Admin!Account
  BY <1>1, OrderRows DEF AdminInv
<1>3. Informed(account, order[r]) /\ (trail[u].exists <=> account[u].exists)
  BY <1>1, <1>2 DEF AdminInv
<1>4. account[u].exists <=> o.op # "create"
  BY <1>3 DEF Informed, Admin!Write, Admin!Collides
<1>5. /\ Admin!Carried(account[u], o) \in Admin!Account /\ Admin!Carried(account[u], o).exists
      /\ told \in Admin!Account /\ told.exists
  BY <1>2, <1>3, <1>4, CarriedRow
<1>6. row \in Admin!Account /\ row.exists
  <2>1. CASE Admin!Noop(seen, o)
    <3>1. o.op = "switch"
      BY <2>1 DEF Admin!Noop
    <3> QED BY <1>2, <1>4, <2>1, <3>1
  <2>2. CASE ~Admin!Noop(seen, o)
    BY <1>5, <2>2
  <2> QED BY <2>1, <2>2
<1>7. Writes(r, row, told)
  <2>1. Placed(r, Admin!Idle)
    BY OrderMoves DEF Admin!Write, AdminInv
  <2> QED BY <2>1 DEF Admin!Write, Writes
<1> QED BY <1>1, <1>2, <1>3, <1>4, <1>5, <1>6, <1>7

\* The types, and what requests know, are kept however requests overlap.
LEMMA AdminStays ==
  ASSUME AdminInv, [Admin!Next]_Admin!vars
  PROVE  AdminInv'
<1>1. ASSUME NEW r \in Requests, NEW u \in Everyone, NEW o \in Admin!Order, Admin!Load(r, u, o)
      PROVE  AdminInv'
  <2> DEFINE row == [step |-> IF Admin!Deposes(account[u], o) THEN "counting" ELSE "writing",
                     user |-> u, order |-> o, seen |-> account[u]]
  <2>1. row \in OrderRow
    BY DEF OrderRow, AdminInv, Admin!TypeOK
  <2>2. Placed(r, row)
    BY <1>1, <2>1, OrderMoves DEF Admin!Load, AdminInv
  <2>3. account[u].exists <=> o.op # "create"
    BY <1>1, OrderFields DEF Admin!Load, Admin!Acceptable
  <2>4. account' = account /\ trail' = trail
    BY <1>1 DEF Admin!Load
  <2>5. Informed(account', row)
    BY <2>3, <2>4 DEF Informed
  <2> HIDE DEF row
  <2>6. \A q \in Requests : order'[q] # Admin!Idle => Informed(account', order'[q])
    BY <2>2, <2>4, <2>5 DEF Placed, AdminInv, Informed
  <2> QED BY <2>2, <2>4, <2>6 DEF AdminInv, Admin!TypeOK, Placed, OrderRow
<1>2. ASSUME NEW r \in Requests, Admin!Count(r) \/ Admin!Collide(r)
      PROVE  AdminInv'
  <2>1. order[r] # Admin!Idle /\ order[r] \in OrderRow /\ Informed(account, order[r])
    BY <1>2, NotIdle, OrderRows DEF Admin!Count, Admin!Collide, AdminInv
  <2>2. account' = account /\ trail' = trail
    BY <1>2 DEF Admin!Count, Admin!Collide
  <2>3. PICK row \in {Admin!Idle, [order[r] EXCEPT !.step = "writing"]} :
          order' = [order EXCEPT ![r] = row]
    BY <1>2 DEF Admin!Count, Admin!Collide
  <2>4. row \in {Admin!Idle} \union OrderRow /\ (row # Admin!Idle => Informed(account', row))
    BY <2>1, <2>2, <2>3 DEF OrderRow, Informed
  <2>5. Placed(r, row)
    BY <2>3, <2>4, OrderMoves DEF AdminInv
  <2>6. \A q \in Requests : order'[q] # Admin!Idle => Informed(account', order'[q])
    BY <2>2, <2>4, <2>5 DEF Placed, AdminInv, Informed
  <2> QED BY <2>2, <2>5, <2>6 DEF AdminInv, Admin!TypeOK, Placed, OrderRow
<1>3. ASSUME NEW r \in Requests, Admin!Write(r)
      PROVE  AdminInv'
  <2> DEFINE u    == order[r].user
             row  == IF Admin!Noop(order[r].seen, order[r].order)
                     THEN account[u] ELSE Admin!Carried(account[u], order[r].order)
             told == Admin!Carried(trail[u], order[r].order)
  <2>1. /\ u \in Everyone
        /\ row \in Admin!Account /\ row.exists /\ told \in Admin!Account /\ told.exists
        /\ Writes(r, row, told)
    BY <1>3, WriteWrites
  <2> HIDE DEF u, row, told
  <2>2. /\ account' \in [Everyone -> Admin!Account] /\ trail' \in [Everyone -> Admin!Account]
        /\ account'[u] = row /\ trail'[u] = told
        /\ \A v \in Everyone : v # u => account'[v] = account[v] /\ trail'[v] = trail[v]
    BY <2>1 DEF Writes, AdminInv, Admin!TypeOK, u
  <2>3. \A v \in Everyone : /\ account[v].exists => account'[v].exists
                            /\ trail'[v].exists <=> account'[v].exists
    BY <2>1, <2>2 DEF AdminInv
  <2>4. Placed(r, Admin!Idle)
    BY <2>1 DEF Writes
  <2>5. ASSUME NEW q \in Requests, order'[q] # Admin!Idle
        PROVE  Informed(account', order'[q])
    <3>1. order'[q] = order[q] /\ order[q] # Admin!Idle
      BY <2>4, <2>5 DEF Placed
    <3>2. Informed(account, order[q]) /\ order[q].user \in Everyone
      BY <3>1, OrderRows DEF AdminInv
    <3> QED BY <2>3, <3>1, <3>2 DEF Informed
  <2> QED BY <2>2, <2>3, <2>4, <2>5 DEF AdminInv, Admin!TypeOK, Placed, OrderRow
<1>4. CASE UNCHANGED Admin!vars
  BY <1>4 DEF Admin!vars, AdminInv, Admin!TypeOK, Informed
<1> QED BY <1>1, <1>2, <1>3, <1>4 DEF Admin!Next

\* With more than one active administrator, another remains beside any one.
LEMMA MoreThanOne ==
  ASSUME ~(Cardinality(Admin!ActiveAdmins) <= 1), NEW user
  PROVE  AnotherRemains(account, user)
<1> SUFFICES ASSUME ~AnotherRemains(account, user)  PROVE Cardinality(Admin!ActiveAdmins) <= 1
  OBVIOUS
<1>1. Admin!ActiveAdmins = {} \/ Admin!ActiveAdmins = {user}
  BY DEF AnotherRemains, Admin!ActiveAdmins, Admin!IsActiveAdmin
<1>2. Cardinality({}) = 0 /\ Cardinality({user}) = 1
  BY FS_EmptySet, FS_Singleton
<1> QED BY <1>1, <1>2

\* An order that deposes nobody leaves an administrator what he was.
LEMMA StaysAdmin ==
  ASSUME NEW row \in Admin!Account, NEW o \in Admin!Order,
         row.active, "ADMIN" \in row.roles, o.op # "create", ~Admin!Deposes(row, o)
  PROVE  Admin!Carried(row, o).active /\ "ADMIN" \in Admin!Carried(row, o).roles
<1>0. row.exists /\ row \in [exists : {TRUE}, active : BOOLEAN, roles : SUBSET RoleCodes]
  BY AccountRow
<1>1. CASE o.op = "switch"
  <2>1. o.active
    BY <1>1 DEF Admin!Deposes
  <2>2. Admin!Carried(row, o) = [row EXCEPT !.active = o.active]
    BY <1>1 DEF Admin!Carried
  <2> QED BY <1>0, <2>1, <2>2
<1>2. CASE o.op = "grant"
  <2>1. Admin!Carried(row, o) = [row EXCEPT !.roles = row.roles \union {o.role}]
    BY <1>2 DEF Admin!Carried
  <2> QED BY <1>0, <2>1
<1>3. CASE o.op = "revoke"
  <2>1. o.role # "ADMIN"
    BY <1>3 DEF Admin!Deposes
  <2>2. Admin!Carried(row, o) = [row EXCEPT !.roles = row.roles \ {o.role}]
    BY <1>3 DEF Admin!Carried
  <2> QED BY <1>0, <2>1, <2>2
<1> QED BY <1>1, <1>2, <1>3, OrderFields

\* What a write that changes no column would write is what is there.
LEMMA NoopKeepsRow ==
  ASSUME NEW row \in Admin!Account, NEW o \in Admin!Order, row.exists, Admin!Noop(row, o)
  PROVE  Admin!Carried(row, o) = row
<1>1. row \in [exists : {TRUE}, active : BOOLEAN, roles : SUBSET RoleCodes]
  BY AccountRow
<1>2. Admin!Carried(row, o) = [row EXCEPT !.active = row.active]
  BY DEF Admin!Noop, Admin!Carried
<1> QED BY <1>1, <1>2

\* Requests that come one by one act on what is there.
LEMMA OrderlyStays ==
  ASSUME AdminInv, OrderlyInv, part = "one by one", OneAtATime', Admin!Next
  PROVE  /\ Admin!AdminRemains' /\ Admin!AuditTellsTheAccount'
         /\ \A r \in Requests : order'[r] # Admin!Idle => UpToDate(account', order'[r])
<1>0. /\ OneAtATime /\ Admin!AdminRemains /\ trail = account
      /\ \A r \in Requests : order[r] # Admin!Idle => UpToDate(account, order[r])
  BY DEF OrderlyInv, Admin!AuditTellsTheAccount
<1>1. ASSUME NEW r \in Requests, NEW row \in {Admin!Idle} \union OrderRow, Placed(r, row),
             account' = account, trail' = trail, row # Admin!Idle => UpToDate(account, row)
      PROVE  /\ Admin!AdminRemains' /\ Admin!AuditTellsTheAccount'
             /\ \A q \in Requests : order'[q] # Admin!Idle => UpToDate(account', order'[q])
  BY <1>0, <1>1 DEF Placed, UpToDate, AnotherRemains, Admin!AdminRemains,
     Admin!AuditTellsTheAccount, Admin!ActiveAdmins, Admin!IsActiveAdmin
<1>2. ASSUME NEW r \in Requests, NEW u \in Everyone, NEW o \in Admin!Order, Admin!Load(r, u, o)
      PROVE  \E row \in OrderRow : Placed(r, row) /\ UpToDate(account, row)
  <2> DEFINE row == [step |-> IF Admin!Deposes(account[u], o) THEN "counting" ELSE "writing",
                     user |-> u, order |-> o, seen |-> account[u]]
  <2>1. row \in OrderRow
    BY DEF OrderRow, AdminInv, Admin!TypeOK
  <2>2. Placed(r, row)
    BY <1>2, <2>1, OrderMoves DEF Admin!Load, AdminInv
  <2>3. UpToDate(account, row)
    BY DEF UpToDate
  <2> QED BY <2>1, <2>2, <2>3
<1>3. ASSUME NEW r \in Requests, Admin!Count(r)
      PROVE  \E row \in {Admin!Idle} \union OrderRow :
               Placed(r, row) /\ (row # Admin!Idle => UpToDate(account, row))
  <2>1. order[r] # Admin!Idle /\ order[r] \in OrderRow /\ UpToDate(account, order[r])
    <3>1. order[r].step \in {"counting", "writing"}
      BY <1>3 DEF Admin!Count
    <3>2. order[r] # Admin!Idle
      BY <3>1, NotIdle
    <3> QED BY <1>0, <3>2, OrderRows DEF AdminInv
  <2>2. CASE Cardinality(Admin!ActiveAdmins) <= 1
    <3>1. order' = [order EXCEPT ![r] = Admin!Idle]
      BY <1>3, <2>2, SameCounts DEF Admin!Count
    <3>2. Placed(r, Admin!Idle)
      BY <3>1, OrderMoves DEF AdminInv
    <3> QED BY <3>2
  <2>3. CASE ~(Cardinality(Admin!ActiveAdmins) <= 1)
    <3> DEFINE row == [order[r] EXCEPT !.step = "writing"]
    <3>1. order' = [order EXCEPT ![r] = row]
      BY <1>3, <2>3, SameCounts DEF Admin!Count
    <3>2. row \in OrderRow /\ row.user = order[r].user /\ row.seen = order[r].seen
      BY <2>1 DEF OrderRow
    <3>3. Placed(r, row)
      BY <3>1, <3>2, OrderMoves DEF AdminInv
    <3>4. UpToDate(account, row)
      BY <2>1, <2>3, <3>2, MoreThanOne DEF UpToDate
    <3> QED BY <3>2, <3>3, <3>4
  <2> QED BY <2>2, <2>3
<1>4. ASSUME NEW r \in Requests, Admin!Collide(r)
      PROVE  Placed(r, Admin!Idle)
  BY <1>4, OrderMoves DEF Admin!Collide, AdminInv
<1>5. ASSUME NEW r \in Requests, Admin!Write(r)
      PROVE  /\ Admin!AdminRemains' /\ Admin!AuditTellsTheAccount'
             /\ \A q \in Requests : order'[q] # Admin!Idle => UpToDate(account', order'[q])
  <2> DEFINE u    == order[r].user
             o    == order[r].order
             row  == IF Admin!Noop(order[r].seen, o) THEN account[u]
                     ELSE Admin!Carried(account[u], o)
             told == Admin!Carried(trail[u], o)
  <2>1. /\ order[r] # Admin!Idle /\ u \in Everyone /\ o \in Admin!Order
        /\ account[u].exists <=> o.op # "create"
        /\ Writes(r, row, told)
    BY <1>5, WriteWrites
  <2>2. UpToDate(account, order[r]) /\ order[r].step = "writing" /\ account[u] \in Admin!Account
    BY <1>0, <1>5, <2>1, OrderRows DEF Admin!Write, AdminInv
  <2>3. row = told
    <3>1. CASE Admin!Noop(account[u], o)
      <4>1. o.op = "switch"
        BY <3>1 DEF Admin!Noop
      <4>2. Admin!Carried(account[u], o) = account[u]
        BY <2>1, <2>2, <3>1, <4>1, NoopKeepsRow
      <4> QED BY <1>0, <4>2
    <3>2. CASE ~Admin!Noop(account[u], o)
      BY <1>0, <2>2, <3>2 DEF UpToDate
    <3> QED BY <3>1, <3>2
  <2>4. \A q \in Requests : order'[q] = Admin!Idle
    BY <1>0, <2>1 DEF OneAtATime, Writes, Placed
  <2>5. told = Admin!Carried(account[u], o)
    BY <1>0
  <2> HIDE DEF row, told
  <2>6. Admin!AuditTellsTheAccount'
    BY <1>0, <2>1, <2>3 DEF Writes, Admin!AuditTellsTheAccount
  <2>7. Admin!AdminRemains'
    <3>1. /\ account'[u] = told
          /\ \A v \in Everyone : v # u => account'[v] = account[v]
      BY <2>1, <2>3 DEF Writes, AdminInv, Admin!TypeOK
    <3>2. \E v \in Everyone : account'[v].active /\ "ADMIN" \in account'[v].roles
      <4>1. CASE Admin!Deposes(account[u], o)
        <5>1. PICK v \in Everyone \ {u} : account[v].active /\ "ADMIN" \in account[v].roles
          BY <2>2, <4>1 DEF UpToDate, AnotherRemains
        <5> QED BY <3>1, <5>1
      <4>2. CASE ~Admin!Deposes(account[u], o)
        <5>1. PICK v \in Everyone : account[v].active /\ "ADMIN" \in account[v].roles
          BY <1>0 DEF Admin!AdminRemains, Admin!ActiveAdmins, Admin!IsActiveAdmin
        <5>2. CASE v = u
          <6>1. account[u].exists
            BY <2>2, <5>1, <5>2, AccountRow
          <6>2. told.active /\ "ADMIN" \in told.roles
            BY <2>1, <2>2, <2>5, <4>2, <5>1, <5>2, <6>1, StaysAdmin
          <6> QED BY <2>1, <3>1, <6>2
        <5>3. CASE v # u
          BY <3>1, <5>1, <5>3
        <5> QED BY <5>2, <5>3
      <4> QED BY <4>1, <4>2
    <3> QED BY <3>2 DEF Admin!AdminRemains, Admin!ActiveAdmins, Admin!IsActiveAdmin
  <2> QED BY <2>4, <2>6, <2>7
<1>6. ASSUME NEW r \in Requests, Admin!Count(r) \/ Admin!Collide(r)
      PROVE  account' = account /\ trail' = trail
  BY <1>6 DEF Admin!Count, Admin!Collide
<1>7. ASSUME NEW r \in Requests, NEW u \in Everyone, NEW o \in Admin!Order, Admin!Load(r, u, o)
      PROVE  account' = account /\ trail' = trail
  BY <1>7 DEF Admin!Load
<1> QED
  <2>1. ASSUME NEW r \in Requests, NEW u \in Everyone, NEW o \in Admin!Order, Admin!Load(r, u, o)
        PROVE  /\ Admin!AdminRemains' /\ Admin!AuditTellsTheAccount'
               /\ \A q \in Requests : order'[q] # Admin!Idle => UpToDate(account', order'[q])
    <3>1. PICK row \in OrderRow : Placed(r, row) /\ UpToDate(account, row)
      BY <2>1, <1>2
    <3> QED BY <1>1, <1>7, <2>1, <3>1
  <2>2. ASSUME NEW r \in Requests, Admin!Count(r)
        PROVE  /\ Admin!AdminRemains' /\ Admin!AuditTellsTheAccount'
               /\ \A q \in Requests : order'[q] # Admin!Idle => UpToDate(account', order'[q])
    <3>1. PICK row \in {Admin!Idle} \union OrderRow :
            Placed(r, row) /\ (row # Admin!Idle => UpToDate(account, row))
      BY <2>2, <1>3
    <3> QED BY <1>1, <1>6, <2>2, <3>1
  <2>3. ASSUME NEW r \in Requests, Admin!Collide(r)
        PROVE  /\ Admin!AdminRemains' /\ Admin!AuditTellsTheAccount'
               /\ \A q \in Requests : order'[q] # Admin!Idle => UpToDate(account', order'[q])
    BY <1>1, <1>4, <1>6, <2>3
  <2> QED BY <1>5, <2>1, <2>2, <2>3 DEF Admin!Next

\* Both parts of the invariant hold in every reachable state.
LEMMA AdminHolds == AccountsSpec => [](AdminInv /\ OrderlyInv)
<1>1. AccountsInit => AdminInv /\ OrderlyInv
  <2> SUFFICES ASSUME AccountsInit  PROVE AdminInv /\ OrderlyInv
    OBVIOUS
  <2> USE DEF AccountsInit, Admin!Init
  <2>1. Users \subseteq Everyone /\ Users # {} /\ "ADMIN" \in RoleCodes
    BY PartsAssumption DEF Admin!FoundersAssumption
  <2>2. Admin!TypeOK
    BY <2>1 DEF Admin!TypeOK, Admin!Account, Admin!Administrator, Admin!NoAccount
  <2>3. \A r \in Requests : order[r] = Admin!Idle
    OBVIOUS
  <2>4. Admin!AdminRemains
    <3>1. PICK u \in Users : TRUE
      BY <2>1
    <3>2. u \in Everyone /\ account[u] = Admin!Administrator
      BY <2>1, <3>1
    <3> QED BY <3>2 DEF Admin!AdminRemains, Admin!ActiveAdmins, Admin!IsActiveAdmin,
               Admin!Administrator
  <2> QED BY <2>2, <2>3, <2>4 DEF AdminInv, OrderlyInv, OneAtATime, Admin!AuditTellsTheAccount
<1>2. AdminInv /\ OrderlyInv /\ [AccountsNext]_accountsVars => AdminInv' /\ OrderlyInv'
  <2> SUFFICES ASSUME AdminInv, OrderlyInv, [AccountsNext]_accountsVars
               PROVE  AdminInv' /\ OrderlyInv'
    OBVIOUS
  <2>1. AdminInv'
    BY AdminSteps, AdminStays
  <2>2. OrderlyInv'
    <3>1. CASE UNCHANGED Admin!vars
      BY <3>1, AdminSteps DEF Admin!vars, OrderlyInv, OneAtATime, UpToDate, AnotherRemains,
         Admin!AdminRemains, Admin!AuditTellsTheAccount, Admin!ActiveAdmins, Admin!IsActiveAdmin
    <3>2. CASE Admin!Next /\ (part = "one by one" => OneAtATime')
      <4>1. part' = part
        BY AdminSteps
      <4> QED BY <3>2, <4>1, OrderlyStays DEF OrderlyInv
    <3> QED BY <3>1, <3>2, AdminSteps
  <2> QED BY <2>1, <2>2
<1> QED BY <1>1, <1>2, PTL DEF AccountsSpec

\* One by one, an administrator remains whatever is switched off or revoked
\* (count_active_admin_users), and the audit rows tell what became of every
\* account (update_admin_user, role_service.py).
THEOREM AdministrationStaysOrderly == AccountsSpec => []AdministrationIsOrderly
<1>1. OrderlyInv => AdministrationIsOrderly
  BY DEF OrderlyInv, AdministrationIsOrderly
<1> QED BY <1>1, AdminHolds, PTL

\* Only a request that saw an account switched off switches it on again: an
\* UPDATE is sent for a column that differs from what was read.
LEMMA ActivationIsSeen ==
  AccountsSpec => Admin!StaleActivationIsIgnored
<1>1. AdminInv /\ [AccountsNext]_accountsVars =>
        [\A u \in Everyone :
           account[u].exists /\ ~account[u].active /\ account'[u].active
             => \E r \in Requests : order[r].step = "writing" /\ order[r].user = u
                                    /\ ~order[r].seen.active]_Admin!vars
  <2> SUFFICES ASSUME AdminInv, Admin!Next, NEW v \in Everyone,
                      account[v].exists, ~account[v].active, account'[v].active
               PROVE  \E r \in Requests : order[r].step = "writing" /\ order[r].user = v
                                          /\ ~order[r].seen.active
    BY AdminSteps
  <2>1. PICK r \in Requests : Admin!Write(r)
    BY DEF Admin!Next, Admin!Load, Admin!Count, Admin!Collide
  <2> DEFINE u    == order[r].user
             o    == order[r].order
             seen == order[r].seen
             row  == IF Admin!Noop(seen, o) THEN account[u] ELSE Admin!Carried(account[u], o)
             told == Admin!Carried(trail[u], o)
  <2>2. /\ u \in Everyone /\ o \in Admin!Order /\ Writes(r, row, told)
        /\ account[u].exists <=> o.op # "create" /\ order[r] # Admin!Idle
    BY <2>1, WriteWrites
  <2>3. v = u /\ account'[u] = row
    BY <2>2 DEF Writes, AdminInv, Admin!TypeOK
  <2>4. ~Admin!Noop(seen, o) /\ Admin!Carried(account[u], o).active
    BY <2>3
  <2>5. o.op \in {"switch", "grant", "revoke"} /\ seen \in Admin!Account
        /\ account[u] \in [exists : {TRUE}, active : BOOLEAN, roles : SUBSET RoleCodes]
    BY <2>2, <2>3, OrderFields, OrderRows, AccountRow DEF AdminInv
  <2>6. o.op = "switch" /\ o.active
    <3>1. CASE o.op = "switch"
      <4>1. Admin!Carried(account[u], o) = [account[u] EXCEPT !.active = o.active]
        BY <3>1 DEF Admin!Carried
      <4> QED BY <2>4, <2>5, <3>1, <4>1
    <3>2. CASE o.op = "grant"
      <4>1. Admin!Carried(account[u], o) = [account[u] EXCEPT !.roles = account[u].roles \union {o.role}]
        BY <3>2 DEF Admin!Carried
      <4> QED BY <2>3, <2>4, <2>5, <4>1
    <3>3. CASE o.op = "revoke"
      <4>1. Admin!Carried(account[u], o) = [account[u] EXCEPT !.roles = account[u].roles \ {o.role}]
        BY <3>3 DEF Admin!Carried
      <4> QED BY <2>3, <2>4, <2>5, <4>1
    <3> QED BY <2>5, <3>1, <3>2, <3>3
  <2>7. ~seen.active
    <3>1. o.active \in BOOLEAN /\ seen.active \in BOOLEAN
      BY <2>2, <2>5, <2>6, OrderFields, AccountRow
    <3> QED BY <2>4, <2>6, <3>1 DEF Admin!Noop
  <2> QED BY <2>1, <2>3, <2>7 DEF Admin!Write
<1> QED BY <1>1, AdminHolds, PTL DEF AccountsSpec, Admin!StaleActivationIsIgnored

-----------------------------------------------------------------------------
(***************************************************************************)
(* The inbox                                                               *)
(*                                                                         *)
(* A request marks only rows it has locked, and it has looked at each of   *)
(* them with the lock on it; so they are unread until it commits, and no   *)
(* other request marks them.                                               *)
(***************************************************************************)
Marking == [step : {"idle", "one", "all"}, at : 0..MaxTime,
            todo : SUBSET Notices, mine : SUBSET Notices]

\* The rows a request has locked are on record, unread, and its alone.
MarksItsOwn ==
  \A r \in Requests :
    /\ marking[r].todo \subseteq arrived
    /\ \A n \in marking[r].mine : n \in arrived /\ Inbox!IsUnread(n)
    /\ \A q \in Requests : q # r => marking[r].mine \cap marking[q].mine = {}

ReadOnes == {n \in Notices : ~Inbox!IsUnread(n)}

InboxInv == Inbox!TypeOK /\ MarksItsOwn /\ updated = Cardinality(ReadOnes)

\* Request r is at this row now; the others are where they were.
Marks(r, row) ==
  /\ marking' \in [Requests -> Marking]
  /\ marking'[r] = row
  /\ \A q \in Requests : q # r => marking'[q] = marking[q]

\* The step of a request moves nothing but that request.
LEMMA MarkingMoves ==
  ASSUME Inbox!TypeOK, NEW r \in Requests, NEW row \in Marking,
         marking' = [marking EXCEPT ![r] = row]
  PROVE  Marks(r, row)
BY DEF Inbox!TypeOK, Marks, Marking

\* A request that has nothing to do is idle.
LEMMA IdleMarking == Inbox!Idle \in Marking /\ Inbox!Idle.todo = {} /\ Inbox!Idle.mine = {}
BY PartsAssumption DEF Inbox!Idle, Marking, Inbox!InboxAssumption

\* Reading or locking more rows keeps the invariant if those are free and unread.
LEMMA LockingKeepsInbox ==
  ASSUME InboxInv, NEW r \in Requests, NEW row \in Marking, Marks(r, row),
         UNCHANGED <<arrived, read_at, now, updated>>,
         row.todo \subseteq arrived,
         \A n \in row.mine : \/ n \in marking[r].mine
                             \/ n \in arrived /\ Inbox!IsUnread(n) /\ ~Inbox!IsLocked(n)
  PROVE  InboxInv'
<1>1. Inbox!TypeOK'
  BY DEF InboxInv, Inbox!TypeOK, Marks, Marking
<1>2. ASSUME NEW q \in Requests
      PROVE  /\ marking'[q].todo \subseteq arrived
             /\ \A n \in marking'[q].mine : n \in arrived /\ Inbox!IsUnread(n)
  BY DEF InboxInv, MarksItsOwn, Marks
<1>3. ASSUME NEW q \in Requests, NEW p \in Requests, q # p
      PROVE  marking'[q].mine \cap marking'[p].mine = {}
  BY <1>3 DEF InboxInv, MarksItsOwn, Marks, Inbox!IsLocked
<1>4. MarksItsOwn'
  BY <1>2, <1>3 DEF MarksItsOwn, Inbox!IsUnread
<1>5. ReadOnes' = ReadOnes
  BY DEF ReadOnes, Inbox!IsUnread
<1> QED BY <1>1, <1>4, <1>5 DEF InboxInv

\* A commit marks rows that were unread, and counts each of them once.
LEMMA CommitKeepsInbox ==
  ASSUME InboxInv, NEW r \in Requests, Inbox!Commit(r)
  PROVE  InboxInv' /\ \A n \in Notices : ~Inbox!IsUnread(n) => read_at'[n] = read_at[n]
<1>0. marking[r] \in Marking /\ marking[r].mine \in SUBSET Notices /\ marking[r].at \in 0..MaxTime
  BY DEF InboxInv, Inbox!TypeOK, Marking
<1>1. Marks(r, Inbox!Idle)
  BY MarkingMoves, IdleMarking DEF Inbox!Commit, InboxInv
<1>2. /\ arrived' = arrived /\ now' = now
      /\ updated' = updated + Cardinality(marking[r].mine)
  BY SameCounts DEF Inbox!Commit
<1>3. read_at' = [n \in Notices |-> IF n \in marking[r].mine THEN marking[r].at ELSE read_at[n]]
  BY DEF Inbox!Commit
<1>4. \A n \in marking[r].mine : n \in arrived /\ Inbox!IsUnread(n)
  BY DEF InboxInv, MarksItsOwn
<1>5. \A n \in Notices : ~Inbox!IsUnread(n) => read_at'[n] = read_at[n]
  BY <1>3, <1>4
<1>6. ReadOnes' = ReadOnes \union marking[r].mine /\ ReadOnes \cap marking[r].mine = {}
  <2>1. \A t \in 0..MaxTime : t # Inbox!Unread
    BY PartsAssumption DEF Inbox!Unread, Inbox!InboxAssumption
  <2>2. \A n \in Notices : read_at'[n] # Inbox!Unread
                             <=> n \in marking[r].mine \/ read_at[n] # Inbox!Unread
    BY <1>0, <1>3, <2>1
  <2> QED BY <1>0, <1>4, <2>2 DEF ReadOnes, Inbox!IsUnread
<1>7. Cardinality(ReadOnes') = Cardinality(ReadOnes) + Cardinality(marking[r].mine)
  <2>1. IsFiniteSet(Notices)
    BY PartsAssumption, SameCounts DEF Inbox!InboxAssumption
  <2>2. IsFiniteSet(ReadOnes) /\ IsFiniteSet(marking[r].mine)
    BY <1>0, <2>1, FS_Subset DEF ReadOnes
  <2>3. Cardinality(ReadOnes \cap marking[r].mine) = 0
    BY <1>6, FS_EmptySet
  <2>4. Cardinality(ReadOnes) \in Nat /\ Cardinality(marking[r].mine) \in Nat
    BY <2>2, FS_CardinalityType
  <2>5. Cardinality(ReadOnes \union marking[r].mine)
          = Cardinality(ReadOnes) + Cardinality(marking[r].mine)
              - Cardinality(ReadOnes \cap marking[r].mine)
    BY <2>2, FS_Union
  <2> QED BY <1>6, <2>3, <2>4, <2>5
<1>8. updated' = Cardinality(ReadOnes') /\ updated' \in Nat
  <2>1. Cardinality(marking[r].mine) \in Nat
    BY <1>0, PartsAssumption, SameCounts, FS_Subset, FS_CardinalityType DEF Inbox!InboxAssumption
  <2> QED BY <1>2, <1>7, <2>1 DEF InboxInv, Inbox!TypeOK
<1>9. Inbox!TypeOK'
  <2>1. read_at' \in [Notices -> 0..MaxTime \union {Inbox!Unread}]
    BY <1>0, <1>3 DEF InboxInv, Inbox!TypeOK
  <2>2. \A n \in Notices \ arrived : read_at'[n] = Inbox!Unread
    BY <1>3, <1>4 DEF InboxInv, Inbox!TypeOK
  <2> QED BY <1>1, <1>2, <1>8, <2>1, <2>2 DEF InboxInv, Inbox!TypeOK, Marks, Marking
<1>10. MarksItsOwn'
  <2>1. ASSUME NEW q \in Requests
        PROVE  /\ marking'[q].todo \subseteq arrived
               /\ \A n \in marking'[q].mine : n \in arrived /\ read_at'[n] = Inbox!Unread
    <3>1. CASE q = r
      BY <1>1, <3>1, IdleMarking DEF Marks
    <3>2. CASE q # r
      <4>1. marking'[q] = marking[q] /\ marking[q].mine \in SUBSET Notices
        BY <1>1, <3>2 DEF Marks, InboxInv, Inbox!TypeOK
      <4>2. marking[r].mine \cap marking[q].mine = {} /\ marking[q].todo \subseteq arrived
            /\ \A n \in marking[q].mine : n \in arrived /\ read_at[n] = Inbox!Unread
        BY <3>2 DEF InboxInv, MarksItsOwn, Inbox!IsUnread
      <4> QED BY <1>3, <4>1, <4>2
    <3> QED BY <3>1, <3>2
  <2>2. ASSUME NEW q \in Requests, NEW p \in Requests, q # p
        PROVE  marking'[q].mine \cap marking'[p].mine = {}
    BY <1>1, <2>2, IdleMarking DEF InboxInv, MarksItsOwn, Marks
  <2> QED BY <1>2, <2>1, <2>2 DEF MarksItsOwn, Inbox!IsUnread
<1> QED BY <1>5, <1>8, <1>9, <1>10 DEF InboxInv

\* The invariant is kept, and no step changes the time of a first reading.
LEMMA InboxStays ==
  ASSUME InboxInv, [Inbox!Next]_Inbox!vars
  PROVE  InboxInv' /\ \A n \in Notices : ~Inbox!IsUnread(n) => read_at'[n] = read_at[n]
<1>1. ASSUME NEW r \in Requests, NEW n \in Notices, Inbox!Look(r, n)
      PROVE  InboxInv' /\ read_at' = read_at
  <2> DEFINE row == [step |-> "one", at |-> now, todo |-> {}, mine |-> {n}]
  <2>1. row \in Marking
    BY DEF Marking, InboxInv, Inbox!TypeOK
  <2>2. Marks(r, row)
    BY <1>1, <2>1, MarkingMoves DEF Inbox!Look, InboxInv
  <2> QED BY <1>1, <2>1, <2>2, LockingKeepsInbox DEF Inbox!Look
<1>2. ASSUME NEW r \in Requests, Inbox!StartAll(r)
      PROVE  InboxInv' /\ read_at' = read_at
  <2> DEFINE row == [step |-> "all", at |-> now, todo |-> {n \in arrived : Inbox!IsUnread(n)},
                     mine |-> {}]
  <2>1. row \in Marking
    BY DEF Marking, InboxInv, Inbox!TypeOK
  <2>2. Marks(r, row)
    BY <1>2, <2>1, MarkingMoves DEF Inbox!StartAll, InboxInv
  <2> QED BY <1>2, <2>1, <2>2, LockingKeepsInbox DEF Inbox!StartAll
<1>3. ASSUME NEW r \in Requests, NEW n \in Notices, Inbox!Take(r, n)
      PROVE  InboxInv' /\ read_at' = read_at
  <2> DEFINE mine == IF Inbox!IsUnread(n) THEN marking[r].mine \union {n} ELSE marking[r].mine
             row  == [marking[r] EXCEPT !.todo = marking[r].todo \ {n}, !.mine = mine]
  <2>1. marking[r] \in Marking /\ mine \in SUBSET Notices
    BY DEF Marking, InboxInv, Inbox!TypeOK
  <2>2. marking' = [marking EXCEPT ![r] = row]
    BY <1>3 DEF Inbox!Take
  <2>3. \A m \in mine : m \in marking[r].mine \/ (m = n /\ Inbox!IsUnread(n))
    OBVIOUS
  <2> HIDE DEF mine
  <2>4. row \in Marking /\ row.todo = marking[r].todo \ {n} /\ row.mine = mine
    BY <2>1 DEF Marking
  <2>5. Marks(r, row)
    BY <2>2, <2>4, MarkingMoves DEF InboxInv
  <2>6. marking[r].todo \subseteq arrived /\ n \in arrived /\ ~Inbox!IsLocked(n)
    BY <1>3 DEF Inbox!Take, InboxInv, MarksItsOwn
  <2>7. UNCHANGED <<arrived, read_at, now, updated>>
    BY <1>3 DEF Inbox!Take
  <2> HIDE DEF row
  <2> QED BY <2>3, <2>4, <2>5, <2>6, <2>7, LockingKeepsInbox
<1>4. ASSUME NEW r \in Requests, Inbox!Fail(r)
      PROVE  InboxInv' /\ read_at' = read_at
  <2>1. Marks(r, Inbox!Idle)
    BY <1>4, MarkingMoves, IdleMarking DEF Inbox!Fail, InboxInv
  <2> QED BY <1>4, <2>1, IdleMarking, LockingKeepsInbox DEF Inbox!Fail
<1>5. ASSUME NEW n \in Notices, Inbox!Arrive(n)
      PROVE  InboxInv' /\ read_at' = read_at
  <2>1. ReadOnes' = ReadOnes
    BY <1>5 DEF Inbox!Arrive, ReadOnes, Inbox!IsUnread
  <2> QED BY <1>5, <2>1 DEF Inbox!Arrive, InboxInv, Inbox!TypeOK, MarksItsOwn, Inbox!IsUnread
<1>6. CASE Inbox!Tick
  <2>1. ReadOnes' = ReadOnes
    BY <1>6 DEF Inbox!Tick, ReadOnes, Inbox!IsUnread
  <2>2. now' \in 0..MaxTime
    BY <1>6, PartsAssumption DEF Inbox!Tick, InboxInv, Inbox!TypeOK, Inbox!InboxAssumption
  <2> QED BY <1>6, <2>1, <2>2 DEF Inbox!Tick, InboxInv, Inbox!TypeOK, MarksItsOwn, Inbox!IsUnread
<1>7. CASE UNCHANGED Inbox!vars
  <2>1. ReadOnes' = ReadOnes
    BY <1>7 DEF Inbox!vars, ReadOnes, Inbox!IsUnread
  <2> QED BY <1>7, <2>1 DEF Inbox!vars, InboxInv, Inbox!TypeOK, MarksItsOwn, Inbox!IsUnread
<1>8. CASE \E r \in Requests : Inbox!Commit(r)
  BY <1>8, CommitKeepsInbox
<1>9. ASSUME Inbox!Next, ~Inbox!Tick, ~\E r \in Requests : Inbox!Commit(r)
      PROVE  InboxInv' /\ read_at' = read_at
  BY <1>1, <1>2, <1>3, <1>4, <1>5, <1>9 DEF Inbox!Next
<1>10. CASE Inbox!Next /\ ~Inbox!Tick /\ ~\E r \in Requests : Inbox!Commit(r)
  BY <1>9, <1>10
<1> QED BY <1>6, <1>7, <1>8, <1>10 DEF Inbox!Tick, Inbox!vars

\* Each notification keeps the time it was first read, whoever marks it again,
\* and is counted in one answer only (mark_notification_read, mark_all_read).
LEMMA InboxHolds ==
  AccountsSpec => [](Inbox!TypeOK /\ Inbox!EachIsCountedOnce) /\ Inbox!FirstReadIsKept
<1>1. AccountsInit => InboxInv
  <2> SUFFICES ASSUME Inbox!Init  PROVE InboxInv
    BY DEF AccountsInit
  <2>1. Inbox!TypeOK
    BY PartsAssumption DEF Inbox!Init, Inbox!TypeOK, Inbox!Idle, Inbox!InboxAssumption
  <2>2. MarksItsOwn
    BY DEF Inbox!Init, MarksItsOwn, Inbox!Idle
  <2>3. ReadOnes = {}
    BY DEF Inbox!Init, ReadOnes, Inbox!IsUnread
  <2>4. updated = Cardinality(ReadOnes)
    BY <2>3, FS_EmptySet DEF Inbox!Init
  <2> QED BY <2>1, <2>2, <2>4 DEF InboxInv
<1>2. InboxInv /\ [AccountsNext]_accountsVars => InboxInv'
  BY InboxSteps, InboxStays
<1>3. InboxInv => Inbox!TypeOK /\ Inbox!EachIsCountedOnce
  BY SameCounts DEF InboxInv, Inbox!EachIsCountedOnce, ReadOnes
<1>4. InboxInv /\ [AccountsNext]_accountsVars =>
        [\A n \in Notices : ~Inbox!IsUnread(n) => read_at'[n] = read_at[n]]_Inbox!vars
  BY InboxSteps, InboxStays
<1> QED BY <1>1, <1>2, <1>3, <1>4, PTL DEF AccountsSpec, Inbox!FirstReadIsKept

-----------------------------------------------------------------------------
(***************************************************************************)
(* All four parts                                                          *)
(***************************************************************************)
\* The rows, keys and local states of all four parts are what their modules say.
THEOREM AccountsTyped == AccountsSpec => []AccountsTypeOK
<1>1. AdminInv => Admin!TypeOK
  BY DEF AdminInv
<1>2. ThrottleInv => Throttle!TypeOK
  BY DEF ThrottleInv
<1> QED BY <1>1, <1>2, SessionsAreSessions, TypeCorrect, ThrottleStays, AdminHolds, InboxHolds,
           PTL DEF AccountsTypeOK

\* No request undoes what another has written without having seen it, in the
\* accounts and in the inbox.
THEOREM UpdatesAreKept == AccountsSpec => NoLostUpdate
BY ActivationIsSeen, InboxHolds, PTL DEF NoLostUpdate

\* The families of sessions are handed on and closed as they should be beside
\* the rest of what surrounds an account.
THEOREM FamiliesBesideTheRest == AccountsSpec => ImplementsFamilies
BY SessionsAreSessions, FamiliesImplemented, PTL
=============================================================================
