------------------------ MODULE TicketCycles_proofs -------------------------
(***************************************************************************)
(* Proofs about the resolution cycles of a ticket: the SLA rows, their     *)
(* pauses and the resolution records, which several handlers write and     *)
(* others trust.  One inductive invariant says how they fit together; the  *)
(* safety properties of TicketWorkflow about them, what may never change   *)
(* and the refinement of TicketLifecycle follow from it.                   *)
(*                                                                         *)
(* The invariant is a predicate on the values of one ticket: st its        *)
(* status, sla its RESOLUTION rows, ps their pauses, ra the times of its   *)
(* resolutions, and at the present time.                                   *)
(***************************************************************************)
EXTENDS TicketWorkflow_proofs

SlaRows    == [Cycles -> Runtime]
Periods == [Cycles -> Seq(PausePeriod)]
Records == [Cycles -> TimeOrNever]

\* Resolutions without gaps and in order, each closing the SLA row of its own
\* number; a row is only opened when all earlier cycles are resolved.
Balanced(sla, ra, at) ==
  \A c \in Cycles :
    /\ ra[c] # Never => /\ ra[c] <= at
                        /\ \A d \in 1..c : ra[d] # Never /\ ra[d] <= ra[c]
    /\ sla[c].status # "NONE" => \A d \in 1..(c - 1) : ra[d] # Never
    /\ sla[c].status = "COMPLETED" => ra[c] # Never
    /\ sla[c].status # "NONE" /\ ra[c] # Never =>
         sla[c].status = "COMPLETED" /\ sla[c].completedAt = ra[c]

\* The last pause that is open began at the given time.
HeldSince(periods, at) ==
  \E i \in DOMAIN periods :
    /\ IsOpen(periods[i])
    /\ periods[i].pausedAt = at
    /\ \A k \in DOMAIN periods : k > i => ~IsOpen(periods[k])

\* Each row is in a state the status of the ticket allows.
Clocked(st, sla, ps) ==
  \A c \in Cycles :
    /\ sla[c].status = "RUNNING" => st \in {"NEW", "ASSIGNED", "IN_PROGRESS"}
    /\ sla[c].status = "PAUSED" => st = "PENDING_INFO" /\ HeldSince(ps[c], sla[c].pausedAt)
    /\ sla[c].status = "NOT_APPLICABLE" => st = "REJECTED"

Blank(sla, ra, c) == sla[c].status = "NONE" /\ ra[c] = Never

\* c is the last cycle with a row or a resolution, and it has a resolution.
LastResult(sla, ra, c) == ra[c] # Never /\ \A d \in Cycles : d > c => Blank(sla, ra, d)

HandedBack == {"RESOLVED", "REOPENED", "CLOSED"}

\* A ticket that does not exist has no results, one that was handed back has one.
Accounted(st, sla, ra) ==
  /\ st = "NONE" => \A c \in Cycles : ra[c] = Never
  /\ st \in HandedBack => \E c \in Cycles : LastResult(sla, ra, c)

Coherent(st, sla, ps, ra, at) ==
  Balanced(sla, ra, at) /\ Clocked(st, sla, ps) /\ Accounted(st, sla, ra)

\* The inductive invariant.
CyclesCohere ==
  \A t \in Tickets :
    Coherent(ticket[t].status, resolutionSla[t], pauses[t], resolvedAt[t], now)

-----------------------------------------------------------------------------
(***************************************************************************)
(* What coherent rows look like                                            *)
(***************************************************************************)
\* Cycles are counted from one, without gaps.
LEMMA CyclesArePositive ==
  ASSUME NEW c \in Cycles
  PROVE  /\ c \in Nat \ {0}
         /\ 1..c \subseteq Cycles
         /\ \A d \in Cycles : d < c => d \in 1..(c - 1)
BY BoundsAssumption DEF Cycles

\* A live row is the last cycle, and it is unresolved: there is at most one.
LEMMA LiveIsLast ==
  ASSUME NEW sla, NEW ra, NEW at, Balanced(sla, ra, at), NEW c \in Cycles, IsLive(sla[c])
  PROVE  /\ ra[c] = Never
         /\ \A d \in Cycles : d > c => Blank(sla, ra, d)
         /\ \A d \in Cycles : IsLive(sla[d]) => d = c
<1>1. ASSUME NEW d \in Cycles, IsLive(sla[d])  PROVE ra[d] = Never
  BY <1>1 DEF Balanced, IsLive
<1>2. ASSUME NEW d \in Cycles, NEW e \in Cycles, e > d, IsLive(sla[d])
      PROVE  Blank(sla, ra, e)
  <2>1. d \in 1..(e - 1) /\ d \in 1..e
    BY <1>2 DEF Cycles
  <2>2. ra[d] = Never
    BY <1>1, <1>2
  <2> QED BY <2>1, <2>2 DEF Balanced, Blank
<1>3. ASSUME NEW d \in Cycles, IsLive(sla[d])  PROVE d = c
  <2>1. ~(d > c) /\ ~(c > d)
    BY <1>2, <1>3 DEF Blank, IsLive
  <2> QED BY <2>1 DEF Cycles
<1> QED BY <1>1, <1>2, <1>3

\* So the current SLA is the only live row.
LEMMA CurrentIsOnly ==
  ASSUME NEW t \in Tickets, NEW at, Balanced(resolutionSla[t], resolvedAt[t], at),
         NEW c \in Cycles, IsCurrentSla(t, c)
  PROVE  \A d \in Cycles : d # c => ~IsLive(resolutionSla[t][d])
BY LiveIsLast DEF IsCurrentSla

-----------------------------------------------------------------------------
(***************************************************************************)
(* What the row operations do to a ledger                                  *)
(***************************************************************************)

\* Time passes.
LEMMA BalancedLater ==
  ASSUME NEW sla, NEW ra \in Records, NEW at \in Int, Balanced(sla, ra, at),
         NEW later \in Int, at <= later
  PROVE  Balanced(sla, ra, later)
BY DEF Balanced, Records, TimeOrNever, Time, Never

\* Live rows are paused, resumed or voided.
LEMMA BalancedChange ==
  ASSUME NEW sla, NEW ra, NEW at, Balanced(sla, ra, at), NEW new,
         \A d \in Cycles : \/ new[d] = sla[d]
                           \/ /\ IsLive(sla[d])
                              /\ new[d].status \in {"RUNNING", "PAUSED", "NOT_APPLICABLE"}
  PROVE  Balanced(new, ra, at)
<1> SUFFICES ASSUME NEW c \in Cycles
             PROVE  /\ new[c].status # "NONE" => \A d \in 1..(c - 1) : ra[d] # Never
                    /\ new[c].status = "COMPLETED" => ra[c] # Never
                    /\ new[c].status # "NONE" /\ ra[c] # Never =>
                         new[c].status = "COMPLETED" /\ new[c].completedAt = ra[c]
  BY DEF Balanced
<1>1. CASE new[c] = sla[c]
  BY <1>1 DEF Balanced
<1>2. CASE IsLive(sla[c]) /\ new[c].status \in {"RUNNING", "PAUSED", "NOT_APPLICABLE"}
  BY <1>2 DEF Balanced, IsLive
<1> QED BY <1>1, <1>2

\* A row is opened for a cycle whose predecessors are resolved.
LEMMA BalancedStart ==
  ASSUME NEW sla, NEW ra, NEW at, Balanced(sla, ra, at), NEW new, NEW c \in Cycles,
         \A d \in Cycles : d # c => new[d] = sla[d],
         new[c].status = "RUNNING", ra[c] = Never, \A d \in 1..(c - 1) : ra[d] # Never
  PROVE  Balanced(new, ra, at)
BY DEF Balanced

\* A cycle is resolved now; its row, if there is one, is completed now.
LEMMA BalancedResolve ==
  ASSUME NEW sla, NEW ra \in Records, NEW at \in Time, Balanced(sla, ra, at),
         NEW new, NEW na, NEW c \in Cycles,
         \A d \in Cycles : d # c => na[d] = ra[d] /\ new[d] = sla[d],
         na[c] = at, \A d \in 1..(c - 1) : ra[d] # Never,
         \A d \in Cycles : d > c => Blank(sla, ra, d),
         \/ sla[c].status = "NONE" /\ new[c] = sla[c]
         \/ new[c].status = "COMPLETED" /\ new[c].completedAt = at
  PROVE  Balanced(new, na, at)
<1>0. \A d \in Cycles : d \in Int /\ ra[d] \in Int /\ at # Never /\ at \in Int
  BY DEF Records, Cycles, TimeOrNever, Time, Never
<1>1. ASSUME NEW e \in Cycles, na[e] # Never
      PROVE  na[e] <= at /\ \A d \in 1..e : na[d] # Never /\ na[d] <= na[e]
  <2>1. ~(e > c)
    BY <1>0, <1>1 DEF Blank
  <2>2. ASSUME NEW d \in 1..e  PROVE na[d] # Never /\ na[d] <= na[e]
    <3>1. d \in Cycles
      BY CyclesArePositive
    <3>2. CASE e # c
      <4>1. na[e] = ra[e] /\ d # c
        BY <1>0, <2>1, <3>2
      <4> QED BY <1>1, <3>1, <4>1 DEF Balanced
    <3>3. CASE e = c /\ d # c
      <4>1. d \in 1..(c - 1)
        BY <1>0, <3>1, <3>3
      <4>2. ra[d] # Never /\ ra[d] <= at
        BY <3>1, <4>1 DEF Balanced
      <4> QED BY <3>1, <3>3, <4>2
    <3>4. CASE d = c
      <4>1. e = c /\ na[c] = at
        BY <1>0, <2>1, <3>1, <3>4
      <4> QED BY <1>0, <3>4, <4>1
    <3> QED BY <3>2, <3>3, <3>4
  <2>3. na[e] <= at
    BY <1>0, <1>1 DEF Balanced
  <2> QED BY <2>2, <2>3
<1>2. ASSUME NEW e \in Cycles, new[e].status # "NONE"
      PROVE  \A d \in 1..(e - 1) : na[d] # Never
  <2>1. ~(e > c)
    BY <1>0, <1>2 DEF Blank
  <2>2. \A d \in 1..(e - 1) : d # c /\ d \in Cycles
    BY <1>0, <2>1, BoundsAssumption DEF Cycles
  <2>3. CASE e = c
    BY <2>2, <2>3
  <2>4. CASE e # c
    BY <1>2, <2>2, <2>4 DEF Balanced
  <2> QED BY <2>3, <2>4
<1>3. ASSUME NEW e \in Cycles
      PROVE  /\ new[e].status = "COMPLETED" => na[e] # Never
             /\ new[e].status # "NONE" /\ na[e] # Never =>
                  new[e].status = "COMPLETED" /\ new[e].completedAt = na[e]
  <2>1. CASE e = c
    BY <1>0, <2>1
  <2>2. CASE e # c
    BY <2>2 DEF Balanced
  <2> QED BY <2>1, <2>2
<1> QED BY <1>1, <1>2, <1>3 DEF Balanced

-----------------------------------------------------------------------------
(***************************************************************************)
(* What the handlers do to the rows of their ticket                        *)
(***************************************************************************)
CoherentNow(t) ==
  Coherent(ticket[t].status, resolutionSla[t], pauses[t], resolvedAt[t], now)

CoherentNext(t) ==
  Coherent(ticket'[t].status, resolutionSla'[t], pauses'[t], resolvedAt'[t], now')

\* Rows are rows of the right type before every step.
LEMMA RowsOfTicket ==
  ASSUME TypeOK, NEW t \in Tickets
  PROVE  /\ ticket[t] \in TicketRow
         /\ resolutionSla[t] \in SlaRows
         /\ pauses[t] \in Periods
         /\ resolvedAt[t] \in Records
         /\ now \in Time /\ now \in Int
BY BoundsAssumption DEF TypeOK, SlaRows, Periods, Records, Time

\* A handler that changes the status only, between statuses that allow the same.
LEMMA StatusOnly ==
  ASSUME TypeOK, NEW t \in Tickets, CoherentNow(t),
         UNCHANGED <<resolutionSla, pauses, resolvedAt, now>>,
         ticket[t].status \notin {"NEW", "ASSIGNED", "IN_PROGRESS"}
           \/ ticket'[t].status \in {"NEW", "ASSIGNED", "IN_PROGRESS"},
         ticket[t].status \notin {"PENDING_INFO", "REJECTED"},
         ticket'[t].status # "NONE",
         ticket'[t].status \in HandedBack => ticket[t].status \in HandedBack
  PROVE  CoherentNext(t)
<1>1. Clocked(ticket'[t].status, resolutionSla[t], pauses[t])
  BY DEF CoherentNow, Coherent, Clocked
<1>2. Accounted(ticket'[t].status, resolutionSla[t], resolvedAt[t])
  BY DEF CoherentNow, Coherent, Accounted
<1> QED BY <1>1, <1>2 DEF CoherentNow, CoherentNext, Coherent

\* create_ticket opens the first cycle of a ticket that has none.
LEMMA CreateCoheres ==
  ASSUME TypeOK, NEW t \in Tickets, CoherentNow(t), NEW u \in Users, Create(t, u)
  PROVE  CoherentNext(t)
<1>1. /\ ticket[t].status = "NONE" /\ ticket'[t].status = "NEW"
      /\ UNCHANGED <<pauses, resolvedAt, now>>
  BY RowsOfTicket DEF Create, TypeOK, TicketRow
<1>2. \A c \in Cycles : resolvedAt[t][c] = Never
  BY <1>1 DEF CoherentNow, Coherent, Accounted
<1>3. CASE UNCHANGED resolutionSla
  BY <1>1, <1>3, StatusOnly DEF HandedBack
<1>4. ASSUME NEW p \in Policies,
             resolutionSla' = [resolutionSla EXCEPT ![t][1] = StartRuntime(now, p.resolution)]
      PROVE  CoherentNext(t)
  <2>1. 1 \in Cycles
    BY BoundsAssumption DEF Cycles
  <2>2. StartRuntime(now, p.resolution).status = "RUNNING"
    BY DEF StartRuntime, NoRuntime
  <2>3. /\ resolutionSla'[t][1].status = "RUNNING"
        /\ \A d \in Cycles : d # 1 => resolutionSla'[t][d] = resolutionSla[t][d]
    BY <1>4, <2>1, <2>2 DEF TypeOK
  <2>4. Balanced(resolutionSla'[t], resolvedAt[t], now)
    BY <1>2, <2>1, <2>3, BalancedStart DEF CoherentNow, Coherent
  <2>5. Clocked("NEW", resolutionSla'[t], pauses[t])
    BY <1>1, <2>3 DEF CoherentNow, Coherent, Clocked
  <2>6. Accounted("NEW", resolutionSla'[t], resolvedAt[t])
    BY DEF Accounted, HandedBack
  <2> QED BY <1>1, <2>4, <2>5, <2>6 DEF CoherentNext, Coherent
<1> QED BY <1>3, <1>4 DEF Create

\* request_info pauses the running cycle and opens a pause at the same instant.
LEMMA RequestInfoCoheres ==
  ASSUME TypeOK, NEW t \in Tickets, CoherentNow(t), NEW u \in Users, RequestInfo(t, u)
  PROVE  CoherentNext(t)
<1>1. /\ ticket[t].status = "IN_PROGRESS" /\ ticket'[t].status = "PENDING_INFO"
      /\ UNCHANGED <<resolvedAt, now>>
  BY RowsOfTicket DEF RequestInfo, Move, TypeOK, TicketRow
<1>2. Accounted("PENDING_INFO", resolutionSla'[t], resolvedAt[t])
  BY DEF Accounted, HandedBack
<1>3. CASE NoCurrentSla(t) /\ UNCHANGED <<resolutionSla, pauses>>
  <2>1. Clocked("PENDING_INFO", resolutionSla[t], pauses[t])
    BY <1>1, <1>3 DEF CoherentNow, Coherent, Clocked, NoCurrentSla, IsLive
  <2> QED BY <1>1, <1>2, <1>3, <2>1 DEF CoherentNow, CoherentNext, Coherent
<1>4. ASSUME NEW c \in Cycles, IsCurrentSla(t, c), resolutionSla[t][c].status = "RUNNING",
             resolutionSla' = [resolutionSla EXCEPT ![t][c] = PauseRuntime(@, now)],
             pauses' = [pauses EXCEPT ![t][c] =
               Append(@, [pausedAt |-> now, resumedAt |-> Never, duration |-> 0])]
      PROVE  CoherentNext(t)
  <2> DEFINE pause == [pausedAt |-> now, resumedAt |-> Never, duration |-> 0]
  <2>1. /\ resolutionSla'[t][c].status = "PAUSED" /\ resolutionSla'[t][c].pausedAt = now
        /\ pauses'[t][c] = Append(pauses[t][c], pause)
        /\ \A d \in Cycles : d # c => resolutionSla'[t][d] = resolutionSla[t][d]
    <3>1. /\ resolutionSla'[t][c] = PauseRuntime(resolutionSla[t][c], now)
          /\ pauses'[t][c] = Append(pauses[t][c], pause)
          /\ \A d \in Cycles : d # c => resolutionSla'[t][d] = resolutionSla[t][d]
      BY <1>4 DEF TypeOK
    <3>2. resolutionSla[t][c] \in Runtime
      BY RowsOfTicket DEF SlaRows
    <3> QED BY <3>1, <3>2 DEF PauseRuntime, Runtime
  <2>2. HeldSince(pauses'[t][c], now)
    <3>1. pauses[t][c] \in Seq(PausePeriod) /\ pause \in PausePeriod
      BY RowsOfTicket DEF Periods, PausePeriod, TimeOrNever
    <3>2. /\ Len(pauses'[t][c]) = Len(pauses[t][c]) + 1
          /\ pauses'[t][c][Len(pauses[t][c]) + 1] = pause
          /\ DOMAIN pauses'[t][c] = 1..(Len(pauses[t][c]) + 1)
          /\ Len(pauses[t][c]) \in Nat
      BY <2>1, <3>1
    <3>3. /\ Len(pauses[t][c]) + 1 \in DOMAIN pauses'[t][c]
          /\ \A k \in DOMAIN pauses'[t][c] : ~(k > Len(pauses[t][c]) + 1)
      BY <3>2
    <3>4. pause.resumedAt = Never /\ pause.pausedAt = now
      OBVIOUS
    <3> HIDE DEF pause
    <3> QED BY <3>2, <3>3, <3>4 DEF HeldSince, IsOpen
  <2>3. Balanced(resolutionSla'[t], resolvedAt[t], now)
    <3>1. \A d \in Cycles : \/ resolutionSla'[t][d] = resolutionSla[t][d]
                              \/ /\ IsLive(resolutionSla[t][d])
                                 /\ resolutionSla'[t][d].status = "PAUSED"
      BY <1>4, <2>1 DEF IsCurrentSla
    <3> QED BY <3>1, BalancedChange DEF CoherentNow, Coherent
  <2>4. \A d \in Cycles : d # c => ~IsLive(resolutionSla[t][d])
    BY <1>4, CurrentIsOnly DEF CoherentNow, Coherent
  <2>5. Clocked("PENDING_INFO", resolutionSla'[t], pauses'[t])
    <3> SUFFICES ASSUME NEW d \in Cycles
                 PROVE  /\ resolutionSla'[t][d].status # "RUNNING"
                        /\ resolutionSla'[t][d].status = "PAUSED" =>
                             HeldSince(pauses'[t][d], resolutionSla'[t][d].pausedAt)
                        /\ resolutionSla'[t][d].status # "NOT_APPLICABLE"
      BY DEF Clocked
    <3>1. CASE d = c
      BY <2>1, <2>2, <3>1
    <3>2. CASE d # c
      BY <1>1, <2>1, <2>4, <3>2 DEF CoherentNow, Coherent, Clocked, IsLive
    <3> QED BY <3>1, <3>2
  <2> QED BY <1>1, <1>2, <2>3, <2>5 DEF CoherentNext, Coherent
<1> QED BY <1>3, <1>4 DEF RequestInfo

\* provide_info closes the pause and lets the cycle run on.
LEMMA ProvideInfoCoheres ==
  ASSUME TypeOK, NEW t \in Tickets, CoherentNow(t), NEW u \in Users, ProvideInfo(t, u)
  PROVE  CoherentNext(t)
<1>1. /\ ticket[t].status = "PENDING_INFO" /\ ticket'[t].status = "IN_PROGRESS"
      /\ UNCHANGED <<resolvedAt, now>>
  BY RowsOfTicket DEF ProvideInfo, Move, TypeOK, TicketRow
<1>2. Accounted("IN_PROGRESS", resolutionSla'[t], resolvedAt[t])
  BY DEF Accounted, HandedBack
<1>3. CASE NoCurrentSla(t) /\ UNCHANGED <<resolutionSla, pauses>>
  <2>1. Clocked("IN_PROGRESS", resolutionSla[t], pauses[t])
    BY <1>1, <1>3 DEF CoherentNow, Coherent, Clocked, NoCurrentSla, IsLive
  <2> QED BY <1>1, <1>2, <1>3, <2>1 DEF CoherentNow, CoherentNext, Coherent
<1>4. ASSUME NEW c \in Cycles, NEW d, IsCurrentSla(t, c),
             resolutionSla' = [resolutionSla EXCEPT ![t][c] = ResumeRuntime(@, d)]
      PROVE  CoherentNext(t)
  <2>1. /\ resolutionSla'[t][c].status = "RUNNING"
        /\ \A e \in Cycles : e # c => resolutionSla'[t][e] = resolutionSla[t][e]
    <3>1. /\ resolutionSla'[t][c] = ResumeRuntime(resolutionSla[t][c], d)
          /\ \A e \in Cycles : e # c => resolutionSla'[t][e] = resolutionSla[t][e]
      BY <1>4 DEF TypeOK
    <3>2. resolutionSla[t][c] \in Runtime
      BY RowsOfTicket DEF SlaRows
    <3> QED BY <3>1, <3>2 DEF ResumeRuntime, Runtime
  <2>2. Balanced(resolutionSla'[t], resolvedAt[t], now)
    <3>1. Balanced(resolutionSla[t], resolvedAt[t], now) /\ IsLive(resolutionSla[t][c])
      BY <1>4 DEF CoherentNow, Coherent, IsCurrentSla
    <3>2. ASSUME NEW e \in Cycles
          PROVE  \/ resolutionSla'[t][e] = resolutionSla[t][e]
                 \/ IsLive(resolutionSla[t][e]) /\ resolutionSla'[t][e].status = "RUNNING"
      <4>1. CASE e = c
        BY <2>1, <3>1, <4>1
      <4>2. CASE e # c
        BY <2>1, <4>2
      <4> QED BY <4>1, <4>2
    <3> QED BY <3>1, <3>2, BalancedChange
  <2>3. \A e \in Cycles : e # c => ~IsLive(resolutionSla[t][e])
    BY <1>4, CurrentIsOnly DEF CoherentNow, Coherent
  <2>4. Clocked("IN_PROGRESS", resolutionSla'[t], pauses'[t])
    BY <1>1, <2>1, <2>3 DEF CoherentNow, Coherent, Clocked, IsLive
  <2> QED BY <1>1, <1>2, <2>2, <2>4 DEF CoherentNext, Coherent
<1> QED BY <1>3, <1>4 DEF ProvideInfo

\* WF-04 numbers its record so that the list of results has no gap: under a live
\* row by that row, else as the next after everything on record.
LEMMA ResolveCoheres ==
  ASSUME TypeOK, NEW t \in Tickets, CoherentNow(t), NEW u \in Users, Resolve(t, u)
  PROVE  CoherentNext(t)
<1>1. /\ ticket[t].status = "IN_PROGRESS" /\ ticket'[t].status = "RESOLVED"
      /\ UNCHANGED <<pauses, now>>
  BY RowsOfTicket DEF Resolve, Move, TypeOK, TicketRow
<1>2. PICK c \in Cycles :
        /\ ~IsResolved(t, c)
        /\ resolvedAt' = [resolvedAt EXCEPT ![t][c] = now]
        /\ \/ /\ NoCurrentSla(t)
              /\ IsLatestCycle(t, c - 1)
              /\ UNCHANGED resolutionSla
           \/ /\ IsCurrentSla(t, c)
              /\ resolutionSla[t][c].status = "RUNNING"
              /\ resolutionSla' = [resolutionSla EXCEPT ![t][c] = CompleteRuntime(@, now)]
  BY <1>1 DEF Resolve
<1> DEFINE sla == resolutionSla[t]
           new == resolutionSla'[t]
           ra  == resolvedAt[t]
           na  == resolvedAt'[t]
<1>3. /\ na[c] = now /\ \A d \in Cycles : d # c => na[d] = ra[d]
      /\ sla \in SlaRows /\ ra \in Records /\ now \in Time /\ now # Never
      /\ Balanced(sla, ra, now) /\ Clocked("IN_PROGRESS", sla, pauses[t])
  BY <1>1, <1>2, RowsOfTicket DEF TypeOK, Time, Never, CoherentNow, Coherent
<1>4. /\ \A d \in Cycles : d # c => new[d] = sla[d] /\ ~IsLive(sla[d])
      /\ \A d \in Cycles : d > c => Blank(sla, ra, d)
      /\ \/ sla[c].status = "NONE" /\ new[c] = sla[c]
         \/ new[c].status = "COMPLETED" /\ new[c].completedAt = now
      /\ \A d \in 1..(c - 1) : ra[d] # Never
  <2>1. CASE NoCurrentSla(t) /\ IsLatestCycle(t, c - 1) /\ UNCHANGED resolutionSla
    <3>1. \A d \in Cycles : d > c - 1 => Blank(sla, ra, d)
      BY <2>1 DEF IsLatestCycle, HasSla, IsResolved, Blank
    <3>2. c \in Int /\ c - 1 \in Int /\ \A d \in Cycles : d \in Int
      BY DEF Cycles
    <3>3. ASSUME c # 1  PROVE \A d \in 1..(c - 1) : ra[d] # Never
      <4>1. c - 1 \in Cycles /\ c - 1 > 0
        BY <3>3, BoundsAssumption DEF Cycles
      <4>2. ra[c - 1] # Never
        <5>1. sla[c - 1].status # "NONE" \/ ra[c - 1] # Never
          BY <2>1, <4>1 DEF IsLatestCycle, HasSla, IsResolved
        <5>2. sla[c - 1].status \notin {"RUNNING", "PAUSED", "NOT_APPLICABLE"}
          BY <1>3, <2>1, <4>1 DEF NoCurrentSla, IsLive, Clocked
        <5>3. sla[c - 1].status \in RuntimeStatus
          BY <1>3, <4>1 DEF SlaRows, Runtime
        <5> QED BY <1>3, <4>1, <5>1, <5>2, <5>3 DEF Balanced, RuntimeStatus
      <4>3. \A d \in 1..(c - 1) : ra[d] # Never
        BY <1>3, <4>1, <4>2 DEF Balanced
      <4> QED BY <4>3
    <3>4. \A d \in 1..(c - 1) : ra[d] # Never
      BY <3>2, <3>3
    <3>5. \A d \in Cycles : new[d] = sla[d] /\ ~IsLive(sla[d])
      BY <2>1 DEF NoCurrentSla
    <3>6. /\ \A d \in Cycles : d > c => Blank(sla, ra, d)
          /\ Blank(sla, ra, c)
      BY <3>1, <3>2
    <3> QED BY <3>4, <3>5, <3>6 DEF Blank
  <2>2. CASE /\ IsCurrentSla(t, c)
             /\ resolutionSla[t][c].status = "RUNNING"
             /\ resolutionSla' = [resolutionSla EXCEPT ![t][c] = CompleteRuntime(@, now)]
    <3>1. /\ new[c] = CompleteRuntime(sla[c], now)
          /\ \A d \in Cycles : d # c => new[d] = sla[d]
      BY <2>2 DEF TypeOK
    <3>2. new[c].status = "COMPLETED" /\ new[c].completedAt = now
      BY <1>3, <3>1 DEF CompleteRuntime, SlaRows, Runtime
    <3>3. IsLive(sla[c])
      BY <2>2 DEF IsCurrentSla
    <3>4. /\ \A d \in Cycles : d > c => Blank(sla, ra, d)
          /\ \A d \in Cycles : d # c => ~IsLive(sla[d])
      BY <1>3, <3>3, LiveIsLast
    <3>5. \A d \in 1..(c - 1) : ra[d] # Never
      BY <1>3, <2>2 DEF Balanced
    <3> QED BY <3>1, <3>2, <3>4, <3>5
  <2> QED BY <1>2, <2>1, <2>2
<1> HIDE DEF sla, new, ra, na
<1>5. Balanced(new, na, now)
  BY <1>3, <1>4, BalancedResolve
<1>6. Clocked("RESOLVED", new, pauses[t])
  <2> SUFFICES ASSUME NEW d \in Cycles
               PROVE  new[d].status \notin {"RUNNING", "PAUSED", "NOT_APPLICABLE"}
    BY DEF Clocked
  <2>1. CASE d = c
    BY <1>4, <2>1
  <2>2. CASE d # c
    BY <1>3, <1>4, <2>2 DEF Clocked, IsLive
  <2> QED BY <2>1, <2>2
<1>7. LastResult(new, na, c)
  <2>1. \A d \in Cycles : d > c => d # c
    BY DEF Cycles
  <2> QED BY <1>3, <1>4, <2>1 DEF LastResult, Blank
<1>8. Accounted("RESOLVED", new, na)
  BY <1>7 DEF Accounted, HandedBack
<1> QED BY <1>1, <1>5, <1>6, <1>8 DEF CoherentNext, Coherent, new, na

\* WF-07 starts the cycle after the last result, so none is skipped.
LEMMA ResumeCoheres ==
  ASSUME TypeOK, NEW t \in Tickets, CoherentNow(t), NEW u \in Users, Resume(t, u)
  PROVE  CoherentNext(t)
<1>1. /\ ticket[t].status = "REOPENED" /\ ticket'[t].status = "IN_PROGRESS"
      /\ UNCHANGED <<pauses, resolvedAt, now>>
  BY RowsOfTicket DEF Resume, Move, TypeOK, TicketRow
<1>2. PICK p \in Policies, c \in Cycles :
        /\ IsLatestCycle(t, c - 1)
        /\ resolutionSla' = [resolutionSla EXCEPT ![t][c] = StartRuntime(now, p.resolution)]
  BY DEF Resume
<1> DEFINE sla == resolutionSla[t]
           new == resolutionSla'[t]
           ra  == resolvedAt[t]
<1>3. /\ new[c].status = "RUNNING"
      /\ \A d \in Cycles : d # c => new[d] = sla[d]
  <2>1. StartRuntime(now, p.resolution).status = "RUNNING"
    BY DEF StartRuntime, NoRuntime
  <2> QED BY <1>2, <2>1 DEF TypeOK
<1>4. \A d \in Cycles : d > c - 1 => Blank(sla, ra, d)
  BY <1>2 DEF IsLatestCycle, HasSla, IsResolved, Blank
<1>5. PICK e \in Cycles : LastResult(sla, ra, e)
  BY <1>1 DEF CoherentNow, Coherent, Accounted, HandedBack
<1>6. /\ Balanced(sla, ra, now)
      /\ Clocked("REOPENED", sla, pauses[t])
      /\ c - 1 > 0 => sla[c - 1].status # "NONE" \/ ra[c - 1] # Never
  BY <1>1, <1>2 DEF CoherentNow, Coherent, IsLatestCycle, HasSla, IsResolved
<1> HIDE DEF sla, new, ra
<1>7. e = c - 1
  <2>1. ~(e > c - 1)
    BY <1>4, <1>5 DEF LastResult, Blank
  <2>2. CASE c - 1 > e
    <3>1. c - 1 \in Cycles /\ c - 1 > 0
      BY <2>2, BoundsAssumption DEF Cycles
    <3> QED BY <1>5, <1>6, <2>2, <3>1 DEF LastResult, Blank
  <2> QED BY <2>1, <2>2 DEF Cycles
<1>8. ra[c] = Never /\ \A d \in 1..(c - 1) : ra[d] # Never
  <2>1. c > c - 1
    BY DEF Cycles
  <2>2. ra[c] = Never
    BY <1>4, <2>1 DEF Blank
  <2> QED BY <1>5, <1>6, <1>7, <2>2 DEF Balanced, LastResult
<1>9. Balanced(new, ra, now)
  BY <1>3, <1>6, <1>8, BalancedStart
<1>10. Clocked("IN_PROGRESS", new, pauses[t])
  <2> SUFFICES ASSUME NEW d \in Cycles
               PROVE  new[d].status \notin {"PAUSED", "NOT_APPLICABLE"}
    BY DEF Clocked
  <2>1. CASE d = c
    BY <1>3, <2>1
  <2>2. CASE d # c
    BY <1>3, <1>6, <2>2 DEF Clocked
  <2> QED BY <2>1, <2>2
<1>11. Accounted("IN_PROGRESS", new, ra)
  BY DEF Accounted, HandedBack
<1> QED BY <1>1, <1>9, <1>10, <1>11 DEF CoherentNext, Coherent, new, ra

\* WF-08 voids live rows only; a resolved cycle has none.
LEMMA RejectCoheres ==
  ASSUME TypeOK, NEW t \in Tickets, CoherentNow(t), NEW u \in Users, Reject(t, u)
  PROVE  CoherentNext(t)
<1> DEFINE voided(r) == IF IsLive(r) THEN MarkNotApplicable(r, now) ELSE r
<1>1. /\ ticket[t].status = "NEW" /\ ticket'[t].status = "REJECTED"
      /\ UNCHANGED <<pauses, resolvedAt, now>>
  BY RowsOfTicket DEF Reject, Move, TypeOK, TicketRow
<1>2. \A c \in Cycles : resolutionSla'[t][c] = voided(resolutionSla[t][c])
  BY DEF Reject, TypeOK
<1>3. ASSUME NEW c \in Cycles
      PROVE  \/ /\ resolutionSla'[t][c] = resolutionSla[t][c]
                /\ ~IsLive(resolutionSla[t][c])
             \/ /\ IsLive(resolutionSla[t][c])
                /\ resolutionSla'[t][c].status = "NOT_APPLICABLE"
  <2>1. resolutionSla[t][c] \in Runtime
    BY RowsOfTicket DEF SlaRows
  <2> QED BY <1>2, <2>1 DEF MarkNotApplicable, Runtime
<1> HIDE DEF voided
<1>4. Balanced(resolutionSla'[t], resolvedAt[t], now)
  BY <1>3, BalancedChange DEF CoherentNow, Coherent
<1>5. Clocked("REJECTED", resolutionSla'[t], pauses[t])
  BY <1>3 DEF Clocked, IsLive
<1>6. Accounted("REJECTED", resolutionSla'[t], resolvedAt[t])
  BY DEF Accounted, HandedBack
<1> QED BY <1>1, <1>4, <1>5, <1>6 DEF CoherentNext, Coherent

\* Closing, by a user or by the job.
LEMMA CloseCoheres ==
  ASSUME TypeOK, NEW t \in Tickets, CoherentNow(t), NEW a, NEW b, SetClosed(t, a, b),
         UNCHANGED <<resolutionSla, pauses, resolvedAt, now>>
  PROVE  CoherentNext(t)
<1>1. ticket[t].status = "RESOLVED" /\ ticket'[t].status = "CLOSED"
  BY RowsOfTicket DEF SetClosed, TypeOK, TicketRow
<1> QED BY <1>1, StatusOnly DEF HandedBack

\* The other handlers move the status only, or nothing that matters here.
LEMMA HandlerCoheres ==
  ASSUME TypeOK, NEW t \in Tickets, CoherentNow(t), NEW u \in Users, UserStep(t, u)
  PROVE  CoherentNext(t)
<1>1. ASSUME NEW s1, NEW s2, Move(t, s1, s2)
      PROVE  ticket[t].status = s1 /\ ticket'[t].status = s2
  BY <1>1, RowsOfTicket DEF Move, TypeOK, TicketRow
<1>2. ASSUME UNCHANGED <<resolutionSla, pauses, resolvedAt, now>>,
             ticket'[t].status = ticket[t].status
      PROVE  CoherentNext(t)
  BY <1>2 DEF CoherentNow, CoherentNext
<1>3. ASSUME NEW p \in Users, Assign(t, u, p)  PROVE CoherentNext(t)
  <2>1. /\ ticket[t].status = "NEW" /\ ticket'[t].status = "ASSIGNED"
        /\ UNCHANGED <<resolutionSla, pauses, resolvedAt, now>>
    BY <1>3, RowsOfTicket DEF Assign, TypeOK, TicketRow, slaVars
  <2> QED BY <2>1, StatusOnly DEF HandedBack
<1>4. ASSUME NEW p \in Users, Reassign(t, u, p)  PROVE CoherentNext(t)
  <2>1. ticket'[t].status = ticket[t].status
    BY <1>4, RowsOfTicket DEF Reassign, TypeOK, TicketRow
  <2>2. UNCHANGED <<resolutionSla, pauses, resolvedAt, now>>
    BY <1>4 DEF Reassign, slaVars
  <2> QED BY <1>2, <2>1, <2>2
<1>5. CASE FirstReply(t, u)
  <2>1. ticket'[t].status = ticket[t].status
    BY <1>5, RowsOfTicket DEF FirstReply, TypeOK, TicketRow
  <2>2. UNCHANGED <<resolutionSla, pauses, resolvedAt, now>>
    BY <1>5 DEF FirstReply
  <2> QED BY <1>2, <2>1, <2>2
<1>6. CASE Start(t, u)
  <2>1. ticket[t].status = "ASSIGNED" /\ ticket'[t].status = "IN_PROGRESS"
    BY <1>1, <1>6 DEF Start
  <2>2. UNCHANGED <<resolutionSla, pauses, resolvedAt, now>>
    BY <1>6 DEF Start, slaVars
  <2> QED BY <2>1, <2>2, StatusOnly DEF HandedBack
<1>7. CASE Reopen(t, u)
  <2>1. ticket[t].status = "RESOLVED" /\ ticket'[t].status = "REOPENED"
    BY <1>1, <1>7 DEF Reopen
  <2>2. UNCHANGED <<resolutionSla, pauses, resolvedAt, now>>
    BY <1>7 DEF Reopen, slaVars
  <2> QED BY <2>1, <2>2, StatusOnly DEF HandedBack
<1>8. CASE Close(t, u)
  BY <1>8, CloseCoheres DEF Close, slaVars
<1> QED BY <1>3, <1>4, <1>5, <1>6, <1>7, <1>8, CreateCoheres, RequestInfoCoheres,
           ProvideInfoCoheres, ResolveCoheres, ResumeCoheres, RejectCoheres DEF UserStep

\* A handler leaves the rows of every other ticket, and the clock, alone.
LEMMA OthersUntouched ==
  ASSUME TypeOK, NEW t \in Tickets, NEW u \in Users, UserStep(t, u), NEW s \in Tickets, s # t
  PROVE  Untouched(s)
BY UserStepTouchesOpenTicket

\* A handler takes no time.
LEMMA HandlersStopNoClock ==
  ASSUME NEW t \in Tickets, NEW u \in Users, UserStep(t, u)
  PROVE  now' = now
BY DEF UserStep, Create, Assign, Reassign, Start, RequestInfo, ProvideInfo, Resolve, Close,
       Reopen, Resume, Reject, FirstReply

\* What a step can do to one ticket: a handler of that ticket, a close by the
\* job, or nothing but the passing of time.
LEMMA StepOfTicket ==
  ASSUME TypeOK, [Next]_vars, NEW t \in Tickets
  PROVE  \/ \E u \in Users : UserStep(t, u)
         \/ \E a \in Time : /\ SetClosed(t, a, NoUser)
                            /\ UNCHANGED <<slaVars, resolvedAt, now>>
         \/ Untouched(t) /\ now' \in Int /\ now <= now'
<1>0. now \in Int
  BY RowsOfTicket
<1>1. ASSUME NEW s \in Tickets, NEW u \in Users, UserStep(s, u), s # t
      PROVE  Untouched(t) /\ now' \in Int /\ now <= now'
  BY <1>0, <1>1, OthersUntouched, HandlersStopNoClock
<1>2. ASSUME NEW j \in Jobs, CloseNext(j, t)
      PROVE  \E a \in Time : /\ SetClosed(t, a, NoUser)
                             /\ UNCHANGED <<slaVars, resolvedAt, now>>
  <2>1. job[j].at \in Time
    BY DEF TypeOK, JobState
  <2> QED BY <1>2, <2>1 DEF CloseNext
<1>3. ASSUME NEW j \in Jobs, NEW s \in Tickets, CloseNext(j, s), s # t
      PROVE  Untouched(t) /\ now' \in Int /\ now <= now'
  BY <1>0, <1>3 DEF CloseNext, SetClosed, TypeOK, Untouched, slaVars
<1>4. ASSUME NEW j \in Jobs,
             StartJob(j) \/ ListExpired(j) \/ (\E s \in Tickets : SkipNext(j, s))
               \/ FinishJob(j) \/ CrashJob(j)
      PROVE  Untouched(t) /\ now' \in Int /\ now <= now'
  BY <1>0, <1>4 DEF StartJob, ListExpired, SkipNext, FinishJob, CrashJob, Untouched, slaVars
<1>5. CASE Tick \/ UNCHANGED vars
  BY <1>0, <1>5 DEF Tick, vars, slaVars, Untouched
<1> QED BY <1>1, <1>2, <1>3, <1>4, <1>5 DEF Next, JobStep

-----------------------------------------------------------------------------
\* Whatever step is taken, the rows of each ticket stay coherent.
LEMMA TicketStaysCoherent ==
  ASSUME TypeOK, [Next]_vars, NEW t \in Tickets, CoherentNow(t)
  PROVE  CoherentNext(t)
<1>1. ASSUME NEW u \in Users, UserStep(t, u)  PROVE CoherentNext(t)
  BY <1>1, HandlerCoheres
<1>2. ASSUME NEW a \in Time, SetClosed(t, a, NoUser),
             UNCHANGED <<slaVars, resolvedAt, now>>
      PROVE  CoherentNext(t)
  BY <1>2, CloseCoheres DEF slaVars
<1>3. CASE Untouched(t) /\ now' \in Int /\ now <= now'
  <2>1. Balanced(resolutionSla[t], resolvedAt[t], now')
    BY <1>3, RowsOfTicket, BalancedLater DEF CoherentNow, Coherent
  <2> QED BY <1>3, <2>1 DEF Untouched, CoherentNow, CoherentNext, Coherent
<1> QED BY <1>1, <1>2, <1>3, StepOfTicket

\* Whatever handlers and runs of the auto-close job interleave, the SLA rows,
\* pauses and resolution records of every ticket fit its status and each other.
THEOREM CyclesStayCoherent == Spec => []CyclesCohere
<1>1. Init => CyclesCohere
  BY DEF Init, CyclesCohere, Coherent, Balanced, Clocked, Accounted, NoTicket, NoRuntime,
         HandedBack
<1>2. TypeOK /\ CyclesCohere /\ [Next]_vars => CyclesCohere'
  <2> SUFFICES ASSUME TypeOK, CyclesCohere, [Next]_vars, NEW t \in Tickets
               PROVE  CoherentNext(t)
    BY DEF CyclesCohere, CoherentNext
  <2>1. CoherentNow(t)
    BY DEF CyclesCohere, CoherentNow
  <2> QED BY <2>1, TicketStaysCoherent
<1> QED BY <1>1, <1>2, TypeCorrect, PTL DEF Spec

\* The books of the cycles of a coherent ticket agree, and when it was handed
\* back it has a result on record.
LEMMA CoherentAddsUp ==
  ASSUME NEW t \in Tickets, CoherentNow(t)
  PROVE  LedgerAgrees(t) /\ HasResult(t)
<1>1. LedgerAgrees(t)
  BY DEF CoherentNow, Coherent, Balanced, LedgerAgrees, IsResolved, HasSla
<1>2. ASSUME NEW c \in Cycles, LastResult(resolutionSla[t], resolvedAt[t], c)
      PROVE  IsLatestCycle(t, c) /\ IsResolved(t, c)
  BY <1>2 DEF LastResult, Blank, IsLatestCycle, IsResolved, HasSla
<1>3. HasResult(t)
  BY <1>2 DEF HasResult, CoherentNow, Coherent, Accounted, HandedBack
<1> QED BY <1>1, <1>3

\* Its resolution clock is on in the right states only, on the newest cycle, and
\* no handler finds it in the wrong one.
LEMMA CoherentFollows ==
  ASSUME NEW t \in Tickets, CoherentNow(t)
  PROVE  ClockFits(t) /\ NoConflict(t)
<1> SUFFICES ASSUME NEW c \in Cycles
             PROVE  /\ resolutionSla[t][c].status = "RUNNING"
                         => ticket[t].status \in {"NEW", "ASSIGNED", "IN_PROGRESS"}
                    /\ resolutionSla[t][c].status = "PAUSED"
                         => /\ ticket[t].status = "PENDING_INFO"
                            /\ \E i \in DOMAIN pauses[t][c] :
                                 /\ IsLastOpenPause(t, c, i)
                                 /\ pauses[t][c][i].pausedAt = resolutionSla[t][c].pausedAt
                    /\ IsLive(resolutionSla[t][c])
                         => IsLatestCycle(t, c) /\ ~IsResolved(t, c)
  BY DEF ClockFits, NoConflict, IsCurrentSla, IsLive
<1>1. Balanced(resolutionSla[t], resolvedAt[t], now)
  BY DEF CoherentNow, Coherent
<1>2. Clocked(ticket[t].status, resolutionSla[t], pauses[t])
  BY DEF CoherentNow, Coherent
<1>3. IsLive(resolutionSla[t][c]) => IsLatestCycle(t, c) /\ ~IsResolved(t, c)
  BY <1>1, LiveIsLast DEF Blank, IsLatestCycle, HasSla, IsResolved, IsLive
<1>4. HeldSince(pauses[t][c], resolutionSla[t][c].pausedAt)
        => \E i \in DOMAIN pauses[t][c] :
             /\ IsLastOpenPause(t, c, i)
             /\ pauses[t][c][i].pausedAt = resolutionSla[t][c].pausedAt
  BY DEF HeldSince, IsLastOpenPause
<1> QED BY <1>2, <1>3, <1>4 DEF Clocked

\* The books of the cycles agree, and a ticket that was handed back has a result
\* on record: the 409 RESOLUTION_RECORD_MISSING guards never block it.
THEOREM CyclesAgree == Spec => []CyclesAddUp
<1>1. CyclesCohere => CyclesAddUp
  BY CoherentAddsUp DEF CyclesCohere, CoherentNow, CyclesAddUp, CycleLedger,
                        ResolvedHasResolution
<1> QED BY <1>1, CyclesStayCoherent, PTL

\* The resolution clock is on in the right states only, on the newest cycle, and
\* no handler ever finds it in the wrong one (the 409 SLA_RUNTIME_CONFLICT
\* branches of WF-02 .. WF-04 are dead).
THEOREM SlaFollows == Spec => []SlaFollowsTicket
<1>1. CyclesCohere => SlaFollowsTicket
  BY CoherentFollows DEF CyclesCohere, CoherentNow, SlaFollowsTicket, ClockFollowsStatus,
                         NoSlaRuntimeConflict
<1> QED BY <1>1, CyclesStayCoherent, PTL

-----------------------------------------------------------------------------
(***************************************************************************)
(* The response clock                                                      *)
(***************************************************************************)

\* r is the RESPONSE row of a ticket with status st, first its first response.
\* ResponseClock alone is not inductive: that no reply comes before triage, and
\* that a completed row has a first response to show for it, must be known too.
StoppedOnce(st, first, r) ==
  /\ r.status \in {"NONE", "RUNNING", "COMPLETED", "NOT_APPLICABLE"}
  /\ r.status = "RUNNING" => first = Never /\ st # "REJECTED"
  /\ r.status = "COMPLETED" => first # Never /\ r.completedAt = first
  /\ r.status = "NOT_APPLICABLE" <=> st = "REJECTED" /\ r.status # "NONE"
  /\ st \in {"NONE", "NEW"} => first = Never /\ r.status \in {"NONE", "RUNNING"}
  /\ st = "NONE" => r.status = "NONE"

ResponsesStopOnce ==
  \A t \in Tickets : StoppedOnce(ticket[t].status, ticket[t].firstResponseAt, responseSla[t])

ResponseNow(t) ==
  StoppedOnce(ticket[t].status, ticket[t].firstResponseAt, responseSla[t])

ResponseNext(t) ==
  StoppedOnce(ticket'[t].status, ticket'[t].firstResponseAt, responseSla'[t])

\* A transition that leaves the response alone and is not a creation or a
\* rejection.
LEMMA ResponseUnmoved ==
  ASSUME NEW t \in Tickets, ResponseNow(t), responseSla'[t] = responseSla[t],
         ticket'[t].firstResponseAt = ticket[t].firstResponseAt,
         \/ ticket'[t].status = ticket[t].status
         \/ /\ {ticket[t].status, ticket'[t].status} \cap {"NONE", "REJECTED"} = {}
            /\ ticket'[t].status # "NEW"
  PROVE  ResponseNext(t)
BY DEF ResponseNow, ResponseNext, StoppedOnce

\* Every handler keeps the RESPONSE row and the first response in step.
LEMMA HandlerStopsOnce ==
  ASSUME TypeOK, AssignedPastTriage, NEW t \in Tickets, ResponseNow(t),
         NEW u \in Users, UserStep(t, u)
  PROVE  ResponseNext(t)
<1>0. ticket[t] \in TicketRow /\ responseSla[t] \in Runtime /\ now \in Time /\ now # Never
  BY BoundsAssumption DEF TypeOK, Time, Never
<1>1. ASSUME NEW s1, NEW s2, Move(t, s1, s2)
      PROVE  /\ ticket[t].status = s1 /\ ticket'[t].status = s2
             /\ ticket'[t].firstResponseAt = ticket[t].firstResponseAt
  BY <1>0, <1>1 DEF Move, TypeOK, TicketRow
<1>2. CASE Create(t, u)
  <2>1. /\ ticket[t].status = "NONE" /\ ticket'[t].status = "NEW"
        /\ ticket'[t].firstResponseAt = ticket[t].firstResponseAt
    BY <1>0, <1>2 DEF Create, TypeOK, TicketRow
  <2>2. CASE UNCHANGED responseSla
    BY <2>1, <2>2 DEF ResponseNow, ResponseNext, StoppedOnce
  <2>3. ASSUME NEW p \in Policies,
               responseSla' = [responseSla EXCEPT ![t] = StartRuntime(now, p.response)]
        PROVE  ResponseNext(t)
    <3>1. responseSla'[t].status = "RUNNING"
      BY <2>3 DEF TypeOK, StartRuntime, NoRuntime
    <3> QED BY <2>1, <3>1 DEF ResponseNow, ResponseNext, StoppedOnce
  <2> QED BY <1>2, <2>2, <2>3 DEF Create
<1>3. ASSUME NEW p \in Users, Assign(t, u, p)  PROVE ResponseNext(t)
  <2>1. /\ ticket[t].status = "NEW" /\ ticket'[t].status = "ASSIGNED"
        /\ ticket'[t].firstResponseAt = ticket[t].firstResponseAt
        /\ responseSla' = responseSla
    BY <1>0, <1>3 DEF Assign, TypeOK, TicketRow, slaVars
  <2> QED BY <2>1, ResponseUnmoved
<1>4. ASSUME NEW p \in Users, Reassign(t, u, p)  PROVE ResponseNext(t)
  <2>1. /\ ticket'[t].status = ticket[t].status
        /\ ticket'[t].firstResponseAt = ticket[t].firstResponseAt
        /\ responseSla' = responseSla
    BY <1>0, <1>4 DEF Reassign, TypeOK, TicketRow, slaVars
  <2> QED BY <2>1, ResponseUnmoved
<1>5. CASE Start(t, u) \/ RequestInfo(t, u) \/ ProvideInfo(t, u) \/ Resolve(t, u)
             \/ Reopen(t, u) \/ Resume(t, u)
  <2>1. responseSla' = responseSla
    BY <1>5 DEF Start, RequestInfo, ProvideInfo, Resolve, Reopen, Resume, slaVars
  <2>2. /\ ticket[t].status \in {"ASSIGNED", "IN_PROGRESS", "PENDING_INFO", "RESOLVED", "REOPENED"}
        /\ ticket'[t].status \in {"IN_PROGRESS", "PENDING_INFO", "RESOLVED", "REOPENED"}
        /\ ticket'[t].firstResponseAt = ticket[t].firstResponseAt
    BY <1>1, <1>5 DEF Start, RequestInfo, ProvideInfo, Resolve, Reopen, Resume
  <2> QED BY <2>1, <2>2, ResponseUnmoved
<1>6. CASE Close(t, u)
  <2>1. /\ ticket[t].status = "RESOLVED" /\ ticket'[t].status = "CLOSED"
        /\ ticket'[t].firstResponseAt = ticket[t].firstResponseAt
        /\ responseSla' = responseSla
    BY <1>0, <1>6 DEF Close, SetClosed, TypeOK, TicketRow, slaVars
  <2> QED BY <2>1, ResponseUnmoved
<1>7. CASE Reject(t, u)
  <2>1. /\ ticket[t].status = "NEW" /\ ticket'[t].status = "REJECTED"
        /\ ticket'[t].firstResponseAt = ticket[t].firstResponseAt
    BY <1>1, <1>7 DEF Reject
  <2>2. responseSla'[t] = IF IsLive(responseSla[t]) THEN MarkNotApplicable(responseSla[t], now)
                                                    ELSE responseSla[t]
    BY <1>7 DEF Reject, TypeOK
  <2>3. CASE responseSla[t].status = "RUNNING"
    <3>1. responseSla'[t].status = "NOT_APPLICABLE"
      BY <1>0, <2>2, <2>3 DEF IsLive, MarkNotApplicable, Runtime
    <3> QED BY <2>1, <3>1 DEF ResponseNow, ResponseNext, StoppedOnce
  <2>4. CASE responseSla[t].status = "NONE"
    <3>1. responseSla'[t] = responseSla[t]
      BY <2>2, <2>4 DEF IsLive
    <3> QED BY <2>1, <2>4, <3>1 DEF ResponseNow, ResponseNext, StoppedOnce
  <2> QED BY <2>1, <2>3, <2>4 DEF ResponseNow, StoppedOnce
<1>8. CASE FirstReply(t, u)
  <2>1. /\ ticket'[t].status = ticket[t].status
        /\ ticket[t].firstResponseAt = Never /\ ticket'[t].firstResponseAt = now
        /\ ticket[t].status \notin {"NONE", "NEW", "REJECTED"}
    BY <1>0, <1>8, UsersAssumption
       DEF FirstReply, TypeOK, TicketRow, Terminal, AssignedPastTriage
  <2>2. responseSla'[t] = IF responseSla[t].status = "RUNNING"
                          THEN CompleteRuntime(responseSla[t], now) ELSE responseSla[t]
    BY <1>8 DEF FirstReply, TypeOK
  <2>3. CASE responseSla[t].status = "RUNNING"
    <3>1. responseSla'[t].status = "COMPLETED" /\ responseSla'[t].completedAt = now
      BY <1>0, <2>2, <2>3 DEF CompleteRuntime, Runtime
    <3> QED BY <1>0, <2>1, <3>1 DEF ResponseNext, StoppedOnce
  <2>4. CASE responseSla[t].status = "NONE"
    BY <2>1, <2>2, <2>4 DEF ResponseNext, StoppedOnce
  <2> QED BY <2>1, <2>3, <2>4 DEF ResponseNow, StoppedOnce
<1> QED BY <1>2, <1>3, <1>4, <1>5, <1>6, <1>7, <1>8 DEF UserStep

\* And so does every step.
LEMMA ResponseStays ==
  ASSUME TypeOK, AssignedPastTriage, [Next]_vars, NEW t \in Tickets, ResponseNow(t)
  PROVE  ResponseNext(t)
<1>1. ASSUME NEW u \in Users, UserStep(t, u)  PROVE ResponseNext(t)
  BY <1>1, HandlerStopsOnce
<1>2. ASSUME NEW a \in Time, SetClosed(t, a, NoUser),
             UNCHANGED <<slaVars, resolvedAt, now>>
      PROVE  ResponseNext(t)
  <2>1. /\ ticket[t].status = "RESOLVED" /\ ticket'[t].status = "CLOSED"
        /\ ticket'[t].firstResponseAt = ticket[t].firstResponseAt
        /\ responseSla' = responseSla
    BY <1>2 DEF SetClosed, TypeOK, TicketRow, slaVars
  <2> QED BY <2>1, ResponseUnmoved
<1>3. CASE Untouched(t)
  BY <1>3 DEF Untouched, ResponseNow, ResponseNext
<1> QED BY <1>1, <1>2, <1>3, StepOfTicket

\* The response part of the invariant holds of every behaviour.
LEMMA ResponsesStayCoherent == Spec => []ResponsesStopOnce
<1>1. Init => ResponsesStopOnce
  BY DEF Init, ResponsesStopOnce, StoppedOnce, NoTicket, NoRuntime
<1>2. TypeOK /\ AssignedPastTriage /\ ResponsesStopOnce /\ [Next]_vars => ResponsesStopOnce'
  BY ResponseStays DEF ResponsesStopOnce, ResponseNow, ResponseNext
<1> QED BY <1>1, <1>2, TypeCorrect, AssigneeCorrect, PTL DEF Spec

\* The response clock stops at the first public reply of the processor in
\* charge, at that instant, and only that reply or a rejection stops it.
THEOREM ResponseClockStopsOnce == Spec => []ResponseClock
<1>1. ResponsesStopOnce => ResponseClock
  BY DEF ResponsesStopOnce, StoppedOnce, ResponseClock
<1> QED BY <1>1, ResponsesStayCoherent, PTL

-----------------------------------------------------------------------------
(***************************************************************************)
(* Finished cycles are history                                             *)
(***************************************************************************)

\* The rows of a resolved cycle, and the response once given, stay.
HistoryStays(t) ==
  /\ ticket[t].firstResponseAt # Never =>
       /\ ticket'[t].firstResponseAt = ticket[t].firstResponseAt
       /\ responseSla'[t] = responseSla[t]
  /\ \A c \in Cycles : IsResolved(t, c) =>
       /\ resolvedAt'[t][c] = resolvedAt[t][c]
       /\ resolutionSla'[t][c] = resolutionSla[t][c]
       /\ pauses'[t][c] = pauses[t][c]

\* A handler writes a row of resolutionSla or pauses only while it is live, or
\* when it opens it.
LEMMA HandlerKeepsHistory ==
  ASSUME TypeOK, NEW t \in Tickets, CoherentNow(t), NEW c \in Cycles, IsResolved(t, c),
         NEW u \in Users, UserStep(t, u)
  PROVE  resolutionSla'[t][c] = resolutionSla[t][c] /\ pauses'[t][c] = pauses[t][c]
<1>1. \A d \in Cycles : IsLive(resolutionSla[t][d]) => d # c
  BY LiveIsLast DEF CoherentNow, Coherent, IsResolved
<1>2. CASE Create(t, u)
  <2>1. FALSE
    BY <1>2 DEF Create, CoherentNow, Coherent, Accounted, IsResolved
  <2> QED BY <2>1
<1>3. CASE RequestInfo(t, u)
  BY <1>1, <1>3 DEF RequestInfo, IsCurrentSla, TypeOK
<1>4. CASE ProvideInfo(t, u)
  BY <1>1, <1>4 DEF ProvideInfo, IsCurrentSla, TypeOK
<1>5. CASE Resolve(t, u)
  BY <1>1, <1>5 DEF Resolve, IsCurrentSla, TypeOK
<1>6. CASE Resume(t, u)
  <2>1. PICK d \in Cycles, p \in Policies :
          /\ IsLatestCycle(t, d - 1)
          /\ resolutionSla' = [resolutionSla EXCEPT ![t][d] = StartRuntime(now, p.resolution)]
          /\ UNCHANGED pauses
    BY <1>6 DEF Resume
  <2>2. d # c
    BY <2>1 DEF IsLatestCycle, Cycles
  <2> QED BY <2>1, <2>2 DEF TypeOK
<1>7. CASE Reject(t, u)
  BY <1>1, <1>7 DEF Reject, TypeOK
<1>8. CASE (\E p \in Users : Assign(t, u, p) \/ Reassign(t, u, p)) \/ Start(t, u)
             \/ Close(t, u) \/ Reopen(t, u) \/ FirstReply(t, u)
  BY <1>8 DEF Assign, Reassign, Start, Close, Reopen, FirstReply, slaVars
<1> QED BY <1>2, <1>3, <1>4, <1>5, <1>6, <1>7, <1>8 DEF UserStep

\* Later replies, and every other handler, leave the first response alone.
LEMMA HandlerKeepsResponse ==
  ASSUME TypeOK, NEW t \in Tickets, ResponseNow(t), ticket[t].firstResponseAt # Never,
         NEW u \in Users, UserStep(t, u)
  PROVE  /\ ticket'[t].firstResponseAt = ticket[t].firstResponseAt
         /\ responseSla'[t] = responseSla[t]
<1>0. ticket[t] \in TicketRow
  BY DEF TypeOK
<1>1. ASSUME NEW s1, NEW s2, Move(t, s1, s2)
      PROVE  ticket'[t].firstResponseAt = ticket[t].firstResponseAt
  BY <1>0, <1>1 DEF Move, TypeOK, TicketRow
<1>2. CASE Create(t, u) \/ FirstReply(t, u)
  <2>1. FALSE
    BY <1>2 DEF Create, FirstReply, ResponseNow, StoppedOnce
  <2> QED BY <2>1
<1>3. ASSUME NEW p \in Users, Assign(t, u, p) \/ Reassign(t, u, p)
      PROVE  /\ ticket'[t].firstResponseAt = ticket[t].firstResponseAt
             /\ responseSla'[t] = responseSla[t]
  BY <1>0, <1>3 DEF Assign, Reassign, slaVars, TypeOK, TicketRow
<1>4. CASE Start(t, u) \/ RequestInfo(t, u) \/ ProvideInfo(t, u) \/ Resolve(t, u)
             \/ Reopen(t, u) \/ Resume(t, u)
  <2>1. ticket'[t].firstResponseAt = ticket[t].firstResponseAt
    BY <1>1, <1>4 DEF Start, RequestInfo, ProvideInfo, Resolve, Reopen, Resume
  <2> QED BY <1>4, <2>1 DEF Start, RequestInfo, ProvideInfo, Resolve, Reopen, Resume, slaVars
<1>5. CASE Close(t, u)
  BY <1>0, <1>5 DEF Close, SetClosed, slaVars, TypeOK, TicketRow
<1>6. CASE Reject(t, u)
  <2>1. FALSE
    BY <1>6 DEF Reject, Move, ResponseNow, StoppedOnce
  <2> QED BY <2>1
<1> QED BY <1>2, <1>3, <1>4, <1>5, <1>6 DEF UserStep

\* Reopening, later cycles and later replies never touch the verdict, the
\* resolution or the pauses of a finished cycle, nor the first response.
THEOREM HistoryStaysKept == Spec => HistoryIsKept
<1>1. ASSUME TypeOK, CyclesCohere, ResponsesStopOnce, [Next]_vars, NEW t \in Tickets
      PROVE  HistoryStays(t)
  <2>1. CoherentNow(t) /\ ResponseNow(t)
    BY <1>1 DEF CyclesCohere, ResponsesStopOnce, CoherentNow, ResponseNow
  <2>2. \A c \in Cycles : IsResolved(t, c) => resolvedAt'[t][c] = resolvedAt[t][c]
    BY <1>1, ResolutionsStay
  <2>3. ASSUME NEW u \in Users, UserStep(t, u)  PROVE HistoryStays(t)
    BY <1>1, <2>1, <2>2, <2>3, HandlerKeepsHistory, HandlerKeepsResponse DEF HistoryStays
  <2>4. ASSUME NEW a \in Time, SetClosed(t, a, NoUser),
               UNCHANGED <<slaVars, resolvedAt, now>>
        PROVE  HistoryStays(t)
    BY <1>1, <2>4 DEF SetClosed, slaVars, TypeOK, TicketRow, HistoryStays
  <2>5. CASE Untouched(t)
    BY <2>5 DEF Untouched, HistoryStays
  <2> QED BY <1>1, <2>3, <2>4, <2>5, StepOfTicket
<1>2. TypeOK /\ CyclesCohere /\ ResponsesStopOnce /\ [Next]_vars =>
        [\A t \in Tickets :
           /\ ticket[t].firstResponseAt # Never =>
                /\ ticket'[t].firstResponseAt = ticket[t].firstResponseAt
                /\ responseSla'[t] = responseSla[t]
           /\ \A c \in Cycles : IsResolved(t, c) =>
                /\ resolvedAt'[t][c] = resolvedAt[t][c]
                /\ resolutionSla'[t][c] = resolutionSla[t][c]
                /\ pauses'[t][c] = pauses[t][c]]_vars
  BY <1>1 DEF HistoryStays
<1> QED BY <1>2, TypeCorrect, CyclesStayCoherent, ResponsesStayCoherent, PTL
        DEF Spec, HistoryIsKept
=============================================================================
