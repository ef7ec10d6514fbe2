----------------------- MODULE EscalationWorker_proofs -----------------------
(***************************************************************************)
(* Theorems about EscalationWorker, for any number of tickets, runs and    *)
(* crashes.  The worker never writes a variable of TicketWorkflow, so what *)
(* is proved there carries over.                                           *)
(***************************************************************************)
EXTENDS EscalationWorker, TicketWorkflowTiming_proofs

\* Beside the worker, the tickets still behave as TicketWorkflow allows: the
\* worker only reads their tables, and its locks only delay their handlers.
THEOREM WorkerLeavesTickets == WorkerSpec => Spec
<1>1. WorkerInit => Init
  BY DEF WorkerInit
<1>2. [WorkerNext]_allVars => [Next]_vars
  BY DEF WorkerNext, TicketStep, Handle, CommitHandler, Next, allVars
<1> QED BY <1>1, <1>2, PTL DEF WorkerSpec, Spec

-----------------------------------------------------------------------------
\* A run that has not begun is well typed.
LEMMA IdleWorkerType ==
  ASSUME NEW n \in 0..MaxKills
  PROVE  IdleWorker(n) \in WorkerState
BY DEF IdleWorker, WorkerState, Time

\* The ticket of a key.
LEMMA KeyTicket ==
  ASSUME NEW k \in Keys
  PROVE  k[1] \in Rows /\ k[1][1] \in Tickets
BY DEF Keys, Rows

\* The part of the type invariant a run can touch.
RunsTypeOK == events \in [Keys -> Event] /\ worker \in [Workers -> WorkerState]

\* The three reads of a run, and the order they come in, keep its local state
\* well typed.
LEMMA ReadingKeepsType ==
  ASSUME RunsTypeOK, now \in Nat, NEW w \in Workers,
         StartRun(w) \/ ReadRuntimes(w) \/ ReadRecipients(w)
  PROVE  RunsTypeOK'
<1> USE DEF RunsTypeOK, WorkerState, Time
<1>1. CASE StartRun(w)
  <2>1. worker' = [worker EXCEPT ![w] = [@ EXCEPT !.pc = "reading", !.at = now]]
    BY <1>1 DEF StartRun
  <2>2. [worker[w] EXCEPT !.pc = "reading", !.at = now] \in WorkerState
    OBVIOUS
  <2>3. worker' \in [Workers -> WorkerState]
    BY <2>1, <2>2
  <2> QED BY <1>1, <2>3 DEF StartRun
<1>2. CASE ReadRuntimes(w)
  <2> DEFINE found == {k \in Keys : /\ SeenRow(k[1]).status = "RUNNING"
                                   /\ k[2] \in Reached(SeenRow(k[1]), worker[w].at)}
             open == Unsettled(worker[w].at)
  <2>1. worker' = [worker EXCEPT ![w] =
                     [@ EXCEPT !.pc = "addressing", !.unsettled = open, !.due = found]]
    BY <1>2 DEF ReadRuntimes
  <2>2. found \in SUBSET Keys /\ open \in SUBSET Tickets
    BY DEF Unsettled
  <2> HIDE DEF found, open
  <2>3. [worker[w] EXCEPT !.pc = "addressing", !.unsettled = open, !.due = found]
          \in WorkerState
    BY <2>2
  <2>4. worker' \in [Workers -> WorkerState]
    BY <2>1, <2>3
  <2> QED BY <1>2, <2>4 DEF ReadRuntimes
<1>3. CASE ReadRecipients(w)
  <2>1. [t \in Tickets |-> Recipients(t)] \in [Tickets -> SUBSET Users]
    BY DEF Recipients
  <2> DEFINE sent == [t \in Tickets |-> Recipients(t)]
             kept == {k \in worker[w].due : Recipients(k[1][1]) # {}}
  <2>2. worker[w] \in WorkerState
    OBVIOUS
  <2>3. kept \in SUBSET Keys
    BY <2>2
  <2>4. worker' = [worker EXCEPT ![w] =
                     [@ EXCEPT !.pc = "writing", !.inCharge = sent, !.due = kept]]
    BY <1>3 DEF ReadRecipients
  <2> HIDE DEF sent, kept
  <2>5. [worker[w] EXCEPT !.pc = "writing", !.inCharge = sent, !.due = kept] \in WorkerState
    BY <2>1, <2>2, <2>3 DEF sent
  <2>6. worker' \in [Workers -> WorkerState]
    BY <2>4, <2>5
  <2>7. UNCHANGED events
    BY <1>3 DEF ReadRecipients
  <2> QED BY <2>6, <2>7
<1> QED BY <1>1, <1>2, <1>3

\* So do the inserts of a run, its commit and its death.
LEMMA WritingKeepsType ==
  ASSUME RunsTypeOK, NEW w \in Workers,
         \/ \E k \in Keys : InsertEvent(w, k) \/ SkipEvent(w, k)
         \/ NotifyRecipients(w) \/ CommitRun(w) \/ KillRun(w)
  PROVE  RunsTypeOK'
<1>1. ASSUME NEW k \in Keys, InsertEvent(w, k) \/ SkipEvent(w, k)
      PROVE  RunsTypeOK'
  <2> USE DEF RunsTypeOK, WorkerState
  <2>1. worker[w].due \ {k} \in SUBSET Keys /\ worker[w].new \union {k} \in SUBSET Keys
    OBVIOUS
  <2>2. CASE InsertEvent(w, k)
    <3>1. worker' = [worker EXCEPT ![w] = [@ EXCEPT !.due = worker[w].due \ {k},
                                                    !.new = worker[w].new \union {k},
                                                    !.unsent = {k}]]
      BY <2>2 DEF InsertEvent
    <3>2. [worker[w] EXCEPT !.due = worker[w].due \ {k}, !.new = worker[w].new \union {k},
                            !.unsent = {k}] \in WorkerState
      BY <2>1
    <3>3. worker' \in [Workers -> WorkerState]
      BY <3>1, <3>2
    <3> QED BY <2>2, <3>3 DEF InsertEvent
  <2>3. CASE SkipEvent(w, k)
    BY <2>1, <2>3 DEF SkipEvent
  <2> QED BY <1>1, <2>2, <2>3
<1>2. CASE CommitRun(w)
  <2>1. ASSUME NEW k \in Keys
        PROVE  NewEvent(w, k) \in Event
    <3>1. k[1][1] \in Tickets
      BY KeyTicket
    <3> QED BY <3>1 DEF RunsTypeOK, WorkerState, NewEvent, Event, TimeOrNever
  <2>2. events' \in [Keys -> Event]
    BY <1>2, <2>1 DEF CommitRun, RunsTypeOK
  <2>3. worker' \in [Workers -> WorkerState]
    <3>1. worker[w].kills \in 0..MaxKills
      BY DEF RunsTypeOK, WorkerState
    <3>2. IdleWorker(worker[w].kills) \in WorkerState
      BY <3>1, IdleWorkerType
    <3> QED BY <1>2, <3>2 DEF CommitRun, RunsTypeOK
  <2> QED BY <2>2, <2>3 DEF RunsTypeOK
<1>3. CASE KillRun(w)
  <2>1. worker[w].kills + 1 \in 0..MaxKills
    BY <1>3, WorkersAssumption DEF KillRun, RunsTypeOK, WorkerState
  <2>2. IdleWorker(worker[w].kills + 1) \in WorkerState
    BY <2>1, IdleWorkerType
  <2> QED BY <1>3, <2>2 DEF KillRun, RunsTypeOK
<1>4. CASE NotifyRecipients(w)
  <2>1. [worker[w] EXCEPT !.unsent = {}] \in WorkerState
    BY DEF RunsTypeOK, WorkerState
  <2> QED BY <1>4, <2>1 DEF NotifyRecipients, RunsTypeOK
<1> QED BY <1>1, <1>2, <1>3, <1>4

\* What a handler leaves, and its instant, are well typed.
LEMMA RequestsKeepType ==
  ASSUME TypeOK, WorkerTypeOK, NEW t \in Tickets,
         CommitHandler(t) \/ \E u \in Users : Handle(t, u)
  PROVE  committed' \in [Tickets -> Committed] /\ began' \in [Tickets -> TimeOrNever]
<1>1. Written(t) \in Committed
  <2>1. /\ ticket[t].assignee \in Users \union {NoUser}
        /\ responseSla[t] \in Runtime /\ resolutionSla[t] \in [Cycles -> Runtime]
    BY DEF TypeOK, TicketRow
  <2> QED BY <2>1 DEF Written, Committed
<1>2. now \in TimeOrNever /\ Never \in TimeOrNever
  BY BoundsAssumption DEF TypeOK, TimeOrNever, Time
<1> QED BY <1>1, <1>2 DEF WorkerTypeOK, CommitHandler, Handle

\* Every reachable state of the events, the runs and the handlers at work is well
\* typed.
THEOREM WorkerTypeCorrect == WorkerSpec => []WorkerTypeOK
<1>1. WorkerInit => WorkerTypeOK
  <2> SUFFICES ASSUME WorkerInit  PROVE WorkerTypeOK
    OBVIOUS
  <2>1. IdleWorker(0) \in WorkerState
    BY WorkersAssumption, IdleWorkerType
  <2>2. NoRuntime \in Runtime
    BY DEF NoRuntime, Runtime, RuntimeStatus, RuntimeResult, TimeOrNever, Never
  <2>3. ASSUME NEW t \in Tickets  PROVE Written(t) \in Committed
    <3>1. /\ ticket[t].assignee = NoUser /\ responseSla[t] = NoRuntime
          /\ resolutionSla[t] = [c \in Cycles |-> NoRuntime]
      BY DEF WorkerInit, Init, NoTicket
    <3> QED BY <2>2, <3>1 DEF Written, Committed
  <2>4. NoEvent \in Event
    BY DEF NoEvent, Event, TimeOrNever
  <2>5. committed \in [Tickets -> Committed]
    BY <2>3 DEF WorkerInit
  <2> QED BY <2>1, <2>4, <2>5 DEF WorkerInit, WorkerTypeOK, TimeOrNever
<1>2. TypeOK /\ WorkerTypeOK /\ [WorkerNext]_allVars => WorkerTypeOK'
  <2> SUFFICES ASSUME TypeOK, WorkerTypeOK, [WorkerNext]_allVars
               PROVE  WorkerTypeOK'
    OBVIOUS
  <2>1. now \in Nat /\ RunsTypeOK
    BY BoundsAssumption DEF TypeOK, WorkerTypeOK, RunsTypeOK
  <2>2. CASE UNCHANGED <<workerVars, requestVars>>
    BY <2>2 DEF workerVars, requestVars, WorkerTypeOK
  <2>3. CASE UNCHANGED workerVars /\ \E t \in Tickets :
               CommitHandler(t) \/ \E u \in Users : Handle(t, u)
    BY <2>3, RequestsKeepType DEF workerVars, WorkerTypeOK
  <2>4. ASSUME UNCHANGED requestVars, NEW w \in Workers, WorkerStep(w) \/ KillRun(w)
        PROVE  WorkerTypeOK'
    <3>1. RunsTypeOK'
      BY <2>1, <2>4, ReadingKeepsType, WritingKeepsType DEF WorkerStep
    <3> QED BY <2>4, <3>1 DEF RunsTypeOK, WorkerTypeOK, requestVars
  <2> QED BY <2>2, <2>3, <2>4 DEF WorkerNext, TicketStep, allVars, requestVars
<1> QED BY <1>1, <1>2, WorkerLeavesTickets, TypeCorrect, PTL DEF WorkerSpec

-----------------------------------------------------------------------------
\* Two runs never insert the same event, nor one that is on record: the unique
\* key makes the second wait, and it looks again when the first has ended.
THEOREM InsertsExclude == WorkerSpec => []InsertsAreExclusive
<1>1. WorkerInit => InsertsAreExclusive
  BY DEF WorkerInit, InsertsAreExclusive, IdleWorker
<1>2. WorkerTypeOK /\ InsertsAreExclusive /\ [WorkerNext]_allVars => InsertsAreExclusive'
  <2> SUFFICES ASSUME WorkerTypeOK, InsertsAreExclusive, [WorkerNext]_allVars
               PROVE  InsertsAreExclusive'
    OBVIOUS
  <2>1. CASE UNCHANGED workerVars
    BY <2>1 DEF workerVars, InsertsAreExclusive, Recorded
  <2>2. ASSUME NEW w \in Workers,
               UNCHANGED events, \A v \in Workers : worker'[v].new \subseteq worker[v].new
        PROVE  InsertsAreExclusive'
    BY <2>2 DEF InsertsAreExclusive, Recorded
  <2>3. ASSUME NEW w \in Workers,
               \/ StartRun(w) \/ ReadRuntimes(w) \/ ReadRecipients(w)
               \/ (\E k \in Keys : SkipEvent(w, k)) \/ NotifyRecipients(w) \/ KillRun(w)
        PROVE  InsertsAreExclusive'
    <3>1. \A v \in Workers : worker'[v].new \subseteq worker[v].new
      <4> USE DEF WorkerTypeOK, WorkerState
      <4>1. CASE StartRun(w)
        BY <4>1 DEF StartRun
      <4>2. CASE ReadRuntimes(w)
        BY <4>2 DEF ReadRuntimes
      <4>3. CASE ReadRecipients(w)
        BY <4>3 DEF ReadRecipients
      <4>4. ASSUME NEW k \in Keys, SkipEvent(w, k)
            PROVE  \A v \in Workers : worker'[v].new \subseteq worker[v].new
        BY <4>4 DEF SkipEvent
      <4>5. CASE KillRun(w)
        BY <4>5 DEF KillRun, IdleWorker
      <4>6. CASE NotifyRecipients(w)
        BY <4>6 DEF NotifyRecipients
      <4> QED BY <2>3, <4>1, <4>2, <4>3, <4>4, <4>5, <4>6
    <3>2. UNCHANGED events
      BY <2>3 DEF StartRun, ReadRuntimes, ReadRecipients, SkipEvent, NotifyRecipients, KillRun
    <3> QED BY <2>2, <3>1, <3>2
  <2>4. ASSUME NEW w \in Workers, NEW k \in Keys, InsertEvent(w, k)
        PROVE  InsertsAreExclusive'
    <3>1. worker'[w].new = worker[w].new \union {k}
      BY <2>4 DEF InsertEvent, WorkerTypeOK, WorkerState
    <3>2. \A v \in Workers \ {w} : worker'[v] = worker[v]
      BY <2>4 DEF InsertEvent, WorkerTypeOK
    <3>3. ~Recorded(k) /\ \A v \in Workers \ {w} : k \notin worker[v].new
      BY <2>4 DEF InsertEvent, IsHeld
    <3>4. UNCHANGED events
      BY <2>4 DEF InsertEvent
    <3> QED BY <3>1, <3>2, <3>3, <3>4 DEF InsertsAreExclusive, Recorded
  <2>5. ASSUME NEW w \in Workers, CommitRun(w)
        PROVE  InsertsAreExclusive'
    <3>1. worker'[w].new = {} /\ \A v \in Workers \ {w} : worker'[v] = worker[v]
      BY <2>5 DEF CommitRun, IdleWorker, WorkerTypeOK
    <3>2. \A v \in Workers : worker[v].new \subseteq Keys
      BY DEF WorkerTypeOK, WorkerState
    <3>3. ASSUME NEW v \in Workers \ {w}, NEW k \in worker[v].new
          PROVE  events'[k] = events[k]
      BY <2>5, <3>2, <3>3 DEF CommitRun, InsertsAreExclusive
    <3> QED BY <3>1, <3>3 DEF InsertsAreExclusive, Recorded
  <2> QED BY <2>1, <2>3, <2>4, <2>5 DEF WorkerNext, WorkerStep, allVars
<1> QED BY <1>1, <1>2, WorkerTypeCorrect, PTL DEF WorkerSpec

\* A threshold is reported once: no later run, and no run that overlaps, changes
\* the event, its time or the users it was sent to.
THEOREM EventsStay == WorkerSpec => EventsAreFinal
<1>1. InsertsAreExclusive /\ [WorkerNext]_allVars
        => [\A k \in Keys : Recorded(k) => events'[k] = events[k]]_allVars
  <2> SUFFICES ASSUME InsertsAreExclusive, WorkerNext, NEW k \in Keys, Recorded(k)
               PROVE  events'[k] = events[k]
    OBVIOUS
  <2>1. ASSUME NEW w \in Workers, CommitRun(w)
        PROVE  events'[k] = events[k]
    BY <2>1 DEF CommitRun, InsertsAreExclusive
  <2>2. CASE UNCHANGED events
    BY <2>2
  <2> QED BY <2>1, <2>2 DEF WorkerNext, WorkerStep, StartRun, ReadRuntimes, ReadRecipients,
                            InsertEvent, SkipEvent, NotifyRecipients, KillRun, workerVars
<1> QED BY <1>1, InsertsExclude, PTL DEF WorkerSpec, EventsAreFinal

-----------------------------------------------------------------------------
(***************************************************************************)
(* What others read of a ticket                                            *)
(***************************************************************************)
TicketsCohere == TypeOK /\ CyclesCohere /\ ResponsesStopOnce /\ SlaRowsSound

\* What is proved of the tickets holds beside the worker.
LEMMA TicketsStayCoherent == WorkerSpec => []TicketsCohere
BY WorkerLeavesTickets, TypeCorrect, CyclesStayCoherent, ResponsesStayCoherent,
   RowsStaySound, PTL DEF TicketsCohere

\* A row is one of the two tables' rows of its ticket.
LEMMA RowType ==
  ASSUME TypeOK, NEW row \in Rows
  PROVE  /\ row[1] \in Tickets /\ (row[2] = 0 \/ row[2] \in Cycles)
         /\ RowOf(row) \in Runtime
<1>1. row[1] \in Tickets /\ (row[2] = 0 \/ row[2] \in Cycles)
  BY BoundsAssumption DEF Rows, Cycles
<1> QED BY <1>1 DEF RowOf, TypeOK

\* So is the row others read.
LEMMA SeenType ==
  ASSUME WorkerTypeOK, NEW row \in Rows
  PROVE  SeenRow(row) \in Runtime
<1>1. row[1] \in Tickets /\ (row[2] = 0 \/ row[2] \in Cycles)
  BY BoundsAssumption DEF Rows, Cycles
<1>2. committed[row[1]] \in Committed
  BY <1>1 DEF WorkerTypeOK
<1> QED BY <1>1, <1>2 DEF SeenRow, Committed

\* A row at a step: it is sound, and it moves at the present or time passes.
LEMMA RowStep ==
  ASSUME TicketsCohere, NEW row \in Rows
  PROVE  /\ now \in Time /\ RowOf(row) \in Runtime /\ SoundRow(RowOf(row), now)
         /\ [Next]_vars => /\ now' \in Time /\ now <= now'
                           /\ RowMove(RowOf(row), RowOf(row)', now)
                           /\ now' = now \/ RowOf(row)' = RowOf(row)
<1>1. row[1] \in Tickets /\ (row[2] = 0 \/ row[2] \in Cycles)
  BY RowType DEF TicketsCohere
<1>2. now \in Time
  BY <1>1, RowsOfTicket DEF TicketsCohere
<1>3. RowOf(row) \in Runtime
  BY RowType DEF TicketsCohere
<1>4. SoundRow(RowOf(row), now)
  BY <1>1 DEF RowOf, TicketsCohere, SlaRowsSound
<1>5. ASSUME [Next]_vars
      PROVE  /\ now' \in Time /\ now <= now'
             /\ RowMove(RowOf(row), RowOf(row)', now)
             /\ now' = now \/ RowOf(row)' = RowOf(row)
  <2>1. /\ now' \in Time /\ now <= now' /\ RowsMove(row[1])
        /\ \/ now' = now
           \/ /\ responseSla'[row[1]] = responseSla[row[1]]
              /\ resolutionSla'[row[1]] = resolutionSla[row[1]]
    BY <1>1, <1>5, StepMovesRows DEF TicketsCohere
  <2> QED BY <1>1, <2>1 DEF RowOf, RowsMove
<1> QED BY <1>2, <1>3, <1>4, <1>5

\* A step of the tickets: a handler commits, or does its work, or time passes.
RequestStep ==
  \/ \E t \in Tickets : CommitHandler(t) \/ \E u \in Users : Handle(t, u)
  \/ UNCHANGED requestVars /\ (Tick \/ UNCHANGED vars)

\* A step of a run, or one that leaves all runs alone.
LEMMA StepOfRun ==
  ASSUME [WorkerNext]_allVars
  PROVE  \/ /\ UNCHANGED workerVars /\ [Next]_vars /\ (now' = now \/ now' = now + 1)
            /\ RequestStep
         \/ /\ UNCHANGED vars /\ UNCHANGED requestVars
            /\ \E w \in Workers : WorkerStep(w) \/ KillRun(w)
<1>1. ASSUME TicketStep  PROVE [Next]_vars /\ (now' = now \/ now' = now + 1)
  <2>1. CASE Tick
    BY <2>1 DEF Tick, Next
  <2>2. ASSUME NEW t \in Tickets, NEW u \in Users, UserStep(t, u)
        PROVE  [Next]_vars /\ now' = now
    BY <2>2, HandlersStopNoClock DEF Next
  <2>3. CASE UNCHANGED vars
    BY <2>3 DEF vars
  <2> QED BY <1>1, <2>1, <2>2, <2>3 DEF TicketStep, Handle, CommitHandler
<1>2. TicketStep => RequestStep
  BY DEF TicketStep, RequestStep
<1>3. CASE TicketStep /\ UNCHANGED workerVars
  BY <1>1, <1>2, <1>3
<1>4. CASE \E w \in Workers : (WorkerStep(w) \/ KillRun(w)) /\ UNCHANGED <<vars, requestVars>>
  BY <1>4
<1>5. CASE UNCHANGED allVars
  <2>1. UNCHANGED vars /\ UNCHANGED workerVars /\ UNCHANGED requestVars
    BY <1>5 DEF allVars
  <2> QED BY <2>1 DEF RequestStep, vars
<1> QED BY <1>3, <1>4, <1>5 DEF WorkerNext

\* While a handler is at work on a ticket, others read its rows as they were when
\* the handler took its time; otherwise they read what is there.
RowTrails(row) ==
  IF began[row[1]] = Never THEN SeenRow(row) = RowOf(row)
  ELSE /\ began[row[1]] \in Time /\ began[row[1]] <= now
       /\ SoundRow(SeenRow(row), began[row[1]])
       /\ RowMove(SeenRow(row), RowOf(row), began[row[1]])

RowsTrail == \A row \in Rows : RowTrails(row)

\* Every row others read is at most one handler behind.
LEMMA RowsStayTrailing == WorkerSpec => []RowsTrail
<1>1. WorkerInit => RowsTrail
  <2> SUFFICES ASSUME WorkerInit, NEW row \in Rows  PROVE RowTrails(row)
    BY DEF RowsTrail
  <2>1. row[1] \in Tickets
    BY DEF Rows
  <2>2. began[row[1]] = Never /\ committed[row[1]] = Written(row[1])
    BY <2>1 DEF WorkerInit
  <2> QED BY <2>2 DEF RowTrails, SeenRow, RowOf, Written
<1>2. TicketsCohere /\ WorkerTypeOK /\ RowsTrail /\ [WorkerNext]_allVars => RowsTrail'
  <2> SUFFICES ASSUME TicketsCohere, WorkerTypeOK, RowsTrail, [WorkerNext]_allVars,
                      NEW row \in Rows
               PROVE  RowTrails(row)'
    BY DEF RowsTrail
  <2>0. /\ RowTrails(row) /\ row[1] \in Tickets /\ (row[2] = 0 \/ row[2] \in Cycles)
        /\ now \in Time /\ SoundRow(RowOf(row), now)
    BY RowStep, RowType DEF RowsTrail, TicketsCohere
  <2>1. ASSUME UNCHANGED requestVars, RowOf(row)' = RowOf(row), now' \in Time, now <= now'
        PROVE  RowTrails(row)'
    <3>1. SeenRow(row)' = SeenRow(row) /\ began' = began
      BY <2>1 DEF SeenRow, requestVars
    <3>2. began[row[1]] \in Time => (began[row[1]] <= now => began[row[1]] <= now')
      BY <2>0, <2>1 DEF Time
    <3> QED BY <2>0, <2>1, <3>1, <3>2 DEF RowTrails
  <2>2. CASE UNCHANGED vars /\ UNCHANGED requestVars
    <3>1. RowOf(row)' = RowOf(row) /\ now' = now
      BY <2>2 DEF vars, slaVars, RowOf
    <3>2. now <= now
      BY <2>0 DEF Time
    <3> QED BY <2>0, <2>1, <2>2, <3>1, <3>2
  <2>3. CASE UNCHANGED requestVars /\ Tick
    <3>1. RowOf(row)' = RowOf(row) /\ now' = now + 1
      BY <2>3 DEF Tick, slaVars, RowOf
    <3>2. now' \in Time /\ now <= now'
      BY <2>0, <3>1 DEF Time
    <3> QED BY <2>1, <2>3, <3>1, <3>2
  <2>4. ASSUME NEW t \in Tickets, CommitHandler(t)
        PROVE  RowTrails(row)'
    <3>1. RowOf(row)' = RowOf(row) /\ now' = now
      BY <2>4 DEF CommitHandler, vars, slaVars, RowOf
    <3>2. CASE t = row[1]
      <4>1. began'[row[1]] = Never /\ committed'[row[1]] = Written(row[1])
        BY <2>4, <3>2 DEF CommitHandler, WorkerTypeOK
      <4>2. SeenRow(row)' = RowOf(row)
        BY <4>1 DEF SeenRow, RowOf, Written
      <4> QED BY <3>1, <4>1, <4>2 DEF RowTrails
    <3>3. CASE t # row[1]
      <4>1. began'[row[1]] = began[row[1]] /\ committed'[row[1]] = committed[row[1]]
        BY <2>0, <2>4, <3>3 DEF CommitHandler, WorkerTypeOK
      <4>2. SeenRow(row)' = SeenRow(row)
        BY <4>1 DEF SeenRow
      <4> QED BY <2>0, <3>1, <4>1, <4>2 DEF RowTrails
    <3> QED BY <3>2, <3>3
  <2>5. ASSUME NEW t \in Tickets, NEW u \in Users, Handle(t, u)
        PROVE  RowTrails(row)'
    <3>1. UserStep(t, u) /\ UNCHANGED committed
      BY <2>5 DEF Handle
    <3>2. now' = now
      BY <3>1, HandlersStopNoClock
    <3>3. SeenRow(row)' = SeenRow(row)
      BY <3>1 DEF SeenRow
    <3>4. CASE t = row[1]
      <4>1. began[row[1]] = Never /\ began'[row[1]] = now
        BY <2>5, <3>4 DEF Handle, WorkerTypeOK
      <4>2. SeenRow(row) = RowOf(row)
        BY <2>0, <4>1 DEF RowTrails
      <4>3. RowMove(RowOf(row), RowOf(row)', now)
        <5>1. [Next]_vars
          BY <3>1 DEF Next
        <5> QED BY <5>1, RowStep
      <4>4. now # Never /\ now <= now
        BY <2>0 DEF Time, Never
      <4> QED BY <2>0, <3>2, <3>3, <4>1, <4>2, <4>3, <4>4 DEF RowTrails
    <3>5. CASE t # row[1]
      <4>1. began'[row[1]] = began[row[1]]
        BY <2>0, <2>5, <3>5 DEF Handle, WorkerTypeOK
      <4>2. Untouched(row[1])
        BY <2>0, <3>1, <3>5, OthersUntouched DEF TicketsCohere
      <4>3. RowOf(row)' = RowOf(row)
        BY <4>2 DEF Untouched, RowOf
      <4> QED BY <2>0, <3>2, <3>3, <4>1, <4>3 DEF RowTrails
    <3> QED BY <3>4, <3>5
  <2> QED BY <2>2, <2>3, <2>4, <2>5, StepOfRun DEF RequestStep
<1> QED BY <1>1, <1>2, TicketsStayCoherent, WorkerTypeCorrect, PTL DEF WorkerSpec

-----------------------------------------------------------------------------
(***************************************************************************)
(* What a run holds stays true                                             *)
(***************************************************************************)

\* The row has reached the threshold, or will never reach another.
Holds(k) ==
  \/ RowOf(k[1]).status \in Counted /\ k[2] \in Reached(RowOf(k[1]), now)
  \/ RowOf(k[1]).status = "NOT_APPLICABLE"

\* A threshold reached at some time is reached ever after, though the row moves
\* between that time and the present.
LEMMA HoldsLater ==
  ASSUME NEW s \in Runtime, s.status \in Counted,
         NEW at \in Time, NEW h \in Time, at <= h, NEW later \in Time, h <= later,
         SoundRow(s, at), NEW r, RowMove(s, r, h),
         NEW e, e \in Reached(s, at)
  PROVE  \/ r.status \in Counted /\ e \in Reached(r, later)
         \/ r.status = "NOT_APPLICABLE"
<1>0. WarningPercent \in Nat /\ EscalationPercent \in Nat
  BY PercentAssumption
<1>1. SoundRow(s, h)
  BY SoundLater
<1>2. NoBetter(s, at, s, h)
  BY TimeGoesOn
<1>3. e \in Reached(s, h)
  BY <1>0, <1>1, <1>2, ThresholdsStay DEF Reached
<1>4. SoundRow(r, h)
  BY <1>1, MoveKeepsSound
<1>5. r.status \in Counted \union {"NOT_APPLICABLE"}
  BY DEF RowMove, IsLive, Counted, Runtime, PauseRuntime, ResumeRuntime, CompleteRuntime,
         MarkNotApplicable
<1>6. ASSUME r.status \in Counted  PROVE e \in Reached(r, later)
  <2>1. NoBetter(s, h, r, h)
    BY <1>1, <1>6, MoveGoesOn
  <2>2. e \in Reached(r, h)
    BY <1>0, <1>1, <1>3, <1>4, <1>6, <2>1, ThresholdsStay DEF Reached
  <2>3. SoundRow(r, later)
    BY <1>4, SoundLater
  <2>4. NoBetter(r, h, r, later)
    BY <1>4, <1>6, TimeGoesOn
  <2> QED BY <1>0, <1>4, <1>6, <2>2, <2>3, <2>4, ThresholdsStay DEF Reached
<1> QED BY <1>5, <1>6

\* So what holds goes on holding.
LEMMA HoldsOn ==
  ASSUME TicketsCohere, NEW k \in Keys, Holds(k), [Next]_vars
  PROVE  Holds(k)'
<1> DEFINE r == RowOf(k[1])
           s == RowOf(k[1])'
<1>1. /\ r \in Runtime /\ SoundRow(r, now)
      /\ now \in Time /\ now' \in Time /\ now <= now' /\ now <= now
      /\ RowMove(r, s, now)
  BY KeyTicket, RowStep DEF Time
<1>2. Holds(k) <=> \/ r.status \in Counted /\ k[2] \in Reached(r, now)
                   \/ r.status = "NOT_APPLICABLE"
  BY DEF Holds
<1>3. Holds(k)' <=> \/ s.status \in Counted /\ k[2] \in Reached(s, now')
                    \/ s.status = "NOT_APPLICABLE"
  BY DEF Holds, Reached
<1> HIDE DEF r, s
<1>4. CASE r.status \in Counted /\ k[2] \in Reached(r, now)
  BY <1>1, <1>3, <1>4, HoldsLater
<1>5. CASE r.status = "NOT_APPLICABLE"
  <2>1. s = r
    BY <1>1, <1>5 DEF RowMove, IsLive
  <2> QED BY <1>3, <1>5, <2>1
<1> QED BY <1>2, <1>4, <1>5

\* A row once started stays, with its deadline.
LEMMA DeadlineStays ==
  ASSUME TicketsCohere, NEW row \in Rows, RowOf(row).status # "NONE", [Next]_vars
  PROVE  RowOf(row)'.status # "NONE" /\ RowOf(row)'.dueAt = RowOf(row).dueAt
<1> DEFINE r == RowOf(row)
           s == RowOf(row)'
<1>1. r \in Runtime /\ RowMove(r, s, now)
  BY RowStep
<1> HIDE DEF r, s
<1>2. r.status # "NONE"
  BY DEF r
<1>3. s.status # "NONE" /\ s.dueAt = r.dueAt
  BY <1>1, <1>2
     DEF RowMove, IsLive, Runtime, PauseRuntime, ResumeRuntime, CompleteRuntime,
         MarkNotApplicable
<1> QED BY <1>3 DEF r, s

\* A pause stays on record; one that is open may end, at the present.
LEMMA PauseGoesOn ==
  ASSUME NEW r, NEW ps \in Seq(PausePeriod), NEW s, NEW qs, NEW at,
         LedgerMove(r, ps, s, qs, at)
  PROVE  \A i \in DOMAIN ps :
           /\ i \in DOMAIN qs /\ qs[i].pausedAt = ps[i].pausedAt
           /\ qs[i] = ps[i] \/ (IsOpen(ps[i]) /\ qs[i].resumedAt = at)
<1> SUFFICES ASSUME NEW i \in DOMAIN ps
             PROVE  /\ i \in DOMAIN qs /\ qs[i].pausedAt = ps[i].pausedAt
                    /\ qs[i] = ps[i] \/ (IsOpen(ps[i]) /\ qs[i].resumedAt = at)
  OBVIOUS
<1>1. CASE qs = ps
  BY <1>1
<1>2. CASE qs = Append(ps, [pausedAt |-> at, resumedAt |-> Never, duration |-> 0])
  <2>1. i \in DOMAIN qs /\ qs[i] = ps[i]
    BY <1>2
  <2> QED BY <2>1
<1>3. ASSUME NEW j \in DOMAIN ps, IsOpen(ps[j]), NEW d,
             qs = [ps EXCEPT ![j] =
                    [pausedAt |-> ps[j].pausedAt, resumedAt |-> at, duration |-> d]]
      PROVE  /\ i \in DOMAIN qs /\ qs[i].pausedAt = ps[i].pausedAt
             /\ qs[i] = ps[i] \/ (IsOpen(ps[i]) /\ qs[i].resumedAt = at)
  <2>1. i \in DOMAIN qs
    BY <1>3
  <2>2. CASE i = j
    <3>1. qs[i] = [pausedAt |-> ps[j].pausedAt, resumedAt |-> at, duration |-> d]
      BY <1>3, <2>2
    <3> QED BY <1>3, <2>1, <2>2, <3>1
  <2>3. CASE i # j
    BY <1>3, <2>1, <2>3
  <2> QED BY <2>2, <2>3
<1> QED BY <1>1, <1>2, <1>3 DEF LedgerMove

\* A clock that had stopped before a time now past had stopped before it.
LEMMA StoppedOn ==
  ASSUME TicketsCohere, NEW row \in Rows, [Next]_vars,
         NEW at \in Time, at <= now, StoppedBefore(row, at)
  PROVE  StoppedBefore(row, at)'
<1>1. CASE RowOf(row).status = "COMPLETED" /\ RowOf(row).completedAt < at
  <2>1. RowMove(RowOf(row), RowOf(row)', now)
    BY RowStep
  <2>2. RowOf(row)' = RowOf(row)
    BY <1>1, <2>1 DEF RowMove, IsLive
  <2> QED BY <1>1, <2>2 DEF StoppedBefore
<1>2. ASSUME row[2] # 0, NEW i \in DOMAIN pauses[row[1]][row[2]],
             pauses[row[1]][row[2]][i].pausedAt < at,
             \/ IsOpen(pauses[row[1]][row[2]][i])
             \/ at <= pauses[row[1]][row[2]][i].resumedAt
      PROVE  StoppedBefore(row, at)'
  <2> DEFINE ps == pauses[row[1]][row[2]]
             qs == pauses'[row[1]][row[2]]
             r == resolutionSla[row[1]][row[2]]
             s == resolutionSla'[row[1]][row[2]]
  <2>1. row[1] \in Tickets /\ row[2] \in Cycles
    BY <1>2, RowType DEF TicketsCohere
  <2>2. ps \in Seq(PausePeriod)
    BY <2>1 DEF TicketsCohere, TypeOK
  <2>3. LedgerMove(r, ps, s, qs, now)
    BY <2>1, StepMovesLedgers DEF TicketsCohere, LedgersMove
  <2>4. /\ i \in DOMAIN ps /\ ps[i].pausedAt < at
        /\ IsOpen(ps[i]) \/ at <= ps[i].resumedAt
    BY <1>2
  <2>5. StoppedBefore(row, at)' <=>
          \/ RowOf(row)'.status = "COMPLETED" /\ RowOf(row)'.completedAt < at
          \/ /\ row[2] # 0
             /\ \E j \in DOMAIN qs : /\ qs[j].pausedAt < at
                                     /\ IsOpen(qs[j]) \/ at <= qs[j].resumedAt
    BY DEF StoppedBefore
  <2> HIDE DEF ps, qs, r, s
  <2>6. \A j \in DOMAIN ps :
          /\ j \in DOMAIN qs /\ qs[j].pausedAt = ps[j].pausedAt
          /\ qs[j] = ps[j] \/ (IsOpen(ps[j]) /\ qs[j].resumedAt = now)
    BY <2>2, <2>3, PauseGoesOn
  <2> QED BY <1>2, <2>4, <2>5, <2>6
<1> QED BY <1>1, <1>2 DEF StoppedBefore

\* A run knows no row that was started after it took the time: measured at an
\* instant before its start, a row has reached nothing.
LEMMA NothingBeforeStart ==
  ASSUME NEW r, NEW present \in Time, SoundRow(r, present), r.status = "RUNNING",
         NEW at \in Time, at <= present, Reached(r, at) # {}
  PROVE  SoundRow(r, at)
<1>1. /\ r.startedAt \in Int /\ r.dueAt \in Int /\ r.totalPaused \in Nat
      /\ r.dueAt >= r.startedAt + TicksPerSecond /\ Anchor(r, at) = at
      /\ Target(r) \in Nat \ {0}
      /\ EffectiveDueAt(r.dueAt, r.totalPaused) \in Int
  BY MeasuresAreIntegers DEF SoundRow, Counted, Anchor, Time
<1>2. SUFFICES ASSUME r.startedAt > at
               PROVE  FALSE
  BY <1>1 DEF SoundRow, Time
<1>3. at \in Int
  BY DEF Time
<1>4. ~(Remaining(r, at) < 0)
  <2>1. EffectiveDueAt(r.dueAt, r.totalPaused) >= r.dueAt
    BY <1>1, TicksPerSecondAssumption DEF EffectiveDueAt, Ticks
  <2>2. /\ EffectiveDueAt(r.dueAt, r.totalPaused) - at \in Int
        /\ ~(EffectiveDueAt(r.dueAt, r.totalPaused) - at < 0)
    BY <1>1, <1>2, <1>3, <2>1, TicksPerSecondAssumption
  <2> QED BY <1>1, <2>2, SecondsSign DEF Remaining
<1>5. Elapsed(r, at) = 0
  <2>1. at - r.startedAt \in Int /\ at - r.startedAt < 0
    BY <1>1, <1>2, <1>3
  <2>2. Seconds(at - r.startedAt) \in Int /\ Seconds(at - r.startedAt) < 0
    BY <2>1, SecondsType, SecondsSign
  <2> QED BY <1>1, <2>2 DEF Elapsed, AtLeast
<1>6. Progress(r, at) = 0
  <2> DEFINE g == Target(r)
  <2>1. Progress(r, at) = g \div (2 * g)
    BY <1>1, <1>5 DEF Progress
  <2> HIDE DEF g
  <2>2. g \in Nat \ {0}
    BY <1>1 DEF g
  <2> QED BY <2>1, <2>2
<1> QED BY <1>4, <1>6, PercentAssumption DEF Reached, ReachedThresholds

\* An event measured at the given time is borne out by the present row, or by
\* what a handler was still to commit when the row was read.
Borne(k, at, unsettled) ==
  /\ RowOf(k[1]).status # "NONE"
  /\ Holds(k) \/ (unsettled /\ StoppedBefore(k[1], at))

\* Once borne out, ever after.
LEMMA BorneOn ==
  ASSUME TicketsCohere, NEW k \in Keys, NEW at \in Time, at <= now, NEW unsettled,
         Borne(k, at, unsettled), [Next]_vars
  PROVE  Borne(k, at, unsettled)'
<1>1. k[1] \in Rows
  BY KeyTicket
<1>2. RowOf(k[1])'.status # "NONE"
  BY <1>1, DeadlineStays DEF Borne
<1>3. Holds(k) => Holds(k)'
  BY HoldsOn
<1>4. StoppedBefore(k[1], at) => StoppedBefore(k[1], at)'
  BY <1>1, StoppedOn
<1> QED BY <1>2, <1>3, <1>4 DEF Borne

\* It does not depend on the runs.
LEMMA BorneUnread ==
  ASSUME UNCHANGED vars, NEW k, NEW at, NEW unsettled, Borne(k, at, unsettled)
  PROVE  Borne(k, at, unsettled)'
BY DEF Borne, Holds, StoppedBefore, Reached, RowOf, vars, slaVars

-----------------------------------------------------------------------------
(***************************************************************************)
(* What a run finds due                                                    *)
(***************************************************************************)
ReadDue(w) == {k \in Keys : /\ SeenRow(k[1]).status = "RUNNING"
                            /\ k[2] \in Reached(SeenRow(k[1]), worker[w].at)}

\* A row read as RUNNING, and what the handler at work on it makes of it when it
\* stops the clock before the given time.
LEMMA StoppedUnseen ==
  ASSUME TicketsCohere, NEW row \in Rows, NEW s \in Runtime, s.status = "RUNNING",
         NEW h \in Time, NEW at \in Time, h < at, RowMove(s, RowOf(row), h)
  PROVE  \/ RowOf(row) = s
         \/ RowOf(row).status = "NOT_APPLICABLE"
         \/ RowOf(row).status # "NONE" /\ StoppedBefore(row, at)
<1> DEFINE r == RowOf(row)
<1>1. CASE r = PauseRuntime(s, h)
  <2>1. r.status = "PAUSED" /\ r.pausedAt = h
    BY <1>1, MovedFields
  <2>2. row[1] \in Tickets /\ (row[2] = 0 \/ row[2] \in Cycles)
    BY RowType DEF TicketsCohere
  <2>3. row[2] # 0
    <3> SUFFICES ASSUME row[2] = 0  PROVE FALSE
      OBVIOUS
    <3>1. responseSla[row[1]].status = "PAUSED"
      BY <2>1 DEF RowOf
    <3> QED BY <2>2, <3>1 DEF TicketsCohere, ResponsesStopOnce, StoppedOnce
  <2>4. resolutionSla[row[1]][row[2]] = r
    BY <2>3 DEF RowOf
  <2>5. HeldSince(pauses[row[1]][row[2]], h)
    <3>1. Clocked(ticket[row[1]].status, resolutionSla[row[1]], pauses[row[1]])
      BY <2>2 DEF TicketsCohere, CyclesCohere, Coherent
    <3> QED BY <2>1, <2>2, <2>3, <2>4, <3>1 DEF Clocked
  <2>6. \E i \in DOMAIN pauses[row[1]][row[2]] :
          LET p == pauses[row[1]][row[2]][i]
          IN  p.pausedAt < at /\ IsOpen(p)
    BY <2>5 DEF HeldSince
  <2> QED BY <2>1, <2>3, <2>6 DEF StoppedBefore
<1>2. CASE r = CompleteRuntime(s, h)
  <2>1. r.status = "COMPLETED" /\ r.completedAt = h
    BY <1>2, MovedFields
  <2> QED BY <2>1 DEF StoppedBefore
<1>3. CASE r = MarkNotApplicable(s, h)
  BY <1>3, MovedFields
<1> QED BY <1>1, <1>2, <1>3 DEF RowMove

\* What a run finds due, measured at the time it took before, is borne out at
\* present, and the row it read made sense at that time.
LEMMA ReadDueHolds ==
  ASSUME TicketsCohere, WorkerTypeOK, RowsTrail, NEW w \in Workers, worker[w].at <= now,
         NEW k \in ReadDue(w)
  PROVE  /\ SoundRow(SeenRow(k[1]), worker[w].at)
         /\ Borne(k, worker[w].at, k[1][1] \in Unsettled(worker[w].at))
<1> DEFINE r == RowOf(k[1])
           s == SeenRow(k[1])
           at == worker[w].at
           h == began[k[1][1]]
<1>1. k \in Keys /\ k[1] \in Rows /\ k[1][1] \in Tickets /\ s.status = "RUNNING"
  BY KeyTicket DEF ReadDue
<1>2. k[2] \in Reached(s, at)
  BY DEF ReadDue
<1>3. /\ now \in Time /\ r \in Runtime /\ SoundRow(r, now) /\ s \in Runtime
      /\ at \in Time /\ at <= now /\ at <= at
  BY <1>1, RowStep, SeenType DEF WorkerTypeOK, WorkerState, Time
<1>4. IF h = Never THEN s = r
      ELSE h \in Time /\ h <= now /\ SoundRow(s, h) /\ RowMove(s, r, h)
  BY <1>1 DEF RowsTrail, RowTrails
<1>5. Holds(k) <=> \/ r.status \in Counted /\ k[2] \in Reached(r, now)
                   \/ r.status = "NOT_APPLICABLE"
  BY DEF Holds
<1>6. /\ Borne(k, at, k[1][1] \in Unsettled(at)) <=>
           /\ r.status # "NONE"
           /\ Holds(k) \/ (k[1][1] \in Unsettled(at) /\ StoppedBefore(k[1], at))
      /\ k[1][1] \in Unsettled(at) <=> h # Never /\ h < at
  BY <1>1 DEF Borne, Unsettled
<1>7. r = RowOf(k[1])
  OBVIOUS
<1>8. s.status \in Counted
  BY <1>1 DEF Counted
<1>9. Holds(k) => r.status # "NONE"
  BY <1>5 DEF Counted
<1> HIDE DEF r, s, at, h
<1>10. ASSUME SoundRow(s, at), r = s  PROVE Holds(k)
  <2>1. RowMove(s, r, at)
    BY <1>10 DEF RowMove
  <2> QED BY <1>2, <1>3, <1>5, <1>8, <1>10, <2>1, HoldsLater
<1>11. CASE h = Never
  <2>1. SoundRow(s, at)
    BY <1>1, <1>2, <1>3, <1>4, <1>11, NothingBeforeStart
  <2> QED BY <1>4, <1>6, <1>9, <1>10, <1>11, <2>1 DEF r, s, at
<1>12. CASE h # Never /\ at <= h
  <2>1. SoundRow(s, at)
    BY <1>1, <1>2, <1>3, <1>4, <1>12, NothingBeforeStart
  <2>2. Holds(k)
    BY <1>2, <1>3, <1>4, <1>5, <1>8, <1>12, <2>1, HoldsLater
  <2> QED BY <1>6, <1>9, <2>1, <2>2 DEF s, at
<1>13. CASE h # Never /\ h < at
  <2>1. h <= at
    BY <1>3, <1>4, <1>13 DEF Time
  <2>2. SoundRow(s, at)
    BY <1>3, <1>4, <1>13, <2>1, SoundLater
  <2>3. r = s \/ r.status = "NOT_APPLICABLE" \/ (r.status # "NONE" /\ StoppedBefore(k[1], at))
    BY <1>1, <1>3, <1>4, <1>7, <1>13, StoppedUnseen
  <2> QED BY <1>5, <1>6, <1>9, <1>10, <1>13, <2>2, <2>3 DEF s, at
<1>14. h = Never \/ at <= h \/ h < at
  BY <1>3, <1>4 DEF Time
<1> QED BY <1>11, <1>12, <1>13, <1>14

\* A run that holds rows or events has read them; the time it took has come.
RunsInOrder ==
  \A w \in Workers :
    /\ worker[w].at <= now
    /\ worker[w].pc \in {"idle", "reading"} => worker[w].due = {}
    /\ worker[w].pc # "writing" => worker[w].new = {}

Held(w) == worker[w].due \union worker[w].new

\* The local state of w after a step of its own; no other run is touched.
Becomes(w, pc, at, due, new) ==
  /\ \A v \in Workers \ {w} : worker'[v] = worker[v]
  /\ worker'[w].pc = pc /\ worker'[w].at = at
  /\ worker'[w].due = due /\ worker'[w].new = new

Addressed(w) == {k \in worker[w].due : Recipients(k[1][1]) # {}}

\* What the steps of a run do to it.
LEMMA RunSteps ==
  ASSUME WorkerTypeOK, NEW w \in Workers
  PROVE  LET at  == worker[w].at
             due == worker[w].due
             new == worker[w].new
         IN  /\ StartRun(w) => Becomes(w, "reading", now, due, new)
             /\ ReadRuntimes(w) => Becomes(w, "addressing", at, ReadDue(w), new)
             /\ ReadRecipients(w) => Becomes(w, "writing", at, Addressed(w), new)
             /\ \A k \in Keys :
                  /\ InsertEvent(w, k) =>
                       Becomes(w, "writing", at, due \ {k}, new \union {k})
                  /\ SkipEvent(w, k) => Becomes(w, "writing", at, due \ {k}, new)
             /\ NotifyRecipients(w) => Becomes(w, worker[w].pc, at, due, new)
             /\ CommitRun(w) \/ KillRun(w) => Becomes(w, "idle", 0, {}, {})
<1> USE DEF WorkerTypeOK, WorkerState, Becomes
<1> DEFINE at  == worker[w].at
           due == worker[w].due
           new == worker[w].new
<1>1. StartRun(w) => Becomes(w, "reading", now, due, new)
  BY DEF StartRun
<1>2. ReadRuntimes(w) => Becomes(w, "addressing", at, ReadDue(w), new)
  <2> DEFINE open == Unsettled(worker[w].at)
  <2> SUFFICES ASSUME ReadRuntimes(w)  PROVE Becomes(w, "addressing", at, ReadDue(w), new)
    OBVIOUS
  <2>1. worker' = [worker EXCEPT ![w] = [@ EXCEPT !.pc = "addressing", !.unsettled = open,
                                                  !.due = ReadDue(w)]]
    BY DEF ReadRuntimes, ReadDue
  <2> HIDE DEF open
  <2>2. worker[w] \in WorkerState
    OBVIOUS
  <2> QED BY <2>1, <2>2
<1>3. ReadRecipients(w) => Becomes(w, "writing", at, Addressed(w), new)
  <2> DEFINE sent == [t \in Tickets |-> Recipients(t)]
  <2> SUFFICES ASSUME ReadRecipients(w)  PROVE Becomes(w, "writing", at, Addressed(w), new)
    OBVIOUS
  <2>1. worker' = [worker EXCEPT ![w] = [@ EXCEPT !.pc = "writing", !.inCharge = sent,
                                                  !.due = Addressed(w)]]
    BY DEF ReadRecipients, Addressed
  <2> HIDE DEF sent
  <2>2. worker[w] \in WorkerState
    OBVIOUS
  <2> QED BY <2>1, <2>2
<1>4. ASSUME NEW k \in Keys
      PROVE  /\ InsertEvent(w, k) => Becomes(w, "writing", at, due \ {k}, new \union {k})
             /\ SkipEvent(w, k) => Becomes(w, "writing", at, due \ {k}, new)
  BY DEF InsertEvent, SkipEvent, IsNextKey
<1>5. NotifyRecipients(w) => Becomes(w, worker[w].pc, at, due, new)
  BY DEF NotifyRecipients
<1>6. CommitRun(w) \/ KillRun(w) => Becomes(w, "idle", 0, {}, {})
  BY DEF CommitRun, KillRun, IdleWorker
<1> QED BY <1>1, <1>2, <1>3, <1>4, <1>5, <1>6

\* The order of the phases of a run is kept.
LEMMA RunsStayInOrder == WorkerSpec => []RunsInOrder
<1>1. WorkerInit => RunsInOrder
  BY DEF WorkerInit, Init, RunsInOrder, IdleWorker
<1>2. TicketsCohere /\ WorkerTypeOK /\ RunsInOrder /\ [WorkerNext]_allVars => RunsInOrder'
  <2> SUFFICES ASSUME TicketsCohere, WorkerTypeOK, RunsInOrder, [WorkerNext]_allVars
               PROVE  RunsInOrder'
    OBVIOUS
  <2>0. /\ now \in Int /\ 0 <= now
        /\ \A v \in Workers : worker[v].at \in Int
    <3>1. now \in Nat
      BY BoundsAssumption DEF TicketsCohere, TypeOK
    <3> QED BY <3>1 DEF WorkerTypeOK, WorkerState, Time
  <2>1. CASE UNCHANGED workerVars /\ (now' = now \/ now' = now + 1)
    <3>1. now' \in Int /\ now <= now'
      BY <2>0, <2>1
    <3> QED BY <2>0, <2>1, <3>1 DEF workerVars, RunsInOrder
  <2>2. ASSUME UNCHANGED vars, NEW w \in Workers, WorkerStep(w) \/ KillRun(w)
        PROVE  RunsInOrder'
    <3>1. now' = now
      BY <2>2 DEF vars
    <3>2. ASSUME NEW pc, NEW at, NEW due, NEW new, Becomes(w, pc, at, due, new),
                 at <= now, pc \in {"idle", "reading"} => due = {},
                 pc # "writing" => new = {}
          PROVE  RunsInOrder'
      BY <3>1, <3>2 DEF Becomes, RunsInOrder
    <3>3. CASE StartRun(w)
      <4>1. worker[w].due = {} /\ worker[w].new = {} /\ now <= now
        BY <2>0, <3>3 DEF RunsInOrder, StartRun
      <4>2. Becomes(w, "reading", now, worker[w].due, worker[w].new)
        BY <3>3, RunSteps
      <4> QED BY <3>2, <4>1, <4>2
    <3>4. CASE ReadRuntimes(w)
      <4>1. worker[w].at <= now /\ worker[w].new = {}
        BY <2>0, <3>4 DEF RunsInOrder, ReadRuntimes
      <4>2. Becomes(w, "addressing", worker[w].at, ReadDue(w), worker[w].new)
        BY <3>4, RunSteps
      <4> QED BY <3>2, <4>1, <4>2
    <3>5. CASE ReadRecipients(w)
      BY <3>2, <3>5, RunSteps DEF RunsInOrder
    <3>6. ASSUME NEW k \in Keys, InsertEvent(w, k) \/ SkipEvent(w, k)
          PROVE  RunsInOrder'
      <4>1. PICK new : Becomes(w, "writing", worker[w].at, worker[w].due \ {k}, new)
        BY <3>6, RunSteps
      <4>2. worker[w].at <= now
        BY <2>0 DEF RunsInOrder
      <4> QED BY <3>2, <4>1, <4>2
    <3>7. CASE CommitRun(w) \/ KillRun(w)
      BY <2>0, <3>2, <3>7, RunSteps
    <3>8. CASE NotifyRecipients(w)
      <4>1. Becomes(w, worker[w].pc, worker[w].at, worker[w].due, worker[w].new)
        BY <3>8, RunSteps
      <4> QED BY <3>2, <4>1 DEF RunsInOrder
    <3> QED BY <2>2, <3>3, <3>4, <3>5, <3>6, <3>7, <3>8 DEF WorkerStep
  <2> QED BY <2>1, <2>2, StepOfRun
<1> QED BY <1>1, <1>2, TicketsStayCoherent, WorkerTypeCorrect, PTL DEF WorkerSpec

-----------------------------------------------------------------------------
(***************************************************************************)
(* Events on record, inserted and due                                      *)
(***************************************************************************)
EventBorne(k) ==
  /\ events[k].at \in Time /\ events[k].at <= now
  /\ Borne(k, events[k].at, events[k].unsettled)

HeldBorne(w, k) == Borne(k, worker[w].at, k[1][1] \in worker[w].unsettled)

EventsHold ==
  /\ \A k \in Keys : Recorded(k) => EventBorne(k)
  /\ \A w \in Workers : \A k \in Held(w) : HeldBorne(w, k)

\* After a step of a run it holds nothing, or what it has just read, or nothing
\* it did not hold, measured at the same time.
LEMMA HeldBy ==
  ASSUME WorkerTypeOK, RunsInOrder, NEW w \in Workers, WorkerStep(w) \/ KillRun(w)
  PROVE  \/ Held(w)' = {}
         \/ /\ ReadRuntimes(w) /\ Held(w)' = ReadDue(w)
            /\ worker'[w].at = worker[w].at
            /\ worker'[w].unsettled = Unsettled(worker[w].at)
         \/ /\ Held(w)' \subseteq Held(w)
            /\ worker'[w].at = worker[w].at
            /\ worker'[w].unsettled = worker[w].unsettled
<1>1. CASE StartRun(w)
  <2>1. worker[w].due = {} /\ worker[w].new = {}
    BY <1>1 DEF StartRun, RunsInOrder
  <2>2. Becomes(w, "reading", now, worker[w].due, worker[w].new)
    BY <1>1, RunSteps
  <2> QED BY <2>1, <2>2 DEF Becomes, Held
<1>2. CASE ReadRuntimes(w)
  <2>1. worker[w].new = {}
    BY <1>2 DEF ReadRuntimes, RunsInOrder
  <2>2. Becomes(w, "addressing", worker[w].at, ReadDue(w), worker[w].new)
    BY <1>2, RunSteps
  <2>3. worker'[w].unsettled = Unsettled(worker[w].at)
    BY <1>2 DEF ReadRuntimes, WorkerTypeOK, WorkerState
  <2> QED BY <1>2, <2>1, <2>2, <2>3 DEF Becomes, Held
<1>3. CASE ReadRecipients(w)
  <2>1. Becomes(w, "writing", worker[w].at, Addressed(w), worker[w].new)
    BY <1>3, RunSteps
  <2>2. worker'[w].unsettled = worker[w].unsettled
    BY <1>3 DEF ReadRecipients, WorkerTypeOK, WorkerState
  <2> QED BY <2>1, <2>2 DEF Becomes, Held, Addressed
<1>4. ASSUME NEW k \in Keys, InsertEvent(w, k)
      PROVE  /\ Held(w)' \subseteq Held(w)
             /\ worker'[w].at = worker[w].at
             /\ worker'[w].unsettled = worker[w].unsettled
  <2>1. Becomes(w, "writing", worker[w].at, worker[w].due \ {k}, worker[w].new \union {k})
    BY <1>4, RunSteps
  <2>2. k \in worker[w].due
    BY <1>4 DEF InsertEvent, IsNextKey
  <2>3. worker'[w].unsettled = worker[w].unsettled
    BY <1>4 DEF InsertEvent, WorkerTypeOK, WorkerState
  <2> QED BY <2>1, <2>2, <2>3 DEF Becomes, Held
<1>5. ASSUME NEW k \in Keys, SkipEvent(w, k)
      PROVE  /\ Held(w)' \subseteq Held(w)
             /\ worker'[w].at = worker[w].at
             /\ worker'[w].unsettled = worker[w].unsettled
  <2>1. Becomes(w, "writing", worker[w].at, worker[w].due \ {k}, worker[w].new)
    BY <1>5, RunSteps
  <2>2. worker'[w].unsettled = worker[w].unsettled
    BY <1>5 DEF SkipEvent, WorkerTypeOK, WorkerState
  <2> QED BY <2>1, <2>2 DEF Becomes, Held
<1>6. CASE NotifyRecipients(w)
  <2>1. Becomes(w, worker[w].pc, worker[w].at, worker[w].due, worker[w].new)
    BY <1>6, RunSteps
  <2>2. worker'[w].unsettled = worker[w].unsettled
    BY <1>6 DEF NotifyRecipients, WorkerTypeOK, WorkerState
  <2> QED BY <2>1, <2>2 DEF Becomes, Held
<1>7. CASE CommitRun(w) \/ KillRun(w)
  <2>1. Becomes(w, "idle", 0, {}, {})
    BY <1>7, RunSteps
  <2> QED BY <2>1 DEF Becomes, Held
<1> QED BY <1>1, <1>2, <1>3, <1>4, <1>5, <1>6, <1>7 DEF WorkerStep

\* Only a commit records events, each with what its run held when it read the row.
LEMMA RecordedBy ==
  ASSUME WorkerTypeOK, NEW w \in Workers, WorkerStep(w) \/ KillRun(w), NEW k \in Keys
  PROVE  \/ events'[k] = events[k]
         \/ /\ k \in worker[w].new
            /\ events'[k].at = worker[w].at
            /\ events'[k].unsettled = (k[1][1] \in worker[w].unsettled)
<1>1. CASE CommitRun(w)
  BY <1>1 DEF CommitRun, NewEvent
<1>2. CASE UNCHANGED events
  BY <1>2
<1> QED BY <1>1, <1>2 DEF WorkerStep, StartRun, ReadRuntimes, ReadRecipients, InsertEvent,
                          SkipEvent, NotifyRecipients, KillRun

\* What is on record, inserted or due is borne out in every reachable state.
LEMMA EventsStayHeld == WorkerSpec => []EventsHold
<1>1. WorkerInit => EventsHold
  BY DEF WorkerInit, EventsHold, Recorded, Held, IdleWorker
<1>2. TicketsCohere /\ WorkerTypeOK /\ RowsTrail /\ RunsInOrder /\ EventsHold
        /\ [WorkerNext]_allVars => EventsHold'
  <2> SUFFICES ASSUME TicketsCohere, WorkerTypeOK, RowsTrail, RunsInOrder, EventsHold,
                      [WorkerNext]_allVars
               PROVE  EventsHold'
    OBVIOUS
  <2>0. \A w \in Workers : /\ Held(w) \subseteq Keys
                           /\ worker[w].at \in Time /\ worker[w].at <= now
    BY DEF WorkerTypeOK, WorkerState, Held, RunsInOrder
  <2>1. CASE UNCHANGED workerVars /\ [Next]_vars /\ (now' = now \/ now' = now + 1)
    <3>0. now \in Int /\ \A at \in Time : at <= now => at <= now'
      <4>1. now \in Nat
        BY BoundsAssumption DEF TicketsCohere, TypeOK
      <4> QED BY <2>1, <4>1 DEF Time
    <3>1. ASSUME NEW k \in Keys, Recorded(k)'  PROVE EventBorne(k)'
      <4>1. EventBorne(k)
        BY <2>1, <3>1 DEF EventsHold, Recorded, workerVars
      <4>2. Borne(k, events[k].at, events[k].unsettled)'
        <5> DEFINE at == events[k].at
                   open == events[k].unsettled
        <5>1. at \in Time /\ at <= now /\ Borne(k, at, open)
          BY <4>1 DEF EventBorne
        <5>2. events'[k] = events[k]
          BY <2>1 DEF workerVars
        <5>3. at' = at /\ open' = open
          BY <5>2
        <5> HIDE DEF at, open
        <5>4. Borne(k, at, open)'
          BY <2>1, <5>1, <5>3, BorneOn
        <5> QED BY <5>4 DEF at, open
      <4> QED BY <2>1, <3>0, <4>1, <4>2 DEF EventBorne, workerVars
    <3>2. ASSUME NEW w \in Workers, NEW k \in Held(w)'  PROVE HeldBorne(w, k)'
      <4> DEFINE at == worker[w].at
                 open == k[1][1] \in worker[w].unsettled
      <4>1. k \in Keys /\ at \in Time /\ at <= now /\ Borne(k, at, open)
        BY <2>0, <2>1, <3>2 DEF EventsHold, HeldBorne, Held, workerVars
      <4>2. at' = at /\ open' = open
        BY <2>1 DEF workerVars
      <4> HIDE DEF at, open
      <4>3. Borne(k, at, open)'
        BY <2>1, <4>1, <4>2, BorneOn
      <4> QED BY <4>3 DEF HeldBorne, at, open
    <3> QED BY <3>1, <3>2 DEF EventsHold
  <2>2. ASSUME UNCHANGED vars, NEW w \in Workers, WorkerStep(w) \/ KillRun(w)
        PROVE  EventsHold'
    <3>0. now' = now
      BY <2>2 DEF vars
    <3>1. ASSUME NEW k \in Keys, Recorded(k)'  PROVE EventBorne(k)'
      <4>1. CASE events'[k] = events[k]
        <5>1. EventBorne(k)
          BY <3>1, <4>1 DEF EventsHold, Recorded
        <5>2. Borne(k, events[k].at, events[k].unsettled)'
          BY <2>2, <4>1, <5>1, BorneUnread DEF EventBorne
        <5> QED BY <3>0, <4>1, <5>1, <5>2 DEF EventBorne
      <4>2. CASE /\ k \in worker[w].new
                 /\ events'[k].at = worker[w].at
                 /\ events'[k].unsettled = (k[1][1] \in worker[w].unsettled)
        <5>1. HeldBorne(w, k)
          BY <4>2 DEF EventsHold, Held
        <5>2. Borne(k, events[k].at, events[k].unsettled)'
          BY <2>2, <4>2, <5>1, BorneUnread DEF HeldBorne
        <5> QED BY <2>0, <3>0, <4>2, <5>2 DEF EventBorne
      <4> QED BY <2>2, <4>1, <4>2, RecordedBy
    <3>2. ASSUME NEW v \in Workers, NEW k \in Held(v)'  PROVE HeldBorne(v, k)'
      <4>1. ASSUME k \in Held(v), worker'[v].at = worker[v].at,
                   worker'[v].unsettled = worker[v].unsettled
            PROVE  HeldBorne(v, k)'
        <5>1. HeldBorne(v, k)
          BY <4>1 DEF EventsHold
        <5> QED BY <2>2, <4>1, <5>1, BorneUnread DEF HeldBorne
      <4>2. CASE v # w
        <5>1. worker'[v] = worker[v]
          BY <2>2, <4>2 DEF WorkerStep, StartRun, ReadRuntimes, ReadRecipients, InsertEvent,
                 SkipEvent, NotifyRecipients, CommitRun, KillRun, WorkerTypeOK
        <5>2. k \in Held(v)
          BY <3>2, <5>1 DEF Held
        <5> QED BY <4>1, <5>1, <5>2
      <4>3. CASE v = w
        <5>1. CASE /\ Held(w)' = ReadDue(w)
                   /\ worker'[w].at = worker[w].at
                   /\ worker'[w].unsettled = Unsettled(worker[w].at)
          <6>1. k \in ReadDue(w)
            BY <3>2, <4>3, <5>1
          <6>2. Borne(k, worker[w].at, k[1][1] \in Unsettled(worker[w].at))
            BY <2>0, <6>1, ReadDueHolds
          <6> QED BY <2>2, <4>3, <5>1, <6>2, BorneUnread DEF HeldBorne
        <5>2. CASE /\ Held(w)' \subseteq Held(w)
                   /\ worker'[w].at = worker[w].at
                   /\ worker'[w].unsettled = worker[w].unsettled
          BY <3>2, <4>1, <4>3, <5>2
        <5> QED BY <2>2, <3>2, <4>3, <5>1, <5>2, HeldBy
      <4> QED BY <4>2, <4>3
    <3> QED BY <3>1, <3>2 DEF EventsHold
  <2> QED BY <2>1, <2>2, StepOfRun
<1> QED BY <1>1, <1>2, TicketsStayCoherent, WorkerTypeCorrect, RowsStayTrailing,
        RunsStayInOrder, PTL DEF WorkerSpec

\* Although a run acts on rows read earlier, measured at a time taken before
\* that, no event is contradicted by what the ticket page shows later, except
\* one whose row a handler not yet committed had stopped before that time.
THEOREM EventsHoldTrue == WorkerSpec => []EventsStayTrue
<1>1. TicketsCohere /\ EventsHold => EventsStayTrue
  <2> SUFFICES ASSUME TicketsCohere, EventsHold, NEW k \in Keys, Recorded(k)
               PROVE  \/ /\ \/ k[2] \in Reached(RowOf(k[1]), now)
                            \/ RowOf(k[1]).status = "NOT_APPLICABLE"
                         /\ k[2] = "OVERDUE" => RowOf(k[1]).result # "MET"
                      \/ events[k].unsettled /\ StoppedBefore(k[1], events[k].at)
    BY DEF EventsStayTrue
  <2>1. Holds(k) \/ (events[k].unsettled /\ StoppedBefore(k[1], events[k].at))
    BY DEF EventsHold, EventBorne, Borne
  <2>2. now \in Time /\ SoundRow(RowOf(k[1]), now)
    BY KeyTicket, RowStep
  <2>3. ASSUME Holds(k), k[2] = "OVERDUE", RowOf(k[1]).result = "MET"  PROVE FALSE
    <3>1. RowOf(k[1]).status = "COMPLETED"
      BY <2>2, <2>3 DEF SoundRow, Verdicts
    <3>2. Remaining(RowOf(k[1]), now) < 0
      BY <2>3, <3>1 DEF Holds, Reached, ReachedThresholds
    <3> QED BY <2>2, <2>3, <3>1, <3>2, VerdictIsMetrics DEF Counted
  <2> QED BY <2>1, <2>3 DEF Holds
<1> QED BY <1>1, TicketsStayCoherent, EventsStayHeld, PTL

-----------------------------------------------------------------------------
(***************************************************************************)
(* The order of the events of a row                                        *)
(***************************************************************************)
OnRecord == {k \in Keys : Recorded(k)}

Nested(keys) ==
  \A row \in Rows :
    /\ <<row, "ESCALATED">> \in keys => <<row, "OVERDUE">> \in keys
    /\ <<row, "OVERDUE">> \in keys => <<row, "WARNING">> \in keys

\* Of each row a run holds the lower events too, or they are on record.
RunsNested == Nested(OnRecord) /\ \A w \in Workers : Nested(Held(w) \union OnRecord)

\* Two nested sets make a nested set.
LEMMA NestedUnion ==
  ASSUME NEW S, NEW T, Nested(S), Nested(T)
  PROVE  Nested(S \union T)
BY DEF Nested

\* What a run finds due is nested: overdue is past 100%, and warnings come before.
LEMMA ReadDueNested ==
  ASSUME TicketsCohere, WorkerTypeOK, RowsTrail, RunsInOrder, NEW w \in Workers
  PROVE  Nested(ReadDue(w))
<1> SUFFICES ASSUME NEW row \in Rows, NEW type \in {"OVERDUE", "ESCALATED"},
                    <<row, type>> \in ReadDue(w)
             PROVE  /\ <<row, "WARNING">> \in ReadDue(w)
                    /\ <<row, "OVERDUE">> \in ReadDue(w)
  BY DEF Nested
<1> DEFINE r == SeenRow(row)
           at == worker[w].at
<1>1. r.status = "RUNNING" /\ type \in Reached(r, at)
  BY DEF ReadDue
<1>2. SoundRow(r, at)
  BY ReadDueHolds DEF RunsInOrder
<1>3. at \in Time
  BY DEF WorkerTypeOK, WorkerState
<1>4. Reached(r, at) = ReachedThresholds(r, at, WarningPercent, EscalationPercent, Priority)
  BY DEF Reached
<1> HIDE DEF r, at
<1>5. Remaining(r, at) < 0
  BY <1>1, <1>4 DEF ReachedThresholds
<1>6. Progress(r, at) >= 100 * 100 /\ Progress(r, at) \in Int
  <2>1. r.status \in Counted
    BY <1>1 DEF Counted
  <2>2. Elapsed(r, at) \in Nat /\ Target(r) \in Nat \ {0}
    BY <1>2, <1>3, <2>1, MeasuresAreIntegers
  <2> QED BY <1>2, <1>3, <1>5, <2>1, <2>2, OverduePastTarget DEF Progress
<1>7. Progress(r, at) >= 100 * WarningPercent
  BY <1>6, PercentAssumption
<1>8. {"WARNING", "OVERDUE"} \subseteq Reached(r, at)
  BY <1>4, <1>5, <1>7 DEF ReachedThresholds
<1> QED BY <1>1, <1>8 DEF ReadDue, Keys, EventType, r, at

\* A commit records what its run has inserted, all of it and nothing else.
LEMMA CommitRecords ==
  ASSUME WorkerTypeOK, NEW w \in Workers, CommitRun(w)
  PROVE  OnRecord' = OnRecord \union Held(w)
<1>1. worker[w].due = {} /\ worker[w].new \subseteq Keys /\ worker[w].at # Never
  BY DEF CommitRun, WorkerTypeOK, WorkerState, Time, Never
<1>2. ASSUME NEW k \in Keys
      PROVE  Recorded(k)' <=> Recorded(k) \/ k \in worker[w].new
  <2>1. events'[k] = IF k \in worker[w].new THEN NewEvent(w, k) ELSE events[k]
    BY DEF CommitRun
  <2>2. NewEvent(w, k) # NoEvent
    BY <1>1 DEF NewEvent, NoEvent
  <2> QED BY <2>1, <2>2 DEF Recorded
<1> QED BY <1>1, <1>2 DEF OnRecord, Held

\* Events on record, inserted and due are nested in every reachable state.
LEMMA RunsStayNested == WorkerSpec => []RunsNested
<1>1. WorkerInit => RunsNested
  BY DEF WorkerInit, RunsNested, Nested, OnRecord, Recorded, Held, IdleWorker
<1>2. TicketsCohere /\ WorkerTypeOK /\ RowsTrail /\ RunsInOrder /\ RunsNested
        /\ [WorkerNext]_allVars => RunsNested'
  <2> SUFFICES ASSUME TicketsCohere, WorkerTypeOK, RowsTrail, RunsInOrder, RunsNested,
                      [WorkerNext]_allVars
               PROVE  RunsNested'
    OBVIOUS
  <2>1. CASE UNCHANGED workerVars
    BY <2>1 DEF workerVars, RunsNested, Nested, OnRecord, Recorded, Held
  <2>2. ASSUME NEW w \in Workers, WorkerStep(w) \/ KillRun(w)
        PROVE  RunsNested'
    <3>1. ASSUME NEW pc, NEW at, NEW due, NEW new, Becomes(w, pc, at, due, new),
                 UNCHANGED events, Nested((due \union new) \union OnRecord)
          PROVE  RunsNested'
      <4>1. OnRecord' = OnRecord
        BY <3>1 DEF OnRecord, Recorded
      <4>2. \A v \in Workers : Held(v)' = IF v = w THEN due \union new ELSE Held(v)
        BY <3>1 DEF Becomes, Held
      <4>3. ASSUME NEW v \in Workers  PROVE Nested(Held(v)' \union OnRecord)
        BY <3>1, <4>2 DEF RunsNested
      <4> QED BY <4>1, <4>3 DEF RunsNested, Nested
    <3>2. CASE StartRun(w)
      BY <3>1, <3>2, RunSteps DEF StartRun, RunsNested, Held
    <3>3. CASE ReadRuntimes(w)
      <4>1. worker[w].new = {}
        BY <3>3 DEF ReadRuntimes, RunsInOrder
      <4>2. Nested((ReadDue(w) \union worker[w].new) \union OnRecord)
        BY <4>1, ReadDueNested, NestedUnion DEF RunsNested
      <4> QED BY <3>1, <3>3, <4>2, RunSteps DEF ReadRuntimes
    <3>4. CASE ReadRecipients(w)
      <4>1. worker[w].new = {}
        BY <3>4 DEF ReadRecipients, RunsInOrder
      <4>2. Nested((Addressed(w) \union worker[w].new) \union OnRecord)
        BY <4>1 DEF RunsNested, Nested, Held, Addressed
      <4> QED BY <3>1, <3>4, <4>2, RunSteps DEF ReadRecipients
    <3>5. ASSUME NEW k \in Keys, InsertEvent(w, k)
          PROVE  RunsNested'
      <4>1. (worker[w].due \ {k}) \union (worker[w].new \union {k}) = Held(w)
        BY <3>5 DEF InsertEvent, IsNextKey, Held
      <4>2. Becomes(w, "writing", worker[w].at, worker[w].due \ {k}, worker[w].new \union {k})
        BY <3>5, RunSteps
      <4> QED BY <3>1, <3>5, <4>1, <4>2 DEF InsertEvent, RunsNested
    <3>6. ASSUME NEW k \in Keys, SkipEvent(w, k)
          PROVE  RunsNested'
      <4>1. k \in OnRecord /\ k \in worker[w].due
        BY <3>6 DEF SkipEvent, IsNextKey, OnRecord
      <4>2. ((worker[w].due \ {k}) \union worker[w].new) \union OnRecord
              = Held(w) \union OnRecord
        BY <4>1 DEF Held
      <4>3. Becomes(w, "writing", worker[w].at, worker[w].due \ {k}, worker[w].new)
        BY <3>6, RunSteps
      <4> QED BY <3>1, <3>6, <4>2, <4>3 DEF SkipEvent, RunsNested
    <3>7. CASE KillRun(w)
      <4>1. Becomes(w, "idle", 0, {}, {})
        BY <3>7, RunSteps
      <4>2. ({} \union {}) \union OnRecord = OnRecord
        OBVIOUS
      <4> QED BY <3>1, <3>7, <4>1, <4>2 DEF KillRun, RunsNested
    <3>8. CASE CommitRun(w)
      <4>1. OnRecord' = OnRecord \union Held(w)
        BY <3>8, CommitRecords
      <4>2. \A v \in Workers : Held(v)' = IF v = w THEN {} ELSE Held(v)
        BY <3>8, RunSteps DEF Becomes, Held
      <4>3. Nested(OnRecord \union Held(w))
        BY DEF RunsNested, Nested
      <4>4. ASSUME NEW v \in Workers
            PROVE  Nested(Held(v)' \union (OnRecord \union Held(w)))
        <5>1. Nested((Held(v) \union OnRecord) \union (OnRecord \union Held(w)))
          BY <4>3, NestedUnion DEF RunsNested
        <5> QED BY <4>2, <4>3, <5>1 DEF Nested
      <4> QED BY <4>1, <4>3, <4>4 DEF RunsNested, Nested
    <3>9. CASE NotifyRecipients(w)
      <4>1. Becomes(w, worker[w].pc, worker[w].at, worker[w].due, worker[w].new)
        BY <3>9, RunSteps
      <4> QED BY <3>1, <3>9, <4>1 DEF NotifyRecipients, RunsNested, Held
    <3> QED BY <2>2, <3>2, <3>3, <3>4, <3>5, <3>6, <3>7, <3>8, <3>9 DEF WorkerStep
  <2> QED BY <2>1, <2>2, StepOfRun
<1> QED BY <1>1, <1>2, TicketsStayCoherent, WorkerTypeCorrect, RowsStayTrailing,
        RunsStayInOrder, PTL DEF WorkerSpec

\* Whatever runs overlap or die, a row is never on record as escalated without
\* being on record as overdue, nor as overdue without a warning.
THEOREM EventsStayNested == WorkerSpec => []EventsNested
<1>1. RunsNested => EventsNested
  BY DEF RunsNested, Nested, OnRecord, EventsNested, Keys, EventType
<1> QED BY <1>1, RunsStayNested, PTL

-----------------------------------------------------------------------------
(***************************************************************************)
(* No circle of waits                                                      *)
(***************************************************************************)

\* The order the events are inserted in has no ties.
LEMMA KeyOrder ==
  ASSUME TypeOK, NEW k \in Keys, NEW l \in Keys, KeyBefore(k, l), KeyBefore(l, k)
  PROVE  k = l
<1>1. /\ k = <<k[1], k[2]>> /\ l = <<l[1], l[2]>>
      /\ k[1] = <<k[1][1], k[1][2]>> /\ l[1] = <<l[1][1], l[1][2]>>
  BY DEF Keys, Rows
<1>2. CASE k[1] = l[1]
  BY <1>1, <1>2 DEF KeyBefore, Rank, Keys, EventType
<1>3. CASE k[1] # l[1]
  <2>1. RowBefore(k[1], l[1]) /\ RowBefore(l[1], k[1])
    BY <1>3 DEF KeyBefore
  <2>2. /\ k[1][1] \in Tickets /\ l[1][1] \in Tickets
        /\ k[1][2] \in 0..MaxCycle /\ l[1][2] \in 0..MaxCycle
    BY DEF Keys, Rows
  <2>3. k[1][1] \in Int /\ l[1][1] \in Int /\ k[1][2] \in Int /\ l[1][2] \in Int
    <3>1. Tickets \subseteq Int /\ 0..MaxCycle \subseteq Int
      BY TicketsAssumption
    <3> QED BY <2>2, <3>1
  <2>4. RowOf(k[1]).dueAt \in Int /\ RowOf(l[1]).dueAt \in Int
    <3>1. RowOf(k[1]) \in Runtime /\ RowOf(l[1]) \in Runtime
      BY KeyTicket, RowType
    <3> QED BY <3>1 DEF Runtime, TimeOrNever, Time, Never
  <2>5. k[1][1] = l[1][1] /\ k[1][2] = l[1][2]
    BY <2>1, <2>3, <2>4 DEF RowBefore
  <2> QED BY <1>1, <1>3, <2>5
<1> QED BY <1>2, <1>3

\* A run has inserted what comes before all it has yet to insert.
RunsInKeyOrder ==
  \A w \in Workers : \A k \in worker[w].new, l \in worker[w].due : k # l /\ KeyBefore(k, l)

\* The order does not change under a run: deadlines of rows it holds stay.
LEMMA OrderStays ==
  ASSUME TicketsCohere, [Next]_vars, NEW k \in Keys, NEW l \in Keys,
         RowOf(k[1]).status # "NONE", RowOf(l[1]).status # "NONE"
  PROVE  KeyBefore(k, l)' <=> KeyBefore(k, l)
<1>1. k[1] \in Rows /\ l[1] \in Rows
  BY KeyTicket
<1>2. RowOf(k[1])'.dueAt = RowOf(k[1]).dueAt /\ RowOf(l[1])'.dueAt = RowOf(l[1]).dueAt
  BY <1>1, DeadlineStays
<1> QED BY <1>2 DEF KeyBefore, RowBefore

\* Every run has inserted its events in one order, in every reachable state.
LEMMA RunsKeepOrder == WorkerSpec => []RunsInKeyOrder
<1>1. WorkerInit => RunsInKeyOrder
  BY DEF WorkerInit, RunsInKeyOrder, IdleWorker
<1>2. TicketsCohere /\ WorkerTypeOK /\ RunsInOrder /\ EventsHold /\ RunsInKeyOrder
        /\ [WorkerNext]_allVars => RunsInKeyOrder'
  <2> SUFFICES ASSUME TicketsCohere, WorkerTypeOK, RunsInOrder, EventsHold, RunsInKeyOrder,
                      [WorkerNext]_allVars
               PROVE  RunsInKeyOrder'
    OBVIOUS
  <2>0. \A v \in Workers : worker[v].new \subseteq Keys /\ worker[v].due \subseteq Keys
    BY DEF WorkerTypeOK, WorkerState
  <2>1. CASE UNCHANGED workerVars /\ [Next]_vars
    <3> SUFFICES ASSUME NEW v \in Workers, NEW k \in worker[v].new, NEW l \in worker[v].due
                 PROVE  k # l /\ KeyBefore(k, l)'
      BY <2>1 DEF workerVars, RunsInKeyOrder
    <3>1. /\ k \in Keys /\ l \in Keys
          /\ RowOf(k[1]).status # "NONE" /\ RowOf(l[1]).status # "NONE"
      BY <2>0 DEF EventsHold, Held, HeldBorne, Borne
    <3> QED BY <2>1, <3>1, OrderStays DEF RunsInKeyOrder
  <2>2. ASSUME UNCHANGED vars, NEW w \in Workers, WorkerStep(w) \/ KillRun(w)
        PROVE  RunsInKeyOrder'
    <3>1. \A k, l : KeyBefore(k, l)' <=> KeyBefore(k, l)
      BY <2>2 DEF vars, slaVars, KeyBefore, RowBefore, RowOf
    <3>2. ASSUME NEW pc, NEW at, NEW due, NEW new, Becomes(w, pc, at, due, new),
                 \A k \in new, l \in due : k # l /\ KeyBefore(k, l)
          PROVE  RunsInKeyOrder'
      BY <3>1, <3>2 DEF Becomes, RunsInKeyOrder
    <3>3. CASE StartRun(w)
      BY <3>2, <3>3, RunSteps DEF RunsInKeyOrder
    <3>4. CASE ReadRuntimes(w)
      <4>1. worker[w].new = {}
        BY <3>4 DEF ReadRuntimes, RunsInOrder
      <4> QED BY <3>2, <3>4, <4>1, RunSteps
    <3>5. CASE ReadRecipients(w)
      <4>1. worker[w].new = {}
        BY <3>5 DEF ReadRecipients, RunsInOrder
      <4> QED BY <3>2, <3>5, <4>1, RunSteps
    <3>6. ASSUME NEW k \in Keys, InsertEvent(w, k)
          PROVE  RunsInKeyOrder'
      <4>1. \A l \in worker[w].due : KeyBefore(k, l)
        BY <3>6 DEF InsertEvent, IsNextKey
      <4>2. Becomes(w, "writing", worker[w].at, worker[w].due \ {k}, worker[w].new \union {k})
        BY <3>6, RunSteps
      <4>3. \A m \in worker[w].new \union {k}, l \in worker[w].due \ {k} :
              m # l /\ KeyBefore(m, l)
        BY <4>1 DEF RunsInKeyOrder
      <4> QED BY <3>2, <4>2, <4>3
    <3>7. ASSUME NEW k \in Keys, SkipEvent(w, k)
          PROVE  RunsInKeyOrder'
      <4>1. Becomes(w, "writing", worker[w].at, worker[w].due \ {k}, worker[w].new)
        BY <3>7, RunSteps
      <4>2. \A m \in worker[w].new, l \in worker[w].due \ {k} : m # l /\ KeyBefore(m, l)
        BY DEF RunsInKeyOrder
      <4> QED BY <3>2, <4>1, <4>2
    <3>8. CASE CommitRun(w) \/ KillRun(w)
      BY <3>2, <3>8, RunSteps
    <3>9. CASE NotifyRecipients(w)
      <4>1. Becomes(w, worker[w].pc, worker[w].at, worker[w].due, worker[w].new)
        BY <3>9, RunSteps
      <4> QED BY <3>2, <4>1 DEF RunsInKeyOrder
    <3> QED BY <2>2, <3>3, <3>4, <3>5, <3>6, <3>7, <3>8, <3>9 DEF WorkerStep
  <2> QED BY <2>1, <2>2, StepOfRun
<1> QED BY <1>1, <1>2, TicketsStayCoherent, WorkerTypeCorrect, RunsStayInOrder,
        EventsStayHeld, PTL DEF WorkerSpec

\* Two runs never wait for each other: each takes the events in one order, and
\* tickets that change meanwhile do not change it.
THEOREM RunsNeverDeadlock == WorkerSpec => []NoCircularWait
<1>1. TypeOK /\ WorkerTypeOK /\ RunsInKeyOrder => NoCircularWait
  <2> SUFFICES ASSUME TypeOK, WorkerTypeOK, RunsInKeyOrder,
                      NEW v \in Workers, NEW w \in Workers,
                      NEW k \in worker[v].new, NEW l \in worker[w].new,
                      IsNextKey(v, l), IsNextKey(w, k)
               PROVE  FALSE
    BY DEF NoCircularWait
  <2>1. k \in Keys /\ l \in Keys
    BY DEF WorkerTypeOK, WorkerState
  <2>2. k # l /\ KeyBefore(k, l) /\ KeyBefore(l, k)
    BY DEF IsNextKey, RunsInKeyOrder
  <2> QED BY <2>1, <2>2, KeyOrder
<1> QED BY <1>1, RunsKeepOrder, WorkerLeavesTickets, TypeCorrect, WorkerTypeCorrect, PTL
=============================================================================
