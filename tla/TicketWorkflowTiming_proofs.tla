--------------------- MODULE TicketWorkflowTiming_proofs --------------------
(***************************************************************************)
(* Proofs about the clocks of the SLA rows.  A row of ticket_slas goes     *)
(* through few moves, whoever makes them; each of them keeps what has      *)
(* elapsed from shrinking and what remains from growing, truncation to     *)
(* seconds included.  So thresholds stay reached and verdicts stay given.  *)
(* The pauses of a row, however many, add up to what it was credited with, *)
(* and what truncation lost of them bounds how far a verdict can be off.   *)
(***************************************************************************)
EXTENDS TicketWorkflowTiming, TicketCycles_proofs, WellFoundedInduction

-----------------------------------------------------------------------------
(***************************************************************************)
(* Whole seconds                                                           *)
(***************************************************************************)

\* Truncation keeps the order.
LEMMA SecondsOrder ==
  ASSUME NEW a \in Int, NEW b \in Int, a <= b
  PROVE  Seconds(a) <= Seconds(b)
BY TicksPerSecondAssumption DEF Seconds

\* Whole seconds pass through the truncation unchanged.
LEMMA SecondsShift ==
  ASSUME NEW a \in Int, NEW n \in Int
  PROVE  Ticks(n) \in Int /\ Seconds(a + Ticks(n)) = Seconds(a) + n
BY TicksPerSecondAssumption DEF Seconds, Ticks

\* What is negative stays negative, and nothing else becomes so.
LEMMA SecondsSign ==
  ASSUME NEW a \in Int
  PROVE  Seconds(a) < 0 <=> a < 0
BY TicksPerSecondAssumption DEF Seconds

\* Truncating two parts loses at least as much as truncating their sum.
LEMMA SecondsOfParts ==
  ASSUME NEW a \in Int, NEW b \in Int
  PROVE  Seconds(a) + Seconds(b) <= Seconds(a + b)
BY TicksPerSecondAssumption DEF Seconds

\* No more seconds are counted than have passed.
LEMMA SecondsCounted ==
  ASSUME NEW a \in Int
  PROVE  Ticks(Seconds(a)) <= a
BY TicksPerSecondAssumption DEF Seconds, Ticks

\* Integer division keeps the order of what is divided.
LEMMA QuotientOrder ==
  ASSUME NEW a \in Nat, NEW c \in Nat, NEW b \in Nat \ {0}, a <= c
  PROVE  a \div b <= c \div b /\ a \div b \in Nat
OBVIOUS

\* A quotient is at least what its divisor goes into.
LEMMA QuotientBound ==
  ASSUME NEW a \in Nat, NEW b \in Nat \ {0}, NEW q \in Nat, q * b <= a
  PROVE  q <= a \div b
OBVIOUS

-----------------------------------------------------------------------------
(***************************************************************************)
(* Sums                                                                    *)
(*                                                                         *)
(* Induction, with a set of numbers for the formula: a number outside the  *)
(* set would have a least one of its kind, because < is well-founded.      *)
(***************************************************************************)
\* A set with zero and all successors holds every natural number.
LEMMA NumbersOneByOne ==
  ASSUME NEW S, 0 \in S, \A n \in Nat : n \in S => n + 1 \in S
  PROVE  Nat \subseteq S
<1> DEFINE R == OpToRel(<, Nat)
<1>1. IsWellFoundedOn(R, Nat)
  BY NatLessThanWellFounded
<1>2. \A i, j \in Nat : i < j => <<i, j>> \in R
  BY DEF OpToRel
<1> HIDE DEF R
<1>3. SUFFICES ASSUME Nat \ S # {}  PROVE FALSE
  OBVIOUS
<1>4. PICK x \in Nat \ S : \A y \in Nat \ S : ~(<<y, x>> \in R)
  BY <1>1, <1>3, WFMin
<1>5. x \in Nat /\ x \notin S /\ x # 0
  OBVIOUS
<1>6. x - 1 \in Nat /\ x - 1 < x /\ (x - 1) + 1 = x
  BY <1>5
<1>7. <<x - 1, x>> \in R
  BY <1>2, <1>5, <1>6
<1>8. x - 1 \in S
  BY <1>4, <1>6, <1>7
<1> QED BY <1>5, <1>6, <1>8

\* g gives the sums of the first n members of s.
GivesSums(g, s, n) ==
  /\ g \in [0..n -> Int] /\ g[0] = 0
  /\ \A i \in 1..n : g[i] = g[i - 1] + s[i]

\* One member more.
LEMMA SumsContinue ==
  ASSUME NEW s, NEW n \in Nat, NEW g, GivesSums(g, s, n), s[n + 1] \in Int
  PROVE  \E h : GivesSums(h, s, n + 1) /\ h[n + 1] = g[n] + s[n + 1]
<1> DEFINE h == [i \in 0..(n + 1) |-> IF i = n + 1 THEN g[n] + s[n + 1] ELSE g[i]]
<1>1. \A i \in 0..n : g[i] \in Int
  BY DEF GivesSums
<1>2. h \in [0..(n + 1) -> Int] /\ h[0] = 0
  BY <1>1 DEF GivesSums
<1>3. ASSUME NEW i \in 1..(n + 1)  PROVE h[i] = h[i - 1] + s[i]
  <2>1. CASE i = n + 1
    BY <2>1
  <2>2. CASE i # n + 1
    <3>1. i \in 1..n /\ i - 1 \in 0..n /\ i \in 0..n
      BY <2>2
    <3>2. h[i] = g[i] /\ h[i - 1] = g[i - 1]
      BY <3>1
    <3> QED BY <3>1, <3>2 DEF GivesSums
  <2> QED BY <2>1, <2>2
<1>4. h[n + 1] = g[n] + s[n + 1]
  OBVIOUS
<1> QED BY <1>2, <1>3, <1>4 DEF GivesSums

\* Every sequence of integers has its sums.
LEMMA SumsExist ==
  ASSUME NEW s \in Seq(Int)
  PROVE  \E g : GivesSums(g, s, Len(s))
<1> DEFINE S == {n \in Nat : n <= Len(s) => \E g : GivesSums(g, s, n)}
<1>1. 0 \in S
  <2>1. GivesSums([i \in 0..0 |-> 0], s, 0)
    BY DEF GivesSums
  <2> QED BY <2>1
<1>2. ASSUME NEW n \in Nat, n \in S  PROVE n + 1 \in S
  <2>1. CASE n + 1 <= Len(s)
    <3>1. PICK g : GivesSums(g, s, n)
      BY <1>2, <2>1
    <3>2. s[n + 1] \in Int
      BY <2>1
    <3>3. \E h : GivesSums(h, s, n + 1)
      BY <3>1, <3>2, SumsContinue
    <3> QED BY <3>3
  <2>2. CASE ~(n + 1 <= Len(s))
    BY <2>2
  <2> QED BY <2>1, <2>2
<1> HIDE DEF S
<1>3. Nat \subseteq S
  BY <1>1, <1>2, NumbersOneByOne
<1> QED BY <1>3 DEF S

\* SumOf is the last of them.
LEMMA SumIsLast ==
  ASSUME NEW s \in Seq(Int), NEW g, GivesSums(g, s, Len(s))
  PROVE  SumOf(s) = g[Len(s)]
<1> DEFINE Defines(f) == f = [n \in 0..Len(s) |-> IF n = 0 THEN 0 ELSE f[n - 1] + s[n]]
           upTo == CHOOSE f : Defines(f)
<1>1. Defines(g)
  BY DEF GivesSums
<1>2. Defines(upTo)
  BY <1>1
<1>3. SumOf(s) = upTo[Len(s)]
  BY DEF SumOf
<1>4. ASSUME NEW i \in 0..Len(s) PROVE upTo[i] = IF i = 0 THEN 0 ELSE upTo[i - 1] + s[i]
  BY <1>2
<1> HIDE DEF upTo
<1> DEFINE S == {i \in Nat : i <= Len(s) => g[i] = upTo[i]}
<1>5. 0 \in S
  BY <1>4 DEF GivesSums
<1>6. ASSUME NEW i \in Nat, i \in S  PROVE i + 1 \in S
  BY <1>6, <1>4 DEF GivesSums
<1> HIDE DEF S
<1>7. Nat \subseteq S
  BY <1>5, <1>6, NumbersOneByOne
<1>8. g[Len(s)] = upTo[Len(s)]
  BY <1>7 DEF S
<1> QED BY <1>3, <1>8

\* Nothing sums up to nothing.
LEMMA SumOfEmpty == SumOf(<<>>) = 0
<1>1. GivesSums([i \in 0..0 |-> 0], <<>>, 0)
  BY DEF GivesSums
<1> QED BY <1>1, SumIsLast

\* An appended member is added.
LEMMA SumOfAppend ==
  ASSUME NEW s \in Seq(Int), NEW x \in Int
  PROVE  SumOf(s) \in Int /\ SumOf(Append(s, x)) = SumOf(s) + x
<1> DEFINE a == Append(s, x)
           n == Len(s)
<1>1. a \in Seq(Int) /\ Len(a) = n + 1 /\ a[n + 1] = x /\ \A i \in 1..n : a[i] = s[i]
  OBVIOUS
<1> HIDE DEF a
<1>2. PICK g : GivesSums(g, s, n)
  BY SumsExist
<1>3. GivesSums(g, a, n)
  BY <1>1, <1>2 DEF GivesSums
<1>4. PICK h : GivesSums(h, a, n + 1) /\ h[n + 1] = g[n] + a[n + 1]
  BY <1>1, <1>3, SumsContinue
<1>5. SumOf(a) = g[n] + x
  BY <1>1, <1>4, SumIsLast
<1>6. SumOf(s) = g[n] /\ g[n] \in Int
  BY <1>2, SumIsLast DEF GivesSums
<1> QED BY <1>5, <1>6 DEF a

-----------------------------------------------------------------------------
(***************************************************************************)
(* The clock of one row                                                    *)
(***************************************************************************)
Counted == {"RUNNING", "PAUSED", "COMPLETED"}

\* A row whose times make sense at a given instant.  The target is at least a
\* second because sla_policies holds whole minutes.
SoundRow(r, at) ==
  /\ r.status \in Counted =>
       /\ r.startedAt \in Time /\ r.startedAt <= at
       /\ r.dueAt \in Time /\ r.dueAt >= r.startedAt + TicksPerSecond
       /\ r.totalPaused \in Nat
  /\ r.status \in {"RUNNING", "PAUSED"} => r.completedAt = Never
  /\ r.status = "PAUSED" => r.pausedAt \in Time /\ r.pausedAt <= at
  /\ r.status = "COMPLETED" =>
       /\ r.completedAt \in Time /\ r.completedAt <= at
       /\ r.result = CalculateResult(r.completedAt, r.dueAt, r.totalPaused)
  /\ r.result \in Verdicts => r.status = "COMPLETED"
  /\ r.result = "NOT_APPLICABLE" => r.status = "NOT_APPLICABLE"

\* The moves of a row: started, paused, resumed, completed or voided at an
\* instant, or left alone.
RowMove(r, s, at) ==
  \/ s = r
  \/ r.status = "NONE" /\ \E target \in Nat \ {0} : s = StartRuntime(at, target)
  \/ r.status = "RUNNING" /\ s = PauseRuntime(r, at)
  \/ r.status = "PAUSED" /\ s = ResumeRuntime(r, PauseDuration(r.pausedAt, at))
  \/ r.status = "RUNNING" /\ s = CompleteRuntime(r, at)
  \/ IsLive(r) /\ s = MarkNotApplicable(r, at)

\* What a counted row is measured by, as integers.
LEMMA MeasuresAreIntegers ==
  ASSUME NEW r, NEW at \in Time, SoundRow(r, at), r.status \in Counted
  PROVE  /\ Anchor(r, at) \in Int /\ Anchor(r, at) <= at
         /\ r.startedAt \in Int /\ r.dueAt \in Int /\ r.totalPaused \in Nat
         /\ EffectiveDueAt(r.dueAt, r.totalPaused) \in Int
         /\ Elapsed(r, at) \in Nat
         /\ Remaining(r, at) \in Int
         /\ Target(r) \in Nat \ {0}
         /\ Target(r) = Seconds(r.dueAt - r.startedAt)
<1>1. Anchor(r, at) \in Int /\ Anchor(r, at) <= at
  BY DEF SoundRow, Counted, Anchor, Time, Never
<1>2. r.startedAt \in Int /\ r.dueAt \in Int /\ r.totalPaused \in Nat
  BY DEF SoundRow, Time
<1>3. EffectiveDueAt(r.dueAt, r.totalPaused) \in Int
  BY <1>2, TicksPerSecondAssumption DEF EffectiveDueAt, Ticks
<1>4. Remaining(r, at) \in Int
  <2>1. EffectiveDueAt(r.dueAt, r.totalPaused) - Anchor(r, at) \in Int
    BY <1>1, <1>3
  <2> QED BY <2>1, SecondsType DEF Remaining
<1>5. Elapsed(r, at) \in Nat
  <2>1. Seconds(Anchor(r, at) - r.startedAt) \in Int
    BY <1>1, <1>2, SecondsType
  <2> QED BY <1>2, <2>1 DEF Elapsed, AtLeast
<1>6. Seconds(r.dueAt - r.startedAt) \in Int /\ Seconds(r.dueAt - r.startedAt) >= 1
  <2>1. r.dueAt - r.startedAt \in Int /\ TicksPerSecond <= r.dueAt - r.startedAt
    BY <1>2, TicksPerSecondAssumption DEF SoundRow
  <2> QED BY <2>1, TicksPerSecondAssumption DEF Seconds
<1>7. Target(r) = Seconds(r.dueAt - r.startedAt)
  BY <1>6 DEF Target, AtLeast
<1> QED BY <1>1, <1>2, <1>3, <1>4, <1>5, <1>6, <1>7

\* s, later, is at least as far gone as r.
NoBetter(r, at, s, later) ==
  /\ Target(s) = Target(r)
  /\ Elapsed(r, at) <= Elapsed(s, later)
  /\ Remaining(s, later) <= Remaining(r, at)

\* With the anchors in order and no more pause credited than passed between them,
\* the clock has not gone back.
LEMMA ClockGoesOn ==
  ASSUME NEW r, NEW at \in Time, SoundRow(r, at), r.status \in Counted,
         NEW s, NEW later \in Time, SoundRow(s, later), s.status \in Counted,
         s.startedAt = r.startedAt, s.dueAt = r.dueAt,
         NEW d \in Nat, s.totalPaused = r.totalPaused + d,
         Anchor(r, at) <= Anchor(s, later),
         d <= Seconds(Anchor(s, later) - Anchor(r, at))
  PROVE  NoBetter(r, at, s, later)
<1> DEFINE a == Anchor(r, at)
           b == Anchor(s, later)
           due == r.dueAt
           from == r.startedAt
           p == r.totalPaused
<1>1. /\ a \in Int /\ b \in Int /\ due \in Int /\ from \in Int /\ p \in Nat
      /\ EffectiveDueAt(due, p) \in Int /\ EffectiveDueAt(due, p + d) \in Int
  BY MeasuresAreIntegers
<1>2. Elapsed(r, at) = AtLeast(0, Seconds(a - from) - p)
  BY DEF Elapsed
<1>3. Elapsed(s, later) = AtLeast(0, Seconds(b - from) - (p + d))
  BY DEF Elapsed
<1>4. Remaining(r, at) = Seconds(EffectiveDueAt(due, p) - a)
  BY DEF Remaining
<1>5. Remaining(s, later) = Seconds(EffectiveDueAt(due, p + d) - b)
  BY DEF Remaining
<1>6. Target(s) = Target(r)
  BY DEF Target
<1>7. d <= Seconds(b - a)
  OBVIOUS
<1> HIDE DEF a, b, due, from, p
<1>8. Seconds(a - from) + d <= Seconds(b - from)
  <2>1. a - from \in Int /\ b - a \in Int /\ (a - from) + (b - a) = b - from
    BY <1>1
  <2>2. Seconds(a - from) + Seconds(b - a) <= Seconds(b - from)
    BY <2>1, SecondsOfParts
  <2> QED BY <1>7, <2>1, <2>2, SecondsType
<1>9. Elapsed(r, at) <= Elapsed(s, later)
  <2>1. Seconds(a - from) \in Int /\ Seconds(b - from) \in Int
    BY <1>1, SecondsType
  <2> QED BY <1>1, <1>2, <1>3, <1>8, <2>1 DEF AtLeast
<1>10. Remaining(s, later) <= Remaining(r, at)
  <2>1. Ticks(d) <= b - a
    <3>1. b - a \in Int /\ Seconds(b - a) \in Int
      BY <1>1, SecondsType
    <3>2. Ticks(Seconds(b - a)) <= b - a
      BY <3>1, SecondsCounted
    <3>3. Ticks(d) <= Ticks(Seconds(b - a))
      BY <1>7, <3>1, TicksPerSecondAssumption DEF Ticks
    <3> QED BY <3>1, <3>2, <3>3, TicksPerSecondAssumption DEF Ticks
  <2>2. EffectiveDueAt(due, p + d) = EffectiveDueAt(due, p) + Ticks(d)
    BY <1>1, TicksPerSecondAssumption DEF EffectiveDueAt, Ticks
  <2>3. Ticks(d) \in Int
    BY TicksPerSecondAssumption DEF Ticks
  <2>4. EffectiveDueAt(due, p + d) - b <= EffectiveDueAt(due, p) - a
    BY <1>1, <2>1, <2>2, <2>3
  <2> QED BY <1>1, <1>4, <1>5, <2>4, SecondsOrder
<1> QED BY <1>6, <1>9, <1>10 DEF NoBetter

-----------------------------------------------------------------------------
(***************************************************************************)
(* Moves of a row                                                          *)
(***************************************************************************)

\* Started rows are sound: the deadline is a target of whole seconds away.
LEMMA StartIsSound ==
  ASSUME NEW at \in Time, NEW target \in Nat \ {0}
  PROVE  /\ SoundRow(StartRuntime(at, target), at)
         /\ StartRuntime(at, target).status = "RUNNING"
<1> DEFINE s == StartRuntime(at, target)
<1>1. /\ s.status = "RUNNING" /\ s.startedAt = at /\ s.completedAt = Never
      /\ s.dueAt = at + target * TicksPerSecond
      /\ s.totalPaused = 0 /\ s.result = "NONE"
  BY DEF StartRuntime, NoRuntime, CalculateDeadline, Ticks
<1>2. /\ at + target * TicksPerSecond \in Time
      /\ at + target * TicksPerSecond >= at + TicksPerSecond
  BY TicksPerSecondAssumption DEF Time
<1> HIDE DEF s
<1>3. SoundRow(s, at)
  BY <1>1, <1>2 DEF SoundRow, Time, Verdicts
<1> QED BY <1>1, <1>3 DEF s

\* A pause never lasts longer than it took.
LEMMA PauseCounted ==
  ASSUME NEW p \in Time, NEW at \in Time, p <= at
  PROVE  PauseDuration(p, at) \in Nat /\ PauseDuration(p, at) = Seconds(at - p)
<1>1. at - p \in Int /\ ~(at - p < 0)
  BY DEF Time
<1>2. Seconds(at - p) \in Int /\ ~(Seconds(at - p) < 0)
  BY <1>1, SecondsType, SecondsSign
<1> QED BY <1>2 DEF PauseDuration, AtLeast

\* The fields a move writes, and those it leaves.
LEMMA MovedFields ==
  ASSUME NEW r \in Runtime, NEW at \in Time, NEW d \in Nat
  PROVE  /\ LET s == PauseRuntime(r, at)
            IN  /\ s.status = "PAUSED" /\ s.pausedAt = at
                /\ s.startedAt = r.startedAt /\ s.dueAt = r.dueAt
                /\ s.totalPaused = r.totalPaused /\ s.completedAt = r.completedAt
                /\ s.result = r.result
         /\ LET s == ResumeRuntime(r, d)
            IN  /\ s.status = "RUNNING"
                /\ s.startedAt = r.startedAt /\ s.dueAt = r.dueAt
                /\ s.totalPaused = r.totalPaused + d /\ s.completedAt = r.completedAt
                /\ s.result = r.result
         /\ LET s == CompleteRuntime(r, at)
            IN  /\ s.status = "COMPLETED" /\ s.completedAt = at
                /\ s.startedAt = r.startedAt /\ s.dueAt = r.dueAt
                /\ s.totalPaused = r.totalPaused
                /\ s.result = CalculateResult(at, r.dueAt, r.totalPaused)
         /\ LET s == MarkNotApplicable(r, at)
            IN  s.status = "NOT_APPLICABLE" /\ s.result = "NOT_APPLICABLE"
BY DEF Runtime, PauseRuntime, ResumeRuntime, CompleteRuntime, MarkNotApplicable

\* A sound row stays sound as time passes.
LEMMA SoundLater ==
  ASSUME NEW r, NEW at \in Time, SoundRow(r, at), NEW later \in Time, at <= later
  PROVE  SoundRow(r, later)
BY DEF SoundRow, Time

\* Every move of a row keeps it sound.
LEMMA MoveKeepsSound ==
  ASSUME NEW r \in Runtime, NEW at \in Time, SoundRow(r, at), NEW s, RowMove(r, s, at)
  PROVE  SoundRow(s, at)
<1>1. CASE r.status = "NONE" /\ \E target \in Nat \ {0} : s = StartRuntime(at, target)
  BY <1>1, StartIsSound
<1>2. CASE r.status = "RUNNING" /\ s = PauseRuntime(r, at)
  BY <1>2, MovedFields DEF SoundRow, Counted, Time, Verdicts
<1>3. CASE r.status = "PAUSED" /\ s = ResumeRuntime(r, PauseDuration(r.pausedAt, at))
  <2>1. PauseDuration(r.pausedAt, at) \in Nat
    BY <1>3, PauseCounted DEF SoundRow
  <2>2. /\ s.status = "RUNNING"
        /\ s.startedAt = r.startedAt /\ s.dueAt = r.dueAt
        /\ s.totalPaused = r.totalPaused + PauseDuration(r.pausedAt, at)
        /\ s.completedAt = r.completedAt /\ s.result = r.result
    BY <1>3, <2>1, MovedFields
  <2> QED BY <1>3, <2>1, <2>2 DEF SoundRow, Counted, Verdicts
<1>4. CASE r.status = "RUNNING" /\ s = CompleteRuntime(r, at)
  <2>1. s.result \in {"MET", "BREACHED"}
    BY <1>4, MovedFields DEF CalculateResult
  <2> QED BY <1>4, <2>1, MovedFields DEF SoundRow, Counted, Time
<1>5. CASE IsLive(r) /\ s = MarkNotApplicable(r, at)
  BY <1>5, MovedFields DEF SoundRow, Counted, Verdicts
<1> QED BY <1>1, <1>2, <1>3, <1>4, <1>5 DEF RowMove

\* No move, and no passing of time, makes a counted row look better.
LEMMA MoveGoesOn ==
  ASSUME NEW r \in Runtime, NEW at \in Time, SoundRow(r, at), r.status \in Counted,
         NEW s, RowMove(r, s, at), s.status \in Counted
  PROVE  NoBetter(r, at, s, at)
<1>0. SoundRow(s, at)
  BY MoveKeepsSound
<1>1. Anchor(r, at) \in Int
  BY MeasuresAreIntegers
<1>2. Seconds(0) = 0
  BY TicksPerSecondAssumption DEF Seconds
<1>3. ASSUME s.startedAt = r.startedAt, s.dueAt = r.dueAt, s.totalPaused = r.totalPaused,
             Anchor(s, at) = Anchor(r, at)
      PROVE  NoBetter(r, at, s, at)
  <2>1. /\ 0 <= Seconds(Anchor(s, at) - Anchor(r, at))
        /\ s.totalPaused = r.totalPaused + 0
        /\ Anchor(r, at) <= Anchor(s, at)
    BY <1>1, <1>2, <1>3, MeasuresAreIntegers
  <2> QED BY <1>0, <1>3, <2>1, ClockGoesOn
<1>4. CASE s = r
  BY <1>3, <1>4
<1>5. CASE r.status = "RUNNING" /\ s = PauseRuntime(r, at)
  <2>1. Anchor(s, at) = at /\ Anchor(r, at) = at
    BY <1>5, MovedFields DEF Anchor, SoundRow, Time, Never
  <2> QED BY <1>3, <1>5, <2>1, MovedFields
<1>6. CASE r.status = "PAUSED" /\ s = ResumeRuntime(r, PauseDuration(r.pausedAt, at))
  <2> DEFINE d == PauseDuration(r.pausedAt, at)
  <2>1. /\ d \in Nat /\ d = Seconds(at - r.pausedAt)
        /\ r.pausedAt \in Time /\ r.pausedAt <= at
    BY <1>6, PauseCounted DEF SoundRow
  <2> HIDE DEF d
  <2>2. /\ s.status = "RUNNING"
        /\ s.startedAt = r.startedAt /\ s.dueAt = r.dueAt
        /\ s.totalPaused = r.totalPaused + d
        /\ s.completedAt = r.completedAt
    BY <1>6, <2>1, MovedFields DEF d
  <2>3. Anchor(s, at) = at /\ Anchor(r, at) = r.pausedAt
    BY <1>6, <2>1, <2>2 DEF Anchor, SoundRow, Time, Never
  <2> QED BY <1>0, <2>1, <2>2, <2>3, ClockGoesOn
<1>7. CASE r.status = "RUNNING" /\ s = CompleteRuntime(r, at)
  <2>1. Anchor(s, at) = at /\ Anchor(r, at) = at
    BY <1>7, MovedFields DEF Anchor, SoundRow, Time, Never
  <2> QED BY <1>3, <1>7, <2>1, MovedFields
<1>8. CASE s = MarkNotApplicable(r, at)
  BY <1>8, MovedFields DEF Counted
<1> QED BY <1>4, <1>5, <1>6, <1>7, <1>8 DEF RowMove, Counted

\* A row left alone is no better off later.
LEMMA TimeGoesOn ==
  ASSUME NEW r, NEW at \in Time, SoundRow(r, at), r.status \in Counted,
         NEW later \in Time, at <= later
  PROVE  NoBetter(r, at, r, later)
<1>1. SoundRow(r, later)
  BY SoundLater
<1>2. Anchor(r, at) <= Anchor(r, later)
  BY DEF Anchor, SoundRow, Counted, Time, Never
<1>3. /\ Anchor(r, at) \in Int /\ Anchor(r, later) \in Int
      /\ r.totalPaused = r.totalPaused + 0
  BY <1>1, MeasuresAreIntegers
<1>4. 0 <= Seconds(Anchor(r, later) - Anchor(r, at))
  <2>1. Anchor(r, later) - Anchor(r, at) \in Int /\ ~(Anchor(r, later) - Anchor(r, at) < 0)
    BY <1>2, <1>3
  <2> QED BY <2>1, SecondsSign, SecondsType
<1> QED BY <1>1, <1>2, <1>3, <1>4, ClockGoesOn

-----------------------------------------------------------------------------
(***************************************************************************)
(* Thresholds                                                              *)
(***************************************************************************)

\* Progress is monotone in what has elapsed.
LEMMA ProgressGrows ==
  ASSUME NEW r, NEW at, NEW s, NEW later, NoBetter(r, at, s, later),
         Elapsed(r, at) \in Nat, Elapsed(s, later) \in Nat, Target(r) \in Nat \ {0}
  PROVE  Progress(r, at) \in Nat /\ Progress(s, later) \in Nat
           /\ Progress(r, at) <= Progress(s, later)
<1> DEFINE g == Target(r)
           x == 2 * 10000 * Elapsed(r, at) + g
           y == 2 * 10000 * Elapsed(s, later) + g
<1>1. x \in Nat /\ y \in Nat /\ x <= y /\ 2 * g \in Nat \ {0}
  BY DEF NoBetter
<1>2. Progress(r, at) = x \div (2 * g) /\ Progress(s, later) = y \div (2 * g)
  BY DEF Progress, NoBetter
<1> HIDE DEF g, x, y
<1>3. x \div (2 * g) <= y \div (2 * g) /\ x \div (2 * g) \in Nat /\ y \div (2 * g) \in Nat
  BY <1>1, QuotientOrder
<1> QED BY <1>2, <1>3

\* A row that is no better off has reached the same thresholds.
LEMMA ThresholdsStay ==
  ASSUME NEW r, NEW at \in Time, SoundRow(r, at), r.status \in Counted,
         NEW s, NEW later \in Time, SoundRow(s, later), s.status \in Counted,
         NoBetter(r, at, s, later), NEW w \in Nat, NEW e \in Nat, NEW prio
  PROVE  ReachedThresholds(r, at, w, e, prio) \subseteq ReachedThresholds(s, later, w, e, prio)
<1>1. /\ Elapsed(r, at) \in Nat /\ Elapsed(s, later) \in Nat /\ Target(r) \in Nat \ {0}
      /\ Remaining(r, at) \in Int /\ Remaining(s, later) \in Int
  BY MeasuresAreIntegers
<1>2. /\ Progress(r, at) \in Nat /\ Progress(s, later) \in Nat
      /\ Progress(r, at) <= Progress(s, later)
  BY <1>1, ProgressGrows
<1>3. Remaining(r, at) < 0 => Remaining(s, later) < 0
  BY <1>1 DEF NoBetter
<1>4. \A n \in Nat : Progress(r, at) >= 100 * n => Progress(s, later) >= 100 * n
  BY <1>2
<1>5. (IF prio = 1 THEN 100 ELSE e) \in Nat
  OBVIOUS
<1> QED BY <1>3, <1>4, <1>5 DEF ReachedThresholds

\* Overdue means past the whole target: the pauses credited to the deadline are
\* the same that are taken off what has elapsed.
LEMMA OverduePastTarget ==
  ASSUME NEW r, NEW at \in Time, SoundRow(r, at), r.status \in Counted, Remaining(r, at) < 0
  PROVE  Progress(r, at) >= 100 * 100
<1> DEFINE a == Anchor(r, at)
           due == EffectiveDueAt(r.dueAt, r.totalPaused)
           g == Target(r)
           e == Elapsed(r, at)
<1>1. /\ a \in Int /\ due \in Int /\ g \in Nat \ {0} /\ e \in Nat
      /\ r.startedAt \in Int /\ r.dueAt \in Int /\ r.totalPaused \in Nat
      /\ g = Seconds(r.dueAt - r.startedAt)
      /\ due = r.dueAt + Ticks(r.totalPaused)
  BY MeasuresAreIntegers DEF EffectiveDueAt
<1>2. due - a < 0
  <2>1. due - a \in Int /\ Seconds(due - a) < 0
    BY <1>1 DEF Remaining
  <2> QED BY <2>1, SecondsSign
<1>3. e = AtLeast(0, Seconds(a - r.startedAt) - r.totalPaused)
  BY DEF Elapsed
<1>4. Progress(r, at) = (2 * 10000 * e + g) \div (2 * g)
  BY DEF Progress
<1> HIDE DEF a, due, g, e
<1>5. g + r.totalPaused <= Seconds(a - r.startedAt)
  <2>1. /\ r.dueAt - r.startedAt \in Int /\ a - r.startedAt \in Int
        /\ r.totalPaused \in Int
    BY <1>1
  <2>2. /\ Ticks(r.totalPaused) \in Int
        /\ Seconds((r.dueAt - r.startedAt) + Ticks(r.totalPaused))
             = Seconds(r.dueAt - r.startedAt) + r.totalPaused
    BY <2>1, SecondsShift
  <2>3. /\ (r.dueAt - r.startedAt) + Ticks(r.totalPaused) \in Int
        /\ (r.dueAt - r.startedAt) + Ticks(r.totalPaused) <= a - r.startedAt
    BY <1>1, <1>2, <2>1, <2>2
  <2>4. Seconds((r.dueAt - r.startedAt) + Ticks(r.totalPaused)) <= Seconds(a - r.startedAt)
    BY <2>1, <2>3, SecondsOrder
  <2> QED BY <1>1, <2>2, <2>4
<1>6. g <= e
  <2>1. Seconds(a - r.startedAt) \in Int
    BY <1>1, SecondsType
  <2> QED BY <1>1, <1>3, <1>5, <2>1 DEF AtLeast
<1>7. 10000 * (2 * g) <= 2 * 10000 * e + g /\ 2 * 10000 * e + g \in Nat /\ 2 * g \in Nat \ {0}
  BY <1>1, <1>6
<1>8. 10000 <= (2 * 10000 * e + g) \div (2 * g)
  BY <1>7, QuotientBound
<1> QED BY <1>1, <1>4, <1>7, <1>8, QuotientOrder

-----------------------------------------------------------------------------
(***************************************************************************)
(* The rows of a ticket only make these moves                              *)
(***************************************************************************)
RowsMove(t) ==
  /\ RowMove(responseSla[t], responseSla'[t], now)
  /\ \A c \in Cycles : RowMove(resolutionSla[t][c], resolutionSla'[t][c], now)

\* A ticket that does not exist has no rows to overwrite.
LEMMA NoRowsYet ==
  ASSUME TypeOK, NEW t \in Tickets, CoherentNow(t), ResponseNow(t), ticket[t].status = "NONE"
  PROVE  /\ responseSla[t].status = "NONE"
         /\ \A c \in Cycles : resolutionSla[t][c].status = "NONE"
<1>1. responseSla[t].status = "NONE"
  BY DEF ResponseNow, StoppedOnce
<1>2. ASSUME NEW c \in Cycles  PROVE resolutionSla[t][c].status = "NONE"
  <2>1. resolutionSla[t][c].status \in RuntimeStatus
    BY RowsOfTicket DEF SlaRows, Runtime
  <2>2. resolutionSla[t][c].status \notin {"RUNNING", "PAUSED", "NOT_APPLICABLE"}
    BY DEF CoherentNow, Coherent, Clocked
  <2>3. resolutionSla[t][c].status # "COMPLETED"
    BY DEF CoherentNow, Coherent, Balanced, Accounted
  <2> QED BY <2>1, <2>2, <2>3 DEF RuntimeStatus
<1> QED BY <1>1, <1>2

\* The pause that ends is the one the row has been in since its paused_at.
LEMMA EndedPause ==
  ASSUME TypeOK, NEW t \in Tickets, CoherentNow(t), NEW c \in Cycles,
         resolutionSla[t][c].status = "PAUSED",
         NEW i \in DOMAIN pauses[t][c], IsLastOpenPause(t, c, i)
  PROVE  pauses[t][c][i].pausedAt = resolutionSla[t][c].pausedAt
<1>1. PICK k \in DOMAIN pauses[t][c] :
        /\ IsOpen(pauses[t][c][k])
        /\ pauses[t][c][k].pausedAt = resolutionSla[t][c].pausedAt
        /\ \A m \in DOMAIN pauses[t][c] : m > k => ~IsOpen(pauses[t][c][m])
  BY DEF CoherentNow, Coherent, Clocked, HeldSince
<1>2. pauses[t][c] \in Seq(PausePeriod)
  BY RowsOfTicket DEF Periods
<1>3. i = k
  BY <1>1, <1>2 DEF IsLastOpenPause
<1> QED BY <1>1, <1>3

\* Every handler moves the rows of its ticket by these moves alone.
LEMMA HandlerMovesRows ==
  ASSUME TypeOK, NEW t \in Tickets, CoherentNow(t), ResponseNow(t),
         NEW u \in Users, UserStep(t, u)
  PROVE  RowsMove(t)
<1>1. CASE Create(t, u)
  <2>1. /\ responseSla[t].status = "NONE"
        /\ \A c \in Cycles : resolutionSla[t][c].status = "NONE"
    BY <1>1, NoRowsYet DEF Create
  <2>2. CASE UNCHANGED <<responseSla, resolutionSla>>
    BY <2>2 DEF RowsMove, RowMove
  <2>3. ASSUME NEW p \in Policies,
               responseSla' = [responseSla EXCEPT ![t] = StartRuntime(now, p.response)],
               resolutionSla' = [resolutionSla EXCEPT ![t][1] = StartRuntime(now, p.resolution)]
        PROVE  RowsMove(t)
    <3>1. p.response \in Nat \ {0} /\ p.resolution \in Nat \ {0}
      BY PoliciesAssumption DEF PolicyRow
    <3>2. responseSla'[t] = StartRuntime(now, p.response)
      BY <2>3 DEF TypeOK
    <3>3. \A c \in Cycles : resolutionSla'[t][c] \in
                              {resolutionSla[t][c], StartRuntime(now, p.resolution)}
      BY <2>3 DEF TypeOK
    <3> QED BY <2>1, <3>1, <3>2, <3>3 DEF RowsMove, RowMove
  <2> QED BY <1>1, <2>2, <2>3 DEF Create
<1>2. CASE RequestInfo(t, u)
  <2>1. responseSla' = responseSla
    BY <1>2 DEF RequestInfo
  <2>2. ASSUME NEW c \in Cycles
        PROVE  \/ resolutionSla'[t][c] = resolutionSla[t][c]
               \/ /\ resolutionSla[t][c].status = "RUNNING"
                  /\ resolutionSla'[t][c] = PauseRuntime(resolutionSla[t][c], now)
    BY <1>2 DEF RequestInfo, TypeOK
  <2> QED BY <2>1, <2>2 DEF RowsMove, RowMove
<1>3. CASE ProvideInfo(t, u)
  <2>1. responseSla' = responseSla
    BY <1>3 DEF ProvideInfo
  <2>2. CASE UNCHANGED resolutionSla
    BY <2>1, <2>2 DEF RowsMove, RowMove
  <2>3. ASSUME NEW c \in Cycles, NEW i \in DOMAIN pauses[t][c],
               resolutionSla[t][c].status = "PAUSED", IsLastOpenPause(t, c, i),
               resolutionSla' = [resolutionSla EXCEPT ![t][c] =
                 ResumeRuntime(@, PauseDuration(pauses[t][c][i].pausedAt, now))]
        PROVE  RowsMove(t)
    <3>1. pauses[t][c][i].pausedAt = resolutionSla[t][c].pausedAt
      BY <2>3, EndedPause
    <3>2. resolutionSla'[t][c] =
            ResumeRuntime(resolutionSla[t][c], PauseDuration(resolutionSla[t][c].pausedAt, now))
      BY <2>3, <3>1 DEF TypeOK
    <3>3. \A d \in Cycles : d # c => resolutionSla'[t][d] = resolutionSla[t][d]
      BY <2>3 DEF TypeOK
    <3> QED BY <2>1, <2>3, <3>2, <3>3 DEF RowsMove, RowMove
  <2> QED BY <1>3, <2>2, <2>3 DEF ProvideInfo
<1>4. CASE Resolve(t, u)
  <2>1. responseSla' = responseSla
    BY <1>4 DEF Resolve
  <2>2. ASSUME NEW c \in Cycles
        PROVE  \/ resolutionSla'[t][c] = resolutionSla[t][c]
               \/ /\ resolutionSla[t][c].status = "RUNNING"
                  /\ resolutionSla'[t][c] = CompleteRuntime(resolutionSla[t][c], now)
    BY <1>4 DEF Resolve, TypeOK
  <2> QED BY <2>1, <2>2 DEF RowsMove, RowMove
<1>5. CASE Resume(t, u)
  <2>1. PICK p \in Policies, c \in Cycles :
          /\ IsLatestCycle(t, c - 1)
          /\ resolutionSla' = [resolutionSla EXCEPT ![t][c] = StartRuntime(now, p.resolution)]
          /\ UNCHANGED responseSla
    BY <1>5 DEF Resume
  <2>2. resolutionSla[t][c].status = "NONE"
    <3>1. c > c - 1
      BY DEF Cycles
    <3> QED BY <2>1, <3>1 DEF IsLatestCycle, HasSla
  <2>3. p.resolution \in Nat \ {0}
    BY PoliciesAssumption DEF PolicyRow
  <2>4. /\ resolutionSla'[t][c] = StartRuntime(now, p.resolution)
        /\ \A d \in Cycles : d # c => resolutionSla'[t][d] = resolutionSla[t][d]
    BY <2>1 DEF TypeOK
  <2> QED BY <2>1, <2>2, <2>3, <2>4 DEF RowsMove, RowMove
<1>6. CASE Reject(t, u)
  <2>1. \/ responseSla'[t] = responseSla[t]
        \/ /\ IsLive(responseSla[t])
           /\ responseSla'[t] = MarkNotApplicable(responseSla[t], now)
    BY <1>6 DEF Reject, TypeOK
  <2>2. ASSUME NEW c \in Cycles
        PROVE  \/ resolutionSla'[t][c] = resolutionSla[t][c]
               \/ /\ IsLive(resolutionSla[t][c])
                  /\ resolutionSla'[t][c] = MarkNotApplicable(resolutionSla[t][c], now)
    BY <1>6 DEF Reject, TypeOK
  <2> QED BY <2>1, <2>2 DEF RowsMove, RowMove
<1>7. CASE FirstReply(t, u)
  <2>1. resolutionSla' = resolutionSla
    BY <1>7 DEF FirstReply
  <2>2. \/ responseSla'[t] = responseSla[t]
        \/ /\ responseSla[t].status = "RUNNING"
           /\ responseSla'[t] = CompleteRuntime(responseSla[t], now)
    BY <1>7 DEF FirstReply, TypeOK
  <2> QED BY <2>1, <2>2 DEF RowsMove, RowMove
<1>8. CASE (\E p \in Users : Assign(t, u, p) \/ Reassign(t, u, p)) \/ Start(t, u)
             \/ Close(t, u) \/ Reopen(t, u)
  BY <1>8 DEF Assign, Reassign, Start, Close, Reopen, slaVars, RowsMove, RowMove
<1> QED BY <1>1, <1>2, <1>3, <1>4, <1>5, <1>6, <1>7, <1>8 DEF UserStep

\* A step moves the rows at the present instant, or time passes over them.
LEMMA StepMovesRows ==
  ASSUME TypeOK, CyclesCohere, ResponsesStopOnce, [Next]_vars, NEW t \in Tickets
  PROVE  /\ now \in Time /\ now' \in Time /\ now <= now'
         /\ RowsMove(t)
         /\ \/ now' = now
            \/ responseSla'[t] = responseSla[t] /\ resolutionSla'[t] = resolutionSla[t]
<1>0. now \in Time /\ CoherentNow(t) /\ ResponseNow(t)
  BY RowsOfTicket DEF CyclesCohere, ResponsesStopOnce, CoherentNow, ResponseNow
<1>1. ASSUME NEW u \in Users, UserStep(t, u)
      PROVE  RowsMove(t) /\ now' = now
  BY <1>0, <1>1, HandlerMovesRows, HandlersStopNoClock
<1>3. CASE Untouched(t) /\ now' \in Int /\ now <= now'
  <2>1. now' \in Time
    BY <1>0, <1>3 DEF Time
  <2>2. RowsMove(t)
    BY <1>3 DEF Untouched, RowsMove, RowMove
  <2> QED BY <1>0, <1>3, <2>1, <2>2 DEF Untouched
<1>4. now <= now
  BY <1>0 DEF Time
<1>2. CASE now' = now /\ RowsMove(t)
  BY <1>0, <1>4, <1>2
<1>5. (\E a \in Time : SetClosed(t, a, NoUser) /\ UNCHANGED <<slaVars, resolvedAt, now>>)
        => now' = now /\ RowsMove(t)
  BY DEF slaVars, RowsMove, RowMove
<1> QED BY <1>1, <1>2, <1>3, <1>5, StepOfTicket

-----------------------------------------------------------------------------
\* Every SLA row of every ticket is sound at every instant.
SlaRowsSound ==
  \A t \in Tickets :
    /\ SoundRow(responseSla[t], now)
    /\ \A c \in Cycles : SoundRow(resolutionSla[t][c], now)

\* So a step, in either case, keeps a row sound.
LEMMA StepKeepsRowSound ==
  ASSUME NEW r \in Runtime, now \in Time, now' \in Time, now <= now', SoundRow(r, now),
         NEW s, RowMove(r, s, now), now' = now \/ s = r
  PROVE  SoundRow(s, now')
BY MoveKeepsSound, SoundLater

\* Whatever handlers do, a row's times stay in order, its deadline is a whole
\* target away from its start, and it has a verdict exactly when completed.
THEOREM RowsStaySound == Spec => []SlaRowsSound
<1>1. Init => SlaRowsSound
  BY DEF Init, SlaRowsSound, SoundRow, NoRuntime, Counted, Verdicts
<1>2. TypeOK /\ CyclesCohere /\ ResponsesStopOnce /\ SlaRowsSound /\ [Next]_vars
        => SlaRowsSound'
  <2> SUFFICES ASSUME TypeOK, CyclesCohere, ResponsesStopOnce, SlaRowsSound, [Next]_vars,
                      NEW t \in Tickets
               PROVE  /\ SoundRow(responseSla'[t], now')
                      /\ \A c \in Cycles : SoundRow(resolutionSla'[t][c], now')
    BY DEF SlaRowsSound
  <2>1. /\ now \in Time /\ now' \in Time /\ now <= now' /\ RowsMove(t)
        /\ \/ now' = now
           \/ responseSla'[t] = responseSla[t] /\ resolutionSla'[t] = resolutionSla[t]
    BY StepMovesRows
  <2>2. responseSla[t] \in Runtime /\ \A c \in Cycles : resolutionSla[t][c] \in Runtime
    BY DEF TypeOK
  <2>3. SoundRow(responseSla'[t], now')
    BY <2>1, <2>2, StepKeepsRowSound DEF SlaRowsSound, RowsMove
  <2>4. ASSUME NEW c \in Cycles  PROVE SoundRow(resolutionSla'[t][c], now')
    BY <2>1, <2>2, StepKeepsRowSound DEF SlaRowsSound, RowsMove
  <2> QED BY <2>3, <2>4
<1> QED BY <1>1, <1>2, TypeCorrect, CyclesStayCoherent, ResponsesStayCoherent, PTL DEF Spec

-----------------------------------------------------------------------------
(***************************************************************************)
(* The stored verdict and the computed one                                 *)
(***************************************************************************)

\* The verdict a row was given when it was completed is the one its metrics
\* give at any later time, and no other row has one.
LEMMA VerdictIsMetrics ==
  ASSUME NEW r, NEW at \in Time, SoundRow(r, at), r.status \in Counted
  PROVE  /\ r.status = "COMPLETED" => (r.result = "BREACHED" <=> Remaining(r, at) < 0)
         /\ r.status = "COMPLETED" => r.result \in Verdicts
         /\ r.status # "COMPLETED" => r.result \notin Verdicts
         /\ r.result # "NOT_APPLICABLE"
<1>1. /\ r.status # "COMPLETED" => r.result \notin Verdicts
      /\ r.result # "NOT_APPLICABLE"
  BY DEF SoundRow, Counted
<1>2. CASE r.status = "COMPLETED"
  <2>1. /\ r.result = CalculateResult(r.completedAt, r.dueAt, r.totalPaused)
        /\ r.completedAt \in Int
        /\ Anchor(r, at) = r.completedAt
    BY <1>2 DEF SoundRow, Anchor, Time, Never
  <2>2. EffectiveDueAt(r.dueAt, r.totalPaused) \in Int
    BY MeasuresAreIntegers
  <2>3. Remaining(r, at) < 0 <=> EffectiveDueAt(r.dueAt, r.totalPaused) - r.completedAt < 0
    <3>1. EffectiveDueAt(r.dueAt, r.totalPaused) - r.completedAt \in Int
      BY <2>1, <2>2
    <3> QED BY <2>1, <3>1, SecondsSign DEF Remaining
  <2> QED BY <1>1, <2>1, <2>2, <2>3 DEF CalculateResult, Verdicts
<1> QED BY <1>1, <1>2

\* What is stored, what the worker computes and what the ticket page shows of a
\* row never disagree (calculate_result, calculate_metrics, classify_status).
THEOREM VerdictsAgree == Spec => []VerdictMatchesMetrics
<1>1. TypeOK /\ SlaRowsSound => VerdictMatchesMetrics
  <2> SUFFICES ASSUME NEW r, NEW at \in Time, SoundRow(r, at), r.status \in Counted
               PROVE  LET reached == ReachedThresholds(r, at, WarningPercent, EscalationPercent, 1)
                      IN  /\ r.status = "COMPLETED" => (r.result = "BREACHED" <=> "OVERDUE" \in reached)
                          /\ "OVERDUE" \in reached => "ESCALATED" \in reached
                          /\ ClassifyStatus(r, at, WarningPercent) = "OVERDUE" <=> "OVERDUE" \in reached
    <3>1. ASSUME TypeOK, SlaRowsSound, NEW t \in Tickets, NEW c \in Cycles,
                 NEW r \in {responseSla[t], resolutionSla[t][c]}
          PROVE  now \in Time /\ SoundRow(r, now)
      <4>1. now \in Time
        BY <3>1, RowsOfTicket
      <4> QED BY <3>1, <4>1 DEF SlaRowsSound
    <3> QED BY <3>1 DEF VerdictMatchesMetrics, Counted
  <2> DEFINE reached == ReachedThresholds(r, at, WarningPercent, EscalationPercent, 1)
  <2>1. "OVERDUE" \in reached <=> Remaining(r, at) < 0
    BY DEF ReachedThresholds
  <2>2. Remaining(r, at) < 0 => "ESCALATED" \in reached
    BY OverduePastTarget DEF ReachedThresholds
  <2>3. ClassifyStatus(r, at, WarningPercent) = "OVERDUE" <=> Remaining(r, at) < 0
    BY VerdictIsMetrics DEF ClassifyStatus, Verdicts, Counted
  <2> QED BY <2>1, <2>2, <2>3, VerdictIsMetrics
<1> QED BY <1>1, RowsStaySound, TypeCorrect, PTL

-----------------------------------------------------------------------------
(***************************************************************************)
(* What a step does to the thresholds                                      *)
(***************************************************************************)

\* A step, be it a handler or the passing of time, leaves a counted row no better.
LEMMA StepGoesOn ==
  ASSUME NEW r \in Runtime, now \in Time, now' \in Time, now <= now', SoundRow(r, now),
         NEW s, RowMove(r, s, now), now' = now \/ s = r,
         r.status \in Counted, s.status \in Counted,
         NEW w \in Nat, NEW e \in Nat, NEW prio
  PROVE  ReachedThresholds(r, now, w, e, prio) \subseteq ReachedThresholds(s, now', w, e, prio)
<1>1. SoundRow(s, now')
  BY StepKeepsRowSound
<1>2. NoBetter(r, now, s, now')
  BY MoveGoesOn, TimeGoesOn
<1> QED BY <1>1, <1>2, ThresholdsStay

\* No pause, resumption or passing of time takes back what a row has reached.
THEOREM ThresholdsNeverRetreat == Spec => ThresholdsOnlyGrow
<1>1. TypeOK /\ CyclesCohere /\ ResponsesStopOnce /\ SlaRowsSound /\ [Next]_vars
        => [\A t \in Tickets : \A c \in Cycles :
             LET before == resolutionSla[t][c]
                 after  == resolutionSla'[t][c]
             IN  IsLive(before) /\ IsLive(after) =>
                   ReachedThresholds(before, now, WarningPercent, EscalationPercent, 2)
                     \subseteq
                   ReachedThresholds(after, now', WarningPercent, EscalationPercent, 2)]_vars
  <2> SUFFICES ASSUME TypeOK, CyclesCohere, ResponsesStopOnce, SlaRowsSound, [Next]_vars,
                      NEW t \in Tickets, NEW c \in Cycles,
                      IsLive(resolutionSla[t][c]), IsLive(resolutionSla'[t][c])
               PROVE  ReachedThresholds(resolutionSla[t][c], now, WarningPercent, EscalationPercent, 2)
                        \subseteq
                      ReachedThresholds(resolutionSla'[t][c], now', WarningPercent, EscalationPercent, 2)
    OBVIOUS
  <2>1. /\ now \in Time /\ now' \in Time /\ now <= now'
        /\ RowMove(resolutionSla[t][c], resolutionSla'[t][c], now)
        /\ now' = now \/ resolutionSla'[t][c] = resolutionSla[t][c]
    BY StepMovesRows DEF RowsMove
  <2>2. resolutionSla[t][c] \in Runtime /\ SoundRow(resolutionSla[t][c], now)
    BY DEF TypeOK, SlaRowsSound
  <2>3. WarningPercent \in Nat /\ EscalationPercent \in Nat
    BY PercentAssumption
  <2>4. resolutionSla[t][c].status \in Counted /\ resolutionSla'[t][c].status \in Counted
    BY DEF IsLive, Counted
  <2> QED BY <2>1, <2>2, <2>3, <2>4, StepGoesOn
<1> QED BY <1>1, RowsStaySound, TypeCorrect, CyclesStayCoherent, ResponsesStayCoherent, PTL
        DEF Spec, ThresholdsOnlyGrow

\* A move leaves a verdict as it is.
LEMMA MoveKeepsVerdict ==
  ASSUME NEW r, NEW at, SoundRow(r, at), NEW s, RowMove(r, s, at), r.result \in Verdicts
  PROVE  s.result = r.result
BY DEF SoundRow, RowMove, IsLive

\* More resolution verdicts, the old ones among them, do not better the whole.
LEMMA OverallWorsens ==
  ASSUME NEW response, NEW cycles, NEW response2, NEW cycles2,
         response.result \in Verdicts => response2.result = response.result,
         DOMAIN cycles2 = DOMAIN cycles,
         \A c \in DOMAIN cycles :
           cycles[c].result \in Verdicts => cycles2[c].result = cycles[c].result
  PROVE  /\ Overall(response, cycles) = "BREACHED" => Overall(response2, cycles2) = "BREACHED"
         /\ Overall(response, cycles) # "NONE" => Overall(response2, cycles2) # "NONE"
<1> DEFINE old == VerdictsOf({cycles[c] : c \in DOMAIN cycles})
           new == VerdictsOf({cycles2[c] : c \in DOMAIN cycles2})
<1>1. old \subseteq new /\ new \subseteq Verdicts
  BY DEF VerdictsOf
<1>2. /\ Overall(response, cycles) = IF response.result \notin Verdicts \/ old = {} THEN "NONE"
                                     ELSE IF {response.result} \union old = {"MET"} THEN "MET"
                                     ELSE "BREACHED"
      /\ Overall(response2, cycles2) = IF response2.result \notin Verdicts \/ new = {} THEN "NONE"
                                       ELSE IF {response2.result} \union new = {"MET"} THEN "MET"
                                       ELSE "BREACHED"
  BY DEF Overall
<1> HIDE DEF old, new
<1>3. CASE response.result \notin Verdicts \/ old = {}
  BY <1>2, <1>3
<1>4. CASE ~(response.result \notin Verdicts \/ old = {})
  <2>1. response2.result = response.result /\ response.result \in Verdicts /\ new # {}
    BY <1>1, <1>4
  <2>2. {response2.result} \union new = {"MET"} => {response.result} \union old = {"MET"}
    BY <1>1, <2>1
  <2> QED BY <1>2, <1>4, <2>1, <2>2
<1> QED BY <1>3, <1>4

\* The SLA result the dashboard shows of a ticket never improves.
THEOREM OverallOnlyWorsens == Spec => VerdictsOnlyWorsen
<1>1. TypeOK /\ TypeOK' /\ CyclesCohere /\ ResponsesStopOnce /\ SlaRowsSound /\ [Next]_vars
        => [\A t \in Tickets :
             LET before == Overall(responseSla[t], resolutionSla[t])
                 after  == Overall(responseSla'[t], resolutionSla'[t])
             IN  /\ before = "BREACHED" => after = "BREACHED"
                 /\ before # "NONE" => after # "NONE"]_vars
  <2> SUFFICES ASSUME TypeOK, TypeOK', CyclesCohere, ResponsesStopOnce, SlaRowsSound, [Next]_vars,
                      NEW t \in Tickets
               PROVE  LET before == Overall(responseSla[t], resolutionSla[t])
                          after  == Overall(responseSla'[t], resolutionSla'[t])
                      IN  /\ before = "BREACHED" => after = "BREACHED"
                          /\ before # "NONE" => after # "NONE"
    OBVIOUS
  <2>1. RowsMove(t)
    BY StepMovesRows
  <2>2. DOMAIN resolutionSla'[t] = DOMAIN resolutionSla[t] /\ DOMAIN resolutionSla[t] = Cycles
    BY DEF TypeOK
  <2>3. responseSla[t].result \in Verdicts => responseSla'[t].result = responseSla[t].result
    BY <2>1, MoveKeepsVerdict DEF RowsMove, SlaRowsSound
  <2>4. \A c \in Cycles : resolutionSla[t][c].result \in Verdicts =>
                            resolutionSla'[t][c].result = resolutionSla[t][c].result
    BY <2>1, MoveKeepsVerdict DEF RowsMove, SlaRowsSound
  <2> QED BY <2>2, <2>3, <2>4, OverallWorsens
<1> QED BY <1>1, RowsStaySound, TypeCorrect, CyclesStayCoherent, ResponsesStayCoherent, PTL
        DEF Spec, VerdictsOnlyWorsen

-----------------------------------------------------------------------------
(***************************************************************************)
(* The pauses of a cycle                                                   *)
(***************************************************************************)

\* One more pause is one more duration and one more wait.
LEMMA OnePauseMore ==
  ASSUME NEW ps \in Seq(PausePeriod), NEW p \in PausePeriod
  PROVE  LET waited == IF IsOpen(p) THEN 0 ELSE p.resumedAt - p.pausedAt
         IN  /\ RecordedPauses(ps) \in Int /\ Waited(ps) \in Int
             /\ RecordedPauses(Append(ps, p)) = RecordedPauses(ps) + p.duration
             /\ Waited(Append(ps, p)) = Waited(ps) + waited
<1> DEFINE W(q) == IF IsOpen(q) THEN 0 ELSE q.resumedAt - q.pausedAt
           all == Append(ps, p)
<1>1. \A q \in PausePeriod : q.duration \in Int /\ W(q) \in Int
  BY DEF PausePeriod, TimeOrNever, Time, Never, IsOpen
<1>2. /\ all \in Seq(PausePeriod) /\ Len(all) = Len(ps) + 1
      /\ \A i \in DOMAIN ps : all[i] = ps[i] /\ ps[i] \in PausePeriod
      /\ all[Len(ps) + 1] = p
      /\ DOMAIN ps = 1..Len(ps) /\ DOMAIN all = 1..(Len(ps) + 1)
  OBVIOUS
<1> HIDE DEF W, all
<1>3. /\ [i \in DOMAIN ps |-> ps[i].duration] \in Seq(Int)
      /\ [i \in DOMAIN all |-> all[i].duration] =
           Append([i \in DOMAIN ps |-> ps[i].duration], p.duration)
  BY <1>1, <1>2
<1>4. /\ [i \in DOMAIN ps |-> W(ps[i])] \in Seq(Int)
      /\ [i \in DOMAIN all |-> W(all[i])] =
           Append([i \in DOMAIN ps |-> W(ps[i])], W(p))
  BY <1>1, <1>2
<1>5. /\ RecordedPauses(ps) \in Int
      /\ RecordedPauses(all) = RecordedPauses(ps) + p.duration
  BY <1>1, <1>3, SumOfAppend DEF RecordedPauses
<1>6. Waited(ps) = SumOf([i \in DOMAIN ps |-> W(ps[i])])
  BY DEF Waited, W
<1>7. Waited(all) = SumOf([i \in DOMAIN all |-> W(all[i])])
  BY DEF Waited, W
<1>8. Waited(ps) \in Int /\ Waited(all) = Waited(ps) + W(p)
  BY <1>1, <1>4, <1>6, <1>7, SumOfAppend
<1> QED BY <1>5, <1>8 DEF all, W

\* Time waited is counted in ticks.
LEMMA WaitedType ==
  ASSUME NEW ps \in Seq(PausePeriod)
  PROVE  Waited(ps) \in Int
<1> DEFINE p == [pausedAt |-> 0, resumedAt |-> 0, duration |-> 0]
<1>1. p \in PausePeriod
  BY DEF PausePeriod, TimeOrNever, Time
<1> HIDE DEF p
<1> QED BY <1>1, OnePauseMore

\* No pauses, no time.
LEMMA NoPauses == RecordedPauses(<<>>) = 0 /\ Waited(<<>>) = 0
<1>1. /\ [i \in DOMAIN <<>> |-> <<>>[i].duration] = <<>>
      /\ [i \in DOMAIN <<>> |->
            IF IsOpen(<<>>[i]) THEN 0 ELSE <<>>[i].resumedAt - <<>>[i].pausedAt] = <<>>
  OBVIOUS
<1> QED BY <1>1, SumOfEmpty DEF RecordedPauses, Waited

\* Some pauses are the earlier ones and the last.
LEMMA LastPause ==
  ASSUME NEW ps \in Seq(PausePeriod), ps # <<>>
  PROVE  \E front \in Seq(PausePeriod) :
           /\ Len(front) = Len(ps) - 1
           /\ ps = Append(front, ps[Len(ps)])
           /\ \A q : [ps EXCEPT ![Len(ps)] = q] = Append(front, q)
<1> DEFINE n == Len(ps) - 1
           front == [i \in 1..n |-> ps[i]]
<1>1. n \in Nat /\ Len(ps) = n + 1 /\ \A i \in 1..(n + 1) : ps[i] \in PausePeriod
  OBVIOUS
<1>2. front \in Seq(PausePeriod) /\ Len(front) = n
  BY <1>1
<1>3. ps = Append(front, ps[Len(ps)])
  BY <1>1, <1>2
<1>4. \A q : [ps EXCEPT ![Len(ps)] = q] = Append(front, q)
  BY <1>1, <1>2
<1> QED BY <1>2, <1>3, <1>4

\* What is lost when a pause is truncated: less than a second.
Slack(n) == n * (TicksPerSecond - 1)

\* The pauses of a row that have ended: all, or all but the last.
EndedPauses(r, ps) == IF r.status = "PAUSED" THEN Len(ps) - 1 ELSE Len(ps)

\* A row and the pauses of its cycle.  They follow one another; those that have
\* ended are credited with their whole seconds, and lost less than one each.
LedgerFits(r, ps, at) ==
  /\ r.totalPaused = RecordedPauses(ps)
  /\ Ticks(r.totalPaused) <= Waited(ps)
  /\ Waited(ps) <= Ticks(r.totalPaused) + Slack(EndedPauses(r, ps))
  /\ \A i \in DOMAIN ps :
       /\ IsOpen(ps[i]) <=> i = Len(ps) /\ r.status = "PAUSED"
       /\ IsOpen(ps[i]) => ps[i].duration = 0
       /\ ps[i].pausedAt <= at /\ ps[i].resumedAt <= at
       /\ i > 1 => ps[i].pausedAt >= ps[i - 1].resumedAt
  /\ r.status = "PAUSED" => ps # <<>>
  /\ r.status = "NONE" => ps = <<>>

\* How a row and its pauses move together: started, completed or voided while no
\* pause is open, paused, resumed, or left alone.
LedgerMove(r, ps, s, qs, at) ==
  \/ s = r /\ qs = ps
  \/ /\ r.status = "NONE" /\ qs = ps
     /\ \E target \in Nat \ {0} : s = StartRuntime(at, target)
  \/ /\ r.status = "RUNNING" /\ qs = ps
     /\ s \in {CompleteRuntime(r, at), MarkNotApplicable(r, at)}
  \/ /\ r.status = "RUNNING" /\ s = PauseRuntime(r, at)
     /\ qs = Append(ps, [pausedAt |-> at, resumedAt |-> Never, duration |-> 0])
  \/ /\ r.status = "PAUSED"
     /\ \E i \in DOMAIN ps :
          LET d == PauseDuration(ps[i].pausedAt, at)
          IN  /\ IsOpen(ps[i])
              /\ s = ResumeRuntime(r, d)
              /\ qs = [ps EXCEPT ![i] =
                   [pausedAt |-> ps[i].pausedAt, resumedAt |-> at, duration |-> d]]

\* Truncation loses less than a second of a pause.
LEMMA PauseLoss ==
  ASSUME NEW p \in Time, NEW at \in Time, p <= at, NEW d, d = PauseDuration(p, at)
  PROVE  /\ d \in Nat /\ Ticks(d) \in Int /\ Ticks(d) <= at - p
         /\ at - p <= Ticks(d) + (TicksPerSecond - 1)
<1>1. d \in Nat /\ d = Seconds(at - p) /\ at - p \in Int
  BY PauseCounted DEF Time
<1> QED BY <1>1, TicksPerSecondAssumption DEF Seconds, Ticks

\* Credits and losses add up.
LEMMA TicksAddUp ==
  ASSUME NEW m \in Int, NEW n \in Int
  PROVE  /\ Ticks(m) \in Int /\ Ticks(m + n) = Ticks(m) + Ticks(n) /\ Ticks(0) = 0
         /\ Slack(m) \in Int /\ Slack(m + 1) = Slack(m) + (TicksPerSecond - 1) /\ Slack(0) = 0
BY TicksPerSecondAssumption DEF Ticks, Slack

\* Bounds on two parts bound their sum.
LEMMA AddBounds ==
  ASSUME NEW a \in Int, NEW b \in Int, NEW v \in Int, NEW w \in Int,
         NEW x \in Int, NEW y \in Int,
         a <= v, v <= a + x, b <= w, w <= b + y
  PROVE  a + b <= v + w /\ v + w <= (a + b) + (x + y)
OBVIOUS

\* A started row has not been paused.
LEMMA LedgerStarts ==
  ASSUME NEW at \in Time, NEW s, s.totalPaused = 0, s.status # "PAUSED"
  PROVE  LedgerFits(s, <<>>, at)
<1>1. Len(<<>>) = 0 /\ DOMAIN <<>> = {}
  OBVIOUS
<1>2. Ticks(0) = 0 /\ Slack(0) = 0
  BY TicksAddUp
<1> QED BY <1>1, <1>2, NoPauses DEF LedgerFits, EndedPauses

\* A clock is stopped after its last pause has ended.
LEMMA LedgerPauses ==
  ASSUME NEW r \in Runtime, NEW ps \in Seq(PausePeriod), NEW at \in Time,
         LedgerFits(r, ps, at), r.status = "RUNNING"
  PROVE  LedgerFits(PauseRuntime(r, at),
                    Append(ps, [pausedAt |-> at, resumedAt |-> Never, duration |-> 0]), at)
<1> DEFINE p == [pausedAt |-> at, resumedAt |-> Never, duration |-> 0]
           qs == Append(ps, p)
           s == PauseRuntime(r, at)
           n == Len(ps)
<1>1. /\ p \in PausePeriod /\ IsOpen(p) /\ p.duration = 0
      /\ p.pausedAt = at /\ p.resumedAt <= at
  BY DEF PausePeriod, TimeOrNever, Time, Never, IsOpen
<1>2. s.status = "PAUSED" /\ s.totalPaused = r.totalPaused /\ r.totalPaused \in Int
  BY MovedFields DEF Runtime
<1> HIDE DEF p
<1>3. /\ n \in Nat /\ Len(qs) = n + 1 /\ qs[n + 1] = p /\ qs # <<>>
      /\ DOMAIN qs = 1..(n + 1) /\ DOMAIN ps = 1..n
      /\ \A i \in 1..n : qs[i] = ps[i]
  OBVIOUS
<1>4. /\ RecordedPauses(ps) \in Int /\ Waited(ps) \in Int
      /\ RecordedPauses(qs) = RecordedPauses(ps) + 0
      /\ Waited(qs) = Waited(ps) + 0
  BY <1>1, OnePauseMore
<1> HIDE DEF qs, s
<1>5. s.totalPaused = RecordedPauses(qs)
  BY <1>2, <1>4 DEF LedgerFits
<1>6. /\ Ticks(s.totalPaused) <= Waited(qs)
      /\ Waited(qs) <= Ticks(s.totalPaused) + Slack(EndedPauses(s, qs))
  <2>1. EndedPauses(s, qs) = n /\ EndedPauses(r, ps) = n
    BY <1>2, <1>3 DEF EndedPauses
  <2> QED BY <1>2, <1>4, <2>1 DEF LedgerFits
<1>7. ASSUME NEW i \in 1..(n + 1)
      PROVE  /\ IsOpen(qs[i]) <=> i = n + 1
             /\ IsOpen(qs[i]) => qs[i].duration = 0
             /\ qs[i].pausedAt <= at /\ qs[i].resumedAt <= at
             /\ i > 1 => qs[i].pausedAt >= qs[i - 1].resumedAt
  <2>1. CASE i = n + 1
    <3>1. at <= at
      BY DEF Time
    <3>2. i > 1 => n \in 1..n /\ qs[i - 1] = ps[n]
      BY <1>3, <2>1
    <3> QED BY <1>1, <1>3, <2>1, <3>1, <3>2 DEF LedgerFits
  <2>2. CASE i # n + 1
    <3>1. i \in 1..n /\ qs[i] = ps[i] /\ (i > 1 => qs[i - 1] = ps[i - 1])
      BY <1>3, <2>2
    <3> QED BY <1>3, <2>2, <3>1 DEF LedgerFits
  <2> QED BY <2>1, <2>2
<1>8. LedgerFits(s, qs, at)
  BY <1>2, <1>3, <1>5, <1>6, <1>7 DEF LedgerFits
<1> QED BY <1>8 DEF s, qs, p

\* A pause that ends is the last one, and credited with its whole seconds.
LEMMA LedgerResumes ==
  ASSUME NEW r \in Runtime, NEW ps \in Seq(PausePeriod), NEW at \in Time,
         LedgerFits(r, ps, at), r.status = "PAUSED", NEW i \in DOMAIN ps, IsOpen(ps[i]),
         NEW d, d = PauseDuration(ps[i].pausedAt, at)
  PROVE  LedgerFits(ResumeRuntime(r, d),
                    [ps EXCEPT ![i] =
                       [pausedAt |-> ps[i].pausedAt, resumedAt |-> at, duration |-> d]], at)
<1> DEFINE q == [pausedAt |-> ps[i].pausedAt, resumedAt |-> at, duration |-> d]
           qs == [ps EXCEPT ![i] = q]
           s == ResumeRuntime(r, d)
           n == Len(ps)
<1>1. /\ n \in Nat \ {0} /\ i = n /\ ps # <<>> /\ DOMAIN ps = 1..n
      /\ ps[n] \in PausePeriod /\ ps[n].duration = 0
  BY DEF LedgerFits
<1>2. ps[n].pausedAt \in Time /\ ps[n].pausedAt <= at
  BY <1>1 DEF PausePeriod, LedgerFits
<1>3. /\ d \in Nat /\ Ticks(d) \in Int /\ Ticks(d) <= at - ps[n].pausedAt
      /\ at - ps[n].pausedAt <= Ticks(d) + (TicksPerSecond - 1)
  BY <1>1, <1>2, PauseLoss
<1>4. /\ q \in PausePeriod /\ ~IsOpen(q) /\ q.duration = d
      /\ q.pausedAt = ps[n].pausedAt /\ q.resumedAt = at
  BY <1>1, <1>2, <1>3 DEF PausePeriod, TimeOrNever, IsOpen, Time, Never
<1>5. /\ s.status = "RUNNING" /\ s.totalPaused = r.totalPaused + d
      /\ r.totalPaused \in Int
  BY <1>3, MovedFields DEF Runtime
<1>6. PICK front \in Seq(PausePeriod) :
        /\ Len(front) = n - 1
        /\ ps = Append(front, ps[n])
        /\ \A x : [ps EXCEPT ![n] = x] = Append(front, x)
  BY <1>1, LastPause
<1>7. qs = Append(front, q)
  BY <1>1, <1>6
<1>8. /\ Len(qs) = n /\ DOMAIN qs = 1..n /\ qs[n] = q
      /\ \A k \in 1..(n - 1) : qs[k] = ps[k]
  BY <1>1
<1> HIDE DEF q, qs, s
<1>9. /\ RecordedPauses(front) \in Int /\ Waited(front) \in Int
      /\ RecordedPauses(ps) = RecordedPauses(front)
      /\ Waited(ps) = Waited(front)
      /\ RecordedPauses(qs) = RecordedPauses(front) + d
      /\ Waited(qs) = Waited(front) + (at - ps[n].pausedAt)
  <2>1. /\ RecordedPauses(front) \in Int /\ Waited(front) \in Int
        /\ RecordedPauses(ps) = RecordedPauses(front) + 0
        /\ Waited(ps) = Waited(front) + 0
    BY <1>1, <1>6, OnePauseMore
  <2>2. /\ RecordedPauses(qs) = RecordedPauses(front) + d
        /\ Waited(qs) = Waited(front) + (at - ps[n].pausedAt)
    BY <1>4, <1>7, OnePauseMore
  <2> QED BY <2>1, <2>2
<1>10. s.totalPaused = RecordedPauses(qs)
  BY <1>5, <1>9 DEF LedgerFits
<1>11. /\ Ticks(s.totalPaused) <= Waited(qs)
       /\ Waited(qs) <= Ticks(s.totalPaused) + Slack(EndedPauses(s, qs))
  <2>1. /\ Ticks(r.totalPaused) \in Int /\ Slack(n - 1) \in Int /\ Slack(n) \in Int
        /\ Ticks(s.totalPaused) = Ticks(r.totalPaused) + Ticks(d)
    <3>1. n \in Int /\ n - 1 \in Int /\ d \in Int
      BY <1>1, <1>3
    <3>2. Slack(n) \in Int /\ Slack(n - 1) \in Int
      BY <3>1, TicksAddUp
    <3> QED BY <1>5, <3>1, <3>2, TicksAddUp
  <2>2. /\ Ticks(r.totalPaused) <= Waited(front)
        /\ Waited(front) <= Ticks(r.totalPaused) + Slack(n - 1)
    <3>1. EndedPauses(r, ps) = n - 1
      BY DEF EndedPauses
    <3> QED BY <1>9, <3>1 DEF LedgerFits
  <2>3. Slack(n) = Slack(n - 1) + (TicksPerSecond - 1)
    <3>1. n - 1 \in Int /\ n = (n - 1) + 1
      BY <1>1
    <3> QED BY <3>1, TicksAddUp
  <2>4. at - ps[n].pausedAt \in Int
    BY <1>2 DEF Time
  <2>5. EndedPauses(s, qs) = n
    BY <1>5, <1>8 DEF EndedPauses
  <2>6. /\ Ticks(s.totalPaused) <= Waited(qs)
        /\ Waited(qs) <= Ticks(s.totalPaused) + Slack(n)
    <3>1. TicksPerSecond - 1 \in Int
      BY TicksPerSecondAssumption
    <3>2. /\ Ticks(r.totalPaused) + Ticks(d) <= Waited(front) + (at - ps[n].pausedAt)
          /\ Waited(front) + (at - ps[n].pausedAt)
               <= (Ticks(r.totalPaused) + Ticks(d)) + (Slack(n - 1) + (TicksPerSecond - 1))
      BY <1>3, <1>9, <2>1, <2>2, <2>4, <3>1, AddBounds
    <3> QED BY <1>9, <2>1, <2>3, <3>2
  <2> QED BY <2>5, <2>6
<1>12. ASSUME NEW k \in 1..n
       PROVE  /\ ~IsOpen(qs[k])
              /\ qs[k].pausedAt <= at /\ qs[k].resumedAt <= at
              /\ k > 1 => qs[k].pausedAt >= qs[k - 1].resumedAt
  <2>1. /\ qs[k].pausedAt = ps[k].pausedAt
        /\ k > 1 => k - 1 \in 1..(n - 1) /\ qs[k - 1].resumedAt = ps[k - 1].resumedAt
    BY <1>4, <1>8
  <2>2. ~IsOpen(qs[k]) /\ qs[k].resumedAt <= at
    <3>1. CASE k = n
      BY <1>4, <1>8, <3>1 DEF Time
    <3>2. CASE k # n
      BY <1>1, <1>8, <3>2 DEF LedgerFits
    <3> QED BY <3>1, <3>2
  <2> QED BY <1>1, <2>1, <2>2 DEF LedgerFits
<1>13. LedgerFits(s, qs, at)
  BY <1>5, <1>8, <1>10, <1>11, <1>12 DEF LedgerFits
<1> QED BY <1>13 DEF s, qs, q

\* Every move of a row with its pauses keeps the ledger.
LEMMA MoveKeepsLedger ==
  ASSUME NEW r \in Runtime, NEW ps \in Seq(PausePeriod), NEW at \in Time,
         LedgerFits(r, ps, at), NEW s, NEW qs, LedgerMove(r, ps, s, qs, at)
  PROVE  LedgerFits(s, qs, at)
<1>1. CASE s = r /\ qs = ps
  BY <1>1
<1>2. CASE r.status = "NONE" /\ qs = ps /\ \E target \in Nat \ {0} : s = StartRuntime(at, target)
  <2>1. s.totalPaused = 0 /\ s.status # "PAUSED" /\ qs = <<>>
    BY <1>2 DEF StartRuntime, NoRuntime, LedgerFits
  <2> QED BY <2>1, LedgerStarts
<1>3. CASE /\ r.status = "RUNNING" /\ qs = ps
           /\ s \in {CompleteRuntime(r, at), MarkNotApplicable(r, at)}
  <2>1. s.status \notin {"PAUSED", "NONE"} /\ s.totalPaused = r.totalPaused
    BY <1>3 DEF CompleteRuntime, MarkNotApplicable, Runtime
  <2>2. EndedPauses(s, qs) = EndedPauses(r, ps)
    BY <1>3, <2>1 DEF EndedPauses
  <2> QED BY <1>3, <2>1, <2>2 DEF LedgerFits
<1>4. CASE /\ r.status = "RUNNING" /\ s = PauseRuntime(r, at)
           /\ qs = Append(ps, [pausedAt |-> at, resumedAt |-> Never, duration |-> 0])
  BY <1>4, LedgerPauses
<1>5. ASSUME r.status = "PAUSED", NEW i \in DOMAIN ps, IsOpen(ps[i]),
             NEW d, d = PauseDuration(ps[i].pausedAt, at), s = ResumeRuntime(r, d),
             qs = [ps EXCEPT ![i] =
                    [pausedAt |-> ps[i].pausedAt, resumedAt |-> at, duration |-> d]]
      PROVE  LedgerFits(s, qs, at)
  BY <1>5, LedgerResumes
<1> QED BY <1>1, <1>2, <1>3, <1>4, <1>5 DEF LedgerMove

\* Time passes over a ledger.
LEMMA LedgerLater ==
  ASSUME NEW r, NEW ps \in Seq(PausePeriod), NEW at \in Time, LedgerFits(r, ps, at),
         NEW later \in Time, at <= later
  PROVE  LedgerFits(r, ps, later)
<1>1. ASSUME NEW i \in DOMAIN ps
      PROVE  ps[i].pausedAt <= later /\ ps[i].resumedAt <= later
  <2>1. ps[i].pausedAt \in Int /\ ps[i].resumedAt \in Int
    <3>1. ps[i] \in PausePeriod
      OBVIOUS
    <3> QED BY <3>1 DEF PausePeriod, TimeOrNever, Time, Never
  <2> QED BY <2>1 DEF LedgerFits, Time
<1> QED BY <1>1 DEF LedgerFits

-----------------------------------------------------------------------------
(***************************************************************************)
(* The rows of a ticket and their pauses only move together                *)
(***************************************************************************)
LedgersMove(t) ==
  \A c \in Cycles :
    LedgerMove(resolutionSla[t][c], pauses[t][c], resolutionSla'[t][c], pauses'[t][c], now)

\* Asking the requester opens a pause of the row that is paused.
LEMMA RequestMovesLedgers ==
  ASSUME TypeOK, NEW t \in Tickets, NEW u \in Users, RequestInfo(t, u)
  PROVE  LedgersMove(t)
<1>1. CASE UNCHANGED <<resolutionSla, pauses>>
  BY <1>1 DEF LedgersMove, LedgerMove
<1>2. ASSUME NEW c \in Cycles, resolutionSla[t][c].status = "RUNNING",
             resolutionSla' = [resolutionSla EXCEPT ![t][c] = PauseRuntime(@, now)],
             pauses' = [pauses EXCEPT ![t][c] =
               Append(@, [pausedAt |-> now, resumedAt |-> Never, duration |-> 0])]
      PROVE  LedgersMove(t)
  <2>1. /\ resolutionSla'[t][c] = PauseRuntime(resolutionSla[t][c], now)
        /\ pauses'[t][c] = Append(pauses[t][c],
                                  [pausedAt |-> now, resumedAt |-> Never, duration |-> 0])
    BY <1>2 DEF TypeOK
  <2>2. \A d \in Cycles : d # c => /\ resolutionSla'[t][d] = resolutionSla[t][d]
                                   /\ pauses'[t][d] = pauses[t][d]
    BY <1>2 DEF TypeOK
  <2> QED BY <1>2, <2>1, <2>2 DEF LedgersMove, LedgerMove
<1> QED BY <1>1, <1>2 DEF RequestInfo

\* The answer ends the open pause of the row that goes on.
LEMMA AnswerMovesLedgers ==
  ASSUME TypeOK, NEW t \in Tickets, NEW u \in Users, ProvideInfo(t, u)
  PROVE  LedgersMove(t)
<1>1. CASE UNCHANGED <<resolutionSla, pauses>>
  BY <1>1 DEF LedgersMove, LedgerMove
<1>2. ASSUME NEW c \in Cycles, NEW i \in DOMAIN pauses[t][c],
             resolutionSla[t][c].status = "PAUSED", IsLastOpenPause(t, c, i),
             pauses' = [pauses EXCEPT ![t][c][i] =
               [pausedAt |-> @.pausedAt, resumedAt |-> now,
                duration |-> PauseDuration(pauses[t][c][i].pausedAt, now)]],
             resolutionSla' = [resolutionSla EXCEPT ![t][c] =
               ResumeRuntime(@, PauseDuration(pauses[t][c][i].pausedAt, now))]
      PROVE  LedgersMove(t)
  <2> DEFINE d == PauseDuration(pauses[t][c][i].pausedAt, now)
  <2>1. resolutionSla'[t][c] = ResumeRuntime(resolutionSla[t][c], d)
    BY <1>2 DEF TypeOK
  <2>2. pauses'[t][c] = [pauses[t][c] EXCEPT ![i] =
          [pausedAt |-> pauses[t][c][i].pausedAt, resumedAt |-> now, duration |-> d]]
    BY <1>2 DEF TypeOK
  <2>3. \A e \in Cycles : e # c => /\ resolutionSla'[t][e] = resolutionSla[t][e]
                                   /\ pauses'[t][e] = pauses[t][e]
    BY <1>2 DEF TypeOK
  <2>4. IsOpen(pauses[t][c][i])
    BY <1>2 DEF IsLastOpenPause
  <2>5. LedgerMove(resolutionSla[t][c], pauses[t][c], resolutionSla'[t][c], pauses'[t][c], now)
    BY <1>2, <2>1, <2>2, <2>4 DEF LedgerMove
  <2> QED BY <2>3, <2>5 DEF LedgersMove, LedgerMove
<1> QED BY <1>1, <1>2 DEF ProvideInfo

\* Handlers that open, complete or void a row find it without an open pause.
LEMMA OthersMoveLedgers ==
  ASSUME TypeOK, NEW t \in Tickets, CoherentNow(t), ResponseNow(t), NEW u \in Users,
         Create(t, u) \/ Resolve(t, u) \/ Resume(t, u) \/ Reject(t, u)
  PROVE  LedgersMove(t)
<1>0. pauses' = pauses
  BY DEF Create, Resolve, Resume, Reject
<1>1. CASE Create(t, u)
  <2>1. \A c \in Cycles : resolutionSla[t][c].status = "NONE"
    BY <1>1, NoRowsYet DEF Create
  <2>2. ASSUME NEW c \in Cycles, resolutionSla'[t][c] # resolutionSla[t][c]
        PROVE  \E target \in Nat \ {0} : resolutionSla'[t][c] = StartRuntime(now, target)
    <3>1. PICK p \in Policies :
            resolutionSla' = [resolutionSla EXCEPT ![t][1] = StartRuntime(now, p.resolution)]
      BY <1>1, <2>2 DEF Create
    <3>2. p.resolution \in Nat \ {0}
      BY PoliciesAssumption DEF PolicyRow
    <3>3. resolutionSla'[t][c] = StartRuntime(now, p.resolution)
      BY <2>2, <3>1 DEF TypeOK
    <3> QED BY <3>2, <3>3
  <2> QED BY <1>0, <2>1, <2>2 DEF LedgersMove, LedgerMove
<1>2. CASE Resolve(t, u)
  <2>1. ASSUME NEW c \in Cycles
        PROVE  \/ resolutionSla'[t][c] = resolutionSla[t][c]
               \/ /\ resolutionSla[t][c].status = "RUNNING"
                  /\ resolutionSla'[t][c] = CompleteRuntime(resolutionSla[t][c], now)
    BY <1>2 DEF Resolve, TypeOK
  <2> QED BY <1>0, <2>1 DEF LedgersMove, LedgerMove
<1>3. CASE Resume(t, u)
  <2>1. PICK p \in Policies, c \in Cycles :
          /\ IsLatestCycle(t, c - 1)
          /\ resolutionSla' = [resolutionSla EXCEPT ![t][c] = StartRuntime(now, p.resolution)]
    BY <1>3 DEF Resume
  <2>2. resolutionSla[t][c].status = "NONE"
    <3>1. c > c - 1
      BY DEF Cycles
    <3> QED BY <2>1, <3>1 DEF IsLatestCycle, HasSla
  <2>3. p.resolution \in Nat \ {0}
    BY PoliciesAssumption DEF PolicyRow
  <2>4. /\ resolutionSla'[t][c] = StartRuntime(now, p.resolution)
        /\ \A d \in Cycles : d # c => resolutionSla'[t][d] = resolutionSla[t][d]
    BY <2>1 DEF TypeOK
  <2> QED BY <1>0, <2>2, <2>3, <2>4 DEF LedgersMove, LedgerMove
<1>4. CASE Reject(t, u)
  <2>1. ticket[t].status = "NEW"
    BY <1>4 DEF Reject, Move
  <2>2. ASSUME NEW c \in Cycles
        PROVE  \/ resolutionSla'[t][c] = resolutionSla[t][c]
               \/ /\ resolutionSla[t][c].status = "RUNNING"
                  /\ resolutionSla'[t][c] = MarkNotApplicable(resolutionSla[t][c], now)
    <3>1. resolutionSla[t][c].status # "PAUSED"
      BY <2>1 DEF CoherentNow, Coherent, Clocked
    <3> QED BY <1>4, <3>1 DEF Reject, TypeOK, IsLive
  <2> QED BY <1>0, <2>2 DEF LedgersMove, LedgerMove
<1> QED BY <1>1, <1>2, <1>3, <1>4

\* A step moves rows and pauses together, or time passes over them.
LEMMA StepMovesLedgers ==
  ASSUME TypeOK, CyclesCohere, ResponsesStopOnce, [Next]_vars, NEW t \in Tickets
  PROVE  /\ LedgersMove(t)
         /\ \/ now' = now
            \/ resolutionSla'[t] = resolutionSla[t] /\ pauses'[t] = pauses[t]
<1>0. CoherentNow(t) /\ ResponseNow(t)
  BY DEF CyclesCohere, ResponsesStopOnce, CoherentNow, ResponseNow
<1>1. ASSUME NEW u \in Users, UserStep(t, u)
      PROVE  LedgersMove(t) /\ now' = now
  <2>1. now' = now
    BY <1>1, HandlersStopNoClock
  <2>2. CASE \/ Create(t, u) \/ Resolve(t, u) \/ Resume(t, u) \/ Reject(t, u)
             \/ RequestInfo(t, u) \/ ProvideInfo(t, u)
    BY <1>0, <2>1, <2>2, RequestMovesLedgers, AnswerMovesLedgers, OthersMoveLedgers
  <2>3. CASE \/ \E p \in Users : Assign(t, u, p) \/ Reassign(t, u, p)
             \/ Start(t, u) \/ Close(t, u) \/ Reopen(t, u) \/ FirstReply(t, u)
    BY <2>1, <2>3 DEF Assign, Reassign, Start, Close, Reopen, FirstReply, slaVars,
                      LedgersMove, LedgerMove
  <2> QED BY <1>1, <2>2, <2>3 DEF UserStep
<1>2. CASE Untouched(t)
  BY <1>2 DEF Untouched, LedgersMove, LedgerMove
<1>3. CASE UNCHANGED <<slaVars, resolvedAt, now>>
  BY <1>3 DEF slaVars, LedgersMove, LedgerMove
<1> QED BY <1>1, <1>2, <1>3, StepOfTicket DEF Untouched

-----------------------------------------------------------------------------
\* The pauses of every cycle account for the time its row was stopped.
PausesFit ==
  \A t \in Tickets : \A c \in Cycles :
    LedgerFits(resolutionSla[t][c], pauses[t][c], now)

\* In every reachable state they do, to less than a second for each that ended.
THEOREM PausesStayFitting == Spec => []PausesFit
<1>1. Init => PausesFit
  <2> SUFFICES ASSUME Init, NEW t \in Tickets, NEW c \in Cycles
               PROVE  LedgerFits(NoRuntime, <<>>, now)
    BY DEF Init, PausesFit
  <2>1. now \in Time /\ NoRuntime.totalPaused = 0 /\ NoRuntime.status # "PAUSED"
    BY DEF Init, Time, NoRuntime
  <2> QED BY <2>1, LedgerStarts
<1>2. TypeOK /\ CyclesCohere /\ ResponsesStopOnce /\ PausesFit /\ TypeOK' /\ [Next]_vars
        => PausesFit'
  <2> SUFFICES ASSUME TypeOK, CyclesCohere, ResponsesStopOnce, PausesFit, TypeOK', [Next]_vars,
                      NEW t \in Tickets, NEW c \in Cycles
               PROVE  LedgerFits(resolutionSla'[t][c], pauses'[t][c], now')
    BY DEF PausesFit
  <2>1. /\ LedgerMove(resolutionSla[t][c], pauses[t][c],
                      resolutionSla'[t][c], pauses'[t][c], now)
        /\ \/ now' = now
           \/ /\ resolutionSla'[t][c] = resolutionSla[t][c]
              /\ pauses'[t][c] = pauses[t][c]
    BY StepMovesLedgers DEF LedgersMove
  <2>2. /\ now \in Time /\ now' \in Time /\ now <= now'
        /\ resolutionSla[t][c] \in Runtime
        /\ pauses[t][c] \in Seq(PausePeriod)
        /\ LedgerFits(resolutionSla[t][c], pauses[t][c], now)
    BY StepMovesRows DEF TypeOK, PausesFit
  <2>3. CASE now' = now
    BY <2>1, <2>2, <2>3, MoveKeepsLedger
  <2>4. CASE resolutionSla'[t][c] = resolutionSla[t][c] /\ pauses'[t][c] = pauses[t][c]
    BY <2>2, <2>4, LedgerLater
  <2> QED BY <2>1, <2>3, <2>4
<1> QED BY <1>1, <1>2, TypeCorrect, CyclesStayCoherent, ResponsesStayCoherent, PTL DEF Spec

\* total_paused_seconds is the sum of the recorded durations, and a row is PAUSED
\* exactly while the last of its pauses is open (request_info, provide_info).
THEOREM PausesAddUp == Spec => []PauseLedger
<1>1. PausesFit => PauseLedger
  BY DEF PausesFit, LedgerFits, PauseLedger
<1> QED BY <1>1, PausesStayFitting, PTL

\* A completed row is judged by the time worked, give or take what its pauses lost.
LEMMA VerdictOfLedger ==
  ASSUME NEW r \in Runtime, NEW ps \in Seq(PausePeriod), NEW at \in Time,
         SoundRow(r, at), LedgerFits(r, ps, at), r.result \in Verdicts
  PROVE  LET worked == r.completedAt - r.startedAt - Waited(ps)
             target == r.dueAt - r.startedAt
         IN  /\ r.result = "MET" => worked <= target
             /\ r.result = "BREACHED" => worked + Len(ps) * (TicksPerSecond - 1) > target
<1>1. /\ r.status = "COMPLETED"
      /\ r.completedAt \in Int /\ r.startedAt \in Int /\ r.dueAt \in Int
      /\ r.result = CalculateResult(r.completedAt, r.dueAt, r.totalPaused)
  BY DEF SoundRow, Counted, Time
<1>2. Waited(ps) \in Int
  BY WaitedType
<1>3. Ticks(r.totalPaused) \in Int /\ Slack(Len(ps)) \in Int
  BY TicksPerSecondAssumption DEF Runtime, Ticks, Slack
<1>4. /\ Ticks(r.totalPaused) <= Waited(ps)
      /\ Waited(ps) <= Ticks(r.totalPaused) + Slack(Len(ps))
  BY <1>1 DEF LedgerFits, EndedPauses
<1>5. r.result = IF r.completedAt <= r.dueAt + Ticks(r.totalPaused) THEN "MET" ELSE "BREACHED"
  BY <1>1 DEF CalculateResult, EffectiveDueAt
<1>6. CASE r.completedAt <= r.dueAt + Ticks(r.totalPaused)
  <2>1. r.completedAt - r.startedAt - Waited(ps) <= r.dueAt - r.startedAt
    BY <1>1, <1>2, <1>3, <1>4, <1>6
  <2> QED BY <1>5, <1>6, <2>1
<1>7. CASE ~(r.completedAt <= r.dueAt + Ticks(r.totalPaused))
  <2>1. (r.completedAt - r.startedAt - Waited(ps)) + Slack(Len(ps)) > r.dueAt - r.startedAt
    BY <1>1, <1>2, <1>3, <1>4, <1>7
  <2> QED BY <1>5, <1>7, <2>1 DEF Slack
<1> QED BY <1>6, <1>7

\* A cycle is MET only if the time worked is within the target, and BREACHED
\* wrongly by less than a second for each pause (calculate_result over the total
\* that truncated pauses add up to).
THEOREM VerdictsAreHonest == Spec => []VerdictIsHonest
<1>1. TypeOK /\ SlaRowsSound /\ PausesFit => VerdictIsHonest
  <2> SUFFICES ASSUME TypeOK, SlaRowsSound, PausesFit, NEW t \in Tickets, NEW c \in Cycles
               PROVE  LET r      == resolutionSla[t][c]
                          target == r.dueAt - r.startedAt
                      IN  /\ r.result = "MET" => Worked(t, c) <= target
                          /\ r.result = "BREACHED" =>
                               Worked(t, c) + Len(pauses[t][c]) * (TicksPerSecond - 1) > target
    BY DEF VerdictIsHonest
  <2>1. /\ resolutionSla[t][c] \in Runtime /\ pauses[t][c] \in Seq(PausePeriod)
        /\ now \in Time /\ SoundRow(resolutionSla[t][c], now)
        /\ LedgerFits(resolutionSla[t][c], pauses[t][c], now)
    BY RowsOfTicket DEF TypeOK, SlaRowsSound, PausesFit
  <2> QED BY <2>1, VerdictOfLedger DEF Worked, Verdicts
<1> QED BY <1>1, RowsStaySound, PausesStayFitting, TypeCorrect, PTL

=============================================================================
