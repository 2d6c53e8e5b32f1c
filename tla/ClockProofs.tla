----------------------------- MODULE ClockProofs -----------------------------
(***************************************************************************)
(* Proofs about the pacing loop of a region, for any period, pacing,       *)
(* oversleep and cost of a tick or an observer.                            *)
(*                                                                         *)
(* Typing and the schedule are proved of the loop and the heartbeat, then  *)
(* carried to their composition with the link, whose other steps leave     *)
(* them alone.  The schedule needs two facts that are not in it: how far   *)
(* past the deadline it is at a tick starts and how late the ticks before  *)
(* may have been at most (Paced), and that epoch and slot add up what the  *)
(* ticks were late and what was dropped (Accounted).  The heartbeats need  *)
(* what the span in between holds (Loaded) and held (Beaten).              *)
(*                                                                         *)
(* The sums over ticks are recursive functions: what they are is proved by *)
(* looking at the least index where it would fail.                         *)
(***************************************************************************)
EXTENDS Control, FiniteSetTheorems, WellFoundedInduction, TLAPS

TickType == [at : Nat, took : Nat, slot : Nat, late : Nat, viewers : Nat, dropped : Nat]

-----------------------------------------------------------------------------
(* Arithmetic.                                                             *)
LEMMA LeastElement ==
    ASSUME NEW S \in SUBSET Nat, S # {}
    PROVE  \E n \in S : \A m \in S : n <= m
<1>1. PICK n \in S : \A m \in S : ~ (<<m, n>> \in OpToRel(<, Nat))
  BY NatLessThanWellFounded, WFMin
<1>2. \A m \in S : ~ (m < n)
  BY <1>1 DEF OpToRel
<1>3. QED
  BY <1>2

LEMMA OneMore ==
    ASSUME NEW n \in Int, NEW p \in Int
    PROVE  (n + 1) * p = n * p + p /\ p * (n + 1) = p * n + p
  OBVIOUS

LEMMA Divides ==
    ASSUME NEW m \in Nat, NEW p \in Nat \ {0}
    PROVE  /\ m \div p \in Nat
           /\ p * (m \div p) <= m
           /\ m - p * (m \div p) <= p - 1
  OBVIOUS

LEMMA Distributes ==
    ASSUME NEW a \in Int, NEW b \in Int, NEW p \in Int
    PROVE  p * (a + b) = p * a + p * b
  OBVIOUS

LEMMA SlackFacts ==
    /\ Slack \in Nat
    /\ Slack >= Period - 1
    /\ \A o \in Oversleeps : o - SpinMargin <= Slack
<1> DEFINE most == CHOOSE s \in Oversleeps : \A o \in Oversleeps : o <= s
<1>1. most \in Oversleeps /\ \A o \in Oversleeps : o <= most
  BY ClockAssumption
<1>2. most \in Nat /\ Oversleeps \subseteq Nat /\ Period \in Nat \ {0}
  BY <1>1, ClockAssumption
<1>3. Slack = MaxOf(Period - 1, most - SpinMargin)
  BY DEF Slack
<1> HIDE DEF most
<1>4. QED
  BY <1>1, <1>2, <1>3 DEF MaxOf, SpinMargin

-----------------------------------------------------------------------------

LEMMA PeriodOn ==
    ASSUME NEW a \in Int, NEW x \in Int, NEW b \in Int, NEW p \in Int, NEW s \in Int
    PROVE  /\ \A c \in Int : x <= b + s /\ c >= b + p => x <= (c - p) + s
           /\ \A w \in Int : a + x <= (b - p) + s /\ w >= b
                  => a + (x + p) <= b + s /\ w - a >= (x + p) - s
  OBVIOUS

LEMMA Products == \A a, b \in Nat : a * b \in Nat
  OBVIOUS

(* What the first n of the ticks ts were late, and what was dropped before *)
(* them.                                                                   *)
Sum(ts, n) ==
    LET sum[i \in 0 .. n] ==
            IF i = 0 THEN [late |-> 0, dropped |-> 0]
            ELSE [late |-> sum[i - 1].late + ts[i].late,
                  dropped |-> sum[i - 1].dropped + ts[i].dropped]
    IN  sum

Adds(f, ts, n) ==
    f = [i \in 0 .. n |->
            IF i = 0 THEN [late |-> 0, dropped |-> 0]
            ELSE [late |-> f[i - 1].late + ts[i].late,
                  dropped |-> f[i - 1].dropped + ts[i].dropped]]

Alike(ts, us, n) == \A i \in 1 .. n : ts[i] = us[i]

Totals == [late : Nat, dropped : Nat]

LEMMA SumIs == \A ts, n : Sum(ts, n) = CHOOSE f : Adds(f, ts, n)
  BY DEF Sum, Adds

LEMMA SumExists ==
    ASSUME NEW ts \in Seq(TickType), NEW n \in 0 .. Len(ts)
    PROVE  \E f \in [0 .. n -> Totals] : Adds(f, ts, n)
<1> DEFINE Bad == {m \in 0 .. Len(ts) : ~ \E f \in [0 .. m -> Totals] : Adds(f, ts, m)}
<1>1. SUFFICES ASSUME Bad # {}
      PROVE  FALSE
  OBVIOUS
<1>0. Bad \in SUBSET Nat
  OBVIOUS
<1>2. PICK m \in Bad : \A k \in Bad : m <= k
  <2> HIDE DEF Bad
  <2> QED  BY <1>0, <1>1, LeastElement
<1>3. m \in 0 .. Len(ts) /\ ~ \E f \in [0 .. m -> Totals] : Adds(f, ts, m)
  OBVIOUS
<1>4. CASE m = 0
  <2> DEFINE f == [i \in 0 .. 0 |-> [late |-> 0, dropped |-> 0]]
  <2>1. f \in [0 .. 0 -> Totals]
    BY DEF Totals
  <2>2. Adds(f, ts, 0)
    BY DEF Adds
  <2>3. QED
    BY <1>3, <1>4, <2>1, <2>2
<1>5. CASE m # 0
  <2>1. m - 1 \in 0 .. Len(ts) /\ m \in 1 .. Len(ts) /\ m - 1 \notin Bad
    BY <1>2, <1>3, <1>5
  <2>2. PICK f \in [0 .. (m - 1) -> Totals] : Adds(f, ts, m - 1)
    BY <2>1
  <2>3. ts[m] \in TickType
    BY <2>1
  <2> DEFINE new == [late |-> f[m - 1].late + ts[m].late,
                     dropped |-> f[m - 1].dropped + ts[m].dropped]
             g == [i \in 0 .. m |-> IF i = m THEN new ELSE f[i]]
  <2>4. f[m - 1] \in Totals
    BY <2>1
  <2>5. new \in Totals
    <3>1. /\ f[m - 1].late \in Nat /\ f[m - 1].dropped \in Nat
          /\ ts[m].late \in Nat /\ ts[m].dropped \in Nat
      BY <2>3, <2>4 DEF Totals, TickType
    <3>2. \A a, b, c, d \in Nat : [late |-> a + b, dropped |-> c + d] \in Totals
      BY DEF Totals
    <3>3. QED
      BY <3>1, <3>2
  <2>6. g \in [0 .. m -> Totals]
    <3> HIDE DEF new
    <3>1. \A i \in 0 .. m : i # m => i \in 0 .. (m - 1)
      BY <2>1
    <3>2. QED
      BY <2>5, <3>1
  <2>7. \A i \in 0 .. (m - 1) : f[i] = IF i = 0 THEN [late |-> 0, dropped |-> 0]
            ELSE [late |-> f[i - 1].late + ts[i].late,
                  dropped |-> f[i - 1].dropped + ts[i].dropped]
    BY <2>2 DEF Adds
  <2>8. \A i \in 0 .. m : g[i] = IF i = 0 THEN [late |-> 0, dropped |-> 0]
            ELSE [late |-> g[i - 1].late + ts[i].late,
                  dropped |-> g[i - 1].dropped + ts[i].dropped]
    <3> SUFFICES ASSUME NEW i \in 0 .. m
                 PROVE  g[i] = IF i = 0 THEN [late |-> 0, dropped |-> 0]
                               ELSE [late |-> g[i - 1].late + ts[i].late,
                                     dropped |-> g[i - 1].dropped + ts[i].dropped]
      OBVIOUS
    <3>1. CASE i = m
      <4>1. g[m - 1] = f[m - 1]
        BY <2>1
      <4>2. QED
        BY <4>1, <3>1, <1>5
    <3>2. CASE i # m /\ i # 0
      <4>1. i \in 0 .. (m - 1) /\ i - 1 \in 0 .. m /\ i - 1 # m
        BY <2>1, <3>2
      <4>2. g[i] = f[i] /\ g[i - 1] = f[i - 1]
        <5> HIDE DEF new
        <5> QED  BY <4>1, <3>2
      <4> HIDE DEF g
      <4>3. QED
        BY <4>1, <4>2, <3>2, <2>7
    <3>3. CASE i = 0
      <4>1. 0 \in 0 .. (m - 1) /\ 0 \in 0 .. m /\ 0 # m
        BY <2>1, <1>5
      <4>2. g[0] = f[0]
        <5> HIDE DEF new
        <5> QED  BY <4>1
      <4> HIDE DEF g
      <4>3. QED
        BY <4>1, <4>2, <3>3, <2>7
    <3>4. QED
      BY <3>1, <3>2, <3>3
  <2> HIDE DEF g
  <2>9. Adds(g, ts, m)
    BY <2>6, <2>8 DEF Adds
  <2>10. QED
    BY <1>3, <2>6, <2>9
<1>6. QED
  BY <1>4, <1>5

(* What is added up is so in one way, whatever comes after.                *)
LEMMA SumUnique ==
    ASSUME NEW ts, NEW us, NEW n \in Nat, NEW m \in Nat, n <= m,
           Alike(ts, us, n),
           NEW f, NEW g, Adds(f, ts, n), Adds(g, us, m)
    PROVE  \A i \in 0 .. n : f[i] = g[i]
<1> DEFINE Bad == {i \in 0 .. n : f[i] # g[i]}
<1>1. SUFFICES ASSUME Bad # {}
      PROVE  FALSE
  OBVIOUS
<1>0. Bad \in SUBSET Nat
  OBVIOUS
<1>2. PICK i \in Bad : \A k \in Bad : i <= k
  <2> HIDE DEF Bad
  <2> QED  BY <1>0, <1>1, LeastElement
<1>3. \A k \in 0 .. n : f[k] = IF k = 0 THEN [late |-> 0, dropped |-> 0]
          ELSE [late |-> f[k - 1].late + ts[k].late,
                dropped |-> f[k - 1].dropped + ts[k].dropped]
  BY DEF Adds
<1>4. \A k \in 0 .. m : g[k] = IF k = 0 THEN [late |-> 0, dropped |-> 0]
          ELSE [late |-> g[k - 1].late + us[k].late,
                dropped |-> g[k - 1].dropped + us[k].dropped]
  BY DEF Adds
<1>5. i \in 0 .. n /\ i \in 0 .. m /\ f[i] # g[i]
  OBVIOUS
<1>6. i # 0
  <2>1. 0 \in 0 .. n /\ 0 \in 0 .. m
    OBVIOUS
  <2>2. f[0] = g[0]
    BY <2>1, <1>3, <1>4
  <2>3. QED
    BY <2>2, <1>5
<1>7. i \in 1 .. n /\ i - 1 \in 0 .. n /\ f[i - 1] = g[i - 1]
  BY <1>2, <1>5, <1>6
<1>8. ts[i] = us[i]
  BY <1>7 DEF Alike
<1>9. QED
  BY <1>3, <1>4, <1>5, <1>6, <1>7, <1>8

LEMMA SumFacts ==
    ASSUME NEW ts \in Seq(TickType), NEW n \in 0 .. Len(ts)
    PROVE  Adds(Sum(ts, n), ts, n) /\ Sum(ts, n) \in [0 .. n -> Totals]
<1>1. PICK f \in [0 .. n -> Totals] : Adds(f, ts, n)
  BY SumExists
<1>2. Adds(Sum(ts, n), ts, n)
  BY <1>1, SumIs
<1>3. \A i \in 0 .. n : Sum(ts, n)[i] = f[i]
  <2>1. Alike(ts, ts, n) /\ n \in Nat /\ n <= n
    BY DEF Alike
  <2>2. QED
    BY <1>1, <1>2, <2>1, SumUnique
<1>4. DOMAIN Sum(ts, n) = 0 .. n /\ Sum(ts, n) = [i \in 0 .. n |-> Sum(ts, n)[i]]
  BY <1>2 DEF Adds
<1>5. QED
  BY <1>1, <1>2, <1>3, <1>4

(* A tick more adds what it was late and what was dropped before it, and   *)
(* changes nothing of the sums of those before.                            *)
LEMMA SumNext ==
    ASSUME NEW ts \in Seq(TickType), NEW t \in TickType
    PROVE  /\ \A n \in 0 .. Len(ts) : Sum(Append(ts, t), n)[n] = Sum(ts, n)[n]
           /\ LET n == Len(ts)
                  s == Sum(Append(ts, t), n + 1)[n + 1]
              IN  /\ s.late = Sum(ts, n)[n].late + t.late
                  /\ s.dropped = Sum(ts, n)[n].dropped + t.dropped
<1> DEFINE us == Append(ts, t)
           k == Len(ts) + 1
<1>1. us \in Seq(TickType) /\ Len(us) = k /\ us[k] = t /\ \A i \in 1 .. Len(ts) : ts[i] = us[i]
  OBVIOUS
<1>2. k \in Nat /\ k - 1 = Len(ts) /\ k # 0
  OBVIOUS
<1> HIDE DEF us, k
<1>3. ASSUME NEW n \in 0 .. Len(ts), NEW m \in 0 .. k, n <= m
      PROVE  Sum(us, m)[n] = Sum(ts, n)[n]
  <2>1. Adds(Sum(us, m), us, m) /\ Adds(Sum(ts, n), ts, n)
    BY <1>1, SumFacts
  <2>2. Alike(ts, us, n)
    BY <1>1 DEF Alike
  <2>3. n \in Nat /\ m \in Nat
    BY <1>2
  <2>4. \A i \in 0 .. n : Sum(ts, n)[i] = Sum(us, m)[i]
    <3> DEFINE f == Sum(ts, n)
               g == Sum(us, m)
    <3>1. Adds(f, ts, n) /\ Adds(g, us, m) /\ n <= m
      BY <2>1, <1>3
    <3> HIDE DEF f, g
    <3>2. \A i \in 0 .. n : f[i] = g[i]
      BY <3>1, <2>2, <2>3, SumUnique
    <3>3. QED
      BY <3>2 DEF f, g
  <2>5. QED
    BY <2>4
<1>4. \A n \in 0 .. Len(ts) : n \in 0 .. k
  BY <1>2
<1>5. \A n \in 0 .. Len(ts) : Sum(us, n)[n] = Sum(ts, n)[n]
  BY <1>3, <1>4
<1>6. k \in 0 .. k /\ Len(ts) \in 0 .. Len(ts) /\ Len(ts) <= k
  BY <1>2
<1>7. Sum(us, k)[k - 1] = Sum(ts, Len(ts))[Len(ts)]
  BY <1>2, <1>3, <1>6
<1>8. Adds(Sum(us, k), us, k)
  BY <1>1, <1>6, SumFacts
<1>9. Sum(us, k)[k] = [late |-> Sum(us, k)[k - 1].late + us[k].late,
                       dropped |-> Sum(us, k)[k - 1].dropped + us[k].dropped]
  BY <1>8, <1>2, <1>6 DEF Adds
<1>10. QED
  BY <1>1, <1>5, <1>7, <1>9, <1>2 DEF us, k

LEMMA SumOfNone == Sum(<<>>, 0)[0] = [late |-> 0, dropped |-> 0]
<1>1. <<>> \in Seq(TickType) /\ 0 \in 0 .. Len(<<>>)
  OBVIOUS
<1>2. Adds(Sum(<<>>, 0), <<>>, 0)
  BY <1>1, SumFacts
<1>3. 0 \in 0 .. 0
  OBVIOUS
<1>4. QED
  BY <1>2, <1>3 DEF Adds

-----------------------------------------------------------------------------
(* Types.                                                                  *)
ClockStep == LoopNext \/ Wake

SummaryType == [ticks : Nat, late : Nat, dropped : Nat, worst_tick : Nat,
                worst_late : Nat, elapsed : Nat]

LoadType == [tick_count : Nat, viewers : Nat, mean_tick : Nat, worst_tick : Nat,
             late : Nat, dropped : Nat]

LEMMA MergeType ==
    ASSUME NEW s \in SpanType, NEW o \in SpanType
    PROVE  Merge(s, o) \in SpanType
<1>1. DOMAIN s = {"ticks", "viewers", "spent", "worst", "late", "dropped"}
  BY DEF SpanType
<1>2. /\ s.ticks + o.ticks \in Nat /\ s.viewers + o.viewers \in Nat
      /\ s.spent + o.spent \in Nat /\ MaxOf(s.worst, o.worst) \in Nat
      /\ s.late + o.late \in Nat /\ s.dropped + o.dropped \in Nat
  BY DEF SpanType, MaxOf
<1>3. Merge(s, o) = [ticks |-> s.ticks + o.ticks, viewers |-> s.viewers + o.viewers,
                     spent |-> s.spent + o.spent, worst |-> MaxOf(s.worst, o.worst),
                     late |-> s.late + o.late, dropped |-> s.dropped + o.dropped]
  BY <1>1 DEF Merge
<1>4. QED
  BY <1>2, <1>3 DEF SpanType

LEMMA EmptySpanType == EmptySpan \in SpanType
  BY DEF EmptySpan, SpanType

LEMMA OverType ==
    ASSUME NEW a \in Nat, NEW b \in Nat
    PROVE  Over(a, b) \in Nat
<1>1. CASE b = 0
  BY <1>1 DEF Over
<1>2. CASE b # 0
  BY <1>2, Divides DEF Over
<1>3. QED
  BY <1>1, <1>2

LEMMA WokenType ==
    ASSUME ClockTypeOK, NEW over \in Oversleeps, now < Deadline
    PROVE  /\ Deadline \in Nat
           /\ Woken(over) \in Nat
           /\ Scheduled => Woken(over) \in Deadline .. (Deadline + Slack)
<1>1. over \in Nat /\ Period \in Nat /\ now \in Nat /\ epoch \in Nat /\ slot \in Nat
  BY ClockAssumption DEF ClockTypeOK
<1>2. Deadline \in Nat
  BY <1>1 DEF Deadline
<1>3. over - SpinMargin <= Slack /\ Slack \in Nat
  BY SlackFacts
<1>4. CASE pacing.wait = "None"
  BY <1>1, <1>2, <1>4 DEF Woken, Scheduled
<1>5. CASE pacing.wait # "None"
  <2>1. \/ Woken(over) = MaxOf(Deadline, Deadline - SpinMargin + over)
        \/ Woken(over) = Deadline
    BY <1>5 DEF Woken
  <2>2. QED
    BY <2>1, <1>1, <1>2, <1>3 DEF MaxOf, SpinMargin
<1>6. QED
  BY <1>4, <1>5

LEMMA MissedType ==
    ASSUME ClockTypeOK, now >= Deadline
    PROVE  /\ Missed \in Nat /\ Skipped \in Nat /\ Dilated \in Nat /\ Deadline \in Nat
           /\ Scheduled => Missed = now - Deadline
           /\ ~Scheduled => Missed = 0
           /\ Missed - Period * Skipped >= 0
           /\ pacing.overrun = "Drop" => Missed - Period * Skipped <= Period - 1
           /\ pacing.overrun = "Dilate" => Skipped = 0 /\ Dilated = epoch + Missed
           /\ pacing.overrun = "Drop" => Dilated = epoch
           /\ pacing.overrun \in {"Dilate", "Drop"}
<1>1. Period \in Nat \ {0} /\ now \in Nat /\ epoch \in Nat /\ slot \in Nat /\ pacing \in Pacings
  BY ClockAssumption DEF ClockTypeOK
<1>2. Deadline \in Nat
  BY <1>1 DEF Deadline
<1>3. Missed \in Nat /\ (Scheduled => Missed = now - Deadline) /\ (~Scheduled => Missed = 0)
  BY <1>1, <1>2 DEF Missed, Scheduled
<1>4. pacing.overrun \in {"Dilate", "Drop"}
  BY <1>1, ClockAssumption
<1>5. /\ Skipped \in Nat
      /\ Missed - Period * Skipped >= 0
      /\ pacing.overrun = "Drop" => Missed - Period * Skipped <= Period - 1
  <2>1. CASE pacing.overrun = "Drop"
    <3>1. Skipped = Missed \div Period
      BY <2>1 DEF Skipped
    <3>2. /\ Missed \div Period \in Nat
          /\ Period * (Missed \div Period) <= Missed
          /\ Missed - Period * (Missed \div Period) <= Period - 1
      BY <1>1, <1>3, Divides
    <3>3. Period * Skipped \in Int
      BY <3>1, <3>2, <1>1
    <3>4. QED
      BY <3>1, <3>2, <3>3, <1>3
  <2>2. CASE pacing.overrun # "Drop"
    <3>1. Skipped = 0
      BY <2>2 DEF Skipped
    <3>2. QED
      BY <3>1, <2>2, <1>1, <1>3
  <2>3. QED
    BY <2>1, <2>2
<1>6. Dilated \in Nat
  BY <1>1, <1>3 DEF Dilated
<1>7. /\ pacing.overrun = "Dilate" => Skipped = 0 /\ Dilated = epoch + Missed
      /\ pacing.overrun = "Drop" => Dilated = epoch
  BY DEF Skipped, Dilated
<1>8. QED
  BY <1>2, <1>3, <1>4, <1>5, <1>6, <1>7

LEMMA ClockInitType == ClockInit => ClockTypeOK
<1>1. <<>> \in Seq(TickType) /\ <<>> \in Seq(LoadType)
  OBVIOUS
<1>2. QED
  BY <1>1, EmptySpanType DEF ClockInit, ClockTypeOK, TickType, LoadType, DefaultInterval

LEMMA ClockStepType ==
    ASSUME ClockTypeOK, [ClockStep]_clockVars
    PROVE  ClockTypeOK'
<1>0. /\ pacing \in Pacings /\ now \in Nat /\ epoch \in Nat /\ slot \in Nat /\ since \in Nat
      /\ phase \in {"schedule", "tick", "observe", "stopped"}
      /\ report \in [late : Nat, dropped : Nat] /\ summary \in SummaryType
      /\ ticks \in Seq(TickType) /\ span \in SpanType
      /\ load \in [tick_count : Nat, span : SpanType] /\ taken \in Seq(LoadType)
      /\ every \in Intervals \cup {DefaultInterval}
  BY DEF ClockTypeOK, SummaryType, TickType, LoadType
<1>1. SUFFICES
      /\ pacing' \in Pacings /\ now' \in Nat /\ epoch' \in Nat /\ slot' \in Nat /\ since' \in Nat
      /\ phase' \in {"schedule", "tick", "observe", "stopped"}
      /\ report' \in [late : Nat, dropped : Nat] /\ summary' \in SummaryType
      /\ ticks' \in Seq(TickType) /\ span' \in SpanType
      /\ load' \in [tick_count : Nat, span : SpanType] /\ taken' \in Seq(LoadType)
      /\ every' \in Intervals \cup {DefaultInterval}
  BY DEF ClockTypeOK, SummaryType, TickType, LoadType
<1>2. CASE RunOut
  <2>1. summary' \in SummaryType
    BY <1>0, <1>2 DEF RunOut, SummaryType
  <2>2. QED
    BY <1>0, <1>2, <2>1 DEF RunOut, beats
<1>3. ASSUME NEW over \in Oversleeps, AwaitDeadline(over)
      PROVE  UNCHANGED <<pacing, epoch, summary, ticks, span, load, beats>> /\ now' \in Nat /\ slot' \in Nat
             /\ report' \in [late : Nat, dropped : Nat] /\ phase' = "tick"
  <2>1. Woken(over) \in Nat
    BY <1>3, WokenType DEF AwaitDeadline
  <2>2. QED
    BY <1>0, <1>3, <2>1 DEF AwaitDeadline
<1>4. CASE \E over \in Oversleeps : AwaitDeadline(over)
  BY <1>0, <1>3, <1>4 DEF beats
<1>5. CASE MissDeadline
  <2>1. Missed \in Nat /\ Skipped \in Nat /\ Dilated \in Nat
    BY <1>5, MissedType DEF MissDeadline
  <2>2. summary' \in SummaryType
    <3>1. /\ summary.late + 1 \in Nat /\ MaxOf(summary.worst_late, Missed) \in Nat
          /\ summary.dropped + Skipped \in Nat
      BY <1>0, <2>1 DEF SummaryType, MaxOf
    <3>2. \/ summary' = summary
          \/ summary' = [summary EXCEPT !.late = summary.late + 1,
                                        !.worst_late = MaxOf(summary.worst_late, Missed),
                                        !.dropped = summary.dropped + Skipped]
      BY <1>5 DEF MissDeadline
    <3>3. QED
      BY <1>0, <3>1, <3>2 DEF SummaryType
  <2>3. QED
    BY <1>0, <1>5, <2>1, <2>2 DEF MissDeadline, beats
<1>6. ASSUME NEW took \in Costs, NEW seen \in Viewers, Tick(took, seen)
      PROVE  /\ UNCHANGED <<pacing, epoch, slot, report, load, beats>>
             /\ now' \in Nat /\ summary' \in SummaryType /\ span' \in SpanType
             /\ ticks' \in Seq(TickType) /\ phase' = "observe"
  <2>1. took \in Nat /\ seen \in Nat /\ report.late \in Nat /\ report.dropped \in Nat
    BY <1>0, ClockAssumption
  <2>2. summary' \in SummaryType
    <3>1. summary.ticks + 1 \in Nat /\ MaxOf(summary.worst_tick, took) \in Nat
      BY <1>0, <2>1 DEF SummaryType, MaxOf
    <3>2. summary' = [summary EXCEPT !.ticks = summary.ticks + 1,
                                    !.worst_tick = MaxOf(summary.worst_tick, took)]
      BY <1>6 DEF Tick
    <3>3. QED
      BY <1>0, <3>1, <3>2 DEF SummaryType
  <2>3. [ticks |-> 1, viewers |-> seen, spent |-> took, worst |-> took,
         late |-> IF report.late # 0 THEN 1 ELSE 0, dropped |-> report.dropped] \in SpanType
    BY <2>1 DEF SpanType
  <2>4. span' \in SpanType
    BY <1>0, <1>6, <2>3, MergeType DEF Tick, RecordTick
  <2>5. [at |-> now, took |-> took, slot |-> slot, late |-> report.late,
         viewers |-> seen, dropped |-> report.dropped] \in TickType
    BY <1>0, <2>1 DEF TickType
  <2>6. ticks' \in Seq(TickType)
    BY <1>0, <1>6, <2>5 DEF Tick
  <2>7. QED
    BY <1>0, <1>6, <2>1, <2>2, <2>4, <2>6 DEF Tick
<1>7. CASE \E took \in Costs, seen \in Viewers : Tick(took, seen)
  BY <1>0, <1>6, <1>7 DEF beats
<1>8. ASSUME NEW took \in Pauses, NEW stops \in BOOLEAN, Observe(took, stops)
      PROVE  /\ UNCHANGED <<pacing, epoch, slot, report, ticks, beats>>
             /\ now' \in Nat /\ summary' \in SummaryType /\ span' \in SpanType
             /\ load' \in [tick_count : Nat, span : SpanType] /\ phase' \in {"schedule", "stopped"}
  <2>1. took \in Nat
    BY ClockAssumption
  <2>2. now' \in Nat
    BY <1>0, <1>8, <2>1 DEF Observe
  <2>3. summary' \in SummaryType
    BY <1>0, <1>8, <2>2 DEF Observe, SummaryType
  <2>4. Merge(load.span, span) \in SpanType /\ Len(ticks) \in Nat
    BY <1>0, MergeType
  <2>5. QED
    BY <1>0, <1>8, <2>2, <2>3, <2>4, EmptySpanType DEF Observe
<1>9. CASE \E took \in Pauses, stops \in BOOLEAN : Observe(took, stops)
  BY <1>0, <1>8, <1>9 DEF beats
<1>10. CASE \E e \in Intervals : SetHeartbeatInterval(e)
  BY <1>0, <1>10 DEF SetHeartbeatInterval, schedule
<1>11. CASE Wake
  <2>1. UNCHANGED <<schedule, ticks, span, every>> /\ since' \in Nat
    BY <1>0, <1>11 DEF Wake
  <2>2. CASE UNCHANGED <<load, taken>>
    BY <1>0, <2>1, <2>2 DEF schedule
  <2>3. CASE TakeLoad
    <3> DEFINE s == load.span
               nanos(d) == IF d > MostNanos THEN MostNanos ELSE d
    <3>1. s \in SpanType /\ load.tick_count \in Nat
      BY <1>0
    <3> HIDE DEF s
    <3>2. /\ s.viewers \in Nat /\ s.ticks \in Nat /\ s.spent \in Nat /\ s.worst \in Nat
          /\ s.late \in Nat /\ s.dropped \in Nat
      BY <3>1 DEF SpanType
    <3>3. Over(s.viewers, s.ticks) \in Nat /\ Over(s.spent, s.ticks) \in Nat
      BY <3>2, OverType
    <3>4. \A d \in Nat : nanos(d) \in Nat
      BY ClockAssumption
    <3>5. RegionLoad =
              [tick_count |-> load.tick_count, viewers |-> Over(s.viewers, s.ticks),
               mean_tick |-> nanos(Over(s.spent, s.ticks)),
               worst_tick |-> nanos(s.worst), late |-> s.late, dropped |-> s.dropped]
      BY DEF RegionLoad, s
    <3> HIDE DEF nanos
    <3>6. RegionLoad \in LoadType
      BY <3>1, <3>2, <3>3, <3>4, <3>5 DEF LoadType
    <3>7. taken' \in Seq(LoadType) /\ load' \in [tick_count : Nat, span : SpanType]
      BY <1>0, <2>3, <3>6, EmptySpanType DEF TakeLoad
    <3>8. QED
      BY <1>0, <2>1, <3>7 DEF schedule
  <2>4. QED
    BY <1>11, <2>2, <2>3 DEF Wake
<1>12. CASE UNCHANGED clockVars
  BY <1>0, <1>12 DEF clockVars, schedule, beats
<1>13. QED
  BY <1>2, <1>4, <1>5, <1>7, <1>9, <1>10, <1>11, <1>12 DEF ClockStep, LoopNext

-----------------------------------------------------------------------------
(* The schedule.                                                           *)

(* The last deadline the schedule gave out.                                *)
Base == epoch + Period * slot

(* A tick starts at its deadline or within the slack, and each tick before *)
(* was at least as many periods before the last deadline, but for that.    *)
Paced ==
    Scheduled =>
        /\ phase = "tick" => now \in Base .. (Base + Slack)
        /\ \A i \in DOMAIN ticks :
               ticks[i].at + (Len(ticks) - i) * Period
                   <= (IF phase = "tick" THEN Base - Period ELSE Base) + Slack

(* What is known of the tick to come.                                      *)
Pending == IF phase = "tick" THEN report ELSE [late |-> 0, dropped |-> 0]

(* epoch has moved by what ticks were late, or not at all, and slot counts *)
(* ticks and dropped deadlines.                                            *)
Accounted ==
    LET s == Sum(ticks, Len(ticks))[Len(ticks)]
    IN  /\ slot = Len(ticks) + s.dropped + Pending.dropped
                      + (IF phase = "tick" THEN 1 ELSE 0)
        /\ epoch = IF pacing.overrun = "Dilate" THEN s.late + Pending.late ELSE 0
        /\ pacing.overrun = "Dilate" => s.dropped = 0 /\ Pending.dropped = 0
        /\ s.dropped + Pending.dropped <= summary.dropped

IInv == ClockTypeOK /\ Paced /\ NoBurst /\ Accounted /\ KeepsTime

(* KeepsTime, of the first n ticks.                                        *)
KeptAt(n) ==
    LET s == Sum(ticks, n)[n]
        due == Period * (n + s.dropped)
                   + IF pacing.overrun = "Dilate" THEN s.late ELSE 0
    IN  /\ pacing.overrun = "Dilate" => s.dropped = 0
        /\ Scheduled => ticks[n].at \in due .. (due + Slack)
        /\ summary.dropped >= s.dropped

LEMMA KeepsTimeIs == KeepsTime <=> \A n \in DOMAIN ticks : KeptAt(n)
  BY DEF KeepsTime, KeptAt, Sum

(* Steps that move no deadline and start no tick.                          *)
Rests ==
    /\ UNCHANGED <<pacing, epoch, slot, ticks>>
    /\ summary'.dropped = summary.dropped
    /\ \/ phase # "tick" /\ phase' # "tick"
       \/ UNCHANGED <<now, phase, report>>

(* Steps that give out a deadline.                                         *)
Schedules ==
    /\ phase = "schedule" /\ phase' = "tick" /\ UNCHANGED <<pacing, ticks>>
    /\ report'.late \in Nat /\ report'.dropped \in Nat
    /\ slot' = slot + 1 + report'.dropped
    /\ epoch' = IF pacing.overrun = "Dilate" THEN epoch + report'.late ELSE epoch
    /\ pacing.overrun = "Dilate" => report'.dropped = 0
    /\ summary.dropped \in Nat /\ summary'.dropped \in Nat
    /\ summary'.dropped >= summary.dropped + report'.dropped
    /\ Scheduled => now' \in Base' .. (Base' + Slack) /\ Base' >= Base + Period

LEMMA DeadlineIs ==
    ASSUME ClockTypeOK
    PROVE  Deadline = Base + Period /\ Base \in Nat /\ Deadline \in Nat
<1>1. Period \in Nat /\ epoch \in Nat /\ slot \in Nat
  BY ClockAssumption DEF ClockTypeOK
<1>2. Period * (slot + 1) = Period * slot + Period
  BY <1>1, OneMore
<1>3. Period * slot \in Nat
  BY <1>1
<1>4. QED
  BY <1>1, <1>2, <1>3 DEF Deadline, Base

LEMMA AwaitSchedules ==
    ASSUME ClockTypeOK, ClockTypeOK', NEW over \in Oversleeps, AwaitDeadline(over)
    PROVE  Schedules
<1>1. /\ phase = "schedule" /\ now < Deadline /\ phase' = "tick" /\ now' = Woken(over)
      /\ slot' = slot + 1 /\ report' = [late |-> 0, dropped |-> 0]
      /\ UNCHANGED <<pacing, epoch, summary, ticks>>
  BY DEF AwaitDeadline
<1>2. Period \in Nat /\ epoch \in Nat /\ slot \in Nat /\ summary.dropped \in Nat
  BY ClockAssumption DEF ClockTypeOK
<1>3. Base' = Deadline
  BY <1>1 DEF Base, Deadline
<1>4. Deadline = Base + Period /\ Base \in Nat
  BY DeadlineIs
<1>5. Scheduled => Woken(over) \in Deadline .. (Deadline + Slack)
  BY <1>1, WokenType
<1>6. Scheduled => now' \in Base' .. (Base' + Slack) /\ Base' >= Base + Period
  BY <1>1, <1>2, <1>3, <1>4, <1>5
<1>7. QED
  BY <1>1, <1>2, <1>6 DEF Schedules

LEMMA MissSchedules ==
    ASSUME ClockTypeOK, ClockTypeOK', MissDeadline
    PROVE  Schedules
<1>1. /\ phase = "schedule" /\ now >= Deadline /\ phase' = "tick" /\ now' = now
      /\ report' = [late |-> Missed, dropped |-> Skipped]
      /\ epoch' = Dilated /\ slot' = slot + 1 + Skipped
      /\ UNCHANGED <<pacing, ticks>>
  BY DEF MissDeadline
<1>2. Period \in Nat \ {0} /\ epoch \in Nat /\ slot \in Nat /\ summary.dropped \in Nat /\ now \in Nat
  BY ClockAssumption DEF ClockTypeOK
<1>3. /\ Missed \in Nat /\ Skipped \in Nat /\ Dilated \in Nat /\ Deadline \in Nat
      /\ Scheduled => Missed = now - Deadline
      /\ ~Scheduled => Missed = 0
      /\ Missed - Period * Skipped >= 0
      /\ pacing.overrun = "Drop" => Missed - Period * Skipped <= Period - 1
      /\ pacing.overrun = "Dilate" => Skipped = 0 /\ Dilated = epoch + Missed
      /\ pacing.overrun = "Drop" => Dilated = epoch
      /\ pacing.overrun \in {"Dilate", "Drop"}
  BY <1>1, MissedType
<1>4. Base' = Dilated + (Period * (slot + 1) + Period * Skipped)
  <2>1. Period * ((slot + 1) + Skipped) = Period * (slot + 1) + Period * Skipped
    BY <1>2, <1>3, Distributes
  <2>2. QED
    BY <2>1, <1>1 DEF Base
<1>5. Deadline = epoch + Period * (slot + 1) /\ Deadline = Base + Period /\ Base \in Nat
  BY DeadlineIs DEF Deadline
<1>6. Slack \in Nat /\ Slack >= Period - 1
  BY SlackFacts
<1>7. Period * (slot + 1) \in Nat /\ Period * Skipped \in Nat
  BY <1>2, <1>3
<1>8. Scheduled => now' \in Base' .. (Base' + Slack) /\ Base' >= Base + Period
  <2>0. SUFFICES ASSUME Scheduled
        PROVE  now' \in Base' .. (Base' + Slack) /\ Base' >= Base + Period
    OBVIOUS
  <2> DEFINE a == Period * (slot + 1)
             b == Period * Skipped
  <2>1. /\ a \in Nat /\ b \in Nat /\ Base' = Dilated + (a + b) /\ Deadline = epoch + a
        /\ Missed = now - Deadline /\ Missed - b >= 0
        /\ pacing.overrun = "Drop" => Missed - b <= Period - 1
    BY <1>3, <1>4, <1>5, <1>7, <2>0
  <2>2. CASE pacing.overrun = "Dilate"
    <3>1. b = 0
      BY <2>2, <1>3, <1>2
    <3> HIDE DEF a, b
    <3>2. Base' = now
      BY <3>1, <2>1, <2>2, <1>2, <1>3
    <3>3. QED
      BY <3>2, <1>1, <1>2, <1>5, <1>6
  <2>3. CASE pacing.overrun = "Drop"
    <3> HIDE DEF a, b
    <3>1. Base' = Deadline + b /\ now = Deadline + Missed
      BY <2>1, <2>3, <1>2, <1>3
    <3>2. QED
      BY <3>1, <2>1, <2>3, <1>1, <1>2, <1>3, <1>5, <1>6
  <2>4. QED
    BY <2>2, <2>3, <1>3
<1>9. summary'.dropped >= summary.dropped + Skipped /\ summary'.dropped \in Nat
  <2>1. CASE Scheduled
    <3>1. summary'.dropped = summary.dropped + Skipped
      BY <2>1 DEF MissDeadline, ClockTypeOK, Scheduled
    <3>2. QED
      BY <3>1, <1>2, <1>3
  <2>2. CASE ~Scheduled
    <3>1. Skipped = 0
      <4>1. Missed = 0
        BY <1>3, <2>2
      <4>2. 0 \div Period = 0
        BY <1>2
      <4>3. QED
        BY <4>1, <4>2 DEF Skipped
    <3>2. summary' = summary
      BY <2>2 DEF MissDeadline, Scheduled
    <3>3. QED
      BY <3>1, <3>2, <1>2
  <2>3. QED
    BY <2>1, <2>2
<1>10. QED
  BY <1>1, <1>2, <1>3, <1>8, <1>9 DEF Schedules

LEMMA WhatStepsDo ==
    ASSUME ClockTypeOK, ClockTypeOK', [ClockStep]_clockVars
    PROVE  \/ Rests
           \/ Schedules
           \/ \E took \in Costs, seen \in Viewers : Tick(took, seen)
<1>0. summary \in SummaryType
  BY DEF ClockTypeOK, SummaryType
<1>1. CASE RunOut
  <2>1. summary'.dropped = summary.dropped
    BY <1>0, <1>1 DEF RunOut, SummaryType
  <2>2. QED
    BY <1>1, <2>1 DEF RunOut, Rests
<1>2. CASE \E over \in Oversleeps : AwaitDeadline(over)
  BY <1>2, AwaitSchedules
<1>3. CASE MissDeadline
  BY <1>3, MissSchedules
<1>4. CASE \E took \in Costs, seen \in Viewers : Tick(took, seen)
  BY <1>4
<1>5. ASSUME NEW took \in Pauses, NEW stops \in BOOLEAN, Observe(took, stops)
      PROVE  Rests
  <2>1. summary'.dropped = summary.dropped
    BY <1>0, <1>5 DEF Observe, SummaryType
  <2>2. phase = "observe" /\ phase' \in {"stopped", "schedule"}
    BY <1>5 DEF Observe
  <2>3. QED
    BY <1>5, <2>1, <2>2 DEF Observe, Rests
<1>6. CASE \E e \in Intervals : SetHeartbeatInterval(e)
  BY <1>6 DEF SetHeartbeatInterval, schedule, Rests
<1>7. CASE Wake
  BY <1>7 DEF Wake, schedule, Rests
<1>8. CASE UNCHANGED clockVars
  BY <1>8 DEF clockVars, schedule, Rests
<1>9. QED
  BY <1>1, <1>2, <1>3, <1>4, <1>5, <1>6, <1>7, <1>8 DEF ClockStep, LoopNext

(* A tick, and what it records.                                            *)
LEMMA WhatTicksDo ==
    ASSUME ClockTypeOK, NEW took \in Costs, NEW seen \in Viewers, Tick(took, seen)
    PROVE  \E t \in TickType :
               /\ t.at = now /\ t.late = report.late /\ t.dropped = report.dropped
               /\ ticks' = Append(ticks, t)
               /\ phase = "tick" /\ phase' = "observe"
               /\ UNCHANGED <<pacing, epoch, slot, report>>
               /\ summary'.dropped = summary.dropped
<1> DEFINE t == [at |-> now, took |-> took, slot |-> slot, late |-> report.late,
                 viewers |-> seen, dropped |-> report.dropped]
<1>1. took \in Nat /\ seen \in Nat /\ report.late \in Nat /\ report.dropped \in Nat
      /\ now \in Nat /\ slot \in Nat /\ summary \in SummaryType
  BY ClockAssumption DEF ClockTypeOK, SummaryType
<1>2. t \in TickType
  BY <1>1 DEF TickType
<1>3. summary'.dropped = summary.dropped
  BY <1>1 DEF Tick, SummaryType
<1>4. ticks' = Append(ticks, t)
  BY DEF Tick
<1>5. t.at = now /\ t.late = report.late /\ t.dropped = report.dropped
  OBVIOUS
<1> HIDE DEF t
<1>6. QED
  BY <1>2, <1>3, <1>4, <1>5 DEF Tick

LEMMA Numbers ==
    ASSUME ClockTypeOK
    PROVE  /\ Period \in Nat \ {0} /\ epoch \in Nat /\ slot \in Nat /\ now \in Nat
           /\ report.late \in Nat /\ report.dropped \in Nat /\ summary.dropped \in Nat
           /\ Slack \in Nat /\ Base \in Nat
           /\ ticks \in Seq(TickType) /\ Len(ticks) \in Nat
           /\ \A i \in DOMAIN ticks : i \in 1 .. Len(ticks) /\ ticks[i].at \in Nat
<1>1. ticks \in Seq(TickType)
  BY DEF ClockTypeOK, TickType
<1>2. \A i \in DOMAIN ticks : i \in 1 .. Len(ticks) /\ ticks[i] \in TickType
  BY <1>1
<1>3. \A i \in DOMAIN ticks : i \in 1 .. Len(ticks) /\ ticks[i].at \in Nat
  BY <1>2 DEF TickType
<1>4. Slack \in Nat /\ Base \in Nat /\ Period \in Nat \ {0} /\ Len(ticks) \in Nat
  BY <1>1, SlackFacts, DeadlineIs, ClockAssumption
<1>5. /\ epoch \in Nat /\ slot \in Nat /\ now \in Nat
      /\ report.late \in Nat /\ report.dropped \in Nat /\ summary.dropped \in Nat
  BY DEF ClockTypeOK
<1>6. QED
  BY <1>1, <1>3, <1>4, <1>5

LEMMA PacedStep ==
    ASSUME ClockTypeOK, ClockTypeOK', [ClockStep]_clockVars, Paced, NoBurst
    PROVE  Paced' /\ NoBurst'
<1>0. /\ Period \in Nat \ {0} /\ epoch \in Nat /\ slot \in Nat /\ now \in Nat
      /\ Slack \in Nat /\ Base \in Nat /\ ticks \in Seq(TickType) /\ Len(ticks) \in Nat
      /\ \A i \in DOMAIN ticks : i \in 1 .. Len(ticks) /\ ticks[i].at \in Nat
  BY Numbers
<1>1. Slack' = Slack
  BY DEF Slack
<1>2. CASE Rests
  <2>1. Base' = Base /\ Scheduled' = Scheduled
    BY <1>2 DEF Rests, Base, Scheduled
  <2>2. NoBurst'
    BY <1>1, <1>2, <2>1 DEF Rests, NoBurst
  <2>3. Paced'
    BY <1>1, <1>2, <2>1 DEF Rests, Paced
  <2>4. QED
    BY <2>2, <2>3
<1>3. CASE Schedules
  <2>1. Scheduled' = Scheduled /\ ticks' = ticks /\ phase = "schedule" /\ phase' = "tick"
    BY <1>3 DEF Schedules, Scheduled
  <2>2. NoBurst'
    BY <1>1, <2>1 DEF NoBurst
  <2>3. Base' \in Nat
    <3>1. epoch' \in Nat /\ slot' \in Nat /\ Period \in Nat
      BY ClockAssumption DEF ClockTypeOK
    <3>2. Period * slot' \in Nat
      BY <3>1, Products
    <3>3. \A a, b \in Nat : a + b \in Nat
      OBVIOUS
    <3>4. epoch' + Period * slot' \in Nat
      BY <3>1, <3>2, <3>3, Zenon
    <3>5. QED
      BY <3>4, Zenon DEF Base
  <2>4. Paced'
    <3>0. SUFFICES ASSUME Scheduled
          PROVE  Paced'
      BY <2>1 DEF Paced
    <3>1. now' \in Base' .. (Base' + Slack) /\ Base' >= Base + Period
      BY <1>3, <3>0 DEF Schedules
    <3>2. ASSUME NEW i \in DOMAIN ticks
          PROVE  ticks[i].at + (Len(ticks) - i) * Period <= (Base' - Period) + Slack
      <4>1. ticks[i].at + (Len(ticks) - i) * Period <= Base + Slack
        BY <2>1, <3>0 DEF Paced
      <4>2. (Len(ticks) - i) * Period \in Int /\ ticks[i].at \in Nat
        BY <1>0
      <4> DEFINE x == ticks[i].at + (Len(ticks) - i) * Period
      <4>3. x \in Int /\ x <= Base + Slack
        BY <4>1, <4>2
      <4> HIDE DEF x
      <4>4. /\ x \in Int /\ Base \in Int /\ Period \in Int /\ Slack \in Int /\ Base' \in Int
            /\ x <= Base + Slack /\ Base' >= Base + Period
        BY <4>3, <3>1, <2>3, <1>0
      <4>5. x <= (Base' - Period) + Slack
        BY <4>4, PeriodOn
      <4>6. QED
        BY <4>5 DEF x
    <3>3. QED
      BY <3>1, <3>2, <2>1, <1>1 DEF Paced
  <2>5. QED
    BY <2>2, <2>4
<1>4. ASSUME NEW took \in Costs, NEW seen \in Viewers, Tick(took, seen)
      PROVE  Paced' /\ NoBurst'
  <2>1. PICK t \in TickType :
               /\ t.at = now
               /\ ticks' = Append(ticks, t)
               /\ phase = "tick" /\ phase' = "observe"
               /\ UNCHANGED <<pacing, epoch, slot>>
    BY <1>4, WhatTicksDo
  <2>2. Base' = Base /\ Scheduled' = Scheduled
    BY <2>1 DEF Base, Scheduled
  <2> DEFINE n == Len(ticks)
  <2>3. /\ Len(ticks') = n + 1 /\ n \in Nat /\ DOMAIN ticks' = 1 .. (n + 1) /\ DOMAIN ticks = 1 .. n
        /\ ticks'[n + 1].at = now
        /\ \A i \in 1 .. n : ticks'[i] = ticks[i]
    BY <1>0, <2>1
  <2> HIDE DEF n
  <2>4. SUFFICES ASSUME Scheduled
        PROVE  Paced' /\ NoBurst'
    BY <2>2 DEF Paced, NoBurst
  <2>5. now \in Base .. (Base + Slack)
    BY <2>1, <2>4 DEF Paced
  <2>6. ASSUME NEW i \in 1 .. n
        PROVE  /\ ticks'[i].at + (n + 1 - i) * Period <= Base + Slack
               /\ now - ticks'[i].at >= (n + 1 - i) * Period - Slack
    <3>1. ticks[i].at + (n - i) * Period <= (Base - Period) + Slack
      BY <2>1, <2>3, <2>4 DEF Paced, n
    <3>2. (n + 1 - i) * Period = (n - i) * Period + Period
      <4>1. n + 1 - i = (n - i) + 1 /\ n - i \in Int
        BY <2>3
      <4>2. QED
        BY <4>1, <1>0, OneMore
    <3>3. (n - i) * Period \in Int /\ ticks[i].at \in Nat /\ ticks'[i] = ticks[i]
      BY <1>0, <2>3
    <3> DEFINE x == (n - i) * Period
    <3>4. x \in Int /\ ticks[i].at + x <= (Base - Period) + Slack /\ (n + 1 - i) * Period = x + Period
      BY <3>1, <3>2, <3>3
    <3> HIDE DEF x
    <3>5. ticks[i].at + (x + Period) <= Base + Slack /\ now - ticks[i].at >= (x + Period) - Slack
      <4>1. ticks[i].at \in Int /\ Base \in Int /\ Period \in Int /\ Slack \in Int /\ now >= Base
        BY <3>3, <2>5, <1>0
      <4>2. QED
        BY SMTT(30), <4>1, <3>4, <1>0, PeriodOn
    <3>6. QED
      BY <3>3, <3>4, <3>5
  <2>7. Paced'
    <3>1. ASSUME NEW i \in DOMAIN ticks'
          PROVE  ticks'[i].at + (Len(ticks') - i) * Period <= Base + Slack
      <4>1. CASE i \in 1 .. n
        BY <2>3, <2>6, <4>1
      <4>2. CASE i = n + 1
        <5>1. (Len(ticks') - i) = 0 /\ ticks'[i].at = now
          BY <4>2, <2>3
        <5>2. 0 * Period = 0
          BY <1>0
        <5>3. QED
          BY <5>1, <5>2, <2>5, <1>0
      <4>3. QED
        BY <4>1, <4>2, <2>3
    <3>2. QED
      BY <3>1, <2>1, <2>2, <1>1 DEF Paced
  <2>8. NoBurst'
    <3>1. ASSUME NEW j \in DOMAIN ticks', NEW i \in 1 .. j
          PROVE  ticks'[j].at - ticks'[i].at >= (j - i) * Period - Slack
      <4>1. CASE j = n + 1 /\ i = n + 1
        <5>1. j - i = 0 /\ 0 * Period = 0 /\ ticks'[j].at - ticks'[i].at = 0
          BY <4>1, <2>3, <1>0
        <5>2. QED
          BY <5>1, <1>0
      <4>2. CASE j = n + 1 /\ i \in 1 .. n
        BY <4>2, <2>6, <2>3
      <4>3. CASE j \in 1 .. n
        <5>1. i \in 1 .. n /\ ticks'[i] = ticks[i] /\ ticks'[j] = ticks[j] /\ j \in DOMAIN ticks
          BY <4>3, <2>3
        <5>2. QED
          BY <5>1, <2>4 DEF NoBurst
      <4>4. QED
        BY <4>1, <4>2, <4>3, <2>3
    <3>2. QED
      BY <3>1, <1>1 DEF NoBurst
  <2>9. QED
    BY <2>7, <2>8
<1>5. QED
  BY <1>2, <1>3, <1>4, WhatStepsDo

LEMMA AccountedStep ==
    ASSUME ClockTypeOK, ClockTypeOK', [ClockStep]_clockVars, Paced, Accounted, KeepsTime
    PROVE  Accounted' /\ KeepsTime'
<1>0. /\ Period \in Nat \ {0} /\ epoch \in Nat /\ slot \in Nat /\ now \in Nat
      /\ report.late \in Nat /\ report.dropped \in Nat /\ summary.dropped \in Nat
      /\ Slack \in Nat /\ Base \in Nat /\ ticks \in Seq(TickType) /\ Len(ticks) \in Nat
  BY Numbers
<1> DEFINE n == Len(ticks)
           s == Sum(ticks, n)[n]
<1>1. Slack' = Slack
  BY DEF Slack
<1>2. n \in Nat /\ n \in 0 .. Len(ticks)
  BY <1>0
<1>3. s \in Totals
  BY <1>0, <1>2, SumFacts
<1>4. s.late \in Nat /\ s.dropped \in Nat
  BY <1>3 DEF Totals
<1>5. /\ slot = n + s.dropped + Pending.dropped + (IF phase = "tick" THEN 1 ELSE 0)
      /\ epoch = IF pacing.overrun = "Dilate" THEN s.late + Pending.late ELSE 0
      /\ pacing.overrun = "Dilate" => s.dropped = 0 /\ Pending.dropped = 0
      /\ s.dropped + Pending.dropped <= summary.dropped
  BY DEF Accounted
<1>6. ASSUME ticks' = ticks, UNCHANGED pacing, summary'.dropped \in Nat,
             summary'.dropped >= summary.dropped
      PROVE  KeepsTime'
  <2>1. ASSUME NEW m \in DOMAIN ticks'
        PROVE  KeptAt(m)'
    <3>1. KeptAt(m) /\ m \in 0 .. Len(ticks)
      BY <1>0, <1>6, KeepsTimeIs
    <3> DEFINE z == Sum(ticks, m)[m]
    <3>2. Sum(ticks, m)' = Sum(ticks, m)
      BY <1>6 DEF Sum
    <3>3. z \in Totals
      BY <3>1, <1>0, SumFacts
    <3>4. z.dropped \in Nat
      BY <3>3 DEF Totals
    <3> HIDE DEF z
    <3>5. summary'.dropped >= z.dropped
      BY <3>1, <3>4, <1>6, <1>0 DEF KeptAt, z
    <3>6. QED
      BY <3>1, <3>2, <3>5, <1>6, <1>1 DEF KeptAt, Scheduled, z
  <2>2. QED
    BY <2>1 DEF KeepsTime, KeptAt, Sum
<1>7. CASE Rests
  <2>1. KeepsTime'
    BY <1>0, <1>6, <1>7 DEF Rests
  <2>2. Pending' = Pending /\ (phase' = "tick" <=> phase = "tick")
    BY <1>7 DEF Rests, Pending
  <2>3. Sum(ticks, Len(ticks))' = Sum(ticks, Len(ticks))
    BY <1>7 DEF Rests, Sum
  <2>4. Accounted'
    BY <1>7, <2>2, <2>3 DEF Rests, Accounted
  <2>5. QED
    BY <2>1, <2>4
<1>8. CASE Schedules
  <2>1. KeepsTime'
    BY <1>0, <1>6, <1>8 DEF Schedules
  <2>2. /\ Pending = [late |-> 0, dropped |-> 0] /\ Pending' = report'
        /\ phase # "tick" /\ phase' = "tick"
    BY <1>8 DEF Schedules, Pending
  <2>3. Sum(ticks, Len(ticks))' = Sum(ticks, Len(ticks)) /\ ticks' = ticks /\ pacing' = pacing
    BY <1>8 DEF Schedules, Sum
  <2> HIDE DEF n, s
  <2>4. /\ slot' = n + s.dropped + report'.dropped + 1
        /\ epoch' = IF pacing.overrun = "Dilate" THEN s.late + report'.late ELSE 0
        /\ pacing.overrun = "Dilate" => s.dropped = 0 /\ report'.dropped = 0
        /\ s.dropped + report'.dropped <= summary'.dropped
    <3>1. /\ slot = n + s.dropped + 0 + 0
          /\ epoch = IF pacing.overrun = "Dilate" THEN s.late + 0 ELSE 0
          /\ pacing.overrun = "Dilate" => s.dropped = 0
          /\ s.dropped + 0 <= summary.dropped
      BY <1>5, <2>2
    <3>2. /\ report'.late \in Nat /\ report'.dropped \in Nat
          /\ slot' = slot + 1 + report'.dropped
          /\ epoch' = IF pacing.overrun = "Dilate" THEN epoch + report'.late ELSE epoch
          /\ pacing.overrun = "Dilate" => report'.dropped = 0
          /\ summary.dropped \in Nat /\ summary'.dropped \in Nat
          /\ summary'.dropped >= summary.dropped + report'.dropped
      BY <1>8 DEF Schedules
    <3>3. n \in Nat /\ s.late \in Nat /\ s.dropped \in Nat
      BY <1>2, <1>4
    <3>4. QED
      BY <3>1, <3>2, <3>3
  <2>5. Accounted'
    BY <2>2, <2>3, <2>4 DEF Accounted, n, s
  <2>6. QED
    BY <2>1, <2>5
<1>9. ASSUME NEW took \in Costs, NEW seen \in Viewers, Tick(took, seen)
      PROVE  Accounted' /\ KeepsTime'
  <2>1. PICK t \in TickType :
               /\ t.at = now /\ t.late = report.late /\ t.dropped = report.dropped
               /\ ticks' = Append(ticks, t)
               /\ phase = "tick" /\ phase' = "observe"
               /\ UNCHANGED <<pacing, epoch, slot, report>>
               /\ summary'.dropped = summary.dropped
    BY <1>9, WhatTicksDo
  <2>2. Pending = report /\ Pending' = [late |-> 0, dropped |-> 0]
    BY <2>1 DEF Pending
  <2>3. /\ Len(ticks') = n + 1 /\ DOMAIN ticks' = 1 .. (n + 1) /\ DOMAIN ticks = 1 .. n
        /\ ticks'[n + 1] = t /\ \A i \in 1 .. n : ticks'[i] = ticks[i]
    BY <1>0, <2>1
  <2> DEFINE z == Sum(ticks', n + 1)[n + 1]
  <2>4. /\ \A m \in 0 .. n : Sum(ticks', m)[m] = Sum(ticks, m)[m]
        /\ z.late = s.late + report.late /\ z.dropped = s.dropped + report.dropped
    BY <1>0, <2>1, SumNext
  <2>5. \A m : Sum(ticks, m)' = Sum(ticks', m)
    BY DEF Sum
  <2>6. (Sum(ticks, Len(ticks))[Len(ticks)])' = z
    BY <2>3, <2>5
  <2> HIDE DEF n, s, z
  <2>7. /\ slot' = n + 1 + z.dropped
        /\ epoch' = IF pacing.overrun = "Dilate" THEN z.late ELSE 0
        /\ pacing.overrun = "Dilate" => z.dropped = 0
        /\ z.dropped <= summary'.dropped /\ z.dropped \in Nat /\ z.late \in Nat
    <3>1. /\ slot = n + s.dropped + report.dropped + 1
          /\ epoch = IF pacing.overrun = "Dilate" THEN s.late + report.late ELSE 0
          /\ pacing.overrun = "Dilate" => s.dropped = 0 /\ report.dropped = 0
          /\ s.dropped + report.dropped <= summary.dropped
      BY <1>5, <2>1, <2>2
    <3>2. /\ z.late = s.late + report.late /\ z.dropped = s.dropped + report.dropped
          /\ n \in Nat /\ s.late \in Nat /\ s.dropped \in Nat
          /\ report.late \in Nat /\ report.dropped \in Nat
      BY <1>0, <1>2, <1>4, <2>4
    <3>3. slot' = slot /\ epoch' = epoch /\ summary'.dropped = summary.dropped
      BY <2>1
    <3>4. QED
      BY SMTT(30), <3>1, <3>2, <3>3
  <2>8. Accounted'
    <3>1. /\ Pending'.late = 0 /\ Pending'.dropped = 0 /\ phase' # "tick"
          /\ Len(ticks') = n + 1 /\ pacing' = pacing
      BY <2>1, <2>2, <2>3
    <3>2. n + 1 \in Nat /\ z.dropped \in Nat /\ z.late \in Nat
      BY <2>7, <1>2
    <3>3. \A a, b \in Nat : a + b + 0 + 0 = a + b /\ b + 0 = b
      OBVIOUS
    <3>4. /\ slot' = n + 1 + z.dropped + 0 + 0
          /\ z.dropped + 0 = z.dropped /\ z.late + 0 = z.late
      BY <3>2, <3>3, <2>7, Zenon
    <3>5. QED
      BY <3>1, <3>4, <2>6, <2>7, Zenon DEF Accounted
  <2>9. ASSUME NEW m \in DOMAIN ticks'
        PROVE  KeptAt(m)'
    <3>1. CASE m \in 1 .. n
      <4>1. KeptAt(m) /\ m \in 0 .. n
        BY <3>1, <2>3, KeepsTimeIs
      <4>2. Sum(ticks', m)[m] = Sum(ticks, m)[m] /\ ticks'[m] = ticks[m]
        BY <4>1, <3>1, <2>3, <2>4
      <4>3. QED
        BY <4>1, <4>2, <2>1, <2>5, <1>1 DEF KeptAt, Scheduled
    <3>2. CASE m = n + 1
      <4> DEFINE due == Period * (n + 1 + z.dropped) + IF pacing.overrun = "Dilate" THEN z.late ELSE 0
      <4>1. due = Base
        <5>1. Base = epoch + Period * slot /\ epoch' = epoch /\ slot' = slot
          BY <2>1 DEF Base
        <5>2. slot = n + 1 + z.dropped /\ epoch = IF pacing.overrun = "Dilate" THEN z.late ELSE 0
          BY <5>1, <2>7
        <5>3. Period * slot \in Nat
          BY <1>0
        <5>4. due = Period * slot + epoch
          BY <5>2
        <5> HIDE DEF due
        <5>5. QED
          BY <5>1, <5>3, <5>4, <1>0
      <4> HIDE DEF due
      <4>2. Scheduled => now \in due .. (due + Slack)
        BY <4>1, <2>1 DEF Paced
      <4>3. ticks'[m].at = now /\ Sum(ticks', m)[m] = z
        BY <3>2, <2>1, <2>3 DEF z
      <4>4. Scheduled' = Scheduled
        BY <2>1 DEF Scheduled
      <4>5. QED
        BY <4>2, <4>3, <4>4, <2>1, <2>5, <2>7, <3>2, <1>1, <1>0 DEF KeptAt, due
    <3>3. QED
      BY <3>1, <3>2, <2>3, <1>2
  <2>10. KeepsTime'
    BY <2>9 DEF KeepsTime, KeptAt, Sum
  <2>11. QED
    BY <2>8, <2>10
<1>10. QED
  BY <1>7, <1>8, <1>9, WhatStepsDo

-----------------------------------------------------------------------------
(* The load.  What ticks a + 1 to n add up to, of one of the fields.       *)
Part(ts, f, a, n) ==
    LET s[i \in 0 .. n] == IF i <= a THEN 0 ELSE s[i - 1] + ts[i][f]
    IN  s[n]

Parts(g, ts, f, a, n) ==
    g = [i \in 0 .. n |-> IF i <= a THEN 0 ELSE g[i - 1] + ts[i][f]]

Added == {"viewers", "took", "dropped"}

LEMMA PartIs == \A ts, f, a, n : Part(ts, f, a, n) = (CHOOSE g : Parts(g, ts, f, a, n))[n]
  BY DEF Part, Parts

LEMMA AddedType == \A t \in TickType, f \in Added : t[f] \in Nat
  BY DEF TickType, Added

LEMMA PartsExist ==
    ASSUME NEW ts \in Seq(TickType), NEW f \in Added, NEW a \in Nat, NEW n \in 0 .. Len(ts)
    PROVE  \E g \in [0 .. n -> Nat] : Parts(g, ts, f, a, n)
<1> DEFINE Bad == {m \in 0 .. Len(ts) : ~ \E g \in [0 .. m -> Nat] : Parts(g, ts, f, a, m)}
<1>1. SUFFICES ASSUME Bad # {}
      PROVE  FALSE
  OBVIOUS
<1>2. Bad \in SUBSET Nat
  OBVIOUS
<1>3. PICK m \in Bad : \A k \in Bad : m <= k
  <2> HIDE DEF Bad
  <2> QED  BY <1>1, <1>2, LeastElement
<1>4. m \in 0 .. Len(ts) /\ ~ \E g \in [0 .. m -> Nat] : Parts(g, ts, f, a, m)
  OBVIOUS
<1>5. CASE m = 0
  <2> DEFINE g == [i \in 0 .. 0 |-> 0]
  <2>1. g \in [0 .. 0 -> Nat]
    OBVIOUS
  <2>2. \A i \in 0 .. 0 : i <= a
    OBVIOUS
  <2>3. Parts(g, ts, f, a, 0)
    BY <2>2 DEF Parts
  <2>4. QED
    BY <1>4, <1>5, <2>1, <2>3
<1>6. CASE m # 0
  <2>0. m - 1 \in 0 .. Len(ts) /\ m \in 1 .. Len(ts) /\ ~(m <= m - 1)
    BY <1>4, <1>6
  <2>1. m - 1 \in 0 .. Len(ts) /\ m \in 1 .. Len(ts) /\ m - 1 \notin Bad
    <3> HIDE DEF Bad
    <3> QED  BY <2>0, <1>3
  <2>2. PICK g \in [0 .. (m - 1) -> Nat] : Parts(g, ts, f, a, m - 1)
    BY <2>1
  <2>3. ts[m][f] \in Nat /\ g[m - 1] \in Nat
    BY <2>1, AddedType
  <2> DEFINE new == IF m <= a THEN 0 ELSE g[m - 1] + ts[m][f]
             h == [i \in 0 .. m |-> IF i = m THEN new ELSE g[i]]
  <2>4. new \in Nat
    BY <2>3
  <2>5. h \in [0 .. m -> Nat]
    <3> HIDE DEF new
    <3>1. \A i \in 0 .. m : i # m => i \in 0 .. (m - 1)
      BY <2>1
    <3>2. QED
      BY <2>4, <3>1
  <2>6. \A i \in 0 .. (m - 1) : g[i] = IF i <= a THEN 0 ELSE g[i - 1] + ts[i][f]
    BY <2>2 DEF Parts
  <2>7. ASSUME NEW i \in 0 .. m
        PROVE  h[i] = IF i <= a THEN 0 ELSE h[i - 1] + ts[i][f]
    <3>1. CASE i = m
      <4>1. h[m - 1] = g[m - 1] /\ h[m] = new
        <5> HIDE DEF new
        <5>1. m - 1 \in 0 .. m /\ m - 1 # m /\ m \in 0 .. m
          BY <2>1
        <5>2. QED
          BY <5>1
      <4> HIDE DEF h
      <4>2. QED
        BY <4>1, <3>1
    <3>2. CASE i # m
      <4>1. i \in 0 .. (m - 1) /\ h[i] = g[i]
        <5> HIDE DEF new
        <5> QED  BY <2>1, <3>2
      <4>2. ~(i <= a) => h[i - 1] = g[i - 1]
        <5> HIDE DEF new
        <5>1. ~(i <= a) => i - 1 \in 0 .. m /\ i - 1 # m
          BY <4>1, <2>1
        <5>2. QED
          BY <5>1
      <4> HIDE DEF h
      <4>3. QED
        BY <4>1, <4>2, <2>6
    <3>3. QED
      BY <3>1, <3>2
  <2> HIDE DEF h
  <2>8. Parts(h, ts, f, a, m)
    BY <2>5, <2>7 DEF Parts
  <2>9. QED
    BY <1>4, <2>5, <2>8
<1>7. QED
  BY <1>5, <1>6

LEMMA PartsUnique ==
    ASSUME NEW ts, NEW us, NEW f, NEW a \in Nat, NEW n \in Nat, NEW m \in Nat, n <= m,
           Alike(ts, us, n),
           NEW g, NEW h, Parts(g, ts, f, a, n), Parts(h, us, f, a, m)
    PROVE  \A i \in 0 .. n : g[i] = h[i]
<1> DEFINE Bad == {i \in 0 .. n : g[i] # h[i]}
<1>1. SUFFICES ASSUME Bad # {}
      PROVE  FALSE
  OBVIOUS
<1>2. Bad \in SUBSET Nat
  OBVIOUS
<1>3. PICK i \in Bad : \A k \in Bad : i <= k
  <2> HIDE DEF Bad
  <2> QED  BY <1>1, <1>2, LeastElement
<1>4. i \in 0 .. n /\ i \in 0 .. m /\ g[i] # h[i]
  OBVIOUS
<1>5. g[i] = IF i <= a THEN 0 ELSE g[i - 1] + ts[i][f]
  BY <1>4 DEF Parts
<1>6. h[i] = IF i <= a THEN 0 ELSE h[i - 1] + us[i][f]
  BY <1>4 DEF Parts
<1>7. ~(i <= a)
  BY <1>4, <1>5, <1>6
<1>8. i \in 1 .. n /\ i - 1 \in 0 .. n /\ g[i - 1] = h[i - 1]
  BY <1>3, <1>4, <1>7
<1>9. ts[i] = us[i]
  BY <1>8 DEF Alike
<1>10. QED
  BY <1>4, <1>5, <1>6, <1>8, <1>9

LEMMA PartFacts ==
    ASSUME NEW ts \in Seq(TickType), NEW f \in Added, NEW a \in Nat, NEW n \in 0 .. Len(ts)
    PROVE  /\ Part(ts, f, a, n) \in Nat
           /\ n <= a => Part(ts, f, a, n) = 0
<1>1. PICK g \in [0 .. n -> Nat] : Parts(g, ts, f, a, n)
  BY PartsExist
<1> DEFINE p == CHOOSE h : Parts(h, ts, f, a, n)
<1>2. Parts(p, ts, f, a, n)
  BY <1>1
<1> HIDE DEF p
<1>3. n \in Nat /\ n <= n /\ n \in 0 .. n /\ Alike(ts, ts, n)
  BY DEF Alike
<1>4. \A h : Parts(h, ts, f, a, n) => h[n] = p[n]
  BY <1>2, <1>3, PartsUnique
<1>5. Part(ts, f, a, n) = p[n]
  BY PartIs DEF p
<1>6. g[n] \in Nat /\ (n <= a => g[n] = 0)
  BY <1>1, <1>3 DEF Parts
<1>7. QED
  BY <1>1, <1>4, <1>5, <1>6

LEMMA PartsLast ==
    ASSUME NEW ts, NEW f, NEW a \in Nat, NEW n \in Nat, NEW g, Parts(g, ts, f, a, n)
    PROVE  g[n] = Part(ts, f, a, n)
<1> DEFINE p == CHOOSE h : Parts(h, ts, f, a, n)
<1>1. Parts(p, ts, f, a, n)
  OBVIOUS
<1> HIDE DEF p
<1>2. n <= n /\ n \in 0 .. n /\ Alike(ts, ts, n)
  BY DEF Alike
<1>3. g[n] = p[n]
  BY <1>1, <1>2, PartsUnique
<1>4. QED
  BY <1>3, PartIs DEF p

(* One tick further, the sum is that much more.                            *)
LEMMA PartNext ==
    ASSUME NEW ts \in Seq(TickType), NEW f \in Added, NEW a \in Nat,
           NEW n \in 1 .. Len(ts), a < n
    PROVE  Part(ts, f, a, n) = Part(ts, f, a, n - 1) + ts[n][f]
<1>1. n \in 0 .. Len(ts) /\ n - 1 \in 0 .. Len(ts) /\ n \in Nat /\ n - 1 \in Nat /\ n - 1 <= n
      /\ n \in 0 .. n /\ n - 1 \in 0 .. (n - 1)
  OBVIOUS
<1>2. PICK g : Parts(g, ts, f, a, n)
  BY <1>1, PartsExist
<1>3. PICK h : Parts(h, ts, f, a, n - 1)
  BY <1>1, PartsExist
<1>9. PICK k \in Nat : k = n - 1
  BY <1>1
<1>4. Alike(ts, ts, k) /\ k \in Nat /\ k <= n /\ Parts(h, ts, f, a, k)
  BY <1>1, <1>3, <1>9 DEF Alike
<1>5. \A i \in 0 .. k : h[i] = g[i]
  <2>1. n \in Nat /\ Parts(g, ts, f, a, n)
    BY <1>1, <1>2
  <2>2. QED
    BY <2>1, <1>4, PartsUnique
<1>6. g[n] = Part(ts, f, a, n) /\ h[k] = Part(ts, f, a, k)
  BY <1>1, <1>2, <1>4, PartsLast
<1>7. g[n] = g[n - 1] + ts[n][f]
  BY <1>1, <1>2 DEF Parts
<1>8. QED
  BY <1>1, <1>5, <1>6, <1>7, <1>9

(* A tick that comes after changes nothing of it.                          *)
LEMMA PartKept ==
    ASSUME NEW ts \in Seq(TickType), NEW t \in TickType, NEW f \in Added, NEW a \in Nat,
           NEW n \in 0 .. Len(ts)
    PROVE  Part(Append(ts, t), f, a, n) = Part(ts, f, a, n)
<1> DEFINE us == Append(ts, t)
<1>1. us \in Seq(TickType) /\ n \in 0 .. Len(us) /\ \A i \in 1 .. n : ts[i] = us[i]
  OBVIOUS
<1> HIDE DEF us
<1>2. PICK g : Parts(g, ts, f, a, n)
  BY PartsExist
<1>3. PICK h : Parts(h, us, f, a, n)
  BY <1>1, PartsExist
<1>4. Alike(ts, us, n) /\ n \in Nat /\ n <= n /\ n \in 0 .. n
  BY <1>1 DEF Alike
<1>5. \A i \in 0 .. n : g[i] = h[i]
  BY <1>2, <1>3, <1>4, PartsUnique
<1>6. g[n] = Part(ts, f, a, n) /\ h[n] = Part(us, f, a, n)
  BY <1>2, <1>3, <1>4, PartsLast
<1>7. QED
  BY <1>4, <1>5, <1>6 DEF us

-----------------------------------------------------------------------------
(* What a span says of ticks a + 1 to n.                                   *)
LateOnes(ts, a, n) == {i \in (a + 1) .. n : ts[i].late > 0}

Covers(ts, s, a, n) ==
    /\ s.ticks = n - a
    /\ s.viewers = Part(ts, "viewers", a, n)
    /\ s.spent = Part(ts, "took", a, n)
    /\ s.dropped = Part(ts, "dropped", a, n)
    /\ s.late = Cardinality(LateOnes(ts, a, n))
    /\ \A i \in (a + 1) .. n : ts[i].took <= s.worst
    /\ a < n => \E i \in (a + 1) .. n : ts[i].took = s.worst
    /\ a = n => s.worst = 0
    /\ s.spent <= s.worst * s.ticks

Cap(d) == IF d > MostNanos THEN MostNanos ELSE d

LoadOf(n, s) ==
    [tick_count |-> n, viewers |-> Over(s.viewers, s.ticks),
     mean_tick |-> Cap(Over(s.spent, s.ticks)), worst_tick |-> Cap(s.worst),
     late |-> s.late, dropped |-> s.dropped]

OneTick(t) ==
    [ticks |-> 1, viewers |-> t.viewers, spent |-> t.took, worst |-> t.took,
     late |-> IF t.late # 0 THEN 1 ELSE 0, dropped |-> t.dropped]

(* The last tick the heartbeat before the b-th told of.                    *)
Since(told, b) == IF b = 1 THEN 0 ELSE told[b - 1].tick_count

(* The span of the load covers the ticks since the last heartbeat, up to   *)
(* the count beside it; a tick not settled yet is the loop's own span.     *)
Loaded ==
    /\ Since(taken, Len(taken) + 1) <= load.tick_count
    /\ Covers(ticks, load.span, Since(taken, Len(taken) + 1), load.tick_count)
    /\ IF phase = "observe"
       THEN Len(ticks) = load.tick_count + 1 /\ span = OneTick(ticks[Len(ticks)])
       ELSE Len(ticks) = load.tick_count /\ span = EmptySpan

(* And so did the span of each heartbeat when it was taken.                *)
BeatIs(ts, l, from) ==
    /\ from \in Nat /\ from <= l.tick_count /\ l.tick_count <= Len(ts)
    /\ \E s \in SpanType : Covers(ts, s, from, l.tick_count) /\ l = LoadOf(l.tick_count, s)

Beaten == \A b \in DOMAIN taken : BeatIs(ticks, taken[b], Since(taken, b))

BInv == ClockTypeOK /\ Loaded /\ Beaten

LEMMA LateOnesFinite ==
    ASSUME NEW ts, NEW a \in Nat, NEW n \in Nat
    PROVE  IsFiniteSet(LateOnes(ts, a, n)) /\ Cardinality(LateOnes(ts, a, n)) \in Nat
<1>1. IsFiniteSet((a + 1) .. n)
  BY FS_Interval
<1>2. LateOnes(ts, a, n) \subseteq (a + 1) .. n
  BY DEF LateOnes
<1>3. IsFiniteSet(LateOnes(ts, a, n))
  BY <1>1, <1>2, FS_Subset
<1>4. QED
  BY <1>3, FS_CardinalityType

LEMMA IntervalSize ==
    ASSUME NEW a \in Nat, NEW n \in Nat, a <= n
    PROVE  Cardinality((a + 1) .. n) = n - a
<1>1. a + 1 \in Int /\ n \in Int
  OBVIOUS
<1>2. Cardinality((a + 1) .. n) = IF a + 1 > n THEN 0 ELSE n - (a + 1) + 1
  BY <1>1, FS_Interval
<1>3. QED
  BY <1>2

(* A tick that comes after changes nothing of what is said of those before.*)
LEMMA CoversKept ==
    ASSUME NEW ts \in Seq(TickType), NEW t \in TickType, NEW a \in Nat,
           NEW n \in 0 .. Len(ts), NEW s, Covers(ts, s, a, n)
    PROVE  Covers(Append(ts, t), s, a, n)
<1>1. \A f \in Added : Part(Append(ts, t), f, a, n) = Part(ts, f, a, n)
  BY PartKept
<1>2. \A i \in (a + 1) .. n : Append(ts, t)[i] = ts[i]
  OBVIOUS
<1>3. LateOnes(Append(ts, t), a, n) = LateOnes(ts, a, n)
  BY <1>2 DEF LateOnes
<1>4. "viewers" \in Added /\ "took" \in Added /\ "dropped" \in Added
  BY DEF Added
<1> DEFINE us == Append(ts, t)
<1> HIDE DEF us
<1>5. /\ Part(us, "viewers", a, n) = Part(ts, "viewers", a, n)
      /\ Part(us, "took", a, n) = Part(ts, "took", a, n)
      /\ Part(us, "dropped", a, n) = Part(ts, "dropped", a, n)
      /\ LateOnes(us, a, n) = LateOnes(ts, a, n)
      /\ \A i \in (a + 1) .. n : us[i] = ts[i]
  BY <1>1, <1>2, <1>3, <1>4 DEF us
<1>6. Covers(us, s, a, n)
  BY <1>5 DEF Covers
<1>7. QED
  BY <1>6 DEF us

LEMMA CoversNone ==
    ASSUME NEW ts \in Seq(TickType), NEW n \in 0 .. Len(ts)
    PROVE  Covers(ts, EmptySpan, n, n)
<1>1. n \in Nat /\ "viewers" \in Added /\ "took" \in Added /\ "dropped" \in Added
  BY DEF Added
<1>2. /\ Part(ts, "viewers", n, n) = 0 /\ Part(ts, "took", n, n) = 0
      /\ Part(ts, "dropped", n, n) = 0
  BY <1>1, PartFacts
<1>3. (n + 1) .. n = {}
  BY <1>1
<1>4. LateOnes(ts, n, n) = {} /\ Cardinality({}) = 0
  BY <1>3, FS_EmptySet DEF LateOnes
<1>5. n - n = 0 /\ ~(n < n) /\ 0 * 0 = 0
  BY <1>1
<1>6. QED
  BY <1>2, <1>3, <1>4, <1>5 DEF Covers, EmptySpan

LEMMA MergeIs ==
    ASSUME NEW s \in SpanType, NEW o
    PROVE  Merge(s, o) = [ticks |-> s.ticks + o.ticks, viewers |-> s.viewers + o.viewers,
                          spent |-> s.spent + o.spent, worst |-> MaxOf(s.worst, o.worst),
                          late |-> s.late + o.late, dropped |-> s.dropped + o.dropped]
<1>1. DOMAIN s = {"ticks", "viewers", "spent", "worst", "late", "dropped"}
  BY DEF SpanType
<1>2. QED
  BY <1>1 DEF Merge

LEMMA Worst ==
    ASSUME NEW s \in Nat, NEW w \in Nat, NEW n \in Nat, NEW t \in Nat, s <= w * n
    PROVE  s + t <= MaxOf(w, t) * (n + 1)
<1> DEFINE m == MaxOf(w, t)
<1>1. m \in Nat /\ w <= m /\ t <= m
  BY DEF MaxOf
<1> HIDE DEF m
<1>2. w * n <= m * n /\ w * n \in Nat /\ m * n \in Nat
  <2>1. PICK d \in Nat : m = w + d
    <3>1. m - w \in Nat /\ m = w + (m - w)
      BY <1>1
    <3>2. QED
      BY <3>1
  <2>2. n * (w + d) = n * w + n * d
    BY Distributes
  <2>3. n * d \in Nat /\ n * w \in Nat /\ m * n = n * (w + d) /\ w * n = n * w
    BY <2>1, Products
  <2>4. QED
    BY <2>2, <2>3
<1>3. m * (n + 1) = m * n + m
  BY <1>1, OneMore
<1>4. s + t <= m * n + m
  BY <1>1, <1>2
<1>5. QED
  BY <1>3, <1>4 DEF m

LEMMA MeanBelowWorst ==
    ASSUME NEW s \in Nat, NEW w \in Nat, NEW n \in Nat, s <= w * n
    PROVE  Over(s, n) <= w
<1>1. CASE n = 0
  BY <1>1 DEF Over
<1>2. CASE n # 0
  <2> DEFINE q == s \div n
  <2>1. q \in Nat /\ n * q <= s
    BY <1>2, Divides
  <2> HIDE DEF q
  <2>2. SUFFICES ASSUME q > w
        PROVE  FALSE
    BY <1>2, <2>1 DEF Over, q
  <2>3. PICK d \in Nat : q = w + (1 + d)
    <3>1. q - w - 1 \in Nat /\ q = w + (1 + (q - w - 1))
      BY <2>1, <2>2
    <3>2. QED
      BY <3>1
  <2>4. n * (w + (1 + d)) = n * w + n * (1 + d) /\ n * (1 + d) = n * 1 + n * d
    BY Distributes
  <2>5. n * d \in Nat /\ n * w \in Nat /\ n * 1 = n /\ w * n = n * w
    BY Products
  <2>6. n * q = n * w + (n + n * d)
    BY <2>3, <2>4, <2>5
  <2>7. QED
    BY <1>2, <2>1, <2>5, <2>6
<1>3. QED
  BY <1>1, <1>2

(* The larger of two is at least each of them.                             *)
LEMMA MaxOfBounds ==
    ASSUME NEW a \in Nat, NEW b \in Nat
    PROVE  MaxOf(a, b) \in Nat /\ a <= MaxOf(a, b) /\ b <= MaxOf(a, b)
BY DEF MaxOf

(* The span of what came before, and of one tick more, is of all of them.  *)
LEMMA CoversNext ==
    ASSUME NEW ts \in Seq(TickType), NEW a \in Nat, NEW n \in Nat, a <= n,
           Len(ts) = n + 1, NEW s \in SpanType, Covers(ts, s, a, n)
    PROVE  Covers(ts, Merge(s, OneTick(ts[n + 1])), a, n + 1)
<1> DEFINE t == ts[n + 1]
<1>0. t \in TickType
  OBVIOUS
<1> HIDE DEF t
<1>1. /\ t.viewers \in Nat /\ t.took \in Nat /\ t.dropped \in Nat /\ t.late \in Nat
      /\ s.ticks \in Nat /\ s.viewers \in Nat /\ s.spent \in Nat /\ s.worst \in Nat
      /\ s.late \in Nat /\ s.dropped \in Nat
  BY <1>0 DEF TickType, SpanType
<1> DEFINE late == IF t.late # 0 THEN 1 ELSE 0
           m == [ticks |-> s.ticks + 1, viewers |-> s.viewers + t.viewers,
                 spent |-> s.spent + t.took, worst |-> MaxOf(s.worst, t.took),
                 late |-> s.late + late, dropped |-> s.dropped + t.dropped]
<1>2. Merge(s, OneTick(t)) = m
  BY MergeIs DEF OneTick
<1>3. ASSUME NEW f \in Added
      PROVE  Part(ts, f, a, n + 1) = Part(ts, f, a, n) + t[f]
  <2>1. n + 1 \in 1 .. Len(ts) /\ a < n + 1 /\ (n + 1) - 1 = n
    OBVIOUS
  <2>2. QED
    BY <2>1, PartNext DEF t
<1>4. "viewers" \in Added /\ "took" \in Added /\ "dropped" \in Added
  BY DEF Added
<1>5. Cardinality(LateOnes(ts, a, n + 1)) = Cardinality(LateOnes(ts, a, n)) + late
  <2>1. CASE t.late # 0
    <3>1. LateOnes(ts, a, n + 1) = LateOnes(ts, a, n) \cup {n + 1}
      <4>1. \A i : i \in (a + 1) .. (n + 1) <=> i \in (a + 1) .. n \/ i = n + 1
        OBVIOUS
      <4>2. t.late > 0 /\ ts[n + 1] = t
        BY <2>1, <1>1 DEF t
      <4>3. QED
        BY <4>1, <4>2 DEF LateOnes
    <3>2. n + 1 \notin LateOnes(ts, a, n)
      BY DEF LateOnes
    <3>3. QED
      BY <2>1, <3>1, <3>2, LateOnesFinite, FS_AddElement
  <2>2. CASE t.late = 0
    <3>1. LateOnes(ts, a, n + 1) = LateOnes(ts, a, n)
      <4>1. \A i : i \in (a + 1) .. (n + 1) <=> i \in (a + 1) .. n \/ i = n + 1
        OBVIOUS
      <4>2. ~(t.late > 0) /\ ts[n + 1] = t
        BY <2>2 DEF t
      <4>3. QED
        BY <4>1, <4>2 DEF LateOnes
    <3>2. Cardinality(LateOnes(ts, a, n)) \in Nat
      BY LateOnesFinite
    <3>3. QED
      BY <2>2, <3>1, <3>2
  <2>3. QED
    BY <2>1, <2>2
<1>6. \A i \in (a + 1) .. n : ts[i].took <= s.worst
  BY DEF Covers
<1>7. \A i \in (a + 1) .. (n + 1) : ts[i].took <= MaxOf(s.worst, t.took)
  <2>1. ASSUME NEW i \in (a + 1) .. (n + 1)
        PROVE  ts[i].took <= MaxOf(s.worst, t.took)
    <3>1. i \in 1 .. Len(ts)
      OBVIOUS
    <3>2. ts[i] \in TickType
      BY <3>1
    <3>3. ts[i].took \in Nat
      BY <3>2 DEF TickType
    <3>4. CASE i = n + 1
      BY <3>4, <3>3, <1>1 DEF MaxOf, t
    <3>5. CASE i # n + 1
      <4>1. i \in (a + 1) .. n
        BY <3>5
      <4>2. ts[i].took <= s.worst
        BY <4>1, <1>6
      <4>3. s.worst \in Nat /\ MaxOf(s.worst, t.took) \in Nat
            /\ s.worst <= MaxOf(s.worst, t.took)
        BY <1>1, MaxOfBounds
      <4>4. QED
        BY <4>2, <4>3, <3>3
    <3>6. QED
      BY <3>4, <3>5
  <2>2. QED
    BY <2>1
<1>8. \E i \in (a + 1) .. (n + 1) : ts[i].took = MaxOf(s.worst, t.took)
  <2>1. n + 1 \in (a + 1) .. (n + 1) /\ ts[n + 1].took = t.took
    BY DEF t
  <2>2. CASE MaxOf(s.worst, t.took) = t.took
    BY <2>1, <2>2
  <2>3. CASE MaxOf(s.worst, t.took) # t.took /\ a < n
    <3>1. MaxOf(s.worst, t.took) = s.worst
      BY <2>3 DEF MaxOf
    <3>2. PICK i \in (a + 1) .. n : ts[i].took = s.worst
      BY <2>3 DEF Covers
    <3>3. i \in (a + 1) .. (n + 1)
      OBVIOUS
    <3>4. QED
      BY <3>1, <3>2, <3>3
  <2>4. CASE MaxOf(s.worst, t.took) # t.took /\ a = n
    <3>1. s.worst = 0
      BY <2>4 DEF Covers
    <3>2. MaxOf(s.worst, t.took) = t.took
      BY <3>1, <1>1 DEF MaxOf
    <3>3. QED
      BY <2>4, <3>2
  <2>5. QED
    BY <2>2, <2>3, <2>4
<1>10. s.spent + t.took <= MaxOf(s.worst, t.took) * (s.ticks + 1)
  BY <1>1, Worst DEF Covers
<1>11. s.ticks + 1 = n + 1 - a
  BY DEF Covers
<1>12. QED
  BY <1>2, <1>3, <1>4, <1>5, <1>7, <1>8, <1>10, <1>11 DEF Covers, t

LEMMA BeatNumbers ==
    ASSUME BInv
    PROVE  /\ ticks \in Seq(TickType) /\ Len(ticks) \in Nat /\ load.tick_count \in Nat
           /\ load.span \in SpanType /\ taken \in Seq(LoadType) /\ Len(taken) \in Nat
           /\ \A b \in DOMAIN taken : taken[b].tick_count \in Nat
           /\ Since(taken, Len(taken) + 1) \in Nat
<1>1. /\ ticks \in Seq(TickType) /\ load.tick_count \in Nat
      /\ load.span \in SpanType /\ taken \in Seq(LoadType)
  BY DEF BInv, ClockTypeOK, TickType, LoadType
<1>2. Len(ticks) \in Nat /\ Len(taken) \in Nat
  BY <1>1
<1>3. \A b \in DOMAIN taken : taken[b] \in LoadType
  BY <1>1
<1>4. \A b \in DOMAIN taken : taken[b].tick_count \in Nat
  BY <1>3 DEF LoadType
<1>5. Since(taken, Len(taken) + 1) \in Nat
  <2>1. CASE Len(taken) = 0
    BY <2>1 DEF Since
  <2>2. CASE Len(taken) # 0
    <3>1. Len(taken) \in DOMAIN taken /\ (Len(taken) + 1) - 1 = Len(taken) /\ Len(taken) + 1 # 1
      BY <1>1, <1>2, <2>2
    <3>2. QED
      BY <3>1, <1>4 DEF Since
  <2>3. QED
    BY <2>1, <2>2
<1>6. QED
  BY <1>1, <1>2, <1>4, <1>5

LEMMA BeatKept ==
    ASSUME NEW ts \in Seq(TickType), NEW t \in TickType, NEW l \in LoadType, NEW from,
           BeatIs(ts, l, from)
    PROVE  BeatIs(Append(ts, t), l, from)
<1>1. l.tick_count \in Nat
  BY DEF LoadType
<1>2. from \in Nat /\ from <= l.tick_count /\ l.tick_count \in 0 .. Len(ts)
  BY <1>1 DEF BeatIs
<1>3. PICK s \in SpanType : Covers(ts, s, from, l.tick_count) /\ l = LoadOf(l.tick_count, s)
  BY DEF BeatIs
<1>4. Covers(Append(ts, t), s, from, l.tick_count)
  BY <1>2, <1>3, CoversKept
<1>5. l.tick_count <= Len(Append(ts, t))
  BY <1>2
<1>6. QED
  BY <1>2, <1>3, <1>4, <1>5 DEF BeatIs

LEMMA BeatsStart == ClockInit => BInv
<1>0. SUFFICES ASSUME ClockInit
      PROVE  BInv
  OBVIOUS
<1>1. ClockTypeOK
  BY <1>0, ClockInitType
<1>2. /\ phase = "schedule" /\ ticks = <<>> /\ taken = <<>> /\ span = EmptySpan
      /\ load.tick_count = 0 /\ load.span = EmptySpan
  BY <1>0 DEF ClockInit
<1>3. ticks \in Seq(TickType) /\ 0 \in 0 .. Len(ticks) /\ Len(ticks) = 0 /\ Len(taken) = 0
      /\ DOMAIN taken = {}
  BY <1>2
<1>4. Covers(ticks, EmptySpan, 0, 0)
  BY <1>3, CoversNone
<1>5. Since(taken, Len(taken) + 1) = 0
  BY <1>3 DEF Since
<1>6. Loaded
  BY <1>2, <1>3, <1>4, <1>5 DEF Loaded
<1>7. Beaten
  BY <1>3 DEF Beaten
<1>8. QED
  BY <1>1, <1>6, <1>7 DEF BInv

(* Steps that leave the ticks, the spans and the loads alone.              *)
LEMMA BeatsRest ==
    ASSUME BInv, ClockTypeOK', UNCHANGED <<ticks, span, load, taken>>,
           phase' = "observe" <=> phase = "observe"
    PROVE  BInv'
<1>1. Loaded'
  BY DEF BInv, Loaded, Covers, Since
<1>2. Beaten'
  BY DEF BInv, Beaten, BeatIs
<1>3. QED
  BY <1>1, <1>2 DEF BInv

LEMMA BeatsStep ==
    ASSUME BInv, [ClockStep]_clockVars
    PROVE  BInv'
<1>0. /\ ticks \in Seq(TickType) /\ Len(ticks) \in Nat /\ load.tick_count \in Nat
      /\ load.span \in SpanType /\ taken \in Seq(LoadType) /\ Len(taken) \in Nat
      /\ \A b \in DOMAIN taken : taken[b].tick_count \in Nat
      /\ Since(taken, Len(taken) + 1) \in Nat
  BY BeatNumbers
<1>1. ClockTypeOK /\ Loaded /\ Beaten
  BY DEF BInv
<1>2. ClockTypeOK'
  BY <1>1, ClockStepType
<1> DEFINE from == Since(taken, Len(taken) + 1)
           n == load.tick_count
<1>3. /\ from <= n /\ Covers(ticks, load.span, from, n)
      /\ IF phase = "observe"
         THEN Len(ticks) = n + 1 /\ span = OneTick(ticks[Len(ticks)])
         ELSE Len(ticks) = n /\ span = EmptySpan
  BY <1>1 DEF Loaded
<1>4. CASE RunOut
  BY <1>2, <1>4, BeatsRest DEF RunOut, beats
<1>5. CASE \E over \in Oversleeps : AwaitDeadline(over)
  BY <1>2, <1>5, BeatsRest DEF AwaitDeadline, beats
<1>6. CASE MissDeadline
  BY <1>2, <1>6, BeatsRest DEF MissDeadline, beats
<1>7. ASSUME NEW took \in Costs, NEW seen \in Viewers, Tick(took, seen)
      PROVE  BInv'
  <2> DEFINE t == [at |-> now, took |-> took, slot |-> slot, late |-> report.late,
                   viewers |-> seen, dropped |-> report.dropped]
  <2>1. took \in Nat /\ seen \in Nat /\ report.late \in Nat /\ report.dropped \in Nat
        /\ now \in Nat /\ slot \in Nat
    BY <1>1, ClockAssumption DEF ClockTypeOK
  <2>2. t \in TickType
    BY <2>1 DEF TickType
  <2>3. /\ phase = "tick" /\ phase' = "observe" /\ ticks' = Append(ticks, t)
        /\ UNCHANGED <<load, taken>>
        /\ span' = RecordTick(span, took, report.late, report.dropped, seen)
    BY <1>7 DEF Tick, beats
  <2>4. span = EmptySpan /\ Len(ticks) = n /\ n \in 0 .. Len(ticks)
    BY <1>0, <1>3, <2>3
  <2>5. RecordTick(EmptySpan, took, report.late, report.dropped, seen) = OneTick(t)
    <3> DEFINE late == IF report.late # 0 THEN 1 ELSE 0
               o == [ticks |-> 1, viewers |-> seen, spent |-> took, worst |-> took,
                     late |-> late, dropped |-> report.dropped]
    <3>1. OneTick(t) = o
      BY DEF OneTick
    <3>2. RecordTick(EmptySpan, took, report.late, report.dropped, seen) = Merge(EmptySpan, o)
      BY DEF RecordTick
    <3>3. late \in Nat /\ 0 + late = late
      OBVIOUS
    <3> HIDE DEF late
    <3>4. Merge(EmptySpan, o) =
            [ticks |-> 0 + 1, viewers |-> 0 + seen, spent |-> 0 + took,
             worst |-> MaxOf(0, took), late |-> 0 + late, dropped |-> 0 + report.dropped]
      BY MergeIs, EmptySpanType DEF EmptySpan
    <3>5. 0 + 1 = 1 /\ 0 + seen = seen /\ 0 + took = took /\ MaxOf(0, took) = took
          /\ 0 + report.dropped = report.dropped
      BY <2>1 DEF MaxOf
    <3>6. QED
      BY <3>1, <3>2, <3>3, <3>4, <3>5
  <2> HIDE DEF t
  <2>6. Len(ticks') = n + 1 /\ ticks'[n + 1] = t
    BY <1>0, <2>2, <2>3, <2>4
  <2>7. Covers(ticks', load.span, from, n)
    BY <1>0, <1>3, <2>2, <2>3, <2>4, CoversKept
  <2>8. Loaded'
    <3>1. Since(taken, Len(taken) + 1)' = from
      BY <2>3 DEF Since
    <3>2. Covers(ticks, load.span, Since(taken, Len(taken) + 1), load.tick_count)'
      BY <2>3, <2>7, <3>1 DEF Covers
    <3>3. span' = OneTick(ticks'[Len(ticks')])
      BY <2>3, <2>4, <2>5, <2>6
    <3>4. QED
      BY <1>3, <2>3, <2>6, <3>1, <3>2, <3>3 DEF Loaded
  <2>9. Beaten'
    <3>1. ASSUME NEW b \in DOMAIN taken
          PROVE  BeatIs(ticks', taken[b], Since(taken, b))
      <4>1. BeatIs(ticks, taken[b], Since(taken, b)) /\ taken[b] \in LoadType
        BY <1>0, <1>1 DEF Beaten
      <4>2. QED
        BY <4>1, <1>0, <2>2, <2>3, BeatKept
    <3>2. QED
      BY <3>1, <2>3 DEF Beaten
  <2>10. QED
    BY <1>2, <2>8, <2>9 DEF BInv
<1>8. CASE \E took \in Costs, seen \in Viewers : Tick(took, seen)
  BY <1>7, <1>8
<1>9. ASSUME NEW took \in Pauses, NEW stops \in BOOLEAN, Observe(took, stops)
      PROVE  BInv'
  <2>1. /\ phase = "observe" /\ phase' # "observe" /\ UNCHANGED <<ticks, taken>>
        /\ load' = [tick_count |-> Len(ticks), span |-> Merge(load.span, span)]
        /\ span' = EmptySpan
    BY <1>9 DEF Observe, beats
  <2>2. Len(ticks) = n + 1 /\ span = OneTick(ticks[n + 1])
    BY <1>3, <2>1
  <2>3. load'.tick_count = n + 1 /\ load'.span = Merge(load.span, OneTick(ticks[n + 1]))
    BY <2>1, <2>2
  <2>4. Covers(ticks, load'.span, from, n + 1)
    BY <1>0, <1>3, <2>2, <2>3, CoversNext
  <2>5. Loaded'
    <3>1. Since(taken, Len(taken) + 1)' = from
      BY <2>1 DEF Since
    <3>2. Covers(ticks, load.span, Since(taken, Len(taken) + 1), load.tick_count)'
      BY <2>1, <2>3, <2>4, <3>1 DEF Covers
    <3>3. from <= n + 1
      BY <1>0, <1>3
    <3>4. QED
      BY <2>1, <2>2, <2>3, <3>1, <3>2, <3>3 DEF Loaded
  <2>6. Beaten'
    BY <1>1, <2>1 DEF Beaten, BeatIs
  <2>7. QED
    BY <1>2, <2>5, <2>6 DEF BInv
<1>10. CASE \E took \in Pauses, stops \in BOOLEAN : Observe(took, stops)
  BY <1>9, <1>10
<1>11. CASE \E e \in Intervals : SetHeartbeatInterval(e)
  BY <1>2, <1>11, BeatsRest DEF SetHeartbeatInterval, schedule
<1>12. CASE Wake
  <2>1. UNCHANGED <<phase, ticks, span>>
    BY <1>12 DEF Wake, schedule
  <2>2. CASE UNCHANGED <<load, taken>>
    BY <1>2, <2>1, <2>2, BeatsRest
  <2>3. CASE TakeLoad
    <3>1. RegionLoad = LoadOf(n, load.span)
      BY DEF RegionLoad, LoadOf, Cap
    <3> DEFINE l == LoadOf(n, load.span)
               k == Len(taken) + 1
    <3>2. /\ taken' = Append(taken, l) /\ load'.tick_count = n /\ load'.span = EmptySpan
      BY <2>3, <3>1, <1>1 DEF TakeLoad, ClockTypeOK
    <3>3. l.tick_count = n
      BY DEF LoadOf
    <3> HIDE DEF l
    <3>4. /\ Len(taken') = k /\ taken'[k] = l /\ DOMAIN taken' = 1 .. k
          /\ \A b \in DOMAIN taken : taken'[b] = taken[b] /\ b \in 1 .. Len(taken)
          /\ DOMAIN taken = 1 .. Len(taken)
      BY <1>0, <3>2
    <3>5. Since(taken', k + 1) = n
      BY <1>0, <3>3, <3>4 DEF Since
    <3>6. Since(taken', k) = from
      BY <1>0, <3>4 DEF Since
    <3>7. Loaded'
      <4>1. n \in 0 .. Len(ticks)
        BY <1>0, <1>3
      <4>2. Covers(ticks, EmptySpan, n, n)
        BY <1>0, <4>1, CoversNone
      <4>3. Since(taken, Len(taken) + 1)' = n
        BY <3>4, <3>5 DEF Since
      <4>4. Covers(ticks, load.span, Since(taken, Len(taken) + 1), load.tick_count)'
        BY <4>2, <4>3, <3>2, <2>1 DEF Covers
      <4>5. n <= n
        BY <1>0
      <4>6. QED
        BY <1>3, <2>1, <3>2, <4>3, <4>4, <4>5 DEF Loaded
    <3>8. Beaten'
      <4>1. ASSUME NEW b \in DOMAIN taken'
            PROVE  BeatIs(ticks, taken'[b], Since(taken', b))
        <5>1. CASE b = k
          <6>1. n <= Len(ticks)
            BY <1>0, <1>3
          <6>2. BeatIs(ticks, l, from)
            BY <1>0, <1>3, <3>3, <6>1 DEF BeatIs, l
          <6>3. QED
            BY <5>1, <6>2, <3>4, <3>6
        <5>2. CASE b # k
          <6>1. b \in DOMAIN taken /\ taken'[b] = taken[b]
            BY <5>2, <3>4, <1>0
          <6>2. Since(taken', b) = Since(taken, b)
            <7>1. b # 1 => b - 1 \in DOMAIN taken
              BY <6>1, <3>4, <1>0
            <7>2. QED
              BY <7>1, <3>4 DEF Since
          <6>3. QED
            BY <6>1, <6>2, <1>1 DEF Beaten
        <5>3. QED
          BY <5>1, <5>2
      <4>2. QED
        BY <4>1, <2>1 DEF Beaten
    <3>9. QED
      BY <1>2, <3>7, <3>8 DEF BInv
  <2>4. QED
    BY <1>12, <2>2, <2>3 DEF Wake
<1>13. CASE UNCHANGED clockVars
  BY <1>2, <1>13, BeatsRest DEF clockVars, schedule, beats
<1>14. QED
  BY <1>4, <1>5, <1>6, <1>8, <1>10, <1>11, <1>12, <1>13 DEF ClockStep, LoopNext

-----------------------------------------------------------------------------
(* The loop and its heartbeat, whatever they are composed with.            *)
LEMMA ClockStarts == ClockInit => IInv
<1>0. SUFFICES ASSUME ClockInit
      PROVE  IInv
  OBVIOUS
<1>1. ClockTypeOK
  BY <1>0, ClockInitType
<1>2. phase = "schedule" /\ ticks = <<>> /\ epoch = 0 /\ slot = 0 /\ summary.dropped = 0
  BY <1>0 DEF ClockInit
<1>3. DOMAIN ticks = {} /\ Len(ticks) = 0
  BY <1>2
<1>4. Paced /\ NoBurst
  BY <1>2, <1>3 DEF Paced, NoBurst
<1>5. Accounted
  BY <1>2, <1>3, SumOfNone DEF Accounted, Pending
<1>6. KeepsTime
  BY <1>3, KeepsTimeIs
<1>7. QED
  BY <1>1, <1>4, <1>5, <1>6 DEF IInv

LEMMA ClockKeeps ==
    ASSUME IInv, [ClockStep]_clockVars
    PROVE  IInv'
<1>1. ClockTypeOK /\ Paced /\ NoBurst /\ Accounted /\ KeepsTime
  BY DEF IInv
<1>2. ClockTypeOK'
  BY <1>1, ClockStepType
<1>3. Paced' /\ NoBurst'
  BY <1>1, <1>2, PacedStep
<1>4. Accounted' /\ KeepsTime'
  BY <1>1, <1>2, AccountedStep
<1>5. QED
  BY <1>2, <1>3, <1>4 DEF IInv

(* In the composition the loop and the heartbeat take their own steps, or  *)
(* none: what the edge asks and the link carries is no part of them.       *)
LEMMA StepsAreTheClocks ==
    ASSUME [Next]_vars
    PROVE  [ClockStep]_clockVars
<1>1. CASE Spend("loop") /\ LoopNext
  BY <1>1 DEF ClockStep
<1>2. CASE \E published \in BOOLEAN : Beat(published)
  BY <1>2 DEF Beat, ClockStep
<1>3. CASE UNCHANGED clockVars
  BY <1>3
<1>4. UNCHANGED vars => UNCHANGED clockVars
  BY DEF vars
<1>5. QED
  BY <1>1, <1>2, <1>3, <1>4 DEF Next

(* The inductive invariant, of the loop and the heartbeat as they run      *)
(* beside the link: well formed, paced, and adding up.                     *)
THEOREM ClockInvariant == Spec => []IInv
<1>1. Init => IInv
  BY ClockStarts DEF Init
<1>2. IInv /\ [Next]_vars => IInv'
  BY ClockKeeps, StepsAreTheClocks
<1>3. QED
  BY <1>1, <1>2, PTL DEF Spec

(* The loop's and the heartbeat's variables are well formed: in particular *)
(* no subtraction of times goes below zero and no count of dropped         *)
(* deadlines does.                                                         *)
THEOREM ClockTypeCorrect == Spec => []ClockTypeOK
<1>1. IInv => ClockTypeOK
  BY DEF IInv
<1>2. QED
  BY <1>1, ClockInvariant, PTL

(* However late ticks are and however long sleeps and observers take, an   *)
(* overrun is never made up by a burst of ticks, and the number of a tick, *)
(* with what was dropped or how late it was, tells the time it started.    *)
THEOREM AlwaysOnSchedule == Spec => []OnSchedule
<1>1. IInv => OnSchedule
  BY DEF IInv, OnSchedule
<1>2. QED
  BY <1>1, ClockInvariant, PTL

(***************************************************************************)
(* The heartbeats.                                                         *)
(***************************************************************************)
(* What BeatsCover asks of one of them.                                    *)
Told(b) ==
    LET from == Since(taken, b)
        n == taken[b].tick_count
    IN  /\ (from + 1) .. n \subseteq DOMAIN ticks
        /\ taken[b].late = Cardinality(LateOnes(ticks, from, n))
        /\ taken[b].dropped = Part(ticks, "dropped", from, n)
        /\ taken[b].viewers = Over(Part(ticks, "viewers", from, n), Cardinality((from + 1) .. n))
        /\ taken[b].mean_tick
               = Cap(Over(Part(ticks, "took", from, n), Cardinality((from + 1) .. n)))
        /\ \A i \in (from + 1) .. n : Cap(ticks[i].took) <= taken[b].worst_tick
        /\ (from + 1) .. n # {} =>
               \E i \in (from + 1) .. n : Cap(ticks[i].took) = taken[b].worst_tick
        /\ taken[b].mean_tick <= taken[b].worst_tick

LEMMA BeatsCoverIs == BeatsCover <=> \A b \in DOMAIN taken : Told(b)
  BY DEF BeatsCover, Told, Since, Part, LateOnes, Cap

(* A heartbeat filled from a span that covers its ticks tells of them.     *)
LEMMA BeatsTell == BInv => BeatsCover
<1> SUFFICES ASSUME BInv
             PROVE  \A b \in DOMAIN taken : Told(b)
  BY BeatsCoverIs
<1> TAKE b \in DOMAIN taken
<1> DEFINE from == Since(taken, b)
           n == taken[b].tick_count
<1>1. ticks \in Seq(TickType) /\ Len(ticks) \in Nat /\ n \in Nat
  BY BeatNumbers
<1>2. BeatIs(ticks, taken[b], from)
  BY DEF BInv, Beaten
<1>3. from \in Nat /\ from <= n /\ n <= Len(ticks)
  BY <1>2 DEF BeatIs
<1>4. PICK s \in SpanType : Covers(ticks, s, from, n) /\ taken[b] = LoadOf(n, s)
  BY <1>2 DEF BeatIs
<1> DEFINE of == (from + 1) .. n
<1>5. Cardinality(of) = s.ticks
  BY <1>3, <1>1, <1>4, IntervalSize DEF Covers
<1>6. of \subseteq DOMAIN ticks
  BY <1>1, <1>3
<1>7. \A i \in of : ticks[i].took \in Nat
  <2>1. \A i \in of : ticks[i] \in TickType
    BY <1>1, <1>6
  <2>2. QED
    BY <2>1 DEF TickType
<1>8. s.worst \in Nat /\ s.spent \in Nat /\ s.ticks \in Nat
  BY DEF SpanType
<1>9. /\ \A i \in of : ticks[i].took <= s.worst
      /\ from < n => \E i \in of : ticks[i].took = s.worst
  BY <1>4 DEF Covers
<1>10. \A c, d \in Nat : c <= d => Cap(c) <= Cap(d)
  BY ClockAssumption DEF Cap
<1>11. Over(s.spent, s.ticks) <= s.worst
  BY <1>4, <1>8, MeanBelowWorst DEF Covers
<1>12. Over(s.spent, s.ticks) \in Nat
  BY <1>8, OverType
<1>13. taken[b].worst_tick = Cap(s.worst) /\ taken[b].mean_tick = Cap(Over(s.spent, s.ticks))
  BY <1>4 DEF LoadOf
<1>14. /\ taken[b].late = s.late /\ taken[b].dropped = s.dropped
       /\ taken[b].viewers = Over(s.viewers, s.ticks)
  BY <1>4 DEF LoadOf
<1>15. /\ s.late = Cardinality(LateOnes(ticks, from, n))
       /\ s.dropped = Part(ticks, "dropped", from, n)
       /\ s.viewers = Part(ticks, "viewers", from, n)
       /\ s.spent = Part(ticks, "took", from, n)
  BY <1>4 DEF Covers
<1>16. of # {} => from < n
  BY <1>1, <1>3
<1>17. \A i \in of : Cap(ticks[i].took) <= taken[b].worst_tick
  BY <1>7, <1>8, <1>9, <1>10, <1>13
<1>18. of # {} => \E i \in of : Cap(ticks[i].took) = taken[b].worst_tick
  BY <1>9, <1>13, <1>16
<1>19. taken[b].mean_tick <= taken[b].worst_tick
  BY <1>8, <1>10, <1>11, <1>12, <1>13
<1> HIDE DEF from, n, of
<1>20. QED
  <2>1. /\ taken[b].late = Cardinality(LateOnes(ticks, from, n))
        /\ taken[b].dropped = Part(ticks, "dropped", from, n)
        /\ taken[b].viewers = Over(Part(ticks, "viewers", from, n), Cardinality(of))
        /\ taken[b].mean_tick = Cap(Over(Part(ticks, "took", from, n), Cardinality(of)))
    BY <1>5, <1>13, <1>14, <1>15
  <2>2. QED
    BY <2>1, <1>6, <1>17, <1>18, <1>19, Zenon DEF Told, from, n, of

(* The inductive invariant of the heartbeats: the span of the load, and of *)
(* each heartbeat when it was taken, is of the ticks since the one before. *)
THEOREM BeatsInvariant == Spec => []BInv
<1>1. Init => BInv
  BY BeatsStart DEF Init
<1>2. BInv /\ [Next]_vars => BInv'
  BY BeatsStep, StepsAreTheClocks
<1>3. QED
  BY <1>1, <1>2, PTL DEF Spec

(* Of whatever ticks cost and however they and the heartbeats interleave,  *)
(* each heartbeat covers the ticks since the one before, each of them once:*)
(* how many, their cost, the worst of them, those that were late.          *)
THEOREM BeatsAlwaysCover == Spec => []BeatsCover
<1>1. QED
  BY BeatsTell, BeatsInvariant, PTL


(* Ticks keep to the schedule of the pacing or are counted late, and the   *)
(* heartbeats tell of each of them once, and what it cost (run_with, and   *)
(* the load that SpanStats gathers and the heartbeat takes).               *)
THEOREM TicksAlwaysAccounted == Spec => []TicksAccounted
  BY AlwaysOnSchedule, BeatsAlwaysCover, PTL DEF TicksAccounted
=============================================================================
