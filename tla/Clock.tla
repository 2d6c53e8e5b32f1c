-------------------------------- MODULE Clock --------------------------------
(***************************************************************************)
(* The pacing loop of a region (sim/clock.rs), the span of ticks it fills  *)
(* in (sim/world.rs), the load `settle` joins it to and the heartbeat      *)
(* drains (net/region/session.rs), and the heartbeat's own timer           *)
(* (net/region/server.rs).                                                 *)
(*                                                                         *)
(* The loop is one thread: it waits for a deadline, ticks, and calls the   *)
(* observer, which settles.  The heartbeat is a task beside it.  Time is   *)
(* counted in spin margins.                                                *)
(***************************************************************************)
EXTENDS Integers, Sequences, FiniteSets

CONSTANTS
    Period,             \* 1000 / tick_hz
    Pacings,            \* the pacings a run may be given
    Oversleeps,         \* by how much a sleep may overshoot
    Costs, Pauses,      \* how long a tick, and an observer, may take
    Viewers,            \* how many viewers a tick may serve
    Intervals,          \* heartbeat intervals in granules; 0 is off
    MostNanos           \* u32::MAX

SpinMargin == 1         \* SPIN_MARGIN
DefaultInterval == 2    \* DEFAULT_HEARTBEAT, in granules

ASSUME ClockAssumption ==
    /\ Period \in Nat \ {0} /\ MostNanos \in Nat
    /\ Oversleeps \subseteq Nat /\ \E s \in Oversleeps : \A o \in Oversleeps : o <= s
    /\ Costs \cup Pauses \subseteq Nat
    /\ Viewers \subseteq Nat /\ Intervals \subseteq Nat
    /\ \A p \in Pacings : /\ p.wait \in {"Sleep", "Hold", "None"}
                          /\ p.overrun \in {"Dilate", "Drop"}
                          /\ p.ticks \in Nat

VARIABLES
    pacing, now,
    epoch, slot,        \* origin of the schedule, and the deadline it is at
    phase,              \* "schedule", "tick", "observe" or "stopped"
    report,             \* what the schedule found: how late, how many dropped
    summary,            \* RunSummary
    ticks,              \* history: what each tick did
    span,               \* what WorldSimulation has counted
    load,               \* what Inbound holds for the heartbeat
    every, since,       \* the heartbeat's interval, and how far it has come
    taken               \* history: the loads a heartbeat took

schedule == <<pacing, now, epoch, slot, phase, report, summary>>
beats == <<every, since, taken>>
clockVars == <<schedule, ticks, span, load, beats>>

MaxOf(a, b) == IF a > b THEN a ELSE b

(* TickSpan.                                                               *)
EmptySpan == [ticks |-> 0, viewers |-> 0, spent |-> 0, worst |-> 0,
              late |-> 0, dropped |-> 0]

MergeAdding(s, o) == [f \in DOMAIN s |-> s[f] + o[f]]

Merge(s, o) == [f \in DOMAIN s |-> IF f = "worst" THEN MaxOf(s[f], o[f])
                                   ELSE s[f] + o[f]]

(* checked_div: over no ticks the answer is zero.                          *)
Over(sum, count) == IF count = 0 THEN 0 ELSE sum \div count

RecordTick(s, took, late, dropped, viewers) ==
    Merge(s, [ticks |-> 1, viewers |-> viewers, spent |-> took,
              worst |-> took, late |-> IF late # 0 THEN 1 ELSE 0,
              dropped |-> dropped])

ClockInit ==
    /\ pacing \in Pacings
    /\ now = 0 /\ epoch = 0 /\ slot = 0 /\ phase = "schedule"
    /\ report = [late |-> 0, dropped |-> 0]
    /\ summary = [ticks |-> 0, late |-> 0, dropped |-> 0, worst_tick |-> 0,
                  worst_late |-> 0, elapsed |-> 0]
    /\ ticks = <<>> /\ span = EmptySpan
    /\ load = [tick_count |-> 0, span |-> EmptySpan]
    /\ every = DefaultInterval /\ since = 0 /\ taken = <<>>

(***************************************************************************)
(* The loop.                                                               *)
(***************************************************************************)
Spent == pacing.ticks # 0 /\ summary.ticks >= pacing.ticks
Deadline == epoch + Period * (slot + 1)

(* The count of ticks has run out.                                         *)
RunOut ==
    /\ phase = "schedule" /\ Spent
    /\ phase' = "stopped"
    /\ summary' = [summary EXCEPT !.elapsed = now]
    /\ UNCHANGED <<pacing, now, epoch, slot, report, ticks, span, load, beats>>

(* A sleep aims a margin short and the rest is spun, so it wakes late only *)
(* when it overshoots by more than the margin; nothing then looks again.   *)
Woken(over) ==
    CASE pacing.wait = "None" -> now
      [] pacing.wait = "Sleep" /\ Deadline - now > SpinMargin ->
             MaxOf(Deadline, Deadline - SpinMargin + over)
      [] OTHER -> Deadline

AwaitDeadline(over) ==
    /\ phase = "schedule" /\ ~Spent /\ now < Deadline
    /\ now' = Woken(over)
    /\ slot' = slot + 1
    /\ report' = [late |-> 0, dropped |-> 0]
    /\ phase' = "tick"
    /\ UNCHANGED <<pacing, epoch, summary, ticks, span, load, beats>>

(* Past the deadline: Dilate moves every later one by as much, Drop skips  *)
(* the ones that went by.  With no schedule there is nothing to be late    *)
(* against.                                                                *)
Missed == IF pacing.wait = "None" THEN 0 ELSE now - Deadline
Skipped == IF pacing.overrun = "Drop" THEN Missed \div Period ELSE 0
DilatedNever == epoch

Dilated == IF pacing.overrun = "Dilate" THEN epoch + Missed ELSE epoch

MissDeadline ==
    /\ phase = "schedule" /\ ~Spent /\ now >= Deadline
    /\ report' = [late |-> Missed, dropped |-> Skipped]
    /\ epoch' = Dilated
    /\ slot' = slot + 1 + Skipped
    /\ summary' =
           IF pacing.wait = "None" THEN summary
           ELSE [summary EXCEPT !.late = @ + 1,
                                !.worst_late = MaxOf(@, Missed),
                                !.dropped = @ + Skipped]
    /\ phase' = "tick"
    /\ UNCHANGED <<pacing, now, ticks, span, load, beats>>

Tick(took, viewers) ==
    /\ phase = "tick"
    /\ now' = now + took
    /\ summary' = [summary EXCEPT !.ticks = @ + 1,
                                  !.worst_tick = MaxOf(@, took)]
    /\ span' = RecordTick(span, took, report.late, report.dropped, viewers)
    /\ ticks' = Append(ticks, [at |-> now, took |-> took, slot |-> slot,
                               late |-> report.late, viewers |-> viewers,
                               dropped |-> report.dropped])
    /\ phase' = "observe"
    /\ UNCHANGED <<pacing, epoch, slot, report, load, beats>>

(* The observer settles, so the span moves to the load the heartbeat       *)
(* reads, together with the count of ticks it is up to.                    *)
Observe(took, stops) ==
    /\ phase = "observe"
    /\ now' = now + took
    /\ load' = [tick_count |-> Len(ticks), span |-> Merge(load.span, span)]
    /\ span' = EmptySpan
    /\ phase' = IF stops THEN "stopped" ELSE "schedule"
    /\ summary' = IF stops THEN [summary EXCEPT !.elapsed = now'] ELSE summary
    /\ UNCHANGED <<pacing, epoch, slot, report, ticks, beats>>

(***************************************************************************)
(* The heartbeat.                                                          *)
(***************************************************************************)
SetHeartbeatInterval(e) ==
    /\ every' = e
    /\ UNCHANGED <<schedule, ticks, span, load, since, taken>>

(* What a heartbeat says of the load it takes.                             *)
RegionLoad ==
    LET s == load.span
        nanos(d) == IF d > MostNanos THEN MostNanos ELSE d
    IN  [tick_count |-> load.tick_count, viewers |-> Over(s.viewers, s.ticks),
         mean_tick |-> nanos(Over(s.spent, s.ticks)),
         worst_tick |-> nanos(s.worst), late |-> s.late,
         dropped |-> s.dropped]

TakeLoadKeeping ==
    /\ taken' = Append(taken, RegionLoad)
    /\ load' = load

(* take_load: the span is taken, and starts again.                         *)
TakeLoad ==
    /\ taken' = Append(taken, RegionLoad)
    /\ load' = [load EXCEPT !.span = EmptySpan]

(* The task wakes once a granule.  Switched off, it leaves the span to     *)
(* grow.                                                                   *)
Wake ==
    /\ every # 0
    /\ IF since + 1 < every THEN since' = since + 1 /\ UNCHANGED <<load, taken>>
       ELSE since' = 0 /\ TakeLoad
    /\ UNCHANGED <<schedule, ticks, span, every>>

LoopNext ==
    \/ RunOut
    \/ \E over \in Oversleeps : AwaitDeadline(over)
    \/ MissDeadline
    \/ \E took \in Costs, viewers \in Viewers : Tick(took, viewers)
    \/ \E took \in Pauses, stops \in BOOLEAN : Observe(took, stops)
    \/ \E e \in Intervals : SetHeartbeatInterval(e)

(***************************************************************************)
(* Properties.                                                             *)
(***************************************************************************)
SpanType == [ticks : Nat, viewers : Nat, spent : Nat, worst : Nat, late : Nat,
             dropped : Nat]

(* The loop's and the heartbeat's variables are well formed.               *)
ClockTypeOK ==
    /\ pacing \in Pacings /\ {now, epoch, slot, since} \subseteq Nat
    /\ phase \in {"schedule", "tick", "observe", "stopped"}
    /\ report \in [late : Nat, dropped : Nat]
    /\ summary \in [ticks : Nat, late : Nat, dropped : Nat, worst_tick : Nat,
                   worst_late : Nat, elapsed : Nat]
    /\ ticks \in Seq([at : Nat, took : Nat, slot : Nat, late : Nat, viewers : Nat,
                     dropped : Nat])
    /\ span \in SpanType /\ load \in [tick_count : Nat, span : SpanType]
    /\ taken \in Seq([tick_count : Nat, viewers : Nat, mean_tick : Nat,
                     worst_tick : Nat, late : Nat, dropped : Nat])
    /\ every \in Intervals \cup {DefaultInterval}

Scheduled == pacing.wait # "None"

(* How far behind its deadline a tick may start without being called late. *)
Slack ==
    LET most == CHOOSE s \in Oversleeps : \A o \in Oversleeps : o <= s
    IN  MaxOf(Period - 1, most - SpinMargin)

(* An overrun is never made up by running extra ticks: however the loop    *)
(* fell behind, any n ticks in a row take all of n periods but what one    *)
(* late start may have eaten of the first (run's "spiral of death").       *)
NoBurst ==
    Scheduled =>
        \A j \in DOMAIN ticks : \A i \in 1 .. j :
            ticks[j].at - ticks[i].at >= (j - i) * Period - Slack

(* Drop keeps the wall clock: a tick's number and the deadlines skipped    *)
(* before it say what time it is.  Dilate skips none, and time stretches   *)
(* by what the ticks were late.                                            *)
KeepsTime ==
    \A n \in DOMAIN ticks :
        LET sum[i \in 0 .. n] ==
                IF i = 0 THEN [late |-> 0, dropped |-> 0]
                ELSE [late |-> sum[i - 1].late + ticks[i].late,
                      dropped |-> sum[i - 1].dropped + ticks[i].dropped]
            due == Period * (n + sum[n].dropped)
                       + IF pacing.overrun = "Dilate" THEN sum[n].late ELSE 0
        IN  /\ pacing.overrun = "Dilate" => sum[n].dropped = 0
            /\ Scheduled => ticks[n].at \in due .. (due + Slack)
            /\ summary.dropped >= sum[n].dropped

(* The schedule a region is paced by: no tick is made up for, and its      *)
(* number still tells the time.                                            *)
OnSchedule == NoBurst /\ KeepsTime

(* A heartbeat covers the ticks since the one before and no others: the    *)
(* count it gives, which is overwritten, and the span it gives, which is   *)
(* accumulated, are of the same ticks, and none is told of twice.          *)
BeatsCover ==
    \A b \in DOMAIN taken :
        LET from == IF b = 1 THEN 0 ELSE taken[b - 1].tick_count
            of == (from + 1) .. taken[b].tick_count
            sum(f) == LET s[i \in 0 .. taken[b].tick_count] ==
                              IF i <= from THEN 0 ELSE s[i - 1] + ticks[i][f]
                      IN  s[taken[b].tick_count]
            cap(d) == IF d > MostNanos THEN MostNanos ELSE d
        IN  /\ of \subseteq DOMAIN ticks
            /\ taken[b].late = Cardinality({i \in of : ticks[i].late > 0})
            /\ taken[b].dropped = sum("dropped")
            /\ taken[b].viewers = Over(sum("viewers"), Cardinality(of))
            /\ taken[b].mean_tick = cap(Over(sum("took"), Cardinality(of)))
            /\ \A i \in of : cap(ticks[i].took) <= taken[b].worst_tick
            /\ of # {} => \E i \in of : cap(ticks[i].took) = taken[b].worst_tick
            /\ taken[b].mean_tick <= taken[b].worst_tick

(* What is counted of the ticks is what became of them: they keep to the   *)
(* schedule or are said to be late, and each is told of in one heartbeat.  *)
TicksAccounted == OnSchedule /\ BeatsCover
=============================================================================
