------------------------------ MODULE Handoff ------------------------------
(***************************************************************************)
(* Handoff of sim/handoff.rs: payloads leave the tick for the I/O thread   *)
(* through one slot per viewer, and neither waits for the other.           *)
(*                                                                         *)
(* Three kinds of thread.  The workers of a tick stash the payload of each *)
(* viewer they serve (no viewer is served by two at once).  The I/O thread *)
(* polls has_work, lists the slots that are ready, and swaps each of them  *)
(* out under its lock to bring it to the wrapped sink.  A caller of flush  *)
(* looks through the slots until all of them are empty.                    *)
(*                                                                         *)
(* A step is what a thread does between two points at which another can    *)
(* see or hold it up.  ready and has_work are read without the lock of the *)
(* slot; they are stored with Release and read with Acquire, has_work by a *)
(* read-modify-write, so every step sees the ones before it.               *)
(*                                                                         *)
(* The payloads of a viewer are numbered in the order they are built.      *)
(***************************************************************************)
EXTENDS Integers

CONSTANTS
    Viewers,        \* how many viewers there can be: bounds the slots
    MaxFrames,      \* payloads built for one viewer: bounds the numbers
    NoPayload       \* no payload in the I/O thread's spare buffer

ASSUME HandoffAssumption ==
    /\ Viewers \in Nat
    /\ MaxFrames \in Nat
    /\ NoPayload \notin [viewer : 0 .. (Viewers - 1), frame : 1 .. MaxFrames]

Viewer == 0 .. (Viewers - 1)
Frame == 1 .. MaxFrames
Empty == 0

VARIABLES
    len,            \* slots there are
    buf,            \* buf[v]: the payload in the slot of v, or Empty
    ready,          \* ready[v]: the hint that there is one
    holder,         \* holder[v]: who holds the lock of buf[v] over a step
    stash,          \* stash[v]: where the worker serving v is
    built,          \* built[v]: payloads built for v so far
    hasWork,        \* something was stashed since the I/O thread last asked
    io,             \* where the I/O thread is
    at,             \* the slot it is at, in its scan or on its visits
    listed,         \* the slots its scan found ready, less those visited
    last,           \* its pass is the one after the loop
    hand,           \* the payload swapped out and not brought yet, or NoPayload
    out,            \* out[v]: the last payload brought to the wrapped sink
    running,        \* until the Handoff is dropped
    flush,          \* where the caller of flush is
    looked,         \* the slots it has looked at in this round
    found,          \* how many of them were not empty
    asked           \* asked[v]: what was in the slot of v when it called

slotVars == <<len, buf, ready, holder>>
workerVars == <<stash, built>>
ioVars == <<io, at, listed, last, hand, out>>
flushVars == <<flush, looked, found, asked>>
vars == <<slotVars, workerVars, hasWork, ioVars, running, flushVars>>

Init ==
    /\ len = 0
    /\ buf = [v \in Viewer |-> Empty]
    /\ ready = [v \in Viewer |-> FALSE]
    /\ holder = [v \in Viewer |-> "nobody"]
    /\ stash = [v \in Viewer |-> "idle"]
    /\ built = [v \in Viewer |-> 0]
    /\ hasWork = FALSE
    /\ io = "parked"
    /\ at = 0
    /\ listed = {}
    /\ last = FALSE
    /\ hand = NoPayload
    /\ out = [v \in Viewer |-> Empty]
    /\ running = TRUE
    /\ flush = "no"
    /\ looked = 0
    /\ found = 0
    /\ asked = [v \in Viewer |-> Empty]

(* The thread keeps the lock of `slots` for reading while it scans, swaps, *)
(* stashes or counts what is pending.                                      *)
SlotsRead ==
    \/ io \in {"scan", "swap"}
    \/ \E v \in Viewer : stash[v] \in {"written", "ready"}
    \/ flush = "look"

-----------------------------------------------------------------------------
(* The workers.  A viewer is served: its payload is the next one.          *)
BuildPayload(v) ==
    /\ running
    /\ stash[v] = "idle"
    /\ built[v] < MaxFrames
    /\ built' = [built EXCEPT ![v] = @ + 1]

(* send, to a viewer served for the first time: it has no slot yet, *)
SendFirst(v) ==
    /\ BuildPayload(v)
    /\ v >= len
    /\ stash' = [stash EXCEPT ![v] = "first"]
    /\ UNCHANGED <<slotVars, hasWork, ioVars, running, flushVars>>

(* Mutant of Grow: the slots are resized, whatever another worker did.     *)
Resize(v) ==
    /\ stash[v] = "first"
    /\ ~SlotsRead
    /\ len' = v + 1
    /\ buf' = [buf EXCEPT ![v] = built[v]]
    /\ ready' = [ready EXCEPT ![v] = TRUE]
    /\ hasWork' = TRUE
    /\ stash' = [stash EXCEPT ![v] = "idle"]
    /\ UNCHANGED <<holder, built, ioVars, running, flushVars>>

(* ... so the slots are locked for writing, and nothing else looks at them *)
(* until it has one, if it has none yet, and the payload is in.            *)
Grow(v) ==
    /\ stash[v] = "first"
    /\ ~SlotsRead
    /\ len' = IF v < len THEN len ELSE v + 1
    /\ buf' = [buf EXCEPT ![v] = built[v]]
    /\ ready' = [ready EXCEPT ![v] = TRUE]
    /\ hasWork' = TRUE
    /\ stash' = [stash EXCEPT ![v] = "idle"]
    /\ UNCHANGED <<holder, built, ioVars, running, flushVars>>

(* Mutant of Send: the lock is only held to write the buffer.              *)
SendUnlocked(v) ==
    /\ BuildPayload(v)
    /\ v < len
    /\ holder[v] = "nobody"
    /\ buf' = [buf EXCEPT ![v] = built'[v]]
    /\ stash' = [stash EXCEPT ![v] = "written"]
    /\ UNCHANGED <<len, ready, holder, hasWork, ioVars, running, flushVars>>

(* stash, when try_lock wins: the buffer is written, *)
Send(v) ==
    /\ BuildPayload(v)
    /\ v < len
    /\ holder[v] = "nobody"
    /\ buf' = [buf EXCEPT ![v] = built'[v]]
    /\ holder' = [holder EXCEPT ![v] = "worker"]
    /\ stash' = [stash EXCEPT ![v] = "written"]
    /\ UNCHANGED <<len, ready, hasWork, ioVars, running, flushVars>>

(* ... and when it loses, to the I/O thread or to a look of pending (which *)
(* holds the lock within its step): the payload is dropped.                *)
SendLost(v) ==
    /\ BuildPayload(v)
    /\ v < len
    /\ holder[v] = "io" \/ (flush = "look" /\ looked = v)
    /\ UNCHANGED <<slotVars, stash, hasWork, ioVars, running, flushVars>>

(* ... the hint is set, *)
StashReady(v) ==
    /\ stash[v] = "written"
    /\ ready' = [ready EXCEPT ![v] = TRUE]
    /\ stash' = [stash EXCEPT ![v] = "ready"]
    /\ UNCHANGED <<len, buf, holder, built, hasWork, ioVars, running, flushVars>>

(* ... and has_work, and the lock is let go.                               *)
StashDone(v) ==
    /\ stash[v] = "ready"
    /\ hasWork' = TRUE
    /\ holder' = [holder EXCEPT ![v] = "nobody"]
    /\ stash' = [stash EXCEPT ![v] = "idle"]
    /\ UNCHANGED <<len, buf, ready, built, ioVars, running, flushVars>>

-----------------------------------------------------------------------------
(* Mutant of Wake: the scan goes on from where the last one ended.         *)
WakeResumes ==
    /\ io = "parked"
    /\ running
    /\ hasWork
    /\ hasWork' = FALSE
    /\ io' = "scan"
    /\ listed' = {}
    /\ UNCHANGED <<slotVars, workerVars, at, last, hand, out, running, flushVars>>

(* The I/O thread.  It wakes up, every POLL at the latest; *)
Wake ==
    /\ io = "parked"
    /\ running
    /\ hasWork
    /\ hasWork' = FALSE
    /\ io' = "scan"
    /\ at' = 0
    /\ listed' = {}
    /\ UNCHANGED <<slotVars, workerVars, last, hand, out, running, flushVars>>

(* Mutant of WakeLast: it leaves the loop and is done.                     *)
LeaveAtOnce ==
    /\ io = "parked"
    /\ ~running
    /\ io' = "stopped"
    /\ UNCHANGED <<slotVars, workerVars, hasWork, at, listed, last, hand, out, running, flushVars>>

(* ... or it is told to stop, and drains what the last tick left.          *)
WakeLast ==
    /\ io = "parked"
    /\ ~running
    /\ io' = "scan"
    /\ at' = 0
    /\ listed' = {}
    /\ last' = TRUE
    /\ UNCHANGED <<slotVars, workerVars, hasWork, hand, out, running, flushVars>>

(* drain: the slots are looked at one after another, without their locks.  *)
Scan ==
    /\ io = "scan"
    /\ at < len
    /\ listed' = IF ready[at] THEN listed \cup {at} ELSE listed
    /\ at' = at + 1
    /\ UNCHANGED <<slotVars, workerVars, hasWork, io, last, hand, out, running, flushVars>>

EndScan ==
    /\ io = "scan"
    /\ at = len
    /\ io' = "visit"
    /\ UNCHANGED <<slotVars, workerVars, hasWork, at, listed, last, hand, out, running, flushVars>>

(* The slots listed are visited in order; the lock of each is waited for, *)
Lock(v) ==
    /\ io = "visit"
    /\ v \in listed
    /\ \A w \in listed : v <= w
    /\ holder[v] = "nobody"
    /\ holder' = [holder EXCEPT ![v] = "io"]
    /\ io' = "swap"
    /\ at' = v
    /\ UNCHANGED <<len, buf, ready, workerVars, hasWork, listed, last, hand, out, running, flushVars>>

(* Mutants of Swap: the slot keeps the payload; the hint is left set.      *)
SwapKeeps ==
    /\ io = "swap"
    /\ hand' = [viewer |-> at, frame |-> buf[at]]
    /\ ready' = [ready EXCEPT ![at] = FALSE]
    /\ holder' = [holder EXCEPT ![at] = "nobody"]
    /\ listed' = listed \ {at}
    /\ io' = "bring"
    /\ UNCHANGED <<len, buf, workerVars, hasWork, at, last, out, running, flushVars>>

SwapLeavesReady ==
    /\ io = "swap"
    /\ hand' = [viewer |-> at, frame |-> buf[at]]
    /\ buf' = [buf EXCEPT ![at] = Empty]
    /\ holder' = [holder EXCEPT ![at] = "nobody"]
    /\ listed' = listed \ {at}
    /\ io' = "bring"
    /\ UNCHANGED <<len, ready, workerVars, hasWork, at, last, out, running, flushVars>>

(* ... the buffer swapped out and the slot marked free.  The code passes   *)
(* over a slot it finds empty; HintAgrees says that it finds none.         *)
Swap ==
    /\ io = "swap"
    /\ buf[at] # Empty
    /\ hand' = [viewer |-> at, frame |-> buf[at]]
    /\ buf' = [buf EXCEPT ![at] = Empty]
    /\ ready' = [ready EXCEPT ![at] = FALSE]
    /\ holder' = [holder EXCEPT ![at] = "nobody"]
    /\ listed' = listed \ {at}
    /\ io' = "bring"
    /\ UNCHANGED <<len, workerVars, hasWork, at, last, out, running, flushVars>>

(* The wrapped sink takes the payload, however long that takes, *)
Bring ==
    /\ io = "bring"
    /\ out' = [out EXCEPT ![hand.viewer] = hand.frame]
    /\ hand' = NoPayload
    /\ io' = "visit"
    /\ UNCHANGED <<slotVars, workerVars, hasWork, at, listed, last, running, flushVars>>

(* ... or panics, and takes the I/O thread with it.                        *)
Panic ==
    /\ io = "bring"
    /\ hand' = NoPayload
    /\ io' = "dead"
    /\ UNCHANGED <<slotVars, workerVars, hasWork, at, listed, last, out, running, flushVars>>

(* Mutant of Park: has_work is cleared at the end of the pass.             *)
ParkClears ==
    /\ io = "visit"
    /\ listed = {}
    /\ io' = IF last THEN "stopped" ELSE "parked"
    /\ hasWork' = FALSE
    /\ UNCHANGED <<slotVars, workerVars, at, listed, last, hand, out, running, flushVars>>

(* The pass is over.  (The wrapped sink's own flush, at the end of a pass  *)
(* that sent something, is left out: EdgeSink::flush.)                     *)
Park ==
    /\ io = "visit"
    /\ listed = {}
    /\ io' = IF last THEN "stopped" ELSE "parked"
    /\ UNCHANGED <<slotVars, workerVars, hasWork, at, listed, last, hand, out, running, flushVars>>

Healthy == io \notin {"dead", "stopped"}

-----------------------------------------------------------------------------
(* A caller of flush.  It wants what is waiting now to reach the sink.     *)
AskFlush ==
    /\ running
    /\ flush = "no"
    /\ flush' = "look"
    /\ looked' = 0
    /\ found' = 0
    /\ asked' = buf
    /\ UNCHANGED <<slotVars, workerVars, hasWork, ioVars, running>>

(* Mutant of Look: the hint is read in place of the buffer.                *)
LookAtHint ==
    /\ flush = "look"
    /\ looked < len
    /\ found' = IF ready[looked] THEN found + 1 ELSE found
    /\ looked' = looked + 1
    /\ UNCHANGED <<slotVars, workerVars, hasWork, ioVars, running, flush, asked>>

(* pending: the slots are locked and looked at one after another.          *)
Look ==
    /\ flush = "look"
    /\ looked < len
    /\ holder[looked] = "nobody"
    /\ found' = IF buf[looked] = Empty THEN found ELSE found + 1
    /\ looked' = looked + 1
    /\ UNCHANGED <<slotVars, workerVars, hasWork, ioVars, running, flush, asked>>

Looked == flush = "look" /\ looked = len

(* All of them were empty: flush returns true.                             *)
Flushed ==
    /\ Looked
    /\ found = 0
    /\ flush' = "true"
    /\ UNCHANGED <<slotVars, workerVars, hasWork, ioVars, running, looked, found, asked>>

(* One was not: the I/O thread is told that there is work, and flush       *)
(* sleeps, *)
SeePending ==
    /\ Looked
    /\ found > 0
    /\ Healthy
    /\ hasWork' = TRUE
    /\ flush' = "sleep"
    /\ UNCHANGED <<slotVars, workerVars, ioVars, running, looked, found, asked>>

LookAgain ==
    /\ flush = "sleep"
    /\ flush' = "look"
    /\ looked' = 0
    /\ found' = 0
    /\ UNCHANGED <<slotVars, workerVars, hasWork, ioVars, running, asked>>

(* ... or it gives up: the time is over, or the I/O thread is.             *)
GiveUp ==
    /\ Looked
    /\ found > 0
    /\ flush' = "no"
    /\ UNCHANGED <<slotVars, workerVars, hasWork, ioVars, running, looked, found, asked>>

FlushReturns ==
    /\ flush = "true"
    /\ flush' = "no"
    /\ UNCHANGED <<slotVars, workerVars, hasWork, ioVars, running, looked, found, asked>>

(* Drop needs the Handoff to itself: nobody sends and nobody flushes.      *)
Drop ==
    /\ running
    /\ \A v \in Viewer : stash[v] = "idle"
    /\ flush = "no"
    /\ running' = FALSE
    /\ UNCHANGED <<slotVars, workerVars, hasWork, ioVars, flushVars>>

-----------------------------------------------------------------------------
Worker(v) ==
    \/ SendFirst(v) \/ Grow(v)
    \/ Send(v) \/ SendLost(v) \/ StashReady(v) \/ StashDone(v)

IOThread ==
    \/ Wake \/ WakeLast
    \/ Scan \/ EndScan
    \/ \E v \in Viewer : Lock(v)
    \/ Swap \/ Bring \/ Park

Flush ==
    \/ AskFlush \/ Look
    \/ Flushed \/ FlushReturns
    \/ SeePending \/ LookAgain \/ GiveUp

Next ==
    \/ \E v \in Viewer : Worker(v)
    \/ IOThread
    \/ Panic
    \/ Flush
    \/ Drop

Spec == Init /\ [][Next]_vars

(* A worker that has begun to stash finishes.  The I/O thread wakes by     *)
(* itself, never waits for anything but the lock of a slot, and the        *)
(* wrapped sink returns or panics.  That lock is held for the time of a    *)
(* copy, so waiting for it again and again gets it.                        *)
FairSpec ==
    /\ Spec
    /\ \A v \in Viewer : WF_vars(StashReady(v) \/ StashDone(v))
    /\ WF_vars(IOThread \/ Panic)
    /\ SF_vars(\E v \in Viewer : Lock(v))

-----------------------------------------------------------------------------
(* Every variable has its type: no payload is numbered beyond those built, *)
(* and the scan stays within the slots there are.                          *)
TypeOK ==
    /\ len \in 0 .. Viewers
    /\ buf \in [Viewer -> {Empty} \cup Frame]
    /\ ready \in [Viewer -> BOOLEAN]
    /\ holder \in [Viewer -> {"nobody", "worker", "io"}]
    /\ stash \in [Viewer -> {"idle", "first", "written", "ready"}]
    /\ built \in [Viewer -> 0 .. MaxFrames]
    /\ hasWork \in BOOLEAN
    /\ io \in {"parked", "scan", "visit", "swap", "bring", "dead", "stopped"}
    /\ at \in 0 .. len
    /\ listed \in SUBSET (0 .. (len - 1))
    /\ last \in BOOLEAN
    /\ hand \in {NoPayload} \cup [viewer : Viewer, frame : Frame]
    /\ out \in [Viewer -> {Empty} \cup Frame]
    /\ running \in BOOLEAN
    /\ flush \in {"no", "look", "sleep", "true"}
    /\ looked \in 0 .. len
    /\ found \in 0 .. looked
    /\ asked \in [Viewer -> {Empty} \cup Frame]

(* The comment on Slot.ready: "Set and cleared under `buf`, so it cannot   *)
(* disagree with what is there."  Whoever gets the lock of a slot finds    *)
(* the hint right, and what the drain listed it finds full.                *)
HintAgrees ==
    /\ \A v \in Viewer : holder[v] = "nobody" => (ready[v] <=> buf[v] # Empty)
    /\ \A v \in listed : buf[v] # Empty

(* No payload waits in a slot while the I/O thread sleeps for good: either *)
(* it has been told that there is work, or its pass has the slot ahead.    *)
NothingStuck ==
    \A v \in Viewer : buf[v] # Empty /\ stash[v] = "idle" /\ io # "dead" =>
        \/ hasWork /\ io # "stopped"
        \/ v \in listed
        \/ io = "scan" /\ at <= v
        \/ ~running /\ io # "stopped" /\ ~last

(* What the I/O thread has in hand for v is newer than what is out, and    *)
(* what waits is newer than both.                                          *)
NewerBehind(v) ==
    /\ buf[v] # Empty => buf[v] > out[v]
    /\ hand # NoPayload /\ hand.viewer = v =>
         hand.frame > out[v] /\ (buf[v] # Empty => buf[v] > hand.frame)

(* The frames of a viewer reach the wrapped sink in the order they were    *)
(* built, each at most once.                                               *)
LatestLast == \A v \in Viewer : NewerBehind(v)

(* At every step of workers, I/O thread and flush the slots are in order:  *)
(* the hint is right whenever the lock is free, nothing waits while the    *)
(* I/O thread sleeps for good, and no payload overtakes a newer one.       *)
SlotsAgree == TypeOK /\ HintAgrees /\ NothingStuck /\ LatestLast

(* A drop drains what the last tick left: nothing is in a slot when the    *)
(* thread stops (the test everything_stashed_is_delivered_on_drop).        *)
DropDrains ==
    io = "stopped" => hand = NoPayload /\ \A v \in Viewer : buf[v] = Empty

(* When flush returns true, nothing that was waiting when it was called is *)
(* waiting still.                                                          *)
FlushEmpties ==
    flush = "true" => \A v \in Viewer : asked[v] # Empty => buf[v] # asked[v]

(* The two ways to wait for the hand-off end with nothing left of what     *)
(* they waited for: the thread that is joined by drop, and flush.          *)
EndsEmpty == DropDrains /\ FlushEmpties

(* The doc of flush says more: "Waits for everything stashed to reach the  *)
(* wrapped sink."  (Not so after a panic, nor for what has been swapped    *)
(* out and not brought yet.)                                               *)
FlushDelivers ==
    flush = "true" /\ io # "dead" => \A v \in Viewer : out[v] >= asked[v]

(* The hand-off is a mailbox that holds the latest payload of each viewer  *)
(* and is emptied for as long as the wrapped sink lives.                   *)
M == INSTANCE Mailbox WITH box <- buf, well <- io # "dead",
                         None <- NoPayload

ImplementsMailbox == M!Spec

(* ... and whatever waits goes, or is superseded, or the sink has panicked.*)
NothingWaits == M!FairSpec
=============================================================================
