---------------------------- MODULE ServingProofs ----------------------------
(***************************************************************************)
(* Proofs about what a viewer is served: how a payload is handed to the    *)
(* I/O thread (Handoff), for any number of viewers and payloads, and what  *)
(* the payload says (Replication), for any entities, places, policy and    *)
(* budget.                                                                 *)
(*                                                                         *)
(* Of the hand-off, its invariants, and that it implements the mailbox.    *)
(*                                                                         *)
(* Of what is sent, that a packet fits is a fact of the choice alone: the  *)
(* ranks of a ghost set are distinct (RecordsFit), so no more records are  *)
(* chosen than are asked for, and what is asked for is what the despawns   *)
(* leave (SlotsFit).  That the drift bounds the error relates the client   *)
(* to the table over everything that is on its way (After): DriftInv says  *)
(* who is held while a despawn of it waits (Owed), that a reading does not *)
(* come round a whole turn (Bounded), and what the client will believe of  *)
(* every other entity (Believed).                                          *)
(***************************************************************************)
EXTENDS Handoff, Replication, FiniteSetTheorems, WellFoundedInduction, TLAPS

-----------------------------------------------------------------------------
(* The hand-off.                                                           *)
-----------------------------------------------------------------------------
(* Who holds which lock, and what that says of the slot.                   *)
LocksAgree ==
    /\ \A v \in Viewer : holder[v] = "worker" <=> stash[v] \in {"written", "ready"}
    /\ \A v \in Viewer : holder[v] = "io" => io = "swap" /\ v = at
    /\ \A v \in Viewer : holder[v] = "worker" => v < len /\ buf[v] # Empty
    /\ \A v \in Viewer : stash[v] = "ready" => ready[v]
    /\ \A v \in Viewer : buf[v] # Empty => v < len
    /\ \A v \in Viewer : ready[v] => buf[v] # Empty

(* Where the I/O thread is, and what it has.                               *)
ThreadAgrees ==
    /\ io = "swap" => at \in listed /\ holder[at] = "io"
    /\ hand # NoPayload <=> io = "bring"
    /\ io \in {"parked", "stopped"} => listed = {}
    /\ last => ~running
    /\ io = "stopped" => last
    /\ io = "parked" => ~last
    /\ ~running => \A v \in Viewer : stash[v] = "idle"

(* Payloads are built before they are anywhere.                            *)
BuiltFirst(v) ==
    /\ buf[v] <= built[v]
    /\ out[v] <= built[v]
    /\ stash[v] = "first" => out[v] < built[v] /\ buf[v] < built[v]
    /\ hand # NoPayload /\ hand.viewer = v =>
         hand.frame <= built[v] /\ (stash[v] = "first" => hand.frame < built[v])

FramesBuilt == \A v \in Viewer : BuiltFirst(v)

(* What a flush has looked at and found empty.                             *)
FlushAgrees ==
    flush # "no" =>
        \A v \in Viewer :
            /\ asked[v] <= built[v]
            /\ stash[v] = "first" => asked[v] < built[v]
            /\ asked[v] # Empty => v < len
            /\ buf[v] # Empty => buf[v] >= asked[v]
            /\ found = 0 /\ asked[v] # Empty /\ v < looked => buf[v] # asked[v]
            /\ flush = "true" => found = 0 /\ (asked[v] # Empty => v < looked)

(* The pass after the loop, which no worker overlaps, finds what there is. *)
LastPassFinds ==
    last /\ io # "dead" =>
        \A v \in Viewer : buf[v] # Empty => v \in listed \/ (io = "scan" /\ at <= v)

IInv ==
    /\ TypeOK
    /\ LocksAgree
    /\ ThreadAgrees
    /\ HintAgrees
    /\ NothingStuck
    /\ LastPassFinds
    /\ FramesBuilt
    /\ LatestLast
    /\ FlushAgrees

LEMMA InitIInv == Init => IInv
<1> SUFFICES ASSUME Init PROVE IInv
  OBVIOUS
<1> USE HandoffAssumption DEF Init, Viewer, Frame, Empty
<1>1. TypeOK
  <2>1. hasWork \in BOOLEAN /\ last \in BOOLEAN /\ ready \in [Viewer -> BOOLEAN]
    OBVIOUS
  <2>2. QED
    BY <2>1 DEF TypeOK
<1>2. LocksAgree /\ ThreadAgrees /\ HintAgrees
  BY DEF LocksAgree, ThreadAgrees, HintAgrees
<1>3. NothingStuck /\ LastPassFinds
  BY DEF NothingStuck, LastPassFinds
<1>4. FramesBuilt /\ LatestLast /\ FlushAgrees
  BY DEF FramesBuilt, BuiltFirst, LatestLast, NewerBehind, FlushAgrees
<1>5. QED
  BY <1>1, <1>2, <1>3, <1>4 DEF IInv

-----------------------------------------------------------------------------
(* A flush touches nothing but its own state and has_work, which it sets.  *)
LEMMA FlushFrame ==
    Flush => /\ UNCHANGED <<slotVars, workerVars, ioVars, running>>
             /\ hasWork' = hasWork \/ hasWork' = TRUE
  BY DEF Flush, AskFlush, Look, Flushed, FlushReturns, SeePending, LookAgain, GiveUp, Looked

(* Every step leaves the variables in their types.                         *)
LEMMA TypeStep ==
    TypeOK /\ LocksAgree /\ ThreadAgrees /\ HintAgrees /\ [Next]_vars
    => TypeOK'
<1> SUFFICES ASSUME TypeOK, LocksAgree, ThreadAgrees, HintAgrees, [Next]_vars
    PROVE  TypeOK'
  OBVIOUS
<1> USE HandoffAssumption
    DEF TypeOK, Viewer, Frame, Empty, LocksAgree, ThreadAgrees, HintAgrees,
        slotVars, workerVars, ioVars, flushVars
<1>1. ASSUME NEW v \in Viewer, SendFirst(v) PROVE TypeOK'
  BY <1>1 DEF SendFirst, BuildPayload
<1>2. ASSUME NEW v \in Viewer, Grow(v) PROVE TypeOK'
  BY <1>2 DEF Grow
<1>3. ASSUME NEW v \in Viewer, Send(v) PROVE TypeOK'
  BY <1>3 DEF Send, BuildPayload
<1>4. ASSUME NEW v \in Viewer, SendLost(v) PROVE TypeOK'
  BY <1>4 DEF SendLost, BuildPayload
<1>5. ASSUME NEW v \in Viewer, StashReady(v) PROVE TypeOK'
  BY <1>5 DEF StashReady
<1>6. ASSUME NEW v \in Viewer, StashDone(v) PROVE TypeOK'
  BY <1>6 DEF StashDone
<1>7. CASE Wake
  <2>1. hasWork' \in BOOLEAN
    BY <1>7 DEF Wake
  <2>2. QED
    BY <1>7, <2>1 DEF Wake
<1>8. CASE WakeLast
  BY <1>8 DEF WakeLast
<1>9. CASE Scan
  BY <1>9 DEF Scan
<1>10. CASE EndScan
  BY <1>10 DEF EndScan
<1>11. ASSUME NEW v \in Viewer, Lock(v) PROVE TypeOK'
  BY <1>11 DEF Lock
<1>12. CASE Swap
  BY <1>12 DEF Swap
<1>13. CASE Bring
  BY <1>13 DEF Bring
<1>14. CASE Park
  BY <1>14 DEF Park
<1>15. CASE Panic
  BY <1>15 DEF Panic
<1>16. CASE AskFlush
  BY <1>16 DEF AskFlush
<1>17. CASE Look
  BY <1>17 DEF Look
<1>18. CASE Flushed
  BY <1>18 DEF Flushed, Looked
<1>19. CASE SeePending
  BY <1>19 DEF SeePending, Looked, Healthy
<1>20. CASE LookAgain
  BY <1>20 DEF LookAgain
<1>21. CASE GiveUp
  BY <1>21 DEF GiveUp, Looked
<1>22. CASE FlushReturns
  BY <1>22 DEF FlushReturns
<1>23. CASE Drop
  BY <1>23 DEF Drop
<1>24. CASE UNCHANGED vars
  BY <1>24 DEF vars
<1>25. QED
  BY <1>1, <1>2, <1>3, <1>4, <1>5, <1>6, <1>7, <1>8, <1>9, <1>10, <1>11, <1>12,
     <1>13, <1>14, <1>15, <1>16, <1>17, <1>18, <1>19, <1>20, <1>21, <1>22, <1>23, <1>24
  DEF Next, Worker, IOThread, Flush

(* ... the locks and what they guard,                                      *)
LEMMA LocksStep ==
    TypeOK /\ LocksAgree /\ ThreadAgrees /\ HintAgrees /\ FramesBuilt /\ [Next]_vars
    => LocksAgree'
<1> SUFFICES ASSUME TypeOK, LocksAgree, ThreadAgrees, HintAgrees, FramesBuilt, [Next]_vars
    PROVE  LocksAgree'
  OBVIOUS
<1> USE HandoffAssumption
    DEF TypeOK, Viewer, Frame, Empty, LocksAgree, ThreadAgrees, HintAgrees,
        slotVars, workerVars, ioVars, flushVars
<1>1. ASSUME NEW v \in Viewer, SendFirst(v) PROVE LocksAgree'
  BY <1>1 DEF SendFirst, BuildPayload
<1>2. ASSUME NEW v \in Viewer, Grow(v) PROVE LocksAgree'
  BY <1>2 DEF Grow, SlotsRead, FramesBuilt, BuiltFirst
<1>3. ASSUME NEW v \in Viewer, Send(v) PROVE LocksAgree'
  BY <1>3 DEF Send, BuildPayload
<1>4. ASSUME NEW v \in Viewer, SendLost(v) PROVE LocksAgree'
  BY <1>4 DEF SendLost, BuildPayload
<1>5. ASSUME NEW v \in Viewer, StashReady(v) PROVE LocksAgree'
  BY <1>5 DEF StashReady
<1>6. ASSUME NEW v \in Viewer, StashDone(v) PROVE LocksAgree'
  BY <1>6 DEF StashDone
<1>7. CASE Wake
  BY <1>7 DEF Wake
<1>8. CASE WakeLast
  BY <1>8 DEF WakeLast
<1>9. CASE Scan
  BY <1>9 DEF Scan
<1>10. CASE EndScan
  BY <1>10 DEF EndScan
<1>11. ASSUME NEW v \in Viewer, Lock(v) PROVE LocksAgree'
  BY <1>11 DEF Lock
<1>12. CASE Swap
  BY <1>12 DEF Swap
<1>13. CASE Bring
  BY <1>13 DEF Bring
<1>14. CASE Park
  BY <1>14 DEF Park
<1>15. CASE Panic
  BY <1>15 DEF Panic
<1>16. CASE Flush
  BY <1>16, FlushFrame DEF slotVars
<1>17. CASE Drop
  BY <1>17 DEF Drop
<1>18. CASE UNCHANGED vars
  BY <1>18 DEF vars
<1>19. QED
  BY <1>1, <1>2, <1>3, <1>4, <1>5, <1>6, <1>7, <1>8, <1>9, <1>10, <1>11, <1>12,
     <1>13, <1>14, <1>15, <1>16, <1>17, <1>18
  DEF Next, Worker, IOThread

(* ... the I/O thread,                                                     *)
LEMMA ThreadStep ==
    TypeOK /\ LocksAgree /\ ThreadAgrees /\ HintAgrees /\ [Next]_vars
    => ThreadAgrees'
<1> SUFFICES ASSUME TypeOK, LocksAgree, ThreadAgrees, HintAgrees, [Next]_vars
    PROVE  ThreadAgrees'
  OBVIOUS
<1> USE HandoffAssumption
    DEF TypeOK, Viewer, Frame, Empty, LocksAgree, ThreadAgrees, slotVars,
        workerVars, ioVars, flushVars
<1>1. ASSUME NEW v \in Viewer, SendFirst(v) PROVE ThreadAgrees'
  BY <1>1 DEF SendFirst, BuildPayload
<1>2. ASSUME NEW v \in Viewer, Grow(v) PROVE ThreadAgrees'
  BY <1>2 DEF Grow
<1>3. ASSUME NEW v \in Viewer, Send(v) PROVE ThreadAgrees'
  BY <1>3 DEF Send, BuildPayload
<1>4. ASSUME NEW v \in Viewer, SendLost(v) PROVE ThreadAgrees'
  BY <1>4 DEF SendLost, BuildPayload
<1>5. ASSUME NEW v \in Viewer, StashReady(v) PROVE ThreadAgrees'
  BY <1>5 DEF StashReady
<1>6. ASSUME NEW v \in Viewer, StashDone(v) PROVE ThreadAgrees'
  BY <1>6 DEF StashDone
<1>7. CASE Wake
  BY <1>7 DEF Wake
<1>8. CASE WakeLast
  BY <1>8 DEF WakeLast
<1>9. CASE Scan
  BY <1>9 DEF Scan
<1>10. CASE EndScan
  BY <1>10 DEF EndScan
<1>11. ASSUME NEW v \in Viewer, Lock(v) PROVE ThreadAgrees'
  BY <1>11 DEF Lock
<1>12. CASE Swap
  BY <1>12 DEF Swap
<1>13. CASE Bring
  BY <1>13 DEF Bring
<1>14. CASE Park
  BY <1>14 DEF Park
<1>15. CASE Panic
  BY <1>15 DEF Panic
<1>16. CASE Flush
  <2>1. UNCHANGED <<len, holder, stash, running, io, at, listed, last, hand>>
    BY <1>16, FlushFrame
  <2>2. QED
    BY <2>1
<1>17. CASE Drop
  BY <1>17 DEF Drop
<1>18. CASE UNCHANGED vars
  BY <1>18 DEF vars
<1>19. QED
  BY <1>1, <1>2, <1>3, <1>4, <1>5, <1>6, <1>7, <1>8, <1>9, <1>10, <1>11, <1>12,
     <1>13, <1>14, <1>15, <1>16, <1>17, <1>18
  DEF Next, Worker, IOThread

(* ... the hints,                                                          *)
LEMMA HintStep ==
    TypeOK /\ LocksAgree /\ ThreadAgrees /\ HintAgrees /\ FramesBuilt /\ [Next]_vars
    => HintAgrees'
<1> SUFFICES ASSUME TypeOK, LocksAgree, ThreadAgrees, HintAgrees, FramesBuilt, [Next]_vars
    PROVE  HintAgrees'
  OBVIOUS
<1> USE HandoffAssumption
    DEF TypeOK, Viewer, Frame, Empty, LocksAgree, ThreadAgrees, HintAgrees,
        slotVars, workerVars, ioVars, flushVars
<1>1. ASSUME NEW v \in Viewer, SendFirst(v) PROVE HintAgrees'
  BY <1>1 DEF SendFirst, BuildPayload
<1>2. ASSUME NEW v \in Viewer, Grow(v) PROVE HintAgrees'
  BY <1>2 DEF Grow, SlotsRead, FramesBuilt, BuiltFirst
<1>3. ASSUME NEW v \in Viewer, Send(v) PROVE HintAgrees'
  BY <1>3 DEF Send, BuildPayload
<1>4. ASSUME NEW v \in Viewer, SendLost(v) PROVE HintAgrees'
  BY <1>4 DEF SendLost, BuildPayload
<1>5. ASSUME NEW v \in Viewer, StashReady(v) PROVE HintAgrees'
  BY <1>5 DEF StashReady
<1>6. ASSUME NEW v \in Viewer, StashDone(v) PROVE HintAgrees'
  BY <1>6 DEF StashDone
<1>7. CASE Wake
  BY <1>7 DEF Wake
<1>8. CASE WakeLast
  BY <1>8 DEF WakeLast
<1>9. CASE Scan
  BY <1>9 DEF Scan
<1>10. CASE EndScan
  BY <1>10 DEF EndScan
<1>11. ASSUME NEW v \in Viewer, Lock(v) PROVE HintAgrees'
  BY <1>11 DEF Lock
<1>12. CASE Swap
  BY <1>12 DEF Swap
<1>13. CASE Bring
  BY <1>13 DEF Bring
<1>14. CASE Park
  BY <1>14 DEF Park
<1>15. CASE Panic
  BY <1>15 DEF Panic
<1>16. CASE Flush
  <2>1. UNCHANGED <<buf, ready, holder, listed>>
    BY <1>16, FlushFrame
  <2>2. QED
    BY <2>1
<1>17. CASE Drop
  BY <1>17 DEF Drop
<1>18. CASE UNCHANGED vars
  BY <1>18 DEF vars
<1>19. QED
  BY <1>1, <1>2, <1>3, <1>4, <1>5, <1>6, <1>7, <1>8, <1>9, <1>10, <1>11, <1>12,
     <1>13, <1>14, <1>15, <1>16, <1>17, <1>18
  DEF Next, Worker, IOThread

(* ... the payloads that wait: a pass that begins has every slot ahead,    *)
(* and it lists those that are ready as it goes;                           *)
LEMMA StuckStep ==
    TypeOK /\ LocksAgree /\ ThreadAgrees
    /\ HintAgrees /\ NothingStuck /\ LastPassFinds /\ [Next]_vars
    => (NothingStuck /\ LastPassFinds)'
<1> SUFFICES ASSUME TypeOK, LocksAgree, ThreadAgrees, HintAgrees, NothingStuck, LastPassFinds, [Next]_vars
    PROVE  (NothingStuck /\ LastPassFinds)'
  OBVIOUS
<1> USE HandoffAssumption
    DEF TypeOK, Viewer, Frame, Empty, LocksAgree, ThreadAgrees, HintAgrees,
        NothingStuck, LastPassFinds, slotVars, workerVars, ioVars, flushVars
<1>1. ASSUME NEW v \in Viewer, SendFirst(v) PROVE (NothingStuck /\ LastPassFinds)'
  BY <1>1 DEF SendFirst, BuildPayload
<1>2. ASSUME NEW v \in Viewer, Grow(v) PROVE (NothingStuck /\ LastPassFinds)'
  BY <1>2 DEF Grow
<1>3. ASSUME NEW v \in Viewer, Send(v) PROVE (NothingStuck /\ LastPassFinds)'
  BY <1>3 DEF Send, BuildPayload
<1>4. ASSUME NEW v \in Viewer, SendLost(v) PROVE (NothingStuck /\ LastPassFinds)'
  BY <1>4 DEF SendLost, BuildPayload
<1>5. ASSUME NEW v \in Viewer, StashReady(v) PROVE (NothingStuck /\ LastPassFinds)'
  BY <1>5 DEF StashReady
<1>6. ASSUME NEW v \in Viewer, StashDone(v) PROVE (NothingStuck /\ LastPassFinds)'
  BY <1>6 DEF StashDone
<1>7. CASE Wake
  BY <1>7 DEF Wake
<1>8. CASE WakeLast
  BY <1>8 DEF WakeLast
<1>9. CASE Scan
  BY <1>9 DEF Scan
<1>10. CASE EndScan
  BY <1>10 DEF EndScan
<1>11. ASSUME NEW v \in Viewer, Lock(v) PROVE (NothingStuck /\ LastPassFinds)'
  BY <1>11 DEF Lock
<1>12. CASE Swap
  BY <1>12 DEF Swap
<1>13. CASE Bring
  BY <1>13 DEF Bring
<1>14. CASE Park
  BY <1>14 DEF Park
<1>15. CASE Panic
  BY <1>15 DEF Panic
<1>16. CASE Flush
  BY <1>16, FlushFrame DEF slotVars
<1>17. CASE Drop
  BY <1>17 DEF Drop
<1>18. CASE UNCHANGED vars
  BY <1>18 DEF vars
<1>19. QED
  BY <1>1, <1>2, <1>3, <1>4, <1>5, <1>6, <1>7, <1>8, <1>9, <1>10, <1>11, <1>12,
     <1>13, <1>14, <1>15, <1>16, <1>17, <1>18
  DEF Next, Worker, IOThread

(* ... the numbers of the payloads, which only grow,                       *)
LEMMA BuiltStep ==
    TypeOK /\ ThreadAgrees /\ FramesBuilt /\ [Next]_vars
    => FramesBuilt'
<1> SUFFICES ASSUME TypeOK, ThreadAgrees, FramesBuilt, [Next]_vars
    PROVE  FramesBuilt'
  OBVIOUS
<1> USE HandoffAssumption
    DEF TypeOK, Viewer, Frame, Empty, ThreadAgrees, FramesBuilt, BuiltFirst,
        slotVars, workerVars, ioVars, flushVars
<1>1. ASSUME NEW v \in Viewer, SendFirst(v) PROVE FramesBuilt'
  BY <1>1, SMTT(60) DEF SendFirst, BuildPayload
<1>2. ASSUME NEW v \in Viewer, Grow(v) PROVE FramesBuilt'
  BY <1>2 DEF Grow
<1>3. ASSUME NEW v \in Viewer, Send(v) PROVE FramesBuilt'
  <2>1. built'[v] = built[v] + 1 /\ \A w \in Viewer \ {v} : built'[w] = built[w]
    BY <1>3 DEF Send, BuildPayload
  <2>2. \A w \in Viewer : buf[w] \in Int /\ built[w] \in Int /\ out[w] \in Int
    OBVIOUS
  <2>3. hand # NoPayload => hand.frame \in Int
    OBVIOUS
  <2>4. stash[v] = "idle"
    BY <1>3 DEF Send, BuildPayload
  <2>5. UNCHANGED <<out, hand>> /\ \A w \in Viewer \ {v} : UNCHANGED <<buf[w], stash[w]>>
    BY <1>3 DEF Send
  <2>6. buf'[v] = built'[v] /\ stash'[v] = "written"
    BY <1>3 DEF Send
  <2>7. ASSUME NEW w \in Viewer PROVE BuiltFirst(w)'
    <3>1. CASE w = v
      BY <2>1, <2>2, <2>3, <2>4, <2>5, <2>6, <3>1
    <3>2. CASE w # v
      BY <2>1, <2>2, <2>3, <2>5, <3>2
    <3>3. QED
      BY <3>1, <3>2
  <2>8. QED
    BY <2>7
<1>4. ASSUME NEW v \in Viewer, SendLost(v) PROVE FramesBuilt'
  <2>1. built'[v] = built[v] + 1 /\ \A w \in Viewer \ {v} : built'[w] = built[w]
    BY <1>4 DEF SendLost, BuildPayload
  <2>2. \A w \in Viewer : buf[w] \in Int /\ built[w] \in Int /\ out[w] \in Int
    OBVIOUS
  <2>3. hand # NoPayload => hand.frame \in Int
    OBVIOUS
  <2>4. stash[v] = "idle"
    BY <1>4 DEF SendLost, BuildPayload
  <2>5. UNCHANGED <<out, hand>> /\ \A w \in Viewer \ {v} : UNCHANGED <<buf[w], stash[w]>>
    BY <1>4 DEF SendLost
  <2>6. buf'[v] = buf[v] /\ stash'[v] = stash[v]
    BY <1>4 DEF SendLost
  <2>7. ASSUME NEW w \in Viewer PROVE BuiltFirst(w)'
    <3>1. CASE w = v
      BY <2>1, <2>2, <2>3, <2>4, <2>5, <2>6, <3>1
    <3>2. CASE w # v
      BY <2>1, <2>2, <2>3, <2>5, <3>2
    <3>3. QED
      BY <3>1, <3>2
  <2>8. QED
    BY <2>7
<1>5. ASSUME NEW v \in Viewer, StashReady(v) PROVE FramesBuilt'
  BY <1>5 DEF StashReady
<1>6. ASSUME NEW v \in Viewer, StashDone(v) PROVE FramesBuilt'
  BY <1>6 DEF StashDone
<1>7. CASE Wake
  BY <1>7 DEF Wake
<1>8. CASE WakeLast
  BY <1>8 DEF WakeLast
<1>9. CASE Scan
  BY <1>9 DEF Scan
<1>10. CASE EndScan
  BY <1>10 DEF EndScan
<1>11. ASSUME NEW v \in Viewer, Lock(v) PROVE FramesBuilt'
  BY <1>11 DEF Lock
<1>12. CASE Swap
  BY <1>12 DEF Swap
<1>13. CASE Bring
  BY <1>13 DEF Bring
<1>14. CASE Park
  BY <1>14 DEF Park
<1>15. CASE Panic
  BY <1>15 DEF Panic
<1>16. CASE Flush
  BY <1>16, FlushFrame DEF slotVars
<1>17. CASE Drop
  BY <1>17 DEF Drop
<1>18. CASE UNCHANGED vars
  BY <1>18 DEF vars
<1>19. QED
  BY <1>1, <1>2, <1>3, <1>4, <1>5, <1>6, <1>7, <1>8, <1>9, <1>10, <1>11, <1>12,
     <1>13, <1>14, <1>15, <1>16, <1>17, <1>18
  DEF Next, Worker, IOThread

(* ... so what is newer stays behind what is older,                        *)
LEMMA LatestStep ==
    TypeOK /\ LocksAgree /\ ThreadAgrees /\ FramesBuilt /\ LatestLast /\ [Next]_vars
    => LatestLast'
<1> SUFFICES ASSUME TypeOK, LocksAgree, ThreadAgrees, FramesBuilt, LatestLast, [Next]_vars
    PROVE  LatestLast'
  OBVIOUS
<1> USE HandoffAssumption
    DEF TypeOK, Viewer, Frame, Empty, LocksAgree, ThreadAgrees, FramesBuilt,
        BuiltFirst, LatestLast, NewerBehind, slotVars, workerVars, ioVars,
        flushVars
<1>1. ASSUME NEW v \in Viewer, SendFirst(v) PROVE LatestLast'
  BY <1>1 DEF SendFirst, BuildPayload
<1>2. ASSUME NEW v \in Viewer, Grow(v) PROVE LatestLast'
  BY <1>2 DEF Grow
<1>3. ASSUME NEW v \in Viewer, Send(v) PROVE LatestLast'
  <2>1. built'[v] = built[v] + 1 /\ \A w \in Viewer \ {v} : built'[w] = built[w]
    BY <1>3 DEF Send, BuildPayload
  <2>2. \A w \in Viewer : buf[w] \in Int /\ built[w] \in Int /\ out[w] \in Int
    OBVIOUS
  <2>3. hand # NoPayload => hand.frame \in Int
    OBVIOUS
  <2>4. stash[v] = "idle"
    BY <1>3 DEF Send, BuildPayload
  <2>5. UNCHANGED <<out, hand>> /\ \A w \in Viewer \ {v} : UNCHANGED <<buf[w], stash[w]>>
    BY <1>3 DEF Send
  <2>6. buf'[v] = built'[v] /\ stash'[v] = "written"
    BY <1>3 DEF Send
  <2>7. ASSUME NEW w \in Viewer PROVE NewerBehind(w)'
    <3>1. CASE w = v
      BY <2>1, <2>2, <2>3, <2>4, <2>5, <2>6, <3>1
    <3>2. CASE w # v
      BY <2>1, <2>2, <2>3, <2>5, <3>2
    <3>3. QED
      BY <3>1, <3>2
  <2>8. QED
    BY <2>7
<1>4. ASSUME NEW v \in Viewer, SendLost(v) PROVE LatestLast'
  BY <1>4 DEF SendLost, BuildPayload
<1>5. ASSUME NEW v \in Viewer, StashReady(v) PROVE LatestLast'
  BY <1>5 DEF StashReady
<1>6. ASSUME NEW v \in Viewer, StashDone(v) PROVE LatestLast'
  BY <1>6 DEF StashDone
<1>7. CASE Wake
  BY <1>7 DEF Wake
<1>8. CASE WakeLast
  BY <1>8 DEF WakeLast
<1>9. CASE Scan
  BY <1>9 DEF Scan
<1>10. CASE EndScan
  BY <1>10 DEF EndScan
<1>11. ASSUME NEW v \in Viewer, Lock(v) PROVE LatestLast'
  BY <1>11 DEF Lock
<1>12. CASE Swap
  BY <1>12 DEF Swap
<1>13. CASE Bring
  BY <1>13 DEF Bring
<1>14. CASE Park
  BY <1>14 DEF Park
<1>15. CASE Panic
  BY <1>15 DEF Panic
<1>16. CASE Flush
  BY <1>16, FlushFrame DEF slotVars
<1>17. CASE Drop
  BY <1>17 DEF Drop
<1>18. CASE UNCHANGED vars
  BY <1>18 DEF vars
<1>19. QED
  BY <1>1, <1>2, <1>3, <1>4, <1>5, <1>6, <1>7, <1>8, <1>9, <1>10, <1>11, <1>12,
     <1>13, <1>14, <1>15, <1>16, <1>17, <1>18
  DEF Next, Worker, IOThread

(* ... and what a flush has seen stays seen.                               *)
LEMMA FlushStep ==
    TypeOK /\ LocksAgree /\ FramesBuilt /\ FlushAgrees /\ [Next]_vars
    => FlushAgrees'
<1> SUFFICES ASSUME TypeOK, LocksAgree, FramesBuilt, FlushAgrees, [Next]_vars
    PROVE  FlushAgrees'
  OBVIOUS
<1> USE HandoffAssumption
    DEF TypeOK, Viewer, Frame, Empty, LocksAgree, FramesBuilt, BuiltFirst,
        FlushAgrees, slotVars, workerVars, ioVars, flushVars
<1>1. ASSUME NEW v \in Viewer, SendFirst(v) PROVE FlushAgrees'
  BY <1>1 DEF SendFirst, BuildPayload
<1>2. ASSUME NEW v \in Viewer, Grow(v) PROVE FlushAgrees'
  BY <1>2 DEF Grow
<1>3. ASSUME NEW v \in Viewer, Send(v) PROVE FlushAgrees'
  BY <1>3 DEF Send, BuildPayload
<1>4. ASSUME NEW v \in Viewer, SendLost(v) PROVE FlushAgrees'
  BY <1>4 DEF SendLost, BuildPayload
<1>5. ASSUME NEW v \in Viewer, StashReady(v) PROVE FlushAgrees'
  BY <1>5 DEF StashReady
<1>6. ASSUME NEW v \in Viewer, StashDone(v) PROVE FlushAgrees'
  BY <1>6 DEF StashDone
<1>7. CASE Wake
  BY <1>7 DEF Wake
<1>8. CASE WakeLast
  BY <1>8 DEF WakeLast
<1>9. CASE Scan
  BY <1>9 DEF Scan
<1>10. CASE EndScan
  BY <1>10 DEF EndScan
<1>11. ASSUME NEW v \in Viewer, Lock(v) PROVE FlushAgrees'
  BY <1>11 DEF Lock
<1>12. CASE Swap
  BY <1>12 DEF Swap
<1>13. CASE Bring
  BY <1>13 DEF Bring
<1>14. CASE Park
  BY <1>14 DEF Park
<1>15. CASE Panic
  BY <1>15 DEF Panic
<1>16. CASE AskFlush
  BY <1>16 DEF AskFlush
<1>17. CASE Look
  BY <1>17 DEF Look
<1>18. CASE Flushed
  BY <1>18 DEF Flushed, Looked
<1>19. CASE SeePending
  BY <1>19 DEF SeePending, Looked, Healthy
<1>20. CASE LookAgain
  BY <1>20 DEF LookAgain
<1>21. CASE GiveUp
  BY <1>21 DEF GiveUp, Looked
<1>22. CASE FlushReturns
  BY <1>22 DEF FlushReturns
<1>23. CASE Drop
  BY <1>23 DEF Drop
<1>24. CASE UNCHANGED vars
  BY <1>24 DEF vars
<1>25. QED
  BY <1>1, <1>2, <1>3, <1>4, <1>5, <1>6, <1>7, <1>8, <1>9, <1>10, <1>11, <1>12,
     <1>13, <1>14, <1>15, <1>16, <1>17, <1>18, <1>19, <1>20, <1>21, <1>22, <1>23, <1>24
  DEF Next, Worker, IOThread, Flush
-----------------------------------------------------------------------------
(* The inductive invariant holds in every reachable state.                 *)
THEOREM IInvInvariant == Spec => []IInv
<1>1. IInv /\ [Next]_vars => IInv'
  BY TypeStep, LocksStep, ThreadStep, HintStep, StuckStep, BuiltStep, LatestStep,
     FlushStep
  DEF IInv
<1>2. QED
  BY InitIInv, <1>1, PTL DEF Spec

(* The variables are well formed for any number of viewers.                *)
THEOREM TypeCorrect == Spec => []TypeOK
  BY IInvInvariant, PTL DEF IInv

(* "Set and cleared under `buf`, so it cannot disagree with what is there."*)
THEOREM HintAlwaysAgrees == Spec => []HintAgrees
  BY IInvInvariant, PTL DEF IInv

(* No payload waits in a slot while the I/O thread sleeps for good.        *)
THEOREM NothingEverStuck == Spec => []NothingStuck
  BY IInvInvariant, PTL DEF IInv

(* Payloads reach the wrapped sink in order, each at most once.            *)
THEOREM LatestAlwaysLast == Spec => []LatestLast
  BY IInvInvariant, PTL DEF IInv

(* A drop leaves nothing behind: the pass after the loop has every slot    *)
(* ahead of it, no worker is left to fill one, and it lists what is full.  *)
THEOREM DropAlwaysDrains == Spec => []DropDrains
<1>1. IInv => DropDrains
  BY DEF IInv, DropDrains, ThreadAgrees, LastPassFinds
<1>2. QED
  BY IInvInvariant, <1>1, PTL

(* What was waiting when flush was called is not waiting when it is done.  *)
THEOREM FlushAlwaysEmpties == Spec => []FlushEmpties
<1>1. IInv => FlushEmpties
  BY DEF IInv, FlushEmpties, FlushAgrees
<1>2. QED
  BY IInvInvariant, <1>1, PTL

(* The slots are in order in every reachable state, for any number of      *)
(* viewers and payloads.                                                   *)
THEOREM SlotsAlwaysAgree == Spec => []SlotsAgree
  BY TypeCorrect, HintAlwaysAgrees, NothingEverStuck, LatestAlwaysLast, PTL
  DEF SlotsAgree

(* Both ways to wait for the hand-off end with nothing left of what they   *)
(* waited for.                                                             *)
THEOREM AlwaysEndsEmpty == Spec => []EndsEmpty
  BY DropAlwaysDrains, FlushAlwaysEmpties, PTL DEF EndsEmpty

-----------------------------------------------------------------------------
(* Each step of the hand-off is a step of the mailbox or none.             *)
LEMMA MailboxStep == IInv /\ [Next]_vars => [M!Next]_M!mailVars
<1> SUFFICES ASSUME IInv, [Next]_vars PROVE [M!Next]_M!mailVars
  OBVIOUS
<1> USE HandoffAssumption
    DEF M!mailVars, slotVars, workerVars, ioVars, flushVars, Viewer, Frame, Empty
<1> DEFINE Still == UNCHANGED <<buf, hand, out>> /\ (io # "dead")' = (io # "dead")
<1>0. Still => [M!Next]_M!mailVars
  OBVIOUS
<1>1. ASSUME NEW v \in Viewer, Worker(v) PROVE [M!Next]_M!mailVars
  <2>0. /\ buf[v] \in Nat /\ out[v] \in Nat /\ built[v] \in 0 .. MaxFrames
        /\ hand # NoPayload => hand.frame \in Int
        /\ BuiltFirst(v)
    BY DEF IInv, TypeOK, FramesBuilt
  <2>1. CASE SendFirst(v) \/ SendLost(v) \/ StashReady(v) \/ StashDone(v)
    BY <2>1, <1>0 DEF SendFirst, SendLost, StashReady, StashDone, BuildPayload
  <2>2. CASE Grow(v)
    <3>1. buf[v] < built[v] /\ out[v] < built[v]
      BY <2>0, <2>2 DEF Grow, BuiltFirst
    <3>2. hand # NoPayload /\ hand.viewer = v => hand.frame < built[v]
      BY <2>0, <2>2 DEF Grow, BuiltFirst
    <3>3. built[v] \in Frame
      BY <2>0, <3>1
    <3>4. M!Put(v, built[v])
      BY <2>0, <2>2, <3>1, <3>2 DEF Grow, M!Put
    <3>5. QED
      BY <3>3, <3>4 DEF M!Next, M!Frame
  <2>3. CASE Send(v)
    <3>1. built[v] + 1 \in Frame /\ buf' = [buf EXCEPT ![v] = built[v] + 1]
      BY <2>3 DEF Send, BuildPayload, IInv, TypeOK
    <3>2. built[v] + 1 > buf[v] /\ built[v] + 1 > out[v]
      BY <2>0 DEF BuiltFirst
    <3>3. hand # NoPayload /\ hand.viewer = v => built[v] + 1 > hand.frame
      BY <2>0 DEF BuiltFirst
    <3>4. M!Put(v, built[v] + 1)
      BY <2>3, <3>1, <3>2, <3>3 DEF Send, M!Put
    <3>5. QED
      BY <3>1, <3>4 DEF M!Next, M!Frame
  <2>4. QED
    BY <1>1, <2>1, <2>2, <2>3 DEF Worker
<1>2. CASE Wake \/ WakeLast \/ Scan \/ EndScan \/ Park
  BY <1>2, <1>0 DEF Wake, WakeLast, Scan, EndScan, Park
<1>3. ASSUME NEW v \in Viewer, Lock(v) PROVE [M!Next]_M!mailVars
  BY <1>3, <1>0 DEF Lock
<1>4. CASE Swap
  <2>1. at \in Viewer /\ hand = NoPayload
    BY <1>4 DEF Swap, IInv, TypeOK, ThreadAgrees
  <2>2. M!Take(at)
    BY <1>4, <2>1 DEF Swap, M!Take, M!Empty
  <2>3. QED
    BY <2>1, <2>2 DEF M!Next
<1>5. CASE Bring
  BY <1>5 DEF Bring, M!Next, M!Bring, IInv, ThreadAgrees
<1>6. CASE Panic
  BY <1>6 DEF Panic, M!Next, M!Fail, IInv, ThreadAgrees
<1>7. CASE Flush
  BY <1>7, <1>0, FlushFrame
<1>8. CASE Drop
  BY <1>8, <1>0 DEF Drop
<1>9. CASE UNCHANGED vars
  BY <1>9, <1>0 DEF vars
<1>10. QED
  BY <1>1, <1>2, <1>3, <1>4, <1>5, <1>6, <1>7, <1>8, <1>9 DEF Next, IOThread

(* The hand-off, with its locks, its hint and its scan, is a mailbox that  *)
(* holds the latest payload of each viewer.                                *)
THEOREM HandoffImplementsMailbox == Spec => ImplementsMailbox
<1>1. Init => M!Init
  BY DEF Init, M!Init, M!Empty, Empty
<1>2. QED
  BY IInvInvariant, MailboxStep, <1>1, PTL DEF Spec, ImplementsMailbox, M!Spec

-----------------------------------------------------------------------------
(* What is sent.                                                           *)
-----------------------------------------------------------------------------
(* The chosen are told apart by their ranks, which are below what is asked *)
(* for.                                                                    *)
LEMMA RecordsFit ==
    ASSUME NEW set \in SUBSET Entity, NEW slots \in Nat,
           \A e \in set : Score(e) \in Int
    PROVE  Records(set, slots) \in Seq(set) /\ Len(Records(set, slots)) <= slots
<1> DEFINE score == [e \in set |-> Score(e)]
           ahead(e, f) ==
               \/ score[e] > score[f]
               \/ /\ score[e] = score[f]
                  /\ \/ ghosts[e] # None /\ ghosts[f] = None
                     \/ (ghosts[e] = None <=> ghosts[f] = None) /\ e < f
           before(e) == {f \in set : ahead(f, e)}
           rank == [e \in set |-> Cardinality(before(e))]
           chosen == {e \in set : rank[e] < slots /\ score[e] > 0}
           all == [i \in 1 .. Cardinality(chosen) |->
                      CHOOSE e \in chosen : rank[e] = i - 1]
<1>0. Records(set, slots) = all
  BY DEF Records
<1>a. score \in [set -> Int] /\ set \in SUBSET Nat /\ IsFiniteSet(set)
  BY ReplicationAssumption, FS_Subset
<1> HIDE DEF score
<1>1. \A e \in set : ~ahead(e, e)
  BY <1>a
<1>2. \A e, f \in set : e # f => ahead(e, f) \/ ahead(f, e)
  BY <1>a
<1>3. \A e, f, g \in set : ahead(e, f) /\ ahead(f, g) => ahead(e, g)
  BY <1>a
<1>3a. \A e, f \in set : ahead(e, f) => score[e] >= score[f]
  BY <1>a
<1> HIDE DEF ahead
<1>4. \A e \in set : IsFiniteSet(before(e)) /\ Cardinality(before(e)) \in Nat
  BY <1>a, FS_Subset, FS_CardinalityType
<1>5. ASSUME NEW e \in set, NEW S \in SUBSET set, before(e) \subseteq S, e \in S
      PROVE  rank[e] < Cardinality(S)
  <2>1. IsFiniteSet(S) /\ Cardinality(S) \in Nat
    BY <1>a, FS_Subset, FS_CardinalityType
  <2>2. Cardinality(before(e)) <= Cardinality(S)
    BY <2>1, <1>5, FS_Subset
  <2>3. e \notin before(e)
    BY <1>1
  <2>4. Cardinality(before(e)) # Cardinality(S)
    BY <2>1, <2>3, <1>5, FS_Subset
  <2>5. rank[e] = Cardinality(before(e))
    OBVIOUS
  <2>6. QED
    BY <2>1, <2>2, <2>4, <2>5, <1>4
<1>6. \A e, f \in set : ahead(e, f) => rank[e] < rank[f]
  <2> SUFFICES ASSUME NEW e \in set, NEW f \in set, ahead(e, f)
               PROVE  rank[e] < rank[f]
    OBVIOUS
  <2>1. before(e) \subseteq before(f) /\ e \in before(f) /\ before(f) \subseteq set
    BY <1>3
  <2>2. rank[e] < Cardinality(before(f))
    <3> HIDE DEF before, rank
    <3> QED  BY <2>1, <1>5
  <2>3. QED
    BY <2>2
<1>7. \A e \in set : rank[e] \in Nat
  BY <1>4
<1>8. \A e, f \in set : rank[e] = rank[f] => e = f
  <2> HIDE DEF rank
  <2> QED  BY <1>2, <1>6, <1>7
<1> DEFINE n == Cardinality(chosen)
           place == [e \in chosen |-> rank[e]]
<1>9. IsFiniteSet(chosen) /\ n \in Nat
  BY <1>a, FS_Subset, FS_CardinalityType
<1>10. \A e \in chosen : rank[e] \in 0 .. (n - 1)
  <2> SUFFICES ASSUME NEW e \in chosen
               PROVE  rank[e] \in 0 .. (n - 1)
    OBVIOUS
  <2>1. e \in set /\ rank[e] < slots /\ score[e] > 0 /\ chosen \subseteq set
    OBVIOUS
  <2>2. ASSUME NEW f \in before(e)
        PROVE  f \in chosen
    <3>1. f \in set /\ ahead(f, e)
      OBVIOUS
    <3>2. rank[f] < rank[e] /\ score[f] >= score[e]
      <4> HIDE DEF rank
      <4> QED  BY <3>1, <2>1, <1>6, <1>3a
    <3>3. rank[f] \in Nat /\ rank[e] \in Nat /\ score[f] \in Int /\ score[e] \in Int
      <4> HIDE DEF rank
      <4> QED  BY <3>1, <2>1, <1>7, <1>a
    <3> HIDE DEF rank
    <3>4. QED
      BY <3>1, <3>2, <3>3, <2>1
  <2>3. rank[e] < n
    <3> HIDE DEF before, rank, chosen
    <3>1. before(e) \subseteq chosen
      BY <2>2
    <3> QED  BY <3>1, <2>1, <1>5
  <2> HIDE DEF rank, n
  <2>4. QED
    BY <2>3, <2>1, <1>7, <1>9
<1>11. n <= slots
  <2>1. place \in Injection(chosen, 0 .. (slots - 1))
    <3> HIDE DEF rank
    <3>1. \A e \in chosen : e \in set /\ rank[e] \in 0 .. (slots - 1)
      BY <1>7
    <3>2. place \in [chosen -> 0 .. (slots - 1)]
      BY <3>1
    <3>3. \A e, f \in chosen : place[e] = place[f] => e = f
      BY <3>1, <1>8
    <3> HIDE DEF place, chosen
    <3>4. QED
      BY <3>2, <3>3 DEF Injection, IsInjective
  <2>2. IsFiniteSet(0 .. (slots - 1)) /\ Cardinality(0 .. (slots - 1)) = slots
    BY FS_Interval
  <2> HIDE DEF place, chosen
  <2>3. QED
    BY <2>1, <2>2, FS_Injection
<1>12. ASSUME NEW i \in 0 .. (n - 1)
       PROVE  \E e \in chosen : rank[e] = i
  <2>1. place \in Injection(chosen, 0 .. (n - 1))
    <3> HIDE DEF rank, n
    <3>2. place \in [chosen -> 0 .. (n - 1)]
      BY <1>10
    <3>3. \A e, f \in chosen : place[e] = place[f] => e = f
      BY <1>8
    <3> HIDE DEF place, chosen
    <3>4. QED
      BY <3>2, <3>3 DEF Injection, IsInjective
  <2>2. IsFiniteSet(0 .. (n - 1)) /\ Cardinality(0 .. (n - 1)) = n
    BY <1>9, FS_Interval
  <2>3. place \in Surjection(chosen, 0 .. (n - 1))
    <3> HIDE DEF place, chosen
    <3> QED  BY <2>1, <2>2, <1>9, FS_Injection
  <2>4. PICK e \in chosen : place[e] = i
    <3> HIDE DEF place, chosen, n
    <3> QED  BY <2>3, <1>12 DEF Surjection
  <2> HIDE DEF chosen, rank
  <2>5. QED
    BY <2>4
<1>13. \A i \in 1 .. n : all[i] \in set
  <2> SUFFICES ASSUME NEW i \in 1 .. n
               PROVE  all[i] \in set
    OBVIOUS
  <2>1. chosen \subseteq set
    OBVIOUS
  <2> HIDE DEF chosen, rank
  <2>2. i - 1 \in 0 .. (n - 1)
    BY <1>9
  <2>3. \E e \in chosen : rank[e] = i - 1
    BY <2>2, <1>12
  <2>4. all[i] \in chosen
    BY <2>3
  <2>5. QED
    BY <2>1, <2>4
<1>14. all \in [1 .. n -> set]
  <2> HIDE DEF chosen, rank
  <2> QED  BY <1>13
<1>15. all \in Seq(set) /\ Len(all) = n
  <2> HIDE DEF all, n
  <2> QED  BY <1>14, <1>9
<1>16. all \in Seq(set) /\ Len(all) <= slots
  <2> HIDE DEF all, n
  <2> QED  BY <1>15, <1>11
<1>17. QED
  <2> HIDE DEF all
  <2> QED  BY <1>0, <1>16


-----------------------------------------------------------------------------
(* Remainders.                                                             *)
LEMMA Remainder ==
    ASSUME NEW a \in Int, NEW m \in Nat \ {0}
    PROVE  a % m \in 0 .. (m - 1) /\ a \div m \in Int /\ a = m * (a \div m) + (a % m)
  OBVIOUS

LEMMA RemainderIs ==
    ASSUME NEW m \in Nat \ {0}, NEW q \in Int, NEW r \in 0 .. (m - 1)
    PROVE  (m * q + r) % m = r
<1> DEFINE a == m * q + r
           p == a \div m
           s == a % m
<1>1. a \in Int
  OBVIOUS
<1>2. s \in 0 .. (m - 1) /\ p \in Int /\ a = m * p + s
  <2> HIDE DEF a
  <2> QED  BY <1>1, Remainder
<1> HIDE DEF p, s
<1>3. m * (q - p) = s - r
  BY <1>2
<1>4. CASE q - p >= 1
  <2>1. m * (q - p) >= m
    BY <1>4, <1>2
  <2>2. QED
    BY <2>1, <1>2, <1>3
<1>5. CASE q - p <= -1
  <2>1. m * (q - p) <= -m
    BY <1>5, <1>2
  <2>2. QED
    BY <2>1, <1>2, <1>3
<1>6. CASE q = p
  BY <1>2, <1>3, <1>6 DEF s
<1>7. QED
  BY <1>2, <1>4, <1>5, <1>6

(* A wrapping difference grows by what its minuend grew by.                *)
LEMMA DriftGrows ==
    ASSUME NEW m \in Nat \ {0}, NEW a \in Int, NEW b \in Int, NEW d \in Nat,
           ((a - b) % m) + d < m
    PROVE  (((a + d) % m) - b) % m = ((a - b) % m) + d
<1> DEFINE x == (a - b) % m
           q == (a - b) \div m
           y == (a + d) % m
           p == (a + d) \div m
<1>1. x \in 0 .. (m - 1) /\ q \in Int /\ a - b = m * q + x
  BY Remainder
<1>2. y \in 0 .. (m - 1) /\ p \in Int /\ a + d = m * p + y
  BY Remainder
<1>3. x + d \in 0 .. (m - 1)
  BY <1>1
<1> HIDE DEF x, y, p, q
<1>4. y - b = m * (q - p) + (x + d)
  BY <1>1, <1>2
<1>5. q - p \in Int
  BY <1>1, <1>2
<1>6. (m * (q - p) + (x + d)) % m = x + d
  BY <1>3, <1>5, RemainderIs
<1>7. QED
  BY <1>4, <1>6 DEF x, y

(* What is left for records, in whole records, is never more than there is.*)
LEMMA SlotsFit ==
    /\ Room \in Nat
    /\ RecordBytes(cfg) \in Nat \ {0}
    /\ \A n \in 0 .. Room :
           /\ SlotsWith[n] \in Nat
           /\ 16 + n * DespawnBytes + SlotsWith[n] * RecordBytes(cfg) <= PayloadBytes
<1> DEFINE S == StateBytes(0)
           R == RecordBytes(cfg)
<1>1. R \in Nat \ {0}
  <2>1. 2 * cfg.horizontal_bits + cfg.vertical_bits + 7 \in Nat
    BY ReplicationAssumption
  <2>2. PositionBytes(cfg) \in Nat
    BY <2>1 DEF PositionBytes
  <2>3. QED
    BY <2>2 DEF RecordBytes
<1>2. S \in Nat /\ 16 + S <= PayloadBytes
  BY ReplicationAssumption DEF StateBytes, Larger, Smaller, BudgetOk
<1>3. Room \in Nat /\ Room * 8 <= S
  BY <1>2 DEF Room, DespawnRoom, DespawnBytes
<1>4. ASSUME NEW n \in 0 .. Room
      PROVE  /\ SlotsWith[n] \in Nat
             /\ 16 + n * 8 + SlotsWith[n] * R <= PayloadBytes
  <2> DEFINE left == S - n * 8
  <2>1. left \in Nat
    BY <1>2, <1>3
  <2>2. SlotsWith[n] = left \div R
    BY <2>1, <1>2, <1>3 DEF SlotsWith, Slots, Larger, DespawnBytes
  <2> HIDE DEF left, R, S
  <2>3. left \div R \in Nat /\ (left \div R) * R <= left
    BY <2>1, <1>1
  <2>4. 16 + n * 8 + left <= PayloadBytes
    BY <1>2, <1>3 DEF left
  <2>5. (left \div R) * R \in Int /\ n * 8 \in Int /\ PayloadBytes \in Int
    BY <2>3, <1>1, <1>3, ReplicationAssumption
  <2>6. 16 + n * 8 + (left \div R) * R <= PayloadBytes
    <3> DEFINE used == (left \div R) * R
    <3>1. used \in Int /\ used <= left /\ n * 8 \in Int /\ PayloadBytes \in Int
      BY <2>3, <2>5
    <3> HIDE DEF used
    <3>2. 16 + n * 8 + used <= PayloadBytes
      BY <3>1, <2>1, <2>4
    <3>3. QED
      BY <3>2 DEF used
  <2>7. QED
    BY <2>2, <2>3, <2>6
<1>5. QED
  BY <1>1, <1>3, <1>4 DEF DespawnBytes

-----------------------------------------------------------------------------
(* What a step of `serve` does.                                            *)
Recorded == {Written[e][p] : e \in Entity, p \in Places}

LEMMA ScoresAreNumbers ==
    ASSUME ReplicationTypeOK
    PROVE  \A e \in Entity : Score(e) \in Int
<1> SUFFICES ASSUME NEW e \in Entity
             PROVE  Score(e) \in Int
  OBVIOUS
<1>1. WeightAt[where[e]] \in Nat
  BY WeightAssumption DEF ReplicationTypeOK
<1>2. ghosts[e] # None => Moved(e) \in Int
  <2>1. ghosts[e] # None => ghosts[e].mark \in Int /\ reading[e] \in Int
    BY DEF ReplicationTypeOK, GhostType
  <2>2. \A a \in Int : a % ReadingMod \in Int
    BY ReplicationAssumption
  <2>3. QED
    BY <2>1, <2>2 DEF Moved
<1>3. Drift(e) \in Int
  BY <1>2, ReplicationAssumption DEF Drift, Larger
<1>4. \A a, b \in Int : a * b \in Int
  OBVIOUS
<1>5. Drift(e) * WeightAt[where[e]] \in Int
  BY <1>1, <1>3, <1>4
<1>6. QED
  BY <1>5, ReplicationAssumption DEF Score, Smaller

LEMMA InAnyOrder ==
    ASSUME NEW S, IsFiniteSet(S), NEW order \in SetToSeqs(S)
    PROVE  order \in Seq(S) /\ \A e \in S : \E i \in DOMAIN order : order[i] = e
<1> DEFINE n == Cardinality(S)
<1>1. n \in Nat
  BY FS_CardinalityType
<1>2. order \in [1 .. n -> S] /\ \A i, j \in 1 .. n : i # j => order[i] # order[j]
  BY DEF SetToSeqs
<1>3. order \in Injection(1 .. n, S)
  <2> HIDE DEF n
  <2> QED  BY <1>2 DEF Injection, IsInjective
<1>4. IsFiniteSet(1 .. n) /\ Cardinality(1 .. n) = n
  BY <1>1, FS_Interval
<1>5. order \in Surjection(1 .. n, S)
  BY <1>3, <1>4, FS_Injection
<1> HIDE DEF n
<1>6. QED
  BY <1>1, <1>2, <1>5 DEF Surjection

(* What is served: `names` in the packet, with as many of the waiting as  *)
(* `taking`; `departed` is let go of.                                      *)
Serves(names, departed, taking, sent, order) ==
    LET waits == SubSeq(pending, taking + 1, Len(pending))
    IN  /\ taking \in 0 .. Room /\ Len(sent) <= SlotsWith[taking]
        /\ \A e \in names : \E i \in DOMAIN sent : sent[i] = e
        /\ \A e \in departed : \E i \in DOMAIN order : order[i] = e
        /\ \A e \in departed : ghosts[e] # None /\ e \notin names
        /\ tick' \in 0 .. (TickMod - 1) /\ sequence' \in 0 .. (SequenceMod - 1)
        /\ stepped' = {} /\ Len(net) < MaxFlight
        /\ ghosts' \in [Entity -> {None} \cup GhostType]
        /\ \A e \in Entity :
               /\ e \in departed => ghosts'[e] = None
               /\ e \in names => ghosts'[e] # None /\ ghosts'[e].mark = reading[e]
               /\ e \notin names \cup departed =>
                      /\ ghosts[e] = None <=> ghosts'[e] = None
                      /\ ghosts[e] # None => ghosts'[e].mark = ghosts[e].mark
        /\ pending' = waits \o order
        /\ net' = Append(net, Packet(tick', sequence', SubSeq(pending, 1, taking),
                                     [i \in DOMAIN sent |-> Written[sent[i]][where[sent[i]]]]))
        /\ doomed' = (doomed \ (names \cup departed)) \cup (names \cap {waits[i] : i \in DOMAIN waits})
        /\ UNCHANGED <<shown, where, reading, moves, client, faults>>

LEMMA ServeDoes ==
    ASSUME ReplicationTypeOK, Serve
    PROVE  \E names \in SUBSET Entity, departed \in SUBSET Entity,
              taking \in 0 .. Len(pending) :
           \E sent \in Seq(names), order \in Seq(departed) :
              Serves(names, departed, taking, sent, order)
<1> DEFINE taking == Smaller(Len(pending), Room)
           set == GhostSet
           sent == Records(set, SlotsWith[taking])
           names == {sent[i] : i \in DOMAIN sent}
           table == Stamped(set, names)
           departed == Departed(table)
           waits == SubSeq(pending, taking + 1, Len(pending))
<1>1. taking \in 0 .. Len(pending) /\ taking \in 0 .. Room
  BY SlotsFit DEF Smaller, ReplicationTypeOK
<1>2. set \in SUBSET Entity
  BY DEF GhostSet, Candidates, ReplicationTypeOK
<1>3. sent \in Seq(set) /\ Len(sent) <= SlotsWith[taking]
  BY <1>1, <1>2, SlotsFit, ScoresAreNumbers, RecordsFit
<1>4. names \in SUBSET Entity /\ sent \in Seq(names)
  <2> HIDE DEF sent, set
  <2>1. \A i \in DOMAIN sent : sent[i] \in set
    BY <1>3
  <2>2. sent \in Seq(names)
    BY <1>3
  <2>3. QED
    BY <2>1, <2>2, <1>2
<1>5. /\ tick' \in 0 .. (TickMod - 1) /\ sequence' \in 0 .. (SequenceMod - 1)
  <2>1. tick' = (tick + 1) % TickMod /\ sequence' = (sequence + 1) % SequenceMod
    BY DEF Serve
  <2>2. tick + 1 \in Int /\ sequence + 1 \in Int
    BY ReplicationAssumption DEF ReplicationTypeOK
  <2>3. TickMod \in Nat \ {0} /\ SequenceMod \in Nat \ {0}
    BY ReplicationAssumption
  <2> HIDE DEF taking
  <2>4. QED
    BY <2>1, <2>2, <2>3, Remainder
<1>6. /\ ghosts' = [e \in Entity |-> IF e \in departed THEN None ELSE table[e]]
      /\ Len(net) < MaxFlight /\ stepped' = {}
      /\ net' = Append(net, Packet(tick', sequence', SubSeq(pending, 1, taking),
                                   [i \in DOMAIN sent |-> Written[sent[i]][where[sent[i]]]]))
      /\ doomed' = (doomed \ (names \cup departed)) \cup (names \cap {waits[i] : i \in DOMAIN waits})
      /\ UNCHANGED <<shown, where, reading, moves, client, faults>>
      /\ \E order \in SetToSeqs(departed) : pending' = waits \o order
  <2> HIDE DEF set, taking
  <2> QED  BY DEF Serve, set, taking
<1> HIDE DEF set, taking, sent, names
<1>7. \A e \in Entity :
         table[e] = IF e \in names
                    THEN [mark |-> reading[e], last_seen |-> tick', last_sent |-> tick']
                    ELSE IF ghosts[e] # None /\ e \in set
                    THEN [ghosts[e] EXCEPT !.last_seen = tick']
                    ELSE ghosts[e]
  BY DEF Stamped
<1>8. \A e \in Entity : ghosts[e] # None => ghosts[e] \in GhostType
  BY DEF ReplicationTypeOK
<1>9. \A e \in names : table[e] \in GhostType /\ table[e].mark = reading[e] /\ table[e].last_seen = tick'
  <2> SUFFICES ASSUME NEW e \in names
               PROVE  table[e] \in GhostType /\ table[e].mark = reading[e] /\ table[e].last_seen = tick'
    OBVIOUS
  <2> HIDE DEF table
  <2>1. e \in Entity
    BY <1>4
  <2>2. table[e] = [mark |-> reading[e], last_seen |-> tick', last_sent |-> tick']
    BY <2>1, <1>7, Zenon
  <2>3. reading[e] \in 0 .. (ReadingMod - 1)
    BY <2>1 DEF ReplicationTypeOK
  <2>4. QED
    BY <2>2, <2>3, <1>5 DEF GhostType
<1>10. \A e \in Entity \ names :
          /\ ghosts[e] = None => table[e] = None
          /\ ghosts[e] # None => table[e] \in GhostType /\ table[e].mark = ghosts[e].mark
  BY <1>5, <1>7, <1>8 DEF GhostType
<1>11. None \notin GhostType
  BY ReplicationAssumption DEF GhostType
<1> HIDE DEF table
<1>12. departed \in SUBSET Entity /\ \A e \in departed : table[e] # None /\ e \notin names
  <2>1. departed \in SUBSET Entity /\ \A e \in departed :
            table[e] # None /\ (tick' - table[e].last_seen) % TickMod > Grace
    BY DEF Departed
  <2>2. 0 % TickMod = 0
    BY ReplicationAssumption
  <2>3. QED
    BY <2>1, <2>2, <1>9, <1>5, ReplicationAssumption
<1>13. IsFiniteSet(departed)
  BY <1>12, ReplicationAssumption, FS_Subset
<1> HIDE DEF departed
<1>14. PICK order \in SetToSeqs(departed) : pending' = waits \o order
  BY <1>6
<1>15. order \in Seq(departed) /\ \A e \in departed : \E i \in DOMAIN order : order[i] = e
  BY <1>13, InAnyOrder
<1>16. \A e \in departed : ghosts[e] # None
  BY <1>10, <1>12
<1>17. ghosts' \in [Entity -> {None} \cup GhostType]
  BY <1>4, <1>6, <1>9, <1>10
<1>18. \A e \in Entity :
          /\ e \in departed => ghosts'[e] = None
          /\ e \in names => ghosts'[e] # None /\ ghosts'[e].mark = reading[e]
          /\ e \notin names \cup departed =>
                 /\ ghosts[e] = None <=> ghosts'[e] = None
                 /\ ghosts[e] # None => ghosts'[e].mark = ghosts[e].mark
  BY <1>4, <1>6, <1>9, <1>10, <1>11, <1>12
<1>19. \A e \in names : \E i \in DOMAIN sent : sent[i] = e
  BY DEF names
<1>20. Serves(names, departed, taking, sent, order)
  BY <1>1, <1>3, <1>5, <1>6, <1>12, <1>14, <1>15, <1>16, <1>17, <1>18, <1>19 DEF Serves
<1>21. QED
  BY <1>1, <1>4, <1>12, <1>15, <1>20

LEMMA PacketsTyped ==
    ASSUME ReplicationTypeOK,
           NEW names \in SUBSET Entity, NEW departed \in SUBSET Entity,
           NEW taking \in 0 .. Len(pending),
           NEW sent \in Seq(names), NEW order \in Seq(departed),
           Serves(names, departed, taking, sent, order)
    PROVE  /\ net' = Append(net, net'[Len(net) + 1]) /\ net'[Len(net) + 1] \in PacketType
           /\ LET p == net'[Len(net) + 1]
              IN  /\ p.despawns = SubSeq(pending, 1, taking) /\ p.over = 0
                  /\ p.records = [i \in DOMAIN sent |-> Written[sent[i]][where[sent[i]]]]
                  /\ Len(p.despawns) = taking /\ Len(p.records) = Len(sent)
<1> DEFINE records == [i \in DOMAIN sent |-> Written[sent[i]][where[sent[i]]]]
           p == Packet(tick', sequence', SubSeq(pending, 1, taking), records)
<1>1. net' = Append(net, p) /\ tick' \in 0 .. (TickMod - 1) /\ sequence' \in 0 .. (SequenceMod - 1)
  BY DEF Serves
<1>2. SubSeq(pending, 1, taking) \in Seq(Entity) /\ Len(SubSeq(pending, 1, taking)) = taking
  BY DEF ReplicationTypeOK
<1>3. \A i \in DOMAIN sent : sent[i] \in Entity /\ where[sent[i]] \in Places
  BY DEF ReplicationTypeOK
<1>4. DOMAIN sent = 1 .. Len(sent) /\ Len(sent) \in Nat
  OBVIOUS
<1>5. \A i \in 1 .. Len(sent) : Written[sent[i]][where[sent[i]]] \in Recorded
  BY <1>3, <1>4 DEF Recorded
<1>6. records \in Seq(Recorded) /\ Len(records) = Len(sent)
  <2> HIDE DEF Recorded
  <2> QED  BY <1>4, <1>5
<1> HIDE DEF records
<1>7. p \in PacketType /\ p.despawns = SubSeq(pending, 1, taking) /\ p.over = 0 /\ p.records = records
  BY <1>1, <1>2, <1>6 DEF Packet, PacketType, Recorded
<1> HIDE DEF p
<1>8. net' = Append(net, p) /\ net'[Len(net) + 1] = p
  BY <1>1 DEF ReplicationTypeOK, p
<1>9. QED
  BY <1>2, <1>6, <1>7, <1>8 DEF records

-----------------------------------------------------------------------------
(* What a client makes of a packet.                                        *)
Belief == [Entity -> Places \cup {None}]

Names(p, e) == \E i \in DOMAIN p.records : p.records[i].name = e
Drops(p, e) == \E i \in DOMAIN p.despawns : p.despawns[i] = e

LEMMA RecordIsRead ==
    ASSUME NEW e \in Entity, NEW place \in Places
    PROVE  Written[e][place].name = e /\ WhatItReads[Written[e][place]] = place
<1>1. Written[e][place] = EncodeRecord(cfg, e, At(place, 0, 0), 0)
  BY DEF Written
<1>2. QED
  BY <1>1, CodecAssumption DEF EncodeRecord

LEMMA AdoptIs ==
    ASSUME NEW c \in Belief, NEW p \in PacketType
    PROVE  /\ Adopt(c, p) \in Belief
           /\ \A e \in Entity :
                  /\ Names(p, e) => \E i \in DOMAIN p.records :
                         p.records[i].name = e /\ Adopt(c, p)[e] = WhatItReads[p.records[i]]
                  /\ ~Names(p, e) => Adopt(c, p)[e] = IF Drops(p, e) THEN None ELSE c[e]
<1> DEFINE reads(e) == {WhatItReads[p.records[i]] :
                           i \in {j \in DOMAIN p.records : p.records[j].name = e}}
<1>1. Adopt(c, p) = [e \in Entity |->
            IF reads(e) # {} THEN CHOOSE x \in reads(e) : TRUE
            ELSE IF e \in {p.despawns[i] : i \in DOMAIN p.despawns} THEN None
            ELSE c[e]]
  BY DEF Adopt
<1>2. \A i \in DOMAIN p.records : p.records[i] \in Recorded
  <2>1. p.records \in Seq(Recorded)
    BY DEF PacketType, Recorded
  <2> HIDE DEF Recorded
  <2>2. QED
    BY <2>1
<1>3. \A i \in DOMAIN p.records : WhatItReads[p.records[i]] \in Places
  BY <1>2, RecordIsRead DEF Recorded
<1>4. ASSUME NEW e \in Entity
      PROVE  /\ Names(p, e) => \E i \in DOMAIN p.records :
                    p.records[i].name = e /\ Adopt(c, p)[e] = WhatItReads[p.records[i]]
             /\ ~Names(p, e) => Adopt(c, p)[e] = IF Drops(p, e) THEN None ELSE c[e]
             /\ Adopt(c, p)[e] \in Places \cup {None}
  <2>1. CASE Names(p, e)
    <3>1. reads(e) # {}
      BY <2>1 DEF Names
    <3>2. Adopt(c, p)[e] \in reads(e)
      <4> DEFINE R == reads(e)
      <4>1. Adopt(c, p)[e] = CHOOSE x \in R : TRUE
        BY <3>1, <1>1
      <4>2. R # {}
        BY <3>1
      <4> HIDE DEF R
      <4>3. Adopt(c, p)[e] \in R
        BY <4>1, <4>2
      <4>4. QED
        BY <4>3 DEF R
    <3>3. QED
      BY <3>2, <2>1, <1>3
  <2>2. CASE ~Names(p, e)
    <3>1. reads(e) = {}
      BY <2>2 DEF Names
    <3>2. Adopt(c, p)[e] = IF Drops(p, e) THEN None ELSE c[e]
      BY <3>1, <1>1 DEF Drops
    <3>3. QED
      BY <3>2, <2>2 DEF Belief
  <2>3. QED
    BY <2>1, <2>2
<1>5. Adopt(c, p) \in Belief
  <2>1. \A e \in Entity : Adopt(c, p)[e] \in Places \cup {None}
    BY <1>4
  <2> HIDE DEF reads
  <2>2. QED
    BY <2>1, <1>1 DEF Belief
<1>6. QED
  BY <1>4, <1>5

-----------------------------------------------------------------------------
(* Types.                                                                  *)
LEMMA Removes ==
    ASSUME NEW S, NEW s \in Seq(S), NEW i \in DOMAIN s
    PROVE  /\ RemoveAt(s, i) \in Seq(S) /\ Len(RemoveAt(s, i)) = Len(s) - 1
           /\ i = 1 => \A j \in 1 .. (Len(s) - 1) : RemoveAt(s, i)[j] = s[j + 1]
<1>1. i \in 1 .. Len(s) /\ Len(s) \in Nat
  OBVIOUS
<1>2. SubSeq(s, 1, i - 1) \in Seq(S) /\ Len(SubSeq(s, 1, i - 1)) = i - 1
  BY <1>1
<1>3. /\ SubSeq(s, i + 1, Len(s)) \in Seq(S) /\ Len(SubSeq(s, i + 1, Len(s))) = Len(s) - i
      /\ \A j \in 1 .. (Len(s) - i) : SubSeq(s, i + 1, Len(s))[j] = s[i + j]
  BY <1>1
<1>4. RemoveAt(s, i) = SubSeq(s, 1, i - 1) \o SubSeq(s, i + 1, Len(s))
  BY DEF RemoveAt
<1> DEFINE a == SubSeq(s, 1, i - 1)
           b == SubSeq(s, i + 1, Len(s))
<1> HIDE DEF a, b
<1>5. a \in Seq(S) /\ b \in Seq(S) /\ Len(a) = i - 1 /\ Len(b) = Len(s) - i
  BY <1>2, <1>3 DEF a, b
<1>6. /\ a \o b \in Seq(S) /\ Len(a \o b) = Len(s) - 1
      /\ \A j \in 1 .. Len(b) : (a \o b)[Len(a) + j] = b[j]
  BY <1>1, <1>5
<1>7. i = 1 => \A j \in 1 .. (Len(s) - 1) : (a \o b)[j] = s[j + 1]
  BY <1>1, <1>3, <1>5, <1>6 DEF b
<1>8. QED
  BY <1>4, <1>6, <1>7 DEF a, b

LEMMA Sizes ==
    /\ Places \subseteq Int /\ None \notin Places /\ Start \in [Entity -> Places]
    /\ MaxTrouble \in Nat /\ MaxFlight \in Nat
    /\ ReadingMod \in Nat \ {0} /\ TickMod \in Nat \ {0} /\ SequenceMod \in Nat \ {0}
    /\ FirstReading \in 0 .. (ReadingMod - 1)
  BY ReplicationAssumption

LEMMA Apart ==
    ASSUME NEW p \in Places, NEW q \in Places
    PROVE  AbsDiff(p, q) \in Nat
  BY Sizes DEF AbsDiff

(* The state is well formed, whatever is served, lost or late.             *)
THEOREM ReplicationTypeCorrect == ReplicationSpec => []ReplicationTypeOK
<1>1. ReplicationInit => ReplicationTypeOK
  <2>1. \A S : <<>> \in Seq(S)
    OBVIOUS
  <2>2. QED
    BY <2>1, Sizes DEF ReplicationInit, ReplicationTypeOK
<1>2. ReplicationTypeOK /\ [ReplicationNext]_replicationVars => ReplicationTypeOK'
  <2> SUFFICES ASSUME ReplicationTypeOK, [ReplicationNext]_replicationVars
               PROVE  ReplicationTypeOK'
    OBVIOUS
  <2>1. ASSUME NEW e \in Entity, NEW place \in Places, Move(e, place)
        PROVE  ReplicationTypeOK'
    <3>1. reading[e] + AbsDiff(place, where[e]) \in Int
      BY Apart DEF ReplicationTypeOK
    <3>2. (reading[e] + AbsDiff(place, where[e])) % ReadingMod \in 0 .. (ReadingMod - 1)
      BY <3>1, Remainder, Sizes
    <3>3. reading' \in [Entity -> 0 .. (ReadingMod - 1)]
      BY <2>1, <3>2 DEF Move, ReplicationTypeOK
    <3>4. QED
      BY <2>1, <3>3, Sizes DEF Move, ReplicationTypeOK, serving
  <2>2. ASSUME NEW e \in Entity, Despawn(e)
        PROVE  ReplicationTypeOK'
    BY <2>2, Sizes DEF Despawn, ReplicationTypeOK, serving
  <2>3. CASE Serve
    <3>1. PICK names \in SUBSET Entity, departed \in SUBSET Entity, taking \in 0 .. Len(pending) :
              \E sent \in Seq(names), order \in Seq(departed) :
                 Serves(names, departed, taking, sent, order)
      BY <2>3, ServeDoes
    <3>2. PICK sent \in Seq(names), order \in Seq(departed) :
              Serves(names, departed, taking, sent, order)
      BY <3>1
    <3>3. /\ net' = Append(net, net'[Len(net) + 1]) /\ net'[Len(net) + 1] \in PacketType
      BY <3>2, PacketsTyped
    <3>4. net' \in Seq(PacketType) /\ Len(net') <= MaxFlight
      <4>1. Len(net) < MaxFlight /\ net \in Seq(PacketType) /\ MaxFlight \in Nat
        BY <3>2, ReplicationAssumption DEF Serves, ReplicationTypeOK
      <4> DEFINE p == net'[Len(net) + 1]
      <4>2. p \in PacketType /\ net' = Append(net, p)
        BY <3>3
      <4> HIDE DEF p
      <4>3. QED
        BY <4>1, <4>2
    <3>5. pending' \in Seq(Entity)
      <4>1. order \in Seq(Entity)
        OBVIOUS
      <4>2. SubSeq(pending, taking + 1, Len(pending)) \in Seq(Entity)
        BY DEF ReplicationTypeOK
      <4>3. pending' = SubSeq(pending, taking + 1, Len(pending)) \o order
        BY <3>2 DEF Serves
      <4>4. QED
        BY <4>1, <4>2, <4>3
    <3>6. doomed' \subseteq Entity
      BY <3>2 DEF Serves, ReplicationTypeOK
    <3>7. QED
      BY <3>2, <3>4, <3>5, <3>6 DEF Serves, ReplicationTypeOK
  <2>4. ASSUME NEW i \in DOMAIN net, Deliver(i)
        PROVE  ReplicationTypeOK'
    <3>1. net[i] \in PacketType
      BY DEF ReplicationTypeOK
    <3>2. client' \in [Entity -> Places \cup {None}]
      BY <2>4, <3>1, AdoptIs DEF Deliver, ReplicationTypeOK, Belief
    <3>3. net' \in Seq(PacketType) /\ Len(net') <= MaxFlight
      BY <2>4, Removes, Sizes DEF Deliver, ReplicationTypeOK
    <3>4. faults' \in Nat /\ moves + faults' <= MaxTrouble /\ moves' = moves
      BY <2>4, Sizes DEF Deliver, ReplicationTypeOK, world
    <3>5. QED
      BY <2>4, <3>2, <3>3, <3>4 DEF Deliver, ReplicationTypeOK, world, serving
  <2>5. ASSUME NEW i \in DOMAIN net, Lose(i)
        PROVE  ReplicationTypeOK'
    <3>1. net' \in Seq(PacketType) /\ Len(net') <= MaxFlight
      BY <2>5, Removes, Sizes DEF Lose, ReplicationTypeOK
    <3>2. faults' \in Nat /\ moves + faults' <= MaxTrouble /\ moves' = moves
      BY <2>5, Sizes DEF Lose, ReplicationTypeOK, world
    <3>3. QED
      BY <2>5, <3>1, <3>2 DEF Lose, ReplicationTypeOK, world, serving
  <2>6. CASE UNCHANGED replicationVars
    BY <2>6 DEF replicationVars, ReplicationTypeOK, world, serving
  <2>7. QED
    BY <2>1, <2>2, <2>3, <2>4, <2>5, <2>6 DEF ReplicationNext
<1>3. QED
  BY <1>1, <1>2, PTL DEF ReplicationSpec

-----------------------------------------------------------------------------
(* What the client believes once a packet after another has come.          *)
LEMMA LeastElement ==
    ASSUME NEW S \in SUBSET Nat, S # {}
    PROVE  \E n \in S : \A m \in S : n <= m
<1>1. PICK n \in S : \A m \in S : ~ (<<m, n>> \in OpToRel(<, Nat))
  BY NatLessThanWellFounded, WFMin
<1>2. \A m \in S : ~ (m < n)
  BY <1>1 DEF OpToRel
<1>3. QED
  BY <1>2

Beliefs(c, s, n) ==
    LET after[i \in 0 .. n] ==
            IF i = 0 THEN c ELSE Adopt(after[i - 1], s[i])
    IN  after

After(c, s) == Beliefs(c, s, Len(s))[Len(s)]

Comes(f, c, s, n) ==
    f = [i \in 0 .. n |-> IF i = 0 THEN c ELSE Adopt(f[i - 1], s[i])]

LEMMA BeliefsAre == \A c, s, n : Beliefs(c, s, n) = CHOOSE f : Comes(f, c, s, n)
  BY DEF Beliefs, Comes

LEMMA ToldIs == Told = After(client, net)
  BY DEF Told, After, Beliefs

LEMMA BeliefsExist ==
    ASSUME NEW c, NEW s, NEW n \in Nat
    PROVE  \E f : Comes(f, c, s, n)
<1> DEFINE Bad == {m \in 0 .. n : ~ \E f : Comes(f, c, s, m)}
<1>1. SUFFICES ASSUME Bad # {}
      PROVE  FALSE
  OBVIOUS
<1>2. PICK m \in Bad : \A k \in Bad : m <= k
  <2>1. Bad \in SUBSET Nat
    OBVIOUS
  <2> HIDE DEF Bad
  <2> QED  BY <1>1, <2>1, LeastElement
<1>3. m \in 0 .. n /\ ~ \E f : Comes(f, c, s, m)
  OBVIOUS
<1>4. m # 0
  <2> SUFFICES ASSUME m = 0
               PROVE  FALSE
    OBVIOUS
  <2> DEFINE f == [i \in 0 .. 0 |-> c]
  <2>1. f = [i \in 0 .. 0 |-> IF i = 0 THEN c ELSE Adopt(f[i - 1], s[i])]
    OBVIOUS
  <2> HIDE DEF f
  <2>2. QED
    BY <2>1, <1>3 DEF Comes
<1>5. m - 1 \in 0 .. n /\ m - 1 \notin Bad
  BY <1>2, <1>3, <1>4
<1>6. PICK f : Comes(f, c, s, m - 1)
  BY <1>5
<1> DEFINE next == Adopt(f[m - 1], s[m])
           g == [i \in 0 .. m |-> IF i = m THEN next ELSE f[i]]
<1>7. \A i \in 0 .. (m - 1) : f[i] = IF i = 0 THEN c ELSE Adopt(f[i - 1], s[i])
  BY <1>6 DEF Comes
<1>8. \A i \in 0 .. m : g[i] = IF i = 0 THEN c ELSE Adopt(g[i - 1], s[i])
  <2> SUFFICES ASSUME NEW i \in 0 .. m
               PROVE  g[i] = IF i = 0 THEN c ELSE Adopt(g[i - 1], s[i])
    OBVIOUS
  <2>1. \A j \in 0 .. (m - 1) : g[j] = f[j]
    <3> HIDE DEF next
    <3> QED  BY <1>3
  <2>2. CASE i = m
    <3>1. m - 1 \in 0 .. (m - 1) /\ m \in 0 .. m
      BY <1>3, <1>4
    <3>2. g[m - 1] = f[m - 1] /\ g[m] = next
      BY <2>1, <3>1
    <3> HIDE DEF g
    <3>3. QED
      BY <3>2, <2>2, <1>4
  <2>3. CASE i # m /\ i # 0
    <3>1. i \in 0 .. (m - 1) /\ i - 1 \in 0 .. (m - 1)
      BY <2>3, <1>3
    <3> HIDE DEF g
    <3>2. QED
      BY <3>1, <2>1, <2>3, <1>7
  <2>4. CASE i = 0
    <3>1. 0 \in 0 .. (m - 1)
      BY <1>3, <1>4
    <3> HIDE DEF g
    <3>2. QED
      BY <3>1, <2>1, <2>4, <1>7
  <2>5. QED
    BY <2>2, <2>3, <2>4
<1>9. Comes(g, c, s, m)
  <2> DEFINE h == [i \in 0 .. m |-> IF i = 0 THEN c ELSE Adopt(g[i - 1], s[i])]
  <2>1. DOMAIN g = 0 .. m /\ g = [i \in 0 .. m |-> g[i]]
    OBVIOUS
  <2> HIDE DEF g
  <2>2. g = h
    BY <2>1, <1>8
  <2>3. QED
    BY <2>2 DEF Comes
<1>10. QED
  BY <1>3, <1>9

LEMMA BeliefsCome ==
    ASSUME NEW c, NEW s, NEW n \in Nat
    PROVE  /\ Beliefs(c, s, n)[0] = c
           /\ \A i \in 1 .. n : Beliefs(c, s, n)[i] = Adopt(Beliefs(c, s, n)[i - 1], s[i])
<1> DEFINE f == Beliefs(c, s, n)
<1>1. Comes(f, c, s, n)
  BY BeliefsExist, BeliefsAre
<1> HIDE DEF f
<1>2. \A i \in 0 .. n : f[i] = IF i = 0 THEN c ELSE Adopt(f[i - 1], s[i])
  BY <1>1 DEF Comes
<1>3. QED
  BY <1>2 DEF f

(* From wherever it begins, the same packets lead to the same belief.      *)
Keeps(f, g, s, t, k, n) ==
    /\ k \in Nat /\ n \in Nat /\ f[k] = g[0]
    /\ \A i \in 1 .. n : /\ f[i + k] = Adopt(f[i + k - 1], s[i + k])
                          /\ g[i] = Adopt(g[i - 1], t[i])
                          /\ s[i + k] = t[i]

LEMMA SameBelief ==
    ASSUME NEW f, NEW g, NEW s, NEW t, NEW k, NEW n, Keeps(f, g, s, t, k, n)
    PROVE  f[n + k] = g[n]
<1>0. /\ k \in Nat /\ n \in Nat /\ f[k] = g[0]
      /\ \A i \in 1 .. n : /\ f[i + k] = Adopt(f[i + k - 1], s[i + k])
                            /\ g[i] = Adopt(g[i - 1], t[i])
                            /\ s[i + k] = t[i]
  BY DEF Keeps
<1> DEFINE Bad == {m \in 0 .. n : f[m + k] # g[m]}
<1>1. SUFFICES ASSUME Bad # {}
      PROVE  FALSE
  BY <1>0
<1>2. PICK m \in Bad : \A j \in Bad : m <= j
  <2>1. Bad \in SUBSET Nat
    OBVIOUS
  <2> HIDE DEF Bad
  <2> QED  BY <1>1, <2>1, LeastElement
<1>3. m \in 0 .. n /\ f[m + k] # g[m]
  OBVIOUS
<1>4. m # 0
  BY <1>0, <1>3
<1>5. m - 1 \in 0 .. n /\ m - 1 \notin Bad /\ m \in 1 .. n
  BY <1>0, <1>2, <1>3, <1>4
<1>6. f[(m - 1) + k] = g[m - 1]
  BY <1>5
<1>7. (m - 1) + k = m + k - 1
  BY <1>0, <1>5
<1>8. /\ f[m + k] = Adopt(f[m + k - 1], s[m + k])
      /\ g[m] = Adopt(g[m - 1], t[m])
      /\ s[m + k] = t[m]
  BY <1>0, <1>5
<1>9. f[m + k - 1] = g[m - 1]
  BY <1>6, <1>7
<1>10. f[m + k] = g[m]
  BY <1>8, <1>9, Zenon
<1>11. QED
  BY <1>3, <1>10

LEMMA AfterOneMore ==
    ASSUME NEW c, NEW s \in Seq(PacketType), NEW p \in PacketType
    PROVE  After(c, Append(s, p)) = Adopt(After(c, s), p)
<1> DEFINE n == Len(s)
           u == Append(s, p)
           f == Beliefs(c, u, n + 1)
           g == Beliefs(c, s, n)
<1>1. n \in Nat /\ Len(u) = n + 1 /\ u[n + 1] = p /\ \A i \in 1 .. n : u[i] = s[i]
  OBVIOUS
<1>2. After(c, u) = f[n + 1] /\ After(c, s) = g[n]
  BY <1>1 DEF After
<1>3. /\ f[0] = c /\ \A i \in 1 .. (n + 1) : f[i] = Adopt(f[i - 1], u[i])
      /\ g[0] = c /\ \A i \in 1 .. n : g[i] = Adopt(g[i - 1], s[i])
  <2> HIDE DEF u
  <2> QED  BY <1>1, BeliefsCome
<1> HIDE DEF f, g, n, u
<1>4. f[n + 0] = g[n]
  <2>1. Keeps(f, g, u, s, 0, n)
    BY <1>1, <1>3 DEF Keeps
  <2>2. QED
    BY <2>1, SameBelief
<1>5. f[n + 1] = Adopt(f[n], p)
  BY <1>1, <1>3
<1>6. QED
  BY <1>1, <1>2, <1>4, <1>5 DEF u

LEMMA AfterTheFirst ==
    ASSUME NEW c, NEW s \in Seq(PacketType), 1 \in DOMAIN s
    PROVE  After(c, s) = After(Adopt(c, s[1]), RemoveAt(s, 1))
<1> DEFINE n == Len(s) - 1
           t == RemoveAt(s, 1)
           d == Adopt(c, s[1])
           f == Beliefs(c, s, n + 1)
           g == Beliefs(d, t, n)
<1>1. n \in Nat /\ n + 1 = Len(s)
  OBVIOUS
<1>2. Len(t) = n /\ \A i \in 1 .. n : s[i + 1] = t[i]
  <2>1. Len(t) = n /\ \A i \in 1 .. n : t[i] = s[i + 1]
    BY Removes
  <2>2. QED
    BY <2>1
<1>3. After(c, s) = f[n + 1] /\ After(d, t) = g[n]
  BY <1>1, <1>2 DEF After
<1>4. /\ f[0] = c /\ \A i \in 1 .. (n + 1) : f[i] = Adopt(f[i - 1], s[i])
      /\ g[0] = d /\ \A i \in 1 .. n : g[i] = Adopt(g[i - 1], t[i])
  <2> HIDE DEF t, d, n
  <2> QED  BY <1>1, BeliefsCome
<1> HIDE DEF f, g, n, t
<1>5. f[1] = g[0]
  BY <1>1, <1>4
<1>6. f[n + 1] = g[n]
  <2> HIDE DEF d
  <2>1. Keeps(f, g, s, t, 1, n)
    BY <1>1, <1>2, <1>4, <1>5 DEF Keeps
  <2>2. QED
    BY <2>1, SameBelief
<1>7. QED
  BY <1>3, <1>6 DEF t

LEMMA AfterNone ==
    ASSUME NEW c
    PROVE  After(c, <<>>) = c
  BY BeliefsCome DEF After

LEMMA AfterIsABelief ==
    ASSUME NEW c \in Belief, NEW s \in Seq(PacketType)
    PROVE  After(c, s) \in Belief
<1> DEFINE f == Beliefs(c, s, Len(s))
           Bad == {m \in 0 .. Len(s) : f[m] \notin Belief}
<1>1. f[0] = c /\ \A i \in 1 .. Len(s) : f[i] = Adopt(f[i - 1], s[i])
  BY BeliefsCome
<1> HIDE DEF f
<1>2. SUFFICES ASSUME Bad # {}
      PROVE  FALSE
  BY DEF After, f
<1>3. PICK m \in Bad : \A j \in Bad : m <= j
  <2>1. Bad \in SUBSET Nat
    OBVIOUS
  <2> HIDE DEF Bad
  <2> QED  BY <1>2, <2>1, LeastElement
<1>4. m \in 0 .. Len(s) /\ f[m] \notin Belief
  OBVIOUS
<1>5. m # 0
  BY <1>1, <1>4
<1>6. m - 1 \in 0 .. Len(s) /\ m - 1 \notin Bad /\ m \in 1 .. Len(s)
  BY <1>3, <1>4, <1>5
<1>7. f[m - 1] \in Belief /\ s[m] \in PacketType
  BY <1>6
<1>8. QED
  BY <1>1, <1>4, <1>6, <1>7, AdoptIs

-----------------------------------------------------------------------------
(* What fits.                                                              *)
FitsIn(p) == PacketSize(cfg, p) <= PayloadBytes

ServedFits == net \in Seq({p \in PacketType : FitsIn(p)})

LEMMA FitsHere ==
    ASSUME NEW p \in PacketType, NEW taking \in 0 .. Room,
           Len(p.despawns) = taking, Len(p.records) <= SlotsWith[taking], p.over = 0
    PROVE  FitsIn(p)
<1> DEFINE R == RecordBytes(cfg)
           n == Len(p.records)
           m == SlotsWith[taking]
           w == taking * DespawnBytes
<1>1. R \in Nat /\ n \in Nat /\ m \in Nat /\ n <= m
  <2>1. R \in Nat /\ m \in Nat
    BY SlotsFit
  <2>2. Len(p.records) \in Nat
    BY DEF PacketType
  <2>3. QED
    BY <2>1, <2>2
<1>2. w \in Nat /\ 16 + w + m * R <= PayloadBytes /\ PayloadBytes \in Int
  <2>1. 16 + w + m * R <= PayloadBytes /\ Room \in Nat
    BY SlotsFit
  <2>2. w \in Nat
    BY <2>1 DEF DespawnBytes
  <2>3. QED
    BY <2>1, <2>2, ReplicationAssumption
<1> HIDE DEF R, n, m, w
<1>3. n * R <= m * R /\ n * R \in Nat /\ m * R \in Nat
  BY <1>1
<1>4. 16 + w + n * R + 0 <= PayloadBytes
  <2> DEFINE a == n * R
             b == m * R
  <2>1. a <= b /\ a \in Nat /\ b \in Nat /\ 16 + w + b <= PayloadBytes
    BY <1>2, <1>3
  <2> HIDE DEF a, b
  <2>2. 16 + w + a + 0 <= PayloadBytes
    BY <2>1, <1>2
  <2>3. QED
    BY <2>2 DEF a
<1>5. PacketSize(cfg, p) = 16 + w + n * R + 0
  BY DEF PacketSize, R, n, w
<1>6. QED
  BY <1>4, <1>5 DEF FitsIn

LEMMA AlwaysFitsIn == ReplicationSpec => []ServedFits
<1> DEFINE Fitting == {p \in PacketType : FitsIn(p)}
<1>1. ReplicationInit => ServedFits
  <2>1. \A S : <<>> \in Seq(S)
    OBVIOUS
  <2>2. QED
    BY <2>1 DEF ReplicationInit, ServedFits
<1>2. ReplicationTypeOK /\ ServedFits /\ [ReplicationNext]_replicationVars => ServedFits'
  <2> SUFFICES ASSUME ReplicationTypeOK, ServedFits, [ReplicationNext]_replicationVars
               PROVE  ServedFits'
    OBVIOUS
  <2>0. /\ net \in Seq(Fitting)
        /\ (net' \in Seq(Fitting)) => ServedFits'
    BY DEF ServedFits, FitsIn
  <2> HIDE DEF Fitting
  <2>1. ASSUME NEW e \in Entity, NEW place \in Places, Move(e, place)
        PROVE  ServedFits'
    BY <2>0, <2>1 DEF Move
  <2>2. ASSUME NEW e \in Entity, Despawn(e)
        PROVE  ServedFits'
    BY <2>0, <2>2 DEF Despawn
  <2>3. CASE Serve
    <3>1. PICK names \in SUBSET Entity, departed \in SUBSET Entity, taking \in 0 .. Len(pending) :
              \E sent \in Seq(names), order \in Seq(departed) :
                 Serves(names, departed, taking, sent, order)
      BY <2>3, ServeDoes
    <3>2. PICK sent \in Seq(names), order \in Seq(departed) :
              Serves(names, departed, taking, sent, order)
      BY <3>1
    <3> DEFINE p == net'[Len(net) + 1]
    <3>3. /\ net' = Append(net, p) /\ p \in PacketType /\ p.over = 0
          /\ Len(p.despawns) = taking /\ Len(p.records) = Len(sent)
      BY <3>2, PacketsTyped
    <3>4. taking \in 0 .. Room /\ Len(sent) <= SlotsWith[taking]
      BY <3>2 DEF Serves
    <3> HIDE DEF p
    <3>5. p \in Fitting
      BY <3>3, <3>4, FitsHere DEF Fitting
    <3>6. QED
      BY <2>0, <3>3, <3>5
  <2>4. ASSUME NEW i \in DOMAIN net, Deliver(i)
        PROVE  ServedFits'
    BY <2>0, <2>4, Removes DEF Deliver
  <2>5. ASSUME NEW i \in DOMAIN net, Lose(i)
        PROVE  ServedFits'
    BY <2>0, <2>5, Removes DEF Lose
  <2>6. CASE UNCHANGED replicationVars
    BY <2>0, <2>6 DEF replicationVars
  <2>7. QED
    BY <2>1, <2>2, <2>3, <2>4, <2>5, <2>6 DEF ReplicationNext
<1>3. QED
  BY <1>1, <1>2, ReplicationTypeCorrect, PTL DEF ReplicationSpec

(* A packet never passes the payload the client declared.                  *)
THEOREM PacketAlwaysFits == ReplicationSpec => []PacketFits
<1>1. ServedFits => PacketFits
  <2> DEFINE Fitting == {p \in PacketType : FitsIn(p)}
  <2> SUFFICES ASSUME ServedFits, NEW i \in DOMAIN net
               PROVE  FitsIn(net[i])
    BY DEF PacketFits, FitsIn
  <2>1. net \in Seq(Fitting)
    BY DEF ServedFits
  <2>2. \A p \in Fitting : FitsIn(p)
    OBVIOUS
  <2> HIDE DEF Fitting
  <2>3. net[i] \in Fitting
    BY <2>1
  <2>4. QED
    BY <2>2, <2>3
<1>2. QED
  BY <1>1, AlwaysFitsIn, PTL

-----------------------------------------------------------------------------
(* What the client will believe, and how far from it an entity has gone.   *)
Waits(e) == \E i \in DOMAIN pending : pending[i] = e

(* Who is held while a despawn of it still waits was sent since.           *)
Owed ==
    \A e \in Entity :
        /\ e \in doomed => ghosts[e] # None
        /\ Waits(e) /\ ghosts[e] # None => e \in doomed

(* Each move adds at most its share of a turn.                             *)
Bounded ==
    \A e \in Entity :
        ghosts[e] # None => MaxTrouble * Moved(e) <= moves * (ReadingMod - 1)

Holds(told, e) ==
    /\ ghosts[e] = None /\ told[e] # None => Waits(e)
    /\ ghosts[e] # None /\ e \notin doomed =>
           told[e] # None /\ AbsDiff(told[e], where[e]) <= Moved(e)

Believed == faults = 0 => \A e \in Entity : Holds(After(client, net), e)

DriftInv == Owed /\ Bounded /\ Believed

LEMMA NoTurn ==
    ASSUME NEW k \in Nat, NEW m \in Nat \ {0}, NEW v \in Nat, v < k,
           NEW x \in Nat, NEW d \in Nat, k * x <= v * (m - 1), k * d < m
    PROVE  x + d < m /\ k * (x + d) <= (v + 1) * (m - 1)
<1>1. k * (x + d) = k * x + k * d /\ (v + 1) * (m - 1) = v * (m - 1) + (m - 1)
  OBVIOUS
<1>2. k * x \in Nat /\ k * d \in Nat /\ v * (m - 1) \in Nat
  OBVIOUS
<1>3. k * (x + d) <= (v + 1) * (m - 1)
  <2> DEFINE a == k * x
             b == k * d
             c == v * (m - 1)
  <2>1. a <= c /\ b < m /\ a \in Nat /\ b \in Nat /\ c \in Nat
    BY <1>2
  <2> HIDE DEF a, b, c
  <2>2. a + b <= c + (m - 1)
    BY <2>1
  <2>3. QED
    BY <2>2, <1>1 DEF a, b, c
<1>4. ASSUME x + d >= m
      PROVE  FALSE
  <2>1. k * (x + d) >= k * m
    BY <1>4
  <2>2. (v + 1) * (m - 1) <= k * (m - 1)
    <3>1. \A j, h, l \in Nat : j <= h => j * l <= h * l
      OBVIOUS
    <3>2. v + 1 \in Nat /\ m - 1 \in Nat /\ v + 1 <= k
      OBVIOUS
    <3>3. QED
      BY <3>1, <3>2
  <2>3. k * m = k * (m - 1) + k
    OBVIOUS
  <2> DEFINE a == k * (x + d)
             b == (v + 1) * (m - 1)
             c == k * (m - 1)
             q == k * m
  <2>4. a \in Int /\ b \in Int /\ c \in Int /\ q \in Int
    OBVIOUS
  <2>5. a <= b /\ b <= c /\ a >= q /\ q = c + k /\ k > 0
    BY <1>3, <2>1, <2>2, <2>3
  <2> HIDE DEF a, b, c, q
  <2>6. QED
    BY <2>4, <2>5
<1>5. QED
  BY <1>3, <1>4

LEMMA Further ==
    ASSUME NEW a \in Int, NEW b \in Int, NEW c \in Int
    PROVE  AbsDiff(a, c) <= AbsDiff(a, b) + AbsDiff(c, b)
  BY DEF AbsDiff

LEMMA MovedIs ==
    ASSUME ReplicationTypeOK, NEW e \in Entity, ghosts[e] # None
    PROVE  Moved(e) \in Nat /\ ghosts[e].mark \in Int /\ reading[e] \in Int
<1>1. ghosts[e].mark \in Int /\ reading[e] \in Int
  BY DEF ReplicationTypeOK, GhostType
<1>2. reading[e] - ghosts[e].mark \in Int
  BY <1>1
<1>3. (reading[e] - ghosts[e].mark) % ReadingMod \in 0 .. (ReadingMod - 1)
  BY <1>2, Remainder, Sizes
<1>4. QED
  BY <1>1, <1>3, Sizes DEF Moved

LEMMA DriftMoves ==
    ASSUME ReplicationTypeOK, DriftInv,
           NEW f \in Entity, NEW place \in Places, Move(f, place)
    PROVE  DriftInv'
<1> DEFINE d == AbsDiff(place, where[f])
           told == After(client, net)
<1>1. /\ moves + faults < MaxTrouble /\ moves' = moves + 1
      /\ where' = [where EXCEPT ![f] = place]
      /\ reading' = [reading EXCEPT ![f] = (@ + d) % ReadingMod]
      /\ UNCHANGED <<ghosts, pending, doomed, client, net, faults>>
  BY DEF Move, serving
<1>2. /\ moves \in Nat /\ faults \in Nat /\ where \in [Entity -> Places]
      /\ reading \in [Entity -> 0 .. (ReadingMod - 1)]
      /\ MaxTrouble \in Nat /\ ReadingMod \in Nat \ {0} /\ Places \subseteq Int
  BY Sizes DEF ReplicationTypeOK
<1>3. d \in Nat /\ MaxTrouble * d < ReadingMod
  <2>1. where[f] \in Places
    BY <1>2
  <2>2. QED
    BY <2>1, Apart, TurnAssumption
<1> HIDE DEF d
<1>4. ASSUME ghosts[f] # None
      PROVE  /\ Moved(f)' = Moved(f) + d
             /\ MaxTrouble * Moved(f)' <= moves' * (ReadingMod - 1)
  <2> DEFINE x == Moved(f)
             b == ghosts[f].mark
             a == reading[f]
  <2>1. x = (a - b) % ReadingMod /\ x \in Nat /\ a \in Int /\ b \in Int
    BY <1>4, MovedIs DEF Moved
  <2>2. MaxTrouble * x <= moves * (ReadingMod - 1)
    BY <1>4 DEF DriftInv, Bounded
  <2>3. moves < MaxTrouble
    BY <1>1, <1>2
  <2>4. Moved(f)' = (((a + d) % ReadingMod) - b) % ReadingMod
    BY <1>1, <1>2 DEF Moved
  <2> HIDE DEF x, a, b
  <2>5. x + d < ReadingMod /\ MaxTrouble * (x + d) <= (moves + 1) * (ReadingMod - 1)
    BY <1>2, <1>3, <2>1, <2>2, <2>3, NoTurn
  <2>6. (((a + d) % ReadingMod) - b) % ReadingMod = ((a - b) % ReadingMod) + d
    <3>1. ((a - b) % ReadingMod) + d < ReadingMod
      BY <2>1, <2>5
    <3>2. a \in Int /\ b \in Int /\ d \in Nat /\ ReadingMod \in Nat \ {0}
      BY <2>1, <1>2, <1>3
    <3>3. QED
      BY <3>1, <3>2, DriftGrows
  <2>7. Moved(f)' = x + d
    BY <2>1, <2>4, <2>6
  <2>8. QED
    BY <2>5, <2>7, <1>1 DEF x
<1>5. ASSUME NEW e \in Entity, e # f
      PROVE  Moved(e)' = Moved(e) /\ where'[e] = where[e]
  BY <1>1, <1>2, <1>5 DEF Moved
<1>6. Owed'
  BY <1>1 DEF DriftInv, Owed, Waits
<1>7. Bounded'
  <2> SUFFICES ASSUME NEW e \in Entity, ghosts[e] # None
               PROVE  MaxTrouble * Moved(e)' <= moves' * (ReadingMod - 1)
    BY <1>1 DEF Bounded
  <2>1. CASE e = f
    BY <2>1, <1>4
  <2>2. CASE e # f
    <3> DEFINE x == Moved(e)
               R == ReadingMod - 1
    <3>1. x \in Nat /\ R \in Nat /\ MaxTrouble * x <= moves * R
      BY <1>2, MovedIs DEF DriftInv, Bounded
    <3> HIDE DEF x, R
    <3>2. moves * R <= (moves + 1) * R /\ moves * R \in Nat /\ (moves + 1) * R \in Nat
      BY <3>1, <1>2
    <3>3. MaxTrouble * x \in Nat
      BY <3>1, <1>2
    <3>4. MaxTrouble * x <= (moves + 1) * R
      <4> DEFINE a == MaxTrouble * x
                 b == moves * R
                 c == (moves + 1) * R
      <4>1. a <= b /\ b <= c /\ a \in Nat /\ b \in Nat /\ c \in Nat
        BY <3>1, <3>2, <3>3
      <4> HIDE DEF a, b, c
      <4>2. a <= c
        BY <4>1
      <4>3. QED
        BY <4>2 DEF a, c
    <3>5. QED
      BY <3>4, <2>2, <1>5, <1>1 DEF x, R
  <2>3. QED
    BY <2>1, <2>2
<1>8. Believed'
  <2> SUFFICES ASSUME faults = 0, NEW e \in Entity
               PROVE  Holds(told, e)'
    BY <1>1 DEF Believed
  <2>1. told' = told
    BY <1>1
  <2>2. Holds(told, e)
    BY DEF DriftInv, Believed
  <2>3. told \in Belief
    BY AfterIsABelief DEF ReplicationTypeOK, Belief
  <2>4. ASSUME ghosts[e] # None, e \notin doomed
        PROVE  told[e] # None /\ AbsDiff(told[e], where'[e]) <= Moved(e)'
    <3>1. told[e] # None /\ AbsDiff(told[e], where[e]) <= Moved(e) /\ Moved(e) \in Nat
      BY <2>2, <2>4, MovedIs DEF Holds
    <3>2. CASE e = f
      <4> DEFINE p == told[e]
                 q == where[f]
      <4>1. p \in Int /\ q \in Int /\ place \in Int
        BY <3>1, <2>3, <1>2, Sizes DEF Belief
      <4>2. AbsDiff(p, place) <= AbsDiff(p, q) + AbsDiff(place, q)
        BY <4>1, Further
      <4>3. \A j, k \in Int : AbsDiff(j, k) \in Int
        BY DEF AbsDiff
      <4>4. AbsDiff(p, q) <= Moved(f) /\ Moved(f)' = Moved(f) + d /\ AbsDiff(place, q) = d
        BY <3>1, <3>2, <1>4, <2>4 DEF d
      <4>5. where'[e] = place
        BY <3>2, <1>1, <1>2
      <4> DEFINE x == AbsDiff(p, place)
                 y == AbsDiff(p, q)
                 z == Moved(f)
      <4>6. x \in Int /\ y \in Int /\ z \in Int /\ x <= y + d /\ y <= z
        <5>1. x \in Int /\ y \in Int
          BY <4>1, <4>3
        <5>2. z \in Int
          BY <2>4, <3>2, MovedIs
        <5>3. x <= y + d
          BY <4>2, <4>4
        <5>4. y <= z
          BY <4>4
        <5>5. QED
          BY <5>1, <5>2, <5>3, <5>4
      <4> HIDE DEF x, y, z
      <4>7. x <= z + d
        BY <4>6, <1>3
      <4>8. AbsDiff(told[e], where'[e]) = x /\ Moved(e)' = z + d
        <5>1. Moved(f)' = z + d
          BY <4>4 DEF z
        <5>2. Moved(e)' = Moved(f)'
          BY <3>2
        <5>3. QED
          BY <5>1, <5>2, <4>5 DEF x
      <4>9. QED
        BY <4>7, <4>8, <3>1
    <3>3. CASE e # f
      BY <3>1, <3>3, <1>5
    <3>4. QED
      BY <3>2, <3>3
  <2> HIDE DEF told
  <2>5. QED
    BY <2>1, <2>2, <2>4, <1>1 DEF Holds, Waits
<1>9. QED
  BY <1>6, <1>7, <1>8 DEF DriftInv

-----------------------------------------------------------------------------
(* What waits is taken from the front, and what departs joins the end.     *)
LEMMA OneAfterAnother ==
    ASSUME NEW S, NEW a \in Seq(S), NEW b \in Seq(S), NEW c, c = a \o b
    PROVE  /\ Len(c) = Len(a) + Len(b) /\ DOMAIN c = 1 .. (Len(a) + Len(b))
           /\ \A i \in 1 .. Len(a) : c[i] = a[i]
           /\ \A i \in 1 .. Len(b) : c[Len(a) + i] = b[i]
  OBVIOUS

LEMMA WaitsAfter ==
    ASSUME ReplicationTypeOK,
           NEW names \in SUBSET Entity, NEW departed \in SUBSET Entity,
           NEW taking \in 0 .. Len(pending),
           NEW sent \in Seq(names), NEW order \in Seq(departed),
           Serves(names, departed, taking, sent, order), NEW e \in Entity
    PROVE  LET waits == SubSeq(pending, taking + 1, Len(pending))
               rest == {waits[i] : i \in DOMAIN waits}
               taken == SubSeq(pending, 1, taking)
           IN  /\ e \in rest => Waits(e) /\ Waits(e)'
               /\ e \in departed => Waits(e)'
               /\ Waits(e)' => e \in rest \/ e \in departed
               /\ Waits(e) => e \in rest \/ \E i \in DOMAIN taken : taken[i] = e
               /\ (\E i \in DOMAIN taken : taken[i] = e) => Waits(e)
<1> DEFINE waits == SubSeq(pending, taking + 1, Len(pending))
           taken == SubSeq(pending, 1, taking)
           n == Len(pending)
<1>1. pending \in Seq(Entity) /\ n \in Nat /\ taking \in 0 .. n
  BY DEF ReplicationTypeOK
<1>2. /\ waits \in Seq(Entity) /\ Len(waits) = n - taking
      /\ \A i \in 1 .. (n - taking) : waits[i] = pending[taking + i]
  BY <1>1
<1>3. taken \in Seq(Entity) /\ Len(taken) = taking /\ \A i \in 1 .. taking : taken[i] = pending[i]
  BY <1>1
<1>4. pending' = waits \o order
  BY DEF Serves
<1>5. \A x \in departed : \E i \in DOMAIN order : order[i] = x
  BY DEF Serves
<1>6. order \in Seq(Entity) /\ \A i \in DOMAIN order : order[i] \in departed
  OBVIOUS
<1> HIDE DEF waits, taken
<1>7. /\ Len(pending') = Len(waits) + Len(order)
      /\ \A i \in 1 .. Len(waits) : pending'[i] = waits[i]
      /\ \A i \in 1 .. Len(order) : pending'[Len(waits) + i] = order[i]
      /\ DOMAIN pending' = 1 .. (Len(waits) + Len(order))
  <2>1. waits \in Seq(Entity) /\ order \in Seq(Entity) /\ pending' = waits \o order
    BY <1>2, <1>4, <1>6 DEF waits
  <2> DEFINE all == pending'
  <2>2. all = waits \o order
    BY <2>1
  <2> HIDE DEF all
  <2>3. /\ Len(all) = Len(waits) + Len(order) /\ DOMAIN all = 1 .. (Len(waits) + Len(order))
        /\ \A i \in 1 .. Len(waits) : all[i] = waits[i]
        /\ \A i \in 1 .. Len(order) : all[Len(waits) + i] = order[i]
    BY <2>1, <2>2, OneAfterAnother
  <2>4. QED
    BY <2>3 DEF all
<1>8. Len(order) \in Nat /\ DOMAIN order = 1 .. Len(order)
      /\ DOMAIN waits = 1 .. Len(waits) /\ DOMAIN taken = 1 .. taking /\ DOMAIN pending = 1 .. n
  BY <1>1, <1>2, <1>3, <1>6
<1>9. ASSUME NEW i \in DOMAIN waits, waits[i] = e
      PROVE  Waits(e) /\ Waits(e)'
  <2>1. taking + i \in DOMAIN pending /\ pending[taking + i] = e
    BY <1>1, <1>2, <1>8, <1>9
  <2>2. i \in DOMAIN pending' /\ pending'[i] = e
    BY <1>2, <1>7, <1>8, <1>9
  <2>3. QED
    BY <2>1, <2>2 DEF Waits
<1>10. ASSUME e \in departed
       PROVE  Waits(e)'
  <2>1. PICK i \in DOMAIN order : order[i] = e
    BY <1>5, <1>10
  <2>2. Len(waits) + i \in DOMAIN pending' /\ pending'[Len(waits) + i] = e
    BY <2>1, <1>1, <1>2, <1>7, <1>8
  <2>3. QED
    BY <2>2 DEF Waits
<1>11. ASSUME NEW i \in DOMAIN pending', pending'[i] = e
       PROVE  e \in {waits[j] : j \in DOMAIN waits} \/ e \in departed
  <2>1. CASE i <= Len(waits)
    <3>1. i \in 1 .. Len(waits)
      BY <2>1, <1>1, <1>2, <1>7, <1>8
    <3>2. i \in DOMAIN waits /\ waits[i] = e
      BY <3>1, <1>7, <1>8, <1>11
    <3>3. QED
      BY <3>2
  <2>2. CASE i > Len(waits)
    <3> DEFINE j == i - Len(waits)
    <3>1. j \in 1 .. Len(order) /\ i = Len(waits) + j
      BY <2>2, <1>1, <1>2, <1>7, <1>8
    <3> HIDE DEF j
    <3>2. order[j] = e
      BY <3>1, <1>7, <1>11
    <3>3. QED
      BY <3>1, <3>2, <1>6, <1>8
  <2>3. QED
    BY <2>1, <2>2, <1>1, <1>2, <1>7
<1>12. ASSUME NEW i \in DOMAIN pending, pending[i] = e
       PROVE  e \in {waits[j] : j \in DOMAIN waits} \/ \E j \in DOMAIN taken : taken[j] = e
  <2>1. CASE i <= taking
    <3>1. i \in DOMAIN taken /\ taken[i] = e
      BY <2>1, <1>1, <1>3, <1>8, <1>12
    <3>2. QED
      BY <3>1
  <2>2. CASE i > taking
    <3> DEFINE j == i - taking
    <3>1. j \in 1 .. (n - taking) /\ i = taking + j
      BY <2>2, <1>1, <1>8
    <3> HIDE DEF j
    <3>2. j \in DOMAIN waits /\ waits[j] = e
      BY <3>1, <1>2, <1>8, <1>12
    <3>3. QED
      BY <3>2
  <2>3. QED
    BY <2>1, <2>2, <1>1, <1>8
<1>13. ASSUME NEW i \in DOMAIN taken, taken[i] = e
       PROVE  Waits(e)
  <2>1. i \in DOMAIN pending /\ pending[i] = e
    BY <1>1, <1>3, <1>8, <1>13
  <2>2. QED
    BY <2>1 DEF Waits
<1>14. QED
  BY <1>9, <1>10, <1>11, <1>12, <1>13 DEF Waits, waits, taken

LEMMA DriftServes ==
    ASSUME ReplicationTypeOK, ReplicationTypeOK', DriftInv, Serve
    PROVE  DriftInv'
<1>1. PICK names \in SUBSET Entity, departed \in SUBSET Entity, taking \in 0 .. Len(pending) :
          \E sent \in Seq(names), order \in Seq(departed) :
             Serves(names, departed, taking, sent, order)
  BY ServeDoes
<1>2. PICK sent \in Seq(names), order \in Seq(departed) :
          Serves(names, departed, taking, sent, order)
  BY <1>1
<1> DEFINE waits == SubSeq(pending, taking + 1, Len(pending))
           rest == {waits[i] : i \in DOMAIN waits}
           taken == SubSeq(pending, 1, taking)
           p == net'[Len(net) + 1]
           told == After(client, net)
<1>3. \A e \in Entity :
          /\ e \in rest => Waits(e) /\ Waits(e)'
          /\ e \in departed => Waits(e)'
          /\ Waits(e)' => e \in rest \/ e \in departed
          /\ Waits(e) => e \in rest \/ Drops(p, e)
          /\ Drops(p, e) => Waits(e)
  <2>1. p.despawns = taken
    BY <1>2, PacketsTyped
  <2> HIDE DEF p
  <2>2. QED
    BY <2>1, <1>2, WaitsAfter DEF Drops
<1>4. \A e \in Entity :
          /\ e \in departed => ghosts[e] # None /\ ghosts'[e] = None /\ e \notin names
          /\ e \in names => ghosts'[e] # None /\ ghosts'[e].mark = reading[e]
          /\ e \notin names \cup departed =>
                 /\ ghosts[e] = None <=> ghosts'[e] = None
                 /\ ghosts[e] # None => ghosts'[e].mark = ghosts[e].mark
  BY <1>2 DEF Serves
<1>5. doomed' = (doomed \ (names \cup departed)) \cup (names \cap rest)
  BY <1>2 DEF Serves
<1>6. UNCHANGED <<where, reading, moves, client, faults>>
  BY <1>2 DEF Serves
<1>7. /\ net' = Append(net, p) /\ p \in PacketType
      /\ p.records = [i \in DOMAIN sent |-> Written[sent[i]][where[sent[i]]]]
  BY <1>2, PacketsTyped
<1>8. \A e \in names : \E i \in DOMAIN sent : sent[i] = e
  BY <1>2 DEF Serves
<1>9. told \in Belief
  BY AfterIsABelief DEF ReplicationTypeOK, Belief
<1>10. After(client, net)' = Adopt(told, p)
  <2> HIDE DEF p
  <2> QED  BY <1>6, <1>7, AfterOneMore DEF ReplicationTypeOK
<1> HIDE DEF p, told, rest
<1>11. \A i \in DOMAIN sent : /\ sent[i] \in names /\ i \in DOMAIN p.records
                              /\ p.records[i].name = sent[i]
                              /\ WhatItReads[p.records[i]] = where[sent[i]]
  <2> SUFFICES ASSUME NEW i \in DOMAIN sent
               PROVE  /\ sent[i] \in names /\ i \in DOMAIN p.records
                      /\ p.records[i].name = sent[i]
                      /\ WhatItReads[p.records[i]] = where[sent[i]]
    OBVIOUS
  <2>1. sent[i] \in names /\ sent[i] \in Entity
    OBVIOUS
  <2>2. where[sent[i]] \in Places
    BY <2>1 DEF ReplicationTypeOK
  <2>3. i \in DOMAIN p.records /\ p.records[i] = Written[sent[i]][where[sent[i]]]
    BY <1>7
  <2>4. QED
    BY <2>1, <2>2, <2>3, RecordIsRead
<1>12. DOMAIN p.records = DOMAIN sent
  BY <1>7
<1>13. \A e \in Entity :
           /\ e \in names => Adopt(told, p)[e] = where[e]
           /\ e \notin names => Adopt(told, p)[e] = IF Drops(p, e) THEN None ELSE told[e]
  <2> SUFFICES ASSUME NEW e \in Entity
               PROVE  /\ e \in names => Adopt(told, p)[e] = where[e]
                      /\ e \notin names =>
                             Adopt(told, p)[e] = IF Drops(p, e) THEN None ELSE told[e]
    OBVIOUS
  <2>1. e \in names <=> Names(p, e)
    BY <1>8, <1>11, <1>12 DEF Names
  <2>2. /\ Names(p, e) => \E i \in DOMAIN p.records :
               p.records[i].name = e /\ Adopt(told, p)[e] = WhatItReads[p.records[i]]
        /\ ~Names(p, e) => Adopt(told, p)[e] = IF Drops(p, e) THEN None ELSE told[e]
    BY <1>7, <1>9, AdoptIs
  <2>3. QED
    BY <2>1, <2>2, <1>11, <1>12
<1>14. Owed'
  <2> SUFFICES ASSUME NEW e \in Entity
               PROVE  /\ e \in doomed' => ghosts'[e] # None
                      /\ Waits(e)' /\ ghosts'[e] # None => e \in doomed'
    BY DEF Owed
  <2>1. /\ e \in doomed => ghosts[e] # None
        /\ Waits(e) /\ ghosts[e] # None => e \in doomed
    BY DEF DriftInv, Owed
  <2>2. QED
    BY <2>1, <1>3, <1>4, <1>5
<1>15. Bounded'
  <2> SUFFICES ASSUME NEW e \in Entity, ghosts'[e] # None
               PROVE  MaxTrouble * Moved(e)' <= moves' * (ReadingMod - 1)
    BY DEF Bounded
  <2>1. MaxTrouble \in Nat /\ ReadingMod \in Nat \ {0} /\ moves \in Nat
    BY Sizes DEF ReplicationTypeOK
  <2>2. CASE e \in names
    <3>1. Moved(e)' = (reading[e] - reading[e]) % ReadingMod
      BY <2>2, <1>4, <1>6 DEF Moved
    <3>2. reading[e] \in Int
      BY DEF ReplicationTypeOK
    <3>3. Moved(e)' = 0
      BY <3>1, <3>2, <2>1
    <3>4. moves * (ReadingMod - 1) >= 0
      BY <2>1
    <3>5. QED
      BY <3>3, <3>4, <2>1, <1>6
  <2>3. CASE e \notin names
    <3>1. ghosts[e] # None /\ ghosts'[e].mark = ghosts[e].mark
      BY <2>3, <1>4
    <3>2. Moved(e)' = Moved(e)
      BY <3>1, <1>6 DEF Moved
    <3>3. QED
      BY <3>1, <3>2, <1>6 DEF DriftInv, Bounded
  <2>4. QED
    BY <2>2, <2>3
<1>16. Believed'
  <2> SUFFICES ASSUME faults = 0, NEW e \in Entity
               PROVE  Holds(After(client, net), e)'
    BY <1>6 DEF Believed
  <2>1. Holds(told, e)
    BY DEF DriftInv, Believed, told
  <2> DEFINE new == Adopt(told, p)
  <2>2. ASSUME ghosts'[e] = None, new[e] # None
        PROVE  Waits(e)'
    <3>1. CASE e \in departed
      BY <3>1, <1>3
    <3>2. CASE e \notin departed
      <4>1. e \notin names /\ ghosts[e] = None
        BY <3>2, <2>2, <1>4
      <4>2. ~Drops(p, e) /\ told[e] # None
        BY <4>1, <2>2, <1>13
      <4>3. Waits(e)
        BY <4>1, <4>2, <2>1 DEF Holds
      <4>4. QED
        BY <4>2, <4>3, <1>3
    <3>3. QED
      BY <3>1, <3>2
  <2>3. ASSUME ghosts'[e] # None, e \notin doomed'
        PROVE  new[e] # None /\ AbsDiff(new[e], where[e]) <= Moved(e)'
    <3>1. CASE e \in names
      <4>1. new[e] = where[e] /\ where[e] \in Places
        BY <3>1, <1>13 DEF ReplicationTypeOK
      <4>2. AbsDiff(where[e], where[e]) = 0
        <5>1. \A x \in Int : AbsDiff(x, x) = 0
          BY DEF AbsDiff
        <5>2. QED
          BY <5>1, <4>1, Sizes
      <4>3. Moved(e)' \in Nat
        <5>1. reading' = reading /\ reading[e] \in Int
          BY <1>6 DEF ReplicationTypeOK
        <5>2. ghosts'[e].mark = reading[e]
          BY <3>1, <1>4
        <5>3. Moved(e)' = (reading[e] - reading[e]) % ReadingMod
          BY <5>1, <5>2 DEF Moved
        <5>4. QED
          BY <5>1, <5>3, Sizes
      <4>4. new[e] # None
        BY <4>1, Sizes
      <4> HIDE DEF new
      <4>5. QED
        BY <4>1, <4>2, <4>3, <4>4
    <3>2. CASE e \notin names
      <4>1. e \notin departed /\ ghosts[e] # None /\ ghosts'[e].mark = ghosts[e].mark
        BY <3>2, <2>3, <1>4
      <4>2. e \notin doomed
        BY <3>2, <4>1, <2>3, <1>5
      <4>3. ~Waits(e)
        BY <4>1, <4>2 DEF DriftInv, Owed
      <4>4. new[e] = told[e]
        BY <4>3, <3>2, <1>3, <1>13
      <4>5. Moved(e)' = Moved(e)
        BY <4>1, <1>6 DEF Moved
      <4> HIDE DEF new
      <4>6. QED
        BY <4>1, <4>2, <4>4, <4>5, <2>1 DEF Holds
    <3>3. QED
      BY <3>1, <3>2
  <2> HIDE DEF new
  <2>4. After(client, net)' = new
    BY <1>10 DEF new
  <2>5. QED
    BY <2>2, <2>3, <2>4, <1>6 DEF Holds
<1>17. QED
  BY <1>14, <1>15, <1>16 DEF DriftInv

LEMMA DriftArrives ==
    ASSUME ReplicationTypeOK, DriftInv,
           NEW i \in DOMAIN net, Deliver(i) \/ Lose(i)
    PROVE  DriftInv'
<1>1. /\ UNCHANGED <<where, reading, moves, ghosts, pending, doomed>>
      /\ faults' = 0 => faults = 0
  BY DEF Deliver, Lose, world, serving, ReplicationTypeOK
<1>2. \A e \in Entity : Moved(e)' = Moved(e)
  BY <1>1 DEF Moved
<1>3. Owed' /\ Bounded'
  BY <1>1, <1>2 DEF DriftInv, Owed, Bounded, Waits
<1>4. ASSUME faults' = 0
      PROVE  After(client, net)' = After(client, net)
  <2>1. i = 1 /\ client' = Adopt(client, net[1]) /\ net' = RemoveAt(net, 1) /\ 1 \in DOMAIN net
    BY <1>4 DEF Deliver, Lose, ReplicationTypeOK
  <2>2. net \in Seq(PacketType)
    BY DEF ReplicationTypeOK
  <2>3. QED
    BY <2>1, <2>2, AfterTheFirst
<1>5. Believed'
  <2> DEFINE told == After(client, net)
  <2> SUFFICES ASSUME faults' = 0, NEW e \in Entity
               PROVE  Holds(told, e)'
    BY DEF Believed
  <2>1. told' = told
    BY <1>4
  <2>2. Holds(told, e)
    BY <1>1 DEF DriftInv, Believed
  <2> HIDE DEF told
  <2>3. QED
    BY <2>1, <2>2, <1>1, <1>2 DEF Holds, Waits
<1>6. QED
  BY <1>3, <1>5 DEF DriftInv

LEMMA DriftAlways == ReplicationSpec => []DriftInv
<1>1. ReplicationInit => DriftInv
  <2> SUFFICES ASSUME ReplicationInit
               PROVE  DriftInv
    OBVIOUS
  <2>1. pending = <<>> /\ \A e \in Entity : ghosts[e] = None /\ client[e] = None
    BY DEF ReplicationInit
  <2>2. After(client, net) = client
    BY AfterNone DEF ReplicationInit
  <2>3. doomed = {}
    BY DEF ReplicationInit
  <2>4. QED
    BY <2>1, <2>2, <2>3 DEF DriftInv, Owed, Bounded, Believed, Holds, Waits
<1>2. /\ ReplicationTypeOK /\ ReplicationTypeOK' /\ DriftInv
      /\ [ReplicationNext]_replicationVars
      => DriftInv'
  <2> SUFFICES ASSUME ReplicationTypeOK, ReplicationTypeOK', DriftInv,
                      [ReplicationNext]_replicationVars
               PROVE  DriftInv'
    OBVIOUS
  <2>1. ASSUME NEW e \in Entity, NEW place \in Places, Move(e, place)
        PROVE  DriftInv'
    BY <2>1, DriftMoves
  <2>2. ASSUME NEW e \in Entity, Despawn(e)
        PROVE  DriftInv'
    <3>1. /\ UNCHANGED <<where, reading, ghosts, pending, doomed, client, net, faults>>
          /\ moves' = moves + 1
      BY <2>2 DEF Despawn, serving
    <3>2. \A f \in Entity : Moved(f)' = Moved(f)
      BY <3>1 DEF Moved
    <3>3. Owed' /\ Believed'
      <4> DEFINE told == After(client, net)
      <4>1. told' = told
        BY <3>1
      <4>2. Believed <=> (faults = 0 => \A f \in Entity : Holds(told, f))
        BY DEF Believed
      <4>3. Believed' <=> (faults' = 0 => \A f \in Entity : Holds(told, f)')
        BY DEF Believed
      <4> HIDE DEF told
      <4>4. QED
        BY <4>1, <4>2, <4>3, <3>1, <3>2 DEF DriftInv, Owed, Waits, Holds
    <3>4. Bounded'
      <4> SUFFICES ASSUME NEW f \in Entity, ghosts[f] # None
                   PROVE  MaxTrouble * Moved(f) <= (moves + 1) * (ReadingMod - 1)
        BY <3>1, <3>2 DEF Bounded
      <4> DEFINE a == MaxTrouble * Moved(f)
                 b == moves * (ReadingMod - 1)
                 c == (moves + 1) * (ReadingMod - 1)
      <4>1. a <= b
        BY DEF DriftInv, Bounded
      <4>2. a \in Int /\ b \in Int /\ c \in Int /\ b <= c
        <5>1. MaxTrouble \in Nat /\ Moved(f) \in Nat /\ moves \in Nat /\ ReadingMod \in Nat \ {0}
          BY MovedIs, Sizes DEF ReplicationTypeOK
        <5>2. \A x, y \in Nat : x * y \in Int
          OBVIOUS
        <5>3. c = b + (ReadingMod - 1)
          BY <5>1
        <5>4. QED
          BY <5>1, <5>2, <5>3
      <4> HIDE DEF a, b, c
      <4>3. a <= c
        BY <4>1, <4>2
      <4>4. QED
        BY <4>3 DEF a, c
    <3>5. QED
      BY <3>3, <3>4 DEF DriftInv
  <2>3. CASE Serve
    BY <2>3, DriftServes
  <2>4. ASSUME NEW i \in DOMAIN net, Deliver(i) \/ Lose(i)
        PROVE  DriftInv'
    BY <2>4, DriftArrives
  <2>5. CASE UNCHANGED replicationVars
    <3> DEFINE told == After(client, net)
    <3>1. UNCHANGED <<where, reading, moves, ghosts, pending, doomed, faults>> /\ told' = told
      BY <2>5 DEF replicationVars, world, serving
    <3>2. \A f \in Entity : Moved(f)' = Moved(f)
      BY <3>1 DEF Moved
    <3>3. Believed <=> (faults = 0 => \A f \in Entity : Holds(told, f))
      BY DEF Believed
    <3>4. Believed' <=> (faults' = 0 => \A f \in Entity : Holds(told, f)')
      BY DEF Believed
    <3> HIDE DEF told
    <3>5. QED
      BY <3>1, <3>2, <3>3, <3>4 DEF DriftInv, Owed, Bounded, Waits, Holds
  <2>6. QED
    BY <2>1, <2>2, <2>3, <2>4, <2>5 DEF ReplicationNext
<1>3. QED
  BY <1>1, <1>2, ReplicationTypeCorrect, PTL DEF ReplicationSpec

(* Over a link that loses and reorders nothing, the client is never        *)
(* further from where an entity stands than the odometer says.             *)
THEOREM DriftAlwaysBoundsError == ReplicationSpec => []DriftBoundsError
<1>1. DriftInv => DriftBoundsError
  <2> SUFFICES ASSUME DriftInv, faults = 0, NEW e \in Entity \ doomed
               PROVE  IF ghosts[e] # None
                      THEN Told[e] # None /\ AbsDiff(Told[e], where[e]) <= Moved(e)
                      ELSE Told[e] # None => e \in {pending[i] : i \in DOMAIN pending}
    BY DEF DriftBoundsError
  <2> DEFINE told == After(client, net)
  <2>1. Told = told
    BY ToldIs
  <2>2. Holds(told, e)
    BY DEF DriftInv, Believed
  <2> HIDE DEF told
  <2>3. QED
    BY <2>1, <2>2 DEF Holds, Waits
<1>2. QED
  BY <1>1, DriftAlways, PTL
=============================================================================
