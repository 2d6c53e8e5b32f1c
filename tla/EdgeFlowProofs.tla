--------------------------- MODULE EdgeFlowProofs ---------------------------
(***************************************************************************)
(* Proofs of what the edge server and its regions agree on once nothing is *)
(* under way, for any number of clients, handles, regions and entities, on *)
(* the invariants of EdgeServerProofs.                                     *)
(*                                                                         *)
(* That nothing is left behind is proved of patient clients (ClientsAsk).  *)
(* Flow follows one entity through the queues to its region and back: it   *)
(* is asked for once and there only, answered before it has an id, and     *)
(* one given back is gone or its despawn is on the way.  SweepInv says     *)
(* that a stream that ends sweeps all it owns (Targets, LeaversFinish),    *)
(* and that what a client that left was due is given back (AllDue).        *)
(*                                                                         *)
(* That the edge and its regions agree is proved of clients that also wait *)
(* to be told of what they spawned before they give it back (ClientsWait). *)
(* WaitInv says that nothing is then given back that was not answered for, *)
(* so nothing is forgotten, and SettleInv that what the edge holds is in   *)
(* its region only and what it does not hold is nowhere, in no queue.      *)
(*                                                                         *)
(* That an observer lists its shadows is proved from HomeInv and Flow.     *)
(* ListInv says what stands for what (Lineage), what the reader holds in   *)
(* hand while it settles a view, closes a list or takes one entity off it  *)
(* (Working), how far a list may then be from what stands for its observer *)
(* (Matches), and that a stream that ends sweeps both (SweptTogether).     *)
(***************************************************************************)
EXTENDS EdgeServerProofs

(* What is on its way about an entity, in a queue or among the reports.    *)
Has(s, what, k) == \E i \in DOMAIN s : s[i].what = what /\ s[i].key = k

Once(s, what, k) ==
    \A i, j \in DOMAIN s :
        s[i].what = what /\ s[i].key = k /\ s[j].what = what /\ s[j].key = k => i = j

(* Any report that it was added is followed by one that it was removed.    *)
GoesAfter(s, k) ==
    \A i \in DOMAIN s : s[i].what = "added" /\ s[i].key = k =>
        \E j \in DOMAIN s : i < j /\ s[j].what = "removed" /\ s[j].key = k

LEMMA JoinedPlaces ==
    ASSUME NEW S, NEW s \in Seq(S), NEW t \in Seq(S)
    PROVE  /\ s \o t \in Seq(S) /\ Len(s) \in Nat
           /\ \A i \in DOMAIN s : i \in Nat /\ i <= Len(s)
           /\ \A j \in DOMAIN t : j \in Nat /\ j >= 1
           /\ \A i \in DOMAIN s : i \in DOMAIN (s \o t) /\ (s \o t)[i] = s[i]
           /\ \A j \in DOMAIN t : Len(s) + j \in DOMAIN (s \o t) /\ (s \o t)[Len(s) + j] = t[j]
           /\ \A i \in DOMAIN (s \o t) : i \in DOMAIN s \/ \E j \in DOMAIN t : i = Len(s) + j
<1>1. /\ Len(s) \in Nat /\ Len(t) \in Nat /\ DOMAIN s = 1 .. Len(s) /\ DOMAIN t = 1 .. Len(t)
      /\ s \o t \in Seq(S) /\ Len(s \o t) = Len(s) + Len(t)
      /\ DOMAIN (s \o t) = 1 .. (Len(s) + Len(t))
      /\ \A i \in 1 .. (Len(s) + Len(t)) :
            (s \o t)[i] = IF i <= Len(s) THEN s[i] ELSE t[i - Len(s)]
  OBVIOUS
<1>2. ASSUME NEW i \in DOMAIN (s \o t) PROVE i \in DOMAIN s \/ \E j \in DOMAIN t : i = Len(s) + j
  <2>1. CASE i <= Len(s)
    BY <1>1, <2>1
  <2>2. CASE ~(i <= Len(s))
    <3>1. i \in 1 .. (Len(s) + Len(t))
      BY <1>1
    <3>2. i - Len(s) \in 1 .. Len(t) /\ i = Len(s) + (i - Len(s))
      BY <1>1, <2>2, <3>1
    <3>3. QED
      BY <1>1, <3>2
  <2>3. QED
    BY <2>1, <2>2
<1>3. ASSUME NEW j \in DOMAIN t
      PROVE  Len(s) + j \in DOMAIN (s \o t) /\ (s \o t)[Len(s) + j] = t[j]
  <2>1. /\ Len(s) + j \in 1 .. (Len(s) + Len(t)) /\ ~(Len(s) + j <= Len(s))
        /\ (Len(s) + j) - Len(s) = j
    BY <1>1
  <2>2. QED
    BY <1>1, <2>1
<1>4. \A i \in DOMAIN s : i \in DOMAIN (s \o t) /\ (s \o t)[i] = s[i]
  BY <1>1
<1>5. QED
  BY <1>1, <1>2, <1>3, <1>4

LEMMA JoinedHas ==
    ASSUME NEW S, NEW s \in Seq(S), NEW t \in Seq(S), NEW what, NEW k
    PROVE  /\ Has(s \o t, what, k) <=> Has(s, what, k) \/ Has(t, what, k)
           /\ Once(s \o t, what, k) <=>
                /\ Once(s, what, k) /\ Once(t, what, k)
                /\ ~(Has(s, what, k) /\ Has(t, what, k))
<1> DEFINE u == s \o t
           n == Len(s)
<1>1. /\ n \in Nat
      /\ \A i \in DOMAIN s : i \in Nat /\ i <= n
      /\ \A j \in DOMAIN t : j \in Nat /\ j >= 1
      /\ \A i \in DOMAIN s : i \in DOMAIN u /\ u[i] = s[i]
      /\ \A j \in DOMAIN t : n + j \in DOMAIN u /\ u[n + j] = t[j]
      /\ \A i \in DOMAIN u : i \in DOMAIN s \/ \E j \in DOMAIN t : i = n + j
  BY JoinedPlaces
<1> HIDE DEF u, n
<1>2. Has(u, what, k) <=> Has(s, what, k) \/ Has(t, what, k)
  BY <1>1 DEF Has
<1>3. ASSUME Once(u, what, k)
      PROVE  Once(s, what, k) /\ Once(t, what, k) /\ ~(Has(s, what, k) /\ Has(t, what, k))
  <2>1. Once(s, what, k)
    BY <1>1, <1>3 DEF Once
  <2>2. Once(t, what, k)
    <3> SUFFICES ASSUME NEW i \in DOMAIN t, NEW j \in DOMAIN t,
                        t[i].what = what, t[i].key = k, t[j].what = what, t[j].key = k
                 PROVE  i = j
      BY DEF Once
    <3>1. n + i = n + j
      BY <1>1, <1>3 DEF Once
    <3>2. QED
      BY <1>1, <3>1
  <2>3. ASSUME NEW i \in DOMAIN s, NEW j \in DOMAIN t,
               s[i].what = what, s[i].key = k, t[j].what = what, t[j].key = k
        PROVE  FALSE
    <3>1. i = n + j
      BY <1>1, <1>3, <2>3 DEF Once
    <3>2. QED
      BY <1>1, <3>1
  <2>4. QED
    BY <2>1, <2>2, <2>3 DEF Has
<1>4. ASSUME Once(s, what, k), Once(t, what, k), ~(Has(s, what, k) /\ Has(t, what, k))
      PROVE  Once(u, what, k)
  <2> SUFFICES ASSUME NEW i \in DOMAIN u, NEW j \in DOMAIN u,
                      u[i].what = what, u[i].key = k, u[j].what = what, u[j].key = k
               PROVE  i = j
    BY DEF Once
  <2>1. CASE i \in DOMAIN s /\ j \in DOMAIN s
    BY <1>1, <1>4, <2>1 DEF Once
  <2>2. ASSUME NEW a \in DOMAIN t, NEW b \in DOMAIN t, i = n + a, j = n + b PROVE i = j
    BY <1>1, <1>4, <2>2 DEF Once
  <2>3. QED
    BY <1>1, <1>4, <2>1, <2>2 DEF Has
<1>5. QED
  BY <1>2, <1>3, <1>4 DEF u

LEMMA JoinedWithout ==
    ASSUME NEW S, NEW s \in Seq(S), NEW t \in Seq(S), NEW what, NEW k, ~Has(t, what, k)
    PROVE  /\ Has(s \o t, what, k) <=> Has(s, what, k)
           /\ Once(s, what, k) => Once(s \o t, what, k)
<1>1. Once(t, what, k)
  BY DEF Once, Has
<1>2. QED
  BY <1>1, JoinedHas

LEMMA JoinedGoes ==
    ASSUME NEW S, NEW s \in Seq(S), NEW t \in Seq(S), NEW k
    PROVE  /\ GoesAfter(s, k) /\ ~Has(t, "added", k) => GoesAfter(s \o t, k)
           /\ Has(t, "removed", k) /\ ~Has(t, "added", k) => GoesAfter(s \o t, k)
<1> DEFINE u == s \o t
           n == Len(s)
<1>1. /\ n \in Nat
      /\ \A i \in DOMAIN s : i \in Nat /\ i <= n
      /\ \A j \in DOMAIN t : j \in Nat /\ j >= 1
      /\ \A i \in DOMAIN s : i \in DOMAIN u /\ u[i] = s[i]
      /\ \A j \in DOMAIN t : n + j \in DOMAIN u /\ u[n + j] = t[j]
      /\ \A i \in DOMAIN u : i \in DOMAIN s \/ \E j \in DOMAIN t : i = n + j
  BY JoinedPlaces
<1> HIDE DEF u, n
<1>2. ASSUME ~Has(t, "added", k), NEW i \in DOMAIN u, u[i].what = "added", u[i].key = k
      PROVE  i \in DOMAIN s /\ s[i].what = "added" /\ s[i].key = k
  BY <1>1, <1>2 DEF Has
<1>3. ASSUME GoesAfter(s, k), ~Has(t, "added", k)
      PROVE  GoesAfter(u, k)
  BY <1>1, <1>2, <1>3 DEF GoesAfter
<1>4. ASSUME Has(t, "removed", k), ~Has(t, "added", k)
      PROVE  GoesAfter(u, k)
  <2>1. PICK j \in DOMAIN t : t[j].what = "removed" /\ t[j].key = k
    BY <1>4 DEF Has
  <2>2. n + j \in DOMAIN u /\ u[n + j].what = "removed" /\ u[n + j].key = k
    BY <1>1, <2>1
  <2>3. \A i \in DOMAIN s : i < n + j
    BY <1>1, <2>1
  <2>4. QED
    BY <1>2, <1>4, <2>2, <2>3 DEF GoesAfter
<1>5. QED
  BY <1>3, <1>4 DEF u

(* What is read first, and what is left.                                   *)
LEMMA TailHas ==
    ASSUME NEW S, NEW s \in Seq(S), s # <<>>, NEW k
    PROVE  /\ \A what : /\ Has(s, what, k) <=>
                            (s[1].what = what /\ s[1].key = k) \/ Has(Tail(s), what, k)
                        /\ Once(s, what, k) => Once(Tail(s), what, k)
                        /\ Once(s, what, k) /\ s[1].what = what /\ s[1].key = k =>
                                ~Has(Tail(s), what, k)
           /\ GoesAfter(s, k) => GoesAfter(Tail(s), k)
           /\ GoesAfter(s, k) /\ s[1].what = "added" /\ s[1].key = k => Has(Tail(s), "removed", k)
<1> DEFINE u == Tail(s)
<1>1. /\ 1 \in DOMAIN s
      /\ \A i \in DOMAIN s : i \in Nat /\ (i = 1 \/ (i > 1 /\ i - 1 \in DOMAIN u /\ u[i - 1] = s[i]))
      /\ \A i \in DOMAIN u : i \in Nat /\ i >= 1 /\ i + 1 \in DOMAIN s /\ u[i] = s[i + 1]
  <2>1. /\ Len(s) \in Nat /\ Len(s) >= 1 /\ DOMAIN s = 1 .. Len(s)
        /\ Len(u) = Len(s) - 1 /\ DOMAIN u = 1 .. (Len(s) - 1)
        /\ \A i \in 1 .. (Len(s) - 1) : u[i] = s[i + 1]
    OBVIOUS
  <2> HIDE DEF u
  <2>2. ASSUME NEW i \in DOMAIN s
        PROVE  i \in Nat /\ (i = 1 \/ (i > 1 /\ i - 1 \in DOMAIN u /\ u[i - 1] = s[i]))
    <3>1. i \in Nat /\ (i = 1 \/ (i > 1 /\ i - 1 \in 1 .. (Len(s) - 1) /\ (i - 1) + 1 = i))
      BY <2>1
    <3>2. QED
      BY <2>1, <3>1
  <2>3. QED
    BY <2>1, <2>2
<1> HIDE DEF u
<1>2. ASSUME NEW what
      PROVE  /\ Has(s, what, k) <=> (s[1].what = what /\ s[1].key = k) \/ Has(u, what, k)
             /\ Once(s, what, k) => Once(u, what, k)
             /\ Once(s, what, k) /\ s[1].what = what /\ s[1].key = k => ~Has(u, what, k)
  <2>1. Has(s, what, k) <=> (s[1].what = what /\ s[1].key = k) \/ Has(u, what, k)
    BY <1>1 DEF Has
  <2>2. ASSUME Once(s, what, k) PROVE Once(u, what, k)
    <3> SUFFICES ASSUME NEW i \in DOMAIN u, NEW j \in DOMAIN u,
                        u[i].what = what, u[i].key = k, u[j].what = what, u[j].key = k
                 PROVE  i = j
      BY DEF Once
    <3>1. i + 1 = j + 1
      BY <1>1, <2>2 DEF Once
    <3>2. QED
      BY <1>1, <3>1
  <2>3. ASSUME Once(s, what, k), s[1].what = what, s[1].key = k,
               NEW i \in DOMAIN u, u[i].what = what, u[i].key = k
        PROVE  FALSE
    <3>1. i + 1 = 1
      BY <1>1, <2>3 DEF Once
    <3>2. QED
      BY <1>1, <3>1
  <2>4. QED
    BY <2>1, <2>2, <2>3 DEF Has
<1>3. ASSUME GoesAfter(s, k) PROVE GoesAfter(u, k)
  <2> SUFFICES ASSUME NEW i \in DOMAIN u, u[i].what = "added", u[i].key = k
               PROVE  \E j \in DOMAIN u : i < j /\ u[j].what = "removed" /\ u[j].key = k
    BY DEF GoesAfter
  <2>1. PICK j \in DOMAIN s : i + 1 < j /\ s[j].what = "removed" /\ s[j].key = k
    BY <1>1, <1>3 DEF GoesAfter
  <2>2. j - 1 \in DOMAIN u /\ i < j - 1 /\ u[j - 1] = s[j]
    BY <1>1, <2>1
  <2>3. QED
    BY <2>1, <2>2
<1>4. ASSUME GoesAfter(s, k), s[1].what = "added", s[1].key = k PROVE Has(u, "removed", k)
  <2>1. PICK j \in DOMAIN s : 1 < j /\ s[j].what = "removed" /\ s[j].key = k
    BY <1>1, <1>4 DEF GoesAfter
  <2>2. j - 1 \in DOMAIN u /\ u[j - 1] = s[j]
    BY <1>1, <2>1
  <2>3. QED
    BY <2>1, <2>2 DEF Has
<1>5. QED
  BY <1>2, <1>3, <1>4 DEF u

(* What is picked for one kind of message.                                 *)
LEMMA PickedHas ==
    ASSUME NEW S, NEW s \in Seq(S), NEW I \in SUBSET DOMAIN s, NEW what, NEW k
    PROVE  /\ Has(Picked(s, I), what, k) <=> \E i \in I : s[i].what = what /\ s[i].key = k
           /\ Once(s, what, k) => Once(Picked(s, I), what, k)
<1> DEFINE p == Picked(s, I)
<1>1. /\ \A n \in DOMAIN p : \E i \in I : p[n] = s[i]
      /\ \A i \in I : \E n \in DOMAIN p : p[n] = s[i]
      /\ \A m, n \in DOMAIN p : m # n => \E i, j \in I : i # j /\ p[m] = s[i] /\ p[n] = s[j]
  BY PickedType
<1> HIDE DEF p
<1>2. Has(p, what, k) <=> \E i \in I : s[i].what = what /\ s[i].key = k
  BY <1>1 DEF Has
<1>3. ASSUME Once(s, what, k) PROVE Once(p, what, k)
  <2> SUFFICES ASSUME NEW m \in DOMAIN p, NEW n \in DOMAIN p, m # n,
                      p[m].what = what, p[m].key = k, p[n].what = what, p[n].key = k
               PROVE  FALSE
    BY DEF Once
  <2>1. PICK i \in I, j \in I : i # j /\ p[m] = s[i] /\ p[n] = s[j]
    BY <1>1
  <2>2. QED
    BY <1>3, <2>1 DEF Once
<1>4. QED
  BY <1>2, <1>3 DEF p
-----------------------------------------------------------------------------
(* An entity on its way.  Its region is asked for it once, and only there; *)
(* until the answer is read it has no id and is not given back; and an     *)
(* entity that has its id is alive, or its removal is on the way.  One     *)
(* that was given back is no longer alive once its region was told.        *)
Going(k, r) == Has(outbound, "despawn", k) \/ Has(inbox[r], "despawn", k)

Comes(k, r) ==
    /\ \A i \in DOMAIN outbound :
          outbound[i].key = k /\ outbound[i].what # "message" => outbound[i].region = r
    /\ \A q \in Region \ {r} : ~Has(inbox[q], "spawn", k) /\ ~Has(presence[q], "added", k)
    /\ Once(outbound, "spawn", k) /\ Once(inbox[r], "spawn", k) /\ Once(presence[r], "added", k)
    /\ Has(outbound, "spawn", k) =>
          ~Has(inbox[r], "spawn", k) /\ ~Has(presence[r], "added", k)
    /\ Has(inbox[r], "spawn", k) => ~Has(presence[r], "added", k)

Answers(k, r, id) ==
    /\ \/ Has(outbound, "spawn", k) \/ Has(inbox[r], "spawn", k) \/ Has(presence[r], "added", k)
       => ~id
    /\ Going(k, r) => id
    /\ k \in alive[r] \/ GoesAfter(presence[r], k)
    /\ id => k \in alive[r] \/ Has(presence[r], "removed", k)

Departs(k, r, id, doomed) == doomed => id /\ (Going(k, r) \/ k \notin alive[r])

Flow(k, r, id, doomed) == Comes(k, r) /\ Answers(k, r, id) /\ Departs(k, r, id, doomed)

Flows == \A k \in Key : Held(k) => Flow(k, ent[k].region, ent[k].id, ent[k].doomed)

LEMMA Queues ==
    ASSUME TypeOK
    PROVE  /\ outbound \in Seq(MessageType)
           /\ \A r \in Region : /\ inbox[r] \in Seq(MessageType) /\ presence[r] \in Seq(ReportType)
                                /\ alive[r] \subseteq Key
           /\ inbox \in [Region -> Seq(MessageType)] /\ presence \in [Region -> Seq(ReportType)]
           /\ alive \in [Region -> SUBSET Key]
  BY DEF TypeOK

(* What nothing was said of yet.                                           *)
LEMMA Unheard ==
    ASSUME IInv, HomeInv, NEW k, k \notin Known, NEW what
    PROVE  /\ ~Has(outbound, what, k)
           /\ \A i \in DOMAIN outbound : outbound[i].key # k
           /\ \A r \in Region : /\ ~Has(inbox[r], what, k) /\ ~Has(presence[r], what, k)
                                /\ k \notin alive[r]
<1>1. MessagesHome
  BY DEF HomeInv
<1>2. /\ outbound \in Seq(MessageOf(Known))
      /\ \A r \in Region : /\ inbox[r] \in Seq(MessageOf(Known))
                           /\ presence[r] \in Seq(ReportOf(Known, Reports \ {"cross"}))
                           /\ alive[r] \subseteq Known
  BY <1>1 DEF MessagesHome, RegionsOf
<1>3. ASSUME NEW s \in Seq(MessageOf(Known)), NEW i \in DOMAIN s PROVE s[i].key \in Known
  <2>1. s[i] \in MessageOf(Known)
    OBVIOUS
  <2>2. QED
    BY <2>1 DEF MessageOf
<1>4. ASSUME NEW s \in Seq(ReportOf(Known, Reports \ {"cross"})), NEW i \in DOMAIN s
      PROVE  s[i].key \in Known
  <2>1. s[i] \in ReportOf(Known, Reports \ {"cross"})
    OBVIOUS
  <2>2. QED
    BY <2>1 DEF ReportOf
<1>5. QED
  BY <1>2, <1>3, <1>4 DEF Has

LEMMA FlowStarts ==
    ASSUME IInv, HomeInv, NEW k, k \notin Known, NEW r \in Region
    PROVE  Flow(k, r, FALSE, FALSE)
<1>1. \A what : /\ ~Has(outbound, what, k)
                /\ \A i \in DOMAIN outbound : outbound[i].key # k
                /\ \A q \in Region : ~Has(inbox[q], what, k) /\ ~Has(presence[q], what, k)
  BY Unheard
<1>2. GoesAfter(presence[r], k)
  BY <1>1 DEF GoesAfter, Has
<1>3. Once(outbound, "spawn", k) /\ Once(inbox[r], "spawn", k) /\ Once(presence[r], "added", k)
  BY <1>1 DEF Once, Has
<1>4. QED
  BY <1>1, <1>2, <1>3 DEF Flow, Comes, Answers, Departs, Going

LEMMA FlowAsks ==
    ASSUME IInv, HomeInv, NEW k \in Key, k \notin Known, NEW r \in Region,
           Send(<<Spawning(r, k)>>), UNCHANGED <<inbox, alive, presence>>
    PROVE  Flow(k, r, FALSE, FALSE)'
<1> DEFINE ms == <<Spawning(r, k)>>
<1>1. \A what : /\ ~Has(outbound, what, k)
                /\ \A i \in DOMAIN outbound : outbound[i].key # k
                /\ \A q \in Region : ~Has(inbox[q], what, k) /\ ~Has(presence[q], what, k)
  BY Unheard
<1>2. outbound \in Seq(MessageType) /\ ms \in Seq(MessageType)
  BY MessageTypes, Queues DEF IInv
<1>3. /\ DOMAIN ms = {1} /\ ms[1].what = "spawn" /\ ms[1].key = k /\ ms[1].region = r
  BY DEF Spawning
<1>4. outbound' = outbound \o ms
  BY DEF Send
<1> HIDE DEF ms
<1>5. Once(ms, "spawn", k) /\ ~Has(ms, "despawn", k)
  BY <1>3 DEF Once, Has
<1>6. \A what : /\ Has(outbound', what, k) <=> Has(ms, what, k)
                /\ Once(outbound', what, k) <=> Once(outbound, what, k) /\ Once(ms, what, k)
  BY <1>1, <1>2, <1>4, JoinedHas
<1>7. GoesAfter(presence[r], k)
  BY <1>1 DEF GoesAfter, Has
<1>8. Once(outbound, "spawn", k) /\ Once(inbox[r], "spawn", k) /\ Once(presence[r], "added", k)
  BY <1>1 DEF Once, Has
<1>9. ASSUME NEW i \in DOMAIN outbound', outbound'[i].key = k PROVE outbound'[i].region = r
  <2>1. i \in DOMAIN outbound => outbound'[i] = outbound[i]
    BY <1>2, <1>4, JoinedPlaces
  <2>2. i \notin DOMAIN outbound => outbound'[i] = ms[1]
    BY <1>2, <1>3, <1>4, JoinedPlaces
  <2>3. QED
    BY <1>1, <1>3, <1>9, <2>1, <2>2
<1>10. Comes(k, r)'
  BY <1>1, <1>5, <1>6, <1>8, <1>9 DEF Comes
<1>11. Answers(k, r, FALSE)' /\ Departs(k, r, FALSE, FALSE)'
  BY <1>1, <1>5, <1>6, <1>7 DEF Answers, Departs, Going
<1>12. QED
  BY <1>10, <1>11 DEF Flow

(* What is sent about k, if anything, gives it back.                       *)
LEMMA FlowSends ==
    ASSUME TypeOK, NEW k, NEW r \in Region, NEW id, NEW doomed, Flow(k, r, id, doomed),
           UNCHANGED <<inbox, alive, presence>>, NEW ms \in Seq(MessageType), Send(ms),
           \A i \in DOMAIN ms : ms[i].key = k /\ ms[i].what # "message" =>
                ms[i].what = "despawn" /\ ms[i].region = r /\ id,
           NEW gone, gone => doomed \/ (Has(ms, "despawn", k) /\ id)
    PROVE  Flow(k, r, id, gone)'
<1>1. outbound \in Seq(MessageType) /\ outbound' = outbound \o ms
  BY Queues DEF Send
<1>2. ~Has(ms, "spawn", k) /\ Once(ms, "spawn", k) /\ (Has(ms, "despawn", k) => id)
  BY DEF Has, Once
<1>3. \A what : Has(outbound', what, k) <=> Has(outbound, what, k) \/ Has(ms, what, k)
  BY <1>1, JoinedHas
<1>4. Once(outbound, "spawn", k) => Once(outbound', "spawn", k)
  BY <1>1, <1>2, JoinedHas
<1>5. \A i \in DOMAIN outbound' :
        outbound'[i].key = k /\ outbound'[i].what # "message" => outbound'[i].region = r
  <2>1. \A i \in DOMAIN outbound :
          outbound[i].key = k /\ outbound[i].what # "message" => outbound[i].region = r
    BY DEF Flow, Comes
  <2>2. QED
    BY <1>1, <2>1, JoinedPlaces
<1>6. Comes(k, r)'
  BY <1>2, <1>3, <1>4, <1>5 DEF Comes, Flow
<1>7. Answers(k, r, id)'
  BY <1>2, <1>3 DEF Answers, Flow, Going
<1>8. Departs(k, r, id, gone)'
  BY <1>3 DEF Departs, Flow, Going
<1>9. QED
  BY <1>6, <1>7, <1>8 DEF Flow

LEMMA FlowPublishes ==
    ASSUME TypeOK, NEW k, NEW r \in Region, NEW id, NEW doomed, Flow(k, r, id, doomed), Publish
    PROVE  Flow(k, r, id, doomed)'
<1> DEFINE I(q, what) == {i \in DOMAIN outbound : outbound[i].region = q /\ outbound[i].what = what}
           of(q, what) == Picked(outbound, I(q, what))
           s(q) == inbox[q]
           a(q) == inbox[q] \o of(q, "spawn")
           b(q) == inbox[q] \o of(q, "spawn") \o of(q, "despawn")
<1>1. /\ inbox' = [q \in Region |->
                    inbox[q] \o of(q, "spawn") \o of(q, "despawn") \o of(q, "message")]
      /\ outbound' = <<>> /\ alive' = alive /\ presence' = presence
  BY DEF Publish
<1>2. outbound \in Seq(MessageType) /\ \A q \in Region : inbox[q] \in Seq(MessageType)
  BY Queues
<1>3. \A q, what : of(q, what) \in Seq(MessageType)
  BY <1>2, PickedType
<1>4. \A q, what, w :
        /\ Has(of(q, what), w, k) <=>
             \E i \in DOMAIN outbound :
                outbound[i].region = q /\ outbound[i].what = what /\ outbound[i].what = w /\ outbound[i].key = k
        /\ Once(outbound, w, k) => Once(of(q, what), w, k)
  <2> TAKE q, what, w
  <2>1. I(q, what) \in SUBSET DOMAIN outbound
    OBVIOUS
  <2>2. /\ Has(of(q, what), w, k) <=> \E i \in I(q, what) : outbound[i].what = w /\ outbound[i].key = k
        /\ Once(outbound, w, k) => Once(of(q, what), w, k)
    BY <1>2, <2>1, PickedHas
  <2>3. QED
    BY <2>2
<1> HIDE DEF of, I
<1>5. Comes(k, r) /\ Answers(k, r, id) /\ Departs(k, r, id, doomed)
  BY DEF Flow
<1>6. \A i \in DOMAIN outbound :
        outbound[i].key = k /\ outbound[i].what # "message" => outbound[i].region = r
  BY <1>5 DEF Comes
<1>7. /\ Has(of(r, "spawn"), "spawn", k) <=> Has(outbound, "spawn", k)
      /\ Has(of(r, "despawn"), "despawn", k) <=> Has(outbound, "despawn", k)
      /\ Once(of(r, "spawn"), "spawn", k)
      /\ ~Has(of(r, "despawn"), "spawn", k) /\ ~Has(of(r, "message"), "spawn", k)
      /\ ~Has(of(r, "spawn"), "despawn", k) /\ ~Has(of(r, "message"), "despawn", k)
  <2>1. /\ Has(of(r, "spawn"), "spawn", k) <=> Has(outbound, "spawn", k)
        /\ Has(of(r, "despawn"), "despawn", k) <=> Has(outbound, "despawn", k)
    BY <1>4, <1>6 DEF Has
  <2>2. Once(of(r, "spawn"), "spawn", k)
    BY <1>4, <1>5 DEF Comes
  <2>3. \A what, w : what # w => ~Has(of(r, what), w, k)
    BY <1>4
  <2>4. QED
    BY <2>1, <2>2, <2>3
<1>8. \A q \in Region \ {r} : \A what : ~Has(of(q, what), "spawn", k)
  BY <1>4, <1>6
<1>9. ASSUME NEW q \in Region
      PROVE  /\ a(q) \in Seq(MessageType) /\ b(q) \in Seq(MessageType)
             /\ \A w : Has(inbox'[q], w, k) <=>
                    \/ Has(inbox[q], w, k) \/ Has(of(q, "spawn"), w, k)
                    \/ Has(of(q, "despawn"), w, k) \/ Has(of(q, "message"), w, k)
  <2>1. inbox[q] \in Seq(MessageType) /\ inbox'[q] = b(q) \o of(q, "message")
    BY <1>1, <1>2
  <2>2. a(q) \in Seq(MessageType) /\ \A w : Has(a(q), w, k) <=> Has(inbox[q], w, k) \/ Has(of(q, "spawn"), w, k)
    BY <1>3, <2>1, JoinedHas, JoinedPlaces
  <2>3. b(q) \in Seq(MessageType) /\ \A w : Has(b(q), w, k) <=> Has(a(q), w, k) \/ Has(of(q, "despawn"), w, k)
    <3>1. b(q) = a(q) \o of(q, "despawn")
      OBVIOUS
    <3> HIDE DEF a, b
    <3>2. QED
      BY <1>3, <2>2, <3>1, JoinedHas, JoinedPlaces
  <2> HIDE DEF a, b
  <2>4. \A w : Has(inbox'[q], w, k) <=> Has(b(q), w, k) \/ Has(of(q, "message"), w, k)
    BY <1>3, <2>1, <2>3, JoinedHas
  <2>5. b(q) \in Seq(MessageType)
    BY <2>3
  <2>6. ASSUME NEW w
        PROVE  Has(inbox'[q], w, k) <=>
                    \/ Has(inbox[q], w, k) \/ Has(of(q, "spawn"), w, k)
                    \/ Has(of(q, "despawn"), w, k) \/ Has(of(q, "message"), w, k)
    <3>1. Has(inbox'[q], w, k) <=> Has(b(q), w, k) \/ Has(of(q, "message"), w, k)
      BY <2>4
    <3>2. Has(b(q), w, k) <=> Has(a(q), w, k) \/ Has(of(q, "despawn"), w, k)
      BY <2>3
    <3>3. Has(a(q), w, k) <=> Has(inbox[q], w, k) \/ Has(of(q, "spawn"), w, k)
      BY <2>2
    <3>4. QED
      BY <3>1, <3>2, <3>3
  <2>7. QED
    BY <2>2, <2>3, <2>6
<1>10. Once(inbox'[r], "spawn", k)
  <2>1. inbox[r] \in Seq(MessageType) /\ inbox'[r] = b(r) \o of(r, "message") /\ b(r) = a(r) \o of(r, "despawn")
        /\ a(r) = inbox[r] \o of(r, "spawn")
    BY <1>1, <1>2
  <2>2. a(r) \in Seq(MessageType) /\ b(r) \in Seq(MessageType)
    BY <1>9
  <2>3. Once(inbox[r], "spawn", k) /\ ~(Has(inbox[r], "spawn", k) /\ Has(of(r, "spawn"), "spawn", k))
    BY <1>5, <1>7 DEF Comes
  <2> HIDE DEF a, b
  <2>4. Once(a(r), "spawn", k)
    BY <1>2, <1>3, <1>7, <2>1, <2>3, JoinedHas
  <2>5. of(r, "despawn") \in Seq(MessageType) /\ of(r, "message") \in Seq(MessageType)
    BY <1>3
  <2>6. ASSUME NEW x \in Seq(MessageType), NEW y \in Seq(MessageType), Once(x, "spawn", k),
               ~Has(y, "spawn", k)
        PROVE  Once(x \o y, "spawn", k)
    BY <2>6, JoinedWithout
  <2>7. Once(a(r) \o of(r, "despawn"), "spawn", k)
    BY <1>7, <2>2, <2>4, <2>5, <2>6
  <2>8. Once(b(r), "spawn", k)
    BY <2>1, <2>7
  <2>9. Once(b(r) \o of(r, "message"), "spawn", k)
    BY <1>7, <2>2, <2>5, <2>6, <2>8
  <2>10. QED
    BY <2>1, <2>9
<1>11. \A w : ~Has(outbound', w, k) /\ Once(outbound', w, k) /\ DOMAIN outbound' = {}
  BY <1>1 DEF Has, Once
<1>12. /\ Has(inbox'[r], "spawn", k) <=> Has(inbox[r], "spawn", k) \/ Has(outbound, "spawn", k)
       /\ Has(inbox'[r], "despawn", k) <=> Has(inbox[r], "despawn", k) \/ Has(outbound, "despawn", k)
  BY <1>7, <1>9
<1>13. \A q \in Region \ {r} : ~Has(inbox'[q], "spawn", k)
  BY <1>5, <1>8, <1>9 DEF Comes
<1> HIDE DEF a, b
<1>14. Comes(k, r)'
  BY <1>1, <1>5, <1>10, <1>11, <1>12, <1>13 DEF Comes
<1>15. Answers(k, r, id)' /\ Departs(k, r, id, doomed)'
  BY Zenon, <1>1, <1>5, <1>11, <1>12 DEF Answers, Departs, Going
<1>16. QED
  BY <1>14, <1>15 DEF Flow
-----------------------------------------------------------------------------
(* What a region makes of a batch: about entity k it takes what b says and *)
(* leaves what c says, and reports what is gone before what has come.      *)
LEMMA TakenUp ==
    ASSUME TypeOK, NEW q \in Region, RegionTakes(q), NEW k \in Key
    PROVE  \E b, c \in Seq(MessageType), gone, come \in Seq(ReportType) :
              /\ inbox[q] = b \o c /\ inbox' = [inbox EXCEPT ![q] = c]
              /\ presence' = [presence EXCEPT ![q] = @ \o gone \o come]
              /\ ~Has(gone, "added", k) /\ ~Has(come, "removed", k)
              /\ Has(come, "added", k) => Has(b, "spawn", k)
              /\ Once(b, "spawn", k) => Once(come, "added", k)
              /\ Has(gone, "removed", k) <=>
                    Has(b, "despawn", k) /\ (k \in alive[q] \/ Has(come, "added", k))
              /\ k \in alive'[q] <=>
                    (k \in alive[q] \/ Has(come, "added", k)) /\ ~Has(b, "despawn", k)
              /\ \A p \in Region \ {q} : alive'[p] = alive[p]
              /\ UNCHANGED outbound
<1>0. /\ inbox \in [Region -> Seq(MessageType)] /\ inbox[q] \in Seq(MessageType)
      /\ presence \in [Region -> Seq(ReportType)] /\ alive \in [Region -> SUBSET Key]
  BY DEF TypeOK
<1> DEFINE batch(n) == SubSeq(inbox[q], 1, n)
           left(n) == SubSeq(inbox[q], n + 1, Len(inbox[q]))
           of(n, what) == Picked(batch(n), {i \in DOMAIN batch(n) : batch(n)[i].what = what})
           keys(ms) == {m.key : m \in ToSet(ms)}
           report(ks, what) == [i \in DOMAIN ks |-> [what |-> what, key |-> ks[i], to |-> {}]]
           added(n, refused) == Picked(batch(n), {i \in DOMAIN batch(n) :
                              batch(n)[i].what = "spawn" /\ batch(n)[i].key \notin refused})
           there(n, refused) == alive[q] \cup keys(added(n, refused))
           removed(n, refused) == there(n, refused) \cap keys(of(n, "despawn"))
           adds(n, refused) == [i \in DOMAIN added(n, refused) |-> added(n, refused)[i].key]
           says(n, x) == Picked(batch(n), {i \in DOMAIN batch(n) :
                              batch(n)[i].what = "message" /\ batch(n)[i].key = x})
<1>1. PICK n \in 1 .. Len(inbox[q]) : \E refused \in SUBSET keys(of(n, "spawn")) :
        /\ refused = {} \/ "refuse" \in Events
        /\ inbox' = [inbox EXCEPT ![q] = SubSeq(@, n + 1, Len(@))]
        /\ alive' = [alive EXCEPT ![q] = there(n, refused) \ removed(n, refused)]
        /\ heard' = [x \in Key |->
                        IF x \in alive'[q]
                        THEN heard[x] \o [i \in DOMAIN says(n, x) |-> says(n, x)[i].word]
                        ELSE heard[x]]
        /\ presence' = [presence EXCEPT ![q] =
                          @ \o report(SetToSeq(removed(n, refused)), "removed")
                            \o report(adds(n, refused), "added")]
        /\ UNCHANGED <<edge, outbound, job, events, aside>>
  BY Zenon DEF RegionTakes
<1>2. PICK refused :
        /\ inbox' = [inbox EXCEPT ![q] = SubSeq(@, n + 1, Len(@))]
        /\ alive' = [alive EXCEPT ![q] = there(n, refused) \ removed(n, refused)]
        /\ presence' = [presence EXCEPT ![q] =
                          @ \o report(SetToSeq(removed(n, refused)), "removed")
                            \o report(adds(n, refused), "added")]
        /\ UNCHANGED outbound
  BY Zenon, <1>1
<1>3. /\ batch(n) \in Seq(MessageType) /\ left(n) \in Seq(MessageType)
      /\ inbox[q] = batch(n) \o left(n)
  <2>1. /\ n \in Nat /\ n >= 1 /\ n <= Len(inbox[q]) /\ Len(inbox[q]) \in Nat
        /\ n + 1 \in 1 .. Len(inbox[q]) + 1
    BY <1>0
  <2>2. batch(n) \in Seq(MessageType) /\ left(n) \in Seq(MessageType)
    BY <1>0, <2>1, SubSeqProperties
  <2>3. /\ Len(batch(n)) = n /\ Len(left(n)) = Len(inbox[q]) - n
        /\ \A i \in 1 .. n : batch(n)[i] = inbox[q][i]
        /\ \A i \in 1 .. (Len(inbox[q]) - n) : left(n)[i] = inbox[q][n + i]
    BY <1>0, <2>1
  <2>4. PICK x, y, m : x = batch(n) /\ y = left(n) /\ m = Len(inbox[q])
    OBVIOUS
  <2> HIDE DEF batch, left
  <2>5. /\ x \o y \in Seq(MessageType) /\ Len(x \o y) = m
        /\ \A i \in 1 .. m : (x \o y)[i] = IF i <= n THEN x[i] ELSE y[i - n]
    BY <2>1, <2>2, <2>3, <2>4, ConcatProperties
  <2>6. ASSUME NEW i \in 1 .. m PROVE (x \o y)[i] = inbox[q][i]
    <3>1. i <= n => i \in 1 .. n
      BY <2>1, <2>4
    <3>2. ~(i <= n) => i - n \in 1 .. (m - n) /\ n + (i - n) = i
      BY <2>1, <2>4
    <3>3. QED
      BY <2>3, <2>4, <2>5, <3>1, <3>2
  <2>7. x \o y = inbox[q]
    BY <1>0, <2>4, <2>5, <2>6, SeqEqual
  <2>8. QED
    BY <2>2, <2>4, <2>7
<1> DEFINE b == batch(n)
<1> HIDE DEF batch, left
<1>4. /\ added(n, refused) \in Seq(MessageType)
      /\ of(n, "despawn") \in Seq(MessageType)
  BY <1>3, PickedType
<1>5. /\ Has(added(n, refused), "spawn", k) <=> Has(b, "spawn", k) /\ k \notin refused
      /\ Once(b, "spawn", k) => Once(added(n, refused), "spawn", k)
      /\ Has(of(n, "despawn"), "despawn", k) <=> Has(b, "despawn", k)
      /\ \A i \in DOMAIN added(n, refused) : added(n, refused)[i].what = "spawn"
      /\ \A i \in DOMAIN of(n, "despawn") : of(n, "despawn")[i].what = "despawn"
  <2> DEFINE I == {i \in DOMAIN b : b[i].what = "spawn" /\ b[i].key \notin refused}
             J == {i \in DOMAIN b : b[i].what = "despawn"}
  <2>1. I \in SUBSET DOMAIN b /\ J \in SUBSET DOMAIN b
    OBVIOUS
  <2>2. added(n, refused) = Picked(b, I) /\ of(n, "despawn") = Picked(b, J)
    OBVIOUS
  <2>3. /\ Has(Picked(b, I), "spawn", k) <=> \E i \in I : b[i].what = "spawn" /\ b[i].key = k
        /\ Once(b, "spawn", k) => Once(Picked(b, I), "spawn", k)
        /\ Has(Picked(b, J), "despawn", k) <=> \E i \in J : b[i].what = "despawn" /\ b[i].key = k
    BY <1>3, <2>1, PickedHas
  <2>4. /\ \A m \in DOMAIN Picked(b, I) : \E i \in I : Picked(b, I)[m] = b[i]
        /\ \A m \in DOMAIN Picked(b, J) : \E i \in J : Picked(b, J)[m] = b[i]
    BY Zenon, <1>3, <2>1, PickedType
  <2> HIDE DEF added, of, b
  <2>5. /\ Has(added(n, refused), "spawn", k) <=> Has(b, "spawn", k) /\ k \notin refused
        /\ Has(of(n, "despawn"), "despawn", k) <=> Has(b, "despawn", k)
    BY <2>2, <2>3 DEF Has
  <2>6. /\ \A i \in DOMAIN added(n, refused) : added(n, refused)[i].what = "spawn"
        /\ \A i \in DOMAIN of(n, "despawn") : of(n, "despawn")[i].what = "despawn"
    BY <2>2, <2>4
  <2>7. QED
    BY <2>2, <2>3, <2>5, <2>6
<1> HIDE DEF of, added, b
<1>6. /\ k \in keys(added(n, refused)) <=> Has(added(n, refused), "spawn", k)
      /\ k \in keys(of(n, "despawn")) <=> Has(of(n, "despawn"), "despawn", k)
  BY <1>5 DEF Has, ToSet
<1>7. removed(n, refused) \subseteq Key
  <2>1. \A i \in DOMAIN of(n, "despawn") : of(n, "despawn")[i] \in MessageType
    BY <1>4
  <2>2. QED
    BY <2>1 DEF ToSet, MessageType
<1>8. /\ k \in there(n, refused) <=> k \in alive[q] \/ Has(added(n, refused), "spawn", k)
      /\ k \in removed(n, refused) <=> k \in there(n, refused) /\ Has(of(n, "despawn"), "despawn", k)
  BY <1>6
<1> HIDE DEF keys, there, removed
<1>9. /\ SetToSeq(removed(n, refused)) \in Seq(Key)
      /\ k \in removed(n, refused) <=>
            \E i \in DOMAIN SetToSeq(removed(n, refused)) : SetToSeq(removed(n, refused))[i] = k
  <2>1. IsFiniteSet(Key)
    BY FS_Interval, EdgeServerAssumption DEF Key
  <2>2. IsFiniteSet(removed(n, refused))
    BY <1>7, <2>1, FS_Subset
  <2>3. QED
    BY <1>7, <2>2, SetToSeqType
<1> DEFINE gone == report(SetToSeq(removed(n, refused)), "removed")
           come == report(adds(n, refused), "added")
<1>10. ASSUME NEW ks \in Seq(Key), NEW what \in {"removed", "added"}
       PROVE  report(ks, what) \in Seq(ReportType)
  <2>1. Len(ks) \in Nat /\ DOMAIN ks = 1 .. Len(ks) /\ \A i \in DOMAIN ks : ks[i] \in Key
    OBVIOUS
  <2>2. \A i \in DOMAIN ks : [what |-> what, key |-> ks[i], to |-> {}] \in ReportType
    BY <2>1 DEF ReportType
  <2>3. QED
    BY <2>1, <2>2
<1>11. adds(n, refused) \in Seq(Key) /\ DOMAIN adds(n, refused) = DOMAIN added(n, refused)
       /\ \A i \in DOMAIN added(n, refused) : adds(n, refused)[i] = added(n, refused)[i].key
  <2>1. /\ Len(added(n, refused)) \in Nat
        /\ DOMAIN added(n, refused) = 1 .. Len(added(n, refused))
        /\ \A i \in DOMAIN added(n, refused) : added(n, refused)[i] \in MessageType
    BY <1>4
  <2>2. \A i \in DOMAIN added(n, refused) : added(n, refused)[i].key \in Key
    BY <2>1 DEF MessageType
  <2>3. QED
    BY <2>1, <2>2
<1>12. gone \in Seq(ReportType) /\ come \in Seq(ReportType)
  BY <1>9, <1>10, <1>11
<1> HIDE DEF adds
<1>13. /\ ~Has(gone, "added", k)
       /\ k \in removed(n, refused) <=> Has(gone, "removed", k)
  BY <1>9 DEF Has
<1>14. /\ ~Has(come, "removed", k)
       /\ Has(come, "added", k) <=> Has(added(n, refused), "spawn", k)
       /\ Once(added(n, refused), "spawn", k) => Once(come, "added", k)
  <2>1. DOMAIN come = DOMAIN added(n, refused)
    BY <1>11
  <2>2. \A i \in DOMAIN come : come[i].what = "added" /\ come[i].key = added(n, refused)[i].key
    BY <1>11
  <2> HIDE DEF come
  <2>3. QED
    BY <1>5, <2>1, <2>2 DEF Has, Once
<1> HIDE DEF gone, come
<1>15. /\ k \in alive'[q] <=> k \in there(n, refused) /\ k \notin removed(n, refused)
       /\ \A p \in Region \ {q} : alive'[p] = alive[p]
  BY <1>0, <1>2
<1>16. /\ Has(come, "added", k) => Has(b, "spawn", k)
       /\ Once(b, "spawn", k) => Once(come, "added", k)
       /\ Has(gone, "removed", k) <=>
             Has(b, "despawn", k) /\ (k \in alive[q] \/ Has(come, "added", k))
       /\ k \in alive'[q] <=>
             (k \in alive[q] \/ Has(come, "added", k)) /\ ~Has(b, "despawn", k)
  BY <1>5, <1>8, <1>13, <1>14, <1>15
<1>17. /\ inbox[q] = b \o left(n) /\ inbox' = [inbox EXCEPT ![q] = left(n)]
       /\ presence' = [presence EXCEPT ![q] = @ \o gone \o come]
       /\ b \in Seq(MessageType) /\ left(n) \in Seq(MessageType)
  BY <1>2, <1>3 DEF b, left, gone, come
<1>18. QED
  BY <1>2, <1>12, <1>13, <1>14, <1>15, <1>16, <1>17

LEMMA FlowTakes ==
    ASSUME TypeOK, NEW k \in Key, NEW r \in Region, NEW id, NEW doomed, Flow(k, r, id, doomed),
           NEW q \in Region, RegionTakes(q)
    PROVE  Flow(k, r, id, doomed)'
<1>0. /\ inbox \in [Region -> Seq(MessageType)] /\ presence \in [Region -> Seq(ReportType)]
      /\ inbox[q] \in Seq(MessageType) /\ presence[q] \in Seq(ReportType)
  BY Queues
<1>1. Comes(k, r) /\ Answers(k, r, id) /\ Departs(k, r, id, doomed)
  BY DEF Flow
<1>2. PICK b \in Seq(MessageType), c \in Seq(MessageType),
           gone \in Seq(ReportType), come \in Seq(ReportType) :
              /\ inbox[q] = b \o c /\ inbox' = [inbox EXCEPT ![q] = c]
              /\ presence' = [presence EXCEPT ![q] = @ \o gone \o come]
              /\ ~Has(gone, "added", k) /\ ~Has(come, "removed", k)
              /\ Has(come, "added", k) => Has(b, "spawn", k)
              /\ Once(b, "spawn", k) => Once(come, "added", k)
              /\ Has(gone, "removed", k) <=>
                    Has(b, "despawn", k) /\ (k \in alive[q] \/ Has(come, "added", k))
              /\ k \in alive'[q] <=>
                    (k \in alive[q] \/ Has(come, "added", k)) /\ ~Has(b, "despawn", k)
              /\ \A p \in Region \ {q} : alive'[p] = alive[p]
              /\ UNCHANGED outbound
  BY TakenUp
<1>3. /\ inbox'[q] = c /\ presence'[q] = (presence[q] \o gone) \o come
      /\ \A p \in Region \ {q} : inbox'[p] = inbox[p] /\ presence'[p] = presence[p]
  BY <1>0, <1>2
<1>4. /\ \A w : Has(inbox[q], w, k) <=> Has(b, w, k) \/ Has(c, w, k)
      /\ Once(inbox[q], "spawn", k) =>
            Once(b, "spawn", k) /\ Once(c, "spawn", k) /\ ~(Has(b, "spawn", k) /\ Has(c, "spawn", k))
  BY <1>2, JoinedHas
<1> DEFINE p1 == presence[q] \o gone
<1>5. /\ p1 \in Seq(ReportType)
      /\ \A w : Has(p1, w, k) <=> Has(presence[q], w, k) \/ Has(gone, w, k)
      /\ Once(presence[q], "added", k) => Once(p1, "added", k)
      /\ GoesAfter(presence[q], k) => GoesAfter(p1, k)
      /\ Has(gone, "removed", k) => GoesAfter(p1, k)
  BY <1>0, <1>2, JoinedHas, JoinedWithout, JoinedGoes, JoinedPlaces
<1> HIDE DEF p1
<1>6. /\ \A w : Has(p1 \o come, w, k) <=> Has(p1, w, k) \/ Has(come, w, k)
      /\ Once(p1, "added", k) /\ Once(come, "added", k) /\ ~(Has(p1, "added", k) /\ Has(come, "added", k))
            => Once(p1 \o come, "added", k)
      /\ GoesAfter(p1, k) /\ ~Has(come, "added", k) => GoesAfter(p1 \o come, k)
  BY <1>2, <1>5, JoinedHas, JoinedGoes
<1>7. /\ presence'[q] = p1 \o come
      /\ Has(presence'[q], "added", k) <=> Has(presence[q], "added", k) \/ Has(come, "added", k)
      /\ Has(presence'[q], "removed", k) <=> Has(presence[q], "removed", k) \/ Has(gone, "removed", k)
  BY <1>2, <1>3, <1>5, <1>6 DEF p1
<1>8. CASE q # r
  <2>1. ~Has(inbox'[q], "spawn", k) /\ ~Has(presence'[q], "added", k)
    BY <1>1, <1>2, <1>3, <1>4, <1>7, <1>8 DEF Comes
  <2>2. inbox'[r] = inbox[r] /\ presence'[r] = presence[r] /\ alive'[r] = alive[r]
    BY <1>2, <1>3, <1>8
  <2>3. \A p \in Region \ {r} : ~Has(inbox'[p], "spawn", k) /\ ~Has(presence'[p], "added", k)
    BY <1>1, <1>3, <2>1 DEF Comes
  <2>4. Comes(k, r)'
    BY <1>1, <1>2, <2>2, <2>3 DEF Comes
  <2>5. Answers(k, r, id)' /\ Departs(k, r, id, doomed)'
    BY <1>1, <1>2, <2>2 DEF Answers, Departs, Going
  <2>6. QED
    BY <2>4, <2>5 DEF Flow
<1>9. CASE q = r
  <2>1. Comes(k, r)'
    <3>1. \A p \in Region \ {r} : ~Has(inbox'[p], "spawn", k) /\ ~Has(presence'[p], "added", k)
      BY <1>1, <1>3, <1>9 DEF Comes
    <3>2. Once(c, "spawn", k) /\ Once(presence'[r], "added", k)
      BY <1>1, <1>2, <1>4, <1>5, <1>6, <1>7, <1>9 DEF Comes
    <3>3. Has(outbound, "spawn", k) => ~Has(c, "spawn", k) /\ ~Has(presence'[r], "added", k)
      BY <1>1, <1>2, <1>4, <1>7, <1>9 DEF Comes
    <3>4. Has(c, "spawn", k) => ~Has(presence'[r], "added", k)
      BY <1>1, <1>2, <1>4, <1>7, <1>9 DEF Comes
    <3>5. inbox'[r] = c /\ outbound' = outbound
      BY <1>2, <1>3, <1>9
    <3>6. QED
      BY <1>1, <3>1, <3>2, <3>3, <3>4, <3>5 DEF Comes
  <2>2. Has(come, "added", k) => ~id /\ ~Has(b, "despawn", k)
    BY <1>1, <1>2, <1>4, <1>9 DEF Answers, Going
  <2>3. /\ outbound' = outbound /\ inbox'[r] = c
        /\ Has(c, "despawn", k) => Has(inbox[r], "despawn", k)
        /\ Has(c, "spawn", k) => Has(inbox[r], "spawn", k)
    BY <1>2, <1>3, <1>4, <1>9
  <2>4. /\ \/ Has(outbound', "spawn", k) \/ Has(inbox'[r], "spawn", k) \/ Has(presence'[r], "added", k)
            => ~id
        /\ Going(k, r)' => id
    BY <1>1, <1>7, <1>9, <2>2, <2>3 DEF Answers, Going
  <2>5. k \in alive'[r] \/ GoesAfter(presence'[r], k)
    <3>1. CASE Has(come, "added", k)
      BY <1>2, <1>9, <2>2, <3>1
    <3>2. CASE ~Has(come, "added", k) /\ k \in alive[r]
      BY <1>2, <1>5, <1>6, <1>7, <1>9, <3>2
    <3>3. CASE ~Has(come, "added", k) /\ k \notin alive[r]
      BY <1>1, <1>2, <1>5, <1>6, <1>7, <1>9, <3>3 DEF Answers
    <3>4. QED
      BY <3>1, <3>2, <3>3
  <2>6. id => k \in alive'[r] \/ Has(presence'[r], "removed", k)
    BY <1>1, <1>2, <1>7, <1>9 DEF Answers
  <2>7. Answers(k, r, id)'
    BY <2>4, <2>5, <2>6 DEF Answers
  <2>8. Departs(k, r, id, doomed)'
    BY <1>1, <1>2, <1>4, <1>9, <2>2, <2>3 DEF Departs, Going
  <2>9. QED
    BY <2>1, <2>7, <2>8 DEF Flow
<1>10. QED
  BY <1>8, <1>9
-----------------------------------------------------------------------------
(* A region reports something; what it reports removed it no longer has.   *)
LEMMA FlowHappens ==
    ASSUME TypeOK, NEW k \in Key, NEW r \in Region, NEW id, NEW doomed, Flow(k, r, id, doomed),
           NEW q \in Region, NEW what \in {"removed", "cross", "view", "cleared"}, NEW x \in Key,
           NEW to \in SUBSET Region, Happens(q, what, x, to),
           alive' = IF what = "removed" THEN [alive EXCEPT ![q] = @ \ {x}] ELSE alive
    PROVE  Flow(k, r, id, doomed)'
<1> DEFINE m == <<[what |-> what, key |-> x, to |-> to]>>
<1>0. /\ inbox \in [Region -> Seq(MessageType)] /\ presence \in [Region -> Seq(ReportType)]
      /\ presence[q] \in Seq(ReportType) /\ alive \in [Region -> SUBSET Key]
  BY Queues
<1>1. Comes(k, r) /\ Answers(k, r, id) /\ Departs(k, r, id, doomed)
  BY DEF Flow
<1>2. /\ inbox' = inbox /\ outbound' = outbound
      /\ presence' = [presence EXCEPT ![q] = Append(@, [what |-> what, key |-> x, to |-> to])]
  BY DEF Happens
<1>3. m \in Seq(ReportType) /\ DOMAIN m = {1} /\ m[1].what = what /\ m[1].key = x
  BY DEF ReportType
<1>4. presence'[q] = presence[q] \o m /\ \A p \in Region \ {q} : presence'[p] = presence[p]
  BY <1>0, <1>2
<1> HIDE DEF m
<1>5. ~Has(m, "added", k) /\ (Has(m, "removed", k) <=> what = "removed" /\ x = k)
  BY <1>3 DEF Has
<1>6. /\ \A w : Has(presence'[q], w, k) <=> Has(presence[q], w, k) \/ Has(m, w, k)
      /\ Once(presence[q], "added", k) => Once(presence'[q], "added", k)
      /\ GoesAfter(presence[q], k) => GoesAfter(presence'[q], k)
      /\ Has(m, "removed", k) => GoesAfter(presence'[q], k)
  BY <1>0, <1>3, <1>4, <1>5, JoinedHas, JoinedWithout, JoinedGoes
<1>7. /\ \A p \in Region : alive'[p] \subseteq alive[p]
      /\ \A p \in Region : k \in alive[p] => k \in alive'[p] \/ (p = q /\ Has(m, "removed", k))
  BY <1>0, <1>5
<1>8. \A p \in Region : Has(presence'[p], "added", k) <=> Has(presence[p], "added", k)
  BY <1>4, <1>5, <1>6
<1>9. Once(presence'[r], "added", k)
  BY <1>1, <1>4, <1>6 DEF Comes
<1>10. Comes(k, r)'
  BY <1>1, <1>2, <1>8, <1>9 DEF Comes
<1>11. k \in alive'[r] \/ GoesAfter(presence'[r], k)
  BY <1>1, <1>4, <1>6, <1>7 DEF Answers
<1>12. id => k \in alive'[r] \/ Has(presence'[r], "removed", k)
  BY <1>1, <1>4, <1>6, <1>7 DEF Answers
<1>13. Answers(k, r, id)'
  BY <1>1, <1>2, <1>8, <1>11, <1>12 DEF Answers, Going
<1>14. Departs(k, r, id, doomed)'
  BY <1>1, <1>2, <1>7 DEF Departs, Going
<1>15. QED
  BY <1>10, <1>13, <1>14 DEF Flow

(* The reader takes the first report of a region; if it says that k was    *)
(* added, k has its id, and if it says that k, which has its id, was       *)
(* removed, k is not kept.                                                 *)
LEMMA FlowReads ==
    ASSUME TypeOK, NEW k \in Key, NEW r \in Region, NEW id \in BOOLEAN, NEW doomed,
           Flow(k, r, id, doomed), NEW q \in Region, NEW what, Reads(q, what),
           NEW ms \in Seq(MessageType), Send(ms), \A i \in DOMAIN ms : ms[i].key # k,
           ~(presence[q][1].key = k /\ what = "removed" /\ id),
           NEW has \in BOOLEAN, has <=> id \/ (presence[q][1].key = k /\ what = "added")
    PROVE  Flow(k, r, has, doomed)'
<1>0. /\ inbox \in [Region -> Seq(MessageType)] /\ presence \in [Region -> Seq(ReportType)]
      /\ presence[q] \in Seq(ReportType) /\ presence[q] # <<>> /\ presence[q][1].what = what
      /\ outbound \in Seq(MessageType) /\ outbound' = outbound \o ms
      /\ inbox' = inbox /\ alive' = alive /\ presence' = [presence EXCEPT ![q] = Tail(@)]
  BY Queues DEF Reads, Send
<1>1. Comes(k, r) /\ Answers(k, r, id) /\ Departs(k, r, id, doomed)
  BY DEF Flow
<1>2. presence'[q] = Tail(presence[q]) /\ \A p \in Region \ {q} : presence'[p] = presence[p]
  BY <1>0
<1>3. \A w : ~Has(ms, w, k)
  BY DEF Has
<1>4. \A w : /\ Has(outbound', w, k) <=> Has(outbound, w, k)
             /\ Once(outbound, w, k) => Once(outbound', w, k)
  BY <1>0, <1>3, JoinedWithout
<1>5. \A i \in DOMAIN outbound' :
        outbound'[i].key = k /\ outbound'[i].what # "message" => outbound'[i].region = r
  <2>1. \A i \in DOMAIN outbound :
          outbound[i].key = k /\ outbound[i].what # "message" => outbound[i].region = r
    BY <1>1 DEF Comes
  <2>2. ASSUME NEW i \in DOMAIN outbound', outbound'[i].key = k
        PROVE  i \in DOMAIN outbound /\ outbound'[i] = outbound[i]
    <3>0. /\ outbound \in Seq(MessageType) /\ ms \in Seq(MessageType)
          /\ outbound' = outbound \o ms
      BY <1>0
    <3>1. ASSUME NEW j \in DOMAIN ms, i = Len(outbound) + j PROVE FALSE
      <4>1. outbound'[i] = ms[j]
        BY <3>0, <3>1, JoinedPlaces
      <4>2. QED
        BY <2>2, <4>1
    <3>2. QED
      BY <3>0, <3>1, JoinedPlaces
  <2>3. QED
    BY <2>1, <2>2
<1> DEFINE head(w) == what = w /\ presence[q][1].key = k
<1>6. /\ \A w : /\ Has(presence[q], w, k) <=> head(w) \/ Has(presence'[q], w, k)
                /\ Once(presence[q], w, k) => Once(presence'[q], w, k)
                /\ Once(presence[q], w, k) /\ head(w) => ~Has(presence'[q], w, k)
      /\ GoesAfter(presence[q], k) => GoesAfter(presence'[q], k)
      /\ GoesAfter(presence[q], k) /\ head("added") => Has(presence'[q], "removed", k)
  BY <1>0, <1>2, TailHas
<1>7. head("added") => q = r
  BY <1>1, <1>6 DEF Comes
<1>8. \A p \in Region : Has(presence'[p], "added", k) => Has(presence[p], "added", k)
  BY <1>2, <1>6
<1>9. Once(presence'[r], "added", k)
  BY <1>1, <1>2, <1>6 DEF Comes
<1> HIDE DEF head
<1>10. Comes(k, r)'
  BY <1>0, <1>1, <1>4, <1>5, <1>8, <1>9 DEF Comes
<1>11. \/ Has(outbound', "spawn", k) \/ Has(inbox'[r], "spawn", k) \/ Has(presence'[r], "added", k)
       => ~has
  <2>1. CASE head("added")
    BY <1>0, <1>1, <1>4, <1>6, <1>7, <2>1 DEF Comes
  <2>2. CASE ~head("added")
    BY <1>0, <1>1, <1>4, <1>8, <2>2 DEF Answers, head
  <2>3. QED
    BY <2>1, <2>2
<1>12. Going(k, r)' => has
  BY <1>0, <1>1, <1>4 DEF Answers, Going
<1>13. k \in alive'[r] \/ GoesAfter(presence'[r], k)
  BY <1>0, <1>1, <1>2, <1>6 DEF Answers
<1>14. has => k \in alive'[r] \/ Has(presence'[r], "removed", k)
  <2>1. CASE head("added")
    BY <1>0, <1>1, <1>6, <1>7, <2>1 DEF Answers
  <2>2. CASE ~head("added") /\ id
    <3>1. ~head("removed")
      BY <2>2 DEF head
    <3>2. Has(presence[r], "removed", k) => Has(presence'[r], "removed", k)
      BY <1>2, <1>6, <3>1
    <3>3. QED
      BY <1>0, <1>1, <2>2, <3>2 DEF Answers
  <2>3. CASE ~head("added") /\ ~id
    BY <2>3 DEF head
  <2>4. QED
    BY <2>1, <2>2, <2>3
<1>15. Answers(k, r, has)'
  BY <1>11, <1>12, <1>13, <1>14 DEF Answers
<1>16. Departs(k, r, has, doomed)'
  BY <1>0, <1>1, <1>4 DEF Departs, Going
<1>17. QED
  BY <1>10, <1>15, <1>16 DEF Flow
-----------------------------------------------------------------------------
(* What is asked for is asked for where it is recorded.                    *)
AsksThere == \A t \in Thread : job[t].pc = "ask" => ent[job[t].other].region = job[t].dest

FlowInv == Flows /\ AsksThere

(* A record that stays, as far as its region is concerned.                 *)
Same(k) ==
    Held(k)' => /\ Held(k) /\ ent'[k].region = ent[k].region /\ ent'[k].id = ent[k].id
                /\ ent'[k].doomed = ent[k].doomed

RegionsStay == \A k \in Key : Held(k) /\ Held(k)' => ent'[k].region = ent[k].region

StartsThere ==
    \E t \in Thread : /\ OthersStay(t) /\ job'[t].pc = "ask"
                      /\ ent'[job'[t].other].region = job'[t].dest

FlowStep == Flows' /\ RegionsStay /\ (UNCHANGED minted \/ StartsThere)

Still == UNCHANGED <<inbox, alive, presence>>

LEMMA AsksKept ==
    ASSUME IInv, HomeInv, IInv', HomeInv', AsksThere, HomeStep, FlowStep
    PROVE  AsksThere'
<1> SUFFICES ASSUME NEW t \in Thread, job'[t].pc = "ask"
             PROVE  ent'[job'[t].other].region = job'[t].dest
  BY DEF AsksThere
<1>1. CASE job'[t] = job[t]
  <2>1. job[t].pc = "ask" /\ ent[job[t].other].region = job[t].dest
    BY <1>1 DEF AsksThere
  <2>2. Held(job[t].other) /\ job[t].other \in Key
    BY <2>1, HandFacts DEF HomeInv, OwnersAgree, AsksAlone, Owned
  <2>3. PICK k \in Key : k = job[t].other /\ Held(k)
    BY <2>2
  <2>4. Held(k)'
    <3>1. job'[t].other = k
      BY <1>1, <2>3
    <3>2. OwnersAgree'
      BY DEF HomeInv
    <3>3. Owned(job[t].other, job[t].client, job[t].handle)'
      BY <1>1, <3>2 DEF OwnersAgree, AsksAlone
    <3>4. QED
      BY <2>3, <3>1, <1>1, <3>3 DEF Owned, Held
  <2>5. QED
    BY <1>1, <2>1, <2>3, <2>4 DEF FlowStep, RegionsStay
<1>2. CASE job'[t] # job[t]
  <2>1. \E k, c, h : Starts(t, k, c, h)
    <3>1. ~Free(job'[t])
      BY DEF Free
    <3>2. ~Stays
      BY <1>2, <3>1 DEF Stays
    <3>3. ASSUME NEW u \in Thread, OthersStay(u) PROVE u = t
      BY <1>2, <3>3 DEF OthersStay
    <3>4. ASSUME NEW u \in Thread, Binds(u) PROVE FALSE
      BY <3>1, <3>3, <3>4 DEF Binds
    <3>5. ASSUME NEW u \in Thread, Unbinds(u) PROVE FALSE
      BY <3>1, <3>3, <3>5 DEF Unbinds
    <3>6. ASSUME NEW u \in Thread, NEW k, Parts(u, k) PROVE FALSE
      <4>1. u = t /\ job'[u].pc = "unbind"
        BY <3>3, <3>6 DEF Parts
      <4>2. QED
        BY <4>1
    <3>7. \E u \in Thread : \E k, c, h : Starts(u, k, c, h)
      BY <3>2, <3>4, <3>5, <3>6 DEF HomeStep
    <3>8. PICK u \in Thread : \E k, c, h : Starts(u, k, c, h)
      BY <3>7
    <3>9. PICK k, c, h : Starts(u, k, c, h)
      BY <3>8
    <3>10. u = t
      BY <3>3, <3>9 DEF Starts
    <3>11. QED
      BY <3>9, <3>10
  <2>2. minted' # minted
    <3>1. minted \in Nat /\ minted' = minted + 1
      BY <2>1, MintedIsNat DEF Starts, IInv
    <3>2. QED
      BY <3>1
  <2>3. PICK u \in Thread : /\ OthersStay(u) /\ job'[u].pc = "ask"
                            /\ ent'[job'[u].other].region = job'[u].dest
    BY <2>2 DEF FlowStep, StartsThere
  <2>4. u = t
    BY <1>2, <2>3 DEF OthersStay
  <2>5. QED
    BY <2>3, <2>4
<1>3. QED
  BY <1>1, <1>2

LEMMA OfHeld ==
    ASSUME IInv, NEW k \in Key, Held(k)
    PROVE  /\ ent[k] \in EntityType /\ ent[k].region \in Region /\ ent[k].id \in BOOLEAN
           /\ ent[k].doomed \in BOOLEAN
           /\ ent \in [Key -> EntityType \cup {None}]
  BY DEF IInv, TypeOK, Held, EntityType

LEMMA SameFlows ==
    ASSUME IInv, Flows, Still, UNCHANGED outbound, \A k \in Key : Same(k), UNCHANGED minted
    PROVE  FlowStep
<1>1. ASSUME NEW k \in Key, NEW r, NEW id, NEW doomed, Flow(k, r, id, doomed)
      PROVE  Flow(k, r, id, doomed)'
  BY <1>1 DEF Flow, Comes, Answers, Departs, Going, Still
<1>2. ASSUME NEW k \in Key, Held(k)'
      PROVE  Flow(k, ent[k].region, ent[k].id, ent[k].doomed)'
  <2>1. PICK r, id, doomed : r = ent[k].region /\ id = ent[k].id /\ doomed = ent[k].doomed
    OBVIOUS
  <2>2. Flow(k, r, id, doomed)'
    BY <1>1, <1>2, <2>1 DEF Flows, Same
  <2>3. r = ent'[k].region /\ id = ent'[k].id /\ doomed = ent'[k].doomed
    BY <1>2, <2>1 DEF Same
  <2>4. QED
    BY <2>2, <2>3
<1>3. Flows'
  BY <1>2 DEF Flows
<1>4. QED
  BY <1>3 DEF FlowStep, RegionsStay, Same

LEMMA SentFlows ==
    ASSUME IInv, Flows, Still, NEW ms \in Seq(MessageType), Send(ms),
           \A i \in DOMAIN ms : ms[i].what = "message",
           \A k \in Key : Same(k), UNCHANGED minted
    PROVE  FlowStep
<1>1. ASSUME NEW k \in Key, Held(k)'
      PROVE  Flow(k, ent[k].region, ent[k].id, ent[k].doomed)'
  <2>1. PICK r, id, doomed : r = ent[k].region /\ id = ent[k].id /\ doomed = ent[k].doomed
    OBVIOUS
  <2>2. Flow(k, r, id, doomed) /\ r \in Region
    BY <1>1, <2>1, OfHeld DEF Flows, Same
  <2>3. Flow(k, r, id, doomed)'
    BY <2>2, FlowSends DEF IInv, Still
  <2>4. r = ent'[k].region /\ id = ent'[k].id /\ doomed = ent'[k].doomed
    BY <1>1, <2>1 DEF Same
  <2>5. QED
    BY <2>3, <2>4
<1>2. Flows'
  BY <1>1 DEF Flows
<1>3. QED
  BY <1>2 DEF FlowStep, RegionsStay, Same

LEMMA StartedFlows ==
    ASSUME IInv, HomeInv, Flows, Still, UNCHANGED outbound,
           NEW c, NEW h, NEW r \in Region, NEW owner, Record(c, h, r, owner),
           NEW t \in Thread, NEW new, Then(t, new),
           "pc" \in DOMAIN new, "other" \in DOMAIN new, "dest" \in DOMAIN new,
           new.pc = "ask", new.other = minted, new.dest = r
    PROVE  FlowStep
<1>1. PICK n : n = minted /\ n \in Key /\ n \notin Known
  BY MintedIsNat DEF Record, Mint, Key, Known, IInv
<1> DEFINE e == [client |-> c, handle |-> h, region |-> r, id |-> FALSE,
                 doomed |-> FALSE, replaces |-> None, shadows |-> {},
                 shadowOf |-> owner, standing |-> 0, to |-> None, held |-> <<>>]
<1>2. ent' = [ent EXCEPT ![n] = e] /\ e.region = r /\ e.id = FALSE /\ e.doomed = FALSE
  BY <1>1 DEF Record
<1> HIDE DEF e
<1>3. ent'[n] = e /\ \A k \in Key \ {n} : ent'[k] = ent[k]
  BY <1>1, <1>2 DEF IInv, TypeOK
<1>4. ASSUME NEW k \in Key, NEW q, NEW id, NEW doomed, Flow(k, q, id, doomed)
      PROVE  Flow(k, q, id, doomed)'
  BY <1>4 DEF Flow, Comes, Answers, Departs, Going, Still
<1>5. ASSUME NEW k \in Key, Held(k)'
      PROVE  Flow(k, ent[k].region, ent[k].id, ent[k].doomed)'
  <2>1. CASE k = n
    <3>1. Flow(n, r, FALSE, FALSE)'
      BY <1>1, <1>4, FlowStarts
    <3>2. ent'[k].region = r /\ ent'[k].id = FALSE /\ ent'[k].doomed = FALSE
      BY <1>2, <1>3, <2>1
    <3>3. QED
      BY <2>1, <3>1, <3>2
  <2>2. CASE k # n
    <3>1. PICK q, id, doomed : q = ent[k].region /\ id = ent[k].id /\ doomed = ent[k].doomed
      OBVIOUS
    <3>2. ent'[k] = ent[k] /\ Held(k)
      BY <1>3, <1>5, <2>2 DEF Held
    <3>3. Flow(k, q, id, doomed)'
      BY <1>4, <3>1, <3>2 DEF Flows
    <3>4. QED
      BY <3>1, <3>2, <3>3
  <2>3. QED
    BY <2>1, <2>2
<1>6. Flows'
  BY <1>5 DEF Flows
<1>7. ~Held(n)
  <2>1. Held(n) => n < n
    BY <1>1 DEF IInv, TypeOK
  <2>2. n \in Nat
    BY <1>1, NoneFacts
  <2>3. QED
    BY <2>1, <2>2
<1>8. RegionsStay
  BY <1>3, <1>7 DEF RegionsStay
<1>9. StartsThere
  <2>1. job'[t] = With(job[t], new) /\ OthersStay(t) /\ job[t] \in JobType
    BY Turned DEF IInv, TypeOK
  <2>2. job'[t].pc = "ask" /\ job'[t].other = n /\ job'[t].dest = r
    BY <1>1, <2>1 DEF With, JobType
  <2>3. QED
    BY <1>2, <1>3, <2>1, <2>2 DEF StartsThere
<1>10. QED
  BY <1>6, <1>8, <1>9 DEF FlowStep

(* Forgetting, and changing what is no part of this.                       *)
LEMMA DroppedSame ==
    ASSUME IInv, NEW k, ent' = [ent EXCEPT ![k] = None]
    PROVE  \A x \in Key : Same(x)
  BY DEF Same, Held, IInv, TypeOK

LEMMA EditedSame ==
    ASSUME IInv, NEW k \in Key, Held(k), NEW e, ent' = [ent EXCEPT ![k] = e],
           e.region = ent[k].region, e.id = ent[k].id, e.doomed = ent[k].doomed
    PROVE  \A x \in Key : Same(x)
  BY DEF Same, Held, IInv, TypeOK

LEMMA AskFlows ==
    ASSUME IInv, HomeInv, FlowInv, NEW t \in Thread, Ask(t)
    PROVE  FlowStep
<1>1. PICK n, d : n = job[t].other /\ d = job[t].dest
  OBVIOUS
<1>2. /\ job[t].pc = "ask" /\ n \in Key /\ d \in Region /\ n \notin Known /\ Held(n)
      /\ ent[n].region = d
  BY <1>1, AtHome DEF Ask, At, JobReady, Known, Asked, FlowInv, AsksThere, HomeInv, OwnersAgree,
     AsksAlone, Owned
<1>3. ~ent[n].id /\ ~ent[n].doomed
  <2>1. n \notin byId
    BY <1>2 DEF HomeInv, RecordsHome
  <2>2. ~ent[n].id
    BY <1>2, <2>1 DEF IInv, IndexAgrees
  <2>3. QED
    BY <1>2, <2>2 DEF FlowInv, Flows, Flow, Departs
<1> DEFINE ms == <<Spawning(d, n)>>
<1>4. Send(ms) /\ Still /\ ent' = ent /\ minted' = minted
  BY <1>1 DEF Ask, Still, held, world, regions
<1>5. Flow(n, d, FALSE, FALSE)'
  BY <1>2, <1>4, FlowAsks DEF Still
<1>6. ms \in Seq(MessageType) /\ DOMAIN ms = {1} /\ ms[1].key = n
  BY <1>2, MessageTypes DEF Spawning
<1> HIDE DEF ms
<1>7. ASSUME NEW k \in Key, Held(k)'
      PROVE  Flow(k, ent[k].region, ent[k].id, ent[k].doomed)'
  <2>1. CASE k = n
    <3>1. ent'[k].region = d /\ ent'[k].id = FALSE /\ ent'[k].doomed = FALSE
      BY <1>2, <1>3, <1>4, <2>1, OfHeld
    <3>2. QED
      BY <1>5, <2>1, <3>1
  <2>2. CASE k # n
    <3>1. PICK r, id, doomed : r = ent[k].region /\ id = ent[k].id /\ doomed = ent[k].doomed
      OBVIOUS
    <3>2. Held(k) /\ ent'[k] = ent[k]
      BY <1>4, <1>7 DEF Held
    <3>3. Flow(k, r, id, doomed) /\ r \in Region
      BY <3>1, <3>2, OfHeld DEF FlowInv, Flows
    <3>4. Flow(k, r, id, doomed)'
      BY <1>4, <1>6, <2>2, <3>3, FlowSends DEF IInv, Still
    <3>5. QED
      BY <3>1, <3>2, <3>4
  <2>3. QED
    BY <2>1, <2>2
<1>8. Flows'
  BY <1>7 DEF Flows
<1>9. QED
  BY <1>4, <1>8 DEF FlowStep, RegionsStay

LEMMA ReleaseFlows ==
    ASSUME IInv, HomeInv, FlowInv, NEW t \in Thread, Release(t)
    PROVE  FlowStep
<1>1. PICK n : n = job[t].victim
  OBVIOUS
<1>2. n \in Key /\ Still /\ minted' = minted
  BY <1>1, AtHome DEF Release, At, JobReady, Still, world, regions
<1>3. CASE ~Held(n)
  BY <1>1, <1>2, <1>3, SameFlows DEF Release, FlowInv, Same, Held
<1>4. CASE Held(n)
  <2>1. PICK q : q = ent[n].region
    OBVIOUS
  <2> DEFINE ms == <<Despawning(q, n)>>
             e == [ent[n] EXCEPT !.doomed = TRUE]
  <2>2. Send(ms) /\ ent' = [ent EXCEPT ![n] = e] /\ ent[n].id /\ q \in Region
    BY <1>1, <1>2, <1>4, <2>1, OfHeld DEF Release, Doom
  <2>3. /\ ms \in Seq(MessageType) /\ DOMAIN ms = {1}
        /\ ms[1].key = n /\ ms[1].what = "despawn" /\ ms[1].region = q
    BY <1>2, <2>2, MessageTypes DEF Despawning
  <2>4. e.region = q /\ e.id = ent[n].id /\ e.doomed = TRUE
    BY <1>2, <1>4, <2>1, OfHeld DEF EntityType
  <2> HIDE DEF ms, e
  <2>5. ent'[n] = e /\ \A k \in Key \ {n} : ent'[k] = ent[k]
    BY <1>2, <2>2 DEF IInv, TypeOK
  <2>6. ASSUME NEW k \in Key, Held(k)'
        PROVE  Flow(k, ent[k].region, ent[k].id, ent[k].doomed)'
    <3>1. PICK r, id, doomed, gone : /\ r = ent[k].region /\ id = ent[k].id /\ doomed = ent[k].doomed
                                     /\ gone = ent'[k].doomed
      OBVIOUS
    <3>2. Held(k)
      BY <1>4, <2>5, <2>6 DEF Held
    <3>3. Flow(k, r, id, doomed) /\ r \in Region
      BY <3>1, <3>2, OfHeld DEF FlowInv, Flows
    <3>4. /\ k = n => r = q /\ id
          /\ k # n => gone = doomed
      BY <2>1, <2>2, <2>5, <3>1
    <3>5. \A i \in DOMAIN ms : ms[i].key = k /\ ms[i].what # "message" =>
                ms[i].what = "despawn" /\ ms[i].region = r /\ id
      BY <2>3, <3>4
    <3>6. gone => doomed \/ (Has(ms, "despawn", k) /\ id)
      BY <2>3, <3>4 DEF Has
    <3>7. Flow(k, r, id, gone)'
      BY <1>2, <2>2, <2>3, <3>3, <3>5, <3>6, FlowSends DEF IInv, Still
    <3>8. ent'[k].region = r /\ ent'[k].id = id /\ ent'[k].doomed = gone
      BY <2>1, <2>4, <2>5, <3>1
    <3>9. QED
      BY <3>7, <3>8
  <2>7. Flows'
    BY <2>6 DEF Flows
  <2>8. RegionsStay
    BY <2>1, <2>4, <2>5 DEF RegionsStay
  <2>9. QED
    BY <1>2, <2>7, <2>8 DEF FlowStep
<1>5. QED
  BY <1>3, <1>4
-----------------------------------------------------------------------------
LEMMA SameEnt ==
    ASSUME UNCHANGED ent
    PROVE  \A k \in Key : Same(k)
  BY DEF Same, Held

LEMMA CommonFlows ==
    ASSUME IInv, HomeInv, FlowInv, NEW t \in Thread, Common(t)
    PROVE  FlowStep
<1> DEFINE j == job[t]
<1>1. CASE ReleaseUnanswered(t) \/ ReleaseNext(t) \/ CheckLeft(t) \/ Unbind(t) \/ Disconnected(t)
  <2>1. UNCHANGED ent /\ UNCHANGED outbound /\ UNCHANGED minted /\ Still
    BY <1>1 DEF ReleaseUnanswered, ReleaseNext, CheckLeft, Unbind, Disconnected, OnlyJob, OnlyClients,
       edge, held, world, regions, Still
  <2>2. QED
    BY <2>1, SameEnt, SameFlows DEF FlowInv
<1>2. CASE Forget(t)
  <2>1. PICK k : k = job[t].victim
    OBVIOUS
  <2>2. ent' = [ent EXCEPT ![k] = None] /\ UNCHANGED outbound /\ UNCHANGED minted /\ Still
    BY <1>2, <2>1 DEF Forget, Drop, OnlyHeld, world, regions, Still
  <2>3. QED
    BY <2>2, DroppedSame, SameFlows DEF FlowInv
<1>3. CASE \/ Begin(t) \/ Denied(t) \/ (\E carry \in BOOLEAN : AskCopy(t, carry))
           \/ Link(t) \/ Carry(t) \/ Note(t)
  <2>1. j.pc \in Abroad
    BY <1>3 DEF Begin, Denied, AskCopy, Link, Carry, Note, At, Abroad
  <2>2. QED
    BY <2>1, AtHome DEF JobHome
<1>4. QED
  BY <1>1, <1>2, <1>3, AskFlows, ReleaseFlows DEF Common

(* The reader takes a report, and answers it or not.                       *)
Took(n, what) ==
    \A k \in Key : Held(k)' =>
        /\ Held(k) /\ ent'[k].region = ent[k].region /\ ent'[k].doomed = ent[k].doomed
        /\ ent'[k].id \in BOOLEAN
        /\ ent'[k].id <=> ent[k].id \/ (k = n /\ what = "added")
        /\ ~(k = n /\ what = "removed" /\ ent[k].id)

LEMMA ReadFlows ==
    ASSUME IInv, Flows, NEW r \in Region, NEW what, Reads(r, what), NEW n, n = presence[r][1].key,
           NEW ms \in Seq(MessageType), Send(ms), \A i \in DOMAIN ms : ~Held(ms[i].key),
           UNCHANGED minted, Took(n, what)
    PROVE  FlowStep
<1>1. ASSUME NEW k \in Key, Held(k)'
      PROVE  Flow(k, ent[k].region, ent[k].id, ent[k].doomed)'
  <2>1. PICK q, id, doomed, has : /\ q = ent[k].region /\ id = ent[k].id /\ doomed = ent[k].doomed
                                  /\ has = ent'[k].id
    OBVIOUS
  <2>2. Flow(k, q, id, doomed) /\ q \in Region /\ id \in BOOLEAN /\ has \in BOOLEAN
    BY <1>1, <2>1, OfHeld DEF Flows, Took
  <2>3. /\ has <=> id \/ (n = k /\ what = "added")
        /\ ~(n = k /\ what = "removed" /\ id)
        /\ \A i \in DOMAIN ms : ms[i].key # k
    BY <1>1, <2>1 DEF Took
  <2>4. Flow(k, q, has, doomed)'
    BY <2>2, <2>3, FlowReads DEF IInv
  <2>5. q = ent'[k].region /\ has = ent'[k].id /\ doomed = ent'[k].doomed
    BY <1>1, <2>1 DEF Took
  <2>6. QED
    BY <2>4, <2>5
<1>2. QED
  BY <1>1 DEF Flows, FlowStep, RegionsStay, Took

LEMMA SaysNothing ==
    ASSUME IInv, UNCHANGED outbound
    PROVE  <<>> \in Seq(MessageType) /\ Send(<<>>) /\ DOMAIN <<>> = {}
<1>1. outbound \in Seq(MessageType)
  BY Queues DEF IInv
<1>2. outbound = outbound \o <<>>
  BY <1>1
<1>3. QED
  BY <1>2 DEF Send

LEMMA ReadOnFlows ==
    ASSUME IInv, Flows, NEW r \in Region, NEW what, Reads(r, what), NEW n, n = presence[r][1].key,
           UNCHANGED outbound, UNCHANGED minted, Took(n, what)
    PROVE  FlowStep
<1>1. PICK ms : ms = <<>>
  OBVIOUS
<1>2. ms \in Seq(MessageType) /\ Send(ms) /\ \A i \in DOMAIN ms : ~Held(ms[i].key)
  BY <1>1, SaysNothing
<1>3. QED
  BY <1>2, ReadFlows

LEMMA ReportFlows ==
    ASSUME IInv, HomeInv, FlowInv, NEW r \in Region,
           \/ AddedUnknown(r) \/ Added(r) \/ RemovedUnknown(r) \/ Removed(r)
           \/ ViewCollision(r) \/ ViewCleared(r)
    PROVE  FlowStep
<1>0. PICK n : n = presence[r][1].key
  OBVIOUS
<1>1. Flows
  BY DEF FlowInv
<1>2. \A k \in Key : Held(k) => ent[k].id \in BOOLEAN
  BY OfHeld
<1>3. CASE AddedUnknown(r)
  <2> DEFINE ms == <<Despawning(r, n)>>
  <2>1. /\ Reads(r, "added") /\ ~Held(n) /\ Send(ms) /\ UNCHANGED <<ent, minted>>
    BY <1>0, <1>3 DEF AddedUnknown, edge, held
  <2>2. n \in Key
    BY <1>0, <2>1, ReadHome
  <2>3. ms \in Seq(MessageType) /\ \A i \in DOMAIN ms : ms[i].key = n
    BY <2>2, MessageTypes DEF Despawning
  <2> HIDE DEF ms
  <2>4. Took(n, "added")
    BY <1>2, <2>1 DEF Held, Took
  <2>5. QED
    BY <1>0, <1>1, <2>1, <2>3, <2>4, ReadFlows
<1>4. CASE Added(r)
  <2> DEFINE e == [ent[n] EXCEPT !.id = TRUE, !.replaces = None]
  <2>1. /\ Reads(r, "added") /\ Held(n) /\ UNCHANGED <<outbound, minted>>
        /\ ent' = [ent EXCEPT ![n] = e]
    BY Zenon, <1>0, <1>4 DEF Added
  <2>2. n \in Key
    BY <1>0, <2>1, ReadHome
  <2>3. e.region = ent[n].region /\ e.doomed = ent[n].doomed /\ e.id = TRUE
    BY <2>1, <2>2, OfHeld DEF EntityType
  <2> HIDE DEF e
  <2>4. \A k \in Key : ent'[k] = IF k = n THEN e ELSE ent[k]
    BY <2>1, <2>2 DEF IInv, TypeOK
  <2>5. Took(n, "added")
    BY <1>2, <2>1, <2>3, <2>4 DEF Held, Took
  <2>6. QED
    BY <1>0, <1>1, <2>1, <2>5, ReadOnFlows
<1>5. CASE RemovedUnknown(r)
  <2>1. Reads(r, "removed") /\ n \notin byId /\ UNCHANGED <<ent, outbound, minted>>
    BY <1>0, <1>5 DEF RemovedUnknown, edge, held
  <2>2. Took(n, "removed")
    BY <1>2, <2>1 DEF Held, IInv, IndexAgrees, Took
  <2>3. QED
    BY <1>0, <1>1, <2>1, <2>2, ReadOnFlows
<1>6. CASE Removed(r)
  <2>1. /\ Reads(r, "removed") /\ ent' = [ent EXCEPT ![n] = None] /\ UNCHANGED <<outbound, minted>>
    BY <1>0, <1>6 DEF Removed, Drop
  <2>2. \A k \in Key : ent'[k] = IF k = n THEN None ELSE ent[k]
    BY <2>1 DEF IInv, TypeOK
  <2>3. Took(n, "removed")
    BY <1>2, <2>2 DEF Held, Took
  <2>4. QED
    BY <1>0, <1>1, <2>1, <2>3, ReadOnFlows
<1>7. ASSUME NEW what \in {"view", "cleared"}, Reads(r, what), UNCHANGED <<outbound, minted>>,
             \A k \in Key : Same(k)
      PROVE  FlowStep
  <2>1. Took(n, what)
    BY <1>2, <1>7 DEF Same, Took
  <2>2. QED
    BY <1>0, <1>1, <1>7, <2>1, ReadOnFlows
<1>8. CASE ViewCollision(r)
  <2>1. Reads(r, "view") /\ UNCHANGED <<ent, outbound, minted>>
    BY <1>8 DEF ViewCollision, edge, held
  <2>2. QED
    BY <1>7, <2>1, SameEnt
<1>9. CASE ViewCleared(r)
  <2>1. Reads(r, "cleared") /\ UNCHANGED <<outbound, minted>>
    BY <1>9 DEF ViewCleared
  <2>2. CASE UNCHANGED ent
    BY <1>7, <2>1, <2>2, SameEnt
  <2>3. CASE n \in byId /\ ent' = [ent EXCEPT ![n].shadows = {}]
    <3> DEFINE e == [ent[n] EXCEPT !.shadows = {}]
    <3>1. n \in Key /\ Held(n) /\ ent' = [ent EXCEPT ![n] = e]
      BY <2>3 DEF IInv, IndexAgrees
    <3>2. e.region = ent[n].region /\ e.id = ent[n].id /\ e.doomed = ent[n].doomed
      BY <3>1, OfHeld DEF EntityType
    <3> HIDE DEF e
    <3>3. \A k \in Key : Same(k)
      BY <3>1, <3>2, EditedSame
    <3>4. QED
      BY <1>7, <2>1, <3>3
  <2>4. QED
    BY <1>0, <1>9, <2>2, <2>3 DEF ViewCleared
<1>10. QED
  BY <1>3, <1>4, <1>5, <1>6, <1>8, <1>9

LEMMA ReaderFlows ==
    ASSUME IInv, HomeInv, FlowInv, Reader
    PROVE  FlowStep
<1> DEFINE j == job["reader"]
<1>1. ASSUME NEW r \in Region, Boundary(r) PROVE FlowStep
  BY <1>1, ReadHome DEF Boundary
<1>2. CASE CopyOrphaned \/ Remap \/ Panic \/ Landed \/ Rehandle \/ Resend \/ Stand \/ Arrive
  <2>1. job["reader"].pc \in Abroad
    BY <1>2 DEF CopyOrphaned, Remap, Panic, Landed, Rehandle, Resend, Stand, Arrive, At, Abroad
  <2>2. QED
    BY <2>1, AtHome, ThreadFacts DEF JobHome
<1>3. CASE Greet \/ Notify \/ KeepShadow \/ ViewSeen
  <2>1. UNCHANGED ent /\ UNCHANGED outbound /\ UNCHANGED minted /\ Still
    BY <1>3 DEF Greet, Notify, KeepShadow, ViewSeen, OnlyJob, edge, held, world, regions, Still
  <2>2. QED
    BY <2>1, SameEnt, SameFlows DEF FlowInv
<1>4. ASSUME NEW k \in Key, Held(k), NEW e, ent' = [ent EXCEPT ![k] = e],
             e.region = ent[k].region, e.id = ent[k].id, e.doomed = ent[k].doomed,
             UNCHANGED outbound, UNCHANGED minted, Still
      PROVE  FlowStep
  BY <1>4, EditedSame, SameFlows DEF FlowInv
<1>5. CASE Unlist
  <2>1. PICK k : k = j.other
    OBVIOUS
  <2> DEFINE e == [ent[k] EXCEPT !.shadows = @ \ {j.victim}]
  <2>2. UNCHANGED outbound /\ UNCHANGED minted /\ Still
    BY <1>5 DEF Unlist, OnlyEnt, world, regions, Still
  <2>3. CASE ~Held(k)
    BY <1>5, <2>1, <2>2, <2>3, SameEnt, SameFlows DEF Unlist, Unlisted, FlowInv
  <2>4. CASE Held(k)
    <3>1. ent' = [ent EXCEPT ![k] = e]
      BY <1>5, <2>1, <2>4 DEF Unlist, Unlisted
    <3>2. k \in Key
      BY <2>1, <2>4, AtHome, ThreadFacts DEF JobType, Held
    <3>3. e.region = ent[k].region /\ e.id = ent[k].id /\ e.doomed = ent[k].doomed
      BY <2>4, <3>2, OfHeld DEF EntityType
    <3> HIDE DEF e
    <3>4. QED
      BY <1>4, <2>2, <2>4, <3>1, <3>2, <3>3
  <2>5. QED
    BY <2>3, <2>4
<1>6. CASE List
  <2>1. PICK k : k = j.key
    OBVIOUS
  <2> DEFINE e == [ent[k] EXCEPT !.shadows = j.keep]
  <2>2. UNCHANGED outbound /\ UNCHANGED minted /\ Still
    BY <1>6 DEF List, OnlyEnt, world, regions, Still
  <2>3. CASE ~Held(k)
    BY <1>6, <2>1, <2>2, <2>3, SameEnt, SameFlows DEF List, FlowInv
  <2>4. CASE Held(k)
    <3>1. ent' = [ent EXCEPT ![k] = e]
      BY <1>6, <2>1, <2>4 DEF List
    <3>2. k \in Key
      BY <2>1, <2>4, AtHome, ThreadFacts DEF JobType, Held
    <3>3. e.region = ent[k].region /\ e.id = ent[k].id /\ e.doomed = ent[k].doomed
      BY <2>4, <3>2, OfHeld DEF EntityType
    <3> HIDE DEF e
    <3>4. QED
      BY <1>4, <2>2, <2>4, <3>1, <3>2, <3>3
  <2>5. QED
    BY <2>3, <2>4
<1>7. CASE AskShadow
  <2>1. PICK c, owner : c = j.client /\ owner = j.key
    OBVIOUS
  <2>2. PICK d \in j.reach :
          /\ Record(c, None, d, owner)
          /\ Then("reader", [pc |-> "ask", other |-> minted, dest |-> d,
                             reach |-> j.reach \ {d}, keep |-> j.keep \cup {minted},
                             next |-> "view"])
    BY <1>7, <2>1 DEF AskShadow
  <2> DEFINE new == [pc |-> "ask", other |-> minted, dest |-> d,
                     reach |-> j.reach \ {d}, keep |-> j.keep \cup {minted}, next |-> "view"]
  <2>3. d \in Region /\ "reader" \in Thread
    BY <2>2, AtHome, ThreadFacts DEF JobType
  <2>4. Still /\ UNCHANGED outbound
    BY <1>7 DEF AskShadow, OnlyAsked, world, regions, Still
  <2>5. /\ "pc" \in DOMAIN new /\ "other" \in DOMAIN new /\ "dest" \in DOMAIN new
        /\ new.pc = "ask" /\ new.other = minted /\ new.dest = d
    OBVIOUS
  <2>6. Then("reader", new)
    BY <2>2
  <2> HIDE DEF new
  <2>7. QED
    BY <2>2, <2>3, <2>4, <2>5, <2>6, StartedFlows DEF FlowInv
<1>8. QED
  BY <1>1, <1>2, <1>3, <1>5, <1>6, <1>7, ReportFlows DEF Reader
-----------------------------------------------------------------------------
(* Nothing the edge holds changes, only what is on the way.                *)
LEMMA CarriedFlows ==
    ASSUME IInv, Flows, UNCHANGED ent, UNCHANGED minted,
           \A k \in Key : \A r \in Region : \A id, doomed :
                Flow(k, r, id, doomed) => Flow(k, r, id, doomed)'
    PROVE  FlowStep
<1>1. ASSUME NEW k \in Key, Held(k)'
      PROVE  Flow(k, ent[k].region, ent[k].id, ent[k].doomed)'
  <2>1. PICK r, id, doomed : r = ent[k].region /\ id = ent[k].id /\ doomed = ent[k].doomed
    OBVIOUS
  <2>2. Held(k) /\ r = ent'[k].region /\ id = ent'[k].id /\ doomed = ent'[k].doomed
    BY <1>1, <2>1 DEF Held
  <2>3. Flow(k, r, id, doomed) /\ r \in Region
    BY <2>1, <2>2, OfHeld DEF Flows
  <2>4. Flow(k, r, id, doomed)'
    BY <2>3
  <2>5. QED
    BY <2>2, <2>4
<1>2. Flows'
  BY <1>1 DEF Flows
<1>3. QED
  BY <1>2 DEF FlowStep, RegionsStay

LEMMA PublisherFlows ==
    ASSUME IInv, HomeInv, FlowInv, Publisher \/ Expire
    PROVE  FlowStep
<1> DEFINE j == job["publisher"]
<1>1. JobHome(j, Known) /\ "publisher" \in Thread /\ transits = {}
  BY AtHome, ThreadFacts DEF HomeInv, RecordsHome
<1>2. CASE Publish
  <2>1. UNCHANGED ent /\ UNCHANGED minted
    BY <1>2 DEF Publish, edge, held
  <2>2. ASSUME NEW k \in Key, NEW r \in Region, NEW id, NEW doomed, Flow(k, r, id, doomed)
        PROVE  Flow(k, r, id, doomed)'
    BY <1>2, <2>2, FlowPublishes DEF IInv
  <2>3. QED
    BY <2>1, <2>2, CarriedFlows DEF FlowInv
<1>3. CASE Expire
  BY <1>1, <1>3 DEF Expire
<1>4. CASE \/ \E x \in j.due : LeaveBe(x) \/ GiveUp(x)
           \/ Uncarry \/ Unhold \/ Expired
  <2>1. j.pc \in Abroad
    BY <1>4 DEF LeaveBe, GiveUp, Uncarry, Unhold, Expired, At, Abroad
  <2>2. QED
    BY <1>1, <2>1 DEF JobHome
<1>5. QED
  BY <1>2, <1>3, <1>4 DEF Publisher

LEMMA GameFlows ==
    ASSUME IInv, HomeInv, FlowInv, Game
    PROVE  FlowStep
<1>1. ASSUME NEW c \in Client, NEW r \in Region, GameSpawn(c, r) PROVE FlowStep
  <2> DEFINE new == [pc |-> "ask", other |-> minted, client |-> c, dest |-> r]
  <2>1. /\ Record(c, None, r, None) /\ Then("game", new) /\ Still /\ UNCHANGED outbound
        /\ "game" \in Thread
    BY <1>1, ThreadFacts DEF GameSpawn, Still
  <2>2. /\ "pc" \in DOMAIN new /\ "other" \in DOMAIN new /\ "dest" \in DOMAIN new
        /\ new.pc = "ask" /\ new.other = minted /\ new.dest = r
    OBVIOUS
  <2> HIDE DEF new
  <2>3. QED
    BY <2>1, <2>2, StartedFlows DEF FlowInv
<1>2. ASSUME NEW k \in Key, GameDespawn(k) PROVE FlowStep
  <2>1. UNCHANGED ent /\ UNCHANGED outbound /\ UNCHANGED minted /\ Still
    BY <1>2 DEF GameDespawn, edge, held, Still
  <2>2. QED
    BY <2>1, SameEnt, SameFlows DEF FlowInv
<1>3. QED
  BY <1>1, <1>2 DEF Game

LEMMA WorldsFlows ==
    ASSUME IInv, HomeInv, FlowInv, Worlds
    PROVE  FlowStep
<1>1. UNCHANGED ent /\ UNCHANGED minted
  BY WorldsFrame DEF edge, held
<1>2. ASSUME NEW q \in Region, RegionTakes(q) PROVE FlowStep
  <2>1. ASSUME NEW k \in Key, NEW r \in Region, NEW id, NEW doomed, Flow(k, r, id, doomed)
        PROVE  Flow(k, r, id, doomed)'
    BY <1>2, <2>1, FlowTakes DEF IInv
  <2>2. QED
    BY <1>1, <2>1, CarriedFlows DEF FlowInv
<1>3. ASSUME NEW q \in Region, NEW what \in {"removed", "cross", "view", "cleared"}, NEW x \in Key,
             NEW to \in SUBSET Region, Happens(q, what, x, to),
             alive' = IF what = "removed" THEN [alive EXCEPT ![q] = @ \ {x}] ELSE alive
      PROVE  FlowStep
  <2>1. ASSUME NEW k \in Key, NEW r \in Region, NEW id, NEW doomed, Flow(k, r, id, doomed)
        PROVE  Flow(k, r, id, doomed)'
    BY <1>3, <2>1, FlowHappens DEF IInv
  <2>2. QED
    BY <1>1, <2>1, CarriedFlows DEF FlowInv
<1>4. ASSUME NEW q \in Region, NEW x \in Key, SeeNothing(q, x) PROVE FlowStep
  BY <1>3, <1>4 DEF SeeNothing
<1>5. ASSUME NEW q \in Region, NEW x \in Key, RegionDespawns(q, x) PROVE FlowStep
  <2>1. {} \in SUBSET Region
    OBVIOUS
  <2>2. QED
    BY <1>3, <1>5, <2>1 DEF RegionDespawns
<1>6. ASSUME NEW q \in Region, NEW x \in Key, NEW d \in Region, MeetBoundary(q, x, d) PROVE FlowStep
  <2>1. {d} \in SUBSET Region
    OBVIOUS
  <2>2. QED
    BY <1>3, <1>6, <2>1 DEF MeetBoundary
<1>7. ASSUME NEW q \in Region, NEW x \in Key, NEW to \in SUBSET Region, SeeBeyond(q, x, to) PROVE FlowStep
  BY <1>3, <1>7 DEF SeeBeyond
<1>8. QED
  BY <1>2, <1>4, <1>5, <1>6, <1>7 DEF Worlds

LEMMA CommandedFlows ==
    ASSUME IInv, HomeInv, FlowInv, NEW c \in Client, Commanded(c)
    PROVE  FlowStep
<1>1. ASSUME NEW h \in Handle, NEW r \in Region, ClientSpawn(c, h, r) PROVE FlowStep
  <2> DEFINE new == [pc |-> "ask", other |-> minted, client |-> c, handle |-> h, dest |-> r]
  <2>1. /\ Record(c, h, r, None) /\ Then(c, new) /\ Still /\ UNCHANGED outbound /\ c \in Thread
    BY <1>1, ThreadFacts DEF ClientSpawn, regions, Still
  <2>2. /\ "pc" \in DOMAIN new /\ "other" \in DOMAIN new /\ "dest" \in DOMAIN new
        /\ new.pc = "ask" /\ new.other = minted /\ new.dest = r
    OBVIOUS
  <2> HIDE DEF new
  <2>3. QED
    BY <2>1, <2>2, StartedFlows DEF FlowInv
<1>2. CASE \/ \E h \in Handle : \/ ClientDespawn(c, h) \/ ClientSay(c, h)
                                \/ \E r \in Region : ClientTeleport(c, h, r)
           \/ ClientLeave(c)
  <2>1. UNCHANGED ent /\ UNCHANGED outbound /\ UNCHANGED minted /\ Still
    BY <1>2 DEF ClientDespawn, ClientSay, ClientTeleport, ClientLeave, OnlyJob, OnlyClients,
       edge, held, world, regions, Still
  <2>2. QED
    BY <2>1, SameEnt, SameFlows DEF FlowInv
<1>3. QED
  BY <1>1, <1>2 DEF Commanded

LEMMA SayFlows ==
    ASSUME IInv, HomeInv, FlowInv, NEW c \in Client, Say(c)
    PROVE  FlowStep
<1>0. PICK k, w : k = job[c].key /\ w = job[c].word
  OBVIOUS
<1>1. w \in Word /\ k \in Key \cup {None} /\ MaxWords \in Nat
  BY <1>0, AtHome, ThreadFacts, EdgeServerAssumption DEF Say, At, JobReady, JobType
<1>2. UNCHANGED minted /\ Still /\ Flows
  BY DEF Say, regions, Still, FlowInv
<1>3. CASE ~Held(k)
  BY <1>0, <1>2, <1>3, SameEnt, SameFlows DEF Say
<1>4. CASE Held(k) /\ ent[k].to # None
  <2> DEFINE e == [ent[k] EXCEPT !.held = Append(@, w)]
  <2>1. ent' = [ent EXCEPT ![k] = e] /\ UNCHANGED outbound
    BY <1>0, <1>4 DEF Say
  <2>2. k \in Key /\ e.region = ent[k].region /\ e.id = ent[k].id /\ e.doomed = ent[k].doomed
    BY <1>1, <1>4, OfHeld DEF Held, EntityType
  <2> HIDE DEF e
  <2>3. QED
    BY <1>2, <1>4, <2>1, <2>2, EditedSame, SameFlows
<1>5. CASE Held(k) /\ ent[k].to = None
  <2>0. PICK r : r = ent[k].region
    OBVIOUS
  <2> DEFINE e == [ent[k] EXCEPT !.standing = w]
             ms == <<Saying(r, k, w)>>
  <2>1. /\ ent' = [ent EXCEPT ![k] = e]
        /\ IF ent[k].id THEN Send(ms) ELSE UNCHANGED outbound
    BY <1>0, <1>5, <2>0 DEF Say
  <2>2. k \in Key /\ e.region = ent[k].region /\ e.id = ent[k].id /\ e.doomed = ent[k].doomed
        /\ r \in Region
    BY <1>1, <1>5, <2>0, OfHeld DEF Held, EntityType
  <2>3. ms \in Seq(MessageType) /\ \A i \in DOMAIN ms : ms[i].what = "message"
    BY <1>1, <2>2 DEF Saying, MessageType, Word
  <2> HIDE DEF e, ms
  <2>4. \A x \in Key : Same(x)
    BY <1>5, <2>1, <2>2, EditedSame
  <2>5. QED
    BY <1>2, <2>1, <2>3, <2>4, SameFlows, SentFlows
<1>6. QED
  BY <1>3, <1>4, <1>5

LEMMA NextFlows ==
    ASSUME StayPut, IInv, HomeInv, FlowInv, IInv', HomeInv', [Next]_vars
    PROVE  FlowInv'
<1>1. CASE Next
  <2>1. FlowStep
    BY <1>1, CommonFlows, ReaderFlows, PublisherFlows, GameFlows, WorldsFlows, CommandedFlows, SayFlows
    DEF Next
  <2>2. HomeStep
    BY <1>1, CommonHome, ReaderHome, PublisherHome, GameHome, WorldsHome, CommandedHome, SayHome
    DEF Next
  <2>3. AsksThere'
    BY <2>1, <2>2, AsksKept DEF FlowInv
  <2>4. QED
    BY <2>1, <2>3 DEF FlowInv, FlowStep
<1>2. CASE UNCHANGED vars
  <2>1. UNCHANGED ent /\ UNCHANGED outbound /\ UNCHANGED minted /\ Still /\ job' = job
    BY <1>2 DEF vars, edge, held, world, regions, Still
  <2>2. FlowStep
    BY <2>1, SameEnt, SameFlows DEF FlowInv
  <2>3. QED
    BY <2>1, <2>2 DEF FlowInv, FlowStep, AsksThere
<1>3. QED
  BY <1>1, <1>2

LEMMA InitFlows == Init => FlowInv
<1> SUFFICES ASSUME Init PROVE FlowInv
  OBVIOUS
<1>1. \A t \in Thread : job[t].pc = "idle"
  BY DEF Init, Idle
<1>2. \A k \in Key : ~Held(k)
  BY DEF Init, Held
<1>3. QED
  BY <1>1, <1>2 DEF FlowInv, Flows, AsksThere
-----------------------------------------------------------------------------
(* Only clients ask for entities, each under a handle of its own.          *)
ClientsAsk == StayPut /\ "view" \notin Events /\ "spawn" \notin Events

OnlyPresence == RegionsOf(Key, {"added", "removed"})

(* A client that is gone or going; a thread that releases all there was    *)
(* to release, and what it has yet to release or forget.                   *)
Gone(c) == clients[c] = None \/ clients[c].leaving
Sweeping(j) == j.pc = "todo" \/ (j.pc \in {"release", "forget", "unbind"} /\ j.next = "todo")
Targets(j) ==
    {k \in Key : (Sweeping(j) /\ k \in j.todo) \/ (j.pc \in {"release", "forget"} /\ k = j.victim)}

(* What each thread may be in the middle of.                               *)
Streams(c, j) ==
    \/ j.pc = "idle"
    \/ /\ ~Gone(c)
       /\ \/ j.pc = "ask" /\ j.client = c /\ j.handle \in Handle /\ j.next = "rest"
          \/ j.pc = "say"
          \/ j.pc \in {"release", "forget", "unbind"} /\ j.next = "rest"
    \/ /\ Gone(c) /\ j.client = c
       /\ (Sweeping(j) /\ j.after = "finish") \/ j.pc \in {"finish", "fire"}

ReadsOn(j) ==
    \/ j.pc \in {"idle", "greet", "notify"}
    \/ /\ j.pc = "unbind" /\ j.next = "todo" /\ j.of[1] = j.client
       /\ j.after = "notify" /\ j.todo = {}
    \/ j.pc = "todo" /\ j.after = "notify" /\ j.todo = {}
    \/ j.pc = "finish" /\ j.client \in Client
    \/ j.pc = "fire" /\ j.client \in Client /\ Gone(j.client)

Plays(j) ==
    \/ j.pc = "idle"
    \/ j.pc = "release" /\ j.next = "rest" /\ (Held(j.victim) => ent[j.victim].id)

JobsPlain ==
    /\ \A c \in Client : Streams(c, job[c])
    /\ ReadsOn(job["reader"]) /\ Plays(job["game"]) /\ job["publisher"].pc = "idle"

RecordsPlain ==
    \A k \in Key : Held(k) =>
        /\ ent[k].shadowOf = None /\ ent[k].shadows = {}
        /\ ent[k].client \in Client /\ ent[k].handle \in Handle

(* A stream releases only what is its client's, *)
OwnTargets ==
    \A c \in Client : /\ \A k \in Targets(job[c]) : Held(k) => ent[k].client = c
                      /\ job[c].pc = "unbind" => job[c].of[1] = c

(* ... and whatever was given back, or whose client goes, is given back to *)
(* the region, or is about to be.                                          *)
Due(k) == ent[k].doomed \/ k \in Targets(job[ent[k].client])

AllDue ==
    \A k \in Key : /\ Held(k)
                   /\ Gone(ent[k].client) \/ <<ent[k].client, ent[k].handle>> \in given
                   => Due(k)

(* A client that is gone, or about to be, has nothing, *)
HasNothing(c) == \A k \in Key : Held(k) => ent[k].client # c

LeftNothing ==
    /\ \A c \in Client : clients[c] = None => HasNothing(c)
    /\ \A c \in Client : ended[c] > 0 => clients[c] = None
    /\ \A t \in Thread : job[t].pc = "fire" => HasNothing(job[t].client)

(* ... and one that is leaving has something yet, or someone sees it off.  *)
Finishing(c) ==
    \/ job[c].pc # "idle"
    \/ job["reader"].client = c /\ job["reader"].pc \in {"unbind", "todo", "notify", "finish", "fire"}

LeaversFinish ==
    \A c \in Client : clients[c] # None /\ clients[c].leaving => Finishing(c) \/ ~HasNothing(c)

SweepInv == JobsPlain /\ RecordsPlain /\ OwnTargets /\ AllDue /\ LeftNothing /\ LeaversFinish

LEMMA SweepSame ==
    ASSUME SweepInv, UNCHANGED <<ent, clients, given, ended, job>>
    PROVE  SweepInv'
<1>1. \A c \in Client : Gone(c)' = Gone(c) /\ HasNothing(c)' = HasNothing(c)
                        /\ Finishing(c)' = Finishing(c)
  BY DEF Gone, HasNothing, Held, Finishing
<1>2. JobsPlain'
  <2>1. \A c \in Client : Streams(c, job[c])'
    BY <1>1 DEF SweepInv, JobsPlain, Streams, Sweeping, Gone
  <2>2. ReadsOn(job["reader"])'
    BY <1>1 DEF SweepInv, JobsPlain, ReadsOn, Gone
  <2>3. Plays(job["game"])'
    BY DEF SweepInv, JobsPlain, Plays, Held
  <2>4. QED
    BY <2>1, <2>2, <2>3 DEF SweepInv, JobsPlain
<1>3. RecordsPlain' /\ OwnTargets'
  BY DEF SweepInv, RecordsPlain, OwnTargets, Held, Targets, Sweeping
<1>4. AllDue'
  BY DEF SweepInv, AllDue, Held, Due, Targets, Sweeping, Gone
<1>5. LeftNothing' /\ LeaversFinish'
  BY DEF SweepInv, LeftNothing, LeaversFinish, HasNothing, Held, Finishing
<1>6. QED
  BY <1>2, <1>3, <1>4, <1>5 DEF SweepInv

(* A step of thread t by which no entity and no client comes.              *)
Fades(t) ==
    /\ OthersStay(t)
    /\ \A k \in Key : Held(k)' =>
        /\ Held(k)
        /\ ent'[k].client = ent[k].client /\ ent'[k].handle = ent[k].handle
        /\ ent'[k].shadowOf = ent[k].shadowOf /\ ent'[k].shadows = ent[k].shadows
        /\ ent[k].doomed => ent'[k].doomed
        /\ ent[k].id => ent'[k].id
    /\ \A c \in Client :
        /\ clients'[c] = None <=> clients[c] = None
        /\ clients[c] # None => clients'[c].leaving = clients[c].leaving
    /\ UNCHANGED <<given, ended>>

(* What is to be shown of the thread that takes it.                        *)
JobPlain(t) ==
    /\ t \in Client => Streams(t, job[t])
    /\ t = "reader" => ReadsOn(job[t])
    /\ t = "game" => Plays(job[t])
    /\ t = "publisher" => job[t].pc = "idle"

TargetsOwn(t) ==
    t \in Client => /\ \A k \in Targets(job[t]) : Held(k) => ent[k].client = t
                    /\ job[t].pc = "unbind" => job[t].of[1] = t

LEMMA FadesKeep ==
    ASSUME IInv, SweepInv, NEW t \in Thread, Fades(t), JobPlain(t)', TargetsOwn(t)',
           \A k \in Key : k \in Targets(job[t]) /\ k \notin Targets(job'[t]) /\ Held(k)'
                => ent'[k].doomed,
           job'[t].pc = "fire" => HasNothing(job'[t].client),
           \A c \in Client : clients[c] # None /\ clients[c].leaving
                /\ (Finishing(c) \/ ~HasNothing(c)) => Finishing(c)' \/ ~HasNothing(c)'
    PROVE  SweepInv'
<1>1. \A c \in Client : Gone(c)' <=> Gone(c)
  BY DEF Fades, Gone
<1>2. \A u \in Thread \ {t} : job'[u] = job[u]
  BY DEF Fades, OthersStay
<1>3. \A c : HasNothing(c) => HasNothing(c)'
  BY DEF HasNothing, Fades
<1>4. JobsPlain'
  <2>1. ASSUME NEW c \in Client PROVE Streams(c, job[c])'
    <3>1. CASE c = t
      BY <3>1 DEF JobPlain
    <3>2. CASE c # t
      <4>1. job'[c] = job[c]
        BY <1>2, <3>2, ThreadFacts
      <4>2. Streams(c, job[c])
        BY DEF SweepInv, JobsPlain
      <4>3. QED
        BY <1>1, <4>1, <4>2 DEF Streams, Sweeping
    <3>3. QED
      BY <3>1, <3>2
  <2>2. ReadsOn(job["reader"])'
    <3>1. CASE t = "reader"
      BY <3>1 DEF JobPlain
    <3>2. CASE t # "reader"
      <4>1. job'["reader"] = job["reader"]
        BY <1>2, <3>2, ThreadFacts
      <4>2. ReadsOn(job["reader"])
        BY DEF SweepInv, JobsPlain
      <4>3. QED
        BY <1>1, <4>1, <4>2 DEF ReadsOn
    <3>3. QED
      BY <3>1, <3>2
  <2>3. Plays(job["game"])'
    <3>1. CASE t = "game"
      BY <3>1 DEF JobPlain
    <3>2. CASE t # "game"
      <4>1. job'["game"] = job["game"]
        BY <1>2, <3>2, ThreadFacts
      <4>2. Plays(job["game"])
        BY DEF SweepInv, JobsPlain
      <4>3. job["game"].pc = "release" => job["game"].victim \in Key
        BY ThreadFacts DEF IInv, JobsReady, JobReady
      <4>4. QED
        BY <4>1, <4>2, <4>3 DEF Plays, Fades
    <3>3. QED
      BY <3>1, <3>2
  <2>4. job'["publisher"].pc = "idle"
    <3>1. CASE t = "publisher"
      BY <3>1 DEF JobPlain
    <3>2. CASE t # "publisher"
      BY <1>2, <3>2, ThreadFacts DEF SweepInv, JobsPlain
    <3>3. QED
      BY <3>1, <3>2
  <2>5. QED
    BY <2>1, <2>2, <2>3, <2>4 DEF JobsPlain
<1>5. RecordsPlain'
  BY DEF SweepInv, RecordsPlain, Fades
<1>6. OwnTargets'
  <2> SUFFICES ASSUME NEW c \in Client
               PROVE  /\ \A k \in Targets(job'[c]) : Held(k)' => ent'[k].client = c
                      /\ job'[c].pc = "unbind" => job'[c].of[1] = c
    BY DEF OwnTargets, Targets, Sweeping
  <2>1. CASE c = t
    BY <2>1 DEF TargetsOwn, Targets, Sweeping
  <2>2. CASE c # t
    <3>1. job'[c] = job[c] /\ Targets(job[c]) \subseteq Key
      BY <1>2, <2>2, ThreadFacts DEF Targets
    <3>2. QED
      BY <3>1 DEF SweepInv, OwnTargets, Fades
  <2>3. QED
    BY <2>1, <2>2
<1>7. AllDue'
  <2> SUFFICES ASSUME NEW k \in Key, Held(k)',
                      Gone(ent[k].client)' \/ (<<ent[k].client, ent[k].handle>> \in given)'
               PROVE  Due(k)'
    BY DEF AllDue
  <2>0. PICK c : c = ent[k].client
    OBVIOUS
  <2>1. Held(k) /\ ent'[k].client = c /\ c \in Client /\ c \in Thread
        /\ ent'[k].handle = ent[k].handle
    BY <2>0, ThreadFacts DEF Fades, SweepInv, RecordsPlain
  <2>2. Gone(c) \/ <<c, ent[k].handle>> \in given
    <3>1. Gone(ent[k].client)' => Gone(c)'
      BY <2>1 DEF Gone
    <3>2. QED
      BY <1>1, <2>1, <3>1 DEF Fades
  <2>3. ent[k].doomed \/ k \in Targets(job[c])
    BY <2>0, <2>1, <2>2 DEF SweepInv, AllDue, Due
  <2>4. ent'[k].doomed \/ k \in Targets(job'[c])
    <3>1. CASE c = t
      BY <2>1, <2>3, <3>1 DEF Fades
    <3>2. CASE c # t
      BY <1>2, <2>1, <2>3, <3>2 DEF Fades
    <3>3. QED
      BY <3>1, <3>2
  <2>5. QED
    BY <2>1, <2>4 DEF Due, Targets, Sweeping
<1>8. LeftNothing'
  <2>1. \A c \in Client : clients'[c] = None => HasNothing(c)'
    BY <1>3 DEF SweepInv, LeftNothing, Fades
  <2>2. \A c \in Client : ended'[c] > 0 => clients'[c] = None
    BY DEF SweepInv, LeftNothing, Fades
  <2>3. ASSUME NEW u \in Thread, job'[u].pc = "fire" PROVE HasNothing(job[u].client)'
    <3>0. PICK c : c = job'[u].client
      OBVIOUS
    <3>1. HasNothing(c)
      BY <1>2, <2>3, <3>0 DEF SweepInv, LeftNothing
    <3>2. HasNothing(c)'
      BY <1>3, <3>1
    <3>3. QED
      BY <3>0, <3>2 DEF HasNothing
  <2>4. QED
    BY <2>1, <2>2, <2>3 DEF LeftNothing
<1>9. LeaversFinish'
  <2> SUFFICES ASSUME NEW c \in Client, clients'[c] # None, clients'[c].leaving
               PROVE  Finishing(c)' \/ ~HasNothing(c)'
    BY DEF LeaversFinish
  <2>1. clients[c] # None /\ clients[c].leaving
    BY DEF Fades
  <2>2. Finishing(c) \/ ~HasNothing(c)
    BY <2>1 DEF SweepInv, LeaversFinish
  <2>3. QED
    BY <2>1, <2>2
<1>10. QED
  BY <1>4, <1>5, <1>6, <1>7, <1>8, <1>9 DEF SweepInv
-----------------------------------------------------------------------------
(* Who may take which step.                                                *)
LEMMA Threads ==
    ASSUME IInv, SweepInv, NEW t \in Thread
    PROVE  /\ job[t] \in JobType
           /\ \/ t \in Client /\ Streams(t, job[t])
              \/ t = "reader" /\ ReadsOn(job[t])
              \/ t = "game" /\ Plays(job[t])
              \/ t = "publisher" /\ job[t].pc = "idle"
           /\ job[t].pc \in {"release", "forget", "unbind"} => job[t].victim \in Key
<1>1. t \in Client \/ t = "reader" \/ t = "game" \/ t = "publisher"
  BY DEF Thread
<1>2. QED
  BY <1>1 DEF SweepInv, JobsPlain, IInv, TypeOK, JobsReady, JobReady

LEMMA Apart ==
    ASSUME NEW t
    PROVE  /\ t \in Client => t # "reader" /\ t # "game" /\ t # "publisher"
           /\ t = "reader" => t \notin Client /\ t # "game" /\ t # "publisher"
           /\ t = "game" => t \notin Client /\ t # "reader" /\ t # "publisher"
  BY ThreadFacts

(* Nothing is dropped, and the thread goes on seeing a leaver off if it    *)
(* did.                                                                    *)
Tails == {"unbind", "todo", "notify", "finish", "fire"}

LEMMA LeaversKept ==
    ASSUME NEW t \in Thread, Fades(t), \A k \in Key : Held(k) => Held(k)',
           t \in Client /\ job'[t].pc = "idle" => ~Gone(t) \/ job[t].pc = "idle",
           t = "reader" /\ job[t].pc \in Tails =>
                job'[t].pc \in Tails /\ job'[t].client = job[t].client
    PROVE  \A c \in Client : clients[c] # None /\ clients[c].leaving
                /\ (Finishing(c) \/ ~HasNothing(c)) => Finishing(c)' \/ ~HasNothing(c)'
<1> TAKE c \in Client
<1>1. HAVE clients[c] # None /\ clients[c].leaving /\ (Finishing(c) \/ ~HasNothing(c))
<1>2. CASE ~HasNothing(c)
  BY <1>2 DEF HasNothing, Fades
<1>3. CASE job[c].pc # "idle"
  <2>1. CASE c = t
    BY <1>1, <1>3, <2>1 DEF Gone, Finishing
  <2>2. CASE c # t
    BY <1>3, <2>2, ThreadFacts DEF Finishing, Fades, OthersStay
  <2>3. QED
    BY <2>1, <2>2
<1>4. CASE job["reader"].client = c /\ job["reader"].pc \in Tails
  <2>1. CASE t = "reader"
    BY <1>4, <2>1 DEF Finishing, Tails
  <2>2. CASE t # "reader"
    BY <1>4, <2>2, ThreadFacts DEF Finishing, Fades, OthersStay, Tails
  <2>3. QED
    BY <2>1, <2>2
<1>5. QED
  BY <1>1, <1>2, <1>3, <1>4 DEF Finishing, Tails

LEMMA GoneSame ==
    ASSUME NEW t, Fades(t)
    PROVE  \A c \in Client : Gone(c)' <=> Gone(c)
  BY DEF Gone, Fades

(* A step that drops nothing: what the thread no longer has to release     *)
(* was released.                                                           *)
LEMMA TurnKeeps ==
    ASSUME IInv, SweepInv, NEW t \in Thread, Fades(t), \A k \in Key : Held(k) => Held(k)',
           NEW j, NEW w, j = job[t], w = job'[t], JobPlain(t)',
           \A k \in Key : k \in Targets(w) => k \in Targets(j),
           \A k \in Key : k \in Targets(j) /\ k \notin Targets(w) /\ Held(k)' => ent'[k].doomed,
           w.pc = "unbind" => j.pc = "unbind" /\ w.of = j.of,
           w.pc = "fire" => HasNothing(w.client),
           t \in Client /\ w.pc = "idle" => ~Gone(t) \/ j.pc = "idle",
           t = "reader" /\ j.pc \in Tails => w.pc \in Tails /\ w.client = j.client
    PROVE  SweepInv'
<1>1. TargetsOwn(t)'
  <2> SUFFICES ASSUME t \in Client
               PROVE  /\ \A k \in Targets(w) : Held(k)' => ent'[k].client = t
                      /\ w.pc = "unbind" => w.of[1] = t
    BY DEF TargetsOwn, Targets, Sweeping
  <2>1. \A k \in Targets(j) : k \in Key /\ (Held(k) => ent[k].client = t)
    BY DEF SweepInv, OwnTargets, Targets
  <2>2. j.pc = "unbind" => j.of[1] = t
    BY DEF SweepInv, OwnTargets
  <2>3. \A k \in Targets(w) : k \in Targets(j)
    BY DEF Targets
  <2>4. QED
    BY <2>1, <2>2, <2>3 DEF Fades
<1>2. \A c \in Client : clients[c] # None /\ clients[c].leaving
                /\ (Finishing(c) \/ ~HasNothing(c)) => Finishing(c)' \/ ~HasNothing(c)'
  BY LeaversKept
<1>3. QED
  BY <1>1, <1>2, FadesKeep

LEMMA ReturnKeeps ==
    ASSUME IInv, SweepInv, NEW t \in Thread, Fades(t), \A k \in Key : Held(k) => Held(k)',
           job[t].pc \in {"ask", "release", "forget", "unbind"}, Return(t),
           \A k \in Key : k = job[t].victim /\ Held(k)' /\ job[t].pc \in {"release", "forget"}
                => ent'[k].doomed
    PROVE  SweepInv'
<1>0. PICK j, w : j = job[t] /\ w = job'[t]
  OBVIOUS
<1>1. /\ j \in JobType
      /\ \/ t \in Client /\ Streams(t, j)
         \/ t = "reader" /\ ReadsOn(j)
         \/ t = "game" /\ Plays(j)
         \/ t = "publisher" /\ j.pc = "idle"
  BY <1>0, Threads
<1>2. \A k \in Key : k = j.victim /\ Held(k)' /\ j.pc \in {"release", "forget"} => ent'[k].doomed
  BY <1>0
<1>3. CASE j.next = "rest"
  <2>1. w = Idle /\ w.pc = "idle"
    BY <1>0, <1>3 DEF Return, GoOn, Rest, IInv, TypeOK, Idle
  <2>2. (t \in Client /\ ~Gone(t)) \/ t = "game"
    BY <1>0, <1>1, <1>3 DEF Streams, ReadsOn, Sweeping
  <2>3. JobPlain(t)'
    BY <1>0, <2>1, <2>2, Apart DEF JobPlain, Streams, Plays
  <2>4. \A k \in Key : k \notin Targets(w)
    BY <2>1 DEF Targets, Sweeping
  <2>5. \A k \in Targets(j) : k = j.victim /\ j.pc \in {"release", "forget"}
    BY <1>0, <1>3 DEF Targets, Sweeping
  <2>6. QED
    BY <1>0, <1>2, <2>1, <2>2, <2>3, <2>4, <2>5, Apart, TurnKeeps
<1>4. CASE j.next = "todo"
  <2>1. w = With(j, [pc |-> "todo"])
    BY <1>0, <1>4, Turned DEF Return, GoOn
  <2>2. /\ w.pc = "todo" /\ w.next = "todo" /\ w.after = j.after /\ w.todo = j.todo
        /\ w.client = j.client /\ w.of = j.of
    BY <1>1, <1>4, <2>1 DEF With, JobType
  <2>3. /\ j.pc \in {"release", "forget", "unbind"}
        /\ \/ t \in Client /\ Gone(t) /\ j.client = t /\ j.after = "finish"
           \/ t = "reader" /\ j.pc = "unbind" /\ j.after = "notify" /\ j.todo = {}
    BY <1>0, <1>1, <1>4 DEF Streams, ReadsOn, Plays, Sweeping
  <2>4. JobPlain(t)'
    BY <1>0, <2>2, <2>3, GoneSame, Apart DEF JobPlain, Streams, ReadsOn, Sweeping
  <2>5. \A k \in Key : k \in Targets(w) => k \in Targets(j)
    BY <1>4, <2>2, <2>3 DEF Targets, Sweeping
  <2>6. \A k \in Key : k \in Targets(j) /\ k \notin Targets(w) =>
                k = j.victim /\ j.pc \in {"release", "forget"}
    BY <2>2 DEF Targets, Sweeping
  <2>7. QED
    BY <1>0, <1>2, <2>2, <2>3, <2>4, <2>5, <2>6, Apart, TurnKeeps DEF Tails
<1>5. QED
  BY <1>0, <1>1, <1>3, <1>4 DEF Streams, ReadsOn, Plays, Sweeping

(* What neither drops a record nor touches one.                            *)
LEMMA FadesQuietly ==
    ASSUME NEW t, OthersStay(t), UNCHANGED ent, UNCHANGED given, UNCHANGED ended,
           \A c \in Client : /\ clients'[c] = None <=> clients[c] = None
                             /\ clients[c] # None => clients'[c].leaving = clients[c].leaving
    PROVE  Fades(t) /\ \A k \in Key : Held(k)' <=> Held(k)
  BY DEF Fades, Held

(* What a client refers to is changed, not whether it is there.            *)
LEMMA RefersOnly ==
    ASSUME IInv, NEW d \in Client, clients[d] # None,
           NEW K \in SUBSET Key, NEW H \in [Handle -> Key \cup {None}],
           clients' = [clients EXCEPT ![d].keys = K, ![d].handles = H]
    PROVE  \A c \in Client : /\ clients'[c] = None <=> clients[c] = None
                             /\ clients[c] # None => clients'[c].leaving = clients[c].leaving
<1> DEFINE e == [clients[d] EXCEPT !.keys = K, !.handles = H]
<1>1. clients[d] \in ClientType
  BY DEF IInv, TypeOK
<1>2. e \in ClientType /\ e.leaving = clients[d].leaving
  BY <1>1 DEF ClientType
<1>3. clients' = [clients EXCEPT ![d] = e]
  BY <1>1 DEF IInv, TypeOK, ClientType
<1> HIDE DEF e
<1>4. \A c \in Client : clients'[c] = IF c = d THEN e ELSE clients[c]
  BY <1>3 DEF IInv, TypeOK
<1>5. QED
  BY <1>2, <1>4, NoneFacts

LEMMA AskSweeps ==
    ASSUME IInv, HomeInv, SweepInv, NEW t \in Thread, Ask(t)
    PROVE  SweepInv'
<1>1. OthersStay(t)
  BY Zenon DEF OthersStay, Ask, Return, GoOn, Rest, Then, IInv, TypeOK
<1>2. UNCHANGED ent /\ UNCHANGED given /\ UNCHANGED ended
  BY DEF Ask, held, world, aside, calls
<1>3. \A c \in Client : /\ clients'[c] = None <=> clients[c] = None
                        /\ clients[c] # None => clients'[c].leaving = clients[c].leaving
  <2>1. PICK k, d, h : k = job[t].other /\ d = job[t].client /\ h = job[t].handle
    OBVIOUS
  <2>2. clients' = IF d = None \/ clients[d] = None THEN clients
                   ELSE [clients EXCEPT ![d].keys = @ \cup {k},
                                        ![d].handles = IF h = None THEN @ ELSE [@ EXCEPT ![h] = k]]
    BY Zenon, <2>1 DEF Ask
  <2>3. k \in Key /\ d \in Client \cup {None} /\ h \in Handle \cup {None}
    BY <2>1, AtHome DEF Ask, At, JobReady, JobType
  <2>4. CASE d = None \/ clients[d] = None
    BY <2>2, <2>4
  <2>5. CASE ~(d = None \/ clients[d] = None)
    <3> DEFINE K == clients[d].keys \cup {k}
               H == IF h = None THEN clients[d].handles ELSE [clients[d].handles EXCEPT ![h] = k]
    <3>1. d \in Client /\ clients[d] \in ClientType
      BY <2>3, <2>5 DEF IInv, TypeOK
    <3>2. clients' = [clients EXCEPT ![d].keys = K, ![d].handles = H]
      BY <2>2, <2>5, <3>1 DEF IInv, TypeOK, ClientType
    <3>3. K \in SUBSET Key /\ H \in [Handle -> Key \cup {None}]
      BY <2>3, <3>1 DEF ClientType
    <3> HIDE DEF K, H
    <3>4. QED
      BY <2>5, <3>1, <3>2, <3>3, RefersOnly
  <2>6. QED
    BY <2>4, <2>5
<1>4. Return(t) /\ job[t].pc = "ask"
  BY DEF Ask, At
<1>5. QED
  BY <1>1, <1>2, <1>3, <1>4, FadesQuietly, ReturnKeeps

LEMMA UnbindSweeps ==
    ASSUME IInv, HomeInv, SweepInv, NEW t \in Thread, Unbind(t)
    PROVE  SweepInv'
<1>1. OthersStay(t)
  BY DEF OthersStay, Unbind, Return, GoOn, Rest, Then, IInv, TypeOK
<1>2. UNCHANGED ent /\ UNCHANGED given /\ UNCHANGED ended
  BY DEF Unbind, OnlyClients, held, world, aside, calls
<1>3. \A c \in Client : /\ clients'[c] = None <=> clients[c] = None
                        /\ clients[c] # None => clients'[c].leaving = clients[c].leaving
  <2>1. PICK k, d, h : k = job[t].victim /\ d = job[t].of[1] /\ h = job[t].of[2]
    OBVIOUS
  <2>2. clients' = Unbound(d, k, h)
    BY <2>1 DEF Unbind
  <2>3. d \in Client \cup {None} /\ h \in Handle \cup {None}
    <3>1. job[t].of \in (Client \cup {None}) \X (Handle \cup {None})
      BY AtHome DEF JobType
    <3>2. QED
      BY <2>1, <3>1
  <2>4. CASE d = None \/ clients[d] = None
    BY <2>2, <2>4 DEF Unbound
  <2>5. CASE ~(d = None \/ clients[d] = None)
    <3> DEFINE K == clients[d].keys \ {k}
               H == IF h = None THEN clients[d].handles ELSE [clients[d].handles EXCEPT ![h] = None]
    <3>1. d \in Client /\ clients[d] \in ClientType
      BY <2>3, <2>5 DEF IInv, TypeOK
    <3>2. clients' = [clients EXCEPT ![d].keys = K, ![d].handles = H]
      BY <2>2, <2>5, <3>1 DEF Unbound, IInv, TypeOK, ClientType
    <3>3. K \in SUBSET Key /\ H \in [Handle -> Key \cup {None}]
      BY <2>3, <3>1 DEF ClientType
    <3> HIDE DEF K, H
    <3>4. QED
      BY <2>5, <3>1, <3>2, <3>3, RefersOnly
  <2>6. QED
    BY <2>4, <2>5
<1>4. Return(t) /\ job[t].pc = "unbind"
  BY DEF Unbind, At
<1>5. QED
  BY <1>1, <1>2, <1>3, <1>4, FadesQuietly, ReturnKeeps
-----------------------------------------------------------------------------
LEMMA FadesEdit ==
    ASSUME IInv, NEW t, OthersStay(t), NEW k \in Key, Held(k), NEW e \in EntityType,
           ent' = [ent EXCEPT ![k] = e],
           e.client = ent[k].client, e.handle = ent[k].handle,
           e.shadowOf = ent[k].shadowOf, e.shadows = ent[k].shadows,
           ent[k].doomed => e.doomed, ent[k].id => e.id,
           UNCHANGED clients, UNCHANGED given, UNCHANGED ended
    PROVE  Fades(t) /\ \A x \in Key : Held(x)' <=> Held(x)
<1>1. \A x \in Key : ent'[x] = IF x = k THEN e ELSE ent[x]
  BY DEF IInv, TypeOK
<1>2. \A x \in Key : Held(x)' <=> Held(x)
  BY <1>1, NoneFacts DEF Held
<1>3. QED
  BY <1>1, <1>2 DEF Fades

LEMMA FadesDrop ==
    ASSUME IInv, NEW t, OthersStay(t), NEW k \in Key, ent' = [ent EXCEPT ![k] = None],
           UNCHANGED clients, UNCHANGED given, UNCHANGED ended
    PROVE  Fades(t) /\ ~Held(k)' /\ \A x \in Key \ {k} : ent'[x] = ent[x] /\ (Held(x)' <=> Held(x))
<1>1. \A x \in Key : ent'[x] = IF x = k THEN None ELSE ent[x]
  BY DEF IInv, TypeOK
<1>2. ~Held(k)' /\ \A x \in Key \ {k} : ent'[x] = ent[x] /\ (Held(x)' <=> Held(x))
  BY <1>1 DEF Held
<1>3. QED
  BY <1>1, <1>2 DEF Fades, Held

LEMMA UnansweredSweeps ==
    ASSUME IInv, HomeInv, SweepInv, NEW t \in Thread, ReleaseUnanswered(t)
    PROVE  SweepInv'
<1>0. PICK j, w : j = job[t] /\ w = job'[t]
  OBVIOUS
<1>1. /\ j \in JobType /\ j.pc = "release"
      /\ t \in Client /\ Streams(t, j)
  BY <1>0, Threads DEF ReleaseUnanswered, At, ReadsOn, Plays
<1>2. w = With(j, [pc |-> "forget"]) /\ OthersStay(t)
  BY <1>0, Turned DEF ReleaseUnanswered
<1>3. /\ w.pc = "forget" /\ w.next = j.next /\ w.after = j.after /\ w.todo = j.todo
      /\ w.client = j.client /\ w.victim = j.victim
  BY <1>1, <1>2 DEF With, JobType
<1>4. Fades(t) /\ \A k \in Key : Held(k)' <=> Held(k)
  BY <1>2, FadesQuietly DEF ReleaseUnanswered, OnlyJob, edge, held, world, aside, calls
<1>5. JobPlain(t)'
  BY <1>0, <1>1, <1>3, <1>4, GoneSame, Apart DEF JobPlain, Streams, Sweeping
<1>6. \A k \in Key : k \in Targets(w) <=> k \in Targets(j)
  BY <1>1, <1>3 DEF Targets, Sweeping
<1>7. QED
  BY <1>0, <1>1, <1>3, <1>4, <1>5, <1>6, Apart, TurnKeeps

LEMMA ReleaseSweeps ==
    ASSUME IInv, HomeInv, SweepInv, NEW t \in Thread, Release(t)
    PROVE  SweepInv'
<1>0. PICK k : k = job[t].victim
  OBVIOUS
<1>1. k \in Key /\ job[t].pc = "release" /\ Return(t)
  BY <1>0, Threads DEF Release, At
<1>2. OthersStay(t) /\ UNCHANGED clients /\ UNCHANGED given /\ UNCHANGED ended
  BY DEF OthersStay, Release, Return, GoOn, Rest, Then, IInv, TypeOK, world, aside, calls
<1>3. CASE ~Held(k)
  <2>1. UNCHANGED ent
    BY <1>0, <1>3 DEF Release
  <2>2. Fades(t) /\ \A x \in Key : Held(x)' <=> Held(x)
    BY <1>2, <2>1, FadesQuietly
  <2>3. QED
    BY <1>0, <1>1, <1>3, <2>2, ReturnKeeps
<1>4. CASE Held(k)
  <2> DEFINE e == [ent[k] EXCEPT !.doomed = TRUE]
  <2>1. ent' = [ent EXCEPT ![k] = e]
    BY <1>0, <1>4 DEF Release, Doom
  <2>2. ent[k] \in EntityType /\ ent \in [Key -> EntityType \cup {None}]
    BY <1>1, <1>4, OfHeld
  <2>3. /\ e \in EntityType /\ e.client = ent[k].client /\ e.handle = ent[k].handle
        /\ e.shadowOf = ent[k].shadowOf /\ e.shadows = ent[k].shadows
        /\ e.doomed /\ e.id = ent[k].id
    BY <2>2 DEF EntityType
  <2> HIDE DEF e
  <2>4. Fades(t) /\ \A x \in Key : Held(x)' <=> Held(x)
    BY <1>1, <1>2, <1>4, <2>1, <2>3, FadesEdit
  <2>5. ent'[k].doomed
    BY <1>1, <2>1, <2>2, <2>3
  <2>6. QED
    BY <1>0, <1>1, <2>4, <2>5, ReturnKeeps
<1>5. QED
  BY <1>3, <1>4

(* What is forgotten is unbound next, by the thread that forgot it.        *)
LEMMA ForgetSweeps ==
    ASSUME IInv, HomeInv, SweepInv, NEW t \in Thread, Forget(t)
    PROVE  SweepInv'
<1>0. PICK k, j, w : k = job[t].victim /\ j = job[t] /\ w = job'[t]
  OBVIOUS
<1>1. /\ k \in Key /\ k = j.victim /\ j \in JobType /\ j.pc = "forget"
      /\ t \in Client /\ Streams(t, j)
  BY <1>0, Threads DEF Forget, At, ReadsOn, Plays
<1>2. /\ ent' = [ent EXCEPT ![k] = None]
      /\ UNCHANGED clients /\ UNCHANGED given /\ UNCHANGED ended
  BY <1>0 DEF Forget, Drop, OnlyHeld, world, aside, calls
<1>3. CASE ~Held(k)
  <2>1. OthersStay(t) /\ Return(t)
    BY <1>0, <1>3 DEF OthersStay, Forget, Return, GoOn, Rest, Then, IInv, TypeOK
  <2>2. Fades(t) /\ ~Held(k)' /\ \A x \in Key \ {k} : Held(x)' <=> Held(x)
    BY <1>1, <1>2, <2>1, FadesDrop
  <2>3. QED
    BY <1>0, <1>1, <1>3, <2>1, <2>2, ReturnKeeps
<1>4. CASE Held(k)
  <2>0. PICK c, h : c = ent[k].client /\ h = ent[k].handle
    OBVIOUS
  <2> DEFINE new == [pc |-> "unbind", of |-> <<c, h>>]
  <2>1. w = With(j, new) /\ OthersStay(t)
    BY <1>0, <1>4, <2>0, Turned DEF Forget
  <2>2. /\ w.pc = "unbind" /\ w.of = <<c, h>> /\ w.next = j.next /\ w.after = j.after
        /\ w.todo = j.todo /\ w.client = j.client /\ w.victim = j.victim
    BY <1>1, <2>1 DEF With, JobType
  <2>3. Fades(t) /\ ~Held(k)' /\ \A x \in Key \ {k} : Held(x)' <=> Held(x)
    BY <1>1, <1>2, <2>1, FadesDrop
  <2>4. JobPlain(t)'
    BY <1>0, <1>1, <2>2, <2>3, GoneSame, Apart DEF JobPlain, Streams, Sweeping
  <2>5. k \in Targets(j) /\ \A x \in Key : x # k => (x \in Targets(w) <=> x \in Targets(j))
    BY <1>1, <2>2 DEF Targets, Sweeping
  <2>6. /\ \A x \in Targets(j) : x \in Key /\ (Held(x) => ent[x].client = t)
        /\ c = t
    BY <1>0, <1>1, <1>4, <2>0, <2>5 DEF SweepInv, OwnTargets, Targets
  <2>7. TargetsOwn(t)'
    <3> SUFFICES /\ \A x \in Targets(w) : Held(x)' => ent'[x].client = t
                 /\ w.pc = "unbind" => w.of[1] = t
      BY <1>0 DEF TargetsOwn, Targets, Sweeping
    <3>1. \A x \in Targets(w) : x \in Key
      BY DEF Targets
    <3>2. QED
      BY <2>2, <2>3, <2>5, <2>6, <3>1 DEF Fades
  <2>8. ASSUME NEW d \in Client, clients[d] # None, clients[d].leaving,
               Finishing(d) \/ ~HasNothing(d)
        PROVE  Finishing(d)' \/ ~HasNothing(d)'
    <3>1. CASE d = t
      BY <1>0, <2>2, <3>1 DEF Finishing
    <3>2. CASE d # t
      <4>1. CASE Finishing(d)
        BY <1>1, <2>1, <3>2, <4>1, Apart, ThreadFacts DEF Finishing, OthersStay
      <4>2. CASE ~HasNothing(d)
        <5>1. PICK x \in Key : Held(x) /\ ent[x].client = d
          BY <4>2 DEF HasNothing
        <5>2. x # k
          BY <2>0, <2>6, <3>2, <5>1
        <5>3. Held(x)' /\ ent'[x].client = d
          BY <2>3, <5>1, <5>2 DEF Fades
        <5>4. QED
          BY <5>3 DEF HasNothing
      <4>3. QED
        BY <2>8, <4>1, <4>2
    <3>3. QED
      BY <3>1, <3>2
  <2>9. \A x \in Key : x \in Targets(job[t]) /\ x \notin Targets(job'[t]) /\ Held(x)' => ent'[x].doomed
    BY <1>0, <2>3, <2>5
  <2>10. job'[t].pc # "fire"
    BY <1>0, <2>2
  <2>11. QED
    BY <2>3, <2>4, <2>7, <2>8, <2>9, <2>10, FadesKeep
<1>5. QED
  BY <1>3, <1>4

LEMMA SaySweeps ==
    ASSUME IInv, HomeInv, SweepInv, NEW c \in Client, Say(c)
    PROVE  SweepInv'
<1>0. PICK k, w, i : k = job[c].key /\ w = job[c].word /\ i = job'[c]
  OBVIOUS
<1>1. w \in Word /\ k \in Key \cup {None} /\ MaxWords \in Nat /\ c \in Thread
  BY <1>0, AtHome, ThreadFacts, EdgeServerAssumption DEF Say, At, JobReady, JobType
<1>2. /\ OthersStay(c) /\ i = Idle /\ job[c].pc = "say"
      /\ UNCHANGED clients /\ UNCHANGED given /\ UNCHANGED ended
  BY <1>0, <1>1 DEF Say, At, Rest, OthersStay, IInv, TypeOK, calls
<1>3. Fades(c) /\ \A x \in Key : Held(x)' <=> Held(x)
  <2>1. CASE ~Held(k)
    BY <1>0, <1>2, <2>1, FadesQuietly DEF Say
  <2>2. CASE Held(k) /\ ent[k].to # None
    <3> DEFINE e == [ent[k] EXCEPT !.held = Append(@, w)]
    <3>1. k \in Key /\ ent' = [ent EXCEPT ![k] = e]
      BY <1>0, <1>1, <2>2 DEF Say, Held
    <3>2. ent[k] \in EntityType /\ Append(ent[k].held, w) \in Seq(Word)
      BY <1>1, <2>2, <3>1, OfHeld DEF EntityType
    <3>3. /\ e \in EntityType /\ e.client = ent[k].client /\ e.handle = ent[k].handle
          /\ e.shadowOf = ent[k].shadowOf /\ e.shadows = ent[k].shadows
          /\ e.doomed = ent[k].doomed /\ e.id = ent[k].id
      BY <3>2 DEF EntityType
    <3> HIDE DEF e
    <3>4. QED
      BY <1>2, <2>2, <3>1, <3>3, FadesEdit
  <2>3. CASE Held(k) /\ ent[k].to = None
    <3> DEFINE e == [ent[k] EXCEPT !.standing = w]
    <3>1. k \in Key /\ ent' = [ent EXCEPT ![k] = e]
      BY <1>0, <1>1, <2>3 DEF Say, Held
    <3>2. ent[k] \in EntityType /\ w \in 0 .. MaxWords
      BY <1>1, <2>3, <3>1, OfHeld DEF Word
    <3>3. /\ e \in EntityType /\ e.client = ent[k].client /\ e.handle = ent[k].handle
          /\ e.shadowOf = ent[k].shadowOf /\ e.shadows = ent[k].shadows
          /\ e.doomed = ent[k].doomed /\ e.id = ent[k].id
      BY <3>2 DEF EntityType
    <3> HIDE DEF e
    <3>4. QED
      BY <1>2, <2>3, <3>1, <3>3, FadesEdit
  <2>4. QED
    BY <2>1, <2>2, <2>3
<1>4. ~Gone(c)
  BY <1>1, <1>2, Threads, Apart DEF Streams, Sweeping
<1>5. i.pc = "idle"
  BY <1>2 DEF Idle
<1>6. JobPlain(c)'
  BY <1>0, <1>5, Apart DEF JobPlain, Streams
<1>7. \A x \in Key : x \notin Targets(i) /\ x \notin Targets(job[c])
  BY <1>2, <1>5 DEF Targets, Sweeping
<1>8. QED
  BY <1>0, <1>1, <1>3, <1>4, <1>5, <1>6, <1>7, Apart, TurnKeeps
-----------------------------------------------------------------------------
LEMMA NextSweeps ==
    ASSUME IInv, HomeInv, SweepInv, NEW t \in Thread, ReleaseNext(t)
    PROVE  SweepInv'
<1>0. PICK j, w : j = job[t] /\ w = job'[t]
  OBVIOUS
<1>1. /\ j \in JobType /\ j.pc = "todo"
      /\ \/ t \in Client /\ Gone(t) /\ j.client = t /\ j.after = "finish"
         \/ t = "reader" /\ j.after = "notify" /\ j.todo = {}
  BY <1>0, Threads DEF ReleaseNext, At, Streams, ReadsOn, Plays, Sweeping
<1>2. UNCHANGED clients /\ UNCHANGED ent /\ UNCHANGED given /\ UNCHANGED ended
  BY DEF ReleaseNext, OnlyJob, edge, held, world, aside, calls
<1>3. CASE j.todo = {}
  <2>1. w = With(j, [pc |-> j.after]) /\ OthersStay(t)
    <3>1. Then(t, [pc |-> j.after])
      BY <1>0, <1>1, <1>3 DEF ReleaseNext, GoOn
    <3>2. QED
      BY <1>0, <3>1, Turned
  <2>2. w.pc = j.after /\ w.client = j.client
    BY <1>1, <2>1 DEF With, JobType
  <2>3. Fades(t) /\ \A k \in Key : Held(k)' <=> Held(k)
    BY <1>2, <2>1, FadesQuietly
  <2>4. JobPlain(t)'
    BY <1>0, <1>1, <2>2, <2>3, GoneSame, Apart DEF JobPlain, Streams, ReadsOn
  <2>5. \A k \in Key : k \notin Targets(w) /\ k \notin Targets(j)
    BY <1>1, <1>3, <2>2 DEF Targets, Sweeping
  <2>6. QED
    BY <1>0, <1>1, <2>2, <2>3, <2>4, <2>5, Apart, TurnKeeps DEF Tails
<1>4. CASE j.todo # {}
  <2>1. PICK k \in j.todo :
            Then(t, [pc |-> "release", victim |-> k, todo |-> j.todo \ {k}, next |-> "todo"])
    BY <1>0, <1>4 DEF ReleaseNext
  <2> DEFINE new == [pc |-> "release", victim |-> k, todo |-> j.todo \ {k}, next |-> "todo"]
  <2>2. w = With(j, new) /\ OthersStay(t)
    BY <1>0, <2>1, Turned
  <2>3. /\ w.pc = "release" /\ w.victim = k /\ w.todo = j.todo \ {k} /\ w.next = "todo"
        /\ w.client = j.client /\ w.after = j.after
    BY <1>1, <2>2 DEF With, JobType
  <2>4. Fades(t) /\ \A x \in Key : Held(x)' <=> Held(x)
    BY <1>2, <2>2, FadesQuietly
  <2>5. JobPlain(t)'
    BY <1>0, <1>1, <1>4, <2>3, <2>4, GoneSame, Apart DEF JobPlain, Streams, Sweeping
  <2>6. \A x \in Key : x \in Targets(w) <=> x \in Targets(j)
    BY <1>1, <2>3 DEF Targets, Sweeping
  <2>7. QED
    BY <1>0, <1>1, <1>4, <2>3, <2>4, <2>5, <2>6, Apart, TurnKeeps DEF Tails
<1>5. QED
  BY <1>3, <1>4

(* A client that lets go of all its keys has nothing: what it asked for    *)
(* was bound before it left.                                               *)
LEMMA LeftHasNothing ==
    ASSUME IInv, HomeInv, SweepInv, NEW c \in Client, Left(c)
    PROVE  HasNothing(c)
<1> SUFFICES ASSUME NEW k \in Key, Held(k), ent[k].client = c PROVE FALSE
  BY DEF HasNothing
<1>1. clients[c] # None /\ clients[c].keys = {} /\ Gone(c)
  BY DEF Left, Gone
<1>2. k < minted /\ ent[k].handle \in Handle
  BY DEF IInv, TypeOK, SweepInv, RecordsPlain
<1>3. k \notin Known
  <2>1. Owed(k, c, ent[k].handle)
    BY DEF Owed, Owned
  <2>2. Bound
    BY DEF HomeInv, OwnersAgree
  <2>3. QED
    BY <1>1, <1>2, <2>1, <2>2 DEF Bound
<1>4. PICK u \in Thread : Asked(u, k)
  BY <1>2, <1>3 DEF Known
<1>5. u \in Client /\ ~Gone(u) /\ job[u].client = u
  BY <1>4, Threads DEF Asked, Streams, ReadsOn, Plays, Sweeping
<1>6. ent[k].client = u
  BY <1>4, <1>5 DEF Asked, HomeInv, OwnersAgree, AsksAlone, Owned
<1>7. QED
  BY <1>1, <1>5, <1>6

(* ... and one that does not has something, or someone sees it off.        *)
LEMMA NotLeft ==
    ASSUME IInv, HomeInv, SweepInv, NEW c \in Client, clients[c] # None, clients[c].leaving, ~Left(c)
    PROVE  \/ ~HasNothing(c)
           \/ job[c].pc = "unbind"
           \/ job["reader"].pc = "unbind" /\ job["reader"].client = c
<1>1. PICK k \in Key : k \in clients[c].keys
  BY DEF Left, IInv, TypeOK, ClientType
<1>2. PICK h \in Handle \cup {None} : Owed(k, c, h)
  BY <1>1 DEF HomeInv, OwnersAgree, Bound
<1>3. CASE Owned(k, c, h)
  BY <1>3 DEF Owned, HasNothing
<1>4. ASSUME NEW u \in Thread, Unbinding(u, k, c, h)
      PROVE  job[c].pc = "unbind" \/ (job["reader"].pc = "unbind" /\ job["reader"].client = c)
  <2>1. job[u].pc = "unbind" /\ job[u].of[1] = c
    BY <1>4 DEF Unbinding
  <2>2. CASE u \in Client
    BY <2>1, <2>2 DEF SweepInv, OwnTargets
  <2>3. CASE u \notin Client
    BY <2>1, <2>3, Threads DEF ReadsOn, Plays
  <2>4. QED
    BY <2>2, <2>3
<1>5. QED
  BY <1>2, <1>3, <1>4 DEF Owed

LEMMA CheckSweeps ==
    ASSUME IInv, HomeInv, SweepInv, NEW t \in Thread, CheckLeft(t)
    PROVE  SweepInv'
<1>0. PICK j, w, c : j = job[t] /\ w = job'[t] /\ c = j.client
  OBVIOUS
<1>1. /\ j \in JobType /\ j.pc = "finish" /\ c \in Client
      /\ \/ t \in Client /\ Gone(t) /\ c = t
         \/ t = "reader"
  BY <1>0, Threads DEF CheckLeft, At, Streams, ReadsOn, Plays, Sweeping
<1>2. UNCHANGED clients /\ UNCHANGED ent /\ UNCHANGED given /\ UNCHANGED ended
  BY DEF CheckLeft, OnlyJob, edge, held, world, aside, calls
<1>3. CASE Left(c)
  <2>1. w = With(j, [pc |-> "fire"]) /\ OthersStay(t)
    BY <1>0, <1>3, Turned DEF CheckLeft
  <2>2. w.pc = "fire" /\ w.client = c
    BY <1>0, <1>1, <2>1 DEF With, JobType
  <2>3. Fades(t) /\ \A k \in Key : Held(k)' <=> Held(k)
    BY <1>2, <2>1, FadesQuietly
  <2>4. Gone(c) /\ HasNothing(c)
    BY <1>1, <1>3, LeftHasNothing DEF Left, Gone
  <2>5. JobPlain(t)'
    <3>0. \A d \in Client : Gone(d)' <=> Gone(d)
      BY <2>3, GoneSame
    <3>1. Gone(c)' /\ (t \in Client => Gone(t)')
      BY <1>1, <2>4, <3>0, Apart
    <3>2. t \in Client => Streams(t, w)'
      BY <1>1, <2>2, <3>1, Apart DEF Streams
    <3>3. t = "reader" => ReadsOn(w)'
      <4>1. w.client \in Client /\ Gone(c)' /\ w.pc = "fire" /\ w.client = c
        BY <1>1, <2>2, <3>1
      <4>2. Gone(w.client)'
        BY <4>1 DEF Gone
      <4>3. QED
        BY <4>1, <4>2 DEF ReadsOn
    <3>4. t \in Client => Streams(t, job[t])'
      BY <1>0, <3>2 DEF Streams, Sweeping, Gone
    <3>5. t = "reader" => ReadsOn(job[t])'
      BY <1>0, <3>3 DEF ReadsOn, Gone
    <3>6. QED
      BY <1>1, <3>4, <3>5, Apart DEF JobPlain
  <2>6. \A k \in Key : k \notin Targets(w) /\ k \notin Targets(j)
    BY <1>1, <2>2 DEF Targets, Sweeping
  <2>7. QED
    BY <1>0, <1>1, <2>2, <2>3, <2>4, <2>5, <2>6, Apart, TurnKeeps DEF Tails
<1>4. CASE ~Left(c)
  <2>1. w = Idle /\ w.pc = "idle" /\ OthersStay(t)
    BY <1>0, <1>4 DEF CheckLeft, Rest, OthersStay, IInv, TypeOK, Idle
  <2>2. Fades(t) /\ \A k \in Key : Held(k)' <=> Held(k)
    BY <1>2, <2>1, FadesQuietly
  <2>3. JobPlain(t)'
    BY <1>0, <1>1, <2>1, Apart DEF JobPlain, Streams, ReadsOn
  <2>4. \A k : k \notin Targets(w) /\ k \notin Targets(j)
    BY <1>1, <2>1 DEF Targets, Sweeping
  <2>5. TargetsOwn(t)'
    BY <1>0, <2>1, <2>4 DEF TargetsOwn, Targets, Sweeping
  <2>6. ASSUME NEW d \in Client, clients[d] # None, clients[d].leaving,
               Finishing(d) \/ ~HasNothing(d)
        PROVE  Finishing(d)' \/ ~HasNothing(d)'
    <3>1. ASSUME ~HasNothing(d) PROVE ~HasNothing(d)'
      BY <2>2, <3>1 DEF HasNothing, Fades
    <3>2. CASE d = c
      <4>1. \/ ~HasNothing(d)
            \/ job[d].pc = "unbind"
            \/ job["reader"].pc = "unbind" /\ job["reader"].client = d
        BY <1>4, <2>6, <3>2, NotLeft
      <4>2. \A u \in Thread : job[u].pc = "unbind" => job'[u] = job[u]
        BY <1>0, <1>1, <2>1 DEF OthersStay
      <4>3. QED
        BY <3>1, <4>1, <4>2, ThreadFacts DEF Finishing
    <3>3. CASE d # c
      <4>1. d # t
        BY <1>1, <3>3, Apart
      <4>2. job'[d] = job[d]
        BY <2>1, <4>1, ThreadFacts DEF OthersStay
      <4>3. t # "reader" => job'["reader"] = job["reader"]
        BY <2>1, ThreadFacts DEF OthersStay
      <4>4. t = "reader" => job["reader"].client # d
        BY <1>0, <3>3
      <4>5. QED
        BY <2>6, <3>1, <4>2, <4>3, <4>4 DEF Finishing
    <3>4. QED
      BY <3>2, <3>3
  <2>7. QED
    BY <1>0, <2>1, <2>2, <2>3, <2>4, <2>5, <2>6, FadesKeep
<1>5. QED
  BY <1>3, <1>4

LEMMA DisconnectedSweeps ==
    ASSUME IInv, HomeInv, SweepInv, NEW t \in Thread, Disconnected(t)
    PROVE  SweepInv'
<1>0. PICK j, c : j = job[t] /\ c = j.client
  OBVIOUS
<1>1. /\ j.pc = "fire" /\ c \in Client /\ Gone(c) /\ HasNothing(c)
      /\ \/ t \in Client /\ c = t
         \/ t = "reader"
  BY <1>0, Threads DEF Disconnected, At, Streams, ReadsOn, Plays, Sweeping, SweepInv, LeftNothing
<1>2. /\ \A d \in Client : clients'[d] = IF d = c THEN None ELSE clients[d]
      /\ \A d \in Client \ {c} : ended'[d] = ended[d]
      /\ UNCHANGED ent /\ UNCHANGED given
      /\ job'[t] = Idle /\ job'[t].pc = "idle" /\ OthersStay(t)
  BY <1>0 DEF Disconnected, Rest, OthersStay, IInv, TypeOK, held, Idle
<1>3. \A d \in Client : (Gone(d)' <=> Gone(d)) /\ (HasNothing(d)' <=> HasNothing(d))
  BY <1>1, <1>2 DEF Gone, HasNothing, Held
<1>4. \A k : Held(k)' <=> Held(k)
  BY <1>2 DEF Held
<1>5. \A u \in Thread \ {t} : job'[u] = job[u]
  BY <1>2 DEF OthersStay
<1>6. JobsPlain'
  <2>1. ASSUME NEW d \in Client PROVE Streams(d, job[d])'
    <3>1. CASE d = t
      BY <1>2, <3>1 DEF Streams
    <3>2. CASE d # t
      <4>1. job'[d] = job[d] /\ Streams(d, job[d])
        BY <1>5, <3>2, ThreadFacts DEF SweepInv, JobsPlain
      <4>2. QED
        BY <1>3, <4>1 DEF Streams, Sweeping
    <3>3. QED
      BY <3>1, <3>2
  <2>2. ReadsOn(job["reader"])'
    <3>1. CASE t = "reader"
      BY <1>2, <3>1 DEF ReadsOn
    <3>2. CASE t # "reader"
      <4>1. job'["reader"] = job["reader"] /\ ReadsOn(job["reader"])
        BY <1>5, <3>2, ThreadFacts DEF SweepInv, JobsPlain
      <4>2. QED
        BY <1>3, <4>1 DEF ReadsOn
    <3>3. QED
      BY <3>1, <3>2
  <2>3. t # "game" /\ t # "publisher"
    BY <1>1, Apart
  <2>4. job'["game"] = job["game"] /\ job'["publisher"] = job["publisher"]
    BY <1>5, <2>3, ThreadFacts
  <2>5. Plays(job["game"])'
    BY <1>2, <1>4, <2>4 DEF SweepInv, JobsPlain, Plays
  <2>6. QED
    BY <2>1, <2>2, <2>4, <2>5 DEF SweepInv, JobsPlain
<1>7. RecordsPlain'
  BY <1>2, <1>4 DEF SweepInv, RecordsPlain
<1>8. \A d \in Client : d # t => Targets(job'[d]) = Targets(job[d]) /\ job'[d] = job[d]
  BY <1>5, ThreadFacts
<1>9. OwnTargets'
  <2> SUFFICES ASSUME NEW d \in Client
               PROVE  /\ \A k \in Targets(job'[d]) : Held(k)' => ent'[k].client = d
                      /\ job'[d].pc = "unbind" => job'[d].of[1] = d
    BY DEF OwnTargets, Targets, Sweeping
  <2>1. CASE d = t
    BY <1>2, <2>1 DEF Targets, Sweeping
  <2>2. CASE d # t
    BY <1>2, <1>4, <1>8, <2>2 DEF SweepInv, OwnTargets
  <2>3. QED
    BY <2>1, <2>2
<1>10. AllDue'
  <2> SUFFICES ASSUME NEW k \in Key, Held(k)',
                      Gone(ent[k].client)' \/ (<<ent[k].client, ent[k].handle>> \in given)'
               PROVE  Due(k)'
    BY DEF AllDue
  <2>0. PICK d : d = ent[k].client
    OBVIOUS
  <2>1. Held(k) /\ ent'[k] = ent[k] /\ d \in Client
    BY <1>2, <1>4, <2>0 DEF SweepInv, RecordsPlain
  <2>2. d # c
    BY <1>1, <2>0, <2>1 DEF HasNothing
  <2>3. Gone(d) \/ <<d, ent[k].handle>> \in given
    <3>1. Gone(ent[k].client)' => Gone(d)'
      BY <2>0, <2>1 DEF Gone
    <3>2. QED
      BY <1>2, <1>3, <2>0, <2>1, <3>1
  <2>4. ent[k].doomed \/ k \in Targets(job[d])
    BY <2>0, <2>1, <2>3 DEF SweepInv, AllDue, Due
  <2>5. d # t
    BY <1>1, <2>1, <2>2, Apart
  <2>6. ent'[k].doomed \/ k \in Targets(job'[d])
    BY <1>8, <2>1, <2>4, <2>5
  <2>7. QED
    BY <2>0, <2>1, <2>6 DEF Due, Targets, Sweeping
<1>11. LeftNothing'
  <2>1. \A d \in Client : clients'[d] = None => HasNothing(d)'
    BY <1>1, <1>2, <1>3 DEF SweepInv, LeftNothing
  <2>2. \A d \in Client : ended'[d] > 0 => clients'[d] = None
    BY <1>2 DEF SweepInv, LeftNothing
  <2>3. ASSUME NEW u \in Thread, job'[u].pc = "fire" PROVE HasNothing(job[u].client)'
    <3>1. u # t /\ job'[u] = job[u]
      BY <1>2, <1>5, <2>3
    <3>2. HasNothing(job[u].client)
      BY <2>3, <3>1 DEF SweepInv, LeftNothing
    <3>3. QED
      BY <1>2, <1>4, <3>1, <3>2 DEF HasNothing
  <2>4. QED
    BY <2>1, <2>2, <2>3 DEF LeftNothing
<1>12. LeaversFinish'
  <2> SUFFICES ASSUME NEW d \in Client, clients'[d] # None, clients'[d].leaving
               PROVE  Finishing(d)' \/ ~HasNothing(d)'
    BY DEF LeaversFinish
  <2>1. d # c /\ clients'[d] = clients[d]
    BY <1>2
  <2>2. Finishing(d) \/ ~HasNothing(d)
    BY <2>1 DEF SweepInv, LeaversFinish
  <2>3. d # t
    BY <1>1, <2>1, Apart
  <2>4. job'[d] = job[d] /\ (t # "reader" => job'["reader"] = job["reader"])
        /\ (t = "reader" => job["reader"].client # d)
    BY <1>0, <1>5, <2>1, <2>3, ThreadFacts
  <2>5. QED
    BY <1>3, <2>2, <2>4 DEF Finishing
<1>13. QED
  BY <1>6, <1>7, <1>9, <1>10, <1>11, <1>12 DEF SweepInv

LEMMA CommonSweeps ==
    ASSUME IInv, HomeInv, SweepInv, NEW t \in Thread, Common(t)
    PROVE  SweepInv'
<1>1. CASE \/ Begin(t) \/ Denied(t) \/ (\E carry \in BOOLEAN : AskCopy(t, carry))
           \/ Link(t) \/ Carry(t) \/ Note(t)
  <2>1. job[t].pc \in Abroad
    BY <1>1 DEF Begin, Denied, AskCopy, Link, Carry, Note, At, Abroad
  <2>2. QED
    BY <2>1, AtHome DEF JobHome
<1>2. QED
  BY <1>1, AskSweeps, UnansweredSweeps, ReleaseSweeps, ForgetSweeps, UnbindSweeps, NextSweeps,
     CheckSweeps, DisconnectedSweeps DEF Common
-----------------------------------------------------------------------------
LEMMA AddedSweeps ==
    ASSUME IInv, HomeInv, SweepInv, NEW r \in Region, Added(r)
    PROVE  SweepInv'
<1>0. PICK k : k = presence[r][1].key
  OBVIOUS
<1> DEFINE j == job["reader"]
           e == [ent[k] EXCEPT !.id = TRUE, !.replaces = None]
           o == ent[k].replaces
           sh == ent[k].shadowOf # None
           new == [pc |-> IF o = None THEN "greet" ELSE "remap",
                   key |-> k, other |-> o, client |-> ent[k].client,
                   handle |-> ent[k].handle, dest |-> r, shadow |-> sh]
           w == With(j, new)
<1>1. k \in Key /\ j = Idle /\ "reader" \in Thread /\ Held(k)
  BY <1>0, ReadHome, ThreadFacts DEF Added
<1>2. ent[k] \in EntityType /\ o = None
  BY <1>1, HeldHome
<1>3. ent' = [ent EXCEPT ![k] = e] /\ UNCHANGED clients /\ UNCHANGED given /\ UNCHANGED ended
  BY Zenon, <1>0 DEF Added, aside, calls
<1>4. job'["reader"] = w /\ OthersStay("reader")
  <2>1. Then("reader", new)
    BY <1>0 DEF Added
  <2>2. QED
    BY <1>1, <2>1, Turned
<1>5. w.pc = "greet"
  BY <1>1, <1>2 DEF With, Idle
<1> HIDE DEF w
<1>6. /\ e \in EntityType /\ e.client = ent[k].client /\ e.handle = ent[k].handle
      /\ e.shadowOf = ent[k].shadowOf /\ e.shadows = ent[k].shadows
      /\ e.doomed = ent[k].doomed /\ e.id
  BY <1>2 DEF EntityType
<1> HIDE DEF e
<1>7. Fades("reader") /\ \A x \in Key : Held(x)' <=> Held(x)
  BY <1>1, <1>3, <1>4, <1>6, FadesEdit
<1>8. JobPlain("reader")'
  BY <1>4, <1>5, ThreadFacts DEF JobPlain, ReadsOn
<1>9. j.pc = "idle" /\ \A x \in Key : x \notin Targets(w) /\ x \notin Targets(j)
  BY <1>1, <1>5 DEF Targets, Sweeping, Idle
<1>10. QED
  BY <1>1, <1>4, <1>5, <1>7, <1>8, <1>9, ThreadFacts, TurnKeeps DEF Tails

LEMMA RemovedSweeps ==
    ASSUME IInv, HomeInv, SweepInv, NEW r \in Region, Removed(r)
    PROVE  SweepInv'
<1>0. PICK k : k = presence[r][1].key
  OBVIOUS
<1>1. k \in Key /\ job["reader"] = Idle /\ "reader" \in Thread /\ Held(k)
  <2>1. k \in byId
    BY <1>0 DEF Removed
  <2>2. QED
    BY <1>0, <2>1, ReadHome, ThreadFacts DEF Removed, IInv, IndexAgrees
<1>2. PICK c, h, w : c = ent[k].client /\ h = ent[k].handle /\ w = job'["reader"]
  OBVIOUS
<1>3. ent[k].shadowOf = None /\ ent[k].shadows = {} /\ c \in Client
  BY Zenon, <1>1, <1>2 DEF SweepInv, RecordsPlain
<1>4. /\ ent' = [ent EXCEPT ![k] = None]
      /\ UNCHANGED clients /\ UNCHANGED given /\ UNCHANGED ended
  BY <1>0 DEF Removed, Drop, aside, calls
<1> DEFINE new == [pc |-> "unbind", victim |-> k, of |-> <<c, h>>, client |-> c, handle |-> h,
                   other |-> None, todo |-> {}, next |-> "todo", after |-> "notify"]
<1>5. w = With(Idle, new) /\ OthersStay("reader")
  <2>1. Then("reader", new)
    BY <1>0, <1>2, <1>3 DEF Removed
  <2>2. QED
    BY <1>1, <1>2, <2>1, Turned
<1>6. /\ w.pc = "unbind" /\ w.of[1] = c /\ w.client = c /\ w.todo = {}
      /\ w.next = "todo" /\ w.after = "notify"
  BY <1>5 DEF With, Idle
<1>7. Fades("reader") /\ ~Held(k)' /\ \A x \in Key \ {k} : ent'[x] = ent[x] /\ (Held(x)' <=> Held(x))
  BY <1>1, <1>4, <1>5, FadesDrop
<1>8. JobPlain("reader")'
  BY <1>2, <1>6, ThreadFacts DEF JobPlain, ReadsOn
<1>9. job["reader"].pc = "idle" /\ \A x \in Key : x \notin Targets(job["reader"])
  BY <1>1 DEF Targets, Sweeping, Idle
<1>10. TargetsOwn("reader")'
  BY ThreadFacts DEF TargetsOwn
<1>11. ASSUME NEW d \in Client, Finishing(d) \/ ~HasNothing(d)
       PROVE  Finishing(d)' \/ ~HasNothing(d)'
  <2>1. CASE Finishing(d)
    <3>1. job'[d] = job[d]
      BY <1>5, ThreadFacts DEF OthersStay
    <3>2. QED
      BY <1>9, <2>1, <3>1 DEF Finishing
  <2>2. CASE ~HasNothing(d)
    <3>1. PICK x \in Key : Held(x) /\ ent[x].client = d
      BY <2>2 DEF HasNothing
    <3>2. CASE x = k
      BY <1>2, <1>6, <3>1, <3>2 DEF Finishing
    <3>3. CASE x # k
      BY <1>7, <3>1, <3>3 DEF HasNothing
    <3>4. QED
      BY <3>2, <3>3
  <2>3. QED
    BY <1>11, <2>1, <2>2
<1>12. QED
  BY <1>1, <1>2, <1>6, <1>7, <1>8, <1>9, <1>10, <1>11, FadesKeep

LEMMA GreetSweeps ==
    ASSUME IInv, HomeInv, SweepInv, Greet
    PROVE  SweepInv'
<1>0. PICK j, w : j = job["reader"] /\ w = job'["reader"]
  OBVIOUS
<1>1. /\ "reader" \in Thread /\ j.pc = "greet" /\ w = Idle /\ w.pc = "idle" /\ OthersStay("reader")
      /\ UNCHANGED ent /\ UNCHANGED clients /\ UNCHANGED given /\ UNCHANGED ended
  BY <1>0, ThreadFacts DEF Greet, At, Rest, OthersStay, IInv, TypeOK, Idle, edge, held
<1>2. Fades("reader") /\ \A k \in Key : Held(k)' <=> Held(k)
  BY <1>1, FadesQuietly
<1>3. JobPlain("reader")'
  BY <1>0, <1>1, ThreadFacts DEF JobPlain, ReadsOn
<1>4. \A k \in Key : k \notin Targets(w) /\ k \notin Targets(j)
  BY <1>1 DEF Targets, Sweeping
<1>5. QED
  BY <1>0, <1>1, <1>2, <1>3, <1>4, ThreadFacts, TurnKeeps DEF Tails

LEMMA NotifySweeps ==
    ASSUME IInv, HomeInv, SweepInv, Notify
    PROVE  SweepInv'
<1>0. PICK j, w, c : j = job["reader"] /\ w = job'["reader"] /\ c = job["reader"].client
  OBVIOUS
<1>1. /\ "reader" \in Thread /\ j.pc = "notify" /\ j \in JobType /\ c \in Client \cup {None}
      /\ UNCHANGED ent /\ UNCHANGED clients /\ UNCHANGED given /\ UNCHANGED ended
  BY <1>0, AtHome, ThreadFacts DEF Notify, At, edge, held, JobType
<1>2. CASE c = None
  <2>1. w = Idle /\ w.pc = "idle" /\ OthersStay("reader")
    BY <1>0, <1>1, <1>2 DEF Notify, Rest, OthersStay, IInv, TypeOK, Idle
  <2>2. Fades("reader") /\ \A k \in Key : Held(k)' <=> Held(k)
    BY <1>1, <2>1, FadesQuietly
  <2>3. JobPlain("reader")' /\ TargetsOwn("reader")'
    BY <1>0, <2>1, ThreadFacts DEF JobPlain, ReadsOn, TargetsOwn
  <2>4. \A k \in Key : k \notin Targets(j)
    BY <1>1 DEF Targets, Sweeping
  <2>5. ASSUME NEW d \in Client, Finishing(d) \/ ~HasNothing(d)
        PROVE  Finishing(d)' \/ ~HasNothing(d)'
    <3>1. job'[d] = job[d] /\ d # c
      BY <1>2, <2>1, ThreadFacts, NoneFacts DEF OthersStay
    <3>2. ~HasNothing(d) => ~HasNothing(d)'
      BY <2>2 DEF HasNothing, Fades
    <3>3. QED
      BY <1>0, <2>5, <3>1, <3>2 DEF Finishing
  <2>6. QED
    BY <1>0, <1>1, <2>1, <2>2, <2>3, <2>4, <2>5, FadesKeep
<1>3. CASE c # None
  <2>1. w = With(j, [pc |-> "finish"]) /\ OthersStay("reader")
    <3>1. Then("reader", [pc |-> "finish"])
      BY <1>0, <1>3 DEF Notify
    <3>2. QED
      BY <1>0, <1>1, <3>1, Turned
  <2>2. w.pc = "finish" /\ w.client = j.client /\ w.client \in Client
    BY <1>0, <1>1, <1>3, <2>1 DEF With, JobType
  <2>3. Fades("reader") /\ \A k \in Key : Held(k)' <=> Held(k)
    BY <1>1, <2>1, FadesQuietly
  <2>4. JobPlain("reader")'
    BY <1>0, <2>2, ThreadFacts DEF JobPlain, ReadsOn
  <2>5. \A k \in Key : k \notin Targets(w) /\ k \notin Targets(j)
    BY <1>1, <2>2 DEF Targets, Sweeping
  <2>6. QED
    BY <1>0, <1>1, <2>2, <2>3, <2>4, <2>5, ThreadFacts, TurnKeeps DEF Tails
<1>4. QED
  BY <1>2, <1>3

LEMMA ReaderSweeps ==
    ASSUME IInv, HomeInv, SweepInv, OnlyPresence, Reader
    PROVE  SweepInv'
<1>1. ASSUME NEW r \in Region, AddedUnknown(r) \/ RemovedUnknown(r) PROVE SweepInv'
  BY <1>1, SweepSame DEF AddedUnknown, RemovedUnknown, edge, held, aside, calls
<1>2. ASSUME NEW r \in Region, NEW what, Reads(r, what) PROVE what \in {"added", "removed"}
  <2>1. presence[r] \in Seq(ReportOf(Key, {"added", "removed"})) /\ presence[r] # <<>>
    BY <1>2 DEF OnlyPresence, RegionsOf, Reads
  <2>2. presence[r][1] \in ReportOf(Key, {"added", "removed"})
    BY <2>1
  <2>3. QED
    BY <1>2, <2>2 DEF ReportOf, Reads
<1>3. ASSUME NEW r \in Region, Boundary(r) \/ ViewCollision(r) \/ ViewCleared(r) PROVE FALSE
  BY <1>2, <1>3 DEF Boundary, ViewCollision, ViewCleared
<1>4. CASE \/ CopyOrphaned \/ Remap \/ Panic \/ Landed \/ Rehandle \/ Resend \/ Stand \/ Arrive
           \/ Unlist \/ KeepShadow \/ AskShadow \/ ViewSeen \/ List
  <2>1. job["reader"].pc \in {"remap", "landed", "rehandle", "resend", "stand", "arrive",
                              "unlist", "view", "list"}
    BY <1>4 DEF CopyOrphaned, Remap, Panic, Landed, Rehandle, Resend, Stand, Arrive,
       Unlist, KeepShadow, AskShadow, ViewSeen, List, At
  <2>2. QED
    BY <2>1 DEF SweepInv, JobsPlain, ReadsOn
<1>5. QED
  BY <1>1, <1>3, <1>4, AddedSweeps, RemovedSweeps, GreetSweeps, NotifySweeps DEF Reader

LEMMA PublisherSweeps ==
    ASSUME IInv, HomeInv, SweepInv, Expire \/ Publisher
    PROVE  SweepInv'
<1>1. CASE Publish
  BY <1>1, SweepSame DEF Publish, edge, held, aside, calls
<1>2. ~Expire
  BY DEF Expire, HomeInv, RecordsHome
<1>3. CASE \/ \E x \in job["publisher"].due : LeaveBe(x) \/ GiveUp(x)
           \/ Uncarry \/ Unhold \/ Expired
  <2>1. job["publisher"].pc \in {"expire", "uncarry", "unhold"}
    BY <1>3 DEF LeaveBe, GiveUp, Uncarry, Unhold, Expired, At
  <2>2. QED
    BY <2>1 DEF SweepInv, JobsPlain
<1>4. QED
  BY <1>1, <1>2, <1>3 DEF Publisher

LEMMA GameSweeps ==
    ASSUME ClientsAsk, IInv, HomeInv, SweepInv, Game
    PROVE  SweepInv'
<1>1. PICK k \in Key : GameDespawn(k)
  BY DEF Game, GameSpawn, ClientsAsk
<1>2. PICK j, w : j = job["game"] /\ w = job'["game"]
  OBVIOUS
<1>3. "game" \in Thread /\ j = Idle /\ j.pc = "idle"
  BY <1>1, <1>2, AtHome, ThreadFacts DEF GameDespawn, At, JobReady
<1>4. w = With(j, [pc |-> "release", victim |-> k]) /\ OthersStay("game")
  BY <1>1, <1>2, <1>3, Turned DEF GameDespawn
<1>5. w.pc = "release" /\ w.victim = k /\ w.next = "rest"
  BY <1>3, <1>4 DEF With, Idle
<1>6. Held(k) /\ ent[k].id
  BY <1>1 DEF GameDespawn, ClientsAsk, StayPut
<1>7. UNCHANGED ent /\ UNCHANGED clients /\ UNCHANGED given /\ UNCHANGED ended
  BY <1>1 DEF GameDespawn, edge, held, aside, calls
<1>8. Fades("game") /\ \A x \in Key : Held(x)' <=> Held(x)
  BY <1>4, <1>7, FadesQuietly
<1>9. JobPlain("game")' /\ TargetsOwn("game")'
  BY <1>2, <1>5, <1>6, <1>7, ThreadFacts DEF JobPlain, Plays, TargetsOwn
<1>10. \A x \in Key : x \notin Targets(j)
  BY <1>3 DEF Targets, Sweeping
<1>11. \A c \in Client : clients[c] # None /\ clients[c].leaving
                /\ (Finishing(c) \/ ~HasNothing(c)) => Finishing(c)' \/ ~HasNothing(c)'
  BY <1>3, <1>8, ThreadFacts, LeaversKept
<1>12. QED
  BY <1>2, <1>3, <1>5, <1>8, <1>9, <1>10, <1>11, FadesKeep

LEMMA WorldsSweeps ==
    ASSUME SweepInv, Worlds
    PROVE  SweepInv'
  BY WorldsFrame, SweepSame DEF edge, held, aside, calls
-----------------------------------------------------------------------------
(* What is a client's, while its stream is at rest, and what it refers to. *)
LEMMA RestingOwns ==
    ASSUME IInv, HomeInv, SweepInv, NEW c \in Client, clients[c] # None, job[c].pc = "idle"
    PROVE  /\ \A k \in Key : Held(k) /\ ent[k].client = c =>
                /\ k \in clients[c].keys
                /\ clients[c].handles[ent[k].handle] = k
           /\ \A k \in Key : Held(k) /\ k \in clients[c].keys => ent[k].client = c
           /\ \A h \in Handle, k \in Key :
                Held(k) /\ clients[c].handles[h] = k => ent[k].client = c
<1>1. Bound /\ UnbindsAlone /\ AsksAlone
  BY DEF HomeInv, OwnersAgree
<1>2. ASSUME NEW k \in Key, Held(k), ent[k].client = c
      PROVE  k \in clients[c].keys /\ clients[c].handles[ent[k].handle] = k
  <2>1. k < minted /\ ent[k].handle \in Handle
    BY <1>2 DEF IInv, TypeOK, SweepInv, RecordsPlain
  <2>2. ASSUME NEW u \in Thread, Asked(u, k) PROVE FALSE
    <3>1. u \in Client /\ job[u].client = u
      BY <2>2, Threads DEF Asked, Streams, ReadsOn, Plays, Sweeping
    <3>2. ent[k].client = u
      BY <1>1, <2>2, <3>1 DEF Asked, AsksAlone, Owned
    <3>3. QED
      BY <1>2, <2>2, <3>2 DEF Asked
  <2>3. k \in Known
    BY <2>1, <2>2 DEF Known
  <2>4. Owed(k, c, ent[k].handle)
    BY <1>2 DEF Owed, Owned
  <2>5. QED
    BY <1>1, <2>1, <2>3, <2>4 DEF Bound
<1>3. ASSUME NEW k \in Key, Held(k), NEW h, Owed(k, c, h)
      PROVE  ent[k].client = c
  BY <1>1, <1>3 DEF Owed, Owned, Unbinding, UnbindsAlone
<1>4. QED
  BY <1>1, <1>2, <1>3 DEF Bound

(* A step of a client's stream that was at rest, by which nothing is asked *)
(* for: another name may be given back, or the client starts to leave.     *)
LEMMA CommandKeeps ==
    ASSUME IInv, HomeInv, SweepInv, NEW c \in Client, NEW w, w = job'[c],
           job[c].pc = "idle", ~Gone(c), OthersStay(c), UNCHANGED ent, UNCHANGED ended,
           \A d \in Client \ {c} : clients'[d] = clients[d], clients'[c] # None,
           Streams(c, w)', w.pc \notin {"idle", "fire", "unbind"},
           \A n \in given' : n \in given \/ n[1] = c,
           \A k \in Key : Held(k) /\ k \in Targets(w) => ent[k].client = c,
           \A k \in Key :
                /\ Held(k) /\ ent[k].client = c
                /\ Gone(c)' \/ <<c, ent[k].handle>> \in given'
                => ent[k].doomed \/ k \in Targets(w)
    PROVE  SweepInv'
<1>1. \A d \in Client \ {c} : (Gone(d)' <=> Gone(d)) /\ job'[d] = job[d]
  BY ThreadFacts DEF Gone, OthersStay
<1>2. /\ job'["reader"] = job["reader"] /\ job'["game"] = job["game"]
      /\ job'["publisher"] = job["publisher"]
  BY ThreadFacts DEF OthersStay
<1>3. \A k : Held(k)' <=> Held(k)
  BY DEF Held
<1>4. \A d : HasNothing(d)' <=> HasNothing(d)
  BY <1>3 DEF HasNothing
<1>5. JobsPlain'
  <2>1. ASSUME NEW d \in Client PROVE Streams(d, job[d])'
    <3>1. CASE d = c
      BY <3>1 DEF Streams, Sweeping, Gone
    <3>2. CASE d # c
      <4>1. Streams(d, job[d]) /\ job'[d] = job[d] /\ (Gone(d)' <=> Gone(d))
        BY <1>1, <3>2 DEF SweepInv, JobsPlain
      <4>2. QED
        BY <4>1 DEF Streams, Sweeping
    <3>3. QED
      BY <3>1, <3>2
  <2>2. ReadsOn(job["reader"])'
    <3>1. ReadsOn(job["reader"])
      BY DEF SweepInv, JobsPlain
    <3>2. ASSUME NEW d \in Client, Gone(d) PROVE Gone(d)'
      BY <1>1, <3>2
    <3>3. QED
      BY <1>2, <3>1, <3>2 DEF ReadsOn, Gone
  <2>3. Plays(job["game"])'
    BY <1>2, <1>3 DEF SweepInv, JobsPlain, Plays
  <2>4. QED
    BY <1>2, <2>1, <2>2, <2>3 DEF SweepInv, JobsPlain
<1>6. RecordsPlain'
  BY <1>3 DEF SweepInv, RecordsPlain
<1>7. OwnTargets'
  <2> SUFFICES ASSUME NEW d \in Client
               PROVE  /\ \A k \in Targets(job'[d]) : Held(k)' => ent'[k].client = d
                      /\ job'[d].pc = "unbind" => job'[d].of[1] = d
    BY DEF OwnTargets, Targets, Sweeping
  <2>1. CASE d = c
    <3>1. \A k \in Targets(w) : k \in Key
      BY DEF Targets
    <3>2. QED
      BY <1>3, <2>1, <3>1
  <2>2. CASE d # c
    BY <1>1, <1>3, <2>2 DEF SweepInv, OwnTargets
  <2>3. QED
    BY <2>1, <2>2
<1>8. AllDue'
  <2> SUFFICES ASSUME NEW k \in Key, Held(k)',
                      Gone(ent[k].client)' \/ (<<ent[k].client, ent[k].handle>> \in given)'
               PROVE  Due(k)'
    BY DEF AllDue
  <2>0. PICK d : d = ent[k].client
    OBVIOUS
  <2>1. Held(k) /\ ent'[k] = ent[k] /\ d \in Client
    BY <1>3, <2>0 DEF SweepInv, RecordsPlain
  <2>2. Gone(d)' \/ <<d, ent[k].handle>> \in given'
    BY <2>0, <2>1 DEF Gone
  <2>3. ent[k].doomed \/ k \in Targets(job'[d])
    <3>1. CASE d = c
      BY <2>0, <2>1, <2>2, <3>1
    <3>2. CASE d # c
      <4>1. Gone(d) \/ <<d, ent[k].handle>> \in given
        BY <1>1, <2>1, <2>2, <3>2
      <4>2. ent[k].doomed \/ k \in Targets(job[d])
        BY <2>0, <2>1, <4>1 DEF SweepInv, AllDue, Due
      <4>3. QED
        BY <1>1, <2>1, <3>2, <4>2
    <3>3. QED
      BY <3>1, <3>2
  <2>4. QED
    BY <2>0, <2>1, <2>3 DEF Due, Targets, Sweeping
<1>9. LeftNothing'
  <2>1. \A d \in Client : clients'[d] = None => clients[d] = None
    OBVIOUS
  <2>2. \A d \in Client : ended'[d] > 0 => clients'[d] = None
    BY DEF SweepInv, LeftNothing, Gone
  <2>3. ASSUME NEW u \in Thread, job'[u].pc = "fire" PROVE HasNothing(job[u].client)'
    <3>1. u # c /\ job'[u] = job[u]
      BY <2>3 DEF OthersStay
    <3>2. HasNothing(job[u].client)
      BY <2>3, <3>1 DEF SweepInv, LeftNothing
    <3>3. QED
      BY <1>3, <3>1, <3>2 DEF HasNothing
  <2>4. QED
    BY <1>4, <2>1, <2>2, <2>3 DEF SweepInv, LeftNothing
<1>10. LeaversFinish'
  <2> SUFFICES ASSUME NEW d \in Client, clients'[d] # None, clients'[d].leaving
               PROVE  Finishing(d)' \/ ~HasNothing(d)'
    BY DEF LeaversFinish
  <2>1. CASE d = c
    BY <2>1 DEF Finishing
  <2>2. CASE d # c
    BY <1>1, <1>2, <1>4, <2>2 DEF SweepInv, LeaversFinish, Finishing
  <2>3. QED
    BY <2>1, <2>2
<1>11. QED
  BY <1>5, <1>6, <1>7, <1>8, <1>9, <1>10 DEF SweepInv

LEMMA AtRest ==
    ASSUME IInv, HomeInv, SweepInv, NEW c \in Client, Connected(c)
    PROVE  /\ job[c] = Idle /\ job[c].pc = "idle" /\ c \in Thread /\ ~Gone(c)
           /\ clients[c] # None /\ clients[c] \in ClientType
           /\ \A k : k \notin Targets(job[c])
           /\ \A k \in Key : Held(k) /\ ent[k].client = c /\ <<c, ent[k].handle>> \in given
                => ent[k].doomed
<1>1. job[c] = Idle /\ job[c].pc = "idle" /\ c \in Thread /\ clients[c] # None /\ clients[c] \in ClientType
  BY ConnectedHome DEF Connected, At
<1>2. ~Gone(c)
  BY DEF Connected, Gone
<1>3. \A k : k \notin Targets(job[c])
  BY <1>1 DEF Targets, Sweeping
<1>4. QED
  BY <1>1, <1>2, <1>3 DEF SweepInv, AllDue, Due

LEMMA DespawnSweeps ==
    ASSUME IInv, HomeInv, SweepInv, NEW c \in Client, NEW h \in Handle, ClientDespawn(c, h)
    PROVE  SweepInv'
<1>0. PICK k, w : k = clients[c].handles[h] /\ w = job'[c]
  OBVIOUS
<1>1. Connected(c)
  BY DEF ClientDespawn
<1>2. w = With(Idle, [pc |-> "release", victim |-> k]) /\ OthersStay(c)
  BY <1>0, <1>1, AtRest, Turned DEF ClientDespawn
<1>3. w.pc = "release" /\ w.victim = k /\ w.next = "rest"
  BY <1>2 DEF With, Idle
<1>4. k \in Key
  BY <1>0, <1>1, ConnectedHome DEF ClientDespawn
<1>5. UNCHANGED ent /\ UNCHANGED clients /\ UNCHANGED ended /\ given' = given \cup {<<c, h>>}
  BY DEF ClientDespawn, edge, held, calls
<1>6. \A x : x \in Targets(w) <=> x = k
  BY <1>3, <1>4 DEF Targets, Sweeping
<1>7. ~Gone(c)' /\ Streams(c, w)'
  <2>1. ~Gone(c) /\ ~Gone(c)'
    BY <1>1, <1>5, AtRest DEF Gone
  <2>2. QED
    BY <1>3, <2>1 DEF Streams
<1>8. \A x \in Key : Held(x) /\ x \in Targets(w) => ent[x].client = c
  BY <1>0, <1>1, <1>6, AtRest, RestingOwns
<1>9. ASSUME NEW x \in Key, Held(x), ent[x].client = c, <<c, ent[x].handle>> \in given'
      PROVE  ent[x].doomed \/ x \in Targets(w)
  <2>1. CASE <<c, ent[x].handle>> \in given
    BY <1>1, <1>9, <2>1, AtRest
  <2>2. CASE ent[x].handle = h
    BY <1>0, <1>1, <1>6, <1>9, <2>2, AtRest, RestingOwns
  <2>3. QED
    BY <1>5, <1>9, <2>1, <2>2
<1>10. \A n \in given' : n \in given \/ n[1] = c
  BY <1>5
<1>11. \A x \in Key :
        /\ Held(x) /\ ent[x].client = c
        /\ Gone(c)' \/ <<c, ent[x].handle>> \in given'
        => ent[x].doomed \/ x \in Targets(w)
  BY <1>7, <1>9
<1>12. clients'[c] # None /\ \A d \in Client \ {c} : clients'[d] = clients[d]
  BY <1>1, <1>5, AtRest
<1>13. w.pc \notin {"idle", "fire", "unbind"}
  BY <1>3
<1>14. QED
  BY <1>0, <1>1, <1>2, <1>5, <1>7, <1>8, <1>10, <1>11, <1>12, <1>13, AtRest, CommandKeeps

LEMMA ClientSaySweeps ==
    ASSUME IInv, HomeInv, SweepInv, NEW c \in Client, NEW h \in Handle, ClientSay(c, h)
    PROVE  SweepInv'
<1>0. PICK k, x, w : k = clients[c].handles[h] /\ x = words' /\ w = job'[c]
  OBVIOUS
<1>1. Connected(c)
  BY DEF ClientSay
<1>2. w = With(Idle, [pc |-> "say", key |-> k, word |-> x]) /\ OthersStay(c)
  BY <1>0, <1>1, AtRest, Turned DEF ClientSay
<1>3. w.pc = "say"
  BY <1>2 DEF With, Idle
<1>4. UNCHANGED ent /\ UNCHANGED clients /\ UNCHANGED ended /\ UNCHANGED given
  BY DEF ClientSay, edge, held, calls
<1>5. \A y : y \notin Targets(w)
  BY <1>3 DEF Targets, Sweeping
<1>6. ~Gone(c)' /\ Streams(c, w)'
  <2>1. ~Gone(c) /\ ~Gone(c)'
    BY <1>1, <1>4, AtRest DEF Gone
  <2>2. QED
    BY <1>3, <2>1 DEF Streams
<1>7. QED
  BY <1>0, <1>1, <1>2, <1>3, <1>4, <1>5, <1>6, AtRest, CommandKeeps

LEMMA LeaveSweeps ==
    ASSUME IInv, HomeInv, SweepInv, NEW c \in Client, ClientLeave(c)
    PROVE  SweepInv'
<1>0. PICK S, w : S = clients[c].keys /\ w = job'[c]
  OBVIOUS
<1> DEFINE new == [pc |-> "todo", client |-> c, todo |-> S, after |-> "finish"]
           e == [clients[c] EXCEPT !.leaving = TRUE]
<1>1. Connected(c)
  BY DEF ClientLeave
<1>2. w = With(Idle, new) /\ OthersStay(c)
  BY <1>0, <1>1, AtRest, Turned DEF ClientLeave
<1>3. w.pc = "todo" /\ w.client = c /\ w.todo = S /\ w.after = "finish"
  BY <1>2 DEF With, Idle
<1>4. /\ UNCHANGED ent /\ UNCHANGED ended /\ UNCHANGED given
      /\ clients' = [clients EXCEPT ![c] = e]
  BY DEF ClientLeave, OnlyClients, held, world, aside, calls
<1>5. e.leaving /\ e # None
  <2>1. e \in ClientType
    BY <1>1, AtRest DEF ClientType
  <2>2. e.leaving
    BY <1>1, AtRest DEF ClientType
  <2>3. QED
    BY <2>1, <2>2, NoneFacts
<1> HIDE DEF e
<1>6. \A d \in Client : clients'[d] = IF d = c THEN e ELSE clients[d]
  BY <1>4 DEF IInv, TypeOK
<1>7. Gone(c)' /\ Streams(c, w)'
  <2>1. Gone(c)'
    BY <1>5, <1>6 DEF Gone
  <2>2. QED
    BY <1>3, <2>1 DEF Streams, Sweeping
<1>8. \A x \in Key : x \in Targets(w) <=> x \in S
  BY <1>3 DEF Targets, Sweeping
<1>9. \A x \in Key : /\ Held(x) /\ ent[x].client = c => x \in S
                     /\ Held(x) /\ x \in S => ent[x].client = c
  BY <1>0, <1>1, AtRest, RestingOwns
<1>10. \A x \in Key : Held(x) /\ x \in Targets(w) => ent[x].client = c
  BY <1>8, <1>9
<1>11. \A x \in Key :
        /\ Held(x) /\ ent[x].client = c
        /\ Gone(c)' \/ <<c, ent[x].handle>> \in given'
        => ent[x].doomed \/ x \in Targets(w)
  BY <1>8, <1>9
<1>12. clients'[c] # None /\ \A d \in Client \ {c} : clients'[d] = clients[d]
  BY <1>5, <1>6
<1>13. w.pc \notin {"idle", "fire", "unbind"} /\ \A n \in given' : n \in given
  BY <1>3, <1>4
<1>14. QED
  BY <1>0, <1>1, <1>2, <1>4, <1>7, <1>10, <1>11, <1>12, <1>13, AtRest, CommandKeeps
-----------------------------------------------------------------------------
(* What is asked for is nobody's to release yet.                           *)
LEMMA SpawnSweeps ==
    ASSUME IInv, HomeInv, SweepInv, NEW c \in Client, NEW h \in Handle, NEW r \in Region,
           ClientSpawn(c, h, r)
    PROVE  SweepInv'
<1>0. PICK n, w : n = minted /\ w = job'[c]
  OBVIOUS
<1> DEFINE new == [pc |-> "ask", other |-> n, client |-> c, handle |-> h, dest |-> r]
<1>1. Connected(c)
  BY DEF ClientSpawn
<1>2. w = With(Idle, new) /\ OthersStay(c)
  BY <1>0, <1>1, AtRest, Turned DEF ClientSpawn
<1>3. w.pc = "ask" /\ w.client = c /\ w.handle = h /\ w.next = "rest"
  BY <1>2 DEF With, Idle
<1>4. /\ n \in Key /\ ~Held(n) /\ n \notin Known
  <2>1. n \in Nat /\ MaxKeys \in Nat /\ n < MaxKeys
    BY <1>0, MintedIsNat DEF ClientSpawn, Record, Mint, IInv
  <2>2. n \in Key /\ ~(n < n)
    BY <2>1 DEF Key
  <2>3. QED
    BY <1>0, <2>2 DEF Known, IInv, TypeOK
<1>5. /\ Held(n)' /\ ent'[n].client = c /\ ent'[n].handle = h
      /\ ent'[n].shadowOf = None /\ ent'[n].shadows = {}
      /\ \A k \in Key \ {n} : ent'[k] = ent[k] /\ (Held(k)' <=> Held(k))
  <2> DEFINE e == [client |-> c, handle |-> h, region |-> r, id |-> FALSE,
                   doomed |-> FALSE, replaces |-> None, shadows |-> {},
                   shadowOf |-> None, standing |-> 0, to |-> None, held |-> <<>>]
  <2>1. ent' = [ent EXCEPT ![n] = e]
    BY <1>0 DEF ClientSpawn, Record
  <2>2. e \in EntityType
    <3>1. <<>> \in Seq(Word) /\ 0 \in 0 .. MaxWords
      BY EdgeServerAssumption
    <3>2. QED
      BY <3>1 DEF EntityType
  <2>3. /\ e.client = c /\ e.handle = h /\ e.shadowOf = None /\ e.shadows = {} /\ e # None
    BY <2>2, NoneFacts
  <2> HIDE DEF e
  <2>4. \A k \in Key : ent'[k] = IF k = n THEN e ELSE ent[k]
    BY <2>1 DEF IInv, TypeOK
  <2>5. QED
    BY <1>4, <2>3, <2>4, NoneFacts DEF Held
<1>6. UNCHANGED clients /\ UNCHANGED ended /\ given' = given \ {<<c, h>>}
  BY DEF ClientSpawn, calls
<1>7. \A d \in Client : (Gone(d)' <=> Gone(d)) /\ (d # c => job'[d] = job[d])
  BY <1>2, <1>6, ThreadFacts DEF Gone, OthersStay
<1>8. /\ job'["reader"] = job["reader"] /\ job'["game"] = job["game"]
      /\ job'["publisher"] = job["publisher"]
  BY <1>2, ThreadFacts DEF OthersStay
<1>9. ~Gone(c) /\ job[c].pc = "idle" /\ \A k : k \notin Targets(job[c]) /\ k \notin Targets(w)
  BY <1>1, <1>3, AtRest DEF Targets, Sweeping
<1>10. \A d \in Client : /\ HasNothing(d) /\ d # c => HasNothing(d)'
                         /\ ~HasNothing(d) => ~HasNothing(d)'
  BY <1>4, <1>5 DEF HasNothing
<1>11. \A t \in Thread : \A k \in Targets(job[t]) : k \in Known /\ k # n
  <2> SUFFICES ASSUME NEW t \in Thread, NEW k \in Targets(job[t]) PROVE k \in Known
    BY <1>4
  <2>1. JobHome(job[t], Known)
    BY AtHome
  <2>2. QED
    BY <2>1 DEF JobHome, Targets
<1>12. JobsPlain'
  <2>1. ASSUME NEW d \in Client PROVE Streams(d, job[d])'
    <3>1. CASE d = c
      <4>1. ~Gone(c)'
        BY <1>7, <1>9
      <4>2. QED
        BY <1>0, <1>3, <3>1, <4>1 DEF Streams, Gone
    <3>2. CASE d # c
      <4>1. Streams(d, job[d])
        BY DEF SweepInv, JobsPlain
      <4>2. QED
        BY <1>7, <3>2, <4>1 DEF Streams, Sweeping
    <3>3. QED
      BY <3>1, <3>2
  <2>2. ReadsOn(job["reader"])'
    BY <1>7, <1>8 DEF SweepInv, JobsPlain, ReadsOn
  <2>3. Plays(job["game"])'
    <3>1. job["game"].pc = "release" => job["game"].victim \in Known
      BY AtHome, ThreadFacts DEF JobHome
    <3>2. job["game"].pc = "release" => job["game"].victim \in Key \ {n}
      BY <1>4, <3>1 DEF Known
    <3>3. QED
      BY <1>5, <1>8, <3>2 DEF SweepInv, JobsPlain, Plays
  <2>4. QED
    BY <1>8, <2>1, <2>2, <2>3 DEF SweepInv, JobsPlain
<1>13. RecordsPlain'
  BY <1>5 DEF SweepInv, RecordsPlain
<1>14. OwnTargets'
  <2> SUFFICES ASSUME NEW d \in Client
               PROVE  /\ \A k \in Targets(job'[d]) : Held(k)' => ent'[k].client = d
                      /\ job'[d].pc = "unbind" => job'[d].of[1] = d
    BY DEF OwnTargets, Targets, Sweeping
  <2>1. CASE d = c
    BY <1>0, <1>3, <1>9, <2>1
  <2>2. CASE d # c
    <3>1. \A k \in Targets(job[d]) : k \in Key \ {n}
      BY <1>11, ThreadFacts DEF Targets
    <3>2. QED
      BY <1>5, <1>7, <2>2, <3>1 DEF SweepInv, OwnTargets
  <2>3. QED
    BY <2>1, <2>2
<1>15. AllDue'
  <2> SUFFICES ASSUME NEW k \in Key, Held(k)',
                      Gone(ent[k].client)' \/ (<<ent[k].client, ent[k].handle>> \in given)'
               PROVE  Due(k)'
    BY DEF AllDue
  <2>1. k # n
    <3>1. k = n => ~(Gone(ent[k].client)')
      BY <1>5, <1>6, <1>9 DEF Gone
    <3>2. k = n => <<ent'[k].client, ent'[k].handle>> \notin given'
      BY <1>5, <1>6
    <3>3. QED
      BY <3>1, <3>2
  <2>2. PICK d : d = ent[k].client
    OBVIOUS
  <2>3. Held(k) /\ ent'[k] = ent[k] /\ d \in Client
    BY <1>5, <2>1, <2>2 DEF SweepInv, RecordsPlain
  <2>4. Gone(d) \/ <<d, ent[k].handle>> \in given
    BY <1>6, <2>2, <2>3 DEF Gone
  <2>5. ent[k].doomed \/ k \in Targets(job[d])
    BY <2>2, <2>3, <2>4 DEF SweepInv, AllDue, Due
  <2>6. ent'[k].doomed \/ k \in Targets(job'[d])
    BY <1>7, <1>9, <2>3, <2>5
  <2>7. QED
    BY <2>2, <2>3, <2>6 DEF Due, Targets, Sweeping
<1>16. LeftNothing'
  <2>1. \A d \in Client : clients'[d] = None => HasNothing(d)'
    BY <1>6, <1>9, <1>10 DEF SweepInv, LeftNothing, Gone
  <2>2. \A d \in Client : ended'[d] > 0 => clients'[d] = None
    BY <1>6 DEF SweepInv, LeftNothing
  <2>3. ASSUME NEW u \in Thread, job'[u].pc = "fire" PROVE HasNothing(job[u].client)'
    <3>1. u # c /\ job'[u] = job[u]
      BY <1>0, <1>2, <1>3, <2>3 DEF OthersStay
    <3>2. PICK d : d = job[u].client
      OBVIOUS
    <3>3. HasNothing(d)
      BY <2>3, <3>1, <3>2 DEF SweepInv, LeftNothing
    <3>4. d \in Client /\ Gone(d)
      BY <2>3, <3>1, <3>2, Threads DEF Streams, ReadsOn, Plays, Sweeping
    <3>5. HasNothing(d)'
      BY <1>9, <1>10, <3>3, <3>4
    <3>6. QED
      BY <3>1, <3>2, <3>5 DEF HasNothing
  <2>4. QED
    BY <2>1, <2>2, <2>3 DEF LeftNothing
<1>17. LeaversFinish'
  <2> SUFFICES ASSUME NEW d \in Client, clients'[d] # None, clients'[d].leaving
               PROVE  Finishing(d)' \/ ~HasNothing(d)'
    BY DEF LeaversFinish
  <2>1. d # c /\ clients[d] # None /\ clients[d].leaving
    BY <1>6, <1>9 DEF Gone
  <2>2. QED
    BY <1>7, <1>8, <1>10, <2>1 DEF SweepInv, LeaversFinish, Finishing
<1>18. QED
  BY <1>12, <1>13, <1>14, <1>15, <1>16, <1>17 DEF SweepInv

LEMMA CommandedSweeps ==
    ASSUME ClientsAsk, IInv, HomeInv, SweepInv, NEW c \in Client, Commanded(c)
    PROVE  SweepInv'
<1>1. \A h \in Handle, r \in Region : ~ClientTeleport(c, h, r)
  BY DEF ClientTeleport, ClientsAsk, StayPut
<1>2. QED
  BY <1>1, SpawnSweeps, DespawnSweeps, ClientSaySweeps, LeaveSweeps DEF Commanded

(* No region reports anything but what it added and removed.               *)
LEMMA PresenceOnly ==
    ASSUME ClientsAsk, IInv, OnlyPresence, [Next]_vars
    PROVE  OnlyPresence'
<1>1. CASE Next
  <2>1. TypeOK /\ JobsReady
    BY DEF IInv
  <2>2. outbound \in Seq(MessageOf(Key))
    <3>1. MessageOf(Key) = MessageType
      BY DEF MessageOf, MessageType
    <3>2. QED
      BY <2>1, <3>1 DEF TypeOK
  <2>3. Key \in SUBSET Key /\ "view" \notin Events /\ "cross" \notin Events
    BY DEF ClientsAsk, StayPut
  <2> DEFINE W == {"added", "removed"}
  <2>4. RegionsOf(Key, W)
    BY DEF OnlyPresence
  <2>5. RegionsOf(Key, W)'
    BY <1>1, <2>1, <2>2, <2>3, <2>4, RegionsStep
  <2>6. QED
    BY <2>5 DEF OnlyPresence
<1>2. CASE UNCHANGED vars
  BY <1>2 DEF vars, world, regions, OnlyPresence, RegionsOf
<1>3. QED
  BY <1>1, <1>2

LEMMA NextSweepInv ==
    ASSUME ClientsAsk, IInv, HomeInv, OnlyPresence, SweepInv, [Next]_vars
    PROVE  SweepInv'
<1>1. CASE Next
  BY <1>1, CommonSweeps, ReaderSweeps, PublisherSweeps, GameSweeps, WorldsSweeps, CommandedSweeps,
     SaySweeps DEF Next
<1>2. CASE UNCHANGED vars
  BY <1>2, SweepSame DEF vars, edge, held, world, aside, calls
<1>3. QED
  BY <1>1, <1>2

LEMMA InitSweeps == Init => OnlyPresence /\ SweepInv
<1> SUFFICES ASSUME Init PROVE OnlyPresence /\ SweepInv
  OBVIOUS
<1>1. \A t \in Thread : job[t].pc = "idle"
  BY DEF Init, Idle
<1>2. \A k : ~Held(k) \/ k \notin Key
  BY DEF Init, Held
<1>3. \A c \in Client : ~Gone(c) /\ ended[c] = 0
  <2>1. ASSUME NEW c \in Client PROVE clients[c] # None /\ ~clients[c].leaving
    <3>1. clients[c].keys = {} /\ clients[c].leaving = FALSE
      BY DEF Init
    <3>2. clients[c] \in ClientType
      <4>1. clients[c] = [handles |-> [h \in Handle |-> None], keys |-> {}, leaving |-> FALSE]
        BY DEF Init
      <4>2. QED
        BY <4>1 DEF ClientType
    <3>3. QED
      BY <3>1, <3>2, NoneFacts
  <2>2. QED
    BY <2>1 DEF Gone, Init
<1>4. OnlyPresence
  <2>1. /\ inbox = [q \in Region |-> <<>>] /\ presence = [q \in Region |-> <<>>]
        /\ alive = [q \in Region |-> {}]
    BY DEF Init
  <2>2. \A S : <<>> \in Seq(S)
    OBVIOUS
  <2>3. QED
    BY <2>1, <2>2, InitIInv DEF OnlyPresence, RegionsOf, IInv, TypeOK
<1>5. JobsPlain
  BY <1>1, ThreadFacts DEF JobsPlain, Streams, ReadsOn, Plays
<1>6. RecordsPlain /\ AllDue
  BY <1>2 DEF RecordsPlain, AllDue
<1>7. OwnTargets
  BY <1>1, ThreadFacts DEF OwnTargets, Targets, Sweeping
<1>8. LeftNothing
  BY <1>1, <1>3, ThreadFacts DEF LeftNothing, Gone
<1>9. LeaversFinish
  BY <1>3 DEF LeaversFinish, Gone
<1>10. QED
  BY <1>4, <1>5, <1>6, <1>7, <1>8, <1>9 DEF SweepInv

(* Once nothing is under way, what was given back is gone.                 *)
LEMMA DoomedGone ==
    ASSUME IInv, FlowInv, Quiet, NEW k \in Key, Held(k)
    PROVE  ~ent[k].doomed
<1>0. PICK r, id, doomed : r = ent[k].region /\ id = ent[k].id /\ doomed = ent[k].doomed
  OBVIOUS
<1>1. r \in Region /\ Flow(k, r, id, doomed)
  BY <1>0, OfHeld DEF FlowInv, Flows
<1>2. outbound = <<>> /\ inbox[r] = <<>> /\ presence[r] = <<>>
  BY <1>1 DEF Quiet
<1>3. \A what : ~Has(outbound, what, k) /\ ~Has(inbox[r], what, k) /\ ~Has(presence[r], what, k)
  BY <1>2 DEF Has
<1>4. SUFFICES ASSUME doomed PROVE FALSE
  BY <1>0
<1>5. id /\ k \notin alive[r]
  BY <1>1, <1>3, <1>4 DEF Flow, Departs, Going
<1>6. QED
  BY <1>1, <1>3, <1>5 DEF Flow, Answers

LEMMA SweptQuiet ==
    ASSUME IInv, FlowInv, SweepInv, Quiet
    PROVE  LeaversGo /\ GivenBackGoes
<1>1. \A t \in Thread : job[t].pc = "idle" /\ \A k : k \notin Targets(job[t])
  BY DEF Quiet, At, Targets, Sweeping
<1>2. ASSUME NEW k \in Key, Held(k)
      PROVE  ~Gone(ent[k].client) /\ <<ent[k].client, ent[k].handle>> \notin given
  <2>1. ~ent[k].doomed /\ ent[k].client \in Thread
    BY <1>2, DoomedGone, ThreadFacts DEF SweepInv, RecordsPlain
  <2>2. QED
    BY <1>1, <1>2, <2>1 DEF SweepInv, AllDue, Due
<1>3. ASSUME NEW c \in Client, clients[c] # None PROVE ~clients[c].leaving
  <2>1. ~Finishing(c)
    BY <1>1, ThreadFacts DEF Finishing
  <2>2. Gone(c) => HasNothing(c)
    BY <1>2 DEF HasNothing
  <2>3. QED
    BY <1>3, <2>1, <2>2 DEF SweepInv, LeaversFinish, Gone
<1>4. ASSUME NEW m \in given, NEW k \in Key, Held(k)
      PROVE  ent[k].client # m[1] \/ ent[k].handle # m[2]
  <2>1. m \in Client \X Handle
    BY DEF IInv, TypeOK, Name
  <2>2. m = <<m[1], m[2]>>
    BY <2>1
  <2>3. QED
    BY <1>2, <1>4, <2>2
<1>5. QED
  BY <1>3, <1>4 DEF LeaversGo, GivenBackGoes

LEMMA SweptOwns == SweepInv => OwnsNothing
  BY DEF SweepInv, LeftNothing, HasNothing, OwnsNothing

(* What a client gives back is gone once nothing is under way, and a       *)
(* client that leaves gets its one disconnected, at a time when nothing of *)
(* it is left: release, forget, sweep, on_presence and finish_leaving      *)
(* together, whichever of them a region's answer, a despawn of the game's  *)
(* or the end of the stream comes between, for any number of clients,      *)
(* regions and entities, and whether or not clients wait to be told.       *)
THEOREM NothingAlwaysLeft == ClientsAsk => (Spec => []NothingLeftBehind)
<1> SUFFICES ASSUME ClientsAsk PROVE Spec => []NothingLeftBehind
  OBVIOUS
<1> DEFINE All == HomeInv /\ FlowInv /\ OnlyPresence /\ SweepInv
<1>1. Init => All
  BY InitHome, InitFlows, InitSweeps
<1>2. IInv /\ IInv' /\ All /\ [Next]_vars => All'
  <2> SUFFICES ASSUME IInv, IInv', All, [Next]_vars PROVE All'
    OBVIOUS
  <2>1. StayPut
    BY DEF ClientsAsk
  <2>2. HomeInv'
    BY <2>1, NextHome
  <2>3. QED
    BY <2>1, <2>2, NextFlows, PresenceOnly, NextSweepInv
<1>3. IInv /\ All => NothingLeftBehind
  BY SweptQuiet, SweptOwns DEF NothingLeftBehind, LeaversGo, GivenBackGoes
<1>4. QED
  BY <1>1, <1>2, <1>3, EdgeServerInvariant, PTL DEF Spec

-----------------------------------------------------------------------------
(* Clients that wait to be told of what they asked for, and so give        *)
(* nothing back that its region has not answered for.                      *)
ClientsWait == ClientsAsk /\ "hasty" \notin Commands

NameOf(k) == <<ent[k].client, ent[k].handle>>

(* While an entity carries a name, its client has asked for it, and was    *)
(* told of it only if the region has answered.                             *)
NamesShown ==
    \A k \in Key : Held(k) =>
        /\ shown[NameOf(k)] # "no"
        /\ ~ent[k].id => shown[NameOf(k)] = "asked"

(* What is given back was answered for, so nothing is ever forgotten.      *)
AnswersFirst ==
    \A t \in Thread : /\ job[t].pc # "forget"
                      /\ \A k \in Targets(job[t]) : Held(k) => ent[k].id

(* The reader tells of an entity that carries its name, or of a name that  *)
(* nothing carries, and nothing can until its client is told.              *)
Greets(j) ==
    j.key \in Key /\ Held(j.key) /\ ent[j.key].id /\ NameOf(j.key) = <<j.client, j.handle>>

Parting(j) ==
    /\ <<j.client, j.handle>> \in Name /\ shown[<<j.client, j.handle>>] # "no"
    /\ \A k \in Key : Held(k) => NameOf(k) # <<j.client, j.handle>>

Tells(j) ==
    /\ j.pc = "greet" => Greets(j)
    /\ j.pc \in {"unbind", "todo", "notify"} => Parting(j)

WaitInv == NamesShown /\ AnswersFirst /\ Tells(job["reader"])

(* A client's name is carried by one entity at most.                       *)
LEMMA OneEach ==
    ASSUME IInv, HomeInv, SweepInv, NEW k \in Key, NEW x \in Key, Held(k), Held(x),
           NameOf(k) = NameOf(x)
    PROVE  k = x
<1>0. PICK c, h : c = ent[k].client /\ h = ent[k].handle
  OBVIOUS
<1>1. c \in Client /\ h \in Handle /\ clients[c] # None
  BY <1>0 DEF SweepInv, RecordsPlain, LeftNothing, HasNothing
<1>2. \A y \in {k, x} : y \in Key /\ y < minted /\ Owned(y, c, h)
  BY <1>0 DEF NameOf, Owned, IInv, TypeOK
<1>3. Bound /\ AsksAlone
  BY DEF HomeInv, OwnersAgree
<1>4. ASSUME NEW y \in {k, x}, y \in Known PROVE clients[c].handles[h] = y
  BY <1>1, <1>2, <1>3, <1>4 DEF Bound, Owed
<1>5. ASSUME NEW y \in {k, x}, y \notin Known
      PROVE  job[c].other = y /\ clients[c].handles[h] = None
  <2>1. PICK t \in Thread : Asked(t, y)
    BY <1>2, <1>5 DEF Known
  <2>2. Owned(y, job[t].client, job[t].handle)
    BY <1>3, <2>1 DEF AsksAlone, Asked
  <2>3. job[t].client = c /\ job[t].handle = h /\ h # None
    BY <1>1, <1>2, <2>2, NoneFacts DEF Owned
  <2>4. t = c /\ clients[t].handles[h] = None
    BY <1>1, <1>3, <2>1, <2>3 DEF AsksAlone, Asked
  <2>5. QED
    BY <2>1, <2>4 DEF Asked
<1>6. \A y \in {k, x} : y # None
  BY NoneFacts
<1>7. QED
  BY <1>4, <1>5, <1>6

(* A step of thread t by which no entity comes, and none goes unless the   *)
(* reader takes it out.                                                    *)
Lasts(t) ==
    /\ OthersStay(t)
    /\ \A k \in Key : Held(k)' =>
        /\ Held(k) /\ ent'[k].client = ent[k].client /\ ent'[k].handle = ent[k].handle
        /\ ent[k].id => ent'[k].id
    /\ t # "reader" => \A k \in Key : Held(k) => Held(k)'

(* The reader takes leave of the same name still, or of none.              *)
Goes(j, w) ==
    \/ w.pc \notin {"greet", "unbind", "todo", "notify"}
    \/ /\ j.pc \in {"unbind", "todo"} /\ w.pc \in {"todo", "notify"}
       /\ w.client = j.client /\ w.handle = j.handle

LEMMA WaitSame ==
    ASSUME WaitInv, UNCHANGED ent, UNCHANGED job, UNCHANGED shown
    PROVE  WaitInv'
<1>1. NamesShown' /\ AnswersFirst'
  BY DEF WaitInv, NamesShown, AnswersFirst, NameOf, Held, Targets, Sweeping
<1>2. Tells(job["reader"])'
  BY DEF WaitInv, Tells, Greets, Parting, NameOf, Held
<1>3. QED
  BY <1>1, <1>2 DEF WaitInv

LEMMA LastsAnswered ==
    ASSUME AnswersFirst, NEW t \in Thread, Lasts(t), NEW w, w = job'[t], w.pc # "forget",
           \A k \in Key : k \in Targets(w) => k \in Targets(job[t]) \/ (Held(k)' => ent'[k].id)
    PROVE  AnswersFirst'
<1> SUFFICES ASSUME NEW u \in Thread
             PROVE  /\ job'[u].pc # "forget"
                    /\ \A k \in Targets(job'[u]) : Held(k)' => ent'[k].id
  BY DEF AnswersFirst, Targets, Sweeping
<1>1. \A j, k : k \in Targets(j) => k \in Key
  BY DEF Targets
<1>2. \A k \in Targets(job[u]) : k \in Key /\ (Held(k)' => ent'[k].id)
  BY <1>1 DEF AnswersFirst, Lasts
<1>3. CASE u = t
  BY <1>1, <1>3 DEF AnswersFirst, Lasts
<1>4. CASE u # t
  BY <1>2, <1>4 DEF AnswersFirst, Lasts, OthersStay
<1>5. QED
  BY <1>3, <1>4

LEMMA WaitTurns ==
    ASSUME WaitInv, NEW t \in Thread, Lasts(t), UNCHANGED shown,
           NEW j, NEW w, j = job[t], w = job'[t], w.pc # "forget",
           \A k \in Key : k \in Targets(w) => k \in Targets(j) \/ (Held(k)' => ent'[k].id),
           t = "reader" => Goes(j, w) \/ Tells(w)'
    PROVE  WaitInv'
<1>1. NamesShown'
  BY DEF WaitInv, NamesShown, NameOf, Lasts
<1>2. AnswersFirst'
  BY LastsAnswered DEF WaitInv
<1>3. Tells(job["reader"])'
  <2>1. CASE t # "reader"
    <3>1. job'["reader"] = job["reader"]
      BY <2>1, ThreadFacts DEF Lasts, OthersStay
    <3>2. PICK i : i = job["reader"]
      OBVIOUS
    <3>3. i.pc = "greet" => Greets(i)'
      BY <2>1, <3>2 DEF WaitInv, Tells, Greets, NameOf, Lasts
    <3>4. i.pc \in {"unbind", "todo", "notify"} => Parting(i)'
      BY <3>2 DEF WaitInv, Tells, Parting, NameOf, Lasts
    <3>5. QED
      BY <3>1, <3>2, <3>3, <3>4 DEF Tells, Greets, Parting
  <2>2. CASE t = "reader" /\ Tells(w)'
    BY <2>2 DEF Tells, Greets, Parting
  <2>3. CASE t = "reader" /\ Goes(j, w)
    <3>1. CASE w.pc \notin {"greet", "unbind", "todo", "notify"}
      BY <2>3, <3>1 DEF Tells
    <3>2. CASE /\ j.pc \in {"unbind", "todo"} /\ w.pc \in {"todo", "notify"}
               /\ w.client = j.client /\ w.handle = j.handle
      <4>1. Parting(j)
        BY <2>3, <3>2 DEF WaitInv, Tells
      <4>2. Parting(w)'
        BY <3>2, <4>1 DEF Parting, NameOf, Lasts
      <4>3. QED
        BY <2>3, <3>2, <4>2 DEF Tells, Parting
    <3>3. QED
      BY <2>3, <3>1, <3>2 DEF Goes
  <2>4. QED
    BY <2>1, <2>2, <2>3
<1>4. QED
  BY <1>1, <1>2, <1>3 DEF WaitInv

LEMMA FadesLasts ==
    ASSUME NEW t, Fades(t), t = "reader" \/ \A k \in Key : Held(k) => Held(k)'
    PROVE  Lasts(t)
  BY DEF Fades, Lasts

LEMMA SameLasts ==
    ASSUME NEW t, OthersStay(t), UNCHANGED ent
    PROVE  Lasts(t) /\ \A k : Held(k)' <=> Held(k)
  BY DEF Lasts, Held

LEMMA ReturnWaits ==
    ASSUME IInv, SweepInv, WaitInv, NEW t \in Thread, Lasts(t), UNCHANGED shown,
           job[t].pc \in {"ask", "release", "unbind"}, Return(t)
    PROVE  WaitInv'
<1>0. PICK j, w : j = job[t] /\ w = job'[t]
  OBVIOUS
<1>1. /\ j \in JobType
      /\ \/ t \in Client /\ Streams(t, j)
         \/ t = "reader" /\ ReadsOn(j)
         \/ t = "game" /\ Plays(j)
         \/ t = "publisher" /\ j.pc = "idle"
  BY <1>0, Threads
<1>2. CASE j.next = "rest"
  <2>1. w = Idle /\ w.pc = "idle"
    BY <1>0, <1>2 DEF Return, GoOn, Rest, IInv, TypeOK, Idle
  <2>2. \A k \in Key : k \notin Targets(w)
    BY <2>1 DEF Targets, Sweeping
  <2>3. Goes(j, w)
    BY <2>1 DEF Goes
  <2>4. QED
    BY <1>0, <2>1, <2>2, <2>3, WaitTurns
<1>3. CASE j.next = "todo"
  <2>1. w = With(j, [pc |-> "todo"])
    BY <1>0, <1>3, Turned DEF Return, GoOn
  <2>2. /\ w.pc = "todo" /\ w.next = "todo" /\ w.todo = j.todo
        /\ w.client = j.client /\ w.handle = j.handle
    BY <1>1, <1>3, <2>1 DEF With, JobType
  <2>3. j.pc \in {"release", "forget", "unbind"} /\ (t = "reader" => j.pc = "unbind")
    BY <1>0, <1>1, <1>3, Apart DEF Streams, ReadsOn, Plays, Sweeping
  <2>4. \A k \in Key : k \in Targets(w) => k \in Targets(j)
    BY <1>3, <2>2, <2>3 DEF Targets, Sweeping
  <2>5. t = "reader" => Goes(j, w)
    BY <2>2, <2>3 DEF Goes
  <2>6. w.pc # "forget"
    BY <2>2
  <2>7. QED
    BY <1>0, <2>4, <2>5, <2>6, WaitTurns
<1>4. QED
  BY <1>0, <1>1, <1>2, <1>3 DEF Streams, ReadsOn, Plays, Sweeping

-----------------------------------------------------------------------------
LEMMA AskWaits ==
    ASSUME IInv, HomeInv, SweepInv, WaitInv, NEW t \in Thread, Ask(t)
    PROVE  WaitInv'
<1>1. OthersStay(t)
  BY Zenon DEF OthersStay, Ask, Return, GoOn, Rest, Then, IInv, TypeOK
<1>2. UNCHANGED ent /\ UNCHANGED shown
  BY DEF Ask, held, world, aside
<1>3. Return(t) /\ job[t].pc = "ask"
  BY DEF Ask, At
<1>4. QED
  BY <1>1, <1>2, <1>3, SameLasts, ReturnWaits

LEMMA UnbindWaits ==
    ASSUME IInv, HomeInv, SweepInv, WaitInv, NEW t \in Thread, Unbind(t)
    PROVE  WaitInv'
<1>1. OthersStay(t)
  BY DEF OthersStay, Unbind, Return, GoOn, Rest, Then, IInv, TypeOK
<1>2. UNCHANGED ent /\ UNCHANGED shown
  BY DEF Unbind, OnlyClients, held, world, aside
<1>3. Return(t) /\ job[t].pc = "unbind"
  BY DEF Unbind, At
<1>4. QED
  BY <1>1, <1>2, <1>3, SameLasts, ReturnWaits

(* What is released has its id.                                            *)
LEMMA ReleasesAnswered ==
    ASSUME IInv, SweepInv, WaitInv, NEW t \in Thread
    PROVE  ~ReleaseUnanswered(t) /\ ~Forget(t)
<1>1. ~Forget(t)
  BY DEF WaitInv, AnswersFirst, Forget, At
<1>2. job[t].pc = "release" => job[t].victim \in Targets(job[t])
  BY Threads DEF Targets
<1>3. ~ReleaseUnanswered(t)
  BY <1>2 DEF WaitInv, AnswersFirst, ReleaseUnanswered, At
<1>4. QED
  BY <1>1, <1>3

LEMMA ReleaseWaits ==
    ASSUME IInv, HomeInv, SweepInv, WaitInv, NEW t \in Thread, Release(t)
    PROVE  WaitInv'
<1>0. PICK k : k = job[t].victim
  OBVIOUS
<1>1. k \in Key /\ job[t].pc = "release" /\ Return(t)
  BY <1>0, Threads DEF Release, At
<1>2. OthersStay(t) /\ UNCHANGED clients /\ UNCHANGED given /\ UNCHANGED ended /\ UNCHANGED shown
  BY DEF OthersStay, Release, Return, GoOn, Rest, Then, IInv, TypeOK, world, aside, calls
<1>3. CASE ~Held(k)
  <2>1. UNCHANGED ent
    BY <1>0, <1>3 DEF Release
  <2>2. Lasts(t)
    BY <1>2, <2>1, SameLasts
  <2>3. QED
    BY <1>1, <1>2, <2>2, ReturnWaits
<1>4. CASE Held(k)
  <2> DEFINE e == [ent[k] EXCEPT !.doomed = TRUE]
  <2>1. ent' = [ent EXCEPT ![k] = e]
    BY <1>0, <1>4 DEF Release, Doom
  <2>2. ent[k] \in EntityType /\ ent \in [Key -> EntityType \cup {None}]
    BY <1>1, <1>4, OfHeld
  <2>3. /\ e \in EntityType /\ e.client = ent[k].client /\ e.handle = ent[k].handle
        /\ e.shadowOf = ent[k].shadowOf /\ e.shadows = ent[k].shadows
        /\ e.doomed /\ e.id = ent[k].id
    BY <2>2 DEF EntityType
  <2> HIDE DEF e
  <2>4. Fades(t) /\ \A x \in Key : Held(x)' <=> Held(x)
    BY <1>1, <1>2, <1>4, <2>1, <2>3, FadesEdit
  <2>5. Lasts(t)
    BY <2>4, FadesLasts
  <2>6. QED
    BY <1>1, <1>2, <2>5, ReturnWaits
<1>5. QED
  BY <1>3, <1>4

LEMMA NextWaits ==
    ASSUME IInv, HomeInv, SweepInv, WaitInv, NEW t \in Thread, ReleaseNext(t)
    PROVE  WaitInv'
<1>0. PICK j, w : j = job[t] /\ w = job'[t]
  OBVIOUS
<1>1. /\ j \in JobType /\ j.pc = "todo"
      /\ \/ t \in Client /\ Gone(t) /\ j.client = t /\ j.after = "finish"
         \/ t = "reader" /\ j.after = "notify" /\ j.todo = {}
  BY <1>0, Threads DEF ReleaseNext, At, Streams, ReadsOn, Plays, Sweeping
<1>2. UNCHANGED ent /\ UNCHANGED shown
  BY DEF ReleaseNext, OnlyJob, edge, held, world, aside
<1>3. CASE j.todo = {}
  <2>1. w = With(j, [pc |-> j.after]) /\ OthersStay(t)
    <3>1. Then(t, [pc |-> j.after])
      BY <1>0, <1>1, <1>3 DEF ReleaseNext, GoOn
    <3>2. QED
      BY <1>0, <3>1, Turned
  <2>2. w.pc = j.after /\ w.client = j.client /\ w.handle = j.handle
    BY <1>1, <2>1 DEF With, JobType
  <2>3. \A k \in Key : k \notin Targets(w)
    BY <1>1, <2>2 DEF Targets, Sweeping
  <2>4. w.pc # "forget" /\ Goes(j, w)
    BY <1>1, <2>2 DEF Goes
  <2>5. QED
    BY <1>0, <1>2, <2>1, <2>3, <2>4, SameLasts, WaitTurns
<1>4. CASE j.todo # {}
  <2>1. PICK k \in j.todo :
            Then(t, [pc |-> "release", victim |-> k, todo |-> j.todo \ {k}, next |-> "todo"])
    BY <1>0, <1>4 DEF ReleaseNext
  <2> DEFINE new == [pc |-> "release", victim |-> k, todo |-> j.todo \ {k}, next |-> "todo"]
  <2>2. w = With(j, new) /\ OthersStay(t)
    BY <1>0, <2>1, Turned
  <2>3. w.pc = "release" /\ w.victim = k /\ w.todo = j.todo \ {k} /\ w.next = "todo"
    BY <1>1, <2>2 DEF With, JobType
  <2>4. \A x \in Key : x \in Targets(w) => x \in Targets(j)
    BY <1>1, <2>3 DEF Targets, Sweeping
  <2>5. w.pc # "forget" /\ Goes(j, w)
    BY <2>3 DEF Goes
  <2>6. QED
    BY <1>0, <1>2, <2>2, <2>4, <2>5, SameLasts, WaitTurns
<1>5. QED
  BY <1>3, <1>4

(* A thread that rests, or sees a client off.                              *)
LEMMA TailWaits ==
    ASSUME IInv, WaitInv, NEW t \in Thread, CheckLeft(t) \/ Disconnected(t)
    PROVE  WaitInv'
<1>0. PICK j, w : j = job[t] /\ w = job'[t]
  OBVIOUS
<1>1. UNCHANGED ent /\ UNCHANGED shown
  BY DEF CheckLeft, Disconnected, OnlyJob, edge, held, world, aside
<1>2. j \in JobType
  BY <1>0 DEF IInv, TypeOK
<1>3. CASE Rest(t)
  <2>1. w = Idle /\ w.pc = "idle" /\ OthersStay(t)
    BY <1>0, <1>3 DEF Rest, OthersStay, IInv, TypeOK, Idle
  <2>2. QED
    BY <1>0, <1>1, <2>1, SameLasts, WaitTurns DEF Targets, Sweeping, Goes
<1>4. CASE Then(t, [pc |-> "fire"])
  <2>1. w = With(j, [pc |-> "fire"]) /\ OthersStay(t)
    BY <1>0, <1>4, Turned
  <2>2. w.pc = "fire"
    BY <1>2, <2>1 DEF With, JobType
  <2>3. QED
    BY <1>0, <1>1, <2>1, <2>2, SameLasts, WaitTurns DEF Targets, Sweeping, Goes
<1>5. QED
  BY <1>3, <1>4 DEF CheckLeft, Disconnected

LEMMA CommonWaits ==
    ASSUME IInv, HomeInv, SweepInv, WaitInv, NEW t \in Thread, Common(t)
    PROVE  WaitInv'
<1>1. CASE \/ Begin(t) \/ Denied(t) \/ (\E carry \in BOOLEAN : AskCopy(t, carry))
           \/ Link(t) \/ Carry(t) \/ Note(t)
  <2>1. job[t].pc \in Abroad
    BY <1>1 DEF Begin, Denied, AskCopy, Link, Carry, Note, At, Abroad
  <2>2. QED
    BY <2>1, AtHome DEF JobHome
<1>2. QED
  BY <1>1, AskWaits, ReleasesAnswered, ReleaseWaits, UnbindWaits, NextWaits, TailWaits DEF Common

LEMMA SayWaits ==
    ASSUME IInv, HomeInv, SweepInv, WaitInv, NEW c \in Client, Say(c)
    PROVE  WaitInv'
<1>0. PICK k, x, w : k = job[c].key /\ x = job[c].word /\ w = job'[c]
  OBVIOUS
<1>1. x \in Word /\ k \in Key \cup {None} /\ MaxWords \in Nat /\ c \in Thread
  BY Zenon, <1>0, AtHome, ThreadFacts, EdgeServerAssumption DEF Say, At, JobReady, JobType
<1>2. /\ OthersStay(c) /\ w = Idle /\ w.pc = "idle"
      /\ UNCHANGED clients /\ UNCHANGED given /\ UNCHANGED ended /\ UNCHANGED shown
  BY <1>0, <1>1 DEF Say, At, Rest, OthersStay, IInv, TypeOK, calls, Idle
<1>3. Lasts(c)
  <2>1. CASE ~Held(k)
    BY <1>0, <1>2, <2>1, SameLasts DEF Say
  <2>2. CASE Held(k) /\ ent[k].to # None
    <3> DEFINE e == [ent[k] EXCEPT !.held = Append(@, x)]
    <3>1. k \in Key /\ ent' = [ent EXCEPT ![k] = e]
      BY <1>0, <1>1, <2>2 DEF Say, Held
    <3>2. ent[k] \in EntityType /\ Append(ent[k].held, x) \in Seq(Word)
      BY <1>1, <2>2, <3>1, OfHeld DEF EntityType
    <3>3. /\ e \in EntityType /\ e.client = ent[k].client /\ e.handle = ent[k].handle
          /\ e.shadowOf = ent[k].shadowOf /\ e.shadows = ent[k].shadows
          /\ e.doomed = ent[k].doomed /\ e.id = ent[k].id
      BY <3>2 DEF EntityType
    <3> HIDE DEF e
    <3>4. Fades(c) /\ \A y \in Key : Held(y)' <=> Held(y)
      BY <1>2, <2>2, <3>1, <3>3, FadesEdit
    <3>5. QED
      BY <3>4, FadesLasts
  <2>3. CASE Held(k) /\ ent[k].to = None
    <3> DEFINE e == [ent[k] EXCEPT !.standing = x]
    <3>1. k \in Key /\ ent' = [ent EXCEPT ![k] = e]
      BY <1>0, <1>1, <2>3 DEF Say, Held
    <3>2. ent[k] \in EntityType /\ x \in 0 .. MaxWords
      BY <1>1, <2>3, <3>1, OfHeld DEF Word
    <3>3. /\ e \in EntityType /\ e.client = ent[k].client /\ e.handle = ent[k].handle
          /\ e.shadowOf = ent[k].shadowOf /\ e.shadows = ent[k].shadows
          /\ e.doomed = ent[k].doomed /\ e.id = ent[k].id
      BY <3>2 DEF EntityType
    <3> HIDE DEF e
    <3>4. Fades(c) /\ \A y \in Key : Held(y)' <=> Held(y)
      BY <1>2, <2>3, <3>1, <3>3, FadesEdit
    <3>5. QED
      BY <3>4, FadesLasts
  <2>4. QED
    BY <2>1, <2>2, <2>3
<1>4. QED
  BY Zenon, <1>0, <1>1, <1>2, <1>3, Apart, WaitTurns DEF Targets, Sweeping
-----------------------------------------------------------------------------
LEMMA AddedWaits ==
    ASSUME IInv, HomeInv, SweepInv, WaitInv, NEW r \in Region, Added(r)
    PROVE  WaitInv'
<1>0. PICK k : k = presence[r][1].key
  OBVIOUS
<1>1. k \in Key /\ job["reader"] = Idle /\ "reader" \in Thread /\ Held(k)
  BY <1>0, ReadHome, ThreadFacts DEF Added
<1>2. PICK c, h, sh, w : /\ c = ent[k].client /\ h = ent[k].handle
                         /\ sh = (ent[k].shadowOf # None) /\ w = job'["reader"]
  OBVIOUS
<1> DEFINE e == [ent[k] EXCEPT !.id = TRUE, !.replaces = None]
           new == [pc |-> "greet", key |-> k, other |-> None, client |-> c,
                   handle |-> h, dest |-> r, shadow |-> sh]
<1>3. ent[k] \in EntityType /\ ent[k].replaces = None
  BY <1>1, HeldHome
<1>4. /\ ent' = [ent EXCEPT ![k] = e]
      /\ UNCHANGED clients /\ UNCHANGED given /\ UNCHANGED ended /\ UNCHANGED shown
  BY <1>0 DEF Added, aside, calls
<1>5. w = With(Idle, new) /\ OthersStay("reader")
  <2>1. Then("reader", new)
    BY <1>0, <1>2, <1>3 DEF Added
  <2>2. QED
    BY <1>1, <1>2, <2>1, Turned
<1>6. w.pc = "greet" /\ w.key = k /\ w.client = c /\ w.handle = h
  BY <1>5 DEF With, Idle
<1>7. /\ e \in EntityType /\ e.client = c /\ e.handle = h
      /\ e.shadowOf = ent[k].shadowOf /\ e.shadows = ent[k].shadows
      /\ e.doomed = ent[k].doomed /\ e.id
  BY <1>2, <1>3 DEF EntityType
<1> HIDE DEF e
<1>8. Fades("reader") /\ \A x \in Key : Held(x)' <=> Held(x)
  BY <1>1, <1>2, <1>4, <1>5, <1>7, FadesEdit
<1>9. ent'[k] = e
  BY <1>1, <1>4 DEF IInv, TypeOK
<1>10. Tells(w)'
  BY <1>1, <1>6, <1>7, <1>8, <1>9 DEF Tells, Greets, NameOf
<1>11. w.pc # "forget" /\ \A x \in Key : x \notin Targets(w)
  BY <1>6 DEF Targets, Sweeping
<1>12. Lasts("reader")
  BY <1>8, FadesLasts
<1>13. QED
  BY <1>1, <1>2, <1>4, <1>10, <1>11, <1>12, WaitTurns

(* An entity goes whose client knows of it, and nothing else carries its   *)
(* name.                                                                   *)
LEMMA RemovedWaits ==
    ASSUME IInv, HomeInv, SweepInv, WaitInv, NEW r \in Region, Removed(r)
    PROVE  WaitInv'
<1>0. PICK k : k = presence[r][1].key
  OBVIOUS
<1>1. k \in Key /\ job["reader"] = Idle /\ "reader" \in Thread /\ Held(k)
  <2>1. k \in byId
    BY <1>0 DEF Removed
  <2>2. QED
    BY Zenon, <1>0, <2>1, ReadHome, ThreadFacts DEF Removed, IInv, IndexAgrees
<1>2. PICK c, h, w : c = ent[k].client /\ h = ent[k].handle /\ w = job'["reader"]
  OBVIOUS
<1>3. ent[k].shadowOf = None /\ ent[k].shadows = {} /\ c \in Client /\ h \in Handle
  BY <1>1, <1>2 DEF SweepInv, RecordsPlain
<1>4. /\ ent' = [ent EXCEPT ![k] = None]
      /\ UNCHANGED clients /\ UNCHANGED given /\ UNCHANGED ended /\ UNCHANGED shown
  BY <1>0 DEF Removed, Drop, aside, calls
<1> DEFINE new == [pc |-> "unbind", victim |-> k, of |-> <<c, h>>, client |-> c, handle |-> h,
                   other |-> None, todo |-> {}, next |-> "todo", after |-> "notify"]
<1>5. w = With(Idle, new) /\ OthersStay("reader")
  <2>1. Then("reader", new)
    BY <1>0, <1>2, <1>3 DEF Removed
  <2>2. QED
    BY <1>1, <1>2, <2>1, Turned
<1>6. w.pc = "unbind" /\ w.client = c /\ w.handle = h /\ w.todo = {}
  BY <1>5 DEF With, Idle
<1>7. Fades("reader") /\ ~Held(k)' /\ \A x \in Key \ {k} : ent'[x] = ent[x] /\ (Held(x)' <=> Held(x))
  BY <1>1, <1>4, <1>5, FadesDrop
<1>8. Lasts("reader")
  BY <1>7, FadesLasts
<1>9. shown[<<c, h>>] # "no"
  BY <1>1, <1>2 DEF WaitInv, NamesShown, NameOf
<1>10. ASSUME NEW x \in Key, Held(x)' PROVE NameOf(x)' # <<c, h>>
  <2>1. x # k /\ Held(x) /\ ent'[x] = ent[x]
    BY <1>7, <1>10
  <2>2. NameOf(x) # NameOf(k)
    BY <1>1, <2>1, OneEach
  <2>3. QED
    BY <1>2, <2>1, <2>2 DEF NameOf
<1>11. Parting(w)'
  BY <1>3, <1>4, <1>6, <1>9, <1>10 DEF Parting, Name
<1>12. Tells(w)'
  BY <1>6, <1>11 DEF Tells, Parting
<1>13. w.pc # "forget" /\ \A x \in Key : x \notin Targets(w)
  BY <1>6 DEF Targets, Sweeping
<1>14. QED
  BY <1>1, <1>2, <1>4, <1>8, <1>12, <1>13, WaitTurns

(* The reader tells a client of a name, and is done, or all but.           *)
LEMMA ToldWaits ==
    ASSUME IInv, SweepInv, WaitInv, OthersStay("reader"), UNCHANGED ent,
           NEW n, NEW v, shown' = shown \/ shown' = [shown EXCEPT ![n] = v],
           \A x \in Key : Held(x) /\ NameOf(x) = n => v = "spawned" /\ ent[x].id,
           NEW w, w = job'["reader"], w.pc \in {"idle", "finish"}
    PROVE  WaitInv'
<1>1. \A x : Held(x)' <=> Held(x)
  BY DEF Held
<1>2. NamesShown'
  <2> SUFFICES ASSUME NEW x \in Key, Held(x)
               PROVE  /\ shown'[NameOf(x)] # "no"
                      /\ ~ent[x].id => shown'[NameOf(x)] = "asked"
    BY <1>1 DEF NamesShown, NameOf
  <2>1. PICK m : m = NameOf(x)
    OBVIOUS
  <2>2. m \in Name /\ shown \in [Name -> {"no", "asked", "spawned"}]
    BY <2>1 DEF SweepInv, RecordsPlain, NameOf, Name, IInv, TypeOK
  <2>3. shown[m] # "no" /\ (~ent[x].id => shown[m] = "asked")
    BY <2>1 DEF WaitInv, NamesShown
  <2>4. m = n => v = "spawned" /\ ent[x].id
    BY <2>1
  <2>5. shown'[m] # "no" /\ (~ent[x].id => shown'[m] = "asked")
    BY <2>2, <2>3, <2>4
  <2>6. QED
    BY <2>1, <2>5
<1>3. \A k \in Key : k \notin Targets(w)
  BY DEF Targets, Sweeping
<1>4. AnswersFirst'
  BY <1>3, SameLasts, LastsAnswered, ThreadFacts DEF WaitInv
<1>5. Tells(job["reader"])'
  BY DEF Tells
<1>6. QED
  BY <1>2, <1>4, <1>5 DEF WaitInv

LEMMA GreetWaits ==
    ASSUME IInv, HomeInv, SweepInv, WaitInv, Greet
    PROVE  WaitInv'
<1>0. PICK j, w, n, k : /\ j = job["reader"] /\ w = job'["reader"]
                        /\ n = <<job["reader"].client, job["reader"].handle>> /\ k = job["reader"].key
  OBVIOUS
<1>1. /\ j.pc = "greet" /\ w = Idle /\ w.pc = "idle" /\ OthersStay("reader") /\ UNCHANGED ent
  BY <1>0, ThreadFacts DEF Greet, At, Rest, OthersStay, IInv, TypeOK, Idle, edge, held
<1>2. Greets(j)
  BY <1>0, <1>1 DEF WaitInv, Tells
<1>3. k \in Key /\ Held(k) /\ ent[k].id /\ NameOf(k) = n
  BY <1>0, <1>2 DEF Greets
<1>4. shown' = shown \/ shown' = [shown EXCEPT ![n] = "spawned"]
  BY <1>0 DEF Greet, Tell
<1>5. \A x \in Key : Held(x) /\ NameOf(x) = n => ent[x].id
  BY <1>3, OneEach
<1>6. QED
  BY <1>0, <1>1, <1>4, <1>5, ToldWaits

LEMMA NotifyWaits ==
    ASSUME IInv, HomeInv, SweepInv, WaitInv, Notify
    PROVE  WaitInv'
<1>0. PICK j, w, n : /\ j = job["reader"] /\ w = job'["reader"]
                     /\ n = <<job["reader"].client, job["reader"].handle>>
  OBVIOUS
<1>1. j.pc = "notify" /\ j \in JobType /\ UNCHANGED ent /\ "reader" \in Thread
  BY <1>0, AtHome, ThreadFacts DEF Notify, At, edge, held
<1>2. Parting(j)
  BY <1>0, <1>1 DEF WaitInv, Tells
<1>3. \A x \in Key : ~(Held(x) /\ NameOf(x) = n)
  BY <1>0, <1>2 DEF Parting
<1>4. shown' = shown \/ shown' = [shown EXCEPT ![n] = "no"]
  BY <1>0 DEF Notify, Tell
<1>5. OthersStay("reader") /\ w.pc \in {"idle", "finish"}
  <2>1. CASE Rest("reader")
    BY <1>0, <2>1, ThreadFacts DEF Rest, OthersStay, IInv, TypeOK, Idle
  <2>2. CASE Then("reader", [pc |-> "finish"])
    <3>1. w = With(j, [pc |-> "finish"]) /\ OthersStay("reader")
      BY <1>0, <1>1, <2>2, Turned
    <3>2. w.pc = "finish"
      BY <1>1, <3>1 DEF With, JobType
    <3>3. QED
      BY <3>1, <3>2
  <2>3. QED
    BY <2>1, <2>2 DEF Notify
<1>6. QED
  BY <1>0, <1>1, <1>3, <1>4, <1>5, ToldWaits

LEMMA ReaderWaits ==
    ASSUME IInv, HomeInv, SweepInv, WaitInv, OnlyPresence, Reader
    PROVE  WaitInv'
<1>1. ASSUME NEW r \in Region, AddedUnknown(r) \/ RemovedUnknown(r) PROVE WaitInv'
  BY <1>1, WaitSame DEF AddedUnknown, RemovedUnknown, edge, held, aside
<1>2. ASSUME NEW r \in Region, NEW what, Reads(r, what) PROVE what \in {"added", "removed"}
  <2>1. presence[r] \in Seq(ReportOf(Key, {"added", "removed"})) /\ presence[r] # <<>>
    BY <1>2 DEF OnlyPresence, RegionsOf, Reads
  <2>2. presence[r][1] \in ReportOf(Key, {"added", "removed"})
    BY <2>1
  <2>3. QED
    BY <1>2, <2>2 DEF ReportOf, Reads
<1>3. ASSUME NEW r \in Region, Boundary(r) \/ ViewCollision(r) \/ ViewCleared(r) PROVE FALSE
  BY <1>2, <1>3 DEF Boundary, ViewCollision, ViewCleared
<1>4. CASE \/ CopyOrphaned \/ Remap \/ Panic \/ Landed \/ Rehandle \/ Resend \/ Stand \/ Arrive
           \/ Unlist \/ KeepShadow \/ AskShadow \/ ViewSeen \/ List
  <2>1. job["reader"].pc \in {"remap", "landed", "rehandle", "resend", "stand", "arrive",
                              "unlist", "view", "list"}
    BY <1>4 DEF CopyOrphaned, Remap, Panic, Landed, Rehandle, Resend, Stand, Arrive,
       Unlist, KeepShadow, AskShadow, ViewSeen, List, At
  <2>2. QED
    BY <2>1 DEF SweepInv, JobsPlain, ReadsOn
<1>5. QED
  BY <1>1, <1>3, <1>4, AddedWaits, RemovedWaits, GreetWaits, NotifyWaits DEF Reader

LEMMA PublisherWaits ==
    ASSUME IInv, HomeInv, SweepInv, WaitInv, Expire \/ Publisher
    PROVE  WaitInv'
<1>1. CASE Publish
  BY <1>1, WaitSame DEF Publish, edge, held, aside
<1>2. ~Expire
  BY DEF Expire, HomeInv, RecordsHome
<1>3. CASE \/ \E x \in job["publisher"].due : LeaveBe(x) \/ GiveUp(x)
           \/ Uncarry \/ Unhold \/ Expired
  <2>1. job["publisher"].pc \in {"expire", "uncarry", "unhold"}
    BY <1>3 DEF LeaveBe, GiveUp, Uncarry, Unhold, Expired, At
  <2>2. QED
    BY <2>1 DEF SweepInv, JobsPlain
<1>4. QED
  BY <1>1, <1>2, <1>3 DEF Publisher

LEMMA WorldsWaits ==
    ASSUME WaitInv, Worlds
    PROVE  WaitInv'
  BY WorldsFrame, WaitSame DEF edge, held, aside

LEMMA GameWaits ==
    ASSUME ClientsWait, IInv, HomeInv, SweepInv, WaitInv, Game
    PROVE  WaitInv'
<1>1. PICK k \in Key : GameDespawn(k)
  BY DEF Game, GameSpawn, ClientsWait, ClientsAsk
<1>2. PICK j, w : j = job["game"] /\ w = job'["game"]
  OBVIOUS
<1>3. "game" \in Thread /\ j = Idle /\ "game" # "reader"
  BY <1>1, <1>2, AtHome, ThreadFacts DEF GameDespawn, At, JobReady
<1>4. w = With(j, [pc |-> "release", victim |-> k]) /\ OthersStay("game")
  BY <1>1, <1>2, <1>3, Turned DEF GameDespawn
<1>5. w.pc = "release" /\ w.victim = k /\ w.next = "rest"
  BY <1>3, <1>4 DEF With, Idle
<1>6. ent[k].id /\ UNCHANGED ent /\ UNCHANGED shown
  BY <1>1 DEF GameDespawn, ClientsWait, edge, held, aside
<1>7. \A x \in Key : x \in Targets(w) => ent'[x].id
  BY <1>5, <1>6 DEF Targets, Sweeping
<1>8. Lasts("game")
  BY <1>4, <1>6, SameLasts
<1>9. QED
  BY <1>2, <1>3, <1>5, <1>6, <1>7, <1>8, WaitTurns
-----------------------------------------------------------------------------
(* A name leads to what carries it, and what a client was told of has its  *)
(* id.                                                                     *)
LEMMA HandleNames ==
    ASSUME HomeInv, NEW c \in Client, clients[c] # None, NEW h \in Handle, NEW k \in Key,
           Held(k), clients[c].handles[h] = k
    PROVE  NameOf(k) = <<c, h>>
<1>1. Bound /\ UnbindsAlone
  BY DEF HomeInv, OwnersAgree
<1>2. Owed(k, c, h)
  BY <1>1 DEF Bound
<1>3. QED
  BY <1>1, <1>2 DEF Owed, Owned, Unbinding, UnbindsAlone, NameOf

LEMMA DespawnWaits ==
    ASSUME ClientsWait, IInv, HomeInv, SweepInv, WaitInv, NEW c \in Client, NEW h \in Handle,
           ClientDespawn(c, h)
    PROVE  WaitInv'
<1>0. PICK k, w : k = clients[c].handles[h] /\ w = job'[c]
  OBVIOUS
<1>1. Connected(c) /\ shown[<<c, h>>] = "spawned"
  BY DEF ClientDespawn, ClientsWait, Patient
<1>2. w = With(Idle, [pc |-> "release", victim |-> k]) /\ OthersStay(c)
  BY <1>0, <1>1, AtRest, Turned DEF ClientDespawn
<1>3. w.pc = "release" /\ w.victim = k /\ w.next = "rest"
  BY <1>2 DEF With, Idle
<1>4. k \in Key /\ c \in Thread /\ c # "reader"
  BY <1>0, <1>1, ConnectedHome, ThreadFacts DEF ClientDespawn
<1>5. UNCHANGED ent /\ UNCHANGED shown
  BY DEF ClientDespawn, edge, held
<1>6. Held(k) => ent[k].id
  <2>1. Held(k) => NameOf(k) = <<c, h>>
    BY <1>0, <1>1, <1>4, HandleNames DEF Connected
  <2>2. QED
    BY <1>1, <1>4, <2>1 DEF WaitInv, NamesShown
<1>7. \A x \in Key : x \in Targets(w) => (Held(x)' => ent'[x].id)
  BY <1>3, <1>5, <1>6 DEF Targets, Sweeping, Held
<1>8. Lasts(c)
  BY <1>2, <1>5, SameLasts
<1>9. QED
  BY <1>0, <1>3, <1>4, <1>5, <1>7, <1>8, WaitTurns

LEMMA ClientSayWaits ==
    ASSUME IInv, HomeInv, SweepInv, WaitInv, NEW c \in Client, NEW h \in Handle, ClientSay(c, h)
    PROVE  WaitInv'
<1>0. PICK k, x, w : k = clients[c].handles[h] /\ x = words' /\ w = job'[c]
  OBVIOUS
<1>1. Connected(c) /\ c \in Thread /\ c # "reader"
  BY ThreadFacts DEF ClientSay
<1>2. w = With(Idle, [pc |-> "say", key |-> k, word |-> x]) /\ OthersStay(c)
  BY <1>0, <1>1, AtRest, Turned DEF ClientSay
<1>3. w.pc = "say"
  BY <1>2 DEF With, Idle
<1>4. UNCHANGED ent /\ UNCHANGED shown
  BY DEF ClientSay, edge, held
<1>5. \A y : y \notin Targets(w)
  BY <1>3 DEF Targets, Sweeping
<1>6. Lasts(c)
  BY <1>2, <1>4, SameLasts
<1>7. QED
  BY <1>0, <1>1, <1>3, <1>4, <1>5, <1>6, WaitTurns

LEMMA LeaveWaits ==
    ASSUME ClientsWait, IInv, HomeInv, SweepInv, WaitInv, NEW c \in Client, ClientLeave(c)
    PROVE  WaitInv'
<1>0. PICK S, w : S = clients[c].keys /\ w = job'[c]
  OBVIOUS
<1>1. /\ Connected(c) /\ c \in Thread /\ c # "reader"
      /\ \A h \in Handle : shown[<<c, h>>] # "asked"
  BY ThreadFacts DEF ClientLeave, ClientsWait
<1>2. w = With(Idle, [pc |-> "todo", client |-> c, todo |-> S, after |-> "finish"]) /\ OthersStay(c)
  BY <1>0, <1>1, AtRest, Turned DEF ClientLeave
<1>3. w.pc = "todo" /\ w.todo = S
  BY <1>2 DEF With, Idle
<1>4. UNCHANGED ent /\ UNCHANGED shown
  BY DEF ClientLeave, OnlyClients, held, world, aside
<1>5. ASSUME NEW x \in Key, Held(x), x \in S PROVE ent[x].id
  <2>1. ent[x].client = c
    BY <1>0, <1>1, <1>5, AtRest, RestingOwns
  <2>2. ent[x].handle \in Handle
    BY <1>5 DEF SweepInv, RecordsPlain
  <2>3. shown[NameOf(x)] # "asked"
    BY <1>1, <2>1, <2>2 DEF NameOf
  <2>4. QED
    BY <1>5, <2>3 DEF WaitInv, NamesShown
<1>6. \A x \in Key : x \in Targets(w) => (Held(x)' => ent'[x].id)
  BY <1>3, <1>4, <1>5 DEF Targets, Sweeping, Held
<1>7. Lasts(c)
  BY <1>2, <1>4, SameLasts
<1>8. QED
  BY <1>0, <1>1, <1>3, <1>4, <1>6, <1>7, WaitTurns

(* A name nothing carries is asked for.                                    *)
LEMMA SpawnWaits ==
    ASSUME ClientsWait, IInv, HomeInv, SweepInv, WaitInv,
           NEW c \in Client, NEW h \in Handle, NEW r \in Region, ClientSpawn(c, h, r)
    PROVE  WaitInv'
<1>0. PICK n, w, m, i : n = minted /\ w = job'[c] /\ m = <<c, h>> /\ i = job["reader"]
  OBVIOUS
<1>1. Connected(c) /\ c \in Thread /\ c # "reader" /\ shown[m] = "no" /\ m \in Name
  BY <1>0, ThreadFacts DEF ClientSpawn, ClientsWait, Name
<1>2. w = With(Idle, [pc |-> "ask", other |-> n, client |-> c, handle |-> h, dest |-> r])
      /\ OthersStay(c)
  BY <1>0, <1>1, AtRest, Turned DEF ClientSpawn
<1>3. w.pc = "ask" /\ w.next = "rest"
  BY <1>2 DEF With, Idle
<1>4. /\ n \in Key /\ ~Held(n) /\ n \notin Known
  <2>1. n \in Nat /\ MaxKeys \in Nat /\ n < MaxKeys
    BY <1>0, MintedIsNat DEF ClientSpawn, Record, Mint, IInv
  <2>2. n \in Key /\ ~(n < n)
    BY <2>1 DEF Key
  <2>3. QED
    BY <1>0, <2>2 DEF Known, IInv, TypeOK
<1>5. /\ ent'[n].client = c /\ ent'[n].handle = h
      /\ \A k \in Key \ {n} : ent'[k] = ent[k] /\ (Held(k)' <=> Held(k))
  <2> DEFINE e == [client |-> c, handle |-> h, region |-> r, id |-> FALSE,
                   doomed |-> FALSE, replaces |-> None, shadows |-> {},
                   shadowOf |-> None, standing |-> 0, to |-> None, held |-> <<>>]
  <2>1. ent' = [ent EXCEPT ![n] = e]
    BY <1>0 DEF ClientSpawn, Record
  <2>2. e.client = c /\ e.handle = h
    OBVIOUS
  <2> HIDE DEF e
  <2>3. \A k \in Key : ent'[k] = IF k = n THEN e ELSE ent[k]
    BY <2>1 DEF IInv, TypeOK
  <2>4. QED
    BY <1>4, <2>2, <2>3 DEF Held
<1>6. shown' = [shown EXCEPT ![m] = "asked"] /\ shown \in [Name -> {"no", "asked", "spawned"}]
  BY <1>0 DEF ClientSpawn, IInv, TypeOK
<1>7. NamesShown'
  <2> SUFFICES ASSUME NEW k \in Key, Held(k)'
               PROVE  shown'[NameOf(k)'] # "no" /\ (~ent'[k].id => shown'[NameOf(k)'] = "asked")
    BY DEF NamesShown, NameOf
  <2>1. CASE k = n
    <3>1. NameOf(k)' = m
      BY <1>0, <1>5, <2>1 DEF NameOf
    <3>2. shown'[m] = "asked"
      BY <1>1, <1>6
    <3>3. QED
      BY <3>1, <3>2
  <2>2. CASE k # n
    <3>1. PICK p : p = NameOf(k)
      OBVIOUS
    <3>2. Held(k) /\ ent'[k] = ent[k] /\ NameOf(k)' = p
      BY <1>5, <2>2, <3>1 DEF NameOf
    <3>3. shown[p] # "no" /\ (~ent[k].id => shown[p] = "asked")
      BY <3>1, <3>2 DEF WaitInv, NamesShown
    <3>4. shown'[p] = shown[p]
      BY <1>1, <1>6, <3>3
    <3>5. QED
      BY <3>2, <3>3, <3>4
  <2>3. QED
    BY <2>1, <2>2
<1>8. AnswersFirst'
  <2> SUFFICES ASSUME NEW u \in Thread
               PROVE  /\ job'[u].pc # "forget"
                      /\ \A k \in Targets(job'[u]) : Held(k)' => ent'[k].id
    BY DEF AnswersFirst, Targets, Sweeping
  <2>1. CASE u = c
    BY <1>0, <1>3, <2>1 DEF Targets, Sweeping
  <2>2. CASE u # c
    <3>1. job'[u] = job[u]
      BY <1>2, <2>2 DEF OthersStay
    <3>2. \A k \in Targets(job[u]) : k \in Known /\ k \in Key
      <4>1. JobHome(job[u], Known)
        BY AtHome
      <4>2. QED
        BY <4>1 DEF JobHome, Targets
    <3>3. \A k \in Targets(job[u]) : k \in Key \ {n}
      BY <1>4, <3>2
    <3>4. QED
      BY <1>5, <3>1, <3>3 DEF WaitInv, AnswersFirst
  <2>3. QED
    BY <2>1, <2>2
<1>9. Tells(job["reader"])'
  <2>1. job'["reader"] = i
    BY <1>0, <1>1, <1>2, ThreadFacts DEF OthersStay
  <2>2. ASSUME i.pc = "greet" PROVE Greets(i)'
    <3>1. Greets(i)
      BY <1>0, <2>2 DEF WaitInv, Tells
    <3>2. i.key # n
      BY <1>4, <3>1 DEF Greets
    <3>3. QED
      BY <1>5, <3>1, <3>2 DEF Greets, NameOf
  <2>3. ASSUME i.pc \in {"unbind", "todo", "notify"} PROVE Parting(i)'
    <3>1. PICK p : p = <<i.client, i.handle>>
      OBVIOUS
    <3>2. Parting(i)
      BY <1>0, <2>3 DEF WaitInv, Tells
    <3>3. p \in Name /\ shown[p] # "no" /\ p # m
      BY <1>1, <3>1, <3>2 DEF Parting
    <3>4. shown'[p] # "no"
      BY <1>6, <3>3
    <3>5. ASSUME NEW k \in Key, Held(k)' PROVE NameOf(k)' # p
      <4>1. CASE k = n
        BY <1>0, <1>5, <3>3, <4>1 DEF NameOf
      <4>2. CASE k # n
        BY <1>5, <3>1, <3>2, <3>5, <4>2 DEF Parting, NameOf
      <4>3. QED
        BY <4>1, <4>2
    <3>6. QED
      BY <3>1, <3>3, <3>4, <3>5 DEF Parting
  <2>4. QED
    BY <2>1, <2>2, <2>3 DEF Tells, Greets, Parting
<1>10. QED
  BY <1>7, <1>8, <1>9 DEF WaitInv

LEMMA CommandedWaits ==
    ASSUME ClientsWait, IInv, HomeInv, SweepInv, WaitInv, NEW c \in Client, Commanded(c)
    PROVE  WaitInv'
<1>1. \A h \in Handle, r \in Region : ~ClientTeleport(c, h, r)
  BY DEF ClientTeleport, ClientsWait, ClientsAsk, StayPut
<1>2. QED
  BY <1>1, SpawnWaits, DespawnWaits, ClientSayWaits, LeaveWaits DEF Commanded

LEMMA NextWaitInv ==
    ASSUME ClientsWait, IInv, HomeInv, OnlyPresence, SweepInv, WaitInv, [Next]_vars
    PROVE  WaitInv'
<1>1. CASE Next
  BY <1>1, CommonWaits, ReaderWaits, PublisherWaits, GameWaits, WorldsWaits, CommandedWaits,
     SayWaits DEF Next
<1>2. CASE UNCHANGED vars
  BY <1>2, WaitSame DEF vars, edge, held, world, aside
<1>3. QED
  BY <1>1, <1>2

LEMMA InitWaits == Init => WaitInv
<1> SUFFICES ASSUME Init PROVE WaitInv
  OBVIOUS
<1>1. \A t \in Thread : job[t].pc = "idle"
  BY DEF Init, Idle
<1>2. \A k : ~Held(k) \/ k \notin Key
  BY DEF Init, Held
<1>3. NamesShown
  BY <1>2 DEF NamesShown
<1>4. AnswersFirst
  BY <1>1 DEF AnswersFirst, Targets, Sweeping
<1>5. Tells(job["reader"])
  BY <1>1, ThreadFacts DEF Tells
<1>6. QED
  BY <1>3, <1>4, <1>5 DEF WaitInv

-----------------------------------------------------------------------------
(* A held entity is nowhere but in its region, and there only until its    *)
(* removal is reported; and once it was added, its id is known or on the   *)
(* way.  What is not held is nowhere, nor is anyone asked for it.          *)
Settled(k, r, id) ==
    /\ \A q \in Region \ {r} : k \notin alive[q] /\ ~Has(presence[q], "removed", k)
    /\ Has(presence[r], "removed", k) => k \notin alive[r]
    /\ k \in alive[r] \/ Has(presence[r], "removed", k) => id \/ Has(presence[r], "added", k)

Absent(k) ==
    /\ ~Has(outbound, "spawn", k)
    /\ \A q \in Region : k \notin alive[q] /\ ~Has(inbox[q], "spawn", k)

Settles(k) ==
    /\ Held(k) => Settled(k, ent[k].region, ent[k].id)
    /\ ~Held(k) => Absent(k)

SettleInv == \A k \in Key : Settles(k)

(* A record that stays, and nothing new asked for on behalf of another.    *)
Kept(k) ==
    /\ Held(k)' <=> Held(k)
    /\ Held(k) => ent'[k].region = ent[k].region /\ (ent[k].id => ent'[k].id)

AsksKnown == \A k \in Key : ~Held(k)' /\ Has(outbound', "spawn", k) => Has(outbound, "spawn", k)

LEMMA SettleKeeps ==
    ASSUME SettleInv, Still, NEW k \in Key, Kept(k), AsksKnown
    PROVE  Settles(k)'
<1>1. PICK r, id, has : r = ent[k].region /\ id = ent[k].id /\ has = ent'[k].id
  OBVIOUS
<1>2. CASE Held(k)
  <2>1. Settled(k, r, id) /\ Held(k)' /\ ent'[k].region = r /\ (id => has)
    BY <1>1, <1>2 DEF SettleInv, Settles, Kept
  <2>2. Settled(k, r, has)'
    BY <2>1 DEF Settled, Still
  <2>3. r = ent'[k].region /\ has = ent'[k].id
    BY <1>1, <2>1
  <2>4. QED
    BY <2>1, <2>2, <2>3 DEF Settles
<1>3. CASE ~Held(k)
  BY <1>3 DEF SettleInv, Settles, Kept, AsksKnown, Absent, Still
<1>4. QED
  BY <1>2, <1>3

LEMMA SettleSame ==
    ASSUME SettleInv, Still, \A k \in Key : Kept(k), AsksKnown
    PROVE  SettleInv'
  BY SettleKeeps DEF SettleInv

LEMMA KeptSame ==
    ASSUME UNCHANGED ent
    PROVE  \A k \in Key : Kept(k)
  BY DEF Kept, Held

LEMMA KeptEdit ==
    ASSUME IInv, NEW k \in Key, Held(k), NEW e \in EntityType, ent' = [ent EXCEPT ![k] = e],
           e.region = ent[k].region, ent[k].id => e.id
    PROVE  \A x \in Key : Kept(x)
<1>1. \A x \in Key : ent'[x] = IF x = k THEN e ELSE ent[x]
  BY DEF IInv, TypeOK
<1>2. QED
  BY <1>1, NoneFacts DEF Kept, Held

LEMMA AsksNothing ==
    ASSUME UNCHANGED outbound
    PROVE  AsksKnown
  BY DEF AsksKnown

LEMMA AsksOnly ==
    ASSUME IInv, NEW ms \in Seq(MessageType), Send(ms),
           \A i \in DOMAIN ms : ms[i].what = "spawn" => Held(ms[i].key)'
    PROVE  AsksKnown
<1> SUFFICES ASSUME NEW k \in Key, ~Held(k)', Has(outbound', "spawn", k)
             PROVE  Has(outbound, "spawn", k)
  BY DEF AsksKnown
<1>1. outbound \in Seq(MessageType) /\ outbound' = outbound \o ms
  BY Queues DEF IInv, Send
<1>2. ~Has(ms, "spawn", k)
  BY DEF Has
<1>3. QED
  BY <1>1, <1>2, JoinedHas

LEMMA SettleQuietly ==
    ASSUME SettleInv, Still, UNCHANGED ent, UNCHANGED outbound
    PROVE  SettleInv'
  BY SettleSame, KeptSame, AsksNothing

-----------------------------------------------------------------------------
LEMMA AskSettles ==
    ASSUME IInv, HomeInv, FlowInv, SettleInv, NEW t \in Thread, Ask(t)
    PROVE  SettleInv'
<1>1. PICK n, d : n = job[t].other /\ d = job[t].dest
  OBVIOUS
<1>2. /\ job[t].pc = "ask" /\ n \in Key /\ d \in Region /\ Held(n)
  BY <1>1, AtHome DEF Ask, At, JobReady, HomeInv, OwnersAgree, AsksAlone, Owned
<1> DEFINE ms == <<Spawning(d, n)>>
<1>3. Send(ms) /\ Still /\ ent' = ent
  BY <1>1 DEF Ask, Still, held, world, regions
<1>4. ms \in Seq(MessageType) /\ DOMAIN ms = {1} /\ ms[1].key = n
  BY <1>2, MessageTypes DEF Spawning
<1> HIDE DEF ms
<1>5. Held(n)'
  BY <1>2, <1>3 DEF Held
<1>6. AsksKnown
  BY <1>3, <1>4, <1>5, AsksOnly
<1>7. QED
  BY <1>3, <1>6, KeptSame, SettleSame

LEMMA ReleaseSettles ==
    ASSUME IInv, HomeInv, FlowInv, SettleInv, NEW t \in Thread, Release(t)
    PROVE  SettleInv'
<1>1. PICK n : n = job[t].victim
  OBVIOUS
<1>2. n \in Key /\ Still
  BY <1>1, AtHome DEF Release, At, JobReady, Still, world, regions
<1>3. CASE ~Held(n)
  <2>1. UNCHANGED ent /\ UNCHANGED outbound
    BY <1>1, <1>3 DEF Release
  <2>2. QED
    BY <1>2, <2>1, SettleQuietly
<1>4. CASE Held(n)
  <2>1. PICK q : q = ent[n].region
    OBVIOUS
  <2> DEFINE ms == <<Despawning(q, n)>>
             e == [ent[n] EXCEPT !.doomed = TRUE]
  <2>2. Send(ms) /\ ent' = [ent EXCEPT ![n] = e] /\ q \in Region
    BY <1>1, <1>2, <1>4, <2>1, OfHeld DEF Release, Doom
  <2>3. ms \in Seq(MessageType) /\ DOMAIN ms = {1} /\ ms[1].what = "despawn"
    BY <1>2, <2>2, MessageTypes DEF Despawning
  <2>4. e.region = ent[n].region /\ e.id = ent[n].id /\ e \in EntityType
    BY <1>2, <1>4, <2>1, OfHeld DEF EntityType
  <2> HIDE DEF ms, e
  <2>5. AsksKnown
    BY <2>2, <2>3, AsksOnly
  <2>6. \A x \in Key : Kept(x)
    BY <1>2, <1>4, <2>2, <2>4, KeptEdit
  <2>7. QED
    BY <1>2, <2>5, <2>6, SettleSame
<1>5. QED
  BY <1>3, <1>4

LEMMA CommonSettles ==
    ASSUME IInv, HomeInv, FlowInv, SweepInv, WaitInv, SettleInv, NEW t \in Thread, Common(t)
    PROVE  SettleInv'
<1>1. CASE ReleaseNext(t) \/ CheckLeft(t) \/ Unbind(t) \/ Disconnected(t)
  <2>1. UNCHANGED ent /\ UNCHANGED outbound /\ Still
    BY <1>1 DEF ReleaseNext, CheckLeft, Unbind, Disconnected, OnlyJob, OnlyClients,
       edge, held, world, regions, Still
  <2>2. QED
    BY <2>1, SettleQuietly
<1>2. CASE \/ Begin(t) \/ Denied(t) \/ (\E carry \in BOOLEAN : AskCopy(t, carry))
           \/ Link(t) \/ Carry(t) \/ Note(t)
  <2>1. job[t].pc \in Abroad
    BY <1>2 DEF Begin, Denied, AskCopy, Link, Carry, Note, At, Abroad
  <2>2. QED
    BY <2>1, AtHome DEF JobHome
<1>3. QED
  BY <1>1, <1>2, ReleasesAnswered, AskSettles, ReleaseSettles DEF Common

LEMMA SaySettles ==
    ASSUME IInv, HomeInv, FlowInv, SettleInv, NEW c \in Client, Say(c)
    PROVE  SettleInv'
<1>0. PICK k, x : k = job[c].key /\ x = job[c].word
  OBVIOUS
<1>1. x \in Word /\ k \in Key \cup {None} /\ MaxWords \in Nat /\ Still
  BY <1>0, AtHome, ThreadFacts, EdgeServerAssumption DEF Say, At, JobReady, JobType, regions, Still
<1>2. CASE ~Held(k)
  BY <1>0, <1>1, <1>2, SettleQuietly DEF Say
<1>3. CASE Held(k)
  <2>1. k \in Key
    BY <1>1, <1>3 DEF Held
  <2>2. ent[k] \in EntityType
    BY <1>3, <2>1, OfHeld
  <2>3. CASE ent[k].to # None
    <3> DEFINE e == [ent[k] EXCEPT !.held = Append(@, x)]
    <3>1. ent' = [ent EXCEPT ![k] = e] /\ UNCHANGED outbound
      BY <1>0, <1>3, <2>3 DEF Say
    <3>2. Append(ent[k].held, x) \in Seq(Word)
      BY <1>1, <2>2 DEF EntityType
    <3>3. e \in EntityType /\ e.region = ent[k].region /\ e.id = ent[k].id
      BY <2>2, <3>2 DEF EntityType
    <3> HIDE DEF e
    <3>4. QED
      BY <1>1, <1>3, <2>1, <3>1, <3>3, KeptEdit, AsksNothing, SettleSame
  <2>4. CASE ent[k].to = None
    <3> DEFINE e == [ent[k] EXCEPT !.standing = x]
               ms == <<Saying(ent[k].region, k, x)>>
    <3>1. ent' = [ent EXCEPT ![k] = e]
      BY <1>0, <1>3, <2>4 DEF Say
    <3>2. x \in 0 .. MaxWords
      BY <1>1 DEF Word
    <3>3. e \in EntityType /\ e.region = ent[k].region /\ e.id = ent[k].id
      BY <2>2, <3>2 DEF EntityType
    <3>4. Send(ms) \/ UNCHANGED outbound
      BY <1>0, <1>3, <2>4 DEF Say
    <3>5. ms \in Seq(MessageType) /\ DOMAIN ms = {1} /\ ms[1].what = "message"
      <4>1. Saying(ent[k].region, k, x) \in MessageType
        BY <1>1, <1>3, <2>1, OfHeld, MessageTypes
      <4>2. QED
        BY <4>1 DEF Saying
    <3> HIDE DEF e, ms
    <3>6. AsksKnown
      BY <3>4, <3>5, AsksNothing, AsksOnly
    <3>7. \A y \in Key : Kept(y)
      BY <1>3, <2>1, <3>1, <3>3, KeptEdit
    <3>8. QED
      BY <1>1, <3>6, <3>7, SettleSame
  <2>5. QED
    BY <2>3, <2>4
<1>4. QED
  BY <1>2, <1>3

(* What is asked for is nowhere yet.                                       *)
LEMMA SpawnSettles ==
    ASSUME IInv, HomeInv, FlowInv, SettleInv, NEW c \in Client, NEW h \in Handle, NEW r \in Region,
           ClientSpawn(c, h, r)
    PROVE  SettleInv'
<1>1. PICK n : n = minted /\ n \in Key /\ n \notin Known
  BY MintedIsNat DEF ClientSpawn, Record, Mint, Key, Known, IInv
<1> DEFINE e == [client |-> c, handle |-> h, region |-> r, id |-> FALSE,
                 doomed |-> FALSE, replaces |-> None, shadows |-> {},
                 shadowOf |-> None, standing |-> 0, to |-> None, held |-> <<>>]
<1>2. ent' = [ent EXCEPT ![n] = e] /\ e.region = r
  BY <1>1 DEF ClientSpawn, Record
<1>3. e \in EntityType
  <2>1. <<>> \in Seq(Word) /\ 0 \in 0 .. MaxWords
    BY EdgeServerAssumption
  <2>2. QED
    BY <2>1 DEF EntityType
<1> HIDE DEF e
<1>4. ent'[n] = e /\ \A k \in Key \ {n} : ent'[k] = ent[k]
  BY <1>1, <1>2 DEF IInv, TypeOK
<1>5. UNCHANGED outbound /\ Still
  BY DEF ClientSpawn, regions, Still
<1>6. Settles(n)'
  <2>1. Held(n)'
    BY <1>1, <1>3, <1>4, NoneFacts DEF Held
  <2>2. \A q \in Region : \A what : ~Has(presence[q], what, n) /\ n \notin alive[q]
    BY <1>1, Unheard
  <2>3. PICK q, id : q = ent'[n].region /\ id = ent'[n].id
    OBVIOUS
  <2>4. q \in Region
    BY <1>2, <1>4, <2>3
  <2>5. Settled(n, q, id)'
    BY <1>5, <2>2, <2>4 DEF Settled, Still
  <2>6. QED
    BY <2>1, <2>3, <2>5 DEF Settles
<1>7. ASSUME NEW k \in Key \ {n} PROVE Settles(k)'
  <2>1. Kept(k)
    BY <1>4 DEF Kept, Held
  <2>2. QED
    BY <1>5, <2>1, AsksNothing, SettleKeeps
<1>8. QED
  BY <1>1, <1>6, <1>7 DEF SettleInv

LEMMA CommandedSettles ==
    ASSUME ClientsWait, IInv, HomeInv, FlowInv, SettleInv, NEW c \in Client, Commanded(c)
    PROVE  SettleInv'
<1>1. \A h \in Handle, r \in Region : ~ClientTeleport(c, h, r)
  BY DEF ClientTeleport, ClientsWait, ClientsAsk, StayPut
<1>2. ASSUME \/ ClientLeave(c)
             \/ \E h \in Handle : ClientDespawn(c, h) \/ ClientSay(c, h)
      PROVE  SettleInv'
  <2>1. UNCHANGED ent /\ UNCHANGED outbound /\ Still
    BY <1>2 DEF ClientLeave, ClientDespawn, ClientSay, OnlyClients, edge, held, world, regions, Still
  <2>2. QED
    BY <2>1, SettleQuietly
<1>3. QED
  BY <1>1, <1>2, SpawnSettles DEF Commanded

(* What is on the way, published, is still on the way.                     *)
LEMMA PublishSettles ==
    ASSUME IInv, SettleInv, Publish
    PROVE  SettleInv'
<1> DEFINE I(q, what) == {i \in DOMAIN outbound : outbound[i].region = q /\ outbound[i].what = what}
           of(q, what) == Picked(outbound, I(q, what))
<1>1. /\ inbox' = [q \in Region |->
                    inbox[q] \o of(q, "spawn") \o of(q, "despawn") \o of(q, "message")]
      /\ outbound' = <<>> /\ alive' = alive /\ presence' = presence /\ ent' = ent
  BY DEF Publish, edge, held
<1>2. outbound \in Seq(MessageType) /\ \A q \in Region : inbox[q] \in Seq(MessageType)
  BY Queues DEF IInv
<1>3. \A q, what : of(q, what) \in Seq(MessageType)
  BY <1>2, PickedType
<1>4. ASSUME NEW q, NEW what, NEW k, Has(of(q, what), "spawn", k) PROVE Has(outbound, "spawn", k)
  <2>1. I(q, what) \in SUBSET DOMAIN outbound
    OBVIOUS
  <2>2. \E i \in I(q, what) : outbound[i].what = "spawn" /\ outbound[i].key = k
    BY <1>2, <1>4, <2>1, PickedHas
  <2>3. QED
    BY <2>2 DEF Has
<1> HIDE DEF of, I
<1>5. ASSUME NEW q \in Region, NEW k, Has(inbox'[q], "spawn", k)
      PROVE  Has(inbox[q], "spawn", k) \/ Has(outbound, "spawn", k)
  <2>1. PICK s, a, b, d : s = inbox[q] /\ a = of(q, "spawn") /\ b = of(q, "despawn") /\ d = of(q, "message")
    OBVIOUS
  <2>2. /\ s \in Seq(MessageType) /\ a \in Seq(MessageType) /\ b \in Seq(MessageType)
        /\ d \in Seq(MessageType) /\ inbox'[q] = ((s \o a) \o b) \o d
    BY <1>1, <1>2, <1>3, <2>1
  <2>3. ASSUME NEW u \in Seq(MessageType), NEW v \in Seq(MessageType), NEW w, w = u \o v
        PROVE  w \in Seq(MessageType) /\ (Has(w, "spawn", k) => Has(u, "spawn", k) \/ Has(v, "spawn", k))
    BY <2>3, JoinedHas
  <2>4. PICK x : x = s \o a
    OBVIOUS
  <2>5. PICK y : y = x \o b
    OBVIOUS
  <2>6. inbox'[q] = y \o d
    BY <2>2, <2>4, <2>5
  <2>7. x \in Seq(MessageType) /\ (Has(x, "spawn", k) => Has(s, "spawn", k) \/ Has(a, "spawn", k))
    BY <2>2, <2>3, <2>4
  <2>8. y \in Seq(MessageType) /\ (Has(y, "spawn", k) => Has(x, "spawn", k) \/ Has(b, "spawn", k))
    BY <2>2, <2>3, <2>5, <2>7
  <2>9. Has(y, "spawn", k) \/ Has(d, "spawn", k)
    BY <1>5, <2>2, <2>3, <2>6, <2>8
  <2>10. QED
    BY <1>4, <2>1, <2>7, <2>8, <2>9
<1>6. SUFFICES ASSUME NEW k \in Key PROVE Settles(k)'
  BY DEF SettleInv
<1>7. Held(k)' <=> Held(k)
  BY <1>1 DEF Held
<1>8. CASE Held(k)
  <2>1. PICK r, id : r = ent[k].region /\ id = ent[k].id
    OBVIOUS
  <2>2. Settled(k, r, id)
    BY <1>8, <2>1 DEF SettleInv, Settles
  <2>3. Settled(k, r, id)'
    BY <1>1, <2>2 DEF Settled
  <2>4. r = ent'[k].region /\ id = ent'[k].id
    BY <1>1, <2>1
  <2>5. QED
    BY <1>7, <1>8, <2>3, <2>4 DEF Settles
<1>9. CASE ~Held(k)
  <2>1. Absent(k)
    BY <1>9 DEF SettleInv, Settles
  <2>2. ~Has(outbound', "spawn", k)
    BY <1>1 DEF Has
  <2>3. Absent(k)'
    BY <1>1, <1>5, <2>1, <2>2 DEF Absent
  <2>4. QED
    BY <1>7, <1>9, <2>3 DEF Settles
<1>10. QED
  BY <1>8, <1>9

LEMMA PublisherSettles ==
    ASSUME IInv, HomeInv, SweepInv, SettleInv, Expire \/ Publisher
    PROVE  SettleInv'
<1>1. ~Expire
  BY DEF Expire, HomeInv, RecordsHome
<1>2. CASE \/ \E x \in job["publisher"].due : LeaveBe(x) \/ GiveUp(x)
           \/ Uncarry \/ Unhold \/ Expired
  <2>1. job["publisher"].pc \in {"expire", "uncarry", "unhold"}
    BY <1>2 DEF LeaveBe, GiveUp, Uncarry, Unhold, Expired, At
  <2>2. QED
    BY <2>1 DEF SweepInv, JobsPlain
<1>3. QED
  BY <1>1, <1>2, PublishSettles DEF Publisher

LEMMA GameSettles ==
    ASSUME ClientsWait, SettleInv, Game
    PROVE  SettleInv'
<1>1. PICK k \in Key : GameDespawn(k)
  BY DEF Game, GameSpawn, ClientsWait, ClientsAsk
<1>2. UNCHANGED ent /\ UNCHANGED outbound /\ Still
  BY <1>1 DEF GameDespawn, edge, held, Still
<1>3. QED
  BY <1>2, SettleQuietly

(* A report read settles what it is about: an entity that was added has    *)
(* its id, and one that was removed is nowhere any more.                   *)
LEMMA SettleReads ==
    ASSUME IInv, FlowInv, SettleInv, NEW q \in Region, NEW what, Reads(q, what),
           NEW n, n = presence[q][1].key,
           \A k \in Key : Held(k)' =>
                /\ Held(k) /\ ent'[k].region = ent[k].region /\ (ent[k].id => ent'[k].id)
                /\ (k = n /\ what = "added" => ent'[k].id),
           \A k \in Key : Held(k) /\ ~Held(k)' => k = n /\ what = "removed" /\ ent[k].id,
           AsksKnown
    PROVE  SettleInv'
<1> SUFFICES ASSUME NEW k \in Key PROVE Settles(k)'
  BY DEF SettleInv
<1>0. /\ presence \in [Region -> Seq(ReportType)] /\ presence[q] \in Seq(ReportType)
      /\ presence[q] # <<>> /\ presence[q][1].what = what
      /\ inbox' = inbox /\ alive' = alive /\ presence' = [presence EXCEPT ![q] = Tail(@)]
  BY Queues DEF Reads, IInv
<1>1. presence'[q] = Tail(presence[q]) /\ \A p \in Region \ {q} : presence'[p] = presence[p]
  BY <1>0
<1>2. \A w : Has(presence[q], w, k) <=> (what = w /\ n = k) \/ Has(presence'[q], w, k)
  BY <1>0, <1>1, TailHas
<1>3. CASE ~Held(k)
  <2>1. Absent(k) /\ ~Held(k)'
    BY <1>3 DEF SettleInv, Settles
  <2>2. ~Has(outbound', "spawn", k)
    BY <2>1 DEF AsksKnown, Absent
  <2>3. Absent(k)'
    BY <1>0, <2>1, <2>2 DEF Absent
  <2>4. QED
    BY <2>1, <2>3 DEF Settles
<1>4. CASE Held(k) /\ ~Held(k)'
  <2>1. PICK r, id, doomed : r = ent[k].region /\ id = ent[k].id /\ doomed = ent[k].doomed
    OBVIOUS
  <2>2. Settled(k, r, id) /\ Flow(k, r, id, doomed) /\ r \in Region
    BY <1>4, <2>1, OfHeld DEF SettleInv, Settles, FlowInv, Flows
  <2>3. k = n /\ what = "removed" /\ id
    BY <1>4, <2>1
  <2>4. Has(presence[q], "removed", k)
    BY <1>2, <2>3
  <2>5. q = r /\ \A p \in Region : k \notin alive[p]
    BY <2>2, <2>4 DEF Settled
  <2>6. ~Has(outbound, "spawn", k) /\ \A p \in Region : ~Has(inbox[p], "spawn", k)
    BY <2>2, <2>3 DEF Flow, Answers, Comes
  <2>7. ~Has(outbound', "spawn", k)
    BY <1>4, <2>6 DEF AsksKnown
  <2>8. Absent(k)'
    BY <1>0, <2>5, <2>6, <2>7 DEF Absent
  <2>9. QED
    BY <1>4, <2>8 DEF Settles
<1>5. CASE Held(k) /\ Held(k)'
  <2>1. PICK r, id, has : r = ent[k].region /\ id = ent[k].id /\ has = ent'[k].id
    OBVIOUS
  <2>2. Settled(k, r, id) /\ ent'[k].region = r /\ (id => has) /\ (k = n /\ what = "added" => has)
    BY <1>5, <2>1 DEF SettleInv, Settles
  <2>3. r \in Region
    BY <1>5, <2>1, OfHeld
  <2>4. ASSUME NEW p \in Region, NEW w, Has(presence'[p], w, k)
        PROVE  Has(presence[p], w, k)
    <3>1. CASE p = q
      BY <1>2, <2>4, <3>1
    <3>2. CASE p # q
      BY <1>1, <2>4, <3>2
    <3>3. QED
      BY <3>1, <3>2
  <2>5. Has(presence[r], "added", k) => has \/ Has(presence'[r], "added", k)
    <3>1. CASE r = q
      BY <1>2, <2>2, <3>1
    <3>2. CASE r # q
      BY <1>1, <2>3, <3>2
    <3>3. QED
      BY <3>1, <3>2
  <2>6. \A p \in Region \ {r} : k \notin alive'[p] /\ ~Has(presence'[p], "removed", k)
    BY <1>0, <2>2, <2>4 DEF Settled
  <2>7. Has(presence'[r], "removed", k) => k \notin alive'[r]
    BY <1>0, <2>2, <2>4, <2>3 DEF Settled
  <2>8. k \in alive'[r] \/ Has(presence'[r], "removed", k) => has \/ Has(presence'[r], "added", k)
    BY <1>0, <2>2, <2>4, <2>5, <2>3 DEF Settled
  <2>9. Settled(k, r, has)'
    BY <2>6, <2>7, <2>8 DEF Settled
  <2>10. r = ent'[k].region /\ has = ent'[k].id
    BY <2>1, <2>2
  <2>11. QED
    BY <1>5, <2>9, <2>10 DEF Settles
<1>6. QED
  BY <1>3, <1>4, <1>5

LEMMA ReportSettles ==
    ASSUME IInv, HomeInv, FlowInv, SettleInv, NEW r \in Region,
           AddedUnknown(r) \/ Added(r) \/ RemovedUnknown(r) \/ Removed(r)
    PROVE  SettleInv'
<1>0. PICK n : n = presence[r][1].key
  OBVIOUS
<1>1. CASE AddedUnknown(r)
  <2> DEFINE ms == <<Despawning(r, n)>>
  <2>1. Reads(r, "added") /\ ~Held(n) /\ Send(ms) /\ UNCHANGED ent
    BY <1>0, <1>1 DEF AddedUnknown, edge, held
  <2>2. n \in Key
    BY <1>0, <2>1, ReadHome
  <2>3. ms \in Seq(MessageType) /\ DOMAIN ms = {1} /\ ms[1].what = "despawn"
    BY <2>2, MessageTypes DEF Despawning
  <2> HIDE DEF ms
  <2>4. AsksKnown
    BY <2>1, <2>3, AsksOnly
  <2>5. \A k : Held(k)' <=> Held(k)
    BY <2>1 DEF Held
  <2>6. QED
    BY <1>0, <2>1, <2>4, <2>5, SettleReads
<1>2. CASE Added(r)
  <2> DEFINE e == [ent[n] EXCEPT !.id = TRUE, !.replaces = None]
  <2>1. /\ Reads(r, "added") /\ Held(n) /\ UNCHANGED outbound /\ ent' = [ent EXCEPT ![n] = e]
    BY Zenon, <1>0, <1>2 DEF Added
  <2>2. n \in Key
    BY <1>0, <2>1, ReadHome
  <2>3. e \in EntityType /\ e.region = ent[n].region /\ e.id = TRUE
    BY <2>1, <2>2, OfHeld DEF EntityType
  <2> HIDE DEF e
  <2>4. \A k \in Key : ent'[k] = IF k = n THEN e ELSE ent[k]
    BY <2>1, <2>2 DEF IInv, TypeOK
  <2>5. \A k \in Key : Held(k)' =>
            /\ Held(k) /\ ent'[k].region = ent[k].region /\ (ent[k].id => ent'[k].id)
            /\ (k = n /\ "added" = "added" => ent'[k].id)
    BY <2>1, <2>3, <2>4 DEF Held
  <2>6. e # None
    BY <2>3, NoneFacts
  <2>7. \A k \in Key : Held(k) /\ ~Held(k)' => FALSE
    BY <2>4, <2>6 DEF Held
  <2>8. AsksKnown
    BY <2>1, AsksNothing
  <2>9. QED
    BY <1>0, <2>1, <2>5, <2>7, <2>8, SettleReads
<1>3. CASE RemovedUnknown(r)
  <2>1. Reads(r, "removed") /\ UNCHANGED ent /\ UNCHANGED outbound
    BY <1>0, <1>3 DEF RemovedUnknown, edge, held
  <2>2. \A k : Held(k)' <=> Held(k)
    BY <2>1 DEF Held
  <2>3. QED
    BY <1>0, <2>1, <2>2, AsksNothing, SettleReads
<1>4. CASE Removed(r)
  <2>1. /\ Reads(r, "removed") /\ n \in byId /\ ent' = [ent EXCEPT ![n] = None] /\ UNCHANGED outbound
    BY Zenon, <1>0, <1>4 DEF Removed, Drop
  <2>2. /\ \A k \in Key : ent'[k] = IF k = n THEN None ELSE ent[k]
        /\ n \in Key /\ Held(n) /\ ent[n].id
    BY <2>1 DEF IInv, TypeOK, IndexAgrees
  <2>3. \A k \in Key : Held(k)' => k # n /\ Held(k) /\ ent'[k] = ent[k]
    BY <2>2 DEF Held
  <2>4. \A k \in Key : Held(k) /\ ~Held(k)' => k = n
    BY <2>2 DEF Held
  <2>5. QED
    BY <1>0, <2>1, <2>2, <2>3, <2>4, AsksNothing, SettleReads
<1>5. QED
  BY <1>1, <1>2, <1>3, <1>4

LEMMA ReaderSettles ==
    ASSUME IInv, HomeInv, FlowInv, SweepInv, SettleInv, OnlyPresence, Reader
    PROVE  SettleInv'
<1>1. ASSUME NEW r \in Region, NEW what, Reads(r, what) PROVE what \in {"added", "removed"}
  <2>1. presence[r] \in Seq(ReportOf(Key, {"added", "removed"})) /\ presence[r] # <<>>
    BY <1>1 DEF OnlyPresence, RegionsOf, Reads
  <2>2. presence[r][1] \in ReportOf(Key, {"added", "removed"})
    BY <2>1
  <2>3. QED
    BY <1>1, <2>2 DEF ReportOf, Reads
<1>2. ASSUME NEW r \in Region, Boundary(r) \/ ViewCollision(r) \/ ViewCleared(r) PROVE FALSE
  BY <1>1, <1>2 DEF Boundary, ViewCollision, ViewCleared
<1>3. CASE \/ CopyOrphaned \/ Remap \/ Panic \/ Landed \/ Rehandle \/ Resend \/ Stand \/ Arrive
           \/ Unlist \/ KeepShadow \/ AskShadow \/ ViewSeen \/ List
  <2>1. job["reader"].pc \in {"remap", "landed", "rehandle", "resend", "stand", "arrive",
                              "unlist", "view", "list"}
    BY <1>3 DEF CopyOrphaned, Remap, Panic, Landed, Rehandle, Resend, Stand, Arrive,
       Unlist, KeepShadow, AskShadow, ViewSeen, List, At
  <2>2. QED
    BY <2>1 DEF SweepInv, JobsPlain, ReadsOn
<1>4. CASE Greet \/ Notify
  <2>1. UNCHANGED ent /\ UNCHANGED outbound /\ Still
    BY <1>4 DEF Greet, Notify, edge, held, world, regions, Still
  <2>2. QED
    BY <2>1, SettleQuietly
<1>5. QED
  BY <1>2, <1>3, <1>4, ReportSettles DEF Reader

(* A region takes what was asked of it: what was not held is not asked for,*)
(* and what was asked for is answered for.                                 *)
LEMMA TakesSettles ==
    ASSUME IInv, FlowInv, SettleInv, NEW q \in Region, RegionTakes(q)
    PROVE  SettleInv'
<1> SUFFICES ASSUME NEW k \in Key PROVE Settles(k)'
  BY DEF SettleInv
<1>0. /\ inbox \in [Region -> Seq(MessageType)] /\ presence \in [Region -> Seq(ReportType)]
      /\ presence[q] \in Seq(ReportType)
  BY Queues DEF IInv
<1>1. UNCHANGED ent /\ UNCHANGED outbound
  <2>1. Worlds
    BY DEF Worlds
  <2>2. QED
    BY <2>1, WorldsFrame DEF edge, held
<1>2. PICK b \in Seq(MessageType), c \in Seq(MessageType),
           gone \in Seq(ReportType), come \in Seq(ReportType) :
              /\ inbox[q] = b \o c /\ inbox' = [inbox EXCEPT ![q] = c]
              /\ presence' = [presence EXCEPT ![q] = @ \o gone \o come]
              /\ ~Has(gone, "added", k) /\ ~Has(come, "removed", k)
              /\ Has(come, "added", k) => Has(b, "spawn", k)
              /\ Once(b, "spawn", k) => Once(come, "added", k)
              /\ Has(gone, "removed", k) <=>
                    Has(b, "despawn", k) /\ (k \in alive[q] \/ Has(come, "added", k))
              /\ k \in alive'[q] <=>
                    (k \in alive[q] \/ Has(come, "added", k)) /\ ~Has(b, "despawn", k)
              /\ \A p \in Region \ {q} : alive'[p] = alive[p]
              /\ UNCHANGED outbound
  BY TakenUp DEF IInv
<1>3. /\ inbox'[q] = c /\ presence'[q] = (presence[q] \o gone) \o come
      /\ \A p \in Region \ {q} : inbox'[p] = inbox[p] /\ presence'[p] = presence[p]
  BY <1>0, <1>2
<1>4. \A w : Has(inbox[q], w, k) <=> Has(b, w, k) \/ Has(c, w, k)
  BY <1>2, JoinedHas
<1>5. ASSUME NEW w
      PROVE  Has(presence'[q], w, k) <=> Has(presence[q], w, k) \/ Has(gone, w, k) \/ Has(come, w, k)
  <2>1. PICK s : s = presence[q] \o gone
    OBVIOUS
  <2>2. s \in Seq(ReportType) /\ (Has(s, w, k) <=> Has(presence[q], w, k) \/ Has(gone, w, k))
    BY <1>0, <1>2, <2>1, JoinedHas
  <2>3. Has(s \o come, w, k) <=> Has(s, w, k) \/ Has(come, w, k)
    BY <1>2, <2>2, JoinedHas
  <2>4. presence'[q] = s \o come
    BY <1>3, <2>1
  <2>5. QED
    BY <2>2, <2>3, <2>4
<1>6. /\ Has(come, "added", k) => Has(inbox[q], "spawn", k)
      /\ k \in alive'[q] => k \in alive[q] \/ Has(come, "added", k)
      /\ Has(presence'[q], "removed", k) <=> Has(presence[q], "removed", k) \/ Has(gone, "removed", k)
      /\ Has(presence'[q], "added", k) <=> Has(presence[q], "added", k) \/ Has(come, "added", k)
      /\ Has(gone, "removed", k) => (k \in alive[q] \/ Has(come, "added", k)) /\ k \notin alive'[q]
  BY <1>2, <1>4, <1>5
<1>7. CASE ~Held(k)
  <2>1. Absent(k) /\ ~Held(k)'
    BY <1>1, <1>7 DEF SettleInv, Settles, Held
  <2>2. ~Has(come, "added", k) /\ ~Has(inbox'[q], "spawn", k) /\ k \notin alive'[q]
    BY <1>3, <1>4, <1>6, <2>1 DEF Absent
  <2>3. \A p \in Region : k \notin alive'[p] /\ ~Has(inbox'[p], "spawn", k)
    BY <1>2, <1>3, <2>1, <2>2 DEF Absent
  <2>4. Absent(k)'
    BY <1>2, <2>1, <2>3 DEF Absent
  <2>5. QED
    BY <2>1, <2>4 DEF Settles
<1>8. CASE Held(k)
  <2>1. PICK r, id, doomed : r = ent[k].region /\ id = ent[k].id /\ doomed = ent[k].doomed
    OBVIOUS
  <2>2. /\ Settled(k, r, id) /\ Comes(k, r) /\ Answers(k, r, id) /\ r \in Region /\ Held(k)'
        /\ r = ent'[k].region /\ id = ent'[k].id
    BY <1>1, <1>8, <2>1, OfHeld DEF SettleInv, Settles, FlowInv, Flows, Flow, Held
  <2>3. ASSUME q # r PROVE Settled(k, r, id)'
    <3>1. ~Has(come, "added", k)
      BY <1>6, <2>2, <2>3 DEF Comes
    <3>2. k \notin alive'[q] /\ ~Has(presence'[q], "removed", k)
      BY <1>6, <2>2, <2>3, <3>1 DEF Settled
    <3>3. /\ \A p \in Region \ {r} : k \notin alive'[p] /\ ~Has(presence'[p], "removed", k)
          /\ alive'[r] = alive[r] /\ presence'[r] = presence[r]
      BY <1>2, <1>3, <2>2, <2>3, <3>2 DEF Settled
    <3>4. QED
      BY <2>2, <3>3 DEF Settled
  <2>4. ASSUME q = r PROVE Settled(k, r, id)'
    <3>1. \A p \in Region \ {r} : k \notin alive'[p] /\ ~Has(presence'[p], "removed", k)
      BY <1>2, <1>3, <2>2, <2>4 DEF Settled
    <3>2. Has(come, "added", k) => ~Has(presence[r], "removed", k)
      <4>1. Has(inbox[r], "spawn", k) => ~id /\ ~Has(presence[r], "added", k)
        BY <2>2 DEF Comes, Answers
      <4>2. QED
        BY <1>6, <2>2, <2>4, <4>1 DEF Settled
    <3>3. Has(presence'[r], "removed", k) => k \notin alive'[r]
      BY <1>6, <2>2, <2>4, <3>2 DEF Settled
    <3>4. k \in alive'[r] \/ Has(presence'[r], "removed", k) => id \/ Has(presence'[r], "added", k)
      BY <1>6, <2>2, <2>4 DEF Settled
    <3>5. QED
      BY <3>1, <3>3, <3>4 DEF Settled
  <2>5. Settled(k, r, id)'
    BY <2>3, <2>4
  <2>6. QED
    BY <2>2, <2>5 DEF Settles
<1>9. QED
  BY <1>7, <1>8

(* A region's game despawns an entity, and reports it.                     *)
LEMMA DespawnSettles ==
    ASSUME IInv, SettleInv, NEW q \in Region, NEW x \in Key, RegionDespawns(q, x)
    PROVE  SettleInv'
<1> SUFFICES ASSUME NEW k \in Key PROVE Settles(k)'
  BY DEF SettleInv
<1> DEFINE z == [what |-> "removed", key |-> x, to |-> {}]
           m == <<z>>
<1>0. /\ presence \in [Region -> Seq(ReportType)] /\ presence[q] \in Seq(ReportType)
      /\ alive \in [Region -> SUBSET Key]
  BY Queues DEF IInv
<1>1. /\ UNCHANGED <<ent, outbound, inbox>> /\ x \in alive[q]
      /\ presence' = [presence EXCEPT ![q] = Append(@, z)]
      /\ alive' = [alive EXCEPT ![q] = @ \ {x}]
  BY DEF RegionDespawns, Happens, edge, held
<1>2. z \in ReportType /\ z.what = "removed" /\ z.key = x
  BY <1>1 DEF ReportType
<1> HIDE DEF z
<1>3. /\ presence'[q] = presence[q] \o m /\ \A p \in Region \ {q} : presence'[p] = presence[p]
      /\ m \in Seq(ReportType) /\ DOMAIN m = {1} /\ m[1] = z
  BY <1>0, <1>1, <1>2
<1> HIDE DEF m
<1>4. /\ Has(presence'[q], "removed", k) <=> Has(presence[q], "removed", k) \/ x = k
      /\ Has(presence'[q], "added", k) <=> Has(presence[q], "added", k)
  <2>1. (Has(m, "removed", k) <=> x = k) /\ ~Has(m, "added", k)
    BY <1>2, <1>3 DEF Has
  <2>2. \A w : Has(presence[q] \o m, w, k) <=> Has(presence[q], w, k) \/ Has(m, w, k)
    BY <1>0, <1>3, JoinedHas
  <2>3. QED
    BY <1>3, <2>1, <2>2
<1>5. /\ \A p \in Region : alive'[p] \subseteq alive[p]
      /\ x \notin alive'[q]
  <2>1. alive'[q] = alive[q] \ {x} /\ \A p \in Region \ {q} : alive'[p] = alive[p]
    BY <1>0, <1>1
  <2>2. QED
    BY <2>1
<1>6. Held(k)' <=> Held(k)
  BY <1>1 DEF Held
<1>7. CASE ~Held(k)
  <2>1. Absent(k)
    BY <1>7 DEF SettleInv, Settles
  <2>2. Absent(k)'
    BY <1>1, <1>5, <2>1 DEF Absent
  <2>3. QED
    BY <1>6, <1>7, <2>2 DEF Settles
<1>8. CASE Held(k)
  <2>1. PICK r, id : r = ent[k].region /\ id = ent[k].id
    OBVIOUS
  <2>2. /\ Settled(k, r, id) /\ r \in Region /\ r = ent'[k].region /\ id = ent'[k].id
    BY <1>1, <1>8, <2>1, OfHeld DEF SettleInv, Settles
  <2>3. x = k => q = r
    BY <1>1, <2>2 DEF Settled
  <2>4. ASSUME NEW p \in Region \ {r} PROVE k \notin alive'[p] /\ ~Has(presence'[p], "removed", k)
    <3>1. k \notin alive'[p]
      BY <1>5, <2>2, <2>4 DEF Settled
    <3>2. ~Has(presence'[p], "removed", k)
      BY <1>3, <1>4, <2>2, <2>3, <2>4 DEF Settled
    <3>3. QED
      BY <3>1, <3>2
  <2>5. Has(presence'[r], "removed", k) => k \notin alive'[r]
    BY <1>3, <1>4, <1>5, <2>2 DEF Settled
  <2>6. k \in alive'[r] \/ Has(presence'[r], "removed", k) => id \/ Has(presence'[r], "added", k)
    BY <1>1, <1>3, <1>4, <1>5, <2>2, <2>3 DEF Settled
  <2>7. Settled(k, r, id)'
    BY <2>4, <2>5, <2>6 DEF Settled
  <2>8. QED
    BY <1>6, <1>8, <2>2, <2>7 DEF Settles
<1>9. QED
  BY <1>7, <1>8

LEMMA WorldsSettles ==
    ASSUME ClientsWait, IInv, FlowInv, SettleInv, Worlds
    PROVE  SettleInv'
<1>1. "cross" \notin Events /\ "view" \notin Events
  BY DEF ClientsWait, ClientsAsk, StayPut
<1>2. QED
  BY <1>1, TakesSettles, DespawnSettles DEF Worlds, MeetBoundary, SeeBeyond, SeeNothing

LEMMA NextSettles ==
    ASSUME ClientsWait, IInv, HomeInv, FlowInv, OnlyPresence, SweepInv, WaitInv, SettleInv,
           [Next]_vars
    PROVE  SettleInv'
<1>1. CASE Next
  BY <1>1, CommonSettles, ReaderSettles, PublisherSettles, GameSettles, WorldsSettles,
     CommandedSettles, SaySettles DEF Next
<1>2. CASE UNCHANGED vars
  BY <1>2, SettleQuietly DEF vars, edge, held, world, regions, Still
<1>3. QED
  BY <1>1, <1>2

LEMMA InitSettles == Init => SettleInv
  BY DEF Init, SettleInv, Settles, Held, Absent, Has

(* Once nothing is under way, what the edge holds is what its regions hold.*)
LEMMA QuietMatches ==
    ASSUME IInv, FlowInv, SettleInv
    PROVE  EdgeMatchesRegions
<1> SUFFICES ASSUME Quiet, NEW r \in Region
             PROVE  alive[r] = {k \in Key : Held(k) /\ ent[k].id /\ ~ent[k].doomed /\ ent[k].region = r}
  BY DEF EdgeMatchesRegions
<1>1. alive[r] \subseteq Key
  BY Queues DEF IInv
<1>2. ASSUME NEW k \in alive[r]
      PROVE  Held(k) /\ ent[k].id /\ ~ent[k].doomed /\ ent[k].region = r
  <2>1. k \in Key /\ Held(k)
    BY <1>1 DEF SettleInv, Settles, Absent
  <2>2. PICK q, id : q = ent[k].region /\ id = ent[k].id
    OBVIOUS
  <2>3. Settled(k, q, id)
    BY <2>1, <2>2 DEF SettleInv, Settles
  <2>4. q = r
    BY <2>3 DEF Settled
  <2>5. ~Has(presence[r], "added", k)
    BY DEF Quiet, Has
  <2>6. id
    BY <2>3, <2>4, <2>5 DEF Settled
  <2>7. QED
    BY <2>1, <2>2, <2>4, <2>6, DoomedGone
<1>3. ASSUME NEW k \in Key, Held(k), ent[k].id, ent[k].region = r PROVE k \in alive[r]
  <2>1. PICK id, doomed : id = ent[k].id /\ doomed = ent[k].doomed
    OBVIOUS
  <2>2. Flow(k, r, id, doomed) /\ id
    BY <1>3, <2>1 DEF FlowInv, Flows
  <2>3. ~Has(presence[r], "removed", k)
    BY DEF Quiet, Has
  <2>4. QED
    BY <2>2, <2>3 DEF Flow, Answers
<1>4. QED
  BY <1>1, <1>2, <1>3

(* Once nothing is under way, each region has alive exactly the entities   *)
(* the edge holds in it with an id and has not given back: spawn, release, *)
(* on_presence, publish and the regions' frames together, whatever was     *)
(* refused, whatever the regions' games despawned and whichever report was *)
(* read first, for any number of clients, regions and entities.  Clients   *)
(* wait to be told of what they spawned before they give it back: forget   *)
(* may otherwise run after the region's answer was read.                   *)
THEOREM EdgeAlwaysMatches == ClientsWait => (Spec => []EdgeMatchesRegions)
<1> SUFFICES ASSUME ClientsWait PROVE Spec => []EdgeMatchesRegions
  OBVIOUS
<1> DEFINE All == HomeInv /\ FlowInv /\ OnlyPresence /\ SweepInv /\ WaitInv /\ SettleInv
<1>1. Init => All
  BY InitHome, InitFlows, InitSweeps, InitWaits, InitSettles
<1>2. IInv /\ IInv' /\ All /\ [Next]_vars => All'
  <2> SUFFICES ASSUME IInv, IInv', All, [Next]_vars PROVE All'
    OBVIOUS
  <2>1. ClientsAsk /\ StayPut
    BY DEF ClientsWait, ClientsAsk
  <2>2. HomeInv'
    BY <2>1, NextHome
  <2>3. FlowInv' /\ OnlyPresence' /\ SweepInv'
    BY <2>1, <2>2, NextFlows, PresenceOnly, NextSweepInv
  <2>4. WaitInv'
    BY NextWaitInv
  <2>5. SettleInv'
    BY NextSettles
  <2>6. QED
    BY <2>2, <2>3, <2>4, <2>5
<1>3. IInv /\ All => EdgeMatchesRegions
  BY QuietMatches
<1>4. QED
  BY <1>1, <1>2, <1>3, EdgeServerInvariant, PTL DEF Spec

-----------------------------------------------------------------------------
(* The shadows an observer lists.  What one of them stands for, and what   *)
(* need not match: an observer that is gone, or about to be.               *)
StandsFor(s, k) == Held(s) /\ ent[s].shadowOf = k

Excused(k) == ~Held(k) \/ ent[k].doomed \/ \E t \in Thread : k \in Targets(job[t])

(* The reader while it settles which shadows a view asks for, while it     *)
(* releases the others, and while it takes one that went off the list.     *)
Viewing(j) == j.pc = "view" \/ (j.pc = "ask" /\ j.next = "view")
Closing(j) == j.pc = "list" \/ (Sweeping(j) /\ j.after = "list")
Views(j, k) == (Viewing(j) \/ Closing(j)) /\ j.key = k
Unlisting(j) == j.pc = "unlist" \/ (j.pc = "unbind" /\ j.next = "unlist")

(* Where a step that several threads take returns to.                      *)
Turns(j) ==
    /\ j.pc = "ask" => j.next \in {"rest", "view"}
    /\ j.pc \in {"release", "forget"} => j.next \in {"rest", "todo"}
    /\ j.pc = "unbind" => j.next \in {"rest", "todo", "unlist"}

(* A shadow is its observer's client's, and goes by no handle; what is     *)
(* listed stands for who lists it.                                         *)
Stands(s) ==
    LET o == ent[s].shadowOf
    IN  o # None => o \in Known /\ ent[s].handle = None /\ (Held(o) => ent[o].client = ent[s].client)

Lineage ==
    \A s \in Key : Held(s) =>
        Stands(s) /\ \A x \in ent[s].shadows : Held(x) => ent[x].shadowOf = s

(* A stream that sweeps a shadow sweeps its observer with it.              *)
SweptTogether ==
    \A t \in Thread \ {"reader"} : \A s \in Targets(job[t]) :
        Held(s) /\ ent[s].shadowOf # None => Excused(ent[s].shadowOf)

Working(j) ==
    /\ Unlisting(j) => j.victim \in Known /\ ~Held(j.victim)
    /\ Viewing(j) \/ Closing(j) =>
        /\ j.key \in Known /\ (Held(j.key) => ent[j.key].client = j.client)
        /\ \A s \in j.keep : Held(s) => ent[s].shadowOf = j.key
    /\ Viewing(j) => \A x \in j.had : Held(x[1]) => ent[x[1]].shadowOf = j.key

(* What is listed and gone comes off the list; what stands for k and is    *)
(* not listed goes, or comes onto it; and what a view found or asked for   *)
(* is there until the list is replaced.                                    *)
Matches(k, j) ==
    /\ \A s \in ent[k].shadows : ~Held(s) =>
          \/ Unlisting(j) /\ j.victim = s /\ j.other = k
          \/ Closing(j) /\ j.key = k /\ s \notin j.keep
    /\ \A s \in Key : StandsFor(s, k) /\ s \notin ent[k].shadows =>
          ent[s].doomed \/ s \in Targets(j) \/ (Views(j, k) /\ s \in j.keep)
    /\ \A s \in ent[k].shadows : Held(s) /\ s \in Targets(j) => Closing(j) /\ j.key = k
    /\ Views(j, k) => \A s \in j.keep : Held(s) /\ s \notin Targets(j)
    /\ Viewing(j) /\ j.key = k =>
          /\ \A x \in j.had : Held(x[1])
          /\ \A s \in ent[k].shadows : Held(s) => \E x \in j.had : x[1] = s
    /\ Closing(j) /\ j.key = k => \A s \in ent[k].shadows :
          Held(s) => s \in j.keep \/ s \in Targets(j) \/ ent[s].doomed

ListInv ==
    /\ \A t \in Thread : Turns(job[t])
    /\ Lineage /\ SweptTogether /\ Working(job["reader"])
    /\ \A k \in Key : ~Excused(k) => Matches(k, job["reader"])

(* What a step may do to an entity: nothing to what its lists rest on      *)
(* (Unaltered); anything to what it lists, but it stays whose it was and   *)
(* stands for what it did (Remains); and make it anew, observing nothing   *)
(* and standing for none (Arrives).                                        *)
Unaltered(x) ==
    /\ ent'[x].client = ent[x].client /\ ent'[x].handle = ent[x].handle
    /\ ent'[x].shadows = ent[x].shadows /\ ent'[x].shadowOf = ent[x].shadowOf
    /\ ent[x].doomed => ent'[x].doomed

Remains(x) ==
    Held(x)' => \/ x = minted
                \/ Held(x) /\ ent'[x].client = ent[x].client /\ ent'[x].handle = ent[x].handle
                   /\ ent'[x].shadowOf = ent[x].shadowOf /\ (ent[x].doomed => ent'[x].doomed)

Arrives(x) ==
    Held(x)' => \/ Held(x) /\ Unaltered(x)
                \/ x = minted /\ ent'[x].shadows = {} /\ ent'[x].shadowOf = None

(* The reader is as far with a view, a list or a removal as it was.        *)
SameWork(j, w) ==
    /\ Viewing(w) <=> Viewing(j)
    /\ Closing(w) <=> Closing(j)
    /\ Unlisting(w) <=> Unlisting(j)
    /\ Viewing(j) \/ Closing(j) =>
          w.key = j.key /\ w.keep = j.keep /\ w.had = j.had /\ w.client = j.client
    /\ Unlisting(j) => w.victim = j.victim /\ w.other = j.other

(* A step of thread t that leaves the lists, and what the reader makes of  *)
(* them, as they are: entities arrive, and go if t was to let go of them.  *)
Eases(t) ==
    /\ OthersStay(t) /\ Turns(job'[t])
    /\ \A x \in Key : Arrives(x)
    /\ \A x \in Key : Held(x) /\ ~Held(x)' => x \in Targets(job[t])
    /\ \A x \in Targets(job[t]) : x \in Targets(job'[t]) \/ ~Held(x)' \/ ent'[x].doomed
    /\ IF t = "reader"
       THEN Targets(job'[t]) \subseteq Targets(job[t]) /\ SameWork(job[t], job'[t])
       ELSE \A x \in Targets(job'[t]) \ Targets(job[t]) :
                Held(x)' /\ ent'[x].shadowOf # None => Excused(ent[x].shadowOf)'

LEMMA KnownGrows ==
    ASSUME IInv, HomeInv, HomeStep
    PROVE  Known \subseteq Known'
<1>1. JobsHome /\ OwnersAgree
  BY DEF HomeInv
<1>2. QED
  BY <1>1, StaysKeeps, StartsKeeps, PartsKeeps, UnbindsKeeps, BindsKeeps DEF HomeStep

(* What is at hand was minted.                                             *)
LEMMA Minted ==
    ASSUME IInv, HomeInv
    PROVE  /\ minted \notin Known
           /\ \A t \in Thread : \A s : s \in Targets(job[t]) \cup job[t].keep => s \in Key /\ s # minted
           /\ \A t \in Thread : \A x \in job[t].had : x[1] \in Known /\ x[1] \in Key /\ x[1] # minted
           /\ \A k \in Key : Held(k) => k # minted /\ ent[k].shadows \subseteq Known
           /\ Known \subseteq Key
<1>1. minted \in Nat /\ Key \subseteq Nat
  BY MintedIsNat, NoneFacts DEF IInv
<1>2. minted \notin Known /\ Known \subseteq Key
  BY <1>1 DEF Known
<1>3. ASSUME NEW t \in Thread
      PROVE  /\ \A s : s \in Targets(job[t]) \cup job[t].keep => s \in Key /\ s # minted
             /\ \A x \in job[t].had : x[1] \in Known /\ x[1] \in Key /\ x[1] # minted
  <2>1. JobHome(job[t], Known) /\ job[t] \in JobType
    BY DEF HomeInv, JobsHome, IInv, TypeOK
  <2>2. job[t].pc = "ask" => job[t].other \in Key /\ job[t].other < minted
    BY HandFacts DEF HomeInv, OwnersAgree, AsksAlone
  <2>3. job[t].pc = "ask" => job[t].other \in Key /\ job[t].other # minted
    BY <1>1, <2>2
  <2>4. \A s \in job[t].keep : s \in Key /\ s # minted
    BY <1>2, <2>1, <2>3 DEF JobHome
  <2>5. \A s \in Targets(job[t]) : s \in Key /\ s # minted
    BY <1>2, <2>1 DEF JobHome, Targets
  <2>6. QED
    BY <1>2, <2>1, <2>4, <2>5 DEF JobHome
<1>4. ASSUME NEW k \in Key, Held(k) PROVE k # minted /\ ent[k].shadows \subseteq Known
  <2>1. k < minted
    BY <1>4 DEF IInv, TypeOK
  <2>2. QED
    BY <1>1, <1>4, <2>1 DEF HomeInv, RecordsHome
<1>5. QED
  BY <1>2, <1>3, <1>4

LEMMA ExcusedStays ==
    ASSUME IInv, HomeInv, NEW t \in Thread, OthersStay(t), \A x \in Key : Remains(x),
           \A x \in Targets(job[t]) : x \in Targets(job'[t]) \/ ~Held(x)' \/ ent'[x].doomed,
           NEW k \in Key, k # minted, Excused(k)
    PROVE  Excused(k)'
<1>1. CASE ~Held(k)
  BY <1>1 DEF Remains, Excused
<1>2. CASE Held(k) /\ ent[k].doomed
  <2>1. Held(k)' => ent'[k].doomed
    BY <1>2 DEF Remains
  <2>2. QED
    BY <2>1 DEF Excused
<1>3. ASSUME NEW u \in Thread, k \in Targets(job[u]) PROVE Excused(k)'
  <2>1. CASE u = t
    <3>1. k \in Targets(job'[t]) \/ ~Held(k)' \/ ent'[k].doomed
      BY <1>3, <2>1
    <3>2. QED
      BY <3>1 DEF Excused
  <2>2. CASE u # t
    BY <1>3, <2>2 DEF Excused, OthersStay
  <2>3. QED
    BY <2>1, <2>2
<1>4. QED
  BY <1>1, <1>2, <1>3 DEF Excused

(* What lists, lists what it did or what stands for it already.            *)
LEMMA LineageKept ==
    ASSUME IInv, HomeInv, ListInv, HomeStep, \A x \in Key : Remains(x),
           \A x \in Key : Held(x)' /\ x # minted => \A y \in ent'[x].shadows :
                y \in ent[x].shadows \/ (y \in Key /\ y # minted /\ (Held(y) => ent[y].shadowOf = x)),
           \A x \in Key : Held(x)' /\ x = minted => Stands(x)' /\ ent'[x].shadows = {}
    PROVE  Lineage'
<1>1. Known \subseteq Known' /\ minted \notin Known /\ Known \subseteq Key
  BY KnownGrows, Minted
<1> SUFFICES ASSUME NEW s \in Key, Held(s)', s # minted
             PROVE  Stands(s)' /\ \A x \in ent'[s].shadows : Held(x)' => ent'[x].shadowOf = s
  BY DEF Lineage
<1>2. /\ Held(s) /\ ent'[s].client = ent[s].client /\ ent'[s].handle = ent[s].handle
      /\ ent'[s].shadowOf = ent[s].shadowOf
  BY DEF Remains
<1>3. Stands(s) /\ \A x \in ent[s].shadows : Held(x) => ent[x].shadowOf = s
  BY <1>2 DEF ListInv, Lineage
<1>4. ent[s].shadows \subseteq Known
  BY <1>2, Minted
<1>5. ASSUME NEW x \in ent'[s].shadows, Held(x)' PROVE ent'[x].shadowOf = s
  <2>1. x \in Key /\ x # minted /\ (Held(x) => ent[x].shadowOf = s)
    BY <1>1, <1>3, <1>4
  <2>2. QED
    BY <1>5, <2>1 DEF Remains
<1>6. PICK o : o = ent[s].shadowOf
  OBVIOUS
<1>7. o # None => o \in Known /\ ent[s].handle = None /\ (Held(o) => ent[o].client = ent[s].client)
  BY <1>3, <1>6 DEF Stands
<1>8. o # None /\ Held(o)' => Held(o) /\ ent'[o].client = ent[o].client
  BY <1>1, <1>7 DEF Remains
<1>9. o # None => o \in Known'
  BY <1>1, <1>7
<1>10. Stands(s)'
  BY <1>2, <1>6, <1>7, <1>8, <1>9 DEF Stands
<1>11. QED
  BY <1>5, <1>10

LEMMA ArrivesRemains ==
    ASSUME \A x \in Key : Arrives(x)
    PROVE  \A x \in Key : Remains(x)
  BY DEF Arrives, Remains, Unaltered

LEMMA EasesSwept ==
    ASSUME IInv, HomeInv, ListInv, NEW t \in Thread, OthersStay(t), \A x \in Key : Remains(x),
           \A x \in Targets(job[t]) : x \in Targets(job'[t]) \/ ~Held(x)' \/ ent'[x].doomed,
           t # "reader" => \A x \in Targets(job'[t]) \ Targets(job[t]) :
                Held(x)' /\ ent'[x].shadowOf # None => Excused(ent[x].shadowOf)'
    PROVE  SweptTogether'
<1> SUFFICES ASSUME NEW u \in Thread \ {"reader"}, NEW s \in Targets(job'[u]),
                    Held(s)', ent'[s].shadowOf # None
             PROVE  Excused(ent[s].shadowOf)'
  BY DEF SweptTogether
<1>1. CASE s \notin Targets(job[u])
  BY <1>1 DEF OthersStay
<1>2. CASE s \in Targets(job[u])
  <2>1. s \in Key /\ s # minted
    BY <1>2, Minted
  <2>2. Held(s) /\ ent'[s].shadowOf = ent[s].shadowOf
    BY <2>1 DEF Remains
  <2>3. PICK o : o = ent[s].shadowOf
    OBVIOUS
  <2>4. ent'[s].shadowOf = o /\ o # None
    BY <2>2, <2>3
  <2>5. Excused(o) /\ o \in Known
    BY <1>2, <2>1, <2>2, <2>3, <2>4 DEF ListInv, SweptTogether, Lineage, Stands
  <2>6. o \in Key /\ o # minted
    BY <2>5, Minted
  <2>7. Excused(o)'
    BY <2>5, <2>6, ExcusedStays
  <2>8. QED
    BY <2>4, <2>7
<1>3. QED
  BY <1>1, <1>2

LEMMA EasesWorking ==
    ASSUME IInv, HomeInv, ListInv, HomeStep, \A x \in Key : Arrives(x),
           SameWork(job["reader"], job'["reader"])
    PROVE  Working(job["reader"])'
<1>0. PICK j, w : j = job["reader"] /\ w = job'["reader"]
  OBVIOUS
<1>1. Known \subseteq Known' /\ minted \notin Known /\ Known \subseteq Key
  BY KnownGrows, Minted
<1>2. Working(j) /\ SameWork(j, w)
  BY <1>0 DEF ListInv
<1>3. /\ \A s \in j.keep : s \in Key /\ s # minted
      /\ \A x \in j.had : x[1] \in Key /\ x[1] # minted
  BY <1>0, Minted, ThreadFacts
<1>4. \A x \in Key : x # minted /\ Held(x)' => Held(x) /\ Unaltered(x)
  BY DEF Arrives
<1>5. Unlisting(w) => w.victim \in Known' /\ ~Held(w.victim)'
  <2>1. Unlisting(w) => w.victim = j.victim /\ j.victim \in Known /\ ~Held(j.victim)
    BY <1>2 DEF SameWork, Working
  <2>2. QED
    BY <1>1, <1>4, <2>1
<1>6. ASSUME Viewing(w) \/ Closing(w)
      PROVE  /\ w.key \in Known' /\ (Held(w.key)' => ent'[w.key].client = w.client)
             /\ \A s \in w.keep : Held(s)' => ent'[s].shadowOf = w.key
             /\ w.key = j.key /\ w.keep = j.keep /\ w.had = j.had /\ w.client = j.client
  <2>1. /\ Viewing(j) \/ Closing(j)
        /\ w.key = j.key /\ w.keep = j.keep /\ w.had = j.had /\ w.client = j.client
    BY <1>2, <1>6 DEF SameWork
  <2>2. /\ j.key \in Known /\ (Held(j.key) => ent[j.key].client = j.client)
        /\ \A s \in j.keep : Held(s) => ent[s].shadowOf = j.key
    BY <1>2, <2>1 DEF Working
  <2>3. Held(j.key)' => ent'[j.key].client = j.client
    BY <1>1, <1>4, <2>2 DEF Unaltered
  <2>4. \A s \in j.keep : Held(s)' => ent'[s].shadowOf = j.key
    BY <1>3, <1>4, <2>2 DEF Unaltered
  <2>5. QED
    BY <1>1, <2>1, <2>2, <2>3, <2>4
<1>7. Viewing(w) => \A x \in w.had : Held(x[1])' => ent'[x[1]].shadowOf = w.key
  <2> SUFFICES ASSUME Viewing(w), NEW x \in w.had, Held(x[1])' PROVE ent'[x[1]].shadowOf = w.key
    OBVIOUS
  <2>1. Viewing(j) /\ w.key = j.key /\ x \in j.had
    BY <1>2, <1>6 DEF SameWork
  <2>2. Held(x[1]) /\ Unaltered(x[1])
    BY <1>3, <1>4, <2>1
  <2>3. QED
    BY <1>2, <2>1, <2>2 DEF Working, Unaltered
<1>8. QED
  BY <1>0, <1>5, <1>6, <1>7 DEF Working

(* An entity that has come is not listed by any, and lists none.           *)
LEMMA NewMatches ==
    ASSUME IInv, HomeInv, ListInv, \A x \in Key : Arrives(x),
           SameWork(job["reader"], job'["reader"]),
           NEW k \in Key, k = minted, Held(k)', ent'[k].shadows = {}
    PROVE  Matches(k, job["reader"])'
<1>0. PICK j, w : j = job["reader"] /\ w = job'["reader"]
  OBVIOUS
<1>1. k \notin Known
  BY Minted
<1>2. Working(j) /\ SameWork(j, w)
  BY <1>0 DEF ListInv
<1>3. ASSUME Viewing(w) \/ Closing(w) PROVE w.key # k
  BY <1>1, <1>2, <1>3 DEF SameWork, Working
<1>4. ASSUME NEW s \in Key, StandsFor(s, k)' PROVE FALSE
  <2>1. Held(s)' /\ ent'[s].shadowOf = k /\ k # None
    BY <1>4, NoneFacts DEF StandsFor
  <2>2. Held(s) /\ ent[s].shadowOf = k
    BY <2>1 DEF Arrives, Unaltered
  <2>3. k \in Known
    BY <2>1, <2>2 DEF ListInv, Lineage, Stands
  <2>4. QED
    BY <1>1, <2>3
<1>5. QED
  BY <1>0, <1>3, <1>4 DEF Matches, Views

LEMMA OldMatches ==
    ASSUME IInv, HomeInv, ListInv, NEW t \in Thread, Eases(t),
           SameWork(job["reader"], job'["reader"]),
           Targets(job'["reader"]) \subseteq Targets(job["reader"]),
           \A s \in Targets(job["reader"]) :
                s \in Targets(job'["reader"]) \/ ~Held(s)' \/ ent'[s].doomed,
           NEW k \in Key, k # minted, Held(k), Unaltered(k), Held(k)', ~Excused(k), ~Excused(k)'
    PROVE  Matches(k, job["reader"])'
<1>0. PICK j, w : j = job["reader"] /\ w = job'["reader"]
  OBVIOUS
<1>1. PICK L : L = ent[k].shadows
  OBVIOUS
<1>2. ent'[k].shadows = L /\ L \subseteq Known
  BY <1>1, Minted DEF Unaltered
<1>3. Matches(k, j) /\ Working(j) /\ SameWork(j, w)
  BY <1>0 DEF ListInv
<1>4. /\ \A x \in Key : x # minted /\ Held(x)' => Held(x) /\ Unaltered(x)
      /\ \A s \in L : s \in Key /\ s # minted
      /\ \A s \in j.keep \cup Targets(j) : s \in Key /\ s # minted
      /\ \A x \in j.had : x[1] \in Key /\ x[1] # minted
  BY <1>0, <1>2, Minted, ThreadFacts DEF Eases, Arrives

<1>5. ASSUME NEW s \in Key, StandsFor(s, k), ~Held(s)'
      PROVE  s \in Targets(j)
  <2>1. s \in Targets(job[t]) /\ Held(s) /\ ent[s].shadowOf = k
    BY <1>5 DEF Eases, StandsFor
  <2>2. t = "reader"
    <3>1. SUFFICES ASSUME t # "reader" PROVE FALSE
      OBVIOUS
    <3>2. Excused(ent[s].shadowOf)
      BY <2>1, <3>1, NoneFacts DEF ListInv, SweptTogether
    <3>3. QED
      BY <2>1, <3>2
  <2>3. QED
    BY <1>0, <2>1, <2>2
<1>6. \A s \in L : Held(s) => StandsFor(s, k)
  BY <1>1, <1>4 DEF ListInv, Lineage, StandsFor
<1>7. Views(w, k) <=> Views(j, k)
  BY <1>3 DEF Views, SameWork
<1>8. Views(j, k) => w.keep = j.keep /\ w.had = j.had /\ \A s \in j.keep : StandsFor(s, k)
  <2>1. Views(j, k) => \A s \in j.keep : Held(s) /\ ent[s].shadowOf = k
    BY <1>3 DEF Matches, Views, Working
  <2>2. QED
    BY <1>3, <2>1 DEF Views, SameWork, StandsFor
<1>9. ASSUME NEW s \in L, ~Held(s)'
      PROVE  \/ Unlisting(w) /\ w.victim = s /\ w.other = k
             \/ Closing(w) /\ w.key = k /\ s \notin w.keep
  <2>1. CASE ~Held(s)
    <3>1. \/ Unlisting(j) /\ j.victim = s /\ j.other = k
          \/ Closing(j) /\ j.key = k /\ s \notin j.keep
      BY <1>1, <1>3, <2>1 DEF Matches
    <3>2. QED
      BY <1>3, <3>1 DEF SameWork
  <2>2. CASE Held(s)
    <3>1. s \in Targets(j)
      BY <1>4, <1>5, <1>6, <1>9, <2>2
    <3>2. Closing(j) /\ j.key = k
      BY <1>1, <1>3, <2>2, <3>1 DEF Matches
    <3>3. s \notin j.keep
      BY <1>3, <3>1, <3>2 DEF Matches, Views
    <3>4. QED
      BY <1>3, <3>2, <3>3 DEF SameWork
  <2>3. QED
    BY <2>1, <2>2
<1>10. ASSUME NEW s \in Key, StandsFor(s, k)', s \notin L
       PROVE  ent'[s].doomed \/ s \in Targets(w) \/ (Views(w, k) /\ s \in w.keep)
  <2>1. Held(s) /\ Unaltered(s) /\ Held(s)' /\ ent'[s].shadowOf = k
    BY <1>10, NoneFacts DEF StandsFor, Eases, Arrives
  <2>2. StandsFor(s, k)
    BY <2>1 DEF StandsFor, Unaltered
  <2>3. ent[s].doomed \/ s \in Targets(j) \/ (Views(j, k) /\ s \in j.keep)
    BY <1>1, <1>3, <1>10, <2>2 DEF Matches
  <2>4. QED
    BY <1>0, <1>7, <1>8, <2>1, <2>3 DEF Unaltered
<1>11. ASSUME NEW s \in L, Held(s)', s \in Targets(w) PROVE Closing(w) /\ w.key = k
  <2>1. Held(s) /\ s \in Targets(j)
    BY <1>0, <1>4, <1>11
  <2>2. Closing(j) /\ j.key = k
    BY <1>1, <1>3, <2>1 DEF Matches
  <2>3. QED
    BY <1>3, <2>2 DEF SameWork
<1>12. ASSUME Views(w, k), NEW s \in w.keep PROVE Held(s)' /\ s \notin Targets(w)
  <2>1. Views(j, k) /\ s \in j.keep /\ StandsFor(s, k)
    BY <1>7, <1>8, <1>12
  <2>2. s \notin Targets(j) /\ s \in Key
    BY <1>3, <1>4, <2>1 DEF Matches
  <2>3. QED
    BY <1>0, <1>5, <2>1, <2>2
<1>13. ASSUME Viewing(w), w.key = k
       PROVE  /\ \A x \in w.had : Held(x[1])'
              /\ \A s \in L : Held(s)' => \E x \in w.had : x[1] = s
  <2>1. Viewing(j) /\ j.key = k /\ w.had = j.had
    BY <1>3, <1>13 DEF SameWork
  <2>2. Targets(j) = {}
    BY <2>1 DEF Viewing, Targets, Sweeping
  <2>3. /\ \A x \in j.had : Held(x[1]) /\ ent[x[1]].shadowOf = k
        /\ \A s \in L : Held(s) => \E x \in j.had : x[1] = s
    BY <1>1, <1>3, <2>1 DEF Matches, Working
  <2>4. \A x \in j.had : Held(x[1])'
    BY <1>4, <1>5, <2>2, <2>3 DEF StandsFor
  <2>5. QED
    BY <1>4, <2>1, <2>3, <2>4
<1>14. ASSUME Closing(w), w.key = k, NEW s \in L, Held(s)'
       PROVE  s \in w.keep \/ s \in Targets(w) \/ ent'[s].doomed
  <2>1. Closing(j) /\ j.key = k /\ Views(j, k) /\ Held(s) /\ Unaltered(s)
    BY <1>3, <1>4, <1>14 DEF SameWork, Views
  <2>2. s \in j.keep \/ s \in Targets(j) \/ ent[s].doomed
    BY <1>1, <1>3, <2>1 DEF Matches
  <2>3. QED
    BY <1>0, <1>8, <1>14, <2>1, <2>2 DEF Unaltered
<1>15. QED
  BY <1>0, <1>2, <1>9, <1>10, <1>11, <1>12, <1>13, <1>14 DEF Matches, Views

LEMMA EasesKeep ==
    ASSUME IInv, HomeInv, ListInv, HomeStep, NEW t \in Thread, Eases(t)
    PROVE  ListInv'
<1>0. PICK r \in Thread : r = "reader"
  BY ThreadFacts
<1>1. \A u \in Thread : Turns(job'[u])
  BY DEF Eases, OthersStay, ListInv
<1>2. Lineage'
  <2>1. \A x \in Key : Held(x)' /\ x # minted => ent'[x].shadows = ent[x].shadows
    BY DEF Eases, Arrives, Unaltered
  <2>2. \A x \in Key : Held(x)' /\ x = minted => Stands(x)' /\ ent'[x].shadows = {}
    BY Minted DEF Eases, Arrives, Stands
  <2>3. QED
    BY <2>1, <2>2, ArrivesRemains, LineageKept DEF Eases
<1>3. SweptTogether'
  BY ArrivesRemains, EasesSwept DEF Eases
<1>4. SameWork(job["reader"], job'["reader"])
  <2>1. \A j : SameWork(j, j)
    BY DEF SameWork
  <2>2. t # r => job'[r] = job[r]
    BY DEF Eases, OthersStay
  <2>3. QED
    BY <1>0, <2>1, <2>2 DEF Eases
<1>5. /\ Targets(job'["reader"]) \subseteq Targets(job["reader"])
      /\ \A s \in Targets(job["reader"]) :
              s \in Targets(job'["reader"]) \/ ~Held(s)' \/ ent'[s].doomed
  <2>1. t # r => job'[r] = job[r]
    BY DEF Eases, OthersStay
  <2>2. QED
    BY <1>0, <2>1 DEF Eases
<1>6. Working(job["reader"])'
  BY <1>4, EasesWorking DEF Eases
<1>7. ASSUME NEW k \in Key, ~Excused(k)' PROVE Matches(k, job["reader"])'
  <2>1. Held(k)'
    BY <1>7 DEF Excused
  <2>2. CASE k = minted
    <3>1. ~Held(k) /\ ent'[k].shadows = {}
      BY <2>1, <2>2, Minted DEF Eases, Arrives
    <3>2. QED
      BY <1>4, <2>1, <2>2, <3>1, NewMatches DEF Eases
  <2>3. CASE k # minted
    <3>1. Held(k) /\ Unaltered(k)
      BY <2>1, <2>3 DEF Eases, Arrives
    <3>2. ~Excused(k)
      BY <1>7, <2>3, ArrivesRemains, ExcusedStays DEF Eases
    <3>3. QED
      BY <1>4, <1>5, <1>7, <2>1, <2>3, <3>1, <3>2, OldMatches
  <2>4. QED
    BY <2>2, <2>3
<1>8. QED
  BY <1>1, <1>2, <1>3, <1>6, <1>7 DEF ListInv

(* What a thread says of its work between two pieces of it.                *)
Flat(j) == ~Viewing(j) /\ ~Closing(j) /\ ~Unlisting(j) /\ Targets(j) = {}

LEMMA FlatJobs ==
    ASSUME NEW j, j.pc \notin {"ask", "release", "forget", "unbind", "todo", "view", "list", "unlist"}
    PROVE  Flat(j) /\ Turns(j)
  BY DEF Flat, Turns, Viewing, Closing, Unlisting, Targets, Sweeping

LEMMA FlatWork == \A j, w : Flat(j) /\ Flat(w) => SameWork(j, w) /\ Targets(w) \subseteq Targets(j)
  BY DEF Flat, SameWork

LEMMA IdleFlat == Flat(Idle) /\ Turns(Idle)
  BY FlatJobs DEF Idle

(* A thread that returns to where it was, or rests.                        *)
LEMMA ReturnEases ==
    ASSUME IInv, HomeInv, ListInv, NEW t \in Thread, Return(t), NEW j, NEW w, j = job[t], w = job'[t],
           j.pc \in {"ask", "release", "forget", "unbind"}
    PROVE  /\ OthersStay(t) /\ Turns(w) /\ SameWork(j, w) /\ Targets(w) \subseteq Targets(j)
           /\ \A x \in Targets(j) : x \in Targets(w) \/ (j.pc \in {"release", "forget"} /\ x = j.victim)
<1>1. j \in JobType /\ Turns(j)
  BY AtHome DEF ListInv
<1>2. CASE j.next = "rest"
  <2>1. w = Idle /\ OthersStay(t)
    BY <1>2 DEF Return, GoOn, Rest, IInv, TypeOK, OthersStay
  <2>2. ~Viewing(j) /\ ~Closing(j) /\ ~Unlisting(j) /\ ~Sweeping(j)
    BY <1>2 DEF Viewing, Closing, Unlisting, Sweeping
  <2>3. Flat(w) /\ Turns(w)
    BY <2>1, IdleFlat
  <2>4. SameWork(j, w) /\ Targets(w) \subseteq Targets(j)
    BY <2>2, <2>3 DEF Flat, SameWork
  <2>5. \A x \in Targets(j) : j.pc \in {"release", "forget"} /\ x = j.victim
    BY <2>2 DEF Targets
  <2>6. QED
    BY <2>1, <2>3, <2>4, <2>5
<1>3. CASE j.next # "rest"
  <2>1. w = With(j, [pc |-> j.next]) /\ OthersStay(t)
    BY <1>3, Turned DEF Return, GoOn
  <2>2. /\ w.pc = j.next /\ w.next = j.next /\ w.after = j.after /\ w.todo = j.todo
        /\ w.key = j.key /\ w.keep = j.keep /\ w.had = j.had /\ w.client = j.client
        /\ w.victim = j.victim /\ w.other = j.other
    BY <1>1, <2>1 DEF With, JobType
  <2>3. \/ j.pc = "ask" /\ j.next = "view"
        \/ j.pc \in {"release", "forget", "unbind"} /\ j.next = "todo"
        \/ j.pc = "unbind" /\ j.next = "unlist"
    BY <1>1, <1>3 DEF Turns
  <2>4. SameWork(j, w)
    BY <2>2, <2>3 DEF SameWork, Viewing, Closing, Unlisting, Sweeping
  <2>5. Targets(w) \subseteq Targets(j)
    BY <2>2, <2>3 DEF Targets, Sweeping
  <2>6. \A x \in Targets(j) : x \in Targets(w) \/ (j.pc \in {"release", "forget"} /\ x = j.victim)
    BY <2>2, <2>3 DEF Targets, Sweeping
  <2>7. Turns(w)
    BY <2>2, <2>3 DEF Turns
  <2>8. QED
    BY <2>1, <2>4, <2>5, <2>6, <2>7
<1>4. QED
  BY <1>2, <1>3

(* A step that leaves the entities as they are.                            *)
LEMMA EasesSame ==
    ASSUME NEW t \in Thread, OthersStay(t), UNCHANGED ent, NEW j, NEW w, j = job[t], w = job'[t],
           Turns(w), SameWork(j, w), Targets(w) \subseteq Targets(j),
           \A x \in Targets(j) : x \in Targets(w) \/ ~Held(x) \/ ent[x].doomed
    PROVE  Eases(t)
<1>1. \A x \in Key : Held(x)' <=> Held(x)
  BY DEF Held
<1>2. \A x \in Key : Arrives(x)
  BY <1>1 DEF Arrives, Unaltered
<1>3. \A x \in Targets(j) : x \in Key
  BY DEF Targets
<1>4. QED
  BY <1>1, <1>2, <1>3 DEF Eases

LEMMA AskEases ==
    ASSUME IInv, HomeInv, ListInv, NEW t \in Thread, Ask(t)
    PROVE  Eases(t)
<1>1. UNCHANGED ent /\ Return(t) /\ job[t].pc = "ask"
  BY DEF Ask, At, held
<1>2. QED
  BY <1>1, ReturnEases, EasesSame

LEMMA UnbindEases ==
    ASSUME IInv, HomeInv, ListInv, NEW t \in Thread, Unbind(t)
    PROVE  Eases(t)
<1>1. UNCHANGED ent /\ Return(t) /\ job[t].pc = "unbind"
  BY DEF Unbind, At, OnlyClients, held
<1>2. QED
  BY <1>1, ReturnEases, EasesSame

LEMMA UnansweredEases ==
    ASSUME IInv, HomeInv, ListInv, NEW t \in Thread, ReleaseUnanswered(t)
    PROVE  Eases(t)
<1>0. PICK j, w : j = job[t] /\ w = job'[t]
  OBVIOUS
<1>1. j \in JobType /\ Turns(j) /\ j.pc = "release"
  BY <1>0, AtHome DEF ListInv, ReleaseUnanswered, At
<1>2. w = With(j, [pc |-> "forget"]) /\ OthersStay(t) /\ UNCHANGED ent
  BY <1>0, Turned DEF ReleaseUnanswered, OnlyJob, edge, held
<1>3. /\ w.pc = "forget" /\ w.next = j.next /\ w.after = j.after /\ w.todo = j.todo
      /\ w.key = j.key /\ w.keep = j.keep /\ w.had = j.had /\ w.client = j.client
      /\ w.victim = j.victim /\ w.other = j.other
  BY <1>1, <1>2 DEF With, JobType
<1>4. Turns(w) /\ SameWork(j, w)
  BY <1>1, <1>3 DEF Turns, SameWork, Viewing, Closing, Unlisting, Sweeping
<1>5. Targets(w) = Targets(j)
  BY <1>1, <1>3 DEF Targets, Sweeping
<1>6. QED
  BY <1>0, <1>2, <1>4, <1>5, EasesSame

(* A step that changes of one entity what no list depends on.              *)
LEMMA EditedArrives ==
    ASSUME IInv, NEW k \in Key, NEW e, ent' = [ent EXCEPT ![k] = e], Held(k),
           e.client = ent[k].client, e.handle = ent[k].handle, e.shadows = ent[k].shadows,
           e.shadowOf = ent[k].shadowOf, ent[k].doomed => e.doomed
    PROVE  \A x \in Key : Arrives(x) /\ (Held(x)' => Held(x))
<1>1. DOMAIN ent = Key
  BY DEF IInv, TypeOK
<1>2. ASSUME NEW x \in Key PROVE Held(x)' => Held(x) /\ Unaltered(x)
  <2>1. CASE x = k
    <3>1. ent'[x] = e
      BY <1>1, <2>1
    <3>2. QED
      BY <2>1, <3>1 DEF Unaltered
  <2>2. CASE x # k
    <3>1. ent'[x] = ent[x]
      BY <1>1, <2>2
    <3>2. QED
      BY <3>1 DEF Unaltered, Held
  <2>3. QED
    BY <2>1, <2>2
<1>3. QED
  BY <1>2 DEF Arrives

LEMMA ReleaseEases ==
    ASSUME IInv, HomeInv, ListInv, NEW t \in Thread, Release(t)
    PROVE  Eases(t)
<1>0. PICK j, w : j = job[t] /\ w = job'[t]
  OBVIOUS
<1>1. PICK k : k = j.victim
  OBVIOUS
<1>2. j.pc = "release" /\ Return(t) /\ k \in Key
  BY <1>0, <1>1, AtHome DEF Release, At, JobReady
<1>3. /\ OthersStay(t) /\ Turns(w) /\ SameWork(j, w) /\ Targets(w) \subseteq Targets(j)
      /\ \A x \in Targets(j) : x \in Targets(w) \/ x = k
  BY <1>0, <1>1, <1>2, ReturnEases
<1>4. CASE ~Held(k)
  <2>1. UNCHANGED ent
    BY <1>0, <1>1, <1>4 DEF Release
  <2>2. \A x \in Targets(j) : x \in Targets(w) \/ ~Held(x) \/ ent[x].doomed
    BY <1>3, <1>4
  <2>3. QED
    BY <1>0, <1>3, <2>1, <2>2, EasesSame
<1>5. CASE Held(k)
  <2> DEFINE e == [ent[k] EXCEPT !.doomed = TRUE]
  <2>1. ent' = [ent EXCEPT ![k] = e]
    BY <1>0, <1>1, <1>5 DEF Release, Doom
  <2>2. ent[k] \in EntityType /\ ent \in [Key -> EntityType \cup {None}]
    BY <1>2, <1>5, OfHeld
  <2>3. /\ e.client = ent[k].client /\ e.handle = ent[k].handle /\ e.shadows = ent[k].shadows
        /\ e.shadowOf = ent[k].shadowOf /\ e.doomed /\ e \in EntityType
    BY <2>2 DEF EntityType
  <2> HIDE DEF e
  <2>4. \A x \in Key : Arrives(x)
    BY <1>2, <1>5, <2>1, <2>3, EditedArrives
  <2>5. \A x \in Key : ent'[x] = IF x = k THEN e ELSE ent[x]
    BY <2>1, <2>2
  <2>6. e # None
    BY <2>3, NoneFacts
  <2>7. \A x \in Key : Held(x) => Held(x)'
    BY <2>5, <2>6 DEF Held
  <2>8. \A x \in Targets(j) : x \in Targets(w) \/ ent'[x].doomed
    BY <1>2, <1>3, <2>3, <2>5
  <2>9. QED
    BY <1>0, <1>3, <2>4, <2>7, <2>8 DEF Eases
<1>6. QED
  BY <1>4, <1>5

LEMMA ForgetEases ==
    ASSUME IInv, HomeInv, ListInv, NEW t \in Thread, Forget(t)
    PROVE  Eases(t)
<1>0. PICK j, w : j = job[t] /\ w = job'[t]
  OBVIOUS
<1>1. PICK k : k = j.victim
  OBVIOUS
<1>2. j.pc = "forget" /\ k \in Key /\ j \in JobType /\ Turns(j)
  BY <1>0, <1>1, AtHome DEF Forget, At, JobReady, ListInv
<1>3. ent \in [Key -> EntityType \cup {None}] /\ ent' = [ent EXCEPT ![k] = None]
  BY <1>0, <1>1 DEF Forget, Drop, IInv, TypeOK
<1>4. CASE ~Held(k)
  <2>1. ent[k] = None
    BY <1>2, <1>4, NoneFacts DEF Held
  <2>2. \A x \in Key : ent'[x] = ent[x]
    BY <1>2, <1>3, <2>1
  <2>3. UNCHANGED ent
    BY <1>3, <2>2
  <2>4. Return(t)
    BY <1>0, <1>1, <1>4 DEF Forget
  <2>5. /\ OthersStay(t) /\ Turns(w) /\ SameWork(j, w) /\ Targets(w) \subseteq Targets(j)
        /\ \A x \in Targets(j) : x \in Targets(w) \/ x = k
    BY <1>0, <1>1, <1>2, <2>4, ReturnEases
  <2>6. \A x \in Targets(j) : x \in Targets(w) \/ ~Held(x) \/ ent[x].doomed
    BY <1>4, <2>5
  <2>7. QED
    BY <1>0, <2>3, <2>5, <2>6, EasesSame
<1>5. CASE Held(k)
  <2> DEFINE new == [pc |-> "unbind", of |-> <<ent[k].client, ent[k].handle>>]
  <2>1. w = With(j, new) /\ OthersStay(t)
    BY <1>0, <1>1, <1>5, Turned DEF Forget
  <2>2. /\ w.pc = "unbind" /\ w.next = j.next /\ w.after = j.after /\ w.todo = j.todo
        /\ w.key = j.key /\ w.keep = j.keep /\ w.had = j.had /\ w.client = j.client
        /\ w.victim = j.victim /\ w.other = j.other
    BY <1>2, <2>1 DEF With, JobType
  <2>3. Turns(w) /\ SameWork(j, w)
    BY <1>2, <2>2 DEF Turns, SameWork, Viewing, Closing, Unlisting, Sweeping
  <2>4. Targets(w) \subseteq Targets(j) /\ \A x \in Targets(j) : x \in Targets(w) \/ x = k
    BY <1>1, <1>2, <2>2 DEF Targets, Sweeping
  <2>5. k \in Targets(j)
    BY <1>1, <1>2 DEF Targets
  <2>6. \A x \in Key : ent'[x] = IF x = k THEN None ELSE ent[x]
    BY <1>2, <1>3
  <2>7. \A x \in Key : /\ Held(x)' => Held(x) /\ Unaltered(x)
                       /\ Held(x) /\ ~Held(x)' => x = k
    BY <2>6 DEF Held, Unaltered
  <2>8. ~Held(k)'
    BY <1>2, <2>6 DEF Held
  <2>9. \A x \in Key : Arrives(x)
    BY <2>7 DEF Arrives
  <2>10. QED
    BY <1>0, <2>1, <2>3, <2>4, <2>5, <2>7, <2>8, <2>9 DEF Eases
<1>6. QED
  BY <1>4, <1>5

LEMMA ReleaseNextEases ==
    ASSUME IInv, HomeInv, ListInv, NEW t \in Thread, ReleaseNext(t)
    PROVE  Eases(t)
<1>0. PICK j, w : j = job[t] /\ w = job'[t]
  OBVIOUS
<1>1. j.pc = "todo" /\ j \in JobType /\ Turns(j) /\ UNCHANGED ent /\ j.after # "landed"
  BY <1>0, AtHome DEF ReleaseNext, At, ListInv, OnlyJob, edge, held, JobHome
<1>2. CASE j.todo = {} /\ j.after = "rest"
  <2>1. w = Idle /\ OthersStay(t)
    BY <1>0, <1>2 DEF ReleaseNext, GoOn, Rest, IInv, TypeOK, OthersStay
  <2>2. Flat(j)
    BY <1>1, <1>2 DEF Flat, Viewing, Closing, Unlisting, Targets, Sweeping
  <2>3. QED
    BY <1>0, <1>1, <2>1, <2>2, IdleFlat, FlatWork, EasesSame DEF Flat
<1>3. CASE j.todo = {} /\ j.after # "rest"
  <2>1. w = With(j, [pc |-> j.after]) /\ OthersStay(t)
    BY <1>0, <1>3, Turned DEF ReleaseNext, GoOn
  <2>2. /\ w.pc = j.after /\ w.next = j.next /\ w.after = j.after
        /\ w.key = j.key /\ w.keep = j.keep /\ w.had = j.had /\ w.client = j.client
    BY <1>1, <2>1 DEF With, JobType
  <2>3. j.after \in {"finish", "notify", "list"}
    BY <1>1, <1>3 DEF JobType, Afters
  <2>4. Turns(w) /\ SameWork(j, w)
    BY <1>1, <2>2, <2>3 DEF Turns, SameWork, Viewing, Closing, Unlisting, Sweeping
  <2>5. Targets(j) = {} /\ Targets(w) = {}
    BY <1>1, <1>3, <2>2, <2>3 DEF Targets, Sweeping
  <2>6. QED
    BY <1>0, <1>1, <2>1, <2>4, <2>5, EasesSame
<1>4. ASSUME NEW k \in j.todo,
             Then(t, [pc |-> "release", victim |-> k, todo |-> j.todo \ {k}, next |-> "todo"])
      PROVE  Eases(t)
  <2> DEFINE new == [pc |-> "release", victim |-> k, todo |-> j.todo \ {k}, next |-> "todo"]
  <2>1. w = With(j, new) /\ OthersStay(t)
    BY <1>0, <1>4, Turned
  <2>2. /\ w.pc = "release" /\ w.next = "todo" /\ w.after = j.after /\ w.todo = j.todo \ {k}
        /\ w.key = j.key /\ w.keep = j.keep /\ w.had = j.had /\ w.client = j.client
        /\ w.victim = k
    BY <1>1, <2>1 DEF With, JobType
  <2>3. Turns(w) /\ SameWork(j, w)
    BY <1>1, <2>2 DEF Turns, SameWork, Viewing, Closing, Unlisting, Sweeping
  <2>4. Targets(w) = Targets(j)
    BY <1>1, <2>2 DEF Targets, Sweeping
  <2>5. QED
    BY <1>0, <1>1, <2>1, <2>3, <2>4, EasesSame
<1>5. QED
  BY <1>0, <1>2, <1>3, <1>4 DEF ReleaseNext

(* A step from one thing that is no work to another.                       *)
LEMMA FlatEases ==
    ASSUME NEW t \in Thread, OthersStay(t), UNCHANGED ent,
           Flat(job[t]), Flat(job'[t]), Turns(job'[t])
    PROVE  Eases(t)
<1>0. PICK j, w : j = job[t] /\ w = job'[t]
  OBVIOUS
<1>1. SameWork(j, w) /\ Targets(w) \subseteq Targets(j) /\ Targets(j) = {}
  BY <1>0, FlatWork DEF Flat
<1>2. QED
  BY <1>0, <1>1, EasesSame

LEMMA RestFlat ==
    ASSUME IInv, NEW t \in Thread, Rest(t)
    PROVE  OthersStay(t) /\ Flat(job'[t]) /\ Turns(job'[t])
<1>1. job'[t] = Idle /\ OthersStay(t)
  BY DEF Rest, IInv, TypeOK, OthersStay
<1>2. QED
  BY <1>1, IdleFlat

(* A step to something that is no work.                                    *)
LEMMA TurnFlat ==
    ASSUME IInv, NEW t \in Thread, NEW new, Then(t, new), Fields(new), "pc" \in DOMAIN new,
           new.pc \notin {"ask", "release", "forget", "unbind", "todo", "view", "list", "unlist"}
    PROVE  OthersStay(t) /\ Flat(job'[t]) /\ Turns(job'[t])
<1>0. PICK w : w = job'[t]
  OBVIOUS
<1>1. w = With(job[t], new) /\ OthersStay(t) /\ job[t] \in JobType
  BY <1>0, Turned DEF IInv, TypeOK
<1>2. w.pc = new.pc
  BY <1>1, WithFields DEF Idle
<1>3. QED
  BY <1>0, <1>1, <1>2, FlatJobs

LEMMA CommonEases ==
    ASSUME IInv, HomeInv, ListInv, NEW t \in Thread, Common(t)
    PROVE  Eases(t)
<1>1. job[t].pc \notin Abroad
  BY AtHome DEF JobHome
<1>2. ~(Begin(t) \/ Denied(t) \/ (\E carry \in BOOLEAN : AskCopy(t, carry))
        \/ Link(t) \/ Carry(t) \/ Note(t))
  BY <1>1 DEF Abroad, Begin, Denied, AskCopy, Link, Carry, Note, At
<1>3. CASE CheckLeft(t)
  <2>1. Flat(job[t]) /\ UNCHANGED ent
    BY <1>3, FlatJobs DEF CheckLeft, At, OnlyJob, edge, held
  <2> DEFINE new == [pc |-> "fire"]
  <2>2. Fields(new)
    BY DEF Fields, Idle, Steps
  <2>3. OthersStay(t) /\ Flat(job'[t]) /\ Turns(job'[t])
    BY <1>3, <2>2, RestFlat, TurnFlat DEF CheckLeft
  <2>4. QED
    BY <2>1, <2>3, FlatEases
<1>4. CASE Disconnected(t)
  <2>1. Flat(job[t]) /\ UNCHANGED ent /\ Rest(t)
    BY <1>4, FlatJobs DEF Disconnected, At, held
  <2>2. QED
    BY <2>1, RestFlat, FlatEases
<1>5. QED
  BY <1>2, <1>3, <1>4, AskEases, UnansweredEases, ReleaseEases, ForgetEases, UnbindEases,
     ReleaseNextEases DEF Common

(* A step of the reader that changes a list, or begins or ends its work    *)
(* on one.                                                                 *)
LEMMA ReaderKeeps ==
    ASSUME IInv, HomeInv, ListInv, HomeStep, NEW j, NEW w, j = job["reader"], w = job'["reader"],
           OthersStay("reader"), Turns(w), Targets(j) = {}, \A x \in Key : Remains(x),
           Lineage', Working(w)',
           \A k \in Key : Held(k)' /\ ~Excused(k)' /\ k # minted /\ Held(k) /\ ~Excused(k)
                /\ Matches(k, j) => Matches(k, w)',
           \A k \in Key : Held(k)' /\ k = minted => Matches(k, w)'
    PROVE  ListInv'
<1>0. PICK r \in Thread : r = "reader"
  BY ThreadFacts
<1>1. \A u \in Thread : Turns(job'[u])
  BY <1>0 DEF OthersStay, ListInv
<1>2. SweptTogether'
  BY <1>0, EasesSwept
<1>3. ASSUME NEW k \in Key, ~Excused(k)' PROVE Matches(k, w)'
  <2>1. Held(k)'
    BY <1>3 DEF Excused
  <2>2. CASE k # minted
    <3>1. Held(k)
      BY <2>1, <2>2 DEF Remains
    <3>2. ~Excused(k)
      BY <1>0, <1>3, <2>2, ExcusedStays
    <3>3. Matches(k, j)
      BY <3>2 DEF ListInv
    <3>4. QED
      BY <1>3, <2>1, <2>2, <3>1, <3>2, <3>3
  <2>3. QED
    BY <2>1, <2>2
<1>4. Working(job["reader"])' /\ \A k \in Key : ~Excused(k)' => Matches(k, job["reader"])'
  BY <1>3 DEF Working, Matches, Views, StandsFor
<1>5. QED
  BY <1>1, <1>2, <1>4 DEF ListInv

(* Where no list is being worked on, and where none is any more.           *)
LEMMA FlatMatches ==
    ASSUME NEW k, NEW j, Flat(j)
    PROVE  Matches(k, j) <=>
            /\ \A s \in ent[k].shadows : Held(s)
            /\ \A s \in Key : StandsFor(s, k) => s \in ent[k].shadows \/ ent[s].doomed
  BY DEF Flat, Matches, Views

LEMMA RemovedListed ==
    ASSUME IInv, HomeInv, ListInv, NEW r \in Region, Removed(r)
    PROVE  ListInv'
<1>0. PICK k, j, w : k = presence[r][1].key /\ j = job["reader"] /\ w = job'["reader"]
  OBVIOUS
<1>1. k \in Known /\ k \in Key /\ j = Idle /\ "reader" \in Thread /\ Held(k)
  <2>1. k \in byId
    BY <1>0 DEF Removed
  <2>2. QED
    BY Zenon, <1>0, <2>1, ReadHome, ThreadFacts DEF Removed, IInv, IndexAgrees
<1>2. HomeStep /\ Known \subseteq Known' /\ k # minted
  BY <1>1, RemovedHome, KnownGrows, Minted
<1>3. PICK owner, L : owner = ent[k].shadowOf /\ L = ent[k].shadows
  OBVIOUS
<1> DEFINE next == IF owner = None THEN "todo" ELSE "unlist"
           new == [pc |-> "unbind", victim |-> k, of |-> <<ent[k].client, ent[k].handle>>,
                   client |-> ent[k].client, handle |-> ent[k].handle,
                   other |-> owner, todo |-> L, next |-> next, after |-> "notify"]
<1>4. w = With(j, new) /\ OthersStay("reader")
  <2>1. Then("reader", new)
    BY <1>0, <1>3 DEF Removed
  <2>2. QED
    BY <1>0, <1>1, <2>1, Turned
<1>5. /\ w.pc = "unbind" /\ w.victim = k /\ w.other = owner /\ w.todo = L /\ w.next = next
      /\ w.after = "notify"
  BY <1>1, <1>4 DEF With, Idle
<1>6. \A x \in Key : ent'[x] = IF x = k THEN None ELSE ent[x]
  BY <1>0, <1>1 DEF Removed, Drop, IInv, TypeOK
<1>7. \A x \in Key : Held(x)' <=> Held(x) /\ x # k
  BY <1>6 DEF Held
<1>8. \A x \in Key : Remains(x)
  BY <1>6, <1>7 DEF Remains
<1>9. Lineage'
  <2>1. \A x \in Key : Held(x)' => x # minted /\ ent'[x].shadows = ent[x].shadows
    BY <1>6, <1>7, Minted
  <2>2. QED
    BY <1>2, <1>8, <2>1, LineageKept
<1>10. Turns(w) /\ ~Viewing(w) /\ ~Closing(w) /\ (Unlisting(w) <=> owner # None)
  BY <1>5 DEF Turns, Viewing, Closing, Unlisting, Sweeping
<1>11. \A x : x \in Targets(w) => owner = None /\ x \in L
  BY <1>5 DEF Targets, Sweeping
<1>12. Working(w)'
  BY <1>1, <1>2, <1>5, <1>7, <1>10 DEF Working
<1>13. Flat(j)
  BY <1>1, IdleFlat
<1>14. ASSUME NEW x \in Key, Held(x)', ~Excused(x)', x # minted, Held(x), ~Excused(x), Matches(x, j)
       PROVE  Matches(x, w)'
  <2>1. PICK S : S = ent[x].shadows
    OBVIOUS
  <2>2. x # k /\ ent'[x].shadows = S /\ S \subseteq Known /\ Known \subseteq Key
    BY <1>6, <1>7, <1>14, <2>1, Minted
  <2>3. /\ \A s \in S : Held(s) /\ s \in Key
        /\ \A s \in Key : StandsFor(s, x) => s \in S \/ ent[s].doomed
    BY <1>13, <1>14, <2>1, <2>2, FlatMatches
  <2>4. \A s \in S : ent[s].shadowOf = x
    BY <1>14, <2>1, <2>3 DEF ListInv, Lineage
  <2>5. ASSUME NEW s \in S, ~Held(s)' PROVE Unlisting(w) /\ w.victim = s /\ w.other = x
    <3>1. s = k
      BY <1>7, <2>3, <2>5
    <3>2. owner = x /\ x # None
      BY <1>3, <2>4, <2>5, <3>1, NoneFacts
    <3>3. QED
      BY <1>5, <1>10, <3>1, <3>2
  <2>6. ASSUME NEW s \in Key, StandsFor(s, x)', s \notin S PROVE ent'[s].doomed
    <3>1. StandsFor(s, x) /\ ent'[s] = ent[s]
      BY <1>6, <1>7, <2>6 DEF StandsFor
    <3>2. QED
      BY <2>3, <2>6, <3>1
  <2>7. ASSUME NEW s \in S, Held(s)', s \in Targets(w) PROVE FALSE
    <3>1. s \in L /\ Held(s)
      BY <1>11, <2>3, <2>7
    <3>2. ent[s].shadowOf = k
      BY <1>1, <1>3, <3>1 DEF ListInv, Lineage
    <3>3. QED
      BY <2>2, <2>4, <3>2
  <2>8. QED
    BY <1>10, <2>2, <2>5, <2>6, <2>7 DEF Matches, Views
<1>15. \A x \in Key : Held(x)' => x # minted
  BY <1>7, Minted
<1>16. Targets(j) = {}
  BY <1>13 DEF Flat
<1>17. QED
  BY Zenon, <1>0, <1>2, <1>4, <1>8, <1>9, <1>10, <1>12, <1>14, <1>15, <1>16, ReaderKeeps

(* A step of the reader that changes no record.                            *)
LEMMA SameLists ==
    ASSUME IInv, HomeInv, ListInv, HomeStep, UNCHANGED ent
    PROVE  /\ \A x \in Key : Remains(x) /\ (Held(x)' => x # minted)
           /\ Lineage'
<1>1. \A x \in Key : Held(x)' <=> Held(x)
  BY DEF Held
<1>2. \A x \in Key : Remains(x) /\ (Held(x)' => x # minted)
  BY <1>1, Minted DEF Remains
<1>3. /\ \A x \in Key : Remains(x)
      /\ \A x \in Key : Held(x)' /\ x # minted => \A y \in ent'[x].shadows :
            y \in ent[x].shadows \/ (y \in Key /\ y # minted /\ (Held(y) => ent[y].shadowOf = x))
      /\ \A x \in Key : Held(x)' /\ x = minted => Stands(x)' /\ ent'[x].shadows = {}
  BY <1>2
<1>4. Lineage'
  BY <1>3, LineageKept
<1>5. QED
  BY <1>2, <1>4

LEMMA ViewCollisionListed ==
    ASSUME IInv, HomeInv, ListInv, NEW r \in Region, ViewCollision(r), job' # job
    PROVE  ListInv'
<1>0. PICK k, j, w : k = presence[r][1].key /\ j = job["reader"] /\ w = job'["reader"]
  OBVIOUS
<1>1. k \in Known /\ k \in Key /\ j = Idle /\ "reader" \in Thread /\ Held(k)
  <2>1. k \in byId
    BY Zenon, <1>0 DEF ViewCollision
  <2>2. QED
    BY <1>0, <2>1, ReadHome, ThreadFacts DEF ViewCollision, IInv, IndexAgrees
<1>2. HomeStep /\ Known \subseteq Known' /\ UNCHANGED ent
  BY ViewCollisionHome, KnownGrows DEF ViewCollision, edge, held
<1>3. PICK L, had, c : /\ L = ent[k].shadows /\ c = ent[k].client
                       /\ had = {<<s, ent[s].region>> : s \in {x \in L : Held(x)}}
  OBVIOUS
<1>4. L \subseteq Known /\ Known \subseteq Key
  BY <1>1, <1>3, Minted
<1>5. /\ \A x \in had : x[1] \in L /\ Held(x[1])
      /\ \A s \in L : Held(s) => \E x \in had : x[1] = s
  <2>1. ASSUME NEW x \in had PROVE x[1] \in L /\ Held(x[1])
    <3>1. PICK s \in {y \in L : Held(y)} : x = <<s, ent[s].region>>
      BY <1>3
    <3>2. x[1] = s
      BY <3>1
    <3>3. QED
      BY <3>1, <3>2
  <2>2. ASSUME NEW s \in L, Held(s) PROVE \E x \in had : x[1] = s
    <3>1. <<s, ent[s].region>> \in had
      BY <1>3, <2>2
    <3>2. <<s, ent[s].region>>[1] = s
      OBVIOUS
    <3>3. QED
      BY <3>1, <3>2
  <2>3. QED
    BY <2>1, <2>2
<1> DEFINE new == [pc |-> "view", key |-> k, client |-> c, reach |-> presence[r][1].to, had |-> had]
<1>6. w = With(j, new) /\ OthersStay("reader")
  <2>1. Then("reader", new)
    BY Zenon, <1>0, <1>3 DEF ViewCollision
  <2>2. QED
    BY <1>0, <1>1, <2>1, Turned
<1>7. w.pc = "view" /\ w.key = k /\ w.had = had /\ w.client = c /\ w.keep = {}
  BY <1>1, <1>6 DEF With, Idle
<1>8. Turns(w) /\ Viewing(w) /\ ~Closing(w) /\ ~Unlisting(w) /\ Targets(w) = {}
  BY <1>7 DEF Turns, Viewing, Closing, Unlisting, Targets, Sweeping
<1>9. Flat(j) /\ Targets(j) = {}
  BY <1>1, IdleFlat DEF Flat
<1>10. \A x \in Key : Held(x)' <=> Held(x)
  BY <1>2 DEF Held
<1>11. \A x \in L : Held(x) => ent[x].shadowOf = k
  BY <1>1, <1>3 DEF ListInv, Lineage
<1>12. Working(w)'
  <2>1. \A x \in had : Held(x[1])' => ent'[x[1]].shadowOf = k
    BY <1>2, <1>5, <1>11
  <2>2. k \in Known' /\ ent'[k].client = c
    BY <1>1, <1>2, <1>3
  <2>3. QED
    BY <1>7, <1>8, <2>1, <2>2 DEF Working
<1>13. ASSUME NEW x \in Key, Held(x)', ~Excused(x)', x # minted, Held(x), ~Excused(x), Matches(x, j)
       PROVE  Matches(x, w)'
  <2>1. PICK S : S = ent[x].shadows
    OBVIOUS
  <2>2. S \subseteq Key /\ ent'[x].shadows = S
    BY <1>2, <1>4, <1>13, <2>1, Minted
  <2>3. /\ \A s \in S : Held(s)
        /\ \A s \in Key : StandsFor(s, x) => s \in S \/ ent[s].doomed
    BY <1>9, <1>13, <2>1, FlatMatches
  <2>4. \A s \in S : Held(s)'
    BY <1>10, <2>2, <2>3
  <2>5. \A s \in Key : StandsFor(s, x)' => s \in S \/ ent'[s].doomed
    BY <1>2, <1>10, <2>3 DEF StandsFor
  <2>6. w.key = x => /\ \A y \in had : Held(y[1])'
                     /\ \A s \in S : Held(s)' => \E y \in had : y[1] = s
    BY <1>3, <1>4, <1>5, <1>7, <1>10, <2>1
  <2>7. QED
    BY <1>7, <1>8, <2>2, <2>4, <2>5, <2>6 DEF Matches, Views
<1>14. (\A x \in Key : Remains(x) /\ (Held(x)' => x # minted)) /\ Lineage'
  BY <1>2, SameLists
<1>15. QED
  BY <1>0, <1>2, <1>6, <1>8, <1>9, <1>12, <1>13, <1>14, ReaderKeeps

(* What went off comes off its observer's list.                            *)
LEMMA UnlistListed ==
    ASSUME IInv, HomeInv, ListInv, Unlist
    PROVE  ListInv'
<1>0. PICK v, o, j, w : /\ j = job["reader"] /\ w = job'["reader"]
                        /\ v = j.victim /\ o = j.other
  OBVIOUS
<1>1. j.pc = "unlist" /\ "reader" \in Thread /\ Rest("reader") /\ Unlisting(j)
  BY <1>0, ThreadFacts DEF Unlist, At, Unlisting
<1>2. HomeStep /\ Known \subseteq Known'
  BY UnlistHome, KnownGrows
<1>3. v \in Known /\ ~Held(v) /\ v \in Key
  BY <1>0, <1>1, Minted DEF ListInv, Working
<1>4. OthersStay("reader") /\ Flat(w) /\ Turns(w) /\ w = Idle
  BY <1>0, <1>1, RestFlat DEF Rest, IInv, TypeOK
<1> DEFINE e == [ent[o] EXCEPT !.shadows = @ \ {v}]
<1>5. ent' = IF Held(o) THEN [ent EXCEPT ![o] = e] ELSE ent
  BY <1>0 DEF Unlist, Unlisted
<1>6. \A x \in Key : Held(x) => ent[x] \in EntityType
  BY OfHeld
<1>7. \A x \in Key :
        /\ Held(x)' <=> Held(x)
        /\ Held(x) => /\ ent'[x].client = ent[x].client /\ ent'[x].handle = ent[x].handle
                      /\ ent'[x].shadowOf = ent[x].shadowOf /\ ent'[x].doomed = ent[x].doomed
                      /\ ent'[x].shadows = IF x = o THEN ent[x].shadows \ {v} ELSE ent[x].shadows
  <2> SUFFICES ASSUME NEW x \in Key
               PROVE  /\ Held(x)' <=> Held(x)
                      /\ Held(x) =>
                          /\ ent'[x].client = ent[x].client /\ ent'[x].handle = ent[x].handle
                          /\ ent'[x].shadowOf = ent[x].shadowOf /\ ent'[x].doomed = ent[x].doomed
                          /\ ent'[x].shadows = IF x = o THEN ent[x].shadows \ {v} ELSE ent[x].shadows
    OBVIOUS
  <2>1. CASE x = o /\ Held(x)
    <3>1. ent'[x] = e /\ ent[x] \in EntityType
      BY <1>5, <1>6, <2>1 DEF IInv, TypeOK
    <3>2. /\ e.client = ent[x].client /\ e.handle = ent[x].handle /\ e.shadowOf = ent[x].shadowOf
          /\ e.doomed = ent[x].doomed /\ e.shadows = ent[x].shadows \ {v} /\ e \in EntityType
      BY <2>1, <3>1 DEF EntityType
    <3>3. QED
      BY <2>1, <3>1, <3>2, NoneFacts DEF Held
  <2>2. CASE ~(x = o /\ Held(x))
    <3>1. ent'[x] = ent[x]
      BY <1>5, <2>2 DEF IInv, TypeOK
    <3>2. QED
      BY <2>2, <3>1 DEF Held
  <2>3. QED
    BY <2>1, <2>2
<1> HIDE DEF e
<1>8. /\ \A x \in Key : Remains(x)
      /\ \A x \in Key : Held(x)' => x # minted
  BY <1>7, Minted DEF Remains
<1>9. Lineage'
  <2>1. \A x \in Key : Held(x)' /\ x # minted => \A y \in ent'[x].shadows : y \in ent[x].shadows
    BY <1>7
  <2>2. QED
    BY <1>2, <1>8, <2>1, LineageKept
<1>10. Working(w)' /\ Targets(j) = {} /\ ~Viewing(j) /\ ~Closing(j)
  BY <1>1, <1>4 DEF Working, Flat, Targets, Sweeping, Viewing, Closing
<1>11. ASSUME NEW x \in Key, Held(x)', ~Excused(x)', x # minted, Held(x), ~Excused(x), Matches(x, j)
       PROVE  Matches(x, w)'
  <2>1. PICK S : S = ent[x].shadows
    OBVIOUS
  <2>2. PICK T : T = ent'[x].shadows
    OBVIOUS
  <2>3. /\ S \subseteq Known /\ Known \subseteq Key
        /\ T = IF x = o THEN S \ {v} ELSE S
    BY <1>7, <1>11, <2>1, <2>2, Minted
  <2>4. /\ \A s \in S : ~Held(s) => v = s /\ o = x
        /\ \A s \in Key : StandsFor(s, x) => s \in S \/ ent[s].doomed
    BY <1>0, <1>10, <1>11, <2>1 DEF Matches, Views
  <2>5. \A s \in T : Held(s)'
    BY <1>7, <2>3, <2>4
  <2>6. \A s \in Key : StandsFor(s, x)' => s \in T \/ ent'[s].doomed
    BY <1>3, <1>7, <2>3, <2>4 DEF StandsFor
  <2>7. QED
    BY <1>4, <2>2, <2>5, <2>6 DEF Flat, Matches, Views
<1>12. QED
  BY <1>0, <1>2, <1>4, <1>8, <1>9, <1>10, <1>11, ReaderKeeps

(* A view's shadow that stands where it should, and the end of the view.   *)
LEMMA KeepShadowListed ==
    ASSUME IInv, HomeInv, ListInv, KeepShadow
    PROVE  ListInv'
<1>0. PICK j, w : j = job["reader"] /\ w = job'["reader"]
  OBVIOUS
<1>1. j.pc = "view" /\ j \in JobType /\ "reader" \in Thread
  BY <1>0, AtHome, ThreadFacts DEF KeepShadow, At
<1>2. HomeStep /\ Known \subseteq Known' /\ UNCHANGED ent
  BY KeepShadowHome, KnownGrows DEF KeepShadow, OnlyJob, edge, held
<1>3. PICK x \in j.had : Then("reader", [reach |-> j.reach \ {x[2]}, keep |-> j.keep \cup {x[1]}])
  BY <1>0 DEF KeepShadow
<1>4. PICK s : s = x[1]
  OBVIOUS
<1> DEFINE new == [reach |-> j.reach \ {x[2]}, keep |-> j.keep \cup {x[1]}]
<1>5. w = With(j, new) /\ OthersStay("reader")
  BY <1>0, <1>1, <1>3, Turned
<1>6. /\ w.pc = "view" /\ w.key = j.key /\ w.had = j.had /\ w.client = j.client
      /\ w.keep = j.keep \cup {s} /\ w.next = j.next
  BY <1>1, <1>4, <1>5 DEF With, JobType
<1>7. /\ Turns(w) /\ Viewing(w) /\ ~Closing(w) /\ ~Unlisting(w) /\ Targets(w) = {}
      /\ Viewing(j) /\ ~Closing(j) /\ ~Unlisting(j) /\ Targets(j) = {}
  BY <1>1, <1>6 DEF Turns, Viewing, Closing, Unlisting, Targets, Sweeping
<1>8. (\A y \in Key : Remains(y) /\ (Held(y)' => y # minted)) /\ Lineage'
  BY <1>2, SameLists
<1>9. \A y : Held(y)' <=> Held(y)
  BY <1>2 DEF Held
<1>10. Working(j)
  BY <1>0 DEF ListInv
<1>11. Working(w)'
  BY <1>2, <1>3, <1>4, <1>6, <1>7, <1>9, <1>10 DEF Working
<1>12. ASSUME NEW k \in Key, Held(k)', ~Excused(k)', k # minted, Held(k), ~Excused(k), Matches(k, j)
       PROVE  Matches(k, w)'
  <2>1. PICK S : S = ent[k].shadows /\ S = ent'[k].shadows
    BY <1>2
  <2>2. /\ \A y \in S : Held(y)
        /\ \A y \in Key : StandsFor(y, k) /\ y \notin S => ent[y].doomed \/ (Views(j, k) /\ y \in j.keep)
        /\ Views(j, k) => \A y \in j.keep : Held(y)
        /\ j.key = k => /\ \A y \in j.had : Held(y[1])
                        /\ \A y \in S : Held(y) => \E z \in j.had : z[1] = y
    BY <1>7, <1>12, <2>1 DEF Matches
  <2>3. Views(w, k) <=> Views(j, k)
    BY <1>6, <1>7 DEF Views
  <2>4. /\ \A y \in S : Held(y)'
        /\ Views(w, k) => \A y \in w.keep : Held(y)'
        /\ w.key = k => /\ \A y \in w.had : Held(y[1])'
                        /\ \A y \in S : Held(y)' => \E z \in w.had : z[1] = y
    BY <1>3, <1>4, <1>6, <1>9, <2>2, <2>3 DEF Views
  <2>5. \A y \in Key : StandsFor(y, k)' /\ y \notin S => ent'[y].doomed \/ (Views(w, k) /\ y \in w.keep)
    BY <1>2, <1>6, <1>9, <2>2, <2>3 DEF StandsFor
  <2>6. QED
    BY <1>7, <2>1, <2>4, <2>5 DEF Matches, Views
<1>13. QED
  BY <1>0, <1>2, <1>5, <1>7, <1>8, <1>11, <1>12, ReaderKeeps

LEMMA ViewSeenListed ==
    ASSUME IInv, HomeInv, ListInv, ViewSeen
    PROVE  ListInv'
<1>0. PICK j, w : j = job["reader"] /\ w = job'["reader"]
  OBVIOUS
<1>1. j.pc = "view" /\ j \in JobType /\ "reader" \in Thread
  BY <1>0, AtHome, ThreadFacts DEF ViewSeen, At
<1>2. HomeStep /\ Known \subseteq Known' /\ UNCHANGED ent
  BY KeepShadowHome, KnownGrows DEF ViewSeen, OnlyJob, edge, held
<1> DEFINE new == [pc |-> "todo", todo |-> {x[1] : x \in j.had} \ j.keep, after |-> "list"]
<1>3. w = With(j, new) /\ OthersStay("reader")
  <2>1. Then("reader", new)
    BY <1>0 DEF ViewSeen
  <2>2. QED
    BY <1>0, <1>1, <2>1, Turned
<1>4. /\ w.pc = "todo" /\ w.after = "list" /\ w.key = j.key /\ w.client = j.client
      /\ w.keep = j.keep /\ w.todo = {x[1] : x \in j.had} \ j.keep
  BY <1>1, <1>3 DEF With, JobType
<1>5. /\ Turns(w) /\ ~Viewing(w) /\ Closing(w) /\ ~Unlisting(w)
      /\ Viewing(j) /\ ~Closing(j) /\ ~Unlisting(j) /\ Targets(j) = {}
  BY <1>1, <1>4 DEF Turns, Viewing, Closing, Unlisting, Targets, Sweeping
<1>6. \A s \in Key : s \in Targets(w) <=> s \notin j.keep /\ \E x \in j.had : x[1] = s
  BY <1>4 DEF Targets, Sweeping
<1>7. (\A y \in Key : Remains(y) /\ (Held(y)' => y # minted)) /\ Lineage'
  BY <1>2, SameLists
<1>8. \A y : Held(y)' <=> Held(y)
  BY <1>2 DEF Held
<1>9. Working(j)
  BY <1>0 DEF ListInv
<1>10. Working(w)'
  BY <1>2, <1>4, <1>5, <1>8, <1>9 DEF Working
<1>11. ASSUME NEW k \in Key, Held(k)', ~Excused(k)', k # minted, Held(k), ~Excused(k), Matches(k, j)
       PROVE  Matches(k, w)'
  <2>1. PICK S : S = ent[k].shadows /\ S = ent'[k].shadows
    BY <1>2
  <2>2. /\ \A y \in S : Held(y)
        /\ \A y \in Key : StandsFor(y, k) /\ y \notin S => ent[y].doomed \/ (Views(j, k) /\ y \in j.keep)
        /\ Views(j, k) => \A y \in j.keep : Held(y)
        /\ j.key = k => \A y \in S : Held(y) => \E z \in j.had : z[1] = y
    BY <1>5, <1>11, <2>1 DEF Matches
  <2>3. Views(w, k) <=> Views(j, k)
    BY <1>4, <1>5 DEF Views
  <2>4. S \subseteq Key /\ \A s \in S : Held(s) => ent[s].shadowOf = k
    BY <1>11, <2>1, Minted DEF ListInv, Lineage
  <2>5. ASSUME NEW s \in S, Held(s)', s \in Targets(w) PROVE w.key = k
    <3>1. PICK x \in j.had : x[1] = s
      BY <1>6, <2>4, <2>5
    <3>2. Held(s) /\ ent[s].shadowOf = j.key
      BY <1>5, <1>8, <1>9, <2>5, <3>1 DEF Working
    <3>3. QED
      BY <1>4, <2>4, <3>2
  <2>6. Views(w, k) => \A y \in w.keep : Held(y)' /\ y \notin Targets(w)
    BY <1>4, <1>6, <1>8, <2>2, <2>3 DEF Targets
  <2>7. w.key = k => \A s \in S : Held(s)' => s \in w.keep \/ s \in Targets(w)
    BY <1>4, <1>6, <1>8, <2>2, <2>4
  <2>8. \A y \in Key : StandsFor(y, k)' /\ y \notin S => ent'[y].doomed \/ (Views(w, k) /\ y \in w.keep)
    BY <1>2, <1>4, <1>8, <2>2, <2>3 DEF StandsFor
  <2>9. \A y \in S : Held(y)'
    BY <1>8, <2>2
  <2>10. QED
    BY <1>5, <2>1, <2>5, <2>6, <2>7, <2>8, <2>9 DEF Matches
<1>12. QED
  BY <1>0, <1>2, <1>3, <1>5, <1>7, <1>10, <1>11, ReaderKeeps

(* What asking for an entity records.                                      *)
LEMMA Recorded ==
    ASSUME IInv, NEW c \in Client \cup {None}, NEW h \in Handle \cup {None}, NEW d \in Region,
           NEW owner \in Key \cup {None}, Record(c, h, d, owner)
    PROVE  /\ minted \in Key /\ minted # None /\ ent'[minted] # None
           /\ ent'[minted].client = c /\ ent'[minted].handle = h /\ ent'[minted].shadows = {}
           /\ ent'[minted].shadowOf = owner
           /\ \A x \in Key : x # minted => ent'[x] = ent[x]
<1> DEFINE e == [client |-> c, handle |-> h, region |-> d, id |-> FALSE,
                 doomed |-> FALSE, replaces |-> None, shadows |-> {},
                 shadowOf |-> owner, standing |-> 0, to |-> None, held |-> <<>>]
<1>1. minted \in Key /\ ent' = [ent EXCEPT ![minted] = e]
  BY MintedIsNat DEF Record, Mint, IInv, Key
<1>2. e.client = c /\ e.handle = h /\ e.shadows = {} /\ e.shadowOf = owner
  OBVIOUS
<1>3. e # None
  <2>1. <<>> \in Seq(Word) /\ 0 \in 0 .. MaxWords
    BY EdgeServerAssumption
  <2>2. e \in EntityType
    BY <2>1 DEF EntityType
  <2>3. QED
    BY <2>2, NoneFacts
<1> HIDE DEF e
<1>4. \A x \in Key : ent'[x] = IF x = minted THEN e ELSE ent[x]
  BY <1>1 DEF IInv, TypeOK
<1>5. minted # None /\ ent'[minted] # None
  BY <1>1, <1>3, <1>4, NoneFacts
<1>6. QED
  BY <1>1, <1>2, <1>4, <1>5

(* A view's shadow that is asked for.                                      *)
LEMMA AskShadowListed ==
    ASSUME IInv, HomeInv, ListInv, AskShadow
    PROVE  ListInv'
<1>0. PICK n, j, w : n = minted /\ j = job["reader"] /\ w = job'["reader"]
  OBVIOUS
<1>1. j.pc = "view" /\ j \in JobType /\ "reader" \in Thread
  BY <1>0, AtHome, ThreadFacts DEF AskShadow, At
<1>2. HomeStep /\ Known \subseteq Known'
  BY AskShadowHome, KnownGrows
<1>3. PICK d \in j.reach :
        /\ Record(j.client, None, d, j.key)
        /\ Then("reader", [pc |-> "ask", other |-> n, dest |-> d,
                           reach |-> j.reach \ {d}, keep |-> j.keep \cup {n},
                           next |-> "view"])
  BY <1>0 DEF AskShadow
<1> DEFINE new == [pc |-> "ask", other |-> n, dest |-> d,
                   reach |-> j.reach \ {d}, keep |-> j.keep \cup {n}, next |-> "view"]
<1>4. w = With(j, new) /\ OthersStay("reader")
  BY <1>0, <1>1, <1>3, Turned
<1>5. /\ w.pc = "ask" /\ w.other = n /\ w.next = "view" /\ w.key = j.key /\ w.had = j.had
      /\ w.client = j.client /\ w.keep = j.keep \cup {n}
  BY <1>1, <1>4 DEF With, JobType
<1>6. /\ Turns(w) /\ Viewing(w) /\ ~Closing(w) /\ ~Unlisting(w) /\ Targets(w) = {}
      /\ Viewing(j) /\ ~Closing(j) /\ ~Unlisting(j) /\ Targets(j) = {}
  BY <1>1, <1>5 DEF Turns, Viewing, Closing, Unlisting, Targets, Sweeping
<1>8. /\ n \notin Known /\ Known \subseteq Key /\ \A x \in Key : Held(x) => x # n
      /\ \A s \in j.keep : s \in Key /\ s # n
      /\ \A x \in j.had : x[1] \in Key /\ x[1] # n
      /\ \A x \in Key : Held(x) => ent[x].shadows \subseteq Known
  BY <1>0, <1>1, Minted
<1>9. PICK z : /\ z = ent'[n] /\ z.client = j.client /\ z.handle = None /\ z.shadows = {}
               /\ z.shadowOf = j.key /\ n \in Key /\ \A x \in Key : x # n => ent'[x] = ent[x]
  <2>1. j.client \in Client \cup {None} /\ j.key \in Key \cup {None} /\ d \in Region
    BY <1>1 DEF JobType
  <2>2. QED
    BY <1>0, <1>3, <2>1, Recorded
<1>10. n \in Key /\ ent'[n] = z /\ \A x \in Key : x # n => ent'[x] = ent[x]
  BY <1>9
<1>11. \A x \in Key : Remains(x)
  BY <1>0, <1>10 DEF Remains, Held
<1>12. Working(j)
  BY <1>0 DEF ListInv
<1>13. j.key \in Known /\ j.key # n /\ (Held(j.key) => ent[j.key].client = j.client)
  BY <1>6, <1>8, <1>12 DEF Working
<1>14. Held(j.key)' => Held(j.key) /\ ent'[j.key] = ent[j.key]
  BY <1>8, <1>10, <1>13 DEF Held
<1>15. Stands(n)'
  <2>1. ent'[n].shadowOf = j.key /\ ent'[n].handle = None /\ ent'[n].client = j.client
    BY <1>9, <1>10
  <2>2. QED
    BY <1>2, <1>13, <1>14, <2>1 DEF Stands
<1>16. Lineage'
  <2>1. \A x \in Key : Held(x)' /\ x # minted => \A y \in ent'[x].shadows : y \in ent[x].shadows
    BY <1>0, <1>10
  <2>2. \A x \in Key : Held(x)' /\ x = minted => Stands(x)' /\ ent'[x].shadows = {}
    BY <1>0, <1>9, <1>10, <1>15
  <2>3. QED
    BY <1>2, <1>11, <2>1, <2>2, LineageKept
<1>17. \A x \in Key : Held(x)' => x = n \/ (Held(x) /\ ent'[x] = ent[x])
  BY <1>10 DEF Held
<1>18. \A x \in Key : Held(x) => Held(x)'
  BY <1>8, <1>10 DEF Held
<1>19. ent'[n] # None /\ n # None
  <2>1. j.client \in Client \cup {None} /\ j.key \in Key \cup {None} /\ d \in Region
    BY <1>1 DEF JobType
  <2>2. QED
    BY <1>0, <1>3, <2>1, Recorded DEF Held
<1>20. Working(w)'
  <2>1. w.key \in Known' /\ (Held(w.key)' => ent'[w.key].client = w.client)
    BY <1>2, <1>5, <1>13, <1>14
  <2>2. \A s \in w.keep : Held(s)' => ent'[s].shadowOf = w.key
    BY <1>5, <1>6, <1>8, <1>9, <1>10, <1>12, <1>17 DEF Working
  <2>3. \A x \in w.had : Held(x[1])' => ent'[x[1]].shadowOf = w.key
    BY <1>5, <1>6, <1>8, <1>12, <1>17 DEF Working
  <2>4. QED
    BY <1>6, <2>1, <2>2, <2>3 DEF Working
<1>21. ASSUME NEW k \in Key, Held(k)', ~Excused(k)', k # minted, Held(k), ~Excused(k), Matches(k, j)
       PROVE  Matches(k, w)'
  <2>1. PICK S : S = ent[k].shadows /\ S = ent'[k].shadows
    BY <1>0, <1>10, <1>21
  <2>2. /\ \A y \in S : Held(y)
        /\ \A y \in Key : StandsFor(y, k) /\ y \notin S => ent[y].doomed \/ (Views(j, k) /\ y \in j.keep)
        /\ Views(j, k) => \A y \in j.keep : Held(y)
        /\ j.key = k => /\ \A y \in j.had : Held(y[1])
                        /\ \A y \in S : Held(y) => \E x \in j.had : x[1] = y
    BY <1>6, <1>21, <2>1 DEF Matches
  <2>3. Views(w, k) <=> Views(j, k)
    BY <1>5, <1>6 DEF Views
  <2>4. S \subseteq Key /\ n \notin S
    BY <1>8, <1>21, <2>1
  <2>5. \A y \in S : Held(y)'
    BY <1>18, <2>2, <2>4
  <2>6. Views(w, k) => \A y \in w.keep : Held(y)'
    BY <1>5, <1>8, <1>18, <1>19, <2>2, <2>3 DEF Held
  <2>7. w.key = k => /\ \A y \in w.had : Held(y[1])'
                     /\ \A y \in S : Held(y)' => \E x \in w.had : x[1] = y
    BY <1>5, <1>8, <1>18, <2>2
  <2>8. ASSUME NEW y \in Key, StandsFor(y, k)', y \notin S
        PROVE  ent'[y].doomed \/ (Views(w, k) /\ y \in w.keep)
    <3>1. CASE y = n
      BY <1>5, <1>6, <1>9, <1>10, <2>8, <3>1 DEF StandsFor, Views
    <3>2. CASE y # n
      <4>1. StandsFor(y, k) /\ ent'[y] = ent[y]
        BY <1>17, <2>8, <3>2 DEF StandsFor
      <4>2. QED
        BY <1>5, <2>2, <2>3, <2>8, <4>1
    <3>3. QED
      BY <3>1, <3>2
  <2>9. QED
    BY <1>6, <2>1, <2>5, <2>6, <2>7, <2>8 DEF Matches, Views
<1>22. ASSUME NEW k \in Key, Held(k)', k = minted PROVE Matches(k, w)'
  <2>1. ent'[k].shadows = {} /\ k = n
    BY <1>0, <1>9, <1>10, <1>22
  <2>2. w.key # k
    BY <1>5, <1>13, <2>1
  <2>3. ASSUME NEW s \in Key, StandsFor(s, k)' PROVE FALSE
    <3>1. Held(s)' /\ ent'[s].shadowOf = n
      BY <2>1, <2>3 DEF StandsFor
    <3>2. s # n
      BY <1>9, <1>10, <1>13, <3>1
    <3>3. Held(s) /\ ent[s].shadowOf = n
      BY <1>17, <3>1, <3>2
    <3>4. n # None
      BY <1>10, NoneFacts
    <3>5. n \in Known
      BY <3>3, <3>4 DEF ListInv, Lineage, Stands
    <3>6. QED
      BY <1>8, <3>5
  <2>4. QED
    BY <1>6, <2>1, <2>2, <2>3 DEF Matches, Views
<1>23. QED
  BY <1>0, <1>2, <1>4, <1>6, <1>11, <1>16, <1>20, <1>21, <1>22, ReaderKeeps

(* A step that gives an observer a list, and changes nothing else.         *)
LEMMA Relisted ==
    ASSUME IInv, NEW k \in Key, Held(k), NEW e \in EntityType, ent' = [ent EXCEPT ![k] = e],
           e.client = ent[k].client, e.handle = ent[k].handle, e.shadowOf = ent[k].shadowOf,
           e.doomed = ent[k].doomed
    PROVE  \A x \in Key :
              /\ Held(x)' <=> Held(x)
              /\ Held(x) => /\ ent'[x].client = ent[x].client /\ ent'[x].handle = ent[x].handle
                            /\ ent'[x].shadowOf = ent[x].shadowOf /\ ent'[x].doomed = ent[x].doomed
                            /\ ent'[x].shadows = ent[x].shadows \/ x = k
                            /\ x = k => ent'[x].shadows = e.shadows
<1>1. e # None
  BY NoneFacts
<1>2. \A x \in Key : ent'[x] = IF x = k THEN e ELSE ent[x]
  BY DEF IInv, TypeOK
<1>3. QED
  BY <1>1, <1>2 DEF Held

(* The observer has its new list.                                          *)
LEMMA ListListed ==
    ASSUME IInv, HomeInv, ListInv, List
    PROVE  ListInv'
<1>0. PICK k, j, w : j = job["reader"] /\ w = job'["reader"] /\ k = j.key
  OBVIOUS
<1>1. j.pc = "list" /\ "reader" \in Thread /\ Rest("reader")
  BY <1>0, ThreadFacts DEF List, At
<1>2. HomeStep /\ Known \subseteq Known'
  BY ListHome, KnownGrows
<1>3. w = Idle /\ OthersStay("reader") /\ Flat(w) /\ Turns(w)
  BY <1>0, <1>1, RestFlat DEF Rest, IInv, TypeOK
<1>4. /\ Closing(j) /\ ~Viewing(j) /\ ~Unlisting(j) /\ Targets(j) = {}
  BY <1>1 DEF Viewing, Closing, Unlisting, Targets, Sweeping
<1>5. /\ k \in Known /\ k \in Key
      /\ \A s \in j.keep : Held(s) => ent[s].shadowOf = k
      /\ \A s \in j.keep : s \in Key /\ s # minted
  BY <1>0, <1>1, <1>4, Minted DEF ListInv, Working
<1>6. \A x \in Key :
        /\ Held(x)' <=> Held(x)
        /\ Held(x) => /\ ent'[x].client = ent[x].client /\ ent'[x].handle = ent[x].handle
                      /\ ent'[x].shadowOf = ent[x].shadowOf /\ ent'[x].doomed = ent[x].doomed
                      /\ ent'[x].shadows = ent[x].shadows \/ x = k
                      /\ x = k => ent'[x].shadows = j.keep
  <2>1. CASE Held(k)
    <3> DEFINE e == [ent[k] EXCEPT !.shadows = j.keep]
    <3>1. ent' = [ent EXCEPT ![k] = e] /\ ent[k] \in EntityType /\ j.keep \subseteq Key
      BY <1>0, <1>5, <2>1, OfHeld DEF List
    <3>2. /\ e \in EntityType /\ e.client = ent[k].client /\ e.handle = ent[k].handle
          /\ e.shadowOf = ent[k].shadowOf /\ e.doomed = ent[k].doomed /\ e.shadows = j.keep
      BY <3>1 DEF EntityType
    <3> HIDE DEF e
    <3>3. \A x \in Key :
            /\ Held(x)' <=> Held(x)
            /\ Held(x) => /\ ent'[x].client = ent[x].client /\ ent'[x].handle = ent[x].handle
                          /\ ent'[x].shadowOf = ent[x].shadowOf /\ ent'[x].doomed = ent[x].doomed
                          /\ ent'[x].shadows = ent[x].shadows \/ x = k
                          /\ x = k => ent'[x].shadows = e.shadows
      BY <1>5, <2>1, <3>1, <3>2, Relisted
    <3>4. QED
      BY <3>2, <3>3
  <2>2. CASE ~Held(k)
    <3>1. UNCHANGED ent
      BY <1>0, <2>2 DEF List
    <3>2. \A x \in Key : (Held(x)' <=> Held(x)) /\ (Held(x) => x # k)
      BY <2>2, <3>1 DEF Held
    <3>3. QED
      BY <3>1, <3>2
  <2>3. QED
    BY <2>1, <2>2
<1>7. /\ \A x \in Key : Remains(x)
      /\ \A x \in Key : Held(x)' => x # minted
  BY <1>6, Minted DEF Remains
<1>8. Lineage'
  <2>1. \A x \in Key : Held(x)' /\ x # minted => \A y \in ent'[x].shadows :
            y \in ent[x].shadows \/ (y \in Key /\ y # minted /\ (Held(y) => ent[y].shadowOf = x))
    BY <1>5, <1>6
  <2>2. \A x \in Key : Held(x)' /\ x = minted => Stands(x)' /\ ent'[x].shadows = {}
    BY <1>7
  <2>3. QED
    BY <1>2, <1>7, <2>1, <2>2, LineageKept
<1>9. Working(w)'
  BY <1>3 DEF Working, Flat
<1>10. ASSUME NEW x \in Key, Held(x)', ~Excused(x)', x # minted, Held(x), ~Excused(x), Matches(x, j)
       PROVE  Matches(x, w)'
  <2>1. PICK S, T : S = ent[x].shadows /\ T = ent'[x].shadows
    OBVIOUS
  <2>2. T = IF x = k THEN j.keep ELSE S
    BY <1>6, <1>10, <2>1
  <2>3. S \subseteq Key
    BY <1>10, <2>1, Minted
  <2>4. CASE x = k
    <3>1. /\ \A s \in T : Held(s)
          /\ \A s \in Key : StandsFor(s, x) => s \in T \/ ent[s].doomed
      BY <1>0, <1>4, <1>10, <2>1, <2>2, <2>3, <2>4 DEF Matches, Views, StandsFor
    <3>2. T \subseteq Key
      BY <1>5, <2>2, <2>4
    <3>3. QED
      BY <1>3, <1>6, <2>1, <3>1, <3>2 DEF Matches, Views, StandsFor, Flat
  <2>5. CASE x # k
    <3>1. /\ \A s \in T : Held(s)
          /\ \A s \in Key : StandsFor(s, x) => s \in T \/ ent[s].doomed
      BY <1>0, <1>4, <1>10, <2>1, <2>2, <2>3, <2>5 DEF Matches, Views, StandsFor
    <3>2. T \subseteq Key
      BY <2>2, <2>3, <2>5
    <3>3. QED
      BY <1>3, <1>6, <2>1, <3>1, <3>2 DEF Matches, Views, StandsFor, Flat
  <2>6. QED
    BY <2>4, <2>5
<1>11. QED
  BY <1>0, <1>2, <1>3, <1>4, <1>7, <1>8, <1>9, <1>10, ReaderKeeps

(* Nothing is seen beyond: the list is empty, and its shadows are released.*)
LEMMA ViewClearedListed ==
    ASSUME IInv, HomeInv, ListInv, NEW r \in Region, ViewCleared(r), presence[r][1].key \in byId
    PROVE  ListInv'
<1>0. PICK k, j, w : k = presence[r][1].key /\ j = job["reader"] /\ w = job'["reader"]
  OBVIOUS
<1>1. k \in Key /\ j = Idle /\ "reader" \in Thread /\ Held(k)
  BY <1>0, ReadHome, ThreadFacts DEF ViewCleared, IInv, IndexAgrees
<1>2. HomeStep /\ Known \subseteq Known'
  BY ViewClearedHome, KnownGrows
<1>3. PICK L : L = ent[k].shadows
  OBVIOUS
<1>4. L \subseteq Known /\ Known \subseteq Key
  BY <1>1, <1>3, Minted
<1> DEFINE new == [pc |-> "todo", todo |-> L]
<1>5. w = With(j, new) /\ OthersStay("reader")
  <2>1. Then("reader", new)
    BY Zenon, <1>0, <1>3 DEF ViewCleared
  <2>2. QED
    BY <1>0, <1>1, <2>1, Turned
<1>6. w.pc = "todo" /\ w.todo = L /\ w.after = "rest"
  BY <1>1, <1>5 DEF With, Idle
<1>7. /\ Turns(w) /\ ~Viewing(w) /\ ~Closing(w) /\ ~Unlisting(w)
      /\ \A s \in Key : s \in Targets(w) <=> s \in L
  BY <1>6 DEF Turns, Viewing, Closing, Unlisting, Targets, Sweeping
<1>8. Flat(j) /\ Targets(j) = {}
  BY <1>1, IdleFlat DEF Flat
<1>9. \A x \in Key :
        /\ Held(x)' <=> Held(x)
        /\ Held(x) => /\ ent'[x].client = ent[x].client /\ ent'[x].handle = ent[x].handle
                      /\ ent'[x].shadowOf = ent[x].shadowOf /\ ent'[x].doomed = ent[x].doomed
                      /\ ent'[x].shadows = ent[x].shadows \/ x = k
                      /\ x = k => ent'[x].shadows = {}
  <2> DEFINE e == [ent[k] EXCEPT !.shadows = {}]
  <2>1. ent' = [ent EXCEPT ![k] = e] /\ ent[k] \in EntityType
    BY <1>0, <1>1, OfHeld DEF ViewCleared
  <2>2. /\ e \in EntityType /\ e.client = ent[k].client /\ e.handle = ent[k].handle
        /\ e.shadowOf = ent[k].shadowOf /\ e.doomed = ent[k].doomed /\ e.shadows = {}
    BY <2>1 DEF EntityType
  <2> HIDE DEF e
  <2>3. \A x \in Key :
          /\ Held(x)' <=> Held(x)
          /\ Held(x) => /\ ent'[x].client = ent[x].client /\ ent'[x].handle = ent[x].handle
                        /\ ent'[x].shadowOf = ent[x].shadowOf /\ ent'[x].doomed = ent[x].doomed
                        /\ ent'[x].shadows = ent[x].shadows \/ x = k
                        /\ x = k => ent'[x].shadows = e.shadows
    BY <1>1, <2>1, <2>2, Relisted
  <2>4. QED
    BY <2>2, <2>3
<1>10. /\ \A x \in Key : Remains(x)
       /\ \A x \in Key : Held(x)' => x # minted
  BY <1>9, Minted DEF Remains
<1>11. Lineage'
  <2>1. \A x \in Key : Held(x)' /\ x # minted => \A y \in ent'[x].shadows : y \in ent[x].shadows
    BY <1>9
  <2>2. QED
    BY <1>2, <1>10, <2>1, LineageKept
<1>12. Working(w)'
  BY <1>7 DEF Working
<1>13. ASSUME NEW x \in Key, Held(x)', ~Excused(x)', x # minted, Held(x), ~Excused(x), Matches(x, j)
       PROVE  Matches(x, w)'
  <2>1. PICK S, T : S = ent[x].shadows /\ T = ent'[x].shadows
    OBVIOUS
  <2>2. T = (IF x = k THEN {} ELSE S) /\ S \subseteq Key
    BY <1>4, <1>9, <1>13, <2>1, Minted
  <2>3. /\ \A s \in S : Held(s)
        /\ \A s \in Key : StandsFor(s, x) => s \in S \/ ent[s].doomed
    BY <1>8, <1>13, <2>1, FlatMatches
  <2>4. \A s \in T : Held(s)'
    BY <1>9, <2>2, <2>3
  <2>5. ASSUME NEW s \in Key, StandsFor(s, x)', s \notin T PROVE ent'[s].doomed \/ s \in Targets(w)
    <3>1. StandsFor(s, x) /\ Held(s) /\ ent'[s].doomed = ent[s].doomed
      BY <1>9, <2>5 DEF StandsFor
    <3>2. s \in S \/ ent'[s].doomed
      BY <2>3, <3>1
    <3>3. s \in S => x = k /\ s \in L
      BY <1>3, <2>1, <2>2, <2>5
    <3>4. QED
      BY <1>7, <3>2, <3>3
  <2>6. ASSUME NEW s \in T, s \in Targets(w) PROVE FALSE
    <3>1. s \in S /\ s \in L /\ x # k /\ Held(s)
      BY <1>7, <2>2, <2>3, <2>6
    <3>2. QED
      BY <1>1, <1>3, <1>13, <2>1, <3>1 DEF ListInv, Lineage
  <2>7. QED
    BY <1>7, <2>1, <2>4, <2>5, <2>6 DEF Matches, Views
<1>14. QED
  BY <1>0, <1>2, <1>5, <1>7, <1>8, <1>10, <1>11, <1>12, <1>13, ReaderKeeps

(* A step that leaves the entities and the threads as they are.            *)
LEMMA StillEases ==
    ASSUME ListInv, UNCHANGED ent, UNCHANGED job
    PROVE  Eases("reader")
<1>0. PICK t \in Thread : t = "reader"
  BY ThreadFacts
<1>1. PICK j : j = job[t] /\ j = job'[t]
  OBVIOUS
<1>2. Turns(j) /\ SameWork(j, j) /\ OthersStay(t)
  BY <1>1 DEF ListInv, SameWork, OthersStay
<1>3. QED
  BY <1>0, <1>1, <1>2, EasesSame

(* A step that edits a record, and does no work on a list.                 *)
LEMMA EditEases ==
    ASSUME IInv, NEW t \in Thread, OthersStay(t), Flat(job[t]), Flat(job'[t]), Turns(job'[t]),
           NEW k \in Key, Held(k), NEW e \in EntityType, ent' = [ent EXCEPT ![k] = e],
           e.client = ent[k].client, e.handle = ent[k].handle, e.shadows = ent[k].shadows,
           e.shadowOf = ent[k].shadowOf, e.doomed = ent[k].doomed
    PROVE  Eases(t)
<1>0. PICK j, w : j = job[t] /\ w = job'[t]
  OBVIOUS
<1>1. SameWork(j, w) /\ Targets(j) = {} /\ Targets(w) = {}
  BY <1>0, FlatWork DEF Flat
<1>2. \A x \in Key : Arrives(x)
  BY EditedArrives
<1>3. \A x \in Key : Held(x) => Held(x)'
  <2>1. \A x \in Key : ent'[x] = IF x = k THEN e ELSE ent[x]
    BY DEF IInv, TypeOK
  <2>2. QED
    BY <2>1, NoneFacts DEF Held
<1>4. QED
  BY <1>0, <1>1, <1>2, <1>3 DEF Eases

(* A step that asks for an entity that stands for none.                    *)
LEMMA StartEases ==
    ASSUME IInv, HomeInv, NEW t \in Thread, OthersStay(t), NEW j, NEW w, j = job[t], w = job'[t],
           Flat(j), w.pc = "ask", w.next = "rest",
           NEW c \in Client \cup {None}, NEW h \in Handle \cup {None}, NEW d \in Region,
           Record(c, h, d, None)
    PROVE  Eases(t)
<1>1. Turns(w) /\ Flat(w)
  BY DEF Turns, Flat, Viewing, Closing, Unlisting, Targets, Sweeping
<1>2. SameWork(j, w) /\ Targets(j) = {} /\ Targets(w) = {}
  BY <1>1, FlatWork DEF Flat
<1>3. None \in Key \cup {None}
  OBVIOUS
<1>4. /\ ent'[minted].shadows = {} /\ ent'[minted].shadowOf = None
      /\ \A x \in Key : x # minted => ent'[x] = ent[x]
  BY <1>3, Recorded
<1>5. \A x \in Key : Arrives(x)
  BY <1>4 DEF Arrives, Unaltered, Held
<1>6. \A x \in Key : Held(x) => Held(x)'
  BY <1>4, Minted DEF Held
<1>7. QED
  BY <1>1, <1>2, <1>5, <1>6 DEF Eases

(* A step that is to release what is no shadow.                            *)
LEMMA LetGoEases ==
    ASSUME NEW t \in Thread, t # "reader", OthersStay(t), NEW j, NEW w, j = job[t], w = job'[t],
           Flat(j), UNCHANGED ent, NEW k, w.pc = "release", w.next = "rest", w.victim = k,
           Held(k) => ent[k].shadowOf = None
    PROVE  Eases(t)
<1>1. Turns(w)
  BY DEF Turns
<1>2. Targets(j) = {} /\ \A x \in Targets(w) : x = k
  BY DEF Flat, Targets, Sweeping
<1>3. \A x : Held(x)' <=> Held(x)
  BY DEF Held
<1>4. \A x \in Key : Arrives(x)
  BY <1>3 DEF Arrives, Unaltered
<1>5. QED
  BY <1>1, <1>2, <1>3, <1>4 DEF Eases

LEMMA AddedEases ==
    ASSUME IInv, HomeInv, NEW r \in Region, Added(r)
    PROVE  Eases("reader")
<1>0. PICK t \in Thread : t = "reader"
  BY ThreadFacts
<1>1. PICK k, j, w : k = presence[r][1].key /\ j = job[t] /\ w = job'[t]
  OBVIOUS
<1>2. k \in Key /\ j = Idle /\ Held(k) /\ ent[k].replaces = None /\ ent[k] \in EntityType
  BY Zenon, <1>0, <1>1, ReadHome, HeldHome DEF Added
<1> DEFINE e == [ent[k] EXCEPT !.id = TRUE, !.replaces = None]
           new == [pc |-> IF ent[k].replaces = None THEN "greet" ELSE "remap",
                   key |-> k, other |-> ent[k].replaces, client |-> ent[k].client,
                   handle |-> ent[k].handle, dest |-> r, shadow |-> ent[k].shadowOf # None]
<1>3. ent' = [ent EXCEPT ![k] = e] /\ Then(t, new)
  BY Zenon, <1>0, <1>1 DEF Added
<1>4. w = With(j, new) /\ OthersStay(t)
  BY <1>1, <1>3, Turned
<1>5. w.pc = "greet"
  BY <1>2, <1>4 DEF With, Idle
<1>6. Flat(j) /\ Flat(w) /\ Turns(w)
  BY <1>2, <1>5, IdleFlat, FlatJobs
<1>7. /\ e \in EntityType /\ e.client = ent[k].client /\ e.handle = ent[k].handle
      /\ e.shadows = ent[k].shadows /\ e.shadowOf = ent[k].shadowOf /\ e.doomed = ent[k].doomed
  BY <1>2 DEF EntityType
<1> HIDE DEF e
<1>8. QED
  BY Zenon, <1>0, <1>1, <1>2, <1>3, <1>4, <1>6, <1>7, EditEases

LEMMA ToldEases ==
    ASSUME IInv, Greet \/ Notify
    PROVE  Eases("reader")
<1>0. PICK t \in Thread : t = "reader"
  BY ThreadFacts
<1>1. Flat(job[t]) /\ UNCHANGED ent
  BY <1>0, FlatJobs DEF Greet, Notify, At, edge, held
<1> DEFINE new == [pc |-> "finish"]
<1>2. Fields(new)
  BY DEF Fields, Idle, Steps, Afters
<1>3. OthersStay(t) /\ Flat(job'[t]) /\ Turns(job'[t])
  <2>1. CASE Rest(t)
    BY <2>1, RestFlat
  <2>2. CASE Then(t, new)
    BY <1>2, <2>2, TurnFlat
  <2>3. QED
    BY <1>0, <2>1, <2>2 DEF Greet, Notify
<1>4. QED
  BY <1>0, <1>1, <1>3, FlatEases

LEMMA SayEases ==
    ASSUME IInv, HomeInv, NEW c \in Client, Say(c)
    PROVE  Eases(c)
<1>0. PICK k, x : k = job[c].key /\ x = job[c].word
  OBVIOUS
<1>1. /\ c \in Thread /\ job[c].pc = "say" /\ x \in Word /\ k \in Key \cup {None}
  BY Zenon, <1>0, AtHome, ThreadFacts DEF Say, At, JobReady, JobType
<1>2. Flat(job[c]) /\ OthersStay(c) /\ Flat(job'[c]) /\ Turns(job'[c])
  BY <1>1, FlatJobs, RestFlat DEF Say
<1>3. CASE ~Held(k)
  <2>1. UNCHANGED ent
    BY <1>0, <1>3 DEF Say
  <2>2. QED
    BY <1>1, <1>2, <2>1, FlatEases
<1>4. CASE Held(k)
  <2>1. k \in Key /\ ent[k] \in EntityType /\ MaxWords \in Nat
    BY <1>1, <1>4, OfHeld, EdgeServerAssumption DEF Held
  <2>2. CASE ent[k].to # None
    <3> DEFINE e == [ent[k] EXCEPT !.held = Append(@, x)]
    <3>1. ent' = [ent EXCEPT ![k] = e]
      BY <1>0, <1>4, <2>2 DEF Say
    <3>2. Append(ent[k].held, x) \in Seq(Word)
      BY <1>1, <2>1 DEF EntityType
    <3>3. /\ e \in EntityType /\ e.client = ent[k].client /\ e.handle = ent[k].handle
          /\ e.shadows = ent[k].shadows /\ e.shadowOf = ent[k].shadowOf /\ e.doomed = ent[k].doomed
      BY <2>1, <3>2 DEF EntityType
    <3> HIDE DEF e
    <3>4. QED
      BY <1>1, <1>2, <1>4, <2>1, <3>1, <3>3, EditEases
  <2>3. CASE ent[k].to = None
    <3> DEFINE e == [ent[k] EXCEPT !.standing = x]
    <3>1. ent' = [ent EXCEPT ![k] = e]
      BY <1>0, <1>4, <2>3 DEF Say
    <3>2. x \in 0 .. MaxWords
      BY <1>1, <2>1 DEF Word
    <3>3. /\ e \in EntityType /\ e.client = ent[k].client /\ e.handle = ent[k].handle
          /\ e.shadows = ent[k].shadows /\ e.shadowOf = ent[k].shadowOf /\ e.doomed = ent[k].doomed
      BY <2>1, <3>2 DEF EntityType
    <3> HIDE DEF e
    <3>4. QED
      BY <1>1, <1>2, <1>4, <2>1, <3>1, <3>3, EditEases
  <2>4. QED
    BY <2>2, <2>3
<1>5. QED
  BY <1>3, <1>4

LEMMA ReaderListed ==
    ASSUME StayPut, IInv, HomeInv, ListInv, Reader
    PROVE  ListInv'
<1>0. HomeStep /\ \E t \in Thread : t = "reader"
  BY ReaderHome, ThreadFacts
<1>1. ASSUME Eases("reader") PROVE ListInv'
  BY <1>0, <1>1, EasesKeep
<1>2. ASSUME NEW r \in Region, AddedUnknown(r) \/ RemovedUnknown(r) PROVE ListInv'
  BY <1>1, <1>2, StillEases DEF AddedUnknown, RemovedUnknown, edge, held
<1>3. ASSUME NEW r \in Region, Boundary(r) PROVE ListInv'
  BY <1>3, ReadHome DEF Boundary
<1>4. ASSUME NEW r \in Region, ViewCollision(r) PROVE ListInv'
  <2>1. UNCHANGED ent
    BY <1>4 DEF ViewCollision, edge, held
  <2>2. CASE job' = job
    BY <1>1, <2>1, <2>2, StillEases
  <2>3. CASE job' # job
    BY <1>4, <2>3, ViewCollisionListed
  <2>4. QED
    BY <2>2, <2>3
<1>5. ASSUME NEW r \in Region, ViewCleared(r) PROVE ListInv'
  <2>1. CASE presence[r][1].key \in byId
    BY <1>5, <2>1, ViewClearedListed
  <2>2. CASE presence[r][1].key \notin byId
    BY <1>1, <1>5, <2>2, StillEases DEF ViewCleared
  <2>3. QED
    BY <2>1, <2>2
<1>6. CASE CopyOrphaned \/ Remap \/ Panic \/ Landed \/ Rehandle \/ Resend \/ Stand \/ Arrive
  <2>1. job["reader"].pc \in Abroad
    BY <1>6 DEF CopyOrphaned, Remap, Panic, Landed, Rehandle, Resend, Stand, Arrive, At, Abroad
  <2>2. QED
    BY <2>1, AtHome, ThreadFacts DEF JobHome
<1>7. QED
  BY <1>1, <1>2, <1>3, <1>4, <1>5, <1>6, AddedEases, ToldEases, RemovedListed, UnlistListed,
     KeepShadowListed, AskShadowListed, ViewSeenListed, ListListed DEF Reader

(* The publisher, and what the regions do.                                 *)
LEMMA PublisherEases ==
    ASSUME IInv, HomeInv, ListInv, Publisher \/ Expire
    PROVE  Eases("reader")
<1>1. JobHome(job["publisher"], Known) /\ transits = {}
  BY AtHome, ThreadFacts DEF HomeInv, RecordsHome
<1>2. CASE Publish
  BY <1>2, StillEases DEF Publish, edge, held
<1>3. CASE Expire
  BY <1>1, <1>3 DEF Expire
<1>4. CASE \/ \E x \in job["publisher"].due : LeaveBe(x) \/ GiveUp(x)
           \/ Uncarry \/ Unhold \/ Expired
  <2>1. job["publisher"].pc \in Abroad
    BY <1>4 DEF LeaveBe, GiveUp, Uncarry, Unhold, Expired, At, Abroad
  <2>2. QED
    BY <1>1, <2>1 DEF JobHome
<1>5. QED
  BY <1>2, <1>3, <1>4 DEF Publisher

LEMMA WorldsEases ==
    ASSUME ListInv, Worlds
    PROVE  Eases("reader")
  BY WorldsFrame, StillEases DEF edge, held

(* The consumer's game.                                                    *)
LEMMA GameEases ==
    ASSUME IInv, HomeInv, ListInv, Game
    PROVE  Eases("game")
<1>0. PICK t \in Thread : t = "game" /\ t # "reader"
  BY ThreadFacts
<1>1. PICK n, j, w : n = minted /\ j = job[t] /\ w = job'[t]
  OBVIOUS
<1>2. job[t].pc = "idle" => j = Idle /\ Flat(j)
  BY <1>1, AtHome, IdleFlat DEF JobReady
<1>3. ASSUME NEW c \in Client, NEW r \in Region, GameSpawn(c, r) PROVE Eases(t)
  <2> DEFINE new == [pc |-> "ask", other |-> n, client |-> c, dest |-> r]
  <2>1. /\ job[t].pc = "idle" /\ Record(c, None, r, None) /\ Then(t, new)
        /\ c \in Client \cup {None} /\ None \in Handle \cup {None}
    BY <1>0, <1>1, <1>3 DEF GameSpawn, At
  <2>2. w = With(j, new) /\ OthersStay(t)
    BY <1>1, <2>1, Turned
  <2>3. w.pc = "ask" /\ w.next = "rest" /\ Flat(j)
    BY <1>2, <2>1, <2>2 DEF With, Idle
  <2>4. QED
    BY <1>1, <2>1, <2>2, <2>3, StartEases
<1>4. ASSUME NEW k \in Key, GameDespawn(k) PROVE Eases(t)
  <2> DEFINE new == [pc |-> "release", victim |-> k]
  <2>1. job[t].pc = "idle" /\ Then(t, new) /\ ent[k].shadowOf = None /\ UNCHANGED ent
    BY <1>0, <1>4 DEF GameDespawn, At, edge, held
  <2>2. w = With(j, new) /\ OthersStay(t)
    BY <1>1, <2>1, Turned
  <2>3. w.pc = "release" /\ w.next = "rest" /\ w.victim = k /\ Flat(j)
    BY <1>2, <2>1, <2>2 DEF With, Idle
  <2>4. QED
    BY <1>0, <1>1, <2>1, <2>2, <2>3, LetGoEases
<1>5. QED
  BY <1>0, <1>3, <1>4 DEF Game

(* A stream that goes takes all its client has: a shadow with what it      *)
(* stands for.                                                             *)
LEMMA LeaveEases ==
    ASSUME IInv, HomeInv, ListInv, NEW c \in Client, ClientLeave(c)
    PROVE  Eases(c)
<1>0. PICK S, j, w : S = clients[c].keys /\ j = job[c] /\ w = job'[c]
  OBVIOUS
<1>1. /\ j = Idle /\ c \in Thread /\ c # "reader" /\ S \subseteq Known /\ clients[c] # None
      /\ Known \subseteq Key
  BY <1>0, ConnectedHome, ThreadFacts, Minted DEF ClientLeave
<1> DEFINE new == [pc |-> "todo", client |-> c, todo |-> S, after |-> "finish"]
<1>2. Then(c, new) /\ UNCHANGED ent
  BY <1>0 DEF ClientLeave, OnlyClients, held
<1>3. w = With(j, new) /\ OthersStay(c)
  BY <1>0, <1>1, <1>2, Turned
<1>4. w.pc = "todo" /\ w.after = "finish" /\ w.todo = S
  BY <1>1, <1>3 DEF With, Idle
<1>5. Turns(w) /\ Flat(j) /\ \A k \in Key : k \in Targets(w) <=> k \in S
  BY <1>1, <1>4, IdleFlat DEF Turns, Targets, Sweeping
<1>6. \A x : Held(x)' <=> Held(x)
  BY <1>2 DEF Held
<1>7. \A x \in Key : Arrives(x)
  BY <1>2, <1>6 DEF Arrives, Unaltered
<1>8. Bound
  BY DEF HomeInv, OwnersAgree
<1>9. ASSUME NEW s \in Targets(w), Held(s), ent[s].shadowOf # None
      PROVE  Excused(ent[s].shadowOf)'
  <2>1. PICK o : o = ent[s].shadowOf
    OBVIOUS
  <2>2. s \in Key /\ s \in S
    BY <1>5 DEF Targets
  <2>3. o \in Known /\ o \in Key /\ (Held(o) => ent[o].client = ent[s].client)
    BY <1>1, <1>9, <2>1, <2>2 DEF ListInv, Lineage, Stands
  <2>4. CASE ~Held(o)
    <3>1. ~Held(o)' /\ ent'[s].shadowOf = o
      BY <1>2, <1>6, <2>1, <2>4
    <3>2. QED
      BY <2>1, <3>1 DEF Excused
  <2>5. CASE Held(o)
    <3>1. PICK h \in Handle \cup {None} : Owed(s, c, h)
      BY <1>0, <1>1, <1>8, <2>2 DEF Bound
    <3>2. ASSUME NEW t \in Thread, Unbinding(t, s, c, h) PROVE FALSE
      <4>1. ~Held(s)
        BY <3>2 DEF Unbinding, HomeInv, OwnersAgree, UnbindsAlone
      <4>2. QED
        BY <1>9, <4>1
    <3>3. ent[o].client = c
      BY <2>3, <2>5, <3>1, <3>2 DEF Owed, Owned
    <3>4. ent[o].handle \in Handle \cup {None}
      BY <2>3, <2>5, OfHeld DEF EntityType
    <3>5. Owed(o, c, ent[o].handle)
      BY <2>5, <3>3 DEF Owed, Owned
    <3>6. o \in S
      BY <1>0, <1>1, <1>8, <2>3, <3>4, <3>5 DEF Bound
    <3>7. o \in Targets(w)
      BY <1>5, <2>3, <3>6
    <3>8. QED
      BY <1>0, <1>1, <1>2, <2>1, <3>7 DEF Excused
  <2>6. QED
    BY <2>4, <2>5
<1>10. Targets(j) = {}
  BY <1>5 DEF Flat
<1>11. QED
  BY <1>0, <1>1, <1>2, <1>3, <1>5, <1>6, <1>7, <1>9, <1>10 DEF Eases

LEMMA CommandedEases ==
    ASSUME StayPut, IInv, HomeInv, ListInv, NEW c \in Client, Commanded(c)
    PROVE  Eases(c)
<1>0. PICK n, j, w : n = minted /\ j = job[c] /\ w = job'[c]
  OBVIOUS
<1>1. c \in Thread /\ c # "reader"
  BY ThreadFacts
<1>2. Connected(c) => j = Idle /\ Flat(j)
  BY <1>0, ConnectedHome, IdleFlat
<1>3. ASSUME NEW h \in Handle, NEW r \in Region, ClientSpawn(c, h, r) PROVE Eases(c)
  <2> DEFINE new == [pc |-> "ask", other |-> n, client |-> c, handle |-> h, dest |-> r]
  <2>1. /\ Connected(c) /\ Record(c, h, r, None) /\ Then(c, new)
        /\ c \in Client \cup {None} /\ h \in Handle \cup {None}
    BY <1>0, <1>3 DEF ClientSpawn
  <2>2. w = With(j, new) /\ OthersStay(c)
    BY <1>0, <1>1, <2>1, Turned
  <2>3. w.pc = "ask" /\ w.next = "rest" /\ Flat(j)
    BY <1>2, <2>1, <2>2 DEF With, Idle
  <2>4. QED
    BY <1>0, <1>1, <2>1, <2>2, <2>3, StartEases
<1>4. ASSUME NEW h \in Handle, ClientDespawn(c, h) PROVE Eases(c)
  <2>0. PICK k : k = clients[c].handles[h]
    OBVIOUS
  <2> DEFINE new == [pc |-> "release", victim |-> k]
  <2>1. Connected(c) /\ Then(c, new) /\ UNCHANGED ent /\ k # None
    BY <1>4, <2>0 DEF ClientDespawn, edge, held
  <2>2. w = With(j, new) /\ OthersStay(c)
    BY <1>0, <1>1, <2>1, Turned
  <2>3. w.pc = "release" /\ w.next = "rest" /\ w.victim = k /\ Flat(j)
    BY <1>2, <2>1, <2>2 DEF With, Idle
  <2>4. clients[c] # None /\ k \in Key
    BY <2>0, <2>1, ConnectedHome
  <2>5. Owed(k, c, h)
    BY <2>0, <2>4 DEF HomeInv, OwnersAgree, Bound
  <2>6. Held(k) => ent[k].handle = h
    BY <2>5 DEF Owed, Owned, Unbinding, HomeInv, OwnersAgree, UnbindsAlone
  <2>7. Held(k) => ent[k].shadowOf = None
    BY <2>4, <2>6, NoneFacts DEF ListInv, Lineage, Stands
  <2>8. QED
    BY <1>0, <1>1, <2>1, <2>2, <2>3, <2>7, LetGoEases
<1>5. ASSUME NEW h \in Handle, ClientSay(c, h) PROVE Eases(c)
  <2>0. PICK k, x : k = clients[c].handles[h] /\ x = words'
    OBVIOUS
  <2> DEFINE new == [pc |-> "say", key |-> k, word |-> x]
  <2>1. Connected(c) /\ Then(c, new) /\ UNCHANGED ent
    BY <1>5, <2>0 DEF ClientSay, edge, held
  <2>2. w = With(j, new) /\ OthersStay(c)
    BY <1>0, <1>1, <2>1, Turned
  <2>3. w.pc = "say" /\ Flat(j)
    BY <1>2, <2>1, <2>2 DEF With, Idle
  <2>4. Flat(w) /\ Turns(w)
    BY <2>3, FlatJobs
  <2>5. QED
    BY <1>0, <1>1, <2>1, <2>2, <2>3, <2>4, FlatEases
<1>6. ASSUME NEW h \in Handle, NEW r \in Region, ClientTeleport(c, h, r) PROVE Eases(c)
  BY <1>6 DEF ClientTeleport, StayPut
<1>7. QED
  BY <1>3, <1>4, <1>5, <1>6, LeaveEases DEF Commanded

LEMMA NextListed ==
    ASSUME StayPut, IInv, HomeInv, ListInv, [Next]_vars
    PROVE  ListInv'
<1>1. CASE Next
  <2>1. HomeStep
    BY <1>1, CommonHome, ReaderHome, PublisherHome, GameHome, WorldsHome, CommandedHome, SayHome
    DEF Next
  <2>2. CASE Reader
    BY <2>2, ReaderListed
  <2>3. CASE ~Reader
    <3>1. \E t \in Thread : Eases(t)
      BY <1>1, <2>3, CommonEases, PublisherEases, GameEases, WorldsEases, CommandedEases, SayEases,
         ThreadFacts DEF Next
    <3>2. QED
      BY <2>1, <3>1, EasesKeep
  <2>4. QED
    BY <2>2, <2>3
<1>2. CASE UNCHANGED vars
  <2>1. UNCHANGED ent /\ UNCHANGED job /\ UNCHANGED minted
    BY <1>2 DEF vars, edge, held
  <2>2. Eases("reader")
    BY <2>1, StillEases
  <2>3. \E t \in Thread : t = "reader"
    BY ThreadFacts
  <2>4. HomeStep
    <3>1. UNCHANGED <<edge, outbound, job>>
      BY <1>2 DEF vars
    <3>2. OwnersStay /\ RecordsFine(Known) /\ ClientsStay /\ outbound' \in Seq(MessageOf(Known))
      BY <3>1, EdgeStays, SameHeld, SameOutbound
    <3>3. Fine(Known) /\ Stays
      BY <2>1, <3>1, <3>2 DEF Fine, Stays
    <3>4. QED
      BY <3>3 DEF HomeStep
  <2>5. QED
    BY <2>2, <2>3, <2>4, EasesKeep
<1>3. QED
  BY <1>1, <1>2

LEMMA InitListed == Init => ListInv
<1> SUFFICES ASSUME Init PROVE ListInv
  OBVIOUS
<1>1. \A t \in Thread : job[t] = Idle
  BY DEF Init
<1>2. \A k \in Key : ~Held(k)
  BY DEF Init, Held
<1>3. /\ \A t \in Thread : Turns(job[t])
      /\ \A t \in Thread : Targets(job[t]) = {}
  BY <1>1, IdleFlat DEF Flat
<1>4. Working(job["reader"])
  <2>1. job["reader"] = Idle
    BY <1>1, ThreadFacts
  <2>2. QED
    BY <2>1, IdleFlat DEF Flat, Working
<1>5. Lineage /\ SweptTogether /\ \A k \in Key : Excused(k)
  BY <1>2, <1>3 DEF Lineage, SweptTogether, Excused
<1>6. QED
  BY <1>3, <1>4, <1>5 DEF ListInv

LEMMA QuietListed ==
    ASSUME IInv, HomeInv, FlowInv, ListInv
    PROVE  ShadowsListed
<1> SUFFICES ASSUME Quiet, NEW k \in Key, Held(k), ~ent[k].doomed
             PROVE  ent[k].shadows = {s \in Key : Held(s) /\ ent[s].shadowOf = k}
  BY DEF ShadowsListed
<1>1. \A t \in Thread : job[t] = Idle
  BY AtHome DEF Quiet, At, JobReady
<1>2. ~Excused(k)
  BY <1>1, IdleFlat DEF Excused, Flat
<1>3. Matches(k, Idle)
  BY <1>1, <1>2, ThreadFacts DEF ListInv
<1>4. PICK S : S = ent[k].shadows
  OBVIOUS
<1>5. /\ \A s \in S : Held(s)
      /\ \A s \in Key : StandsFor(s, k) => s \in S \/ ent[s].doomed
  BY <1>3, <1>4, IdleFlat, FlatMatches
<1>6. \A s \in S : s \in Key /\ ent[s].shadowOf = k
  BY <1>4, <1>5, Minted DEF ListInv, Lineage
<1>7. \A s \in Key : Held(s) /\ ent[s].shadowOf = k => s \in S
  BY <1>5, DoomedGone DEF StandsFor
<1>8. QED
  BY <1>4, <1>5, <1>6, <1>7

(* Once nothing is under way, an entity that was not given back lists      *)
(* exactly the shadows that stand for it: ViewCollision, which keeps, asks *)
(* for and releases them one by one and then replaces the list;            *)
(* ViewCleared, which empties it and releases what was on it; on_presence, *)
(* which takes off what a region removed and releases what a removed       *)
(* entity listed; and sweep together, in any order of their steps with     *)
(* those of the other threads, for any number of clients, regions and      *)
(* entities.  While entities teleport that is only checked.                *)
THEOREM ShadowsAlwaysListed == StayPut => (Spec => []ShadowsListed)
<1> SUFFICES ASSUME StayPut PROVE Spec => []ShadowsListed
  OBVIOUS
<1> DEFINE All == HomeInv /\ FlowInv /\ ListInv
<1>1. Init => All
  BY InitHome, InitFlows, InitListed
<1>2. IInv /\ IInv' /\ All /\ [Next]_vars => All'
  <2> SUFFICES ASSUME IInv, IInv', All, [Next]_vars PROVE All'
    OBVIOUS
  <2>1. HomeInv'
    BY NextHome
  <2>2. QED
    BY <2>1, NextFlows, NextListed
<1>3. IInv /\ All => ShadowsListed
  BY QuietListed
<1>4. QED
  BY <1>1, <1>2, <1>3, EdgeServerInvariant, PTL DEF Spec
=============================================================================
