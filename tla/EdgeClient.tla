----------------------------- MODULE EdgeClient -----------------------------
(***************************************************************************)
(* A game client's side of the link (net/edge/client.rs): the commands a   *)
(* game gives from its threads, the byte stream and the datagrams they     *)
(* travel on, and what comes back, with the bookkeeping of who sends what  *)
(* near a seam.                                                            *)
(*                                                                         *)
(* A call settles what it holds under a lock and sends after it, so it is  *)
(* several steps.  The edge reads the stream in pieces of any size.  A     *)
(* region's side is what `serve` can send: records of what its ghost table *)
(* takes in, and a despawn, one packet later, of what left it, which may   *)
(* have come back by then and be in that packet twice.                     *)
(***************************************************************************)
EXTENDS Wire, TLC

CONSTANTS
    Thread,             \* threads of the game that call
    Calls,              \* kinds of the commands it gives
    MaxHandle, MaxMoves,                    \* bounds: handles, moves in a call
    PerBatch,           \* moves the connection takes in one datagram
    Body,               \* the game's own bytes
    Chunks,             \* how many bytes a read may bring
    Region, Name,
    SquareOf,           \* SquareOf[r] is the square of r, or None off the map
    RegionSize, VerticalExtent,
    LocalAt,            \* LocalAt[r] is where r has its entities
    MaxWork, CallCost, PacketCost,  \* bound: what calls and packets cost
    MaxFaults           \* bound: losses and overtakings

ASSUME EdgeClientAssumption ==
    /\ MaxHandle \in Nat /\ PerBatch \in 1 .. MaxMovesPerDatagram
    /\ Chunks \subseteq Nat \ {0}
    /\ None \notin BOOLEAN

VARIABLES
    handles,        \* the last handle given
    live,           \* live[h]: None, or whether it has walked
    calls,          \* calls[t]: None, or the rest of the call t is making
    dropped,        \* the EdgeClient is gone
    said,           \* history: what was queued on the stream
    unread,         \* bytes of it the edge has not read
    buf,            \* the edge's Framer
    open,           \* the edge has not closed the connection
    heard,          \* history: what the edge decoded
    air,            \* history: datagrams sent to the edge
    frames,         \* frames[r]: None, or how to read r's packets
    sending,        \* sending[n]: the regions that send n
    view,           \* where the game has n, or None
    down,           \* the stream to the client
    grams,          \* state datagrams on their way
    told, missed,   \* regions announced; whether a packet found no frame
    holds, leaving, \* of each region: in the ghost table; pending despawns
    work, faults    \* bounded by MaxWork and MaxFaults

upward == <<handles, live, calls, said, unread, buf, open, heard, air>>
downward == <<frames, sending, view, down, grams, missed>>
region == <<told, holds, leaving>>
vars == <<upward, dropped, downward, region, work, faults>>

Handles == 1 .. MaxHandle

Init ==
    /\ handles = 0 /\ live = [h \in Handles |-> None]
    /\ calls = [t \in Thread |-> None] /\ dropped = FALSE
    /\ said = <<>> /\ unread = <<>> /\ buf = <<>> /\ open = TRUE
    /\ heard = <<>> /\ air = {}
    /\ frames = [r \in Region |-> None]
    /\ sending = [n \in Name |-> {}] /\ view = [n \in Name |-> None]
    /\ down = <<>> /\ grams = <<>> /\ told = {} /\ missed = FALSE
    /\ holds = [r \in Region |-> {}] /\ leaving = [r \in Region |-> {}]
    /\ work = 0 /\ faults = 0

(***************************************************************************)
(* ClientHandle.                                                           *)
(***************************************************************************)
Somewhere == CHOOSE r \in Region : TRUE

(* A command, with all that any kind of it says, and what its kind puts on *)
(* the stream; a move is 2.                                                *)
Message(kind, h) ==
    [kind |-> kind, handle |-> h, region |-> Somewhere,
     x |-> 3, y |-> 4, z |-> 1, role |-> 1, tag |-> 7]

Named(kind, layout, m) ==
    [f \in {"kind"} \cup {layout[i].name : i \in DOMAIN layout} |-> m[f]]

Spoken(m) == Named(m.kind, FromClient[m.kind], m)

Moves(batch) ==
    [kind |-> 9, moves |-> [i \in DOMAIN batch |->
                               [handle |-> batch[i], x |-> 3, y |-> 4, z |-> 1]]]

(* A call in the middle: handles to walk, the batch, and what it has made  *)
(* up its mind to send.                                                    *)
Call(todo, batch, send) == [todo |-> todo, batch |-> batch, send |-> send]
Reliable(m) == Call(<<>>, <<>>, <<[by |-> "stream", m |-> Spoken(m)]>>)

(* Handles the game was given: `ask` returns one once its spawn is queued. *)
Given == {said[i].handle : i \in {j \in DOMAIN said : said[j].kind \in {1, 15}}}

Begin(t) ==
    /\ calls[t] = None /\ ~dropped
    /\ work + CallCost <= MaxWork /\ work' = work + CallCost

(* ask, and spawn_into.                                                    *)
Spawn(t, kind) ==
    /\ Begin(t) /\ handles < MaxHandle
    /\ handles' = handles + 1
    /\ live' = [live EXCEPT ![handles'] = FALSE]
    /\ calls' = [calls EXCEPT ![t] = Reliable(Message(kind, handles'))]
    /\ UNCHANGED <<said, unread, buf, open, heard, air, dropped, downward,
                   region, faults>>

(* teleport and teleport_into: the lock is let go before the message is    *)
(* queued.                                                                 *)
Teleport(t, kind, h) ==
    /\ Begin(t) /\ h \in Given /\ live[h] # None
    /\ calls' = [calls EXCEPT ![t] = Reliable(Message(kind, h))]
    /\ UNCHANGED <<handles, live, said, unread, buf, open, heard, air,
                   dropped, downward, region, faults>>

(* give_back.                                                              *)
Despawn(t, h) ==
    /\ Begin(t) /\ h \in Given /\ live[h] # None
    /\ live' = [live EXCEPT ![h] = None]
    /\ calls' = [calls EXCEPT ![t] = Reliable(Message(3, h))]
    /\ UNCHANGED <<handles, said, unread, buf, open, heard, air, dropped,
                   downward, region, faults>>

(* send, send_datagram and entity_send: nothing is looked up.              *)
Send(t, m, by) ==
    /\ Begin(t)
    /\ calls' = [calls EXCEPT ![t] = Call(<<>>, <<>>, <<[by |-> by, m |-> m]>>)]
    /\ UNCHANGED <<handles, live, said, unread, buf, open, heard, air,
                   dropped, downward, region, faults>>

MoveEntities(t, todo) ==
    /\ Begin(t)
    /\ calls' = [calls EXCEPT ![t] = Call(todo, <<>>, <<>>)]
    /\ UNCHANGED <<handles, live, said, unread, buf, open, heard, air,
                   dropped, downward, region, faults>>

(* One handle of the call: the first move of a handle goes on the stream.  *)
WalkUnmarked(t) ==
    LET c == calls[t]
        h == Head(c.todo)
    IN  /\ c # None /\ c.send = <<>> /\ c.todo # <<>>
        /\ calls' = [calls EXCEPT ![t] =
               IF live[h] = None THEN Call(Tail(c.todo), c.batch, <<>>)
               ELSE Call(Tail(c.todo), c.batch,
                         <<[by |-> "stream", m |-> Spoken(Message(2, h))]>>)]
        /\ UNCHANGED <<handles, live, said, unread, buf, open, heard, air,
                       dropped, downward, region, work, faults>>

Walk(t) ==
    LET c == calls[t]
        h == Head(c.todo)
        batch == Append(c.batch, h)
    IN  /\ c # None /\ c.send = <<>> /\ c.todo # <<>>
        /\ live' = [live EXCEPT ![h] = IF @ = None THEN None ELSE TRUE]
        /\ calls' = [calls EXCEPT ![t] =
               IF live[h] = None THEN Call(Tail(c.todo), c.batch, <<>>)
               ELSE IF ~live[h]
               THEN Call(Tail(c.todo), c.batch,
                         <<[by |-> "stream", m |-> Spoken(Message(2, h))]>>)
               ELSE IF Len(batch) = PerBatch
               THEN Call(Tail(c.todo), <<>>,
                         <<[by |-> "datagram", m |-> Moves(batch)]>>)
               ELSE Call(Tail(c.todo), batch, <<>>)]
        /\ UNCHANGED <<handles, said, unread, buf, open, heard, air, dropped,
                       downward, region, work, faults>>

(* reliable and datagram.  A datagram the connection has no room for is    *)
(* dropped; and what is queued as the tasks end goes nowhere.              *)
Queue(t) ==
    LET c == calls[t]
        s == c.send[1]
    IN  /\ c # None /\ c.send # <<>>
        /\ calls' = [calls EXCEPT ![t] = Call(c.todo, c.batch, <<>>)]
        /\ IF dropped THEN UNCHANGED <<said, unread, air>>
           ELSE IF s.by = "stream"
           THEN /\ said' = Append(said, s.m)
                /\ unread' = unread \o Framed(Encode(FromClient, s.m))
                /\ UNCHANGED air
           ELSE /\ air' \in {air, air \cup {s.m}}
                /\ UNCHANGED <<said, unread>>
        /\ UNCHANGED <<handles, live, buf, open, heard, dropped, downward,
                       region, work, faults>>

(* ... or is refused, once the tasks or the connection have ended: the     *)
(* error ends the call, with all it had left to do.                        *)
Fail(t) ==
    /\ calls[t] # None /\ calls[t].send # <<>>
    /\ dropped \/ ~open
    /\ calls' = [calls EXCEPT ![t] = None]
    /\ UNCHANGED <<handles, live, said, unread, buf, open, heard, air,
                   dropped, downward, region, work, faults>>

(* The call returns, with what is left of its batch sent.                  *)
Return(t) ==
    LET c == calls[t]
    IN  /\ c # None /\ c.send = <<>> /\ c.todo = <<>>
        /\ calls' = [calls EXCEPT ![t] =
               IF c.batch = <<>> THEN None
               ELSE Call(<<>>, <<>>,
                         <<[by |-> "datagram", m |-> Moves(c.batch)]>>)]
        /\ UNCHANGED <<handles, live, said, unread, buf, open, heard, air,
                       dropped, downward, region, work, faults>>

(* Dropping the EdgeClient: its tasks end, and every handle fails.         *)
Drop ==
    /\ ~dropped /\ work < MaxWork
    /\ dropped' = TRUE /\ work' = MaxWork
    /\ UNCHANGED <<upward, downward, region, faults>>

(***************************************************************************)
(* The edge reads: whole messages, in pieces of any size.                  *)
(***************************************************************************)
Understood(bodies) ==
    SelectSeq([i \in DOMAIN bodies |-> Decode(FromClient, bodies[i])],
              LAMBDA m : m # Malformed)

EdgeReads(n) ==
    LET took == Smaller(n, Len(unread))
        taken == TakeFrames(buf \o SubSeq(unread, 1, took))
    IN  /\ open /\ unread # <<>>
        /\ unread' = SubSeq(unread, took + 1, Len(unread))
        /\ buf' = taken.buf /\ open' = taken.ok
        /\ heard' = heard \o Understood(taken.bodies)
        /\ UNCHANGED <<handles, live, calls, said, air, dropped, downward,
                       region, work, faults>>

(***************************************************************************)
(* The regions, through the edge.  A region is announced on the stream     *)
(* before its first packet.                                                *)
(***************************************************************************)
InfoOf(r) ==
    [kind |-> 8, region |-> r, size |-> RegionSize, extent |-> VerticalExtent,
     placed |-> IF SquareOf[r] = None THEN 0 ELSE 1,
     col |-> IF SquareOf[r] = None THEN 0 ELSE SquareOf[r].col,
     row |-> IF SquareOf[r] = None THEN 0 ELSE SquareOf[r].row]

(* for_extents: the least a configuration takes to have these widths.      *)
CodecFor(size, extent) ==
    Build(Authored(size, extent, Larger(size \div 16, 1), 1, 20))

Pays ==
    /\ open /\ work + PacketCost <= MaxWork
    /\ work' = work + PacketCost

PacketOf(r, updates) ==
    LET codec == CodecFor(RegionSize, VerticalExtent)
        drops == SetToSortSeq(leaving[r], <)
        rows == SetToSortSeq(updates, <)
    IN  Packet(0, 0, drops, [i \in DOMAIN rows |->
            EncodeRecord(codec, rows[i], LocalAt[r], 0)])

ServeKeeping(r) ==
    \E updates \in SUBSET Name :
    \E departs \in SUBSET (holds[r] \ updates) :
        /\ Pays
        /\ told' = told \cup {r}
        /\ down' = IF r \in told THEN down
                   ELSE Append(down, Encode(ToClient, InfoOf(r)))
        /\ grams' = Append(grams, Encode(ToClient,
               [kind |-> 6, handle |-> 1, region |-> r,
                packet |-> <<PacketOf(r, updates)>>]))
        /\ holds' = [holds EXCEPT ![r] = @ \cup updates]
        /\ leaving' = [leaving EXCEPT ![r] = departs]
        /\ UNCHANGED <<upward, dropped, frames, sending, view, missed, faults>>

Serve(r) ==
    \E updates \in SUBSET Name :
    \E departs \in SUBSET (holds[r] \ updates) :
        /\ Pays
        /\ told' = told \cup {r}
        /\ down' = IF r \in told THEN down
                   ELSE Append(down, Encode(ToClient, InfoOf(r)))
        /\ grams' = Append(grams, Encode(ToClient,
               [kind |-> 6, handle |-> 1, region |-> r,
                packet |-> <<PacketOf(r, updates)>>]))
        /\ holds' = [holds EXCEPT ![r] = (@ \cup updates) \ departs]
        /\ leaving' = [leaving EXCEPT ![r] = departs]
        /\ UNCHANGED <<upward, dropped, frames, sending, view, missed, faults>>

(* The edge's word of an entity: here, gone, moved, or not moved.          *)
Word(kind, h) ==
    [kind |-> kind, handle |-> h, region |-> Somewhere, name |-> 1]

EdgeSays(kind, h) ==
    /\ Pays
    /\ \E i \in DOMAIN heard : heard[i].kind = 1 /\ heard[i].handle = h
    /\ down' = Append(down, Encode(ToClient,
                   Named(kind, ToClient[kind], Word(kind, h))))
    /\ UNCHANGED <<upward, dropped, frames, sending, view, grams, missed,
                   region, faults>>

(***************************************************************************)
(* deliver, from the stream and from the datagrams.                        *)
(***************************************************************************)
(* Who sends each name, settled before the game is told: updates, and then *)
(* despawns.                                                               *)
SendersOnlyAdding(r, named, drops) ==
    [n \in Name |-> IF n \in named THEN sending[n] \cup {r} ELSE sending[n]]
Senders(r, named, drops) ==
    [n \in Name |-> (IF n \in named THEN sending[n] \cup {r} ELSE sending[n])
                       \ (IF n \in drops THEN {r} ELSE {})]

(* mask_despawns: what another region still sends is held back.            *)
ReportedAll(senders, drops) == drops
Reported(senders, drops) == {n \in drops : senders[n] = {}}

(* The game drops what it is told to, and then adds.                       *)
Observe(r, packet, frame) ==
    LET seen == Observation(frame.codec, packet, frame.placement)
        updates == {seen.updates[i] : i \in DOMAIN seen.updates}
        named == {u.name : u \in updates}
        drops == {seen.despawns[i] : i \in DOMAIN seen.despawns}
        senders == Senders(r, named, drops)
    IN  /\ sending' = senders
        /\ view' = [n \in Name |->
               IF n \in named THEN (CHOOSE u \in updates : u.name = n).pos
               ELSE IF n \in Reported(senders, drops) THEN None
               ELSE view[n]]

Deliver(bytes) ==
    LET m == Decode(ToClient, bytes)
    IN  CASE m = Malformed -> UNCHANGED <<live, frames, sending, view, missed>>
          [] m.kind = 8 ->
                 /\ frames' = [frames EXCEPT ![m.region] =
                        [codec |-> CodecFor(m.size, m.extent),
                         placement |-> IF m.placed = 0 THEN None
                                       ELSE Square(m.col, m.row)]]
                 /\ UNCHANGED <<live, sending, view, missed>>
          [] m.kind = 6 ->
                 /\ IF frames[m.region] = None
                    THEN missed' = TRUE /\ UNCHANGED <<sending, view>>
                    ELSE /\ Observe(m.region, m.packet[1], frames[m.region])
                         /\ UNCHANGED missed
                 /\ UNCHANGED <<live, frames>>
          [] m.kind = 5 ->
                 /\ live' = [live EXCEPT ![m.handle] = None]
                 /\ UNCHANGED <<frames, sending, view, missed>>
          [] OTHER -> UNCHANGED <<live, frames, sending, view, missed>>

ClientReads ==
    /\ ~dropped /\ down # <<>>
    /\ Deliver(Head(down))
    /\ down' = Tail(down)
    /\ UNCHANGED <<handles, calls, said, unread, buf, open, heard, air,
                   dropped, grams, region, work, faults>>

ClientHears(i) ==
    /\ ~dropped /\ open
    /\ faults' = IF i > 1 THEN faults + 1 ELSE faults
    /\ faults' <= MaxFaults
    /\ Deliver(grams[i])
    /\ grams' = RemoveAt(grams, i)
    /\ UNCHANGED <<handles, calls, said, unread, buf, open, heard, air,
                   dropped, down, region, work>>

Lose(i) ==
    /\ faults < MaxFaults /\ faults' = faults + 1
    /\ grams' = RemoveAt(grams, i)
    /\ UNCHANGED <<upward, dropped, frames, sending, view, down, missed,
                   region, work>>

-----------------------------------------------------------------------------
Own(h) ==
    {[by |-> "stream", m |-> [kind |-> 7, body |-> Body]],
     [by |-> "datagram", m |-> [kind |-> 7, body |-> Body]],
     [by |-> "stream", m |-> [kind |-> 13, handle |-> h, body |-> Body]]}

Lists == UNION {[1 .. n -> Given] : n \in 1 .. MaxMoves}

Game(t) ==
    \/ \E kind \in Calls \cap {1, 15} : Spawn(t, kind)
    \/ \E kind \in Calls \cap {10, 14}, h \in Handles : Teleport(t, kind, h)
    \/ 3 \in Calls /\ \E h \in Handles : Despawn(t, h)
    \/ \E h \in Given : \E s \in Own(h) : s.m.kind \in Calls /\ Send(t, s.m, s.by)
    \/ 9 \in Calls /\ \E todo \in Lists : MoveEntities(t, todo)

Step(t) == Walk(t) \/ Queue(t) \/ Fail(t) \/ Return(t)

Next ==
    \/ \E t \in Thread : Game(t) \/ Step(t)
    \/ Drop
    \/ \E n \in Chunks : EdgeReads(n)
    \/ \E r \in Region : Serve(r)
    \/ \E kind \in {4, 5, 11, 12}, h \in Handles : EdgeSays(kind, h)
    \/ ClientReads
    \/ \E i \in DOMAIN grams : ClientHears(i) \/ Lose(i)

Spec == Init /\ [][Next]_vars

-----------------------------------------------------------------------------
(***************************************************************************)
(* Properties.                                                             *)
(***************************************************************************)
(* The client's state and the edge's of it are well formed: nothing is live*)
(* that was never given, and every sender is a region.                     *)
TypeOK ==
    /\ handles \in 0 .. MaxHandle /\ open \in BOOLEAN /\ dropped \in BOOLEAN
    /\ live \in [Handles -> {None, TRUE, FALSE}]
    /\ \A h \in Handles : live[h] # None => h <= handles
    /\ sending \in [Name -> SUBSET Region]
    /\ \A r \in Region : holds[r] \cap leaving[r] = {}

(* However the stream is cut into reads, the edge decodes exactly what was *)
(* said, in order and unchanged.  It closes the connection for a message   *)
(* past the cap and for nothing else, and otherwise is left with no part   *)
(* of one.                                                                 *)
StreamHeard ==
    /\ IsPrefix(heard, said)
    /\ IF open
       THEN unread = <<>> => heard = said /\ buf = <<>>
       ELSE Len(Encode(FromClient, said[Len(heard) + 1])) > MaxFrame

(* Whatever two threads do at once, a handle is spawned before anything    *)
(* else is said of it and only once, walks onto the stream at most once,   *)
(* is given back at most once, and is in no datagram before its first move *)
(* was settled.                                                            *)
HandlesSpentOnce ==
    LET earlier(i, kinds) ==
            \E j \in 1 .. (i - 1) :
                said[j].kind \in kinds /\ said[j].handle = said[i].handle
    IN  /\ \A i \in DOMAIN said :
               CASE said[i].kind \in {1, 15} -> ~earlier(i, {1, 15})
                 [] said[i].kind \in {2, 3} ->
                        earlier(i, {1, 15}) /\ ~earlier(i, {said[i].kind})
                 [] OTHER -> said[i].kind # 7 => earlier(i, {1, 15})
        /\ \A m \in {x \in air : x.kind = 9}, i \in 1 .. MaxMoves :
               i \in DOMAIN m.moves => live[m.moves[i].handle] # FALSE

(* What some region is sending, the game holds, and what it holds is where *)
(* one of the regions has it, in the world's own frame: that of the last   *)
(* update, which may have stopped sending it since.  Over any loss and in  *)
(* any order.                                                              *)
ViewIsSent ==
    \A n \in Name :
        /\ sending[n] # {} => view[n] # None
        /\ view[n] # None =>
               view[n] \in
                 {IF SquareOf[r] = None THEN LocalAt[r]
                  ELSE FromLocal(LocalAt[r], SquareOf[r], RegionSize) :
                      r \in Region}

NothingOnItsWay == faults = 0 /\ ~missed /\ ~dropped /\ grams = <<>>

StillHas(r, n) == n \in holds[r] \cup leaving[r]

(* "an entry goes when the last region sending it says so": with nothing   *)
(* lost, late or still on its way, no region is thought to send what it    *)
(* neither holds nor is yet to despawn, and the game holds nothing that no *)
(* region does: nothing stands for ever in a game that was told of it by   *)
(* two regions and of its end by both.                                     *)
NothingLingers ==
    NothingOnItsWay =>
        \A n \in Name :
            /\ \A r \in sending[n] : StillHas(r, n)
            /\ view[n] # None => \E r \in Region : StillHas(r, n)

(* "a despawn from one while the other still sends it is what a crossing   *)
(* looks like from beside the seam: not the entity going away, and not     *)
(* reported as such": what a region still has, the game holds.             *)
NotTakenAway ==
    NothingOnItsWay =>
        \A n \in Name : (\E r \in Region : n \in holds[r]) => view[n] # None
=============================================================================
