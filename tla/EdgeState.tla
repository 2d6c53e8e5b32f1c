----------------------------- MODULE EdgeState ------------------------------
(***************************************************************************)
(* What an edge server holds, and the steps several of its threads take:   *)
(* asking a region for an entity, giving one back, forgetting it, seeing a *)
(* client off, and starting a teleport (net/edge/handle.rs).  EdgeServer   *)
(* says what the threads are and how they interleave.                      *)
(***************************************************************************)
EXTENDS Integers, FiniteSets, Sequences, SequencesExt, TLC

CONSTANTS
    Client,         \* connections there can be
    Handle,         \* a client's own names for what it asks for
    Region,         \* the regions, all of them on the map and neighbours
    None,           \* no key, no handle, no client
    MaxKeys,        \* entities asked for: bounds the keys
    MaxWords,       \* messages said to entities
    MaxEvents,      \* what regions and the consumer do unasked
    Commands,       \* what clients do besides spawning: a subset of {"despawn",
                    \* "say", "teleport", "leave", "hasty"}; unless "hasty", a
                    \* client waits to be told of what it asked for
    Events          \* what the others do: a subset of {"cross", "view",
                    \* "despawn", "refuse", "spawn", "release", "late"}

Key == 0 .. (MaxKeys - 1)
Word == 1 .. MaxWords
Name == Client \X Handle
Thread == Client \cup {"reader", "publisher", "game"}

(* Entity and Client of the code, without positions and kinds.             *)
EntityType ==
    [client : Client \cup {None}, handle : Handle \cup {None}, region : Region,
     id : BOOLEAN, doomed : BOOLEAN, replaces : Key \cup {None}, shadows : SUBSET Key,
     shadowOf : Key \cup {None}, standing : 0 .. MaxWords, to : Key \cup {None},
     held : Seq(Word)]

ClientType == [handles : [Handle -> Key \cup {None}], keys : SUBSET Key, leaving : BOOLEAN]

ASSUME EdgeServerAssumption ==
    /\ MaxKeys \in Nat /\ MaxWords \in Nat /\ MaxEvents \in Nat
    /\ None \notin Key \cup Client \cup Handle \cup Region
    /\ None \notin EntityType /\ None \notin ClientType
    /\ Client \cap {"reader", "publisher", "game"} = {}

VARIABLES
    ent,            \* Entities::by_key: ent[k], or None
    byId,           \* Entities::by_id: the keys it leads to
    clients,        \* clients[c], or None once it is gone
    minted,         \* keys minted so far
    transits,       \* teleports in flight: pairs of the old key and the new
    carried,        \* teleport_state: the keys there is state for
    outbound,       \* what the publisher has not published yet
    inbox,          \* inbox[r]: what region r has not taken yet
    job,            \* job[t]: what thread t is in the middle of
    panicked,       \* a thread panicked holding the lock of entities
    alive,          \* alive[r]: the entities of this edge in region r
    presence,       \* presence[r]: what r reported and the edge has not read
    heard,          \* heard[k]: the messages r's game heard from entity k
    events,         \* things done unasked so far
    shown,          \* shown[n]: "no", "asked" or "spawned", as n's client sees it
    given,          \* names their clients have given back
    said,           \* said[n]: the last message said to n, 0 for none
    words,          \* messages said so far: the i-th is the number i
    kept,           \* messages that were held during a teleport
    ended,          \* ended[c]: how often EdgeGame::disconnected was called
    late            \* the game was called about a client after that

held == <<ent, byId>>
edge == <<held, clients, minted, transits, carried>>
regions == <<inbox, alive, presence, heard, events>>
talk == <<said, words, kept>>
calls == <<ended, late>>
aside == <<shown, given, talk, calls, panicked>>
world == <<regions, aside>>
vars == <<edge, outbound, job, world>>

(* What a step changes besides its thread's job.                           *)
OnlyJob == UNCHANGED <<edge, outbound, world>>
OnlyEnt == UNCHANGED <<byId, clients, minted, transits, carried, outbound, world>>
OnlyHeld == UNCHANGED <<clients, minted, transits, carried, outbound, world>>
OnlyClients == UNCHANGED <<held, minted, transits, carried, outbound, world>>
OnlyTransits == UNCHANGED <<held, clients, minted, carried, outbound, world>>
OnlyCarried == UNCHANGED <<held, clients, minted, transits, outbound, world>>
OnlyAsked == UNCHANGED <<byId, clients, transits, carried, outbound, world>>

(* A thread at rest.  In a job, key is the entity at hand and other its    *)
(* counterpart: what is asked for on its behalf, or what it replaces.      *)
(* victim is what is being released or forgotten, of whom it was; next is  *)
(* where an ask, a release or a forget returns to, and after where to go   *)
(* once all of todo is released.                                           *)
Idle == [pc |-> "idle", key |-> None, other |-> None, client |-> None,
         handle |-> None, dest |-> None, carry |-> FALSE, shadow |-> FALSE,
         word |-> 0, words |-> <<>>, reach |-> {}, keep |-> {}, had |-> {}, due |-> {},
         victim |-> None, of |-> <<None, None>>, todo |-> {},
         next |-> "rest", after |-> "rest"]

Init ==
    /\ ent = [k \in Key |-> None]
    /\ byId = {}
    /\ clients = [c \in Client |->
                    [handles |-> [h \in Handle |-> None], keys |-> {}, leaving |-> FALSE]]
    /\ minted = 0
    /\ transits = {}
    /\ carried = {}
    /\ outbound = <<>>
    /\ inbox = [r \in Region |-> <<>>]
    /\ job = [t \in Thread |-> Idle]
    /\ panicked = FALSE
    /\ alive = [r \in Region |-> {}]
    /\ presence = [r \in Region |-> <<>>]
    /\ heard = [k \in Key |-> <<>>]
    /\ events = 0
    /\ shown = [n \in Name |-> "no"]
    /\ given = {}
    /\ said = [n \in Name |-> 0]
    /\ words = 0
    /\ kept = {}
    /\ ended = [c \in Client |-> 0]
    /\ late = FALSE

-----------------------------------------------------------------------------
(* Steps that several threads take.                                        *)
Held(k) == k # None /\ ent[k] # None

(* A panic leaves the lock of entities poisoned: no thread gets further.   *)
At(t, p) == job[t].pc = p /\ ~panicked

With(j, new) == [f \in DOMAIN j |-> IF f \in DOMAIN new THEN new[f] ELSE j[f]]

Then(t, new) == job' = [job EXCEPT ![t] = With(@, new)]

Rest(t) == job' = [job EXCEPT ![t] = Idle]

GoOn(t, p) == IF p = "rest" THEN Rest(t) ELSE Then(t, [pc |-> p])

Return(t) == GoOn(t, job[t].next)

(* tell_region.                                                            *)
Spawning(r, k) == [what |-> "spawn", region |-> r, key |-> k, word |-> 0]
Despawning(r, k) == [what |-> "despawn", region |-> r, key |-> k, word |-> 0]
Saying(r, k, w) == [what |-> "message", region |-> r, key |-> k, word |-> w]

Send(ms) == outbound' = outbound \o ms

Messages(r, k, ws) == [i \in DOMAIN ws |-> Saying(r, k, ws[i])]

(* The consumer's game is called about client c, if there is one.          *)
Call(c) == late' = (late \/ (c # None /\ ended[c] > 0))

(* Mutant of Mint: the same key again.                                     *)
MintAgain == minted < MaxKeys /\ minted' = minted

(* ask_for: a key is minted and the entity recorded, *)
Mint == minted < MaxKeys /\ minted' = minted + 1

Record(c, h, r, owner) ==
    /\ Mint
    /\ ent' = [ent EXCEPT ![minted] =
                [client |-> c, handle |-> h, region |-> r, id |-> FALSE,
                 doomed |-> FALSE, replaces |-> None, shadows |-> {},
                 shadowOf |-> owner, standing |-> 0, to |-> None, held |-> <<>>]]

(* ... then bound to its client, if that is still there, and asked for.    *)
Ask(t) ==
    LET j == job[t]
        k == j.other IN
    /\ At(t, "ask")
    /\ clients' =
        IF j.client = None \/ clients[j.client] = None THEN clients
        ELSE [clients EXCEPT
                ![j.client].keys = @ \cup {k},
                ![j.client].handles =
                    IF j.handle = None THEN @ ELSE [@ EXCEPT ![j.handle] = k]]
    /\ Send(<<Spawning(j.dest, k)>>)
    /\ Return(t)
    /\ UNCHANGED <<held, minted, transits, carried, world>>

(* release: an entity the region has not answered for is forgotten; *)
ReleaseUnanswered(t) ==
    /\ At(t, "release")
    /\ Held(job[t].victim)
    /\ ~ent[job[t].victim].id
    /\ Then(t, [pc |-> "forget"])
    /\ OnlyJob

(* Mutant of Doom: the region is not told.                                 *)
DoomQuietly(k) == ent' = [ent EXCEPT ![k].doomed = TRUE] /\ UNCHANGED outbound

(* ... any other is doomed, and its region is told.                        *)
Doom(k) ==
    /\ ent' = [ent EXCEPT ![k].doomed = TRUE]
    /\ Send(<<Despawning(ent[k].region, k)>>)

Release(t) ==
    LET k == job[t].victim IN
    /\ At(t, "release")
    /\ Held(k) => ent[k].id
    /\ IF Held(k) THEN Doom(k) ELSE UNCHANGED <<ent, outbound>>
    /\ Return(t)
    /\ UNCHANGED <<byId, clients, minted, transits, carried, world>>

(* Mutant of Drop: the region's name for it stays.                         *)
DropRecord(k) == ent' = [ent EXCEPT ![k] = None] /\ byId' = byId

(* forget: the record goes, and the region's name for it, *)
Drop(k) ==
    /\ ent' = [ent EXCEPT ![k] = None]
    /\ byId' = IF Held(k) /\ ent[k].id THEN byId \ {k} ELSE byId

Forget(t) ==
    LET k == job[t].victim IN
    /\ At(t, "forget")
    /\ Drop(k)
    /\ IF Held(k)
       THEN Then(t, [pc |-> "unbind", of |-> <<ent[k].client, ent[k].handle>>])
       ELSE Return(t)
    /\ OnlyHeld

(* Mutant of Unbound: the handle stays.                                    *)
UnboundKey(c, k, h) ==
    IF c = None \/ clients[c] = None THEN clients
    ELSE [clients EXCEPT ![c].keys = @ \ {k}]

(* ... then its client's.                                                  *)
Unbound(c, k, h) ==
    IF c = None \/ clients[c] = None THEN clients
    ELSE [clients EXCEPT ![c].keys = @ \ {k},
                         ![c].handles = IF h = None THEN @ ELSE [@ EXCEPT ![h] = None]]

Unbind(t) ==
    /\ At(t, "unbind")
    /\ clients' = Unbound(job[t].of[1], job[t].victim, job[t].of[2])
    /\ Return(t)
    /\ OnlyClients

(* One more of several to release, or none.                                *)
ReleaseNext(t) ==
    /\ At(t, "todo")
    /\ IF job[t].todo = {} THEN GoOn(t, job[t].after)
       ELSE \E k \in job[t].todo :
              Then(t, [pc |-> "release", victim |-> k, todo |-> job[t].todo \ {k}, next |-> "todo"])
    /\ OnlyJob

(* Mutant of Left: whatever the client still holds.                        *)
LeftEarly(c) == clients[c] # None /\ clients[c].leaving

(* finish_leaving: has a leaving client let go of everything? *)
Left(c) == clients[c] # None /\ clients[c].leaving /\ clients[c].keys = {}

CheckLeft(t) ==
    /\ At(t, "finish")
    /\ IF Left(job[t].client) THEN Then(t, [pc |-> "fire"]) ELSE Rest(t)
    /\ OnlyJob

(* ... then it is gone, and the game is told.                              *)
Disconnected(t) ==
    LET c == job[t].client IN
    /\ At(t, "fire")
    /\ clients' = [clients EXCEPT ![c] = None]
    /\ ended' = [ended EXCEPT ![c] = @ + 1]
    /\ Call(c)
    /\ Rest(t)
    /\ UNCHANGED <<held, minted, transits, carried, outbound, regions, shown, given, talk, panicked>>

-----------------------------------------------------------------------------
(* begin_teleport, on a stream task or on the reader.  Refused if unknown, *)
(* given back, in transit or there already; *)
Begin(t) ==
    LET k == job[t].key IN
    /\ At(t, "begin")
    /\ IF Held(k) /\ ~ent[k].doomed /\ ent[k].to = None /\ ent[k].region # job[t].dest
       THEN Then(t, [pc |-> "decide", client |-> ent[k].client])
       ELSE Rest(t)
    /\ OnlyJob

(* ... or by the game; *)
Denied(t) ==
    /\ At(t, "decide")
    /\ Call(job[t].client)
    /\ Rest(t)
    /\ UNCHANGED <<edge, outbound, panicked, regions, shown, given, talk, ended>>

(* ... else a copy is asked for, *)
AskCopy(t, carry) ==
    /\ At(t, "decide")
    /\ Call(job[t].client)
    /\ Record(job[t].client, None, job[t].dest, None)
    /\ Then(t, [pc |-> "ask", other |-> minted, carry |-> carry, next |-> "link"])
    /\ UNCHANGED <<byId, clients, transits, carried, outbound, panicked, regions, shown, given, talk, ended>>

(* ... and the two are linked, or the copy given straight back; *)
Link(t) ==
    LET k == job[t].key
        to == job[t].other IN
    /\ At(t, "link")
    /\ IF Held(k)
       THEN /\ ent' = [x \in Key |->
                        IF x = k THEN [ent[k] EXCEPT !.to = to, !.held = <<>>]
                        ELSE IF x = to /\ Held(to) THEN [ent[to] EXCEPT !.replaces = k]
                        ELSE ent[x]]
            /\ Then(t, [pc |-> IF job[t].carry THEN "carry" ELSE "note"])
       ELSE /\ UNCHANGED ent
            /\ Then(t, [pc |-> "release", victim |-> to, next |-> "rest"])
    /\ OnlyEnt

(* ... the game's state is put by, *)
Carry(t) ==
    /\ At(t, "carry")
    /\ carried' = carried \cup {job[t].other}
    /\ Then(t, [pc |-> "note"])
    /\ OnlyCarried

(* Mutant of Note: the deadline is not noted.                              *)
NoteNothing(t) == At(t, "note") /\ Rest(t) /\ OnlyJob

(* ... and the deadline noted.                                             *)
Note(t) ==
    /\ At(t, "note")
    /\ transits' = transits \cup {<<job[t].key, job[t].other>>}
    /\ Rest(t)
    /\ OnlyTransits
=============================================================================
