----------------------------- MODULE EdgeServer -----------------------------
(***************************************************************************)
(* The edge server: net/edge/handle.rs and net/edge/server.rs.  It holds   *)
(* the entities of its clients, asks regions for them, gives them back,    *)
(* moves them from one region to the next, and keeps a shadow beyond each  *)
(* seam an observer can see across.                                        *)
(*                                                                         *)
(* Its threads "hold one at a time" (the Locking rule of Shared).  A step  *)
(* here is what a thread does under one lock, with the sends that follow   *)
(* it; between two steps any other thread may run.  The threads are the    *)
(* stream task of each client, which carries its commands and sweeps it    *)
(* when it goes, the reader of what the regions send, the publisher, which *)
(* gives up on late teleports, and the consumer's game, which may ask for  *)
(* entities of its own.  job[t] is what thread t has in hand.              *)
(*                                                                         *)
(* The regions are as the edge sees them: they take what is published in   *)
(* order, except that they keep messages in a queue of their own.  A       *)
(* region never reuses an id, so the id of what was asked for under key k  *)
(* is written k.  Positions, kinds, names, counters and world parameters   *)
(* are left out.                                                           *)
(***************************************************************************)
EXTENDS EdgePresence

-----------------------------------------------------------------------------
(* The stream task of a client: on_client, sweep.                          *)
Connected(c) == clients[c] # None /\ ~clients[c].leaving /\ At(c, "idle")

Patient(n) == "hasty" \in Commands \/ shown[n] = "spawned"

(* Spawn and SpawnInto, unless the handle is taken.                        *)
ClientSpawn(c, h, r) ==
    /\ Connected(c)
    /\ clients[c].handles[h] = None
    /\ "hasty" \in Commands \/ shown[<<c, h>>] = "no"
    /\ Record(c, h, r, None)
    /\ Then(c, [pc |-> "ask", other |-> minted, client |-> c, handle |-> h,
                dest |-> r])
    /\ shown' = [shown EXCEPT ![<<c, h>>] = "asked"]
    /\ given' = given \ {<<c, h>>}
    /\ said' = [said EXCEPT ![<<c, h>>] = 0]
    /\ UNCHANGED <<byId, clients, transits, carried, outbound, panicked, regions, words, kept, calls>>

(* Despawn: what the handle leads to is released.                          *)
ClientDespawn(c, h) ==
    /\ "despawn" \in Commands
    /\ Connected(c)
    /\ Patient(<<c, h>>)
    /\ <<c, h>> \notin given
    /\ clients[c].handles[h] # None
    /\ given' = given \cup {<<c, h>>}
    /\ Then(c, [pc |-> "release", victim |-> clients[c].handles[h]])
    /\ UNCHANGED <<edge, outbound, panicked, regions, shown, talk, calls>>

(* EntityMessage: what the handle leads to, *)
ClientSay(c, h) ==
    /\ "say" \in Commands
    /\ Connected(c)
    /\ Patient(<<c, h>>)
    /\ words < MaxWords
    /\ clients[c].handles[h] # None
    /\ words' = words + 1
    /\ said' = [said EXCEPT ![<<c, h>>] = words']
    /\ Then(c, [pc |-> "say", key |-> clients[c].handles[h], word |-> words'])
    /\ UNCHANGED <<edge, outbound, panicked, regions, shown, given, kept, calls>>

(* ... holds the message during a teleport, else keeps it and passes it on.*)
Say(c) ==
    LET k == job[c].key
        w == job[c].word IN
    /\ At(c, "say")
    /\ IF ~Held(k) THEN UNCHANGED <<ent, outbound, kept>>
       ELSE IF ent[k].to # None
       THEN /\ ent' = [ent EXCEPT ![k].held = Append(@, w)]
            /\ kept' = kept \cup {w}
            /\ UNCHANGED outbound
       ELSE /\ ent' = [ent EXCEPT ![k].standing = w]
            /\ IF ent[k].id THEN Send(<<Saying(ent[k].region, k, w)>>) ELSE UNCHANGED outbound
            /\ UNCHANGED kept
    /\ Rest(c)
    /\ UNCHANGED <<byId, clients, minted, transits, carried, panicked, regions, shown, given, said, words, calls>>

(* Teleport and TeleportInto.                                              *)
ClientTeleport(c, h, r) ==
    /\ "teleport" \in Commands
    /\ Connected(c)
    /\ Patient(<<c, h>>)
    /\ minted < MaxKeys
    /\ clients[c].handles[h] # None
    /\ Then(c, [pc |-> "begin", key |-> clients[c].handles[h], dest |-> r])
    /\ OnlyJob

(* sweep: the stream ended, and all the client holds is released.          *)
ClientLeave(c) ==
    /\ "leave" \in Commands
    /\ Connected(c)
    /\ "hasty" \in Commands \/ \A h \in Handle : shown[<<c, h>>] # "asked"
    /\ clients' = [clients EXCEPT ![c].leaving = TRUE]
    /\ Then(c, [pc |-> "todo", client |-> c, todo |-> clients[c].keys, after |-> "finish"])
    /\ OnlyClients

-----------------------------------------------------------------------------
(* The elements of s at the places I, in their order.                      *)
Picked(s, I) ==
    LET nth(n) == CHOOSE i \in I : Cardinality({j \in I : j <= i}) = n
    IN  [n \in 1 .. Cardinality(I) |-> s[nth(n)]]

(* The publisher: publish_to_regions.  What is queued goes out in one      *)
(* batch, spawns first, then despawns, then messages.                      *)
Publish ==
    LET of(r, what) ==
            Picked(outbound,
                   {i \in DOMAIN outbound : outbound[i].region = r /\ outbound[i].what = what}) IN
    /\ At("publisher", "idle")
    /\ outbound # <<>>
    /\ inbox' = [r \in Region |->
                    inbox[r] \o of(r, "spawn") \o of(r, "despawn") \o of(r, "message")]
    /\ outbound' = <<>>
    /\ UNCHANGED <<edge, job, alive, presence, heard, events, aside>>

(* expire_transitions, for those whose deadline is past.  Unless "late",   *)
(* an answer that comes at all comes well before that.                     *)
Answered(to) ==
    /\ \A r \in Region : /\ Spawning(r, to) \notin ToSet(outbound \o inbox[r])
                         /\ \A i \in DOMAIN presence[r] : presence[r][i].key # to
    /\ ~\E t \in Thread \ {"publisher"} : job[t].key = to

Expire ==
    /\ At("publisher", "idle")
    /\ \E due \in SUBSET transits :
        /\ due # {}
        /\ "late" \in Events \/ \A x \in due : Answered(x[2])
        /\ transits' = transits \ due
        /\ Then("publisher", [pc |-> "expire", due |-> due])
    /\ OnlyTransits

(* One that is confirmed, or no longer in flight, is left be; *)
Unconfirmed(x) ==
    /\ Held(x[2]) => ~ent[x[2]].id
    /\ Held(x[1])
    /\ ent[x[1]].to = x[2]

LeaveBe(x) ==
    /\ At("publisher", "expire")
    /\ x \in job["publisher"].due
    /\ ~Unconfirmed(x)
    /\ Then("publisher", [due |-> job["publisher"].due \ {x}])
    /\ OnlyJob

(* ... another is given up, *)
GiveUp(x) ==
    /\ At("publisher", "expire")
    /\ x \in job["publisher"].due
    /\ Unconfirmed(x)
    /\ ent' = [ent EXCEPT ![x[1]].to = None, ![x[1]].held = <<>>]
    /\ Then("publisher",
            [pc |-> "uncarry", due |-> job["publisher"].due \ {x}, key |-> x[1],
             victim |-> x[2], words |-> ent[x[1]].held, dest |-> ent[x[1]].region,
             next |-> "unhold"])
    /\ OnlyEnt

(* ... with the game's state, and then the copy, *)
Uncarry ==
    /\ At("publisher", "uncarry")
    /\ carried' = carried \ {job["publisher"].victim}
    /\ Then("publisher", [pc |-> "forget"])
    /\ OnlyCarried

(* ... and what was held goes to the region the entity is still in.        *)
Unhold ==
    LET j == job["publisher"]
        id == Held(j.key) /\ ent[j.key].id IN
    /\ At("publisher", "unhold")
    /\ IF id THEN Send(Messages(j.dest, j.key, j.words)) ELSE UNCHANGED outbound
    /\ Then("publisher", [pc |-> "expire"])
    /\ UNCHANGED <<edge, world>>

Expired ==
    /\ At("publisher", "expire")
    /\ job["publisher"].due = {}
    /\ Rest("publisher")
    /\ OnlyJob

-----------------------------------------------------------------------------
(* The consumer's game, from a thread of its own: EdgeHandle::spawn for a  *)
(* client that is connected, and despawn of what it asked for.             *)
GameSpawn(c, r) ==
    /\ "spawn" \in Events /\ events < MaxEvents
    /\ At("game", "idle")
    /\ clients[c] # None
    /\ Record(c, None, r, None)
    /\ Then("game", [pc |-> "ask", other |-> minted, client |-> c, dest |-> r])
    /\ events' = events + 1
    /\ UNCHANGED <<byId, clients, transits, carried, outbound, inbox, alive, presence, heard, aside>>

GameDespawn(k) ==
    /\ "release" \in Events /\ events < MaxEvents
    /\ At("game", "idle")
    /\ Held(k) /\ ent[k].shadowOf = None
    /\ "hasty" \in Commands \/ ent[k].id
    /\ Then("game", [pc |-> "release", victim |-> k])
    /\ events' = events + 1
    /\ UNCHANGED <<edge, outbound, inbox, alive, presence, heard, aside>>

-----------------------------------------------------------------------------
(* A region carries out a batch in one tick, hands its game the messages,  *)
(* which it queues apart, and reports what it removed, then what it added. *)
(* A spawn it refuses it never answers.                                    *)
RegionTakes(r) ==
    \E n \in 1 .. Len(inbox[r]) :
    LET batch == SubSeq(inbox[r], 1, n)
        of(what) == Picked(batch, {i \in DOMAIN batch : batch[i].what = what})
        keys(ms) == {m.key : m \in ToSet(ms)}
        report(ks, what) == [i \in DOMAIN ks |-> [what |-> what, key |-> ks[i], to |-> {}]]
        says(k) == Picked(batch, {i \in DOMAIN batch : batch[i].what = "message" /\ batch[i].key = k}) IN
    \E refused \in SUBSET keys(of("spawn")) :
    LET added == Picked(batch, {i \in DOMAIN batch :
                                batch[i].what = "spawn" /\ batch[i].key \notin refused})
        there == alive[r] \cup keys(added)
        removed == there \cap keys(of("despawn")) IN
    /\ refused = {} \/ "refuse" \in Events
    /\ inbox' = [inbox EXCEPT ![r] = SubSeq(@, n + 1, Len(@))]
    /\ alive' = [alive EXCEPT ![r] = there \ removed]
    /\ heard' = [k \in Key |->
                    IF k \in alive'[r]
                    THEN heard[k] \o [i \in DOMAIN says(k) |-> says(k)[i].word]
                    ELSE heard[k]]
    /\ presence' = [presence EXCEPT ![r] =
                      @ \o report(SetToSeq(removed), "removed")
                        \o report([i \in DOMAIN added |-> added[i].key], "added")]
    /\ UNCHANGED <<edge, outbound, job, events, aside>>

(* What happens in a region unasked: an entity meets the boundary, its     *)
(* view does or no longer does, or the region's game despawns it.          *)
Happens(r, what, k, to) ==
    /\ events < MaxEvents
    /\ k \in alive[r]
    /\ events' = events + 1
    /\ presence' = [presence EXCEPT ![r] = Append(@, [what |-> what, key |-> k, to |-> to])]
    /\ UNCHANGED <<edge, outbound, job, inbox, heard, aside>>

MeetBoundary(r, k, d) ==
    "cross" \in Events /\ d # r /\ Happens(r, "cross", k, {d}) /\ UNCHANGED alive

SeeBeyond(r, k, to) ==
    /\ "view" \in Events /\ to \subseteq Region \ {r} /\ to # {}
    /\ Happens(r, "view", k, to) /\ UNCHANGED alive

SeeNothing(r, k) ==
    "view" \in Events /\ Happens(r, "cleared", k, {}) /\ UNCHANGED alive

RegionDespawns(r, k) ==
    /\ "despawn" \in Events
    /\ Happens(r, "removed", k, {})
    /\ alive' = [alive EXCEPT ![r] = @ \ {k}]

-----------------------------------------------------------------------------
Commanded(c) ==
    \/ \E h \in Handle : \/ ClientDespawn(c, h) \/ ClientSay(c, h)
                         \/ \E r \in Region : ClientSpawn(c, h, r) \/ ClientTeleport(c, h, r)
    \/ ClientLeave(c)

Common(t) ==
    \/ Ask(t) \/ ReleaseUnanswered(t) \/ Release(t) \/ Forget(t) \/ Unbind(t)
    \/ ReleaseNext(t) \/ CheckLeft(t) \/ Disconnected(t)
    \/ Begin(t) \/ Denied(t) \/ (\E carry \in BOOLEAN : AskCopy(t, carry))
    \/ Link(t) \/ Carry(t) \/ Note(t)

Reader ==
    \/ \E r \in Region :
        \/ AddedUnknown(r) \/ Added(r) \/ RemovedUnknown(r) \/ Removed(r)
        \/ Boundary(r) \/ ViewCollision(r) \/ ViewCleared(r)
    \/ Greet
    \/ CopyOrphaned \/ Remap \/ Panic \/ Landed \/ Rehandle \/ Resend \/ Stand \/ Arrive
    \/ Unlist \/ Notify \/ KeepShadow \/ AskShadow \/ ViewSeen \/ List

Publisher ==
    \/ Publish
    \/ \E x \in job["publisher"].due : LeaveBe(x) \/ GiveUp(x)
    \/ Uncarry \/ Unhold \/ Expired

Game == \/ \E c \in Client, r \in Region : GameSpawn(c, r)
        \/ \E k \in Key : GameDespawn(k)

Worlds ==
    \E r \in Region :
        \/ RegionTakes(r)
        \/ \E k \in Key : \/ SeeNothing(r, k) \/ RegionDespawns(r, k)
                          \/ \E d \in Region : MeetBoundary(r, k, d)
                          \/ \E to \in SUBSET Region : SeeBeyond(r, k, to)

Next ==
    \/ \E c \in Client : Commanded(c) \/ Say(c)
    \/ \E t \in Thread : Common(t)
    \/ Reader
    \/ Expire \/ Publisher
    \/ Game
    \/ Worlds

Spec == Init /\ [][Next]_vars

(* The threads run, the regions answer, and a deadline passes.             *)
FairSpec ==
    /\ Spec
    /\ \A c \in Client : WF_vars(Common(c) \/ Say(c))
    /\ WF_vars(Common("reader") \/ Reader)
    /\ WF_vars(Common("publisher") \/ Publisher)
    /\ WF_vars(Expire)
    /\ WF_vars(Common("game"))
    /\ \A r \in Region : WF_vars(RegionTakes(r))

-----------------------------------------------------------------------------
(* Properties.  The state is well formed: every reference is to a key, a   *)
(* name or a region there can be, and keys are below the mint.             *)
MessageType ==
    [what : {"spawn", "despawn", "message"}, region : Region, key : Key, word : 0 .. MaxWords]

ReportType ==
    [what : {"added", "removed", "cross", "view", "cleared"}, key : Key, to : SUBSET Region]

Returns == {"rest", "link", "landed", "todo", "unlist", "view", "unhold"}
Afters == {"rest", "finish", "landed", "notify", "list"}
Steps == {"idle", "ask", "release", "forget", "unbind", "fire", "begin", "decide", "carry",
          "note", "greet", "remap", "rehandle", "resend", "stand", "arrive", "say",
          "expire", "uncarry"} \cup ((Returns \cup Afters) \ {"rest"})

JobType ==
    [pc : Steps, key : Key \cup {None}, other : Key \cup {None}, client : Client \cup {None},
     handle : Handle \cup {None}, dest : Region \cup {None}, carry : BOOLEAN,
     shadow : BOOLEAN, word : 0 .. MaxWords, words : Seq(Word), reach : SUBSET Region,
     keep : SUBSET Key, had : SUBSET (Key \X Region), due : SUBSET (Key \X Key),
     victim : Key \cup {None}, of : (Client \cup {None}) \X (Handle \cup {None}),
     todo : SUBSET Key, next : Returns, after : Afters]

TypeOK ==
    /\ ent \in [Key -> EntityType \cup {None}]
    /\ \A k \in Key : Held(k) => k < minted
    /\ byId \subseteq Key /\ carried \subseteq Key /\ transits \subseteq Key \X Key
    /\ clients \in [Client -> ClientType \cup {None}]
    /\ minted \in 0 .. MaxKeys /\ words \in 0 .. MaxWords /\ kept \subseteq Word
    /\ outbound \in Seq(MessageType) /\ inbox \in [Region -> Seq(MessageType)]
    /\ presence \in [Region -> Seq(ReportType)] /\ alive \in [Region -> SUBSET Key]
    /\ job \in [Thread -> JobType]
    /\ panicked \in BOOLEAN /\ late \in BOOLEAN /\ events \in 0 .. MaxEvents
    /\ shown \in [Name -> {"no", "asked", "spawned"}] /\ given \subseteq Name
    /\ said \in [Name -> 0 .. MaxWords] /\ ended \in [Client -> Nat]
    /\ heard \in [Key -> Seq(0 .. MaxWords)]

(* Nobody has anything left to do: no thread is in the middle of anything, *)
(* and every message has arrived.                                          *)
Quiet ==
    /\ \A t \in Thread : At(t, "idle")
    /\ outbound = <<>>
    /\ \A r \in Region : inbox[r] = <<>> /\ presence[r] = <<>>
    /\ transits = {}

(* The two indices of Entities agree: by_id leads to an entity exactly     *)
(* while its region has answered for it and by_key holds it, so that what  *)
(* a region says of an entity reaches its record (on_presence, forget and  *)
(* complete_teleport keep the two together under one lock).                *)
IndexAgrees == byId = {k \in Key : Held(k) /\ ent[k].id}

(* What the edge records stays well formed, and both ways to reach it lead *)
(* to the same entities, whatever clients and regions do and however late. *)
RecordsAgree == TypeOK /\ IndexAgrees

(* What the edge believes and what the regions hold have come to agree     *)
(* once nothing is under way: an entity lives in a region exactly if the   *)
(* edge holds it as answered for there, so release, forget and a teleport  *)
(* leave neither an entity nobody manages nor a record that waits for a    *)
(* removal that never comes.                                               *)
EdgeMatchesRegions ==
    Quiet => \A r \in Region :
        alive[r] = {k \in Key : Held(k) /\ ent[k].id /\ ~ent[k].doomed /\ ent[k].region = r}

(* Client::keys and Client::handles, kept apart from Entities under a lock *)
(* of their own, agree with it once nothing is under way: a client holds   *)
(* what is recorded as its, and its handles lead to what carries them.     *)
ClientsAgree ==
    Quiet => \A c \in Client : clients[c] # None =>
        /\ clients[c].keys = {k \in Key : Held(k) /\ ent[k].client = c}
        /\ \A h \in Handle : clients[c].handles[h] \in
            {k \in Key : Held(k) /\ ent[k].client = c /\ ent[k].handle = h} \cup {None}

(* "the handle index named an entity this client does not hold": what      *)
(* ask_for and forget assert never happens, in the middle of a remap too.  *)
HandlesHeld ==
    \A c \in Client : clients[c] # None =>
        \A h \in Handle : clients[c].handles[h] \in clients[c].keys \cup {None}

(* An observer lists exactly the shadows that stand in for it, once        *)
(* nothing is under way: ViewCollision and ViewCleared, which answer for   *)
(* it, race with shadows that go of themselves.                            *)
ShadowsListed ==
    Quiet => \A k \in Key : Held(k) /\ ~ent[k].doomed =>
        ent[k].shadows = {s \in Key : Held(s) /\ ent[s].shadowOf = k}

(* "when disconnected arrives the client owns nothing" (finish_leaving).   *)
OwnsNothing ==
    \A c \in Client : ended[c] > 0 => \A k \in Key : Held(k) => ent[k].client # c

(* disconnected "fires when the last entity's removal comes back" (sweep): *)
(* no client is left leaving once nothing is under way.                    *)
LeaversGo ==
    Quiet => \A c \in Client : clients[c] # None => ~clients[c].leaving

(* disconnected is "the last call for the indicated client" (EdgeGame).    *)
DisconnectedLast == ~late

(* Despawn "gives an entity back, wherever it is": what a client gave back *)
(* is held no longer once nothing is under way, in transit or not.         *)
GivenBackGoes ==
    Quiet => \A n \in given : \A k \in Key :
        Held(k) => ent[k].client # n[1] \/ ent[k].handle # n[2]

(* The copy is still there when complete_teleport moves the handle onto    *)
(* it, "just confirmed in on_presence": its expect never panics.           *)
NeverPanics == ~panicked

(* An entity its client was told of is alive all through a teleport, in    *)
(* the region the edge has it in: the origin is only told to despawn it    *)
(* once the destination has the copy and the handle leads there.           *)
NeverNowhere ==
    \A n \in Name : shown[n] = "spawned" =>
        \E k \in Key : /\ Held(k) /\ ent[k].client = n[1] /\ ent[k].handle = n[2]
                       /\ k \in alive[ent[k].region]

(* A message held during a teleport is not lost with it: once all is quiet *)
(* a region's game has heard it, the destination's after the remap or the  *)
(* origin's after the teleport was given up, unless the entity is still in *)
(* transit, which then holds it (complete_teleport, expire_transitions).   *)
StillHeld(w) == \E k \in Key : Held(k) /\ ent[k].to # None /\ w \in ToSet(ent[k].held)

HeldNotLost ==
    Quiet => \A w \in kept : StillHeld(w) \/ \E k \in Key : w \in ToSet(heard[k])

(* A message sent during the transition "reaches the destination"          *)
(* (Transition): the last thing a client said to an entity is the last     *)
(* thing the region it is in heard, once nothing is under way.             *)
LastWordStands ==
    Quiet => \A n \in Name : \A k \in Key :
        /\ Held(k) /\ ent[k].id /\ shown[n] = "spawned" /\ said[n] # 0
        /\ ent[k].client = n[1] /\ ent[k].handle = n[2]
        => heard[k] # <<>> /\ heard[k][Len(heard[k])] = said[n]

(* A region hears what is said to an entity in the order it was said:      *)
(* "every entity message in order" (complete_teleport).                    *)
HeardInOrder ==
    \A k \in Key : \A i, j \in DOMAIN heard[k] : i < j => heard[k][i] <= heard[k][j]

(* begin_teleport refuses an entity "already in transit": no two copies of *)
(* an entity are under way at once.                                        *)
OneCopy ==
    \A k, x, y \in Key :
        (Held(x) /\ Held(y) /\ ent[x].replaces = k /\ ent[y].replaces = k) => (x = y \/ ent[k] = None)

InTransit(k, to) == Held(k) /\ ent[k].to = to

(* "TELEPORT_TIMEOUT (two seconds) bounds a transition" (CHANGELOG.md):    *)
(* every transition is ended, by the destination's answer or by the        *)
(* deadline that expire_transitions keeps.  (A copy's key is minted after  *)
(* the original's.)                                                        *)
TransitionsEnd ==
    \A to \in Key : \A k \in 0 .. (to - 1) : InTransit(k, to) ~> ~InTransit(k, to)

(* Of those the destination has not answered before they are recorded this *)
(* is so: its answer completes the teleport, and a refusal, which is no    *)
(* answer, runs into the deadline (begin_teleport records the transition   *)
(* after it has asked for the copy).                                       *)
AwaitedEnd ==
    \A to \in Key : \A k \in 0 .. (to - 1) :
        InTransit(k, to) /\ ~(Held(to) /\ ent[to].id) ~> ~InTransit(k, to)

(* What a client gave back or left behind is gone from the edge's own      *)
(* records: the leaver is finished, owns nothing when it is, and a name    *)
(* given back carries nothing.                                             *)
NothingLeftBehind == LeaversGo /\ OwnsNothing /\ GivenBackGoes

(* A teleport or crossing, answered early or late, refused or given up,    *)
(* keeps the entity alive and its client's name for it.                    *)
EntitiesKept == NeverNowhere /\ HandlesHeld
=============================================================================
