--------------------------- MODULE EdgeClientProofs ---------------------------
(***************************************************************************)
(* Proofs about the handles of a game client, for any number of threads,   *)
(* handles, moves in a call and regions.                                   *)
(*                                                                         *)
(* A call settles what it holds under the lock and queues its message      *)
(* after it.  In between, what it is about to say must still be true: the  *)
(* invariant relates what each thread has made up its mind to send         *)
(* (Sendable) to what is already on the stream, to the handles that live,  *)
(* and to what the other threads are about to send (Alone).                *)
(***************************************************************************)
EXTENDS EdgeClient, TLAPS

Spawning == {1, 15}
Once == {Spawning, {2}, {3}}
Kinds == {1, 2, 3, 10, 14, 15}

Messages ==
    {Spoken(Message(k, h)) : k \in Kinds, h \in Handles}
        \cup {[kind |-> 7, body |-> Body]}
        \cup {[kind |-> 13, handle |-> h, body |-> Body] : h \in Handles}

(* What is on the stream, and what a thread is about to put there.         *)
Said(kinds, h) == \E i \in DOMAIN said : said[i].kind \in kinds /\ said[i].handle = h

Saying(t, kinds, h) ==
    /\ calls[t] # None /\ calls[t].send # <<>>
    /\ LET s == calls[t].send[1]
       IN  s.by = "stream" /\ s.m.kind \in kinds /\ s.m.handle = h

(* The moves of a datagram are of handles whose first move was settled.    *)
Settled(m) ==
    \A i \in DOMAIN m.moves : m.moves[i].handle \in Given /\ live[m.moves[i].handle] # FALSE

Streamable(m) ==
    /\ m \in Messages
    /\ m.kind \in Spawning => m.handle \in 1 .. handles /\ ~Said(Spawning, m.handle)
    /\ m.kind \notin Spawning \cup {7} => m.handle \in Given
    /\ m.kind = 2 => live[m.handle] # FALSE /\ ~Said({2}, m.handle)
    /\ m.kind = 3 => live[m.handle] = None /\ ~Said({3}, m.handle)

Sendable(s) ==
    IF s.by = "stream" THEN Streamable(s.m) ELSE s.m.kind = 9 => Settled(s.m)

(* A call in the middle.                                                   *)
CallSound(c) ==
    /\ c.todo \in Seq(Given) /\ c.batch \in Seq(Given)
    /\ \A i \in DOMAIN c.batch : live[c.batch[i]] # FALSE
    /\ c.send # <<>> => Sendable(c.send[1])

(* No two threads are about to spawn, first move or give back one handle.  *)
Alone ==
    \A kinds \in Once, h \in Handles, t, u \in Thread :
        Saying(t, kinds, h) /\ Saying(u, kinds, h) => t = u

Typed ==
    /\ handles \in 0 .. MaxHandle /\ live \in [Handles -> {None, TRUE, FALSE}]
    /\ DOMAIN calls = Thread /\ said \in Seq(Messages)
    /\ Given \subseteq 1 .. handles

(* What a handle still is says what has not been said of it.               *)
LiveTells ==
    \A h \in Handles : /\ live[h] = FALSE => ~Said({2}, h)
                       /\ live[h] # None => ~Said({3}, h)

Earlier(i, kinds) ==
    \E j \in 1 .. (i - 1) : said[j].kind \in kinds /\ said[j].handle = said[i].handle

InOrder(i) ==
    CASE said[i].kind \in {1, 15} -> ~Earlier(i, {1, 15})
      [] said[i].kind \in {2, 3} -> Earlier(i, {1, 15}) /\ ~Earlier(i, {said[i].kind})
      [] OTHER -> said[i].kind # 7 => Earlier(i, {1, 15})

StreamInOrder == \A i \in DOMAIN said : InOrder(i)
AirSettled == \A m \in air : m.kind = 9 => Settled(m)
CallsSound == \A t \in Thread : calls[t] # None => CallSound(calls[t])

IInv ==
    Typed /\ LiveTells /\ StreamInOrder /\ AirSettled /\ CallsSound /\ Alone


-----------------------------------------------------------------------------
(***************************************************************************)
(* What the messages of a client say.                                      *)
(***************************************************************************)
AnyField ==
    {Field(name, width) : name \in {"handle", "region", "role", "tag", "x", "y", "z"},
                          width \in {1, 2, 4, 8}}

(* A layout that starts with the handle, and goes on.                      *)
Addressed(layout) ==
    layout \in Seq(AnyField) /\ Len(layout) >= 1 /\ layout[1] = Field("handle", 4)

LEMMA AddressedOn ==
    ASSUME NEW a, Addressed(a), NEW b \in Seq(AnyField)
    PROVE  Addressed(a \o b)
BY DEF Addressed

LEMMA LayoutParts ==
    /\ Addressed(Handle)
    /\ Axes(8) \in Seq(AnyField) /\ KindOfEntity \in Seq(AnyField)
    /\ Regional \in Seq(AnyField)
<1>1. \A S : \A a, b, c \in S :
          <<a>> \in Seq(S) /\ <<a, b>> \in Seq(S) /\ <<a, b, c>> \in Seq(S)
  OBVIOUS
<1>2. Field("x", 8) \in AnyField /\ Field("y", 8) \in AnyField
      /\ Field("z", 8) \in AnyField /\ Field("handle", 4) \in AnyField
      /\ Field("region", 4) \in AnyField /\ Field("role", 1) \in AnyField
      /\ Field("tag", 2) \in AnyField
  BY DEF AnyField
<1> HIDE DEF AnyField
<1>3. Axes(8) \in Seq(AnyField) /\ KindOfEntity \in Seq(AnyField)
      /\ Regional \in Seq(AnyField) /\ Handle \in Seq(AnyField)
  BY <1>1, <1>2, Zenon DEF Axes, KindOfEntity, Regional, Handle
<1>4. Len(Handle) = 1 /\ Handle[1] = Field("handle", 4)
  BY DEF Handle
<1>5. QED
  BY <1>3, <1>4 DEF Addressed

LEMMA LayoutAddressed ==
    ASSUME NEW k \in Kinds
    PROVE  Addressed(FromClient[k])
<1> HIDE DEF AnyField
<1>1. Addressed(Handle \o Axes(8)) /\ Addressed(Handle \o Regional)
  BY LayoutParts, AddressedOn
<1>2. Addressed((Handle \o Regional) \o Axes(8))
      /\ Addressed((Handle \o Axes(8)) \o KindOfEntity)
  BY <1>1, LayoutParts, AddressedOn
<1>3. Addressed(((Handle \o Regional) \o Axes(8)) \o KindOfEntity)
  BY <1>2, LayoutParts, AddressedOn
<1>4. k \in {1, 2, 3, 7, 9, 10, 13, 14, 15}
  BY DEF Kinds
<1>5. \/ k = 1 /\ FromClient[k] = Handle \o Axes(8) \o KindOfEntity
      \/ k \in {2, 10} /\ FromClient[k] = MoveLayout
      \/ k = 3 /\ FromClient[k] = Handle
      \/ k = 14 /\ FromClient[k] = Handle \o Regional \o Axes(8)
      \/ k = 15 /\ FromClient[k] = Handle \o Regional \o Axes(8) \o KindOfEntity
  BY <1>4 DEF FromClient, Kinds
<1>6. QED
  BY <1>1, <1>2, <1>3, <1>5, LayoutParts, Zenon DEF MoveLayout

LEMMA SpokenIs ==
    ASSUME NEW k \in Kinds, NEW h
    PROVE  Spoken(Message(k, h)).kind = k /\ Spoken(Message(k, h)).handle = h
<1> DEFINE m == Message(k, h)
           layout == FromClient[k]
           fields == {"kind"} \cup {layout[i].name : i \in DOMAIN layout}
<1>1. m.kind = k /\ m.handle = h
  BY DEF Message
<1>2. 1 \in DOMAIN layout /\ layout[1] = Field("handle", 4)
  BY LayoutAddressed DEF Addressed
<1>3. "handle" \in fields /\ "kind" \in fields
  BY <1>2 DEF Field
<1>4. Spoken(m) = [f \in fields |-> m[f]]
  BY <1>1 DEF Spoken, Named
<1> HIDE DEF fields, m
<1>5. Spoken(m).kind = m.kind /\ Spoken(m).handle = m.handle
  BY <1>3, <1>4
<1>6. QED
  BY <1>1, <1>5 DEF m

LEMMA MessageFacts ==
    \A m \in Messages :
        m.kind \in Kinds \cup {7, 13} /\ (m.kind # 7 => m.handle \in Handles)
<1> TAKE m \in Messages
<1>1. CASE \E k \in Kinds, h \in Handles : m = Spoken(Message(k, h))
  BY <1>1, SpokenIs
<1>2. CASE m = [kind |-> 7, body |-> Body]
  BY <1>2
<1>3. CASE \E h \in Handles : m = [kind |-> 13, handle |-> h, body |-> Body]
  BY <1>3
<1>4. QED
  BY <1>1, <1>2, <1>3 DEF Messages

-----------------------------------------------------------------------------
(***************************************************************************)
(* What was said.                                                          *)
(***************************************************************************)
LEMMA GivenIsSaid == \A h : h \in Given <=> Said(Spawning, h)
BY DEF Given, Said, Spawning

LEMMA GivenIsSaidAfter == \A h : h \in Given' <=> Said(Spawning, h)'
BY DEF Given, Said, Spawning

LEMMA SaidKept ==
    ASSUME said' = said
    PROVE  Given' = Given /\ \A kinds, h : Said(kinds, h)' <=> Said(kinds, h)
BY DEF Given, Said

(* Nothing is said of a handle that was not spawned.                       *)
LEMMA SaidIsGiven ==
    ASSUME Typed, StreamInOrder, NEW kinds \in Once, NEW h, Said(kinds, h)
    PROVE  h \in Given
<1>1. PICK i \in DOMAIN said : said[i].kind \in kinds /\ said[i].handle = h
  BY DEF Said
<1>2. CASE said[i].kind \in Spawning
  BY <1>1, <1>2, GivenIsSaid DEF Said
<1>3. CASE said[i].kind \in {2, 3}
  <2>1. InOrder(i) /\ said[i].kind \notin {1, 15}
    BY <1>3, <1>1 DEF StreamInOrder
  <2>2. Earlier(i, {1, 15})
    BY <2>1, <1>3, Zenon DEF InOrder
  <2>3. PICK j \in 1 .. (i - 1) : said[j].kind \in {1, 15} /\ said[j].handle = h
    BY <2>2, <1>1 DEF Earlier
  <2>4. j \in DOMAIN said
    BY <2>3, <1>1 DEF Typed
  <2>5. QED
    BY <2>3, <2>4, GivenIsSaid DEF Said, Spawning
<1>4. QED
  BY <1>1, <1>2, <1>3 DEF Once, Spawning

-----------------------------------------------------------------------------
(***************************************************************************)
(* A step that settles handles under the lock and queues nothing.          *)
(***************************************************************************)
Settles ==
    /\ handles' \in 0 .. MaxHandle /\ handles <= handles'
    /\ live' \in [Handles -> {None, TRUE, FALSE}]
    /\ \A h \in 1 .. handles : /\ live'[h] = FALSE => live[h] = FALSE
                               /\ live[h] = None => live'[h] = None

LEMMA StreamableKept ==
    ASSUME Typed, Settles, said' = said, NEW m, Streamable(m)
    PROVE  Streamable(m)'
<1>1. Given' = Given /\ \A kinds, h : Said(kinds, h)' <=> Said(kinds, h)
  BY SaidKept
<1>2. m.kind # 7 => m.handle \in 1 .. handles
  BY DEF Streamable, Typed
<1>3. 1 .. handles \subseteq 1 .. handles'
  BY DEF Settles, Typed
<1>4. m.kind \in Spawning => m.handle \in 1 .. handles' /\ ~Said(Spawning, m.handle)'
  BY <1>1, <1>3 DEF Streamable
<1>5. m.kind \notin Spawning \cup {7} => m.handle \in Given'
  BY <1>1 DEF Streamable
<1>6. m.kind = 2 => live'[m.handle] # FALSE /\ ~Said({2}, m.handle)'
  <2>1. m.kind = 2 => m.handle \in 1 .. handles
    BY <1>2
  <2>2. m.kind = 2 => live[m.handle] # FALSE /\ ~Said({2}, m.handle)
    BY Zenon DEF Streamable
  <2>3. QED
    BY <2>1, <2>2, <1>1, Zenon DEF Settles
<1>7. m.kind = 3 => live'[m.handle] = None /\ ~Said({3}, m.handle)'
  BY <1>1, <1>2 DEF Streamable, Settles
<1>8. QED
  BY <1>4, <1>5, <1>6, <1>7 DEF Streamable

LEMMA SettledKept ==
    ASSUME Typed, Settles, said' = said, NEW m, Settled(m)
    PROVE  Settled(m)'
<1>1. Given' = Given
  BY SaidKept
<1>2. QED
  BY <1>1 DEF Settled, Typed, Settles

LEMMA CallKept ==
    ASSUME Typed, Settles, said' = said, NEW c, CallSound(c)
    PROVE  CallSound(c)'
<1>1. Given' = Given
  BY SaidKept
<1>2. c.todo \in Seq(Given)' /\ c.batch \in Seq(Given)'
  BY <1>1 DEF CallSound
<1>3. \A i \in DOMAIN c.batch : live'[c.batch[i]] # FALSE
  <2> TAKE i \in DOMAIN c.batch
  <2>1. c.batch[i] \in Given
    BY DEF CallSound
  <2>2. c.batch[i] \in 1 .. handles /\ live[c.batch[i]] # FALSE
    BY <2>1 DEF CallSound, Typed
  <2>3. QED
    BY <2>2, Zenon DEF Settles
<1>4. \A s : Sendable(s) => Sendable(s)'
  BY StreamableKept, SettledKept DEF Sendable
<1>5. QED
  BY <1>2, <1>3, <1>4 DEF CallSound

LEMMA SettlesKeeps ==
    ASSUME Typed, LiveTells, StreamInOrder, Settles, said' = said
    PROVE  DOMAIN calls' = Thread => Typed' /\ LiveTells' /\ StreamInOrder'
<1>1. Given' = Given /\ \A kinds, h : Said(kinds, h)' <=> Said(kinds, h)
  BY SaidKept
<1>2. DOMAIN calls' = Thread => Typed'
  <2>1. 1 .. handles \subseteq 1 .. handles'
    BY DEF Settles, Typed
  <2>2. QED
    BY <2>1, <1>1 DEF Typed, Settles
<1>3. \A h \in Handles : h \notin 1 .. handles => ~Said({2}, h) /\ ~Said({3}, h)
  BY SaidIsGiven DEF Once, Typed
<1>4. ASSUME NEW h \in Handles
      PROVE  /\ live'[h] = FALSE => ~Said({2}, h)'
             /\ live'[h] # None => ~Said({3}, h)'
  <2>1. CASE h \in 1 .. handles
    <3>1. /\ live[h] = FALSE => ~Said({2}, h)
          /\ live[h] # None => ~Said({3}, h)
      BY <1>4 DEF LiveTells
    <3>2. /\ live'[h] = FALSE => live[h] = FALSE
          /\ live[h] = None => live'[h] = None
      BY <2>1 DEF Settles
    <3>3. QED
      BY <3>1, <3>2, <1>1, Zenon
  <2>2. CASE h \notin 1 .. handles
    BY <2>2, <1>1, <1>3
  <2>3. QED
    BY <2>1, <2>2
<1>5. LiveTells'
  BY <1>4 DEF LiveTells
<1>6. StreamInOrder'
  BY DEF StreamInOrder, InOrder, Earlier
<1>7. QED
  BY <1>2, <1>5, <1>6

(* What thread t is left with, or another's call, is sound and alone: the  *)
(* invariant holds after the step.                                         *)
LEMMA TakesUp ==
    ASSUME IInv, Settles, said' = said, NEW t, NEW c,
           DOMAIN calls' = Thread, t \in Thread => calls'[t] = c,
           \A u \in Thread \ {t} : calls'[u] = calls[u],
           c # None => CallSound(c)',
           \A m \in air' : m \in air \/ (m.kind = 9 => Settled(m)),
           \A kinds \in Once, h \in Handles, u \in Thread \ {t} :
               t \in Thread /\ Saying(t, kinds, h)' => ~Saying(u, kinds, h)
    PROVE  IInv'
<1>1. Typed' /\ LiveTells' /\ StreamInOrder'
  BY SettlesKeeps DEF IInv
<1>2. AirSettled'
  <2>1. ASSUME NEW m, m \in air', m.kind = 9
        PROVE  Settled(m)'
    <3>1. Settled(m)
      BY <2>1 DEF IInv, AirSettled
    <3>2. QED
      BY <3>1, SettledKept DEF IInv
  <2>2. QED
    BY <2>1 DEF AirSettled
<1>3. CallsSound'
  <2>1. ASSUME NEW u \in Thread, NEW d, d = calls'[u], d # None
        PROVE  CallSound(d)'
    <3>1. CASE u = t
      BY <3>1, <2>1
    <3>2. CASE u # t
      <4>1. CallSound(d)
        BY <3>2, <2>1 DEF IInv, CallsSound
      <4>2. QED
        BY <4>1, CallKept DEF IInv
    <3>3. QED
      BY <3>1, <3>2
  <2>2. QED
    BY <2>1 DEF CallsSound
<1>4. Alone'
  <2>1. ASSUME NEW kinds \in Once, NEW h \in Handles, NEW u \in Thread, NEW v \in Thread,
               Saying(u, kinds, h)', Saying(v, kinds, h)', u # v
        PROVE  FALSE
    <3>1. \A w \in Thread \ {t} : Saying(w, kinds, h)' => Saying(w, kinds, h)
      BY DEF Saying
    <3>2. CASE u # t /\ v # t
      BY <3>1, <3>2, <2>1 DEF IInv, Alone
    <3>3. CASE u = t
      BY <3>1, <3>3, <2>1
    <3>4. CASE v = t
      BY <3>1, <3>4, <2>1
    <3>5. QED
      BY <3>2, <3>3, <3>4
  <2>2. QED
    BY <2>1 DEF Alone
<1>5. QED
  BY <1>1, <1>2, <1>3, <1>4 DEF IInv

-----------------------------------------------------------------------------
(***************************************************************************)
(* The game's calls.                                                       *)
(***************************************************************************)
(* A call of one message on the stream.                                    *)
LEMMA ReliableSound ==
    ASSUME NEW k \in Kinds, NEW h, Streamable(Spoken(Message(k, h)))'
    PROVE  Reliable(Message(k, h)) # None => CallSound(Reliable(Message(k, h)))'
<1>1. PICK m : m = Spoken(Message(k, h))
  OBVIOUS
<1>2. Streamable(m)'
  BY <1>1
<1>3. QED
  BY <1>1, <1>2 DEF Reliable, Call, CallSound, Sendable

LEMMA ReliableSays ==
    ASSUME NEW t \in Thread, NEW k \in Kinds, NEW g,
           calls'[t] = Reliable(Message(k, g)),
           NEW kinds, NEW h, Saying(t, kinds, h)'
    PROVE  k \in kinds /\ h = g
<1>1. LET s == calls'[t].send[1]
      IN  s.m.kind \in kinds /\ s.m.handle = h
  BY DEF Saying
<1>2. calls'[t].send[1].m = Spoken(Message(k, g))
  BY DEF Reliable, Call
<1>3. QED
  BY <1>1, <1>2, SpokenIs

(* What another thread is about to say it may say.                         *)
LEMMA SayingIsSendable ==
    ASSUME CallsSound, NEW t \in Thread, NEW kinds \in Once, NEW h, Saying(t, kinds, h)
    PROVE  /\ kinds = Spawning => h \in 1 .. handles
           /\ kinds = {2} => live[h] # FALSE
           /\ kinds = {3} => live[h] = None
<1>1. PICK m : m = calls[t].send[1].m
  OBVIOUS
<1>2. Streamable(m) /\ m.kind \in kinds /\ m.handle = h
  BY <1>1 DEF Saying, CallsSound, CallSound, Sendable
<1>3. m.handle = h
  BY <1>2
<1>4. kinds = Spawning => h \in 1 .. handles
  BY <1>2 DEF Streamable
<1>5. kinds = {2} => live[h] # FALSE
  BY <1>2, Zenon DEF Streamable
<1>6. kinds = {3} => live[h] = None
  BY <1>2, Zenon DEF Streamable
<1>7. QED
  BY <1>4, <1>5, <1>6

LEMMA SpawnStep ==
    ASSUME IInv, NEW t \in Thread, NEW kind \in {1, 15}, Spawn(t, kind)
    PROVE  IInv'
<1>1. PICK g : g = handles'
  OBVIOUS
<1>2. /\ g = handles + 1 /\ g \in Handles /\ handles' = g
      /\ live' = [live EXCEPT ![g] = FALSE]
      /\ calls' = [calls EXCEPT ![t] = Reliable(Message(kind, g))]
  <2>1. g = handles + 1 /\ g \in Handles
    BY <1>1, EdgeClientAssumption DEF Spawn, IInv, Typed, Handles
  <2>2. /\ handles' = g /\ live' = [live EXCEPT ![g] = FALSE]
        /\ calls' = [calls EXCEPT ![t] = Reliable(Message(kind, g))]
    BY <1>1, Zenon DEF Spawn
  <2>3. QED
    BY <2>1, <2>2
<1>3. said' = said /\ air' = air
  BY DEF Spawn
<1>4. Settles
  <2>1. handles' \in 0 .. MaxHandle /\ handles <= handles'
    BY <1>2 DEF Spawn, IInv, Typed, Handles
  <2>2. live' \in [Handles -> {None, TRUE, FALSE}]
    BY <1>2 DEF IInv, Typed
  <2>3. \A h \in 1 .. handles : h # g /\ live'[h] = live[h]
    <3>1. \A h \in 1 .. handles : h # g /\ h \in Handles
      BY <1>2, EdgeClientAssumption DEF IInv, Typed, Handles
    <3>2. QED
      BY <3>1, <1>2, Zenon DEF IInv, Typed
  <2>4. QED
    BY <2>1, <2>2, <2>3, Zenon DEF Settles
<1>5. Streamable(Spoken(Message(kind, g)))'
  <2>1. PICK m : m = Spoken(Message(kind, g))
    OBVIOUS
  <2>2. m.kind = kind /\ m.handle = g /\ kind \in Kinds
    BY <2>1, SpokenIs DEF Kinds
  <2>3. m \in Messages
    BY <2>1, <2>2, <1>2 DEF Messages
  <2>4. g \notin Given
    BY <1>2 DEF IInv, Typed
  <2>5. g \in 1 .. handles' /\ ~Said(Spawning, g)'
    BY <1>2, <1>3, <2>4, SaidKept, GivenIsSaid DEF IInv, Typed
  <2>6. Streamable(m)'
    <3>1. m.kind \in Spawning /\ m.kind # 2 /\ m.kind # 3
      BY <2>2 DEF Spawning
    <3>2. QED
      BY <3>1, <2>2, <2>3, <2>5 DEF Streamable
  <2>7. QED
    BY <2>1, <2>6
<1>6. DOMAIN calls' = Thread /\ calls'[t] = Reliable(Message(kind, g))
      /\ \A u \in Thread \ {t} : calls'[u] = calls[u]
  BY <1>2 DEF IInv, Typed
<1>7. ASSUME NEW kinds \in Once, NEW h \in Handles, NEW u \in Thread \ {t},
             Saying(t, kinds, h)', Saying(u, kinds, h)
      PROVE  FALSE
  <2>1. kind \in kinds /\ h = g
    BY <1>6, <1>7, ReliableSays DEF Kinds
  <2>2. kinds = Spawning
    BY <2>1 DEF Once, Spawning
  <2>3. h \in 1 .. handles
    BY <2>2, <1>7, SayingIsSendable DEF IInv
  <2>4. QED
    BY <2>1, <2>3, <1>2 DEF IInv, Typed
<1>8. Reliable(Message(kind, g)) # None => CallSound(Reliable(Message(kind, g)))'
  BY <1>5, ReliableSound DEF Kinds
<1>9. QED
  BY <1>3, <1>4, <1>6, <1>7, <1>8, TakesUp

LEMMA NothingSettled ==
    ASSUME Typed, handles' = handles, live' = live
    PROVE  Settles
<1>1. handles' \in 0 .. MaxHandle /\ handles <= handles'
  BY DEF Typed
<1>2. live' \in [Handles -> {None, TRUE, FALSE}]
  BY DEF Typed
<1>3. QED
  BY <1>1, <1>2, Zenon DEF Settles

LEMMA GivenBack ==
    ASSUME Typed, handles' = handles, NEW h, live' = [live EXCEPT ![h] = None]
    PROVE  Settles
<1>1. handles' \in 0 .. MaxHandle /\ handles <= handles'
  BY DEF Typed
<1>2. live' \in [Handles -> {None, TRUE, FALSE}]
  BY DEF Typed
<1>3. \A g \in 1 .. handles : g \in Handles
  BY EdgeClientAssumption DEF Typed, Handles
<1>4. None # FALSE
  BY EdgeClientAssumption
<1>5. \A g \in Handles : live'[g] = IF g = h THEN None ELSE live[g]
  BY DEF Typed
<1>6. QED
  BY <1>1, <1>2, <1>3, <1>4, <1>5, Zenon DEF Settles

LEMMA CallsChange ==
    ASSUME Typed, NEW t \in Thread, NEW c, calls' = [calls EXCEPT ![t] = c]
    PROVE  /\ DOMAIN calls' = Thread /\ calls'[t] = c
           /\ \A u \in Thread \ {t} : calls'[u] = calls[u]
BY DEF Typed

LEMMA TeleportStep ==
    ASSUME IInv, NEW t \in Thread, NEW kind \in {10, 14}, NEW h \in Handles,
           Teleport(t, kind, h)
    PROVE  IInv'
<1>1. /\ handles' = handles /\ live' = live /\ said' = said /\ air' = air
      /\ calls' = [calls EXCEPT ![t] = Reliable(Message(kind, h))] /\ h \in Given
  BY DEF Teleport
<1>2. Settles
  BY <1>1, NothingSettled DEF IInv
<1>3. DOMAIN calls' = Thread /\ calls'[t] = Reliable(Message(kind, h))
      /\ \A u \in Thread \ {t} : calls'[u] = calls[u]
  BY <1>1, CallsChange DEF IInv
<1>4. Streamable(Spoken(Message(kind, h)))'
  <2>1. PICK m : m = Spoken(Message(kind, h))
    OBVIOUS
  <2>2. m.kind = kind /\ m.handle = h /\ kind \in Kinds
    BY <2>1, SpokenIs DEF Kinds
  <2>3. m \in Messages
    BY <2>1, <2>2 DEF Messages
  <2>4. m.kind \notin Spawning /\ m.kind # 2 /\ m.kind # 3
    BY <2>2 DEF Spawning
  <2>5. h \in Given'
    BY <1>1, SaidKept
  <2>6. Streamable(m)'
    BY <2>2, <2>3, <2>4, <2>5 DEF Streamable
  <2>7. QED
    BY <2>1, <2>6
<1>5. Reliable(Message(kind, h)) # None => CallSound(Reliable(Message(kind, h)))'
  BY <1>4, ReliableSound DEF Kinds
<1>6. \A kinds \in Once, g \in Handles : ~Saying(t, kinds, g)'
  BY <1>3, ReliableSays DEF Kinds, Once, Spawning
<1>7. QED
  BY <1>1, <1>2, <1>3, <1>5, <1>6, TakesUp

LEMMA DespawnStep ==
    ASSUME IInv, NEW t \in Thread, NEW h \in Handles, Despawn(t, h)
    PROVE  IInv'
<1>1. /\ handles' = handles /\ live' = [live EXCEPT ![h] = None]
      /\ said' = said /\ air' = air
      /\ calls' = [calls EXCEPT ![t] = Reliable(Message(3, h))]
      /\ h \in Given /\ live[h] # None
  BY DEF Despawn
<1>2. Settles
  BY <1>1, GivenBack DEF IInv
<1>3. DOMAIN calls' = Thread /\ calls'[t] = Reliable(Message(3, h))
      /\ \A u \in Thread \ {t} : calls'[u] = calls[u]
  BY <1>1, CallsChange DEF IInv
<1>4. Streamable(Spoken(Message(3, h)))'
  <2>1. PICK m : m = Spoken(Message(3, h))
    OBVIOUS
  <2>2. m.kind = 3 /\ m.handle = h /\ m.kind \notin Spawning /\ 3 \in Kinds
    BY <2>1, SpokenIs DEF Kinds, Spawning
  <2>3. m \in Messages
    BY <2>1, <2>2 DEF Messages
  <2>4. h \in Given' /\ ~Said({3}, h)'
    BY <1>1, SaidKept DEF IInv, LiveTells
  <2>5. live'[h] = None
    BY <1>1 DEF IInv, Typed
  <2>6. Streamable(m)'
    BY <2>2, <2>3, <2>4, <2>5 DEF Streamable
  <2>7. QED
    BY <2>1, <2>6
<1>5. Reliable(Message(3, h)) # None => CallSound(Reliable(Message(3, h)))'
  BY <1>4, ReliableSound DEF Kinds
<1>6. ASSUME NEW kinds \in Once, NEW g \in Handles, NEW u \in Thread \ {t},
             Saying(t, kinds, g)', Saying(u, kinds, g)
      PROVE  FALSE
  <2>1. 3 \in kinds /\ g = h
    BY <1>3, <1>6, ReliableSays DEF Kinds
  <2>2. kinds = {3}
    BY <2>1 DEF Once, Spawning
  <2>3. live[g] = None
    BY <2>2, <1>6, SayingIsSendable DEF IInv
  <2>4. QED
    BY <2>1, <2>3, <1>1
<1>7. QED
  BY <1>1, <1>2, <1>3, <1>5, <1>6, TakesUp

(* A call that settles nothing and says nothing of a handle's life.        *)
LEMMA PlainCall ==
    ASSUME IInv, NEW t \in Thread, NEW c,
           UNCHANGED <<handles, live, said, air>>, calls' = [calls EXCEPT ![t] = c],
           c # None => CallSound(c),
           c # None => \/ c.send = <<>>
                       \/ c.send[1].by # "stream"
                       \/ c.send[1].m.kind \in {7, 13}
    PROVE  IInv'
<1>1. Settles
  BY NothingSettled DEF IInv
<1>2. c # None => CallSound(c)'
  BY <1>1, CallKept DEF IInv
<1>3. DOMAIN calls' = Thread /\ calls'[t] = c
      /\ \A u \in Thread \ {t} : calls'[u] = calls[u]
  BY CallsChange DEF IInv
<1>4. \A kinds \in Once, h \in Handles : ~Saying(t, kinds, h)'
  BY <1>3 DEF Saying, Once, Spawning
<1>5. QED
  BY <1>1, <1>2, <1>3, <1>4, TakesUp

LEMMA SendStep ==
    ASSUME IInv, NEW t \in Thread, NEW h \in Given, NEW s \in Own(h),
           Send(t, s.m, s.by)
    PROVE  IInv'
<1>1. PICK c : c = Call(<<>>, <<>>, <<[by |-> s.by, m |-> s.m]>>)
  OBVIOUS
<1>2. UNCHANGED <<handles, live, said, air>> /\ calls' = [calls EXCEPT ![t] = c]
  BY <1>1 DEF Send
<1>3. /\ c.todo = <<>> /\ c.batch = <<>> /\ c.send = <<[by |-> s.by, m |-> s.m]>>
      /\ c.send[1].by = s.by /\ c.send[1].m = s.m
  BY <1>1 DEF Call
<1>4. s.m.kind \in {7, 13} /\ (s.m.kind = 13 => s.m.handle = h)
  BY DEF Own
<1>5. s.m \in Messages
  <2>1. h \in Handles
    BY EdgeClientAssumption DEF IInv, Typed, Handles
  <2>2. s.m = [kind |-> 7, body |-> Body]
        \/ s.m = [kind |-> 13, handle |-> h, body |-> Body]
    BY DEF Own
  <2>3. QED
    BY <2>1, <2>2 DEF Messages
<1>6. Sendable(c.send[1])
  <2>1. PICK m : m = s.m
    OBVIOUS
  <2>2. /\ m \in Messages /\ m.kind \notin Spawning /\ m.kind # 2 /\ m.kind # 3
        /\ (m.kind \notin Spawning \cup {7} => m.handle \in Given) /\ m.kind # 9
    BY <2>1, <1>4, <1>5 DEF Spawning
  <2>3. Streamable(m)
    BY <2>2 DEF Streamable
  <2>4. QED
    BY <2>1, <2>2, <2>3, <1>3 DEF Sendable
<1>7. CallSound(c)
  BY <1>3, <1>6 DEF CallSound
<1>8. QED
  BY <1>2, <1>3, <1>4, <1>7, PlainCall

LEMMA MoveEntitiesStep ==
    ASSUME IInv, NEW t \in Thread, NEW todo \in Lists, MoveEntities(t, todo)
    PROVE  IInv'
<1>1. PICK c : c = Call(todo, <<>>, <<>>)
  OBVIOUS
<1>2. UNCHANGED <<handles, live, said, air>> /\ calls' = [calls EXCEPT ![t] = c]
  BY <1>1 DEF MoveEntities
<1>3. c.todo = todo /\ c.batch = <<>> /\ c.send = <<>>
  BY <1>1 DEF Call
<1>4. todo \in Seq(Given)
  BY DEF Lists
<1>5. CallSound(c)
  BY <1>3, <1>4 DEF CallSound
<1>6. QED
  BY <1>2, <1>3, <1>5, PlainCall

(* A batch of handles whose first move was settled may go.                 *)
LEMMA BatchSettled ==
    ASSUME NEW b \in Seq(Given), \A i \in DOMAIN b : live[b[i]] # FALSE
    PROVE  Settled(Moves(b))
<1>1. PICK m : m = Moves(b)
  OBVIOUS
<1>2. DOMAIN m.moves = DOMAIN b /\ \A i \in DOMAIN b : m.moves[i].handle = b[i]
  BY <1>1 DEF Moves
<1>3. \A i \in DOMAIN b : b[i] \in Given
  OBVIOUS
<1>4. \A i \in DOMAIN m.moves :
          m.moves[i].handle \in Given /\ live[m.moves[i].handle] # FALSE
  BY <1>2, <1>3, Zenon
<1>5. QED
  BY <1>1, <1>4, Zenon DEF Settled

LEMMA ReturnStep ==
    ASSUME IInv, NEW t \in Thread, Return(t)
    PROVE  IInv'
<1>1. PICK b : b = calls[t].batch
  OBVIOUS
<1>2. PICK c : c = IF b = <<>> THEN None
                   ELSE Call(<<>>, <<>>, <<[by |-> "datagram", m |-> Moves(b)]>>)
  OBVIOUS
<1>3. /\ UNCHANGED <<handles, live, said, air>> /\ calls' = [calls EXCEPT ![t] = c]
      /\ calls[t] # None
  BY <1>1, <1>2 DEF Return
<1>4. b \in Seq(Given) /\ \A i \in DOMAIN b : live[b[i]] # FALSE
  BY <1>1, <1>3 DEF IInv, CallsSound, CallSound
<1>5. c # None => /\ c.todo = <<>> /\ c.batch = <<>> /\ c.send # <<>>
                  /\ c.send[1] = [by |-> "datagram", m |-> Moves(b)]
  BY <1>2 DEF Call
<1>6. Settled(Moves(b))
  BY <1>4, BatchSettled
<1>7. c # None => CallSound(c) /\ c.send[1].by # "stream"
  <2>1. \A s : s = [by |-> "datagram", m |-> Moves(b)] =>
            Sendable(s) /\ s.by # "stream"
    BY <1>6 DEF Sendable
  <2>2. <<>> \in Seq(Given) /\ \A i \in DOMAIN <<>> : FALSE
    OBVIOUS
  <2>3. QED
    BY <2>1, <2>2, <1>5, Zenon DEF CallSound
<1>8. QED
  BY <1>3, <1>7, PlainCall

LEMMA FailStep ==
    ASSUME IInv, NEW t \in Thread, Fail(t)
    PROVE  IInv'
<1>1. PICK c : c = None
  OBVIOUS
<1>2. /\ UNCHANGED <<handles, live, said, air>> /\ calls' = [calls EXCEPT ![t] = c]
      /\ calls[t] # None
  BY <1>1 DEF Fail
<1>3. QED
  BY <1>1, <1>2, PlainCall

-----------------------------------------------------------------------------
(***************************************************************************)
(* A move of a call: what a handle is decides where it goes.               *)
(***************************************************************************)
LEMMA WalkStep ==
    ASSUME IInv, NEW t \in Thread, Walk(t)
    PROVE  IInv'
<1>1. PICK d : d = calls[t]
  OBVIOUS
<1>2. PICK h : h = Head(d.todo)
  OBVIOUS
<1>3. PICK more : more = Tail(d.todo)
  OBVIOUS
<1>4. PICK batch : batch = Append(d.batch, h)
  OBVIOUS
<1>5. PICK c : c =
          IF live[h] = None THEN Call(more, d.batch, <<>>)
          ELSE IF ~live[h]
          THEN Call(more, d.batch, <<[by |-> "stream", m |-> Spoken(Message(2, h))]>>)
          ELSE IF Len(batch) = PerBatch
          THEN Call(more, <<>>, <<[by |-> "datagram", m |-> Moves(batch)]>>)
          ELSE Call(more, batch, <<>>)
  OBVIOUS
<1>6. /\ d # None /\ d.todo # <<>>
      /\ live' = [live EXCEPT ![h] = IF @ = None THEN None ELSE TRUE]
      /\ calls' = [calls EXCEPT ![t] = c]
      /\ handles' = handles /\ said' = said /\ air' = air
  BY <1>1, <1>2, <1>3, <1>4, <1>5, Zenon DEF Walk
<1>7. d.todo \in Seq(Given) /\ d.batch \in Seq(Given)
      /\ \A i \in DOMAIN d.batch : live[d.batch[i]] # FALSE
  BY <1>1, <1>6 DEF IInv, CallsSound, CallSound
<1>8. h \in Given /\ more \in Seq(Given)
  BY <1>2, <1>3, <1>6, <1>7
<1>9. h \in 1 .. handles /\ h \in Handles
  BY <1>8, EdgeClientAssumption DEF IInv, Typed, Handles
<1>10. live[h] \in {None, TRUE, FALSE}
  BY <1>9 DEF IInv, Typed
<1>11. CASE live[h] = FALSE
  <2>1. c = Call(more, d.batch, <<[by |-> "stream", m |-> Spoken(Message(2, h))]>>)
    BY <1>5, <1>11, EdgeClientAssumption, Zenon
  <2>2. /\ c.todo = more /\ c.batch = d.batch /\ c.send # <<>>
        /\ c.send[1] = [by |-> "stream", m |-> Spoken(Message(2, h))]
    BY <2>1 DEF Call
  <2>3. live' = [live EXCEPT ![h] = TRUE]
    BY <1>6, <1>11, EdgeClientAssumption, Zenon
  <2>4. Settles
    <3>1. handles' \in 0 .. MaxHandle /\ handles <= handles'
      BY <1>6 DEF IInv, Typed
    <3>2. live' \in [Handles -> {None, TRUE, FALSE}]
      BY <2>3 DEF IInv, Typed
    <3>3. \A g \in 1 .. handles : g \in Handles
      BY EdgeClientAssumption DEF IInv, Typed, Handles
    <3>4. \A g \in Handles : live'[g] = IF g = h THEN TRUE ELSE live[g]
      BY <2>3, Zenon DEF IInv, Typed
    <3>5. QED
      BY <3>1, <3>2, <3>3, <3>4, <1>11, EdgeClientAssumption, Zenon DEF Settles
  <2>5. live'[h] # FALSE
    BY <2>3, <1>9, Zenon DEF IInv, Typed
  <2>6. ~Said({2}, h)
    BY <1>9, <1>11, Zenon DEF IInv, LiveTells
  <2>7. Streamable(Spoken(Message(2, h)))'
    <3>1. PICK m : m = Spoken(Message(2, h))
      OBVIOUS
    <3>2. m.kind = 2 /\ m.handle = h /\ m.kind \notin Spawning /\ 2 \in Kinds
      BY <3>1, SpokenIs DEF Kinds, Spawning
    <3>3. m \in Messages
      BY <3>1, <3>2, <1>9 DEF Messages
    <3>4. h \in Given' /\ ~Said({2}, h)'
      BY <1>6, <1>8, <2>6, SaidKept
    <3>5. m.kind # 3
      BY <3>2
    <3>6. m.handle \in Given' /\ live'[m.handle] # FALSE /\ ~Said({2}, m.handle)'
      BY <3>2, <3>4, <2>5, Zenon
    <3>7. Streamable(m)'
      BY <3>2, <3>3, <3>5, <3>6, Zenon DEF Streamable
    <3>8. QED
      BY <3>1, <3>7
  <2>8. CallSound(c)'
    <3>1. CallSound(Call(more, d.batch, <<>>))'
      <4>1. PICK e : e = Call(more, d.batch, <<>>)
        OBVIOUS
      <4>2. CallSound(e)
        BY <4>1, <1>7, <1>8 DEF CallSound, Call
      <4>3. QED
        BY <4>1, <4>2, <2>4, <1>6, CallKept DEF IInv
    <3>2. /\ c.todo \in Seq(Given)' /\ c.batch \in Seq(Given)'
          /\ \A i \in DOMAIN c.batch : live'[c.batch[i]] # FALSE
      BY <3>1, <2>2 DEF CallSound, Call
    <3>3. Sendable([by |-> "stream", m |-> Spoken(Message(2, h))])'
      BY <2>7 DEF Sendable
    <3>4. QED
      BY <3>2, <3>3, <2>2, Zenon DEF CallSound
  <2>9. ASSUME NEW kinds \in Once, NEW g \in Handles, NEW u \in Thread \ {t},
                Saying(t, kinds, g)', Saying(u, kinds, g)
         PROVE  FALSE
    <3>1. 2 \in kinds /\ g = h
      <4>1. c.send[1].m.kind \in kinds /\ c.send[1].m.handle = g
        BY <2>9, CallsChange, <1>6 DEF Saying, IInv
      <4>2. QED
        BY <4>1, <2>2, SpokenIs DEF Kinds
    <3>2. kinds = {2}
      BY <3>1 DEF Once, Spawning
    <3>3. live[g] # FALSE
      BY <3>2, <2>9, SayingIsSendable DEF IInv
    <3>4. QED
      BY <3>1, <3>3, <1>11
  <2>10. /\ DOMAIN calls' = Thread /\ calls'[t] = c
         /\ \A u \in Thread \ {t} : calls'[u] = calls[u]
    BY <1>6, CallsChange DEF IInv
  <2>11. QED
    BY <1>6, <2>4, <2>8, <2>9, <2>10, TakesUp
<1>12. CASE live[h] # FALSE
  <2>1. live' = live
    <3>1. (IF live[h] = None THEN None ELSE TRUE) = live[h]
      BY <1>10, <1>12, Zenon
    <3>2. live' = [live EXCEPT ![h] = live[h]]
      BY <3>1, <1>6, Zenon
    <3>3. QED
      BY <3>2, <1>9 DEF IInv, Typed
  <2>2. \/ c = Call(more, d.batch, <<>>)
        \/ live[h] = TRUE /\ c = Call(more, <<>>, <<[by |-> "datagram", m |-> Moves(batch)]>>)
        \/ live[h] = TRUE /\ c = Call(more, batch, <<>>)
    BY <1>5, <1>10, <1>12, Zenon
  <2>3. batch \in Seq(Given) /\ \A i \in DOMAIN batch : live[batch[i]] # FALSE
    <3>1. batch \in Seq(Given)
      BY <1>4, <1>7, <1>8
    <3>2. \A i \in DOMAIN batch : batch[i] = h \/ (i \in DOMAIN d.batch /\ batch[i] = d.batch[i])
      <4>1. \A S : \A s \in Seq(S), e \in S : \A i \in DOMAIN Append(s, e) :
                Append(s, e)[i] = e \/ (i \in DOMAIN s /\ Append(s, e)[i] = s[i])
        OBVIOUS
      <4>2. QED
        BY <4>1, <1>4, <1>7, <1>8
    <3>3. QED
      BY <3>1, <3>2, <1>7, <1>12, Zenon
  <2>4. Settled(Moves(batch))
    BY <2>3, BatchSettled
  <2>5. c # None => CallSound(c) /\ (c.send = <<>> \/ c.send[1].by # "stream")
    <3>1. CASE c = Call(more, d.batch, <<>>)
      BY <3>1, <1>7, <1>8 DEF CallSound, Call
    <3>2. CASE c = Call(more, batch, <<>>)
      BY <3>2, <2>3, <1>8 DEF CallSound, Call
    <3>3. CASE c = Call(more, <<>>, <<[by |-> "datagram", m |-> Moves(batch)]>>)
      <4>1. \A s : s = [by |-> "datagram", m |-> Moves(batch)] =>
                Sendable(s) /\ s.by # "stream"
        BY <2>4 DEF Sendable
      <4>2. /\ c.todo = more /\ c.batch = <<>>
            /\ c.send[1] = [by |-> "datagram", m |-> Moves(batch)]
        BY <3>3 DEF Call
      <4>3. <<>> \in Seq(Given) /\ \A i \in DOMAIN <<>> : FALSE
        OBVIOUS
      <4>4. QED
        BY <4>1, <4>2, <4>3, <1>8, Zenon DEF CallSound
    <3>4. QED
      BY <2>2, <3>1, <3>2, <3>3
  <2>6. QED
    BY <1>6, <2>1, <2>5, PlainCall
<1>13. QED
  BY <1>11, <1>12

-----------------------------------------------------------------------------
(***************************************************************************)
(* What a thread made up its mind to send is queued.                       *)
(***************************************************************************)
(* A message m joins the stream, as its n-th.                              *)
Joins(m, n) ==
    /\ DOMAIN said = 1 .. (n - 1) /\ DOMAIN said' = 1 .. n /\ n \in Nat \ {0}
    /\ said'[n] = m /\ \A i \in 1 .. (n - 1) : said'[i] = said[i]

LEMMA StreamGrows ==
    ASSUME NEW m, NEW n, Joins(m, n)
    PROVE  /\ \A kinds, h : Said(kinds, h)' <=> Said(kinds, h) \/ (m.kind \in kinds /\ m.handle = h)
           /\ \A h : h \in Given' <=> h \in Given \/ (m.kind \in Spawning /\ m.handle = h)
<1>1. ASSUME NEW kinds, NEW h
      PROVE  Said(kinds, h)' <=> Said(kinds, h) \/ (m.kind \in kinds /\ m.handle = h)
  <2>1. ASSUME Said(kinds, h)' PROVE Said(kinds, h) \/ (m.kind \in kinds /\ m.handle = h)
    <3>1. PICK i \in DOMAIN said' : said'[i].kind \in kinds /\ said'[i].handle = h
      BY <2>1 DEF Said
    <3>2. i = n \/ i \in 1 .. (n - 1)
      BY DEF Joins
    <3>3. QED
      BY <3>1, <3>2, Zenon DEF Said, Joins
  <2>2. ASSUME Said(kinds, h) PROVE Said(kinds, h)'
    <3>1. PICK i \in DOMAIN said : said[i].kind \in kinds /\ said[i].handle = h
      BY <2>2 DEF Said
    <3>2. i \in 1 .. n /\ i \in 1 .. (n - 1)
      BY DEF Joins
    <3>3. QED
      BY <3>1, <3>2, Zenon DEF Said, Joins
  <2>3. ASSUME m.kind \in kinds /\ m.handle = h PROVE Said(kinds, h)'
    <3>1. n \in 1 .. n
      BY DEF Joins
    <3>2. QED
      BY <2>3, <3>1, Zenon DEF Said, Joins
  <2>4. QED
    BY <2>1, <2>2, <2>3
<1>2. QED
  BY <1>1, GivenIsSaid, GivenIsSaidAfter

LEMMA OrderGrows ==
    ASSUME StreamInOrder, NEW m, Streamable(m), NEW n, Joins(m, n)
    PROVE  StreamInOrder'
<1>1. ASSUME NEW i \in 1 .. (n - 1), NEW kinds
      PROVE  Earlier(i, kinds)' <=> Earlier(i, kinds)
  <2>1. said'[i] = said[i] /\ \A j \in 1 .. (i - 1) : said'[j] = said[j]
    BY DEF Joins
  <2>2. QED
    BY <2>1, Zenon DEF Earlier
<1>2. ASSUME NEW kinds
      PROVE  Earlier(n, kinds)' <=> Said(kinds, m.handle)
  BY Zenon DEF Earlier, Said, Joins
<1>3. ASSUME NEW i \in 1 .. (n - 1)
      PROVE  InOrder(i)'
  <2>1. InOrder(i) /\ said'[i] = said[i]
    BY DEF StreamInOrder, Joins
  <2>2. QED
    BY <2>1, <1>1, Zenon DEF InOrder
<1>4. InOrder(n)'
  <2>1. m.kind \in Spawning => ~Said(Spawning, m.handle)
    BY DEF Streamable
  <2>2. m.kind \notin Spawning \cup {7} => Said(Spawning, m.handle)
    BY GivenIsSaid DEF Streamable
  <2>3. m.kind \in {2, 3} => ~Said({m.kind}, m.handle)
    BY DEF Streamable
  <2>4. \/ m.kind \in {1, 15} /\ ~Said({1, 15}, m.handle)
        \/ /\ m.kind \in {2, 3} /\ m.kind \notin {1, 15}
           /\ Said({1, 15}, m.handle) /\ ~Said({m.kind}, m.handle)
        \/ /\ m.kind \notin {2, 3} /\ m.kind \notin {1, 15}
           /\ m.kind # 7 => Said({1, 15}, m.handle)
    BY <2>1, <2>2, <2>3 DEF Spawning
  <2>5. said'[n] = m
    BY DEF Joins
  <2>6. /\ Earlier(n, {1, 15})' <=> Said({1, 15}, m.handle)
        /\ Earlier(n, {m.kind})' <=> Said({m.kind}, m.handle)
    BY <1>2
  <2>7. CASE m.kind \in {1, 15}
    BY <2>1, <2>5, <2>6, <2>7 DEF InOrder, Spawning
  <2>8. CASE m.kind \in {2, 3} /\ m.kind \notin {1, 15}
    BY <2>4, <2>5, <2>6, <2>8 DEF InOrder
  <2>9. CASE m.kind \notin {2, 3} /\ m.kind \notin {1, 15}
    BY <2>4, <2>5, <2>6, <2>9 DEF InOrder
  <2>10. QED
    BY <2>7, <2>8, <2>9
<1>5. \A i \in 1 .. n : i = n \/ i \in 1 .. (n - 1)
  BY DEF Joins
<1>6. QED
  BY <1>3, <1>4, <1>5, Zenon DEF StreamInOrder, Joins

(* A handle that joins the given leaves what other calls hold sound.       *)
LEMMA CallGrows ==
    ASSUME Given \subseteq Given', NEW c, CallSound(c), live' = live,
           c.send = <<>> \/ (Sendable(c.send[1]) => Sendable(c.send[1])')
    PROVE  CallSound(c)'
<1>1. \A s : s \in Seq(Given) => s \in Seq(Given')
  OBVIOUS
<1>2. c.todo \in Seq(Given)' /\ c.batch \in Seq(Given)'
  BY <1>1 DEF CallSound
<1>3. \A i \in DOMAIN c.batch : live'[c.batch[i]] # FALSE
  BY Zenon DEF CallSound
<1>4. c.send # <<>> => Sendable(c.send[1])'
  BY Zenon DEF CallSound
<1>5. QED
  BY <1>2, <1>3, <1>4, Zenon DEF CallSound

LEMMA StreamStep ==
    ASSUME IInv, NEW t \in Thread, NEW d, d = calls[t], d # None, d.send # <<>>,
           NEW m, d.send[1].by = "stream", d.send[1].m = m,
           said' = Append(said, m), UNCHANGED <<handles, live, air>>,
           calls' = [calls EXCEPT ![t] = Call(d.todo, d.batch, <<>>)]
    PROVE  IInv'
<1> DEFINE n == Len(said) + 1
<1>1. CallSound(d) /\ Sendable(d.send[1]) /\ Streamable(m)
  BY DEF IInv, CallsSound, CallSound, Sendable
<1>2. m \in Messages /\ said \in Seq(Messages)
  BY <1>1 DEF Streamable, IInv, Typed
<1>3. Joins(m, n) /\ said' \in Seq(Messages)
  BY <1>2 DEF Joins
<1>4. PICK k : k = n
  OBVIOUS
<1> HIDE DEF n
<1>5. /\ \A kinds, h : Said(kinds, h)' <=> Said(kinds, h) \/ (m.kind \in kinds /\ m.handle = h)
      /\ \A h : h \in Given' <=> h \in Given \/ (m.kind \in Spawning /\ m.handle = h)
  BY <1>3, <1>4, StreamGrows
<1>6. Given \subseteq Given'
  BY <1>5
<1>7. \A kinds \in Once, h \in Handles :
          m.kind \in kinds /\ m.handle = h => Saying(t, kinds, h)
  BY DEF Saying
<1>8. /\ DOMAIN calls' = Thread /\ calls'[t] = Call(d.todo, d.batch, <<>>)
      /\ \A u \in Thread \ {t} : calls'[u] = calls[u]
  BY CallsChange DEF IInv
<1>9. Typed'
  <2>1. Given' \subseteq 1 .. handles'
    BY <1>1, <1>5 DEF IInv, Typed, Streamable
  <2>2. QED
    BY <1>3, <1>8, <2>1 DEF IInv, Typed
<1>10. LiveTells'
  <2>1. ASSUME NEW h \in Handles
        PROVE  /\ live[h] = FALSE => ~Said({2}, h)'
               /\ live[h] # None => ~Said({3}, h)'
    <3>1. /\ live[h] = FALSE => ~Said({2}, h)
          /\ live[h] # None => ~Said({3}, h)
      BY Zenon DEF IInv, LiveTells
    <3>2. /\ m.kind = 2 => live[m.handle] # FALSE
          /\ m.kind = 3 => live[m.handle] = None
      BY <1>1, Zenon DEF Streamable
    <3>3. \A x, y : x \in {y} <=> x = y
      OBVIOUS
    <3>4. QED
      BY <3>1, <3>2, <3>3, <1>5, Zenon
  <2>2. QED
    BY <2>1, Zenon DEF LiveTells
<1>11. StreamInOrder'
  BY <1>1, <1>3, <1>4, OrderGrows DEF IInv
<1>12. AirSettled'
  <2>1. ASSUME NEW a, Settled(a)
        PROVE  Settled(a)'
    BY <2>1, <1>6, Zenon DEF Settled
  <2>2. QED
    BY <2>1, Zenon DEF IInv, AirSettled
<1>13. ASSUME NEW u \in Thread \ {t}, NEW x, Streamable(x),
              calls[u] # None, calls[u].send # <<>>,
              calls[u].send[1].by = "stream", calls[u].send[1].m = x
       PROVE  Streamable(x)'
  <2>1. \A kinds \in Once, h \in Handles : x.kind \in kinds /\ x.handle = h =>
            Saying(u, kinds, h)
    BY <1>13 DEF Saying
  <2>2. \A kinds \in Once, h \in Handles :
            ~(x.kind \in kinds /\ x.handle = h /\ m.kind \in kinds /\ m.handle = h)
    BY <2>1, <1>7, Zenon DEF IInv, Alone
  <2>3. x \in Messages /\ (x.kind # 7 => x.handle \in Handles)
    BY <1>13, MessageFacts DEF Streamable
  <2>4. \A kinds \in Once : x.kind \in kinds /\ ~Said(kinds, x.handle) /\ x.kind # 7 =>
            ~Said(kinds, x.handle)'
    BY <2>2, <2>3, <1>5
  <2>5. Spawning \in Once /\ {2} \in Once /\ {3} \in Once /\ 7 \notin Spawning
    BY DEF Once, Spawning
  <2>6. x.kind \in Spawning => x.handle \in 1 .. handles /\ ~Said(Spawning, x.handle)'
    <3>1. x.kind \in Spawning => x.kind # 7
      BY <2>5
    <3>2. QED
      BY <3>1, <2>4, <2>5, <1>13, Zenon DEF Streamable
  <2>7. x.kind \notin Spawning \cup {7} => x.handle \in Given'
    BY <1>13, <1>6, Zenon DEF Streamable
  <2>8. x.kind = 2 => live[x.handle] # FALSE /\ ~Said({2}, x.handle)'
    <3>1. x.kind = 2 => x.kind # 7 /\ x.kind \in {2}
      OBVIOUS
    <3>2. QED
      BY <3>1, <2>4, <2>5, <1>13, Zenon DEF Streamable
  <2>9. x.kind = 3 => live[x.handle] = None /\ ~Said({3}, x.handle)'
    <3>1. x.kind = 3 => x.kind # 7 /\ x.kind \in {3}
      OBVIOUS
    <3>2. QED
      BY <3>1, <2>4, <2>5, <1>13, Zenon DEF Streamable
  <2>10. QED
    BY <2>3, <2>6, <2>7, <2>8, <2>9, Zenon DEF Streamable
<1>14. CallsSound'
  <2>1. ASSUME NEW u \in Thread, NEW e, e = calls'[u], e # None
        PROVE  CallSound(e)'
    <3>1. CASE u = t
      <4>1. CallSound(e)
        BY <3>1, <2>1, <1>1, <1>8 DEF Call, CallSound
      <4>2. e.send = <<>>
        BY <3>1, <2>1, <1>8 DEF Call
      <4>3. QED
        BY <4>1, <4>2, <1>6, CallGrows
    <3>2. CASE u # t
      <4>1. CallSound(e) /\ e = calls[u]
        BY <3>2, <2>1, <1>8 DEF IInv, CallsSound
      <4>2. ASSUME e.send # <<>>, NEW s, s = e.send[1], Sendable(s)
            PROVE  Sendable(s)'
        <5>1. CASE s.by = "stream"
          <6>1. PICK x : x = s.m
            OBVIOUS
          <6>2. Streamable(x)
            BY <5>1, <6>1, <4>2 DEF Sendable
          <6>3. Streamable(x)'
            BY <6>1, <6>2, <5>1, <4>2, <4>1, <3>2, <2>1, <1>13
          <6>4. QED
            BY <6>1, <6>3, <5>1 DEF Sendable
        <5>2. CASE s.by # "stream"
          BY <5>2, <4>2, <1>6, Zenon DEF Sendable, Settled
        <5>3. QED
          BY <5>1, <5>2
      <4>3. QED
        BY <4>1, <4>2, <1>6, CallGrows
    <3>3. QED
      BY <3>1, <3>2
  <2>2. QED
    BY <2>1 DEF CallsSound
<1>15. Alone'
  <2>1. \A u \in Thread, kinds \in Once, h \in Handles :
            Saying(u, kinds, h)' => Saying(u, kinds, h)
    <3>1. \A u \in Thread \ {t}, kinds \in Once, h \in Handles :
              Saying(u, kinds, h)' => Saying(u, kinds, h)
      BY <1>8 DEF Saying
    <3>2. \A kinds \in Once, h \in Handles : ~Saying(t, kinds, h)'
      BY <1>8 DEF Saying, Call
    <3>3. QED
      BY <3>1, <3>2
  <2>2. QED
    BY <2>1, Zenon DEF IInv, Alone
<1>16. QED
  BY <1>9, <1>10, <1>11, <1>12, <1>14, <1>15, Zenon DEF IInv

LEMMA QueueStep ==
    ASSUME IInv, NEW t \in Thread, Queue(t)
    PROVE  IInv'
<1>1. PICK d : d = calls[t]
  OBVIOUS
<1>2. PICK s : s = d.send[1]
  OBVIOUS
<1>3. PICK c : c = Call(d.todo, d.batch, <<>>)
  OBVIOUS
<1>4. /\ d # None /\ d.send # <<>> /\ calls' = [calls EXCEPT ![t] = c]
      /\ handles' = handles /\ live' = live
  BY <1>1, <1>3, Zenon DEF Queue
<1>5. CallSound(d) /\ Sendable(s)
  BY <1>1, <1>2, <1>4 DEF IInv, CallsSound, CallSound
<1>6. CallSound(c) /\ c.send = <<>>
  BY <1>3, <1>5 DEF Call, CallSound
<1>7. CASE dropped
  <2>1. said' = said /\ air' = air
    BY <1>7, Zenon DEF Queue
  <2>2. QED
    BY <2>1, <1>4, <1>6, PlainCall
<1>8. CASE ~dropped /\ s.by = "stream"
  <2>1. said' = Append(said, s.m) /\ air' = air
    BY <1>8, <1>1, <1>2, Zenon DEF Queue
  <2>2. QED
    BY <2>1, <1>1, <1>2, <1>3, <1>4, <1>8, StreamStep
<1>9. CASE ~dropped /\ s.by # "stream"
  <2>1. said' = said /\ air' \in {air, air \cup {s.m}}
    BY <1>9, <1>1, <1>2, Zenon DEF Queue
  <2>2. \A m \in air' : m \in air \/ (m.kind = 9 => Settled(m))
    <3>1. s.m.kind = 9 => Settled(s.m)
      BY <1>5, <1>9 DEF Sendable
    <3>2. QED
      BY <3>1, <2>1
  <2>3. Settles
    BY <1>4, NothingSettled DEF IInv
  <2>4. CallSound(c)'
    BY <1>6, <2>1, <2>3, CallKept DEF IInv
  <2>5. DOMAIN calls' = Thread /\ calls'[t] = c
        /\ \A u \in Thread \ {t} : calls'[u] = calls[u]
    BY <1>4, CallsChange DEF IInv
  <2>6. \A kinds \in Once, h \in Handles : ~Saying(t, kinds, h)'
    BY <1>6, <2>5 DEF Saying
  <2>7. QED
    BY <2>1, <2>2, <2>3, <2>4, <2>5, <2>6, TakesUp
<1>10. QED
  BY <1>7, <1>8, <1>9

-----------------------------------------------------------------------------
(***************************************************************************)
(* What the edge, the regions and the link do to the handles: at most one  *)
(* of them dies.                                                           *)
(***************************************************************************)
LEMMA QuietStep ==
    ASSUME IInv, UNCHANGED <<handles, calls, said, air>>,
           live' = live \/ \E h : live' = [live EXCEPT ![h] = None]
    PROVE  IInv'
<1>1. Settles
  BY NothingSettled, GivenBack DEF IInv
<1>2. PICK t : t \notin Thread
  BY NoSetContainsEverything
<1>3. DOMAIN calls' = Thread /\ \A u \in Thread \ {t} : calls'[u] = calls[u]
  BY DEF IInv, Typed
<1>4. QED
  BY <1>1, <1>2, <1>3, TakesUp

LEMMA DeliverLowers ==
    ASSUME NEW bytes, Deliver(bytes)
    PROVE  live' = live \/ \E h : live' = [live EXCEPT ![h] = None]
BY Zenon DEF Deliver

LEMMA GameStep ==
    ASSUME IInv, NEW t \in Thread, Game(t)
    PROVE  IInv'
<1>1. CASE \E kind \in Calls \cap {1, 15} : Spawn(t, kind)
  BY <1>1, SpawnStep
<1>2. CASE \E kind \in Calls \cap {10, 14}, h \in Handles : Teleport(t, kind, h)
  BY <1>2, TeleportStep
<1>3. CASE \E h \in Handles : Despawn(t, h)
  BY <1>3, DespawnStep
<1>4. CASE \E h \in Given : \E s \in Own(h) : Send(t, s.m, s.by)
  BY <1>4, SendStep
<1>5. CASE \E todo \in Lists : MoveEntities(t, todo)
  BY <1>5, MoveEntitiesStep
<1>6. QED
  BY <1>1, <1>2, <1>3, <1>4, <1>5 DEF Game

LEMMA NextStep ==
    ASSUME IInv, [Next]_vars
    PROVE  IInv'
<1>1. CASE \E t \in Thread : Game(t)
  BY <1>1, GameStep
<1>2. CASE \E t \in Thread : Step(t)
  BY <1>2, WalkStep, QueueStep, FailStep, ReturnStep DEF Step
<1>3. CASE Drop
  BY <1>3, QuietStep DEF Drop, upward
<1>4. CASE \E k \in Chunks : EdgeReads(k)
  BY <1>4, QuietStep DEF EdgeReads
<1>5. CASE \E r \in Region : Serve(r)
  BY <1>5, QuietStep DEF Serve, upward
<1>6. CASE \E kind \in {4, 5, 11, 12}, h \in Handles : EdgeSays(kind, h)
  BY <1>6, QuietStep DEF EdgeSays, upward
<1>7. CASE ClientReads
  BY <1>7, DeliverLowers, QuietStep DEF ClientReads
<1>8. CASE \E i \in DOMAIN grams : ClientHears(i) \/ Lose(i)
  BY <1>8, DeliverLowers, QuietStep DEF ClientHears, Lose, upward
<1>9. CASE UNCHANGED vars
  BY <1>9, QuietStep DEF vars, upward
<1>10. QED
  BY <1>1, <1>2, <1>3, <1>4, <1>5, <1>6, <1>7, <1>8, <1>9 DEF Next

-----------------------------------------------------------------------------
(***************************************************************************)
(* The theorems.                                                           *)
(***************************************************************************)
LEMMA InitSound ==
    ASSUME Init
    PROVE  IInv
<1>1. said = <<>> /\ DOMAIN said = {}
  BY DEF Init
<1>2. Given = {} /\ \A kinds, h : ~Said(kinds, h)
  BY <1>1 DEF Given, Said
<1>3. Typed
  <2>1. handles \in 0 .. MaxHandle
    BY EdgeClientAssumption DEF Init
  <2>2. live \in [Handles -> {None, TRUE, FALSE}] /\ DOMAIN calls = Thread
    BY DEF Init
  <2>3. said \in Seq(Messages)
    BY <1>1
  <2>4. QED
    BY <1>2, <2>1, <2>2, <2>3 DEF Typed
<1>4. LiveTells /\ StreamInOrder /\ AirSettled
  BY <1>1, <1>2 DEF Init, LiveTells, StreamInOrder, AirSettled
<1>5. \A t \in Thread : calls[t] = None
  BY DEF Init
<1>6. CallsSound /\ Alone
  BY <1>5 DEF CallsSound, Alone, Saying
<1>7. QED
  BY <1>3, <1>4, <1>6 DEF IInv

LEMMA SpentOnce == IInv => HandlesSpentOnce
<1> SUFFICES ASSUME IInv PROVE HandlesSpentOnce
  OBVIOUS
<1>1. ASSUME NEW i \in DOMAIN said
      PROVE  InOrder(i)
  BY DEF IInv, StreamInOrder
<1>2. ASSUME NEW m \in {x \in air : x.kind = 9}, NEW i \in 1 .. MaxMoves, i \in DOMAIN m.moves
      PROVE  live[m.moves[i].handle] # FALSE
  BY <1>2, Zenon DEF IInv, AirSettled, Settled
<1>3. QED
  BY <1>1, <1>2, Zenon DEF HandlesSpentOnce, InOrder, Earlier

(* IInv holds throughout: what is on the stream, what the handles are and  *)
(* what every thread is about to say agree (ClientHandle and its lock).    *)
THEOREM ClientInvariant == Spec => []IInv
<1>1. IInv /\ [Next]_vars => IInv'
  BY NextStep
<1>2. QED
  BY <1>1, InitSound, PTL DEF Spec

(* Whatever any number of threads do at once, a handle is spawned before   *)
(* anything else is said of it and only once, walks onto the stream and is *)
(* given back at most once, and is in no datagram before its first move    *)
(* was settled (spawn_into, give_back, move_entities and teleport).        *)
THEOREM HandlesAlwaysSpentOnce == Spec => []HandlesSpentOnce
BY ClientInvariant, SpentOnce, PTL
=============================================================================
