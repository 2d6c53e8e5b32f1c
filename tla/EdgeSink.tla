------------------------------ MODULE EdgeSink ------------------------------
(***************************************************************************)
(* How a region addresses what it sends: `EdgeSink` of                     *)
(* net/region/session.rs, over the registry of Edges.                      *)
(*                                                                         *)
(* The tick thread binds viewers to their avatars, serves them, and tells  *)
(* edges of presence.  The threads behind the hand-off send what was built *)
(* for a viewer, of which the latest is all that waits (Mailbox), and look *)
(* up avatar, edge and subject one after another, each under a lock of its *)
(* own.  The subjects are kept in a table that is read again when the      *)
(* generation of the registry has moved.  Meanwhile edges come and go.     *)
(*                                                                         *)
(* A subject is the name of the edge it leads to.  Payloads, the counters  *)
(* and whether a publish succeeds are left out.                            *)
(***************************************************************************)
EXTENDS Edges

CONSTANTS
    ViewerId,       \* ids of viewers
    Sender          \* the threads that call send

Thread == Sender \cup {"tick"}

(* A call of send or presence.  asked is the edge that managed the avatar  *)
(* when edge_for was asked; met are those that had the slot since the      *)
(* generation was read, with one that is being dropped.  The code keeps    *)
(* neither.                                                                *)
CallType ==
    [pc : {"idle", "route", "subject", "check", "refill", "label", "publish"},
     of : Entity \cup {None}, avatar : Entity \cup {None}, edge : EdgeId,
     generation : Int, to : EdgeName \cup {None}, asked : EdgeName \cup {None},
     met : SUBSET EdgeName]

NoCall == [pc |-> "idle", of |-> None, avatar |-> None, edge |-> 0, generation |-> 0,
           to |-> None, asked |-> None, met |-> {}]

ASSUME SinkAssumption == None \notin Entity \cup Thread /\ "tick" \notin Sender

VARIABLES
    avatars,        \* avatars[v] is the entity v watches, or None
    box,            \* box[v]: whose view the payload is that waits for v, or None
    subjects,       \* the generation the table is of, and its subjects
    writer,         \* the thread that holds the table to fill it, or None
    call            \* call[t]: what thread t is in the middle of

sinkVars == <<registry, avatars, box, subjects, writer, call>>

SinkInit ==
    /\ RegistryInit
    /\ avatars = [v \in ViewerId |-> None]
    /\ box = [v \in ViewerId |-> None]
    /\ subjects = [generation |-> -1, names |-> [i \in EdgeId |-> None]]
    /\ writer = None
    /\ call = [t \in Thread |-> NoCall]

At(t, p) == call[t].pc = p

Becomes(t, c) == call' = [call EXCEPT ![t] = c]

-----------------------------------------------------------------------------
(* The tick thread, between calls.  bind, for an avatar just registered:   *)
(* apply has spawned and claimed it, but its edge may have gone since;     *)
Bind(v, e) ==
    /\ At("tick", "idle")
    /\ avatars[v] = None
    /\ \A u \in ViewerId : avatars[u] # e
    /\ avatars' = [avatars EXCEPT ![v] = e]
    /\ UNCHANGED <<registry, box, subjects, writer, call>>

(* ... unbind, as its viewer goes; *)
Unbind(v) ==
    /\ At("tick", "idle")
    /\ avatars[v] # None
    /\ avatars' = [avatars EXCEPT ![v] = None]
    /\ UNCHANGED <<registry, box, subjects, writer, call>>

(* ... and a viewer served: its payload takes the place of the one before. *)
Serve(v) ==
    /\ At("tick", "idle")
    /\ avatars[v] # None
    /\ box' = [box EXCEPT ![v] = avatars[v]]
    /\ UNCHANGED <<registry, avatars, subjects, writer, call>>

(* presence: an edge, by the id it had when it was last an owner or asked  *)
(* for something (any id it may be), is told of an entity.                 *)
Announce(i, e) ==
    /\ At("tick", "idle")
    /\ Becomes("tick", [NoCall EXCEPT !.pc = "subject", !.avatar = e, !.edge = i])
    /\ UNCHANGED <<registry, avatars, box, subjects, writer>>

-----------------------------------------------------------------------------
(* send: the avatar is looked up; without one there is nobody to send to.  *)
Send(t, v) ==
    /\ At(t, "idle")
    /\ box[v] # None
    /\ box' = [box EXCEPT ![v] = None]
    /\ IF avatars[v] = None THEN UNCHANGED call
       ELSE Becomes(t, [NoCall EXCEPT !.pc = "route", !.of = box[v], !.avatar = avatars[v]])
    /\ UNCHANGED <<registry, avatars, subjects, writer>>

(* ... then the edge that manages it, if any does. *)
Route(t) ==
    LET e == call[t].avatar IN
    /\ At(t, "route")
    /\ IF EdgeFor(e) = UNOWNED THEN Becomes(t, NoCall)
       ELSE Becomes(t, [call[t] EXCEPT !.pc = "subject", !.edge = EdgeFor(e),
                                       !.asked = slots[EdgeFor(e)].name])
    /\ UNCHANGED <<registry, avatars, box, subjects, writer>>

-----------------------------------------------------------------------------
(* subject: the generation is read, *)
NameAt(held, i) == IF held[i] = None THEN {} ELSE {held[i].name}

Leaving == IF dropping = None THEN {} ELSE {dropping.name}

ReadGeneration(t) ==
    /\ At(t, "subject")
    /\ Becomes(t, [call[t] EXCEPT !.pc = "check", !.generation = generation,
                                  !.met = NameAt(slots, call[t].edge) \cup Leaving])
    /\ UNCHANGED <<registry, avatars, box, subjects, writer>>

Answered(t) ==
    LET to == subjects.names[call[t].edge] IN
    IF to = None THEN NoCall ELSE [call[t] EXCEPT !.pc = "publish", !.to = to]

(* ... and the table as well, if it is of that generation; *)
Hit(t) ==
    /\ At(t, "check")
    /\ writer = None
    /\ subjects.generation = call[t].generation
    /\ Becomes(t, Answered(t))
    /\ UNCHANGED <<registry, avatars, box, subjects, writer>>

Miss(t) ==
    /\ At(t, "check")
    /\ writer = None
    /\ subjects.generation # call[t].generation
    /\ Becomes(t, [call[t] EXCEPT !.pc = "refill"])
    /\ UNCHANGED <<registry, avatars, box, subjects, writer>>

(* ... else it is held and filled from a view of the registry, *)
Refill(t) ==
    /\ At(t, "refill")
    /\ writer = None
    /\ SlotsFree
    /\ writer' = t
    /\ subjects' = [subjects EXCEPT !.names = Names]
    /\ Becomes(t, [call[t] EXCEPT !.pc = "label"])
    /\ UNCHANGED <<registry, avatars, box>>

(* Mutant of Label: the generation is read when the table is full.         *)
LabelAfter(t) ==
    /\ At(t, "label")
    /\ subjects' = [subjects EXCEPT !.generation = generation]
    /\ writer' = None
    /\ Becomes(t, Answered(t))
    /\ UNCHANGED <<registry, avatars, box>>

(* ... under the generation that was read before.                          *)
Label(t) ==
    /\ At(t, "label")
    /\ subjects' = [subjects EXCEPT !.generation = call[t].generation]
    /\ writer' = None
    /\ Becomes(t, Answered(t))
    /\ UNCHANGED <<registry, avatars, box>>

Publish(t) ==
    /\ At(t, "publish")
    /\ Becomes(t, NoCall)
    /\ UNCHANGED <<registry, avatars, box, subjects, writer>>

-----------------------------------------------------------------------------
(* What the calls under way meet, as edges come and go.                    *)
Meet ==
    call' = [t \in Thread |->
                IF call[t].pc \in {"check", "refill", "label"}
                THEN [call[t] EXCEPT !.met = @ \cup NameAt(slots', call[t].edge)]
                ELSE call[t]]

(* The reader admits edges, the sweep drops them, and the tick thread      *)
(* claims and releases entities between its calls.                         *)
Registry ==
    /\ \/ \E n \in EdgeName, i \in EdgeId : Admit(n, i)
       \/ \E i \in EdgeId : GoSilent(i)
       \/ Expire
       \/ /\ At("tick", "idle")
          /\ \/ \E i \in EdgeId, e \in Entity : Claim(i, e)
             \/ \E e \in Entity : Release(e)
             \/ TakeDetached
    /\ Meet
    /\ UNCHANGED <<avatars, box, subjects, writer>>

Subject(t) ==
    ReadGeneration(t) \/ Hit(t) \/ Miss(t) \/ Refill(t) \/ Label(t) \/ Publish(t)

SinkNext ==
    \/ \E v \in ViewerId : Unbind(v) \/ Serve(v) \/ \E e \in Entity : Bind(v, e)
    \/ \E i \in EdgeId, e \in Entity : Announce(i, e)
    \/ \E t \in Sender : Route(t) \/ \E v \in ViewerId : Send(t, v)
    \/ \E t \in Thread : Subject(t)
    \/ Registry

SinkSpec == SinkInit /\ [][SinkNext]_sinkVars

-----------------------------------------------------------------------------
(* The state is well formed; in particular whoever looks for a subject     *)
(* does so with the id of an edge and not with UNOWNED.                    *)
SinkTypeOK ==
    /\ RegistryTypeOK
    /\ avatars \in [ViewerId -> Entity \cup {None}]
    /\ box \in [ViewerId -> Entity \cup {None}]
    /\ subjects \in [generation : Int, names : [EdgeId -> EdgeName \cup {None}]]
    /\ writer \in Thread \cup {None}
    /\ call \in [Thread -> CallType]

(* A table of subjects that bears the registry's generation is the         *)
(* registry's, though it is filled and labelled by threads that stop in    *)
(* between while edges are admitted and dropped: a table that is not, and  *)
(* bears it, would be taken for good for as long as no edge came or went   *)
(* (subject).  An edge in the middle of being dropped still counts.        *)
SubjectsCurrent ==
    subjects.generation = generation /\ dropping = None => subjects.names = Names

(* A call of subject never yields an edge that had left before it read the *)
(* generation: whatever is published was addressed to an edge that had the *)
(* slot, or was being dropped, at some moment of the call.                 *)
SubjectMet == \A t \in Thread : At(t, "publish") => call[t].to \in call[t].met

(* EdgeSink "publishes each viewer's payload to the edge that manages its  *)
(* avatar": to the one that did when edge_for was asked.                   *)
RoutedToManager ==
    \A t \in Sender : At(t, "publish") => call[t].to = call[t].asked

(* Reuse of a viewer id "is safe" (ViewerId): a payload that waited while  *)
(* its viewer's id was given to another avatar is not sent under that one. *)
AddressedToWhom ==
    \A t \in Sender : At(t, "publish") => call[t].of = call[t].avatar
=============================================================================
