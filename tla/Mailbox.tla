------------------------------ MODULE Mailbox ------------------------------
(***************************************************************************)
(* What the hand-off to the I/O thread promises, threads and locks left    *)
(* out: a box per viewer that holds the latest payload only, and a courier *)
(* that takes one payload at a time out of its box and brings it to the    *)
(* wrapped sink.  A box that has something in it is emptied, for as long   *)
(* as the courier is in health.                                            *)
(***************************************************************************)
EXTENDS Integers

CONSTANTS
    Viewer,         \* the viewers
    MaxFrames,      \* payloads built for one viewer
    None            \* the courier's hands are empty

Frame == 1 .. MaxFrames         \* the payloads of a viewer, numbered
Empty == 0                      \* no payload

VARIABLES
    box,            \* box[v]: the payload waiting for v
    hand,           \* what the courier has taken and not brought yet
    out,            \* out[v]: the last payload brought for v
    well            \* the courier is in health

mailVars == <<box, hand, out, well>>

Init ==
    /\ box = [v \in Viewer |-> Empty]
    /\ hand = None
    /\ out = [v \in Viewer |-> Empty]
    /\ well = TRUE

(* A payload newer than any before it supersedes what is in the box.       *)
Put(v, f) ==
    /\ f > box[v]
    /\ f > out[v]
    /\ hand # None /\ hand.viewer = v => f > hand.frame
    /\ box' = [box EXCEPT ![v] = f]
    /\ UNCHANGED <<hand, out, well>>

Take(v) ==
    /\ well
    /\ hand = None
    /\ box[v] # Empty
    /\ hand' = [viewer |-> v, frame |-> box[v]]
    /\ box' = [box EXCEPT ![v] = Empty]
    /\ UNCHANGED <<out, well>>

Bring ==
    /\ hand # None
    /\ out' = [out EXCEPT ![hand.viewer] = hand.frame]
    /\ hand' = None
    /\ UNCHANGED <<box, well>>

(* Whatever takes the courier down takes what it has in hand with it.      *)
Fail ==
    /\ well
    /\ hand # None
    /\ well' = FALSE
    /\ hand' = None
    /\ UNCHANGED <<box, out>>

Next ==
    \/ \E v \in Viewer, f \in Frame : Put(v, f)
    \/ \E v \in Viewer : Take(v)
    \/ Bring
    \/ Fail

Spec == Init /\ [][Next]_mailVars

(* No box is passed over for ever, and nothing stays in hand.              *)
FairSpec ==
    /\ Spec
    /\ \A v \in Viewer : SF_mailVars(Take(v))
    /\ WF_mailVars(Bring \/ Fail)
=============================================================================
