------------------------------- MODULE Control -------------------------------
(***************************************************************************)
(* A region's loop, its heartbeat, and its link to the edges, together:    *)
(* net/control.rs joins the loop to whoever watches.  A heartbeat that is  *)
(* published travels as bytes; one whose publish fails is let go.          *)
(***************************************************************************)
EXTENDS Clock, Link

CONSTANTS
    Setups          \* a pacing and a deployment, with bounds: how many steps
                    \* the loop takes, the edge asks and the link carries,
                    \* and which of the Calls are given

VARIABLES
    watched,        \* history: what a watcher of the control plane read
    failed,         \* history: which heartbeats were not published
    left            \* what is left of the bounds

vars == <<clockVars, linkVars, watched, failed, left>>

Init ==
    /\ ClockInit /\ LinkInit
    /\ watched = <<>> /\ failed = {}
    /\ left \in {s.bounds : s \in {t \in Setups : /\ t.pacing = pacing
                                                  /\ t.deployed = deployed}}

(* Heartbeat, there and back.                                              *)
Heartbeat(l) ==
    [region |-> 1, protocol |-> OurVersion, major |-> 0, minor |-> 1,
     patch |-> 0, hash |-> ProtocolHash(deployed.worlds[1]),
     edges |-> Cardinality(admitted[1]), entities |-> 0, id_space |-> 0] @@ l

(* beat: one wake of the timer, and what follows when it is due.           *)
Beat(published) ==
    /\ Wake
    /\ IF taken' = taken THEN published /\ UNCHANGED <<watched, failed>>
       ELSE LET beat == Heartbeat(taken'[Len(taken')])
               read == DecodeBody(BeatLayout, EncodeBody(BeatLayout, beat),
                                  <<>>)
            IN  /\ watched' = IF published THEN Append(watched, read)
                              ELSE watched
                /\ failed' = IF published THEN failed
                             ELSE failed \cup {Len(taken')}
                /\ published \/ Cardinality(failed) < MaxTrouble

Spend(what) ==
    /\ left[what] > 0
    /\ left' = [left EXCEPT ![what] = @ - 1]

Next ==
    \/ Spend("loop") /\ LoopNext /\ UNCHANGED <<linkVars, watched, failed>>
    \/ /\ Spend("loop") /\ \E published \in BOOLEAN : Beat(published)
       /\ UNCHANGED linkVars
    \/ Spend("asks") /\ AskNext /\ UNCHANGED <<clockVars, watched, failed>>
    \/ Spend("talk") /\ TalkNext(left.calls) /\ UNCHANGED <<clockVars, watched, failed>>

Spec == Init /\ [][Next]_vars

(***************************************************************************)
(* Properties.                                                             *)
(***************************************************************************)
(* The loop and the link are well formed, and each heartbeat taken was     *)
(* read by a watcher or failed.                                            *)
TypeOK ==
    /\ ClockTypeOK /\ LinkTypeOK
    /\ failed \subseteq DOMAIN taken
    /\ Len(watched) + Cardinality(failed) = Len(taken)

(* beat, of a publish that fails: "the next beat carries the span this one *)
(* would have".  So by the next one that is published, every tick that was *)
(* late has been told of.                                                  *)
NextBeatCarries ==
    \A b \in DOMAIN taken \ failed :
        MapThenSumSet(LAMBDA k : taken[k].late, (1 .. b) \ failed)
            = Cardinality({i \in 1 .. taken[b].tick_count : ticks[i].late > 0})

(* RegionLoad: "Ticks in the span", since the heartbeat before.  The spans *)
(* have no more ticks together than were run.                              *)
CountsAddUp ==
    MapThenSumSet(LAMBDA k : taken[k].tick_count, DOMAIN taken) <= Len(ticks)
=============================================================================
