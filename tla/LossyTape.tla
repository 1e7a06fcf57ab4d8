----------------------------- MODULE LossyTape ------------------------------
(***************************************************************************)
(* What a recorder promises: frames offered while it records go onto a     *)
(* tape in the order they came; a frame may be lost at any time before the *)
(* recording is published, but none is repeated, none overtakes another,   *)
(* none is added once the recording has been stopped, and what is          *)
(* published is the whole tape.                                            *)
(***************************************************************************)
EXTENDS Naturals, Sequences, SequencesExt

CONSTANTS Frames, Empty

VARIABLES phase, tape, published

tapeVars == <<phase, tape, published>>

Init == phase = "idle" /\ tape = <<>> /\ published = Empty

Begin ==
    /\ phase = "idle" /\ phase' = "recording"
    /\ tape' = <<>> /\ published' = Empty

Offer ==
    /\ phase = "recording"
    /\ tape' # <<>> /\ Last(tape') \in Frames
    /\ \/ Front(tape') = tape
       \/ \E i \in DOMAIN tape : Front(tape') = RemoveAt(tape, i)
    /\ UNCHANGED <<phase, published>>

Lose ==
    /\ phase # "idle"
    /\ \E i \in DOMAIN tape : tape' = RemoveAt(tape, i)
    /\ UNCHANGED <<phase, published>>

End ==
    /\ phase = "recording" /\ phase' = "ending"
    /\ UNCHANGED <<tape, published>>

Publish ==
    /\ phase = "ending"
    /\ published' = tape
    /\ UNCHANGED <<phase, tape>>

Ended ==
    /\ phase = "ending" /\ phase' = "idle"
    /\ published = tape
    /\ UNCHANGED <<tape, published>>

Next == Begin \/ Offer \/ Lose \/ End \/ Publish \/ Ended

Spec == Init /\ [][Next]_tapeVars
=============================================================================
