-------------------------------- MODULE Delta --------------------------------
(***************************************************************************)
(* Delta compression of telemetry channels (compression/delta.py): an      *)
(* encoder and a decoder that each keep the last value of every channel,   *)
(* and the frames on their way from one to the other (a file or a link     *)
(* that keeps order and loses nothing).  Values and thresholds are         *)
(* integers in units of the resolution, so that there is no rounding; a    *)
(* channel that a frame does not have, or that has not been seen, is None. *)
(***************************************************************************)
EXTENDS Integers, Sequences

CONSTANTS
    Names,     \* the channels
    Values,    \* their values
    Threshold, \* per channel, the largest change that counts as none
    None,
    MaxQueue   \* bound: frames on their way

ASSUME DeltaAssumption ==
    /\ Values \subseteq Int /\ None \notin Int
    /\ Threshold \in [Names -> Nat] /\ MaxQueue \in Nat

Maps(S) == [Names -> S \cup {None}]
Empty == [n \in Names |-> None]

VARIABLES
    prev,   \* _prev of the encoder
    known,  \* _prev of the decoder
    queue,  \* the frames on their way
    last    \* history: what the last frame decoded to, and what it had been

vars == <<prev, known, queue, last>>

Init ==
    /\ prev = Empty /\ known = Empty /\ queue = <<>>
    /\ last = [result |-> Empty, original |-> Empty]

Abs(x) == IF x < 0 THEN -x ELSE x

-----------------------------------------------------------------------------
(* encode(): the frame and the encoder's values after it.  before, after   *)
(* and original are history: what the encoder had, has, and was given.     *)

Still(n, old, ch) == Abs(ch[n] - old[n]) <= Threshold[n]

After_Always(old, ch) ==  \* mutant: the tracked value follows every change
    [n \in Names |-> IF ch[n] = None THEN old[n] ELSE ch[n]]

(* The values tracked after the channels ch: only what is sent counts.     *)
After(old, ch) ==
    [n \in Names |->
        IF ch[n] = None THEN old[n]
        ELSE IF old[n] # None /\ Still(n, old, ch) THEN old[n]
        ELSE ch[n]]

(* The values of the frame: absolute, no change, or the difference.        *)
Encoded(old, ch) ==
    [n \in Names |->
        IF ch[n] = None THEN None
        ELSE IF old[n] = None THEN ch[n]
        ELSE IF Still(n, old, ch) THEN 0
        ELSE ch[n] - old[n]]

Absolute(old, ch) == {n \in Names : ch[n] # None /\ old[n] = None}

Frame(old, ch) ==
    [values |-> Encoded(old, ch), absolute |-> Absolute(old, ch),
     before |-> old, after |-> After(old, ch), original |-> ch]

Encode(ch) ==
    /\ Len(queue) < MaxQueue
    /\ queue' = Append(queue, Frame(prev, ch))
    /\ prev' = After(prev, ch)
    /\ UNCHANGED <<known, last>>

(* The encoder is reset at the start of a recording.                       *)
ResetEncoder ==
    /\ prev' = Empty
    /\ UNCHANGED <<known, queue, last>>

-----------------------------------------------------------------------------
(* decode().                                                               *)

Base(n) == IF known[n] = None THEN 0 ELSE known[n]

Decoded_NoAbsolute(f) ==  \* mutant: absolute_channels is not looked at
    [n \in Names |->
        IF f.values[n] = None THEN None ELSE Base(n) + f.values[n]]

Decoded(f) ==
    [n \in Names |->
        IF f.values[n] = None THEN None
        ELSE IF n \in f.absolute THEN f.values[n]
        ELSE Base(n) + f.values[n]]

Decode ==
    /\ queue # <<>>
    /\ LET f == Head(queue) IN
        /\ known' = [n \in Names |->
                        IF Decoded(f)[n] = None THEN known[n] ELSE Decoded(f)[n]]
        /\ last' = [result |-> Decoded(f), original |-> f.original]
    /\ queue' = Tail(queue)
    /\ UNCHANGED prev

(* The decoder is reset at the start of a playback: the next frame, on its *)
(* way or yet to be encoded, comes from an encoder that had been reset.    *)
ResetDecoder ==
    /\ IF queue = <<>> THEN prev = Empty ELSE Head(queue).before = Empty
    /\ known' = Empty
    /\ UNCHANGED <<prev, queue, last>>

-----------------------------------------------------------------------------
Next ==
    \/ \E ch \in Maps(Values) : Encode(ch)
    \/ ResetEncoder \/ Decode \/ ResetDecoder

Spec == Init /\ [][Next]_vars

-----------------------------------------------------------------------------
(* Properties.                                                             *)

FrameType ==
    [values : Maps(Int), absolute : SUBSET Names,
     before : Maps(Int), after : Maps(Int), original : Maps(Int)]

(* The variables keep their types; the decoder only ever has values that   *)
(* the encoder was given.                                                  *)
TypeOK ==
    /\ prev \in Maps(Values) /\ known \in Maps(Values)
    /\ queue \in Seq(FrameType) /\ Len(queue) <= MaxQueue
    /\ last \in [result : Maps(Values), original : Maps(Values)]

(* What a frame decodes to has the channels of the original, each within   *)
(* its threshold: errors do not add up, and resets do not hurt.            *)
Faithful ==
    \A n \in Names :
        /\ (last.result[n] = None) = (last.original[n] = None)
        /\ last.result[n] # None =>
               Abs(last.result[n] - last.original[n]) <= Threshold[n]

(* With no frame on its way the decoder has what the encoder tracks.       *)
Matches(d, e) == \A n \in Names : e[n] # None => d[n] = e[n]
InStep == queue = <<>> => Matches(known, prev)
=============================================================================
