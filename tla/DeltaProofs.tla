----------------------------- MODULE DeltaProofs -----------------------------
(***************************************************************************)
(* Proofs about Delta, for every set of channels, values and thresholds.   *)
(* The argument: what the decoder knows agrees with what the encoder       *)
(* tracked before the first frame on its way, each frame starts from where *)
(* the one before it ended (or from nothing, after a reset), and the last  *)
(* one ended where the encoder is now.                                     *)
(***************************************************************************)
EXTENDS Delta, TLAPS

(* A frame is what encode() makes of its original, from what was tracked.  *)
Genuine(f) ==
    /\ f.before \in Maps(Values) /\ f.original \in Maps(Values)
    /\ f = Frame(f.before, f.original)

(* What a frame leaves the encoder with is what the next one starts from.  *)
Link(a, b) == b = a \/ b = Empty

Chain ==
    /\ \A i \in 1..Len(queue) : Genuine(queue[i])
    /\ \A i \in 1..(Len(queue) - 1) : Link(queue[i].after, queue[i + 1].before)
    /\ queue # <<>> => Link(queue[Len(queue)].after, prev)
    /\ queue # <<>> => Matches(known, queue[1].before)

IInv == TypeOK /\ Chain /\ Faithful /\ InStep

-----------------------------------------------------------------------------
LEMMA EmptyMap == ASSUME NEW S PROVE Empty \in Maps(S)
  BY DEF Empty, Maps

(* What the encoder tracks is None or a value it was given.                *)
LEMMA AfterType ==
  ASSUME NEW old \in Maps(Values), NEW ch \in Maps(Values)
  PROVE  After(old, ch) \in Maps(Values)
  BY DEF After, Maps

(* A frame has the type of a frame.                                        *)
LEMMA FrameTyped ==
  ASSUME NEW old \in Maps(Values), NEW ch \in Maps(Values)
  PROVE  Frame(old, ch) \in FrameType
<1>1. \A n \in Names : /\ old[n] \in Int \cup {None} /\ ch[n] \in Int \cup {None}
                       /\ Threshold[n] \in Nat
  BY DeltaAssumption DEF Maps
<1>2. old \in Maps(Int) /\ ch \in Maps(Int)
  BY DeltaAssumption DEF Maps
<1>3. Encoded(old, ch) \in Maps(Int)
  BY <1>1 DEF Encoded, Maps
<1>4. After(old, ch) \in Maps(Int)
  BY <1>1 DEF After, Maps
<1>5. Absolute(old, ch) \in SUBSET Names
  BY DEF Absolute
<1> QED
  BY <1>2, <1>3, <1>4, <1>5 DEF Frame, FrameType

(* A decoder in step decodes a frame to the values the encoder tracks      *)
(* after it, for the channels the frame has.                               *)
LEMMA DecodesToAfter ==
  ASSUME NEW old \in Maps(Values), NEW ch \in Maps(Values), NEW n \in Names,
         known \in Maps(Values), Matches(known, old)
  PROVE  Decoded(Frame(old, ch))[n] =
             IF ch[n] = None THEN None ELSE After(old, ch)[n]
<1> DEFINE f == Frame(old, ch)
<1>1. /\ old[n] \in Int \cup {None} /\ ch[n] \in Int \cup {None}
      /\ known[n] \in Int \cup {None} /\ None \notin Int
  BY DeltaAssumption DEF Maps
<1>2. old[n] # None => known[n] = old[n]
  BY DEF Matches
<1>3. Decoded(f)[n] =
          IF f.values[n] = None THEN None
          ELSE IF n \in f.absolute THEN f.values[n]
          ELSE Base(n) + f.values[n]
  BY DEF Decoded
<1>4. f.values[n] = IF ch[n] = None THEN None
                    ELSE IF old[n] = None THEN ch[n]
                    ELSE IF Still(n, old, ch) THEN 0
                    ELSE ch[n] - old[n]
  BY DEF Frame, Encoded
<1>5. n \in f.absolute <=> ch[n] # None /\ old[n] = None
  BY DEF Frame, Absolute
<1>6. After(old, ch)[n] = IF ch[n] = None THEN old[n]
                          ELSE IF old[n] # None /\ Still(n, old, ch) THEN old[n]
                          ELSE ch[n]
  BY DEF After
<1>7. CASE ch[n] = None
  BY <1>3, <1>4, <1>7
<1>8. CASE ch[n] # None /\ old[n] = None
  BY <1>1, <1>3, <1>4, <1>5, <1>6, <1>8
<1>9. CASE ch[n] # None /\ old[n] # None /\ Still(n, old, ch)
  <2>1. f.values[n] = 0 /\ 0 # None /\ n \notin f.absolute
    BY <1>1, <1>4, <1>5, <1>9
  <2>2. Decoded(f)[n] = known[n] + 0
    BY <1>1, <1>2, <1>3, <1>9, <2>1 DEF Base
  <2> QED
    BY <1>1, <1>2, <1>6, <1>9, <2>2
<1>10. CASE ch[n] # None /\ old[n] # None /\ ~Still(n, old, ch)
  <2>1. f.values[n] = ch[n] - old[n] /\ f.values[n] # None /\ n \notin f.absolute
    BY <1>1, <1>4, <1>5, <1>10
  <2>2. Decoded(f)[n] = old[n] + (ch[n] - old[n])
    BY <1>1, <1>2, <1>3, <1>10, <2>1 DEF Base
  <2> QED
    BY <1>1, <1>6, <1>10, <2>2
<1> QED
  BY <1>7, <1>8, <1>9, <1>10

(* The tracked value of a channel a frame has is near the original.        *)
LEMMA AfterNear ==
  ASSUME NEW old \in Maps(Values), NEW ch \in Maps(Values), NEW n \in Names,
         ch[n] # None
  PROVE  /\ After(old, ch)[n] # None
         /\ Abs(After(old, ch)[n] - ch[n]) <= Threshold[n]
<1>1. /\ old[n] \in Int \cup {None} /\ ch[n] \in Int
      /\ None \notin Int /\ Threshold[n] \in Nat
  BY DeltaAssumption DEF Maps
<1>2. CASE old[n] # None /\ Still(n, old, ch)
  <2>1. After(old, ch)[n] = old[n]
    BY <1>2 DEF After
  <2> QED
    BY <1>1, <1>2, <2>1 DEF Still, Abs
<1>3. CASE ~(old[n] # None /\ Still(n, old, ch))
  <2>1. After(old, ch)[n] = ch[n]
    BY <1>3 DEF After
  <2> QED
    BY <1>1, <2>1 DEF Abs
<1> QED
  BY <1>2, <1>3

(* Who agrees with the end of a frame agrees with the start of the next.   *)
LEMMA MatchesLink ==
  ASSUME NEW d, NEW a, NEW b, Matches(d, a), Link(a, b)
  PROVE  Matches(d, b)
  BY DEF Matches, Link, Empty

-----------------------------------------------------------------------------
LEMMA InitIInv == Init => IInv
<1> SUFFICES ASSUME Init PROVE IInv
  OBVIOUS
<1>1. Empty \in Maps(Values)
  BY EmptyMap
<1>2. TypeOK
  BY <1>1, DeltaAssumption DEF Init, TypeOK
<1>3. Chain /\ InStep /\ Faithful
  BY DEF Init, Chain, InStep, Faithful, Matches, Empty
<1> QED
  BY <1>2, <1>3 DEF IInv

LEMMA EncodeIInv ==
  ASSUME IInv, NEW ch \in Maps(Values), Encode(ch)
  PROVE  IInv'
<1> DEFINE f == Frame(prev, ch)
<1> USE DEF IInv
<1>1. prev \in Maps(Values) /\ queue \in Seq(FrameType) /\ Len(queue) < MaxQueue
  BY DEF TypeOK, Encode
<1>2. f \in FrameType /\ After(prev, ch) \in Maps(Values)
  BY <1>1, FrameTyped, AfterType
<1>3. queue' = Append(queue, f) /\ prev' = After(prev, ch)
      /\ known' = known /\ last' = last
  BY DEF Encode
<1>4. /\ queue' \in Seq(FrameType) /\ Len(queue') = Len(queue) + 1
      /\ queue'[Len(queue) + 1] = f
      /\ \A i \in 1..Len(queue) : queue'[i] = queue[i]
  BY <1>1, <1>2, <1>3
<1>5. TypeOK'
  BY <1>1, <1>2, <1>3, <1>4, DeltaAssumption DEF TypeOK
<1>6. Genuine(f) /\ f.before = prev /\ f.after = prev'
  BY <1>1, <1>3 DEF Genuine, Frame
<1>7. \A i \in 1..Len(queue') : Genuine(queue'[i])
  <2> TAKE i \in 1..Len(queue')
  <2>1. CASE i \in 1..Len(queue)
    BY <1>4, <2>1 DEF Chain
  <2>2. CASE i = Len(queue) + 1
    BY <1>4, <1>6, <2>2
  <2> QED
    BY <1>1, <1>4, <2>1, <2>2
<1>8. \A i \in 1..(Len(queue') - 1) : Link(queue'[i].after, queue'[i + 1].before)
  <2> TAKE i \in 1..(Len(queue') - 1)
  <2>1. CASE i \in 1..(Len(queue) - 1)
    <3>1. queue'[i] = queue[i] /\ queue'[i + 1] = queue[i + 1]
      BY <1>1, <1>4, <2>1
    <3> QED
      BY <2>1, <3>1 DEF Chain
  <2>2. CASE i = Len(queue)
    <3>1. queue # <<>> /\ queue'[i] = queue[Len(queue)] /\ queue'[i + 1] = f
      BY <1>1, <1>4, <2>2
    <3> QED
      BY <1>6, <3>1 DEF Chain
  <2> QED
    BY <1>1, <1>4, <2>1, <2>2
<1>9. Link(queue'[Len(queue')].after, prev')
  BY <1>1, <1>4, <1>6 DEF Link
<1>10. Matches(known', queue'[1].before)
  <2>1. CASE queue = <<>>
    BY <1>3, <1>4, <1>6, <2>1 DEF InStep
  <2>2. CASE queue # <<>>
    BY <1>1, <1>3, <1>4, <2>2 DEF Chain
  <2> QED
    BY <2>1, <2>2
<1>11. Chain'
  BY <1>7, <1>8, <1>9, <1>10 DEF Chain
<1>12. InStep' /\ Faithful'
  <2>1. queue' # <<>>
    BY <1>1, <1>4
  <2> QED
    BY <1>3, <2>1 DEF InStep, Faithful
<1> QED
  BY <1>5, <1>11, <1>12

LEMMA DecodeIInv == ASSUME IInv, Decode PROVE IInv'
<1> DEFINE f == queue[1]
<1> USE DEF IInv
<1>1. /\ queue # <<>> /\ queue \in Seq(FrameType) /\ Len(queue) <= MaxQueue
      /\ known \in Maps(Values) /\ prev \in Maps(Values)
  BY DEF TypeOK, Decode
<1>2. /\ Head(queue) = f /\ Len(queue) \in Nat /\ 1 \in 1..Len(queue)
      /\ queue' \in Seq(FrameType) /\ Len(queue') = Len(queue) - 1
      /\ \A i \in 1..Len(queue') : queue'[i] = queue[i + 1]
  BY <1>1 DEF Decode
<1>3. Genuine(f) /\ Matches(known, f.before)
  BY <1>1, <1>2 DEF Chain
<1> DEFINE old == f.before  ch == f.original
<1>4. old \in Maps(Values) /\ ch \in Maps(Values) /\ f = Frame(old, ch)
  BY <1>3 DEF Genuine
<1>5. f.after = After(old, ch) /\ After(old, ch) \in Maps(Values)
  <2>1. f.after = After(old, ch)
    BY <1>4 DEF Frame
  <2> QED
    BY <1>4, <2>1, AfterType
<1>6. \A n \in Names :
          Decoded(f)[n] = IF ch[n] = None THEN None ELSE After(old, ch)[n]
  BY <1>1, <1>3, <1>4, DecodesToAfter
<1>7. Decoded(f) \in Maps(Values)
  <2>1. Decoded(f) = [n \in Names |-> Decoded(f)[n]]
    BY DEF Decoded
  <2> QED
    BY <1>5, <1>6, <2>1 DEF Maps
<1>8. /\ known' = [n \in Names |->
                      IF Decoded(f)[n] = None THEN known[n] ELSE Decoded(f)[n]]
      /\ last' = [result |-> Decoded(f), original |-> ch]
      /\ prev' = prev
  BY <1>2 DEF Decode
<1>9. TypeOK'
  <2>1. known' \in Maps(Values)
    BY <1>1, <1>7, <1>8 DEF Maps
  <2>2. last' \in [result : Maps(Values), original : Maps(Values)]
    BY <1>4, <1>7, <1>8
  <2> QED
    BY <1>1, <1>2, <1>8, <2>1, <2>2, DeltaAssumption DEF TypeOK
<1>10. Faithful'
  <2> SUFFICES ASSUME NEW n \in Names
               PROVE  /\ (Decoded(f)[n] = None) = (ch[n] = None)
                      /\ Decoded(f)[n] # None =>
                             Abs(Decoded(f)[n] - ch[n]) <= Threshold[n]
    BY <1>8 DEF Faithful
  <2>1. CASE ch[n] = None
    BY <1>6, <2>1
  <2>2. CASE ch[n] # None
    <3>1. /\ After(old, ch)[n] # None
          /\ Abs(After(old, ch)[n] - ch[n]) <= Threshold[n]
      BY <1>4, <2>2, AfterNear
    <3> QED
      BY <1>6, <2>2, <3>1
  <2> QED
    BY <2>1, <2>2
<1>11. Matches(known', f.after)
  <2> SUFFICES ASSUME NEW n \in Names, After(old, ch)[n] # None
               PROVE  known'[n] = After(old, ch)[n]
    BY <1>5 DEF Matches
  <2>1. CASE ch[n] = None
    <3>1. After(old, ch)[n] = old[n] /\ Decoded(f)[n] = None
      BY <1>6, <2>1 DEF After
    <3> QED
      BY <1>3, <1>8, <3>1 DEF Matches
  <2>2. CASE ch[n] # None
    BY <1>6, <1>8, <2>2
  <2> QED
    BY <2>1, <2>2
<1>12. CASE queue' = <<>>
  <2>1. Len(queue) = 1
    BY <1>2, <1>12
  <2>2. Link(f.after, prev')
    BY <1>1, <1>8, <2>1 DEF Chain
  <2>3. InStep'
    BY <1>11, <2>2, MatchesLink DEF InStep
  <2>4. Chain'
    BY <1>12 DEF Chain
  <2> QED
    BY <1>9, <1>10, <2>3, <2>4
<1>13. CASE queue' # <<>>
  <2>1. Len(queue) >= 2 /\ queue'[1] = queue[2]
        /\ queue'[Len(queue')] = queue[Len(queue)]
    BY <1>2, <1>13
  <2>2. \A i \in 1..Len(queue') : Genuine(queue'[i])
    BY <1>2 DEF Chain
  <2>3. \A i \in 1..(Len(queue') - 1) : Link(queue'[i].after, queue'[i + 1].before)
    <3> TAKE i \in 1..(Len(queue') - 1)
    <3>1. /\ queue'[i] = queue[i + 1] /\ queue'[i + 1] = queue[(i + 1) + 1]
          /\ i + 1 \in 1..(Len(queue) - 1)
      BY <1>2
    <3> QED
      BY <3>1 DEF Chain
  <2>4. Link(queue'[Len(queue')].after, prev')
    BY <1>1, <1>8, <2>1 DEF Chain
  <2>5. Matches(known', queue'[1].before)
    <3>1. Link(f.after, queue[2].before)
      BY <1>2, <2>1 DEF Chain
    <3> QED
      BY <1>11, <2>1, <3>1, MatchesLink
  <2>6. Chain'
    BY <2>2, <2>3, <2>4, <2>5 DEF Chain
  <2> QED
    BY <1>9, <1>10, <1>13, <2>6 DEF InStep
<1> QED
  BY <1>12, <1>13

LEMMA ResetEncoderIInv == ASSUME IInv, ResetEncoder PROVE IInv'
<1> USE DEF IInv
<1>1. prev' = Empty /\ known' = known /\ queue' = queue /\ last' = last
  BY DEF ResetEncoder
<1>2. TypeOK'
  BY <1>1, EmptyMap DEF TypeOK
<1>3. Chain'
  BY <1>1 DEF Chain, Link
<1>4. InStep' /\ Faithful'
  BY <1>1 DEF InStep, Matches, Empty, Faithful
<1> QED
  BY <1>2, <1>3, <1>4

LEMMA ResetDecoderIInv == ASSUME IInv, ResetDecoder PROVE IInv'
<1> USE DEF IInv
<1>1. known' = Empty /\ prev' = prev /\ queue' = queue /\ last' = last
  BY DEF ResetDecoder
<1>2. TypeOK'
  BY <1>1, EmptyMap DEF TypeOK
<1>3. queue # <<>> => queue[1].before = Empty
  BY DEF ResetDecoder
<1>4. queue = <<>> => prev = Empty
  BY DEF ResetDecoder
<1>5. Chain'
  BY <1>1, <1>3 DEF Chain, Matches, Empty
<1>6. InStep' /\ Faithful'
  BY <1>1, <1>4 DEF InStep, Matches, Empty, Faithful
<1> QED
  BY <1>2, <1>5, <1>6

LEMMA Inductive == Spec => []IInv
<1>1. ASSUME IInv, [Next]_vars PROVE IInv'
  <2>1. CASE \E ch \in Maps(Values) : Encode(ch)
    BY <1>1, <2>1, EncodeIInv
  <2>2. CASE ResetEncoder
    BY <1>1, <2>2, ResetEncoderIInv
  <2>3. CASE Decode
    BY <1>1, <2>3, DecodeIInv
  <2>4. CASE ResetDecoder
    BY <1>1, <2>4, ResetDecoderIInv
  <2>5. CASE UNCHANGED vars
    BY <1>1, <2>5 DEF vars, IInv, TypeOK, Chain, Faithful, InStep, Matches
  <2> QED
    BY <1>1, <2>1, <2>2, <2>3, <2>4, <2>5 DEF Next
<1> QED
  BY InitIInv, <1>1, PTL DEF Spec

(* Encoder, decoder and the frames between them keep their types: the      *)
(* decoder of compression/delta.py only ever has values that were encoded. *)
THEOREM DeltaTypeCorrect == Spec => []TypeOK
  BY Inductive, PTL DEF IInv

(* Whatever decode() returns is, channel by channel, within the threshold  *)
(* of what encode() was given, after any number of frames and resets.      *)
THEOREM DeltaFaithful == Spec => []Faithful
  BY Inductive, PTL DEF IInv

(* When all frames have arrived the decoder is where the encoder is.       *)
THEOREM DeltaInStep == Spec => []InStep
  BY Inductive, PTL DEF IInv
=============================================================================
