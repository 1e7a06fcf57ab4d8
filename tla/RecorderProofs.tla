--------------------------- MODULE RecorderProofs ---------------------------
(***************************************************************************)
(* Proofs about the recorder, for every ring size, sample rate, reader and *)
(* failure.                                                                *)
(***************************************************************************)
EXTENDS Recorder, SeqFacts

(* The sentinel is the last thing a recording puts on its ring.            *)
SentinelLast ==
    \A i \in DOMAIN queue : queue[i] = None =>
        /\ i = Len(queue)
        /\ ~recording /\ stopPc # "putting"
        /\ writer \in {"first", "loop", "failed"}

(* How the object's flags, stop() and the writer task go together.         *)
Lifecycle ==
    /\ stopPc # "idle" => ~recording
    /\ writer = "none" => ~recording /\ stopPc = "idle"
    /\ writer \in {"first", "loop"} => recording \/ stopPc # "idle"
    /\ writer \in {"none", "first"} => written = <<>> /\ markers = <<>> /\ file = NoFile
    /\ stopPc = "putting" => writer # "done"
    /\ writer = "done" => ~recording /\ queue = <<>> /\ file.frames = written

-----------------------------------------------------------------------------
LEMMA AppendType ==
  ASSUME NEW S, NEW s \in Seq(S), NEW x \in S
  PROVE  /\ Append(s, x) \in Seq(S)
         /\ s # <<>> => Append(Tail(s), x) \in Seq(S)
OBVIOUS

LEMMA EmptyTypes ==
  /\ <<>> \in Seq(Frame) /\ <<>> \in Seq(Frame \cup {None}) /\ <<>> \in Seq(LapMarker)
  /\ NoFile \in [frames: Seq(Frame), laps: Seq(LapMarker)]
<1>1. \A S : <<>> \in Seq(S)
  OBVIOUS
<1>2. QED
  BY <1>1, Zenon DEF NoFile

(* The lap-marker helpers stay within their types.                         *)
LEMMA OpenLapType ==
  ASSUME TaskTypeOK, NEW f \in Frame PROVE OpenLap(f) \in LapMarker
BY DEF TaskTypeOK, OpenLap, LapMarker, Frame, FrameIndex

LEMMA CloseLastType ==
  ASSUME TaskTypeOK, NEW e \in Nat \cup {Open}
  PROVE  /\ CloseLast(e) \in Seq(LapMarker)
         /\ Len(CloseLast(e)) = Len(markers)
         /\ \A i \in 1 .. Len(markers) - 1 : CloseLast(e)[i] = markers[i]
         /\ markers # <<>> =>
              /\ CloseLast(e)[Len(markers)].start = markers[Len(markers)].start
              /\ CloseLast(e)[Len(markers)].end = e
<1>1. CASE markers = <<>>
  BY <1>1 DEF CloseLast
<1>2. CASE markers # <<>>
  <2> DEFINE n == Len(markers)
             m == [[markers[n] EXCEPT !.end = e] EXCEPT !.pitIn = inPits]
  <2>1. n \in 1 .. Len(markers) /\ markers[n] \in LapMarker
    BY <1>2 DEF TaskTypeOK
  <2>2. m \in LapMarker /\ m.start = markers[n].start /\ m.end = e
    BY <2>1 DEF TaskTypeOK, LapMarker
  <2>3. CloseLast(e) = [markers EXCEPT ![n] = m]
    BY <1>2, <2>1 DEF TaskTypeOK, CloseLast
  <2> HIDE DEF m
  <2>4. QED
    BY <1>2, <2>1, <2>2, <2>3 DEF TaskTypeOK
<1>3. QED
  BY <1>1, <1>2

(* Every variable keeps its type: in particular lap markers have frame     *)
(* numbers for bounds, and only frames reach the rate control.             *)
LEMMA TypeStep == ASSUME TypeOK, [Next]_vars PROVE TypeOK'
<1> USE NoneAssumption DEF TypeOK
<1>1. CASE Start
  <2>1. RingTypeOK'
    BY <1>1, EmptyTypes, Zenon DEF Start, RingTypeOK
  <2>2. TaskTypeOK'
    <3>1. markers' \in Seq(LapMarker) /\ written' \in Seq(Frame)
      BY <1>1, EmptyTypes DEF Start
    <3>2. file' \in [frames: Seq(Frame), laps: Seq(LapMarker)]
      BY <1>1, EmptyTypes DEF Start
    <3>3. QED
      BY <1>1, <3>1, <3>2 DEF Start, TaskTypeOK
  <2>3. ReaderTypeOK'
    BY <1>1 DEF Start, ReaderTypeOK, readerVars
  <2>4. QED
    BY <2>1, <2>2, <2>3
<1>2. CASE PauseOrResume
  BY <1>2 DEF PauseOrResume, RingTypeOK, TaskTypeOK, ReaderTypeOK, taskVars, readerVars
<1>3. CASE Poll
  <2>1. PICK d \in Gaps, l \in NextLaps, p \in BOOLEAN, ok \in {TRUE, ~Faulty} :
          /\ clock' = clock + d /\ lap' = l /\ sentLap' = l
          /\ OnFrame([ts |-> clock + d, lap |-> l, pit |-> p, ok |-> ok,
                      info |-> LapInfoOnChange => l # sentLap])
          /\ UNCHANGED <<recording, paused, stopPc, taskVars>>
    BY <1>3, Zenon DEF Poll
  <2>2. l \in Laps /\ clock + d \in Nat
    BY RecorderAssumption DEF NextLaps, Laps, ReaderTypeOK
  <2>3. /\ (LapInfoOnChange => l # sentLap) \in BOOLEAN
        /\ ok \in BOOLEAN
    BY RecorderAssumption, Zenon
  <2> DEFINE f == [ts |-> clock + d, lap |-> l, pit |-> p, ok |-> ok,
                   info |-> LapInfoOnChange => l # sentLap]
  <2>4. f \in Frame
    BY <2>2, <2>3, Zenon DEF Frame
  <2>5. OnFrame(f)
    BY <2>1
  <2> HIDE DEF f
  <2>6. RingTypeOK'
    <3>1. /\ queue' \in {queue, Append(queue, f), Append(Tail(queue), f)}
          /\ queue' = Append(Tail(queue), f) => queue # <<>> \/ queue' = Append(queue, f)
          /\ captured' \in {captured, Append(captured, f)}
          /\ drops' \in {drops, drops + 1}
      <4>1. CASE ~recording \/ paused
        BY <2>5, <4>1 DEF OnFrame
      <4>2. CASE ~(~recording \/ paused) /\ Len(queue) < Cap
        BY <2>5, <4>2 DEF OnFrame
      <4>3. CASE ~(~recording \/ paused) /\ ~(Len(queue) < Cap)
        BY <2>5, <4>3, RecorderAssumption DEF OnFrame, RingTypeOK
      <4>4. QED
        BY <4>1, <4>2, <4>3
    <3>2. queue' \in Seq(Frame \cup {None})
      <4>1. queue \in Seq(Frame \cup {None}) /\ f \in Frame \cup {None}
        BY <2>4 DEF RingTypeOK
      <4>2. /\ Append(queue, f) \in Seq(Frame \cup {None})
            /\ queue # <<>> => Append(Tail(queue), f) \in Seq(Frame \cup {None})
        BY <4>1, AppendType, Zenon
      <4>3. QED
        BY <3>1, <4>1, <4>2
    <3>3. captured' \in Seq(Frame)
      BY <2>4, <3>1 DEF RingTypeOK
    <3>4. QED
      BY <2>1, <3>1, <3>2, <3>3 DEF RingTypeOK, taskVars
  <2>7. QED
    BY <2>1, <2>2, <2>6 DEF TaskTypeOK, ReaderTypeOK, taskVars
<1>4. CASE Stop
  <2>1. queue' \in Seq(Frame \cup {None}) /\ stopPc' \in {"idle", "putting", "joining"}
    BY <1>4 DEF Stop, RingTypeOK
  <2>2. QED
    BY <1>4, <2>1 DEF Stop, RingTypeOK, TaskTypeOK, ReaderTypeOK, taskVars, readerVars
<1>5. CASE StopPuts
  BY <1>5 DEF StopPuts, RingTypeOK, TaskTypeOK, ReaderTypeOK, taskVars, readerVars
<1>6. CASE StopReturns
  BY <1>6 DEF StopReturns, RingTypeOK, TaskTypeOK, ReaderTypeOK, taskVars, readerVars
<1>7. CASE WriterFirst
  <2>1. RingTypeOK' /\ ReaderTypeOK'
    BY <1>7 DEF WriterFirst, RingTypeOK, ReaderTypeOK, readerVars
  <2>2. CASE Head(queue) = None \/ ~Head(queue).ok
    BY <1>7, <2>1, <2>2 DEF WriterFirst, TaskTypeOK
  <2>3. CASE ~(Head(queue) = None \/ ~Head(queue).ok)
    <3>1. Head(queue) \in Frame
      BY <1>7, <2>3 DEF WriterFirst, RingTypeOK
    <3>2. markers' \in Seq(LapMarker)
      <4>1. OpenLap(Head(queue)) \in LapMarker
        BY <3>1, OpenLapType
      <4>2. markers' \in {markers, Append(markers, OpenLap(Head(queue)))}
        BY <1>7, <2>3 DEF WriterFirst
      <4>3. markers \in Seq(LapMarker)
        BY DEF TaskTypeOK
      <4>4. Append(markers, OpenLap(Head(queue))) \in Seq(LapMarker)
        BY <4>1, <4>3, AppendType
      <4>5. QED
        BY <4>2, <4>3, <4>4
    <3>3. written' = <<Head(queue)>> /\ writer' = "loop" /\ file' = file /\ skips' = skips
      BY <1>7, <2>3 DEF WriterFirst
    <3>4. lastTs' \in Nat /\ curLap' \in Laps \cup {NoLap} /\ inPits' \in BOOLEAN
      BY <1>7, <2>3, <3>1 DEF WriterFirst, TaskTypeOK, Frame
    <3>5. written' \in Seq(Frame)
      BY <3>1, <3>3
    <3>6. QED
      BY <2>1, <3>2, <3>3, <3>4, <3>5 DEF TaskTypeOK
  <2>4. QED
    BY <2>2, <2>3
<1>8. CASE WriterNext
  <2>1. RingTypeOK' /\ ReaderTypeOK'
    BY <1>8 DEF WriterNext, RingTypeOK, ReaderTypeOK, readerVars
  <2>2. Head(queue) \in Frame
    BY <1>8 DEF WriterNext, RingTypeOK
  <2>3. CASE Head(queue).ts - lastTs < MinGap
    BY <1>8, <2>1, <2>3 DEF WriterNext, TaskTypeOK
  <2>4. CASE ~(Head(queue).ts - lastTs < MinGap)
    <3> DEFINE f == Head(queue)
    <3>1. WriterFrame(f) /\ skips' = skips /\ file' = file
      BY <1>8, <2>4 DEF WriterNext
    <3>2. markers' \in Seq(LapMarker)
      <4>1. FrameIndex - 1 \in Nat \cup {Open}
        BY DEF TaskTypeOK, FrameIndex, Open
      <4>2. CloseLast(FrameIndex - 1) \in Seq(LapMarker) /\ OpenLap(f) \in LapMarker
        BY <2>2, <4>1, CloseLastType, OpenLapType
      <4>3. QED
        BY <3>1, <4>2 DEF WriterFrame, TaskTypeOK
    <3>3. curLap' \in Laps \cup {NoLap} /\ inPits' \in BOOLEAN
      BY <2>2, <3>1 DEF WriterFrame, TaskTypeOK, Frame
    <3>4. /\ written' \in {written, Append(written, f)} /\ lastTs' \in {lastTs, f.ts}
          /\ writer' \in {writer, "failed"}
      BY <3>1 DEF WriterFrame
    <3>5. written' \in Seq(Frame) /\ lastTs' \in Nat
      <4>1. lastTs' \in Nat
        BY <2>2, <3>4 DEF TaskTypeOK, Frame
      <4>2. written \in Seq(Frame)
        BY DEF TaskTypeOK
      <4>3. QED
        BY <2>2, <3>4, <4>1, <4>2, AppendType, Zenon
    <3>6. QED
      BY <2>1, <3>1, <3>2, <3>3, <3>4, <3>5 DEF TaskTypeOK
  <2>5. QED
    BY <2>3, <2>4
<1>9. CASE WriterFinish
  <2>1. RingTypeOK' /\ ReaderTypeOK'
    BY <1>9 DEF WriterFinish, RingTypeOK, ReaderTypeOK, readerVars
  <2>2. markers' \in Seq(LapMarker)
    <3>1. (IF FrameIndex = 0 THEN 0 ELSE FrameIndex - 1) \in Nat \cup {Open}
      BY DEF TaskTypeOK, FrameIndex
    <3>2. QED
      BY <1>9, <3>1, CloseLastType DEF WriterFinish, TaskTypeOK
  <2>3. QED
    BY <1>9, <2>1, <2>2 DEF WriterFinish, TaskTypeOK
<1>10. CASE UNCHANGED vars
  BY <1>10 DEF vars, RingTypeOK, TaskTypeOK, ReaderTypeOK, taskVars, readerVars
<1>11. QED
  BY <1>1, <1>2, <1>3, <1>4, <1>5, <1>6, <1>7, <1>8, <1>9, <1>10 DEF Next

LEMMA TypeInit == Init => TypeOK
<1> SUFFICES ASSUME Init PROVE TypeOK
  OBVIOUS
<1>1. RingTypeOK
  BY EmptyTypes, Zenon DEF Init, RingTypeOK
<1>2. TaskTypeOK
  <2>1. markers \in Seq(LapMarker) /\ written \in Seq(Frame)
    BY EmptyTypes DEF Init
  <2>2. file \in [frames: Seq(Frame), laps: Seq(LapMarker)]
    BY EmptyTypes DEF Init
  <2>3. QED
    BY <2>1, <2>2 DEF Init, TaskTypeOK
<1>3. ReaderTypeOK
  BY RecorderAssumption DEF Init, ReaderTypeOK, Laps
<1>4. QED
  BY <1>1, <1>2, <1>3 DEF TypeOK

(* Every variable keeps its type, whatever the reader sends and whenever   *)
(* start, pause, stop and the writer run.                                  *)
THEOREM TypeCorrect == Spec => []TypeOK
BY TypeInit, TypeStep, PTL DEF Spec

-----------------------------------------------------------------------------
(* The sentinel stays behind every frame, since it is put only once the    *)
(* recording flag keeps the callback away from the ring.                   *)
LEMMA SentinelStep ==
  ASSUME TypeOK, SentinelLast, Lifecycle, [Next]_vars PROVE SentinelLast'
<1> USE NoneAssumption
<1> queue \in Seq(Frame \cup {None}) /\ recording \in BOOLEAN
  BY DEF TypeOK, RingTypeOK
<1>1. CASE Start
  BY <1>1 DEF Start, SentinelLast
<1>2. CASE PauseOrResume \/ UNCHANGED vars \/ StopReturns
  BY <1>2 DEF PauseOrResume, StopReturns, vars, taskVars, SentinelLast
<1>3. CASE Poll
  <2>1. PICK f : /\ OnFrame(f)
                 /\ f # None
                 /\ UNCHANGED <<recording, paused, stopPc, writer>>
    <3>1. PICK d \in Gaps, l \in NextLaps, p \in BOOLEAN, ok \in {TRUE, ~Faulty} :
            /\ OnFrame([ts |-> clock + d, lap |-> l, pit |-> p, ok |-> ok,
                        info |-> LapInfoOnChange => l # sentLap])
            /\ UNCHANGED <<recording, paused, stopPc, taskVars>>
      BY <1>3, Zenon DEF Poll
    <3> DEFINE g == [ts |-> clock + d, lap |-> l, pit |-> p, ok |-> ok,
                     info |-> LapInfoOnChange => l # sentLap]
    <3>2. g \in Frame
      <4>1. l \in Laps /\ clock + d \in Nat
        BY RecorderAssumption DEF NextLaps, Laps, ReaderTypeOK, TypeOK
      <4>2. (LapInfoOnChange => l # sentLap) \in BOOLEAN /\ ok \in BOOLEAN
        BY RecorderAssumption, Zenon
      <4>3. QED
        BY <4>1, <4>2, Zenon DEF Frame
    <3>3. g # None
      BY <3>2
    <3>4. QED
      BY <3>1, <3>3 DEF taskVars
  <2>2. CASE ~recording
    BY <2>1, <2>2 DEF OnFrame, SentinelLast
  <2>3. CASE recording
    <3>1. \A i \in DOMAIN queue : queue[i] # None
      BY <2>3 DEF SentinelLast
    <3>2. /\ queue' \in {queue, Append(queue, f), Append(Tail(queue), f)}
          /\ queue' = Append(Tail(queue), f) => queue # <<>> \/ queue' = Append(queue, f)
      <4>1. CASE paused
        BY <2>1, <4>1 DEF OnFrame
      <4>2. CASE ~paused /\ Len(queue) < Cap
        BY <2>1, <2>3, <4>2 DEF OnFrame
      <4>3. CASE ~paused /\ ~(Len(queue) < Cap)
        BY <2>1, <2>3, <4>3, RecorderAssumption DEF OnFrame
      <4>4. QED
        BY <4>1, <4>2, <4>3
    <3>3. \A i \in DOMAIN queue' : queue'[i] # None
      BY <2>1, <3>1, <3>2
    <3>4. QED
      BY <3>3 DEF SentinelLast
  <2>4. QED
    BY <2>2, <2>3
<1>4. CASE Stop
  <2>1. /\ \A i \in DOMAIN queue : queue[i] # None
        /\ writer \in {"first", "loop", "failed"}
    BY <1>4 DEF Stop, SentinelLast, Lifecycle, TypeOK, TaskTypeOK
  <2>2. CASE Len(queue) < Cap
    BY <1>4, <2>1, <2>2 DEF Stop, SentinelLast, taskVars
  <2>3. CASE ~(Len(queue) < Cap)
    BY <1>4, <2>1, <2>3 DEF Stop, SentinelLast, taskVars
  <2>4. QED
    BY <2>2, <2>3
<1>5. CASE StopPuts
  <2>1. /\ \A i \in DOMAIN queue : queue[i] # None
        /\ ~recording /\ writer \notin {"none", "done"}
    BY <1>5 DEF StopPuts, SentinelLast, Lifecycle
  <2>2. QED
    BY <1>5, <2>1 DEF StopPuts, SentinelLast, Lifecycle, TypeOK, TaskTypeOK, taskVars
<1>6. CASE WriterFirst \/ WriterNext \/ WriterFinish
  <2>1. /\ queue # <<>> /\ queue' = Tail(queue)
        /\ UNCHANGED <<recording, stopPc>>
        /\ writer \in {"first", "loop"}
    BY <1>6 DEF WriterFirst, WriterNext, WriterFinish
  <2>2. Head(queue) = None => queue' = <<>>
    BY <2>1 DEF SentinelLast
  <2>3. Head(queue) # None => writer' \in {"first", "loop", "failed"}
    BY <1>6, <2>1 DEF WriterFirst, WriterNext, WriterFinish, WriterFrame
  <2>4. CASE Head(queue) = None
    BY <2>2, <2>4 DEF SentinelLast
  <2>5. CASE Head(queue) # None
    BY <2>1, <2>3, <2>5 DEF SentinelLast
  <2>6. QED
    BY <2>4, <2>5
<1>7. QED
  BY <1>1, <1>2, <1>3, <1>4, <1>5, <1>6 DEF Next

(* stop() and the writer agree: the writer ends only by the sentinel or by *)
(* an error, so while it runs either the recording is on or a stop waits.  *)
LEMMA LifecycleStep ==
  ASSUME TypeOK, SentinelLast, Lifecycle, [Next]_vars PROVE Lifecycle'
<1> queue \in Seq(Frame \cup {None}) /\ recording \in BOOLEAN
  BY DEF TypeOK, RingTypeOK
<1>1. CASE Start
  BY <1>1 DEF Start, Lifecycle
<1>2. CASE PauseOrResume \/ UNCHANGED vars
  BY <1>2 DEF PauseOrResume, vars, taskVars, Lifecycle
<1>3. CASE StopReturns
  BY <1>3 DEF StopReturns, taskVars, Lifecycle
<1>4. CASE Poll
  <2>1. UNCHANGED <<recording, stopPc, taskVars>> /\ (~recording => queue' = queue)
    BY <1>4 DEF Poll, OnFrame
  <2>2. QED
    BY <2>1 DEF Lifecycle, taskVars
<1>5. CASE Stop
  BY <1>5 DEF Stop, Lifecycle, taskVars
<1>6. CASE StopPuts
  BY <1>6 DEF StopPuts, Lifecycle, taskVars
<1>7. CASE WriterFirst
  <2>1. CASE Head(queue) = None
    <3>1. queue' = <<>> /\ ~recording /\ stopPc # "putting"
      BY <1>7, <2>1 DEF WriterFirst, SentinelLast
    <3>2. QED
      BY <1>7, <2>1, <3>1 DEF WriterFirst, Lifecycle, NoFile
  <2>2. CASE Head(queue) # None
    BY <1>7, <2>2 DEF WriterFirst, Lifecycle
  <2>3. QED
    BY <2>1, <2>2
<1>8. CASE WriterNext
  BY <1>8 DEF WriterNext, WriterFrame, Lifecycle
<1>9. CASE WriterFinish
  <2>1. queue' = <<>> /\ ~recording /\ stopPc # "putting"
    BY <1>9 DEF WriterFinish, SentinelLast
  <2>2. QED
    BY <1>9, <2>1 DEF WriterFinish, Lifecycle
<1>10. QED
  BY <1>1, <1>2, <1>3, <1>4, <1>5, <1>6, <1>7, <1>8, <1>9 DEF Next

LEMMA InitInv == Init => TypeOK /\ SentinelLast /\ Lifecycle /\ LapsContiguous
<1> SUFFICES ASSUME Init PROVE SentinelLast /\ Lifecycle /\ LapsContiguous
  BY TypeInit
<1> QED
  BY DEF Init, SentinelLast, Lifecycle, LapsContiguous

-----------------------------------------------------------------------------
(* What LapsContiguous says while the writer is in its loop.               *)
LEMMA LapsInLoop ==
  ASSUME TypeOK, LapsContiguous, writer = "loop"
  PROVE  /\ \A i \in 1 .. Len(markers) - 1 :
              /\ markers[i].start <= markers[i].end
              /\ markers[i].end = markers[i + 1].start - 1
         /\ markers # <<>> =>
              /\ markers[Len(markers)].end = Open
              /\ markers[Len(markers)].start < FrameIndex
              /\ markers[Len(markers)].start \in Nat
<1> markers \in Seq(LapMarker)
  BY DEF TypeOK, TaskTypeOK
<1>1. \A i \in 1 .. Len(markers) - 1 : i \in DOMAIN markers /\ i < Len(markers)
  OBVIOUS
<1>2. markers # <<>> => Len(markers) \in DOMAIN markers
  OBVIOUS
<1>3. \A i \in DOMAIN markers : markers[i].start \in Nat
  <2>1. \A i \in DOMAIN markers : markers[i] \in LapMarker
    OBVIOUS
  <2>2. \A m \in LapMarker : m.start \in Nat
    BY DEF LapMarker
  <2>3. QED
    BY <2>1, <2>2
<1>4. QED
  BY <1>1, <1>2, <1>3 DEF LapsContiguous

(* A lap boundary closes the open lap just before the boundary frame and   *)
(* opens the next one at it; the end of the recording closes the last.     *)
LEMMA LapsStep ==
  ASSUME TypeOK, Lifecycle, LapsContiguous, [Next]_vars PROVE LapsContiguous'
<1> markers \in Seq(LapMarker) /\ written \in Seq(Frame)
  BY DEF TypeOK, TaskTypeOK
<1>1. CASE Start
  BY <1>1 DEF Start, LapsContiguous
<1>2. CASE PauseOrResume \/ Poll \/ Stop \/ StopPuts \/ StopReturns \/ UNCHANGED vars
  <2>1. UNCHANGED <<writer, markers, written>>
    BY <1>2 DEF PauseOrResume, Poll, Stop, StopPuts, StopReturns, vars, taskVars
  <2>2. QED
    BY <2>1 DEF LapsContiguous, FrameIndex
<1>3. CASE WriterFirst
  <2>1. writer = "first" /\ markers = <<>> /\ written = <<>>
    BY <1>3 DEF WriterFirst, Lifecycle
  <2>2. CASE Head(queue) = None
    BY <1>3, <2>1, <2>2 DEF WriterFirst, LapsContiguous
  <2>3. CASE Head(queue) # None /\ ~Head(queue).ok
    BY <1>3, <2>3 DEF WriterFirst, LapsContiguous
  <2>4. CASE Head(queue) # None /\ Head(queue).ok
    <3>1. /\ writer' = "loop" /\ written' = <<Head(queue)>>
          /\ markers' \in {<<>>, <<OpenLap(Head(queue))>>}
      BY <1>3, <2>1, <2>4 DEF WriterFirst
    <3>2. OpenLap(Head(queue)).start = 0 /\ OpenLap(Head(queue)).end = Open
      BY <2>1 DEF OpenLap, FrameIndex
    <3>3. QED
      BY <3>1, <3>2 DEF LapsContiguous, FrameIndex
  <2>5. QED
    BY <2>2, <2>3, <2>4
<1>4. CASE WriterNext
  <2> DEFINE f == Head(queue)
  <2>1. CASE f.ts - lastTs < MinGap
    BY <1>4, <2>1 DEF WriterNext, LapsContiguous, FrameIndex
  <2>2. CASE ~(f.ts - lastTs < MinGap) /\ ~f.ok
    BY <1>4, <2>2 DEF WriterNext, WriterFrame, LapsContiguous
  <2>3. CASE ~(f.ts - lastTs < MinGap) /\ f.ok
    <3>1. /\ writer = "loop" /\ writer' = "loop" /\ written' = Append(written, f)
          /\ WriterFrame(f)
      BY <1>4, <2>3 DEF WriterNext, WriterFrame
    <3>2. Len(written') = Len(written) + 1 /\ Len(written) \in Nat
      BY <3>1
    <3>3. CASE ~(f.info /\ f.lap # curLap)
      <4>1. markers' = markers
        BY <3>1, <3>3 DEF WriterFrame
      <4>2. \A i \in DOMAIN markers : i >= Len(markers) => i = Len(markers) /\ markers # <<>>
        OBVIOUS
      <4>3. markers # <<>> =>
              /\ markers[Len(markers)].end = Open
              /\ markers[Len(markers)].start < Len(written')
        BY <3>1, <3>2, LapsInLoop DEF FrameIndex
      <4>4. QED
        BY <3>1, <4>1, <4>2, <4>3 DEF LapsContiguous, FrameIndex
    <3>4. CASE f.info /\ f.lap # curLap
      <4> DEFINE closed == CloseLast(FrameIndex - 1)
      <4>1. markers' = Append(closed, OpenLap(f))
        BY <3>1, <3>4 DEF WriterFrame
      <4>2. FrameIndex - 1 \in Nat \cup {Open}
        BY DEF FrameIndex, Open
      <4>3. /\ closed \in Seq(LapMarker) /\ Len(closed) = Len(markers)
            /\ \A i \in 1 .. Len(markers) - 1 : closed[i] = markers[i]
            /\ markers # <<>> => /\ closed[Len(markers)].start = markers[Len(markers)].start
                                /\ closed[Len(markers)].end = FrameIndex - 1
        BY <4>2, CloseLastType DEF TypeOK
      <4>4. OpenLap(f).start = Len(written) /\ OpenLap(f).end = Open
        BY DEF OpenLap, FrameIndex
      <4> HIDE DEF closed
      <4>5. ASSUME NEW i \in 1 .. Len(markers)
            PROVE  /\ markers'[i].start <= markers'[i].end
                   /\ markers'[i].end = markers'[i + 1].start - 1
        <5>1. CASE i < Len(markers) - 1
          <6>1. closed[i] = markers[i] /\ closed[i + 1] = markers[i + 1]
            <7>1. i \in 1 .. Len(markers) - 1 /\ i + 1 \in 1 .. Len(markers) - 1
              BY <5>1
            <7>2. QED
              BY <4>3, <7>1
          <6>2. markers'[i] = closed[i] /\ markers'[i + 1] = closed[i + 1]
            BY <4>1, <4>3, <5>1
          <6>3. QED
            BY <3>1, <5>1, <6>1, <6>2, LapsInLoop
        <5>2. CASE i = Len(markers) - 1
          <6>1. /\ markers'[i] = markers[i]
                /\ markers'[i + 1].start = markers[i + 1].start
            BY <4>1, <4>3, <5>2
          <6>2. QED
            BY <3>1, <5>2, <6>1, LapsInLoop
        <5>3. CASE i = Len(markers)
          <6>1. /\ markers'[i].start = markers[i].start
                /\ markers'[i].end = FrameIndex - 1
                /\ markers'[i + 1].start = Len(written)
            BY <4>1, <4>3, <4>4, <5>3
          <6>2. markers[i].start < FrameIndex /\ markers[i].start \in Nat
            BY <3>1, <5>3, LapsInLoop
          <6>3. QED
            BY <3>2, <6>1, <6>2 DEF FrameIndex
        <5>4. QED
          BY <5>1, <5>2, <5>3
      <4>6. Len(markers') = Len(markers) + 1 /\ markers'[Len(markers) + 1] = OpenLap(f)
        BY <4>1, <4>3
      <4>7. DOMAIN markers' = 1 .. Len(markers) + 1
        BY <4>1, <4>3
      <4>8. \A i \in DOMAIN markers' :
              i >= Len(markers') => i = Len(markers) + 1
        BY <4>6, <4>7
      <4>9. \A i \in DOMAIN markers' : i < Len(markers') => i \in 1 .. Len(markers)
        BY <4>6, <4>7
      <4>10. QED
        BY <3>1, <3>2, <4>4, <4>5, <4>6, <4>8, <4>9 DEF LapsContiguous, FrameIndex
    <3>5. QED
      BY <3>3, <3>4
  <2>4. QED
    BY <2>1, <2>2, <2>3
<1>5. CASE WriterFinish
  <2>1. writer = "loop" /\ written' = written /\ writer' \in {"done", "failed"}
    BY <1>5 DEF WriterFinish
  <2>2. CASE markers = <<>>
    BY <1>5, <2>1, <2>2 DEF WriterFinish, LapsContiguous
  <2>3. CASE markers # <<>>
    <3> DEFINE n == Len(markers)
               e == IF FrameIndex = 0 THEN 0 ELSE FrameIndex - 1
    <3>1. n \in DOMAIN markers /\ markers[n].end = Open
          /\ markers[n].start < FrameIndex /\ markers[n].start \in Nat
      BY <2>1, <2>3, LapsInLoop
    <3>2. markers' = CloseLast(e)
      BY <1>5, <2>3, <3>1 DEF WriterFinish, Last
    <3>3. e = FrameIndex - 1 /\ e \in Nat
      BY <3>1 DEF FrameIndex
    <3> HIDE DEF e
    <3>4. /\ Len(markers') = n /\ DOMAIN markers' = 1 .. n
          /\ \A i \in 1 .. n - 1 : markers'[i] = markers[i]
          /\ markers'[n].start = markers[n].start /\ markers'[n].end = e
      BY <2>3, <3>2, <3>3, CloseLastType DEF TypeOK
    <3>5. ASSUME NEW i \in 1 .. n - 1
          PROVE  /\ markers'[i].start <= markers'[i].end
                 /\ markers'[i].end = markers'[i + 1].start - 1
      <4>1. /\ markers[i].start <= markers[i].end
            /\ markers[i].end = markers[i + 1].start - 1
        BY <2>1 DEF LapsContiguous
      <4>2. markers'[i + 1].start = markers[i + 1].start /\ markers'[i] = markers[i]
        BY <3>4
      <4>3. QED
        BY <4>1, <4>2
    <3>6. markers'[n].start <= markers'[n].end /\ markers'[n].end = FrameIndex - 1
      BY <3>1, <3>3, <3>4 DEF FrameIndex
    <3>7. QED
      BY <2>1, <3>4, <3>5, <3>6 DEF LapsContiguous, FrameIndex
  <2>4. QED
    BY <2>2, <2>3
<1>6. QED
  BY <1>1, <1>2, <1>3, <1>4, <1>5 DEF Next

(* Lap markers always cut what is written into consecutive non-empty laps, *)
(* and all of them are closed in the file.                                 *)
THEOREM LapsCorrect == Spec => []LapsContiguous
<1> DEFINE IInv == TypeOK /\ SentinelLast /\ Lifecycle /\ LapsContiguous
<1>1. IInv /\ [Next]_vars => IInv'
  BY TypeStep, SentinelStep, LifecycleStep, LapsStep
<1>2. QED
  BY InitInv, <1>1, PTL DEF Spec

(* When stop() has returned, the writer task is over; unless it failed the *)
(* ring is empty and all that was written is in the file.                  *)
THEOREM StopCorrect == Spec => []StopMeansSaved
<1> DEFINE IInv == TypeOK /\ SentinelLast /\ Lifecycle
<1>1. IInv /\ [Next]_vars => IInv'
  BY TypeStep, SentinelStep, LifecycleStep
<1>2. IInv => StopMeansSaved
  BY DEF Lifecycle, StopMeansSaved, TypeOK, TaskTypeOK
<1>3. QED
  BY InitInv, <1>1, <1>2, PTL DEF Spec

-----------------------------------------------------------------------------
(* Pit tracking.                                                           *)

(* One of the frames numbered a to b was driven in the pits.               *)
InPits(w, a, b) == \E k \in a .. b : w[k + 1].pit

(* What the loop of the writer has established of the laps it has closed,  *)
(* and its flag of the open one.                                           *)
PitsSoFar ==
    /\ \A i \in 1 .. Len(markers) - 1 :
         /\ markers[i].end < FrameIndex
         /\ markers[i].pitIn <=> InPits(written, markers[i].start, markers[i].end)
    /\ markers # <<>> =>
         (inPits <=> InPits(written, markers[Len(markers)].start, FrameIndex - 1))

PitInv ==
    /\ writer # "done" => file = NoFile
    /\ writer = "loop" => PitsSoFar
    /\ writer = "done" => PitInLapsTrue

LEMMA InPitsAppend ==
  ASSUME NEW w \in Seq(Frame), NEW f \in Frame, NEW a \in Nat
  PROVE  /\ a <= Len(w) =>
              (InPits(Append(w, f), a, Len(w)) <=> InPits(w, a, Len(w) - 1) \/ f.pit)
         /\ \A b \in Int : b < Len(w) =>
              (InPits(Append(w, f), a, b) <=> InPits(w, a, b))
<1>1. /\ Len(w) \in Nat
      /\ \A i \in 1 .. Len(w) : Append(w, f)[i] = w[i]
      /\ Append(w, f)[Len(w) + 1] = f
  BY AppendFacts
<1>2. \A k \in 0 .. Len(w) - 1 : k + 1 \in 1 .. Len(w) /\ Append(w, f)[k + 1] = w[k + 1]
  BY <1>1
<1> DEFINE v == Append(w, f)
<1> HIDE DEF v
<1>3. ASSUME a <= Len(w)
      PROVE  InPits(v, a, Len(w)) <=> InPits(w, a, Len(w) - 1) \/ f.pit
  <2>1. ASSUME NEW k \in a .. Len(w), v[k + 1].pit
        PROVE  InPits(w, a, Len(w) - 1) \/ f.pit
    <3>1. CASE k = Len(w)
      BY <1>1, <2>1, <3>1 DEF v
    <3>2. CASE k # Len(w)
      BY <1>1, <1>2, <2>1, <3>2 DEF InPits, v
    <3>3. QED
      BY <3>1, <3>2
  <2>2. ASSUME NEW k \in a .. Len(w) - 1, w[k + 1].pit
        PROVE  InPits(v, a, Len(w))
    BY <1>1, <1>2, <2>2 DEF InPits, v
  <2>3. ASSUME f.pit PROVE InPits(v, a, Len(w))
    BY <1>1, <1>3, <2>3 DEF InPits, v
  <2>4. QED
    BY <2>1, <2>2, <2>3 DEF InPits
<1>4. ASSUME NEW b \in Int, b < Len(w)
      PROVE  InPits(v, a, b) <=> InPits(w, a, b)
  <2>1. \A k \in a .. b : v[k + 1] = w[k + 1]
    BY <1>1, <1>2, <1>4 DEF v
  <2>2. QED
    BY <2>1 DEF InPits
<1>5. QED
  BY <1>3, <1>4 DEF v

(* The last lap is closed with the pit flag of the lap.                    *)
LEMMA CloseLastPit ==
  ASSUME TaskTypeOK, NEW e \in Nat \cup {Open}, markers # <<>>
  PROVE  CloseLast(e)[Len(markers)].pitIn = inPits
<1> DEFINE n == Len(markers)
           m == [[markers[n] EXCEPT !.end = e] EXCEPT !.pitIn = inPits]
<1>1. n \in 1 .. Len(markers) /\ markers[n] \in LapMarker
  BY DEF TaskTypeOK
<1>2. m.pitIn = inPits
  BY <1>1 DEF TaskTypeOK, LapMarker
<1>3. CloseLast(e) = [markers EXCEPT ![n] = m]
  BY <1>1 DEF TaskTypeOK, CloseLast
<1> HIDE DEF m
<1>4. QED
  BY <1>1, <1>2, <1>3 DEF TaskTypeOK

LEMMA PitFirst ==
  ASSUME TypeOK, Lifecycle, PitInv, WriterFirst PROVE PitInv'
<1>1. writer = "first" /\ markers = <<>> /\ written = <<>> /\ file' = NoFile
  BY DEF WriterFirst, Lifecycle
<1>2. CASE Head(queue) = None \/ ~Head(queue).ok
  <2>1. writer' \in {"done", "failed"}
    BY <1>2 DEF WriterFirst
  <2>2. PitInLapsTrue'
    BY <1>1 DEF PitInLapsTrue, NoFile
  <2>3. QED
    BY <1>1, <2>1, <2>2 DEF PitInv
<1>3. CASE Head(queue) # None /\ Head(queue).ok
  <2> DEFINE f == Head(queue)
  <2>1. f \in Frame
    BY <1>3 DEF WriterFirst, TypeOK, RingTypeOK
  <2>2. /\ writer' = "loop" /\ written' = <<f>> /\ inPits' = f.pit
        /\ markers' \in {<<>>, <<OpenLap(f)>>}
    BY <1>1, <1>3 DEF WriterFirst
  <2> HIDE DEF f
  <2>3. OpenLap(f).start = 0
    BY <1>1 DEF OpenLap, FrameIndex
  <2>4. Len(written') = 1 /\ written'[1] = f
    BY <2>2
  <2>5. InPits(written', 0, 0) <=> f.pit
    BY <2>4 DEF InPits
  <2>6. CASE markers' = <<>>
    BY <1>1, <2>2, <2>6 DEF PitInv, PitsSoFar
  <2>7. CASE markers' = <<OpenLap(f)>>
    <3>1. Len(markers') = 1 /\ markers'[1].start = 0
      BY <2>3, <2>7
    <3>2. FrameIndex' - 1 = 0
      BY <2>4 DEF FrameIndex
    <3>3. inPits' <=> InPits(written', markers'[Len(markers')].start, FrameIndex' - 1)
      BY <2>2, <2>5, <3>1, <3>2, Zenon
    <3>4. PitsSoFar'
      BY <3>1, <3>3 DEF PitsSoFar
    <3>5. QED
      BY <1>1, <2>2, <3>4 DEF PitInv
  <2>8. QED
    BY <2>2, <2>6, <2>7
<1>4. QED
  BY <1>2, <1>3

LEMMA PitNext ==
  ASSUME TypeOK, LapsContiguous, PitInv, WriterNext PROVE PitInv'
<1> DEFINE f == Head(queue)
<1>1. /\ writer = "loop" /\ file' = NoFile /\ file = NoFile /\ PitsSoFar
      /\ f \in Frame
  BY DEF WriterNext, PitInv, TypeOK, RingTypeOK
<1>2. CASE f.ts - lastTs < MinGap
  BY <1>1, <1>2 DEF WriterNext, PitInv, PitsSoFar, FrameIndex
<1>3. CASE ~(f.ts - lastTs < MinGap) /\ ~f.ok
  BY <1>1, <1>3 DEF WriterNext, WriterFrame, PitInv
<1>4. CASE ~(f.ts - lastTs < MinGap) /\ f.ok
  <2> DEFINE boundary == f.info /\ f.lap # curLap
             n == Len(markers)
  <2>1. /\ writer' = "loop" /\ written' = Append(written, f)
        /\ (inPits' <=> (inPits /\ ~boundary) \/ f.pit)
        /\ markers' = IF boundary THEN Append(CloseLast(FrameIndex - 1), OpenLap(f)) ELSE markers
    BY <1>4 DEF WriterNext, WriterFrame
  <2> HIDE DEF f, boundary
  <2>2. /\ written \in Seq(Frame) /\ markers \in Seq(LapMarker) /\ n \in Nat
        /\ FrameIndex = Len(written) /\ FrameIndex \in Nat
        /\ FrameIndex' = FrameIndex + 1
    BY <1>1, <2>1, AppendFacts DEF TypeOK, TaskTypeOK, FrameIndex
  <2>3. \A i \in 1 .. n : markers[i].start \in Nat /\ markers[i].end \in Int
    <3>1. \A m \in LapMarker : m.start \in Nat /\ m.end \in Int
      BY DEF LapMarker, Open
    <3>2. QED
      BY <2>2, <3>1
  <2>4. ASSUME NEW i \in 1 .. n - 1
        PROVE  /\ markers[i].end < FrameIndex + 1
               /\ markers[i].pitIn <=> InPits(written', markers[i].start, markers[i].end)
    <3>1. /\ markers[i].end < FrameIndex
          /\ markers[i].pitIn <=> InPits(written, markers[i].start, markers[i].end)
      BY <1>1 DEF PitsSoFar
    <3>2. /\ markers[i].start \in Nat /\ markers[i].end \in Int
          /\ markers[i].end < Len(written) /\ markers[i].end < FrameIndex + 1
      BY <2>2, <2>3, <3>1
    <3>3. InPits(written', markers[i].start, markers[i].end)
            <=> InPits(written, markers[i].start, markers[i].end)
      BY <1>1, <2>1, <2>2, <3>2, InPitsAppend, Zenon
    <3>4. QED
      BY <3>1, <3>2, <3>3
  <2>5. ASSUME markers # <<>>
        PROVE  /\ n \in 1 .. n
               /\ markers[n].start \in Nat /\ markers[n].start < FrameIndex
               /\ InPits(written', markers[n].start, FrameIndex - 1) <=> inPits
               /\ InPits(written', markers[n].start, FrameIndex) <=> inPits \/ f.pit
    <3>1. n \in 1 .. n
      BY <2>2, <2>5
    <3>2. markers[n].start \in Nat /\ markers[n].start < FrameIndex
      BY <1>1, <2>5, LapsInLoop
    <3>3. inPits <=> InPits(written, markers[n].start, FrameIndex - 1)
      BY <1>1, <2>5 DEF PitsSoFar
    <3>4. FrameIndex - 1 \in Int /\ FrameIndex - 1 < Len(written) /\ markers[n].start <= Len(written)
      BY <2>2, <3>2
    <3>5. /\ InPits(written', markers[n].start, FrameIndex - 1)
               <=> InPits(written, markers[n].start, FrameIndex - 1)
          /\ InPits(written', markers[n].start, Len(written))
               <=> InPits(written, markers[n].start, Len(written) - 1) \/ f.pit
      BY <1>1, <2>1, <2>2, <3>2, <3>4, InPitsAppend, Zenon
    <3>6. QED
      BY <2>2, <3>1, <3>2, <3>3, <3>5
  <2>6. CASE ~boundary
    <3>1. markers' = markers /\ FrameIndex' - 1 = FrameIndex
      BY <2>1, <2>2, <2>6
    <3>2. PitsSoFar'
      BY <2>1, <2>2, <2>4, <2>5, <2>6, <3>1 DEF PitsSoFar
    <3>3. QED
      BY <1>1, <2>1, <3>2 DEF PitInv
  <2>7. CASE boundary
    <3> DEFINE closed == CloseLast(FrameIndex - 1)
    <3>1. FrameIndex - 1 \in Nat \cup {Open}
      BY <2>2 DEF Open
    <3>2. /\ closed \in Seq(LapMarker) /\ Len(closed) = n
          /\ \A i \in 1 .. n - 1 : closed[i] = markers[i]
          /\ markers # <<>> =>
               /\ closed[n].start = markers[n].start /\ closed[n].end = FrameIndex - 1
               /\ closed[n].pitIn = inPits
      BY <3>1, CloseLastType, CloseLastPit DEF TypeOK
    <3>3. OpenLap(f) \in LapMarker /\ OpenLap(f).start = FrameIndex
      BY <1>1, OpenLapType DEF TypeOK, OpenLap
    <3> HIDE DEF closed
    <3>4. markers' = Append(closed, OpenLap(f))
      BY <2>1, <2>7 DEF closed
    <3>5. /\ Len(markers') = n + 1
          /\ \A i \in 1 .. n : markers'[i] = closed[i]
          /\ markers'[n + 1] = OpenLap(f)
      BY <3>2, <3>3, <3>4, AppendFacts
    <3>6. ASSUME NEW i \in 1 .. n
          PROVE  /\ markers'[i].end < FrameIndex + 1
                 /\ markers'[i].pitIn <=> InPits(written', markers'[i].start, markers'[i].end)
      <4>1. CASE i \in 1 .. n - 1
        <5>1. markers'[i] = markers[i]
          BY <3>2, <3>5, <4>1
        <5>2. QED
          BY <2>4, <4>1, <5>1, Zenon
      <4>2. CASE i = n
        <5>1. markers # <<>>
          BY <2>2, <4>2
        <5>2. /\ markers'[i].start = markers[n].start
              /\ markers'[i].end = FrameIndex - 1 /\ markers'[i].pitIn = inPits
          BY <3>2, <3>5, <4>2, <5>1
        <5>3. FrameIndex - 1 < FrameIndex + 1
          BY <2>2
        <5>4. QED
          BY <2>5, <5>1, <5>2, <5>3, Zenon
      <4>3. QED
        BY <2>2, <4>1, <4>2
    <3>7. inPits' <=> InPits(written', FrameIndex, FrameIndex)
      <4>1. written'[FrameIndex + 1] = f
        BY <1>1, <2>1, <2>2, AppendFacts
      <4>2. InPits(written', FrameIndex, FrameIndex) <=> f.pit
        BY <2>2, <4>1 DEF InPits
      <4>3. QED
        BY <2>1, <2>7, <4>2
    <3>8. FrameIndex' - 1 = FrameIndex /\ Len(markers') - 1 = n
      BY <2>2, <3>5
    <3>9. PitsSoFar'
      BY <2>2, <3>3, <3>5, <3>6, <3>7, <3>8 DEF PitsSoFar
    <3>10. QED
      BY <1>1, <2>1, <3>9 DEF PitInv
  <2>8. QED
    BY <2>6, <2>7
<1>5. QED
  BY <1>2, <1>3, <1>4

(* The sentinel closes the last lap and the file gets every lap.           *)
LEMMA PitFinish ==
  ASSUME TypeOK, LapsContiguous, PitInv, WriterFinish PROVE PitInv'
<1> DEFINE n == Len(markers)
<1>1. /\ writer = "loop" /\ file = NoFile /\ PitsSoFar /\ written' = written
      /\ \/ writer' = "done" /\ file' = [frames |-> written, laps |-> markers']
         \/ writer' = "failed" /\ file' = NoFile
  BY DEF WriterFinish, PitInv
<1>2. markers \in Seq(LapMarker) /\ n \in Nat /\ written \in Seq(Frame)
  BY DEF TypeOK, TaskTypeOK
<1>3. ASSUME NEW i \in DOMAIN markers'
      PROVE  markers'[i].pitIn <=> InPits(written, markers'[i].start, markers'[i].end)
  <2>1. CASE markers = <<>>
    BY <1>3, <2>1 DEF WriterFinish
  <2>2. CASE markers # <<>>
    <3> DEFINE e == IF FrameIndex = 0 THEN 0 ELSE FrameIndex - 1
    <3>1. n \in DOMAIN markers /\ markers[n].end = Open
          /\ markers[n].start < FrameIndex /\ markers[n].start \in Nat
      BY <1>1, <2>2, LapsInLoop
    <3>2. markers' = CloseLast(e)
      BY <2>2, <3>1 DEF WriterFinish, Last
    <3>3. e = FrameIndex - 1 /\ e \in Nat
      BY <1>2, <3>1 DEF FrameIndex
    <3> HIDE DEF e
    <3>4. /\ Len(markers') = n /\ DOMAIN markers' = 1 .. n
          /\ \A j \in 1 .. n - 1 : markers'[j] = markers[j]
          /\ markers'[n].start = markers[n].start /\ markers'[n].end = e
          /\ markers'[n].pitIn = inPits
      BY <2>2, <3>2, <3>3, CloseLastType, CloseLastPit DEF TypeOK
    <3>5. CASE i = n
      <4>1. inPits <=> InPits(written, markers[n].start, FrameIndex - 1)
        BY <1>1, <2>2 DEF PitsSoFar
      <4>2. QED
        BY <3>3, <3>4, <3>5, <4>1
    <3>6. CASE i \in 1 .. n - 1
      <4>1. markers[i].pitIn <=> InPits(written, markers[i].start, markers[i].end)
        BY <1>1, <3>6 DEF PitsSoFar
      <4>2. QED
        BY <3>4, <3>6, <4>1
    <3>7. QED
      BY <1>2, <1>3, <3>4, <3>5, <3>6
  <2>3. QED
    BY <2>1, <2>2
<1>4. CASE writer' = "done" /\ file' = [frames |-> written, laps |-> markers']
  <2>1. file'.frames = written /\ file'.laps = markers'
    BY <1>4
  <2>2. PitInLapsTrue'
    BY <1>3, <2>1 DEF PitInLapsTrue, InPits
  <2>3. QED
    BY <1>4, <2>2 DEF PitInv
<1>5. QED
  BY <1>1, <1>4 DEF PitInv

LEMMA PitStep ==
  ASSUME TypeOK, Lifecycle, LapsContiguous, PitInv, [Next]_vars PROVE PitInv'
<1>1. CASE Start
  BY <1>1 DEF Start, PitInv
<1>2. CASE PauseOrResume \/ Poll \/ Stop \/ StopPuts \/ StopReturns \/ UNCHANGED vars
  <2>1. UNCHANGED <<writer, markers, written, inPits, file>>
    BY <1>2 DEF PauseOrResume, Poll, Stop, StopPuts, StopReturns, vars, taskVars
  <2>2. QED
    BY <2>1 DEF PitInv, PitsSoFar, PitInLapsTrue, FrameIndex
<1>3. QED
  BY <1>1, <1>2, PitFirst, PitNext, PitFinish DEF Next

(* In the file a lap is marked as a pit lap exactly when one of its frames *)
(* was driven in the pits: the writer's flag is reset at every boundary.   *)
THEOREM PitCorrect == Spec => []PitInLapsTrue
<1> DEFINE IInv == TypeOK /\ SentinelLast /\ Lifecycle /\ LapsContiguous /\ PitInv
<1>1. Init => IInv
  <2>1. Init => PitInv
    BY DEF Init, PitInv
  <2>2. QED
    BY <2>1, InitInv
<1>2. IInv /\ [Next]_vars => IInv'
  BY TypeStep, SentinelStep, LifecycleStep, LapsStep, PitStep
<1>3. IInv => PitInLapsTrue
  BY DEF PitInv, PitInLapsTrue, NoFile
<1>4. QED
  BY <1>1, <1>2, <1>3, PTL DEF Spec

-----------------------------------------------------------------------------
(* The past of a recording.                                                *)

(* What a step within a recording keeps.                                   *)
PastKept ==
    /\ IsPrefix(written, written')
    /\ \A i \in DOMAIN markers :
         markers[i].end # Open => i \in DOMAIN markers' /\ markers'[i] = markers[i]

LEMMA PastStep ==
  ASSUME TypeOK, Lifecycle, LapsContiguous, [Next]_vars
  PROVE  (writer' = "first" /\ recording' # recording) \/ PastKept
<1> DEFINE n == Len(markers)
<1>1. /\ written \in Seq(Frame) /\ markers \in Seq(LapMarker) /\ n \in Nat
      /\ FrameIndex \in Nat /\ queue \in Seq(Frame \cup {None})
  BY DEF TypeOK, TaskTypeOK, RingTypeOK, FrameIndex
<1>2. CASE Start
  BY <1>2 DEF Start
<1>3. CASE PauseOrResume \/ Poll \/ Stop \/ StopPuts \/ StopReturns \/ UNCHANGED vars
  <2>1. UNCHANGED <<markers, written>>
    BY <1>3 DEF PauseOrResume, Poll, Stop, StopPuts, StopReturns, vars, taskVars
  <2>2. QED
    BY <1>1, <2>1, PrefixFacts DEF PastKept
<1>4. CASE WriterFirst
  <2>1. markers = <<>> /\ written = <<>>
    BY <1>4 DEF WriterFirst, Lifecycle
  <2>2. written' \in Seq(Frame) /\ Len(written') \in Nat
    BY TypeStep DEF TypeOK, TaskTypeOK
  <2>3. IsPrefix(<<>>, written')
    <3>1. Len(<<>>) = 0
      OBVIOUS
    <3>2. SubSeq(<<>>, 1, 0) = SubSeq(written', 1, 0)
      BY <2>2
    <3>3. QED
      BY <2>2, <3>1, <3>2 DEF IsPrefix
  <2>4. QED
    BY <2>1, <2>3 DEF PastKept
<1>5. CASE WriterNext \/ WriterFinish
  <2>1. writer = "loop"
    BY <1>5 DEF WriterNext, WriterFinish
  <2>2. IsPrefix(written, written')
    <3>1. written' = written \/ (Head(queue) \in Frame /\ written' = Append(written, Head(queue)))
      BY <1>1, <1>5 DEF WriterNext, WriterFrame, WriterFinish
    <3>2. QED
      BY <1>1, <3>1, PrefixFacts
  <2>3. ASSUME NEW i \in DOMAIN markers, markers[i].end # Open
        PROVE  i \in DOMAIN markers' /\ markers'[i] = markers[i]
    <3>1. markers # <<>> /\ i \in 1 .. n - 1
      BY <1>1, <2>1, <2>3, LapsInLoop
    <3>2. CASE markers' = markers
      BY <2>3, <3>2
    <3>3. CASE \E e \in Nat \cup {Open} : markers' = CloseLast(e)
      <4>1. PICK e \in Nat \cup {Open} : markers' = CloseLast(e)
        BY <3>3
      <4>2. /\ CloseLast(e) \in Seq(LapMarker) /\ Len(CloseLast(e)) = n
            /\ \A j \in 1 .. n - 1 : CloseLast(e)[j] = markers[j]
        BY CloseLastType DEF TypeOK
      <4>3. QED
        BY <1>1, <3>1, <4>1, <4>2
    <3>4. CASE /\ WriterNext /\ Head(queue) # None
               /\ markers' = Append(CloseLast(FrameIndex - 1), OpenLap(Head(queue)))
      <4> DEFINE closed == CloseLast(FrameIndex - 1)
                 opened == OpenLap(Head(queue))
      <4>1. FrameIndex - 1 \in Nat \cup {Open} /\ Head(queue) \in Frame
        BY <1>1, <3>4 DEF WriterNext, Open
      <4>2. /\ closed \in Seq(LapMarker) /\ Len(closed) = n
            /\ \A j \in 1 .. n - 1 : closed[j] = markers[j]
        BY <4>1, CloseLastType DEF TypeOK
      <4>3. opened \in LapMarker
        BY <4>1, OpenLapType DEF TypeOK
      <4>4. markers' = Append(closed, opened)
        BY <3>4
      <4> HIDE DEF closed, opened
      <4>5. /\ markers' \in Seq(LapMarker) /\ Len(markers') = n + 1
            /\ \A j \in 1 .. n : markers'[j] = closed[j]
        <5>1. /\ Append(closed, opened) \in Seq(LapMarker)
              /\ Len(Append(closed, opened)) = Len(closed) + 1
              /\ \A j \in 1 .. Len(closed) : Append(closed, opened)[j] = closed[j]
          <6>1. closed \in Seq(LapMarker)
            BY <4>2
          <6>2. QED
            BY <4>3, <6>1, AppendFacts
        <5>2. QED
          BY <4>2, <4>4, <5>1, Zenon
      <4>6. i \in 1 .. n /\ i \in 1 .. n + 1
        BY <1>1, <3>1
      <4>7. DOMAIN markers' = 1 .. n + 1
        BY <4>5
      <4>8. QED
        BY <3>1, <4>2, <4>5, <4>6, <4>7, Zenon
    <3>5. \/ markers' = markers
          \/ \E e \in Nat \cup {Open} : markers' = CloseLast(e)
          \/ /\ WriterNext /\ Head(queue) # None
             /\ markers' = Append(CloseLast(FrameIndex - 1), OpenLap(Head(queue)))
      <4>1. CASE WriterNext
        BY <4>1 DEF WriterNext, WriterFrame
      <4>2. CASE WriterFinish
        <5>1. (IF FrameIndex = 0 THEN 0 ELSE FrameIndex - 1) \in Nat \cup {Open}
          BY <1>1
        <5>2. QED
          BY <4>2, <5>1, Zenon DEF WriterFinish
      <4>3. QED
        BY <1>5, <4>1, <4>2
    <3>6. QED
      BY <3>2, <3>3, <3>4, <3>5
  <2>4. QED
    BY <2>2, <2>3 DEF PastKept
<1>6. QED
  BY <1>2, <1>3, <1>4, <1>5 DEF Next

(* While a recording runs the markers of finished laps never change, and   *)
(* what was written stays written: the writer only touches its last lap.   *)
THEOREM PastCorrect == Spec => PastIsFixed
<1> DEFINE IInv == TypeOK /\ SentinelLast /\ Lifecycle /\ LapsContiguous
<1>1. IInv /\ [Next]_vars => IInv'
  BY TypeStep, SentinelStep, LifecycleStep, LapsStep
<1>2. IInv /\ [Next]_vars =>
        [ (writer' = "first" /\ recording' # recording)
          \/ /\ IsPrefix(written, written')
             /\ \A i \in DOMAIN markers :
                  markers[i].end # Open => i \in DOMAIN markers' /\ markers'[i] = markers[i] ]_vars
  BY PastStep DEF PastKept
<1>3. QED
  BY InitInv, <1>1, <1>2, PTL DEF Spec, PastIsFixed

-----------------------------------------------------------------------------
(* Laps out of the file, when every frame names its lap (DemoReader) and   *)
(* the game does not start again.                                          *)

(* The last frame of a lap, of those in w.                                 *)
Reach(w, m) == IF m.end = Open THEN Len(w) - 1 ELSE m.end

(* The markers ms slice w into its laps: every frame's lap has a marker,   *)
(* a marker bounds exactly the frames of its lap, and no lap has two.      *)
Sliced(w, ms) ==
    /\ \A k \in 1 .. Len(w) : \E i \in 1 .. Len(ms) : ms[i].lap = w[k].lap
    /\ \A i \in 1 .. Len(ms) :
         /\ ms[i].start <= Reach(w, ms[i]) /\ Reach(w, ms[i]) < Len(w)
         /\ \A k \in 1 .. Len(w) :
              w[k].lap = ms[i].lap <=> ms[i].start < k /\ k <= Reach(w, ms[i]) + 1
    /\ \A i, j \in 1 .. Len(ms) : i < j => ms[i].lap < ms[j].lap

(* The frames of q name laps between low and high that never go down.      *)
Rising(q, low, high) ==
    \A i \in DOMAIN q : q[i] # None =>
        /\ q[i].info /\ low <= q[i].lap /\ q[i].lap <= high
        /\ \A j \in 1 .. i - 1 : q[j] # None => q[j].lap <= q[i].lap

(* Laps only go up on their way from the car through the ring.             *)
LapsGrow == curLap <= lap /\ Rising(queue, curLap, lap)

SliceInv ==
    /\ Sliced(file.frames, file.laps)
    /\ writer = "loop" =>
         /\ markers # <<>> /\ markers[Len(markers)].lap = curLap
         /\ Sliced(written, markers)

LEMMA SliceTypes ==
  /\ \A f \in Frame : f.lap \in Nat
  /\ \A m \in LapMarker : m.lap \in Nat /\ m.start \in Nat /\ m.end \in Int
BY RecorderAssumption DEF Frame, LapMarker, Laps, Open

(* From a sliced file extract_lap_frames returns the laps.                 *)
LEMMA SlicedExtracts ==
  ASSUME NEW w \in Seq(Frame), NEW ms \in Seq(LapMarker), Sliced(w, ms),
         NEW g, g.frames = w, g.laps = ms, NEW l \in Laps
  PROVE  ExtractLapFrames(g, l) = Keep(w, {x \in ToSet(w) : x.lap = l})
<1> DEFINE M == {m \in ToSet(ms) : m.lap = l}
           F == {x \in ToSet(w) : x.lap = l}
<1>1. \A i \in 1 .. Len(ms) : ms[i] \in M <=> ms[i].lap = l
  BY DEF ToSet
<1>2. \A k \in 1 .. Len(w) : w[k] \in F <=> w[k].lap = l
  BY DEF ToSet
<1>3. ExtractLapFrames(g, l) = IF Keep(ms, M) = <<>> THEN <<>> ELSE Slice(w, Keep(ms, M)[1])
  BY DEF ExtractLapFrames
<1> HIDE DEF M, F
<1>4. CASE \E i \in 1 .. Len(ms) : ms[i].lap = l
  <2>1. PICK i \in 1 .. Len(ms) : ms[i].lap = l
    BY <1>4
  <2>2. \A j \in 1 .. Len(ms) : ms[j] \in M <=> i <= j /\ j <= i
    <3>1. \A j \in 1 .. Len(ms) : ms[j] \in LapMarker
      OBVIOUS
    <3>2. \A j \in 1 .. Len(ms) : ms[j].lap = l <=> j = i
      BY <2>1, <3>1, SliceTypes DEF Sliced
    <3>3. QED
      BY <1>1, <3>2
  <2>3. Keep(ms, M) = SubSeq(ms, i, i)
    <3>1. i \in 1 .. Len(ms) + 1 /\ i \in i - 1 .. Len(ms)
      OBVIOUS
    <3>2. QED
      BY <2>2, <3>1, KeepStretch
  <2>4. /\ SubSeq(ms, i, i) \in Seq(LapMarker)
        /\ Len(SubSeq(ms, i, i)) = 1 /\ SubSeq(ms, i, i)[1] = ms[i]
    OBVIOUS
  <2>5. Keep(ms, M) # <<>> /\ Keep(ms, M)[1] = ms[i]
    BY <2>3, <2>4
  <2> DEFINE a == ms[i].start + 1
             b == Reach(w, ms[i]) + 1
  <2>6. /\ ms[i].start \in Nat /\ ms[i].end \in Int
        /\ ms[i].start <= Reach(w, ms[i]) /\ Reach(w, ms[i]) < Len(w)
        /\ Reach(w, ms[i]) \in Int
    <3>1. ms[i] \in LapMarker /\ Len(w) \in Nat
      OBVIOUS
    <3>2. QED
      BY <3>1, SliceTypes DEF Sliced, Reach
  <2>7. a \in 1 .. Len(w) + 1 /\ b \in a - 1 .. Len(w)
    BY <2>6
  <2>8. \A k \in 1 .. Len(w) : w[k] \in F <=> a <= k /\ k <= b
    <3>1. \A k \in 1 .. Len(w) : w[k].lap = l <=> ms[i].start < k /\ k <= Reach(w, ms[i]) + 1
      BY <2>1 DEF Sliced
    <3>2. \A k \in 1 .. Len(w) : ms[i].start < k <=> a <= k
      BY <2>6
    <3>3. QED
      BY <1>2, <3>1, <3>2
  <2>9. Slice(w, ms[i]) = SubSeq(w, a, b)
    <3>1. (IF ms[i].end = Open THEN Len(w) ELSE ms[i].end + 1) = b
      BY <2>6 DEF Reach
    <3>2. QED
      BY <3>1 DEF Slice
  <2> HIDE DEF a, b
  <2>10. Keep(w, F) = SubSeq(w, a, b)
    BY <2>7, <2>8, KeepStretch
  <2>11. QED
    BY <1>3, <2>5, <2>9, <2>10, Zenon DEF F
<1>5. CASE ~ \E i \in 1 .. Len(ms) : ms[i].lap = l
  <2>1. \A i \in 1 .. Len(ms) : ms[i] \in M <=> 1 <= i /\ i <= 0
    BY <1>1, <1>5
  <2>2. \A k \in 1 .. Len(w) : w[k] \in F <=> 1 <= k /\ k <= 0
    <3>1. \A k \in 1 .. Len(w) : w[k].lap # l
      BY <1>5 DEF Sliced
    <3>2. QED
      BY <1>2, <3>1
  <2>3. /\ 1 \in 1 .. Len(ms) + 1 /\ 0 \in 1 - 1 .. Len(ms)
        /\ 1 \in 1 .. Len(w) + 1 /\ 0 \in 1 - 1 .. Len(w)
    OBVIOUS
  <2>4. Keep(ms, M) = SubSeq(ms, 1, 0)
    BY <2>1, <2>3, KeepStretch
  <2>5. Keep(w, F) = SubSeq(w, 1, 0)
    BY <2>2, <2>3, KeepStretch
  <2>6. SubSeq(ms, 1, 0) = <<>> /\ SubSeq(w, 1, 0) = <<>>
    BY SubSeqEmpty
  <2>7. QED
    BY <1>3, <2>4, <2>5, <2>6, Zenon DEF F
<1>6. QED
  BY <1>4, <1>5

(* A frame of the open lap.                                                *)
LEMMA SliceGrows ==
  ASSUME NEW w \in Seq(Frame), NEW ms \in Seq(LapMarker), NEW f \in Frame,
         Sliced(w, ms), ms # <<>>,
         ms[Len(ms)].end = Open, ms[Len(ms)].lap = f.lap,
         \A i \in 1 .. Len(ms) - 1 : ms[i].end # Open
  PROVE  Sliced(Append(w, f), ms)
<1> DEFINE v == Append(w, f)
           n == Len(ms)
<1>1. /\ v \in Seq(Frame) /\ Len(v) = Len(w) + 1 /\ Len(w) \in Nat
      /\ \A k \in 1 .. Len(w) : v[k] = w[k]
      /\ v[Len(w) + 1] = f
  BY AppendFacts
<1>2. /\ n \in 1 .. n /\ n \in Nat
      /\ \A i \in 1 .. n : ms[i].lap \in Nat /\ ms[i].start \in Nat /\ ms[i].end \in Int
      /\ f.lap \in Nat /\ \A k \in 1 .. Len(w) : w[k].lap \in Nat
  <2>1. n \in 1 .. n /\ n \in Nat
    BY TailFacts
  <2>2. \A i \in 1 .. n : ms[i] \in LapMarker
    OBVIOUS
  <2>3. \A k \in 1 .. Len(w) : w[k] \in Frame
    OBVIOUS
  <2>4. QED
    BY <2>1, <2>2, <2>3, SliceTypes
<1> HIDE DEF v
<1>3. \A k \in 1 .. Len(v) : k \in 1 .. Len(w) \/ k = Len(w) + 1
  BY <1>1
<1>4. ASSUME NEW k \in 1 .. Len(v) PROVE \E i \in 1 .. n : ms[i].lap = v[k].lap
  <2>1. CASE k \in 1 .. Len(w)
    <3>1. \E i \in 1 .. n : ms[i].lap = w[k].lap
      BY <2>1 DEF Sliced
    <3>2. QED
      BY <1>1, <2>1, <3>1
  <2>2. CASE k = Len(w) + 1
    BY <1>1, <1>2, <2>2
  <2>3. QED
    BY <1>3, <2>1, <2>2
<1>5. ASSUME NEW i \in 1 .. n
      PROVE  /\ ms[i].start <= Reach(v, ms[i]) /\ Reach(v, ms[i]) < Len(v)
             /\ \A k \in 1 .. Len(v) :
                  v[k].lap = ms[i].lap <=> ms[i].start < k /\ k <= Reach(v, ms[i]) + 1
  <2>1. /\ ms[i].start <= Reach(w, ms[i]) /\ Reach(w, ms[i]) < Len(w)
        /\ Reach(w, ms[i]) \in Int
        /\ \A k \in 1 .. Len(w) :
             v[k].lap = ms[i].lap <=> ms[i].start < k /\ k <= Reach(w, ms[i]) + 1
    <3>1. Reach(w, ms[i]) \in Int
      BY <1>1, <1>2 DEF Reach
    <3>2. /\ ms[i].start <= Reach(w, ms[i]) /\ Reach(w, ms[i]) < Len(w)
          /\ \A k \in 1 .. Len(w) :
               w[k].lap = ms[i].lap <=> ms[i].start < k /\ k <= Reach(w, ms[i]) + 1
      BY DEF Sliced
    <3>3. QED
      BY <1>1, <3>1, <3>2
  <2>2. CASE i = n
    <3>1. Reach(v, ms[i]) = Len(w) /\ Reach(w, ms[i]) = Len(w) - 1
      BY <1>1, <2>2 DEF Reach
    <3>2. ASSUME NEW k \in 1 .. Len(v)
          PROVE  v[k].lap = ms[i].lap <=> ms[i].start < k /\ k <= Reach(v, ms[i]) + 1
      <4>1. CASE k \in 1 .. Len(w)
        BY <1>1, <2>1, <3>1, <4>1
      <4>2. CASE k = Len(w) + 1
        BY <1>1, <1>2, <2>1, <2>2, <3>1, <4>2
      <4>3. QED
        BY <1>3, <4>1, <4>2
    <3>3. QED
      BY <1>1, <1>2, <2>1, <3>1, <3>2
  <2>3. CASE i # n
    <3>1. i \in 1 .. n - 1 /\ Reach(v, ms[i]) = Reach(w, ms[i])
      BY <1>2, <2>3 DEF Reach
    <3>2. ms[i].lap < ms[n].lap
      BY <1>2, <3>1 DEF Sliced
    <3>3. v[Len(w) + 1].lap # ms[i].lap
      BY <1>1, <1>2, <3>2
    <3>4. ASSUME NEW k \in 1 .. Len(v)
          PROVE  v[k].lap = ms[i].lap <=> ms[i].start < k /\ k <= Reach(v, ms[i]) + 1
      <4>1. CASE k \in 1 .. Len(w)
        BY <2>1, <3>1, <4>1
      <4>2. CASE k = Len(w) + 1
        BY <1>1, <2>1, <3>1, <3>3, <4>2
      <4>3. QED
        BY <1>3, <4>1, <4>2
    <3>5. QED
      BY <1>1, <2>1, <3>1, <3>4
  <2>4. QED
    BY <2>2, <2>3
<1>6. QED
  BY <1>4, <1>5 DEF Sliced, v

(* The first frame of a lap.                                               *)
LEMMA SliceOpens ==
  ASSUME NEW w \in Seq(Frame), NEW ms \in Seq(LapMarker), NEW f \in Frame,
         NEW m \in LapMarker, m.lap = f.lap, m.start = Len(w), m.end = Open,
         Sliced(w, ms),
         \A i \in 1 .. Len(ms) : ms[i].end # Open /\ ms[i].lap < f.lap
  PROVE  Sliced(Append(w, f), Append(ms, m))
<1> DEFINE v == Append(w, f)
           os == Append(ms, m)
           n == Len(ms)
<1>1. /\ v \in Seq(Frame) /\ Len(v) = Len(w) + 1 /\ Len(w) \in Nat
      /\ \A k \in 1 .. Len(w) : v[k] = w[k]
      /\ v[Len(w) + 1] = f
  BY AppendFacts
<1>2. /\ os \in Seq(LapMarker) /\ Len(os) = n + 1 /\ n \in Nat
      /\ \A i \in 1 .. n : os[i] = ms[i]
      /\ os[n + 1] = m
  BY AppendFacts
<1>3. /\ \A i \in 1 .. n : ms[i].lap \in Nat /\ ms[i].start \in Nat /\ ms[i].end \in Int
      /\ f.lap \in Nat /\ \A k \in 1 .. Len(w) : w[k].lap \in Nat
  <2>1. \A i \in 1 .. n : ms[i] \in LapMarker
    OBVIOUS
  <2>2. \A k \in 1 .. Len(w) : w[k] \in Frame
    OBVIOUS
  <2>3. QED
    BY <2>1, <2>2, SliceTypes
<1> HIDE DEF v, os
<1>4. /\ \A k \in 1 .. Len(v) : k \in 1 .. Len(w) \/ k = Len(w) + 1
      /\ \A i \in 1 .. Len(os) : i \in 1 .. n \/ i = n + 1
      /\ n + 1 \in 1 .. Len(os) /\ \A i \in 1 .. n : i \in 1 .. Len(os)
  BY <1>1, <1>2
<1>5. \A k \in 1 .. Len(w) : w[k].lap < f.lap
  BY DEF Sliced
<1>6. ASSUME NEW k \in 1 .. Len(v) PROVE \E i \in 1 .. Len(os) : os[i].lap = v[k].lap
  <2>1. CASE k \in 1 .. Len(w)
    <3>1. PICK i \in 1 .. n : ms[i].lap = w[k].lap
      BY <2>1 DEF Sliced
    <3>2. QED
      BY <1>1, <1>2, <1>4, <2>1, <3>1
  <2>2. CASE k = Len(w) + 1
    BY <1>1, <1>2, <1>4, <2>2
  <2>3. QED
    BY <1>4, <2>1, <2>2
<1>7. ASSUME NEW i \in 1 .. Len(os)
      PROVE  /\ os[i].start <= Reach(v, os[i]) /\ Reach(v, os[i]) < Len(v)
             /\ \A k \in 1 .. Len(v) :
                  v[k].lap = os[i].lap <=> os[i].start < k /\ k <= Reach(v, os[i]) + 1
  <2>1. CASE i \in 1 .. n
    <3>1. /\ ms[i].start <= Reach(w, ms[i]) /\ Reach(w, ms[i]) < Len(w)
          /\ Reach(w, ms[i]) \in Int
          /\ \A k \in 1 .. Len(w) :
               v[k].lap = ms[i].lap <=> ms[i].start < k /\ k <= Reach(w, ms[i]) + 1
      <4>1. Reach(w, ms[i]) \in Int
        BY <1>1, <1>3, <2>1 DEF Reach
      <4>2. /\ ms[i].start <= Reach(w, ms[i]) /\ Reach(w, ms[i]) < Len(w)
            /\ \A k \in 1 .. Len(w) :
                 w[k].lap = ms[i].lap <=> ms[i].start < k /\ k <= Reach(w, ms[i]) + 1
        BY <2>1 DEF Sliced
      <4>3. QED
        BY <1>1, <4>1, <4>2
    <3>2. os[i] = ms[i] /\ Reach(v, os[i]) = Reach(w, ms[i])
      BY <1>2, <2>1 DEF Reach
    <3>3. v[Len(w) + 1].lap # ms[i].lap
      BY <1>1, <1>3, <2>1
    <3>4. ASSUME NEW k \in 1 .. Len(v)
          PROVE  v[k].lap = ms[i].lap <=> ms[i].start < k /\ k <= Reach(w, ms[i]) + 1
      <4>1. CASE k \in 1 .. Len(w)
        BY <3>1, <4>1
      <4>2. CASE k = Len(w) + 1
        BY <1>1, <3>1, <3>3, <4>2
      <4>3. QED
        BY <1>4, <4>1, <4>2
    <3>5. QED
      BY <1>1, <3>1, <3>2, <3>4
  <2>2. CASE i = n + 1
    <3>1. os[i] = m /\ Reach(v, os[i]) = Len(w)
      BY <1>1, <1>2, <2>2 DEF Reach
    <3>2. ASSUME NEW k \in 1 .. Len(v)
          PROVE  v[k].lap = m.lap <=> m.start < k /\ k <= Len(w) + 1
      <4>1. CASE k \in 1 .. Len(w)
        BY <1>1, <1>3, <1>5, <4>1
      <4>2. CASE k = Len(w) + 1
        BY <1>1, <4>2
      <4>3. QED
        BY <1>4, <4>1, <4>2
    <3>3. QED
      BY <1>1, <3>1, <3>2
  <2>3. QED
    BY <1>4, <2>1, <2>2
<1>8. ASSUME NEW i \in 1 .. Len(os), NEW j \in 1 .. Len(os), i < j
      PROVE  os[i].lap < os[j].lap
  <2>1. i \in 1 .. n
    BY <1>2, <1>8
  <2>2. CASE j \in 1 .. n
    BY <1>2, <1>8, <2>1, <2>2 DEF Sliced
  <2>3. CASE j = n + 1
    BY <1>2, <2>1, <2>3
  <2>4. QED
    BY <1>4, <2>2, <2>3
<1>9. QED
  BY <1>6, <1>7, <1>8 DEF Sliced, v, os

(* Closing a lap where it has come to changes no slice.                    *)
LEMMA SliceCloses ==
  ASSUME NEW w, NEW ms, NEW cs, Sliced(w, ms), Len(cs) = Len(ms),
         \A i \in 1 .. Len(ms) :
            cs[i].lap = ms[i].lap /\ cs[i].start = ms[i].start /\ Reach(w, cs[i]) = Reach(w, ms[i])
  PROVE  Sliced(w, cs)
BY DEF Sliced

-----------------------------------------------------------------------------
LEMMA RisingTail ==
  ASSUME NEW q \in Seq(Frame \cup {None}), q # <<>>,
         NEW low \in Nat, NEW high \in Nat, Rising(q, low, high)
  PROVE  /\ Rising(Tail(q), low, high)
         /\ Head(q) # None =>
              /\ Head(q).info /\ low <= Head(q).lap /\ Head(q).lap <= high
              /\ Rising(Tail(q), Head(q).lap, high)
<1> DEFINE t == Tail(q)
<1>1. /\ Len(q) \in Nat \ {0} /\ Head(q) = q[1] /\ t \in Seq(Frame \cup {None})
      /\ Len(t) = Len(q) - 1
      /\ \A i \in 1 .. Len(t) : t[i] = q[i + 1] /\ i + 1 \in 1 .. Len(q)
  BY TailFacts
<1> HIDE DEF t
<1>2. ASSUME NEW i \in 1 .. Len(t), t[i] # None
      PROVE  /\ t[i].info /\ low <= t[i].lap /\ t[i].lap <= high
             /\ Head(q) # None => Head(q).lap <= t[i].lap
             /\ \A j \in 1 .. i - 1 : t[j] # None => t[j].lap <= t[i].lap
  <2>1. /\ i + 1 \in DOMAIN q /\ q[i + 1] = t[i] /\ 1 \in 1 .. (i + 1) - 1
        /\ \A j \in 1 .. i - 1 : t[j] = q[j + 1] /\ j + 1 \in 1 .. (i + 1) - 1
    BY <1>1
  <2>2. /\ q[i + 1].info /\ low <= q[i + 1].lap /\ q[i + 1].lap <= high
        /\ \A j \in 1 .. (i + 1) - 1 : q[j] # None => q[j].lap <= q[i + 1].lap
    BY <1>2, <2>1 DEF Rising
  <2>3. QED
    BY <1>1, <2>1, <2>2
<1>3. Head(q) # None => Head(q).info /\ low <= Head(q).lap /\ Head(q).lap <= high
  BY <1>1 DEF Rising
<1>4. DOMAIN t = 1 .. Len(t)
  BY <1>1
<1>5. QED
  BY <1>2, <1>3, <1>4 DEF Rising, t

LEMMA RisingAppend ==
  ASSUME NEW q \in Seq(Frame \cup {None}), NEW f \in Frame \cup {None},
         NEW low \in Nat, NEW high \in Nat, NEW top \in Nat, high <= top, low <= top,
         Rising(q, low, high), f # None => f.info /\ f.lap = top
  PROVE  Rising(Append(q, f), low, top)
<1> DEFINE r == Append(q, f)
<1>1. /\ r \in Seq(Frame \cup {None}) /\ Len(r) = Len(q) + 1 /\ Len(q) \in Nat
      /\ \A i \in 1 .. Len(q) : r[i] = q[i]
      /\ r[Len(q) + 1] = f
  BY AppendFacts
<1>2. \A i \in 1 .. Len(q) : q[i] # None => q[i].lap \in Nat
  <2>1. \A i \in 1 .. Len(q) : q[i] \in Frame \cup {None}
    OBVIOUS
  <2>2. QED
    BY <2>1, SliceTypes
<1> HIDE DEF r
<1>3. ASSUME NEW i \in 1 .. Len(q) + 1, r[i] # None
      PROVE  /\ r[i].info /\ low <= r[i].lap /\ r[i].lap <= top
             /\ \A j \in 1 .. i - 1 : r[j] # None => r[j].lap <= r[i].lap
  <2>1. CASE i \in 1 .. Len(q)
    <3>1. /\ r[i] = q[i] /\ i \in DOMAIN q
          /\ \A j \in 1 .. i - 1 : r[j] = q[j]
      BY <1>1, <2>1
    <3>2. /\ q[i].info /\ low <= q[i].lap /\ q[i].lap <= high
          /\ \A j \in 1 .. i - 1 : q[j] # None => q[j].lap <= q[i].lap
      BY <1>3, <3>1 DEF Rising
    <3>3. q[i].lap \in Nat
      BY <1>2, <1>3, <2>1, <3>1
    <3>4. q[i].lap <= top
      BY <3>2, <3>3
    <3>5. QED
      BY <3>1, <3>2, <3>4, Zenon
  <2>2. CASE i = Len(q) + 1
    <3>1. r[i] = f /\ \A j \in 1 .. i - 1 : r[j] = q[j] /\ j \in DOMAIN q /\ j \in 1 .. Len(q)
      BY <1>1, <2>2
    <3>2. \A j \in 1 .. i - 1 : q[j] # None => q[j].lap <= high
      BY <3>1 DEF Rising
    <3>3. QED
      BY <1>2, <1>3, <3>1, <3>2
  <2>3. QED
    BY <1>1, <2>1, <2>2
<1>4. DOMAIN r = 1 .. Len(q) + 1
  BY <1>1
<1>5. QED
  BY <1>3, <1>4 DEF Rising, r

LEMMA Higher ==
  ASSUME NEW q \in Seq(Frame \cup {None}), NEW low \in Nat, NEW high \in Nat,
         NEW top \in Nat, high <= top, Rising(q, low, high)
  PROVE  Rising(q, low, top)
<1>1. ASSUME NEW i \in DOMAIN q, q[i] # None PROVE q[i].lap <= top
  <2>1. q[i] \in Frame \cup {None} /\ q[i].lap <= high
    BY <1>1 DEF Rising
  <2>2. q[i].lap \in Nat
    BY <1>1, <2>1, SliceTypes
  <2>3. QED
    BY <2>1, <2>2
<1>2. QED
  BY <1>1 DEF Rising

(* The car's laps never go down, so neither do those of the frames on the  *)
(* ring: the callback appends a frame of the newest lap, the writer takes  *)
(* the oldest.                                                             *)
LEMMA GrowStep ==
  ASSUME ~LapInfoOnChange, ~GameRestarts, TypeOK, LapsGrow, [Next]_vars PROVE LapsGrow'
<1>1. /\ queue \in Seq(Frame \cup {None}) /\ curLap \in Nat /\ lap \in Nat
      /\ curLap <= lap /\ Rising(queue, curLap, lap)
  BY RecorderAssumption DEF LapsGrow, TypeOK, RingTypeOK, TaskTypeOK, ReaderTypeOK, Laps, NoLap
<1>2. CASE Start
  <2>1. queue' = <<>> /\ curLap' = 0 /\ lap' = lap
    BY <1>2 DEF Start, readerVars, NoLap
  <2>2. QED
    BY <1>1, <2>1 DEF LapsGrow, Rising
<1>3. CASE PauseOrResume \/ StopReturns \/ UNCHANGED vars
  <2>1. UNCHANGED <<queue, curLap, lap>>
    BY <1>3 DEF PauseOrResume, StopReturns, vars, taskVars, readerVars
  <2>2. QED
    BY <1>1, <2>1 DEF LapsGrow
<1>4. CASE Stop \/ StopPuts
  <2>1. /\ UNCHANGED <<curLap, lap>>
        /\ queue' = queue \/ queue' = Append(queue, None)
    BY <1>4 DEF Stop, StopPuts, taskVars, readerVars
  <2>2. Rising(Append(queue, None), curLap, lap)
    BY <1>1, RisingAppend
  <2>3. QED
    BY <1>1, <2>1, <2>2 DEF LapsGrow
<1>5. CASE Poll
  <2>1. PICK d \in Gaps, l \in NextLaps, p \in BOOLEAN, ok \in {TRUE, ~Faulty} :
          /\ clock' = clock + d /\ lap' = l
          /\ OnFrame([ts |-> clock + d, lap |-> l, pit |-> p, ok |-> ok,
                      info |-> LapInfoOnChange => l # sentLap])
          /\ UNCHANGED <<recording, paused, stopPc, taskVars>>
    BY <1>5 DEF Poll
  <2> DEFINE f == [ts |-> clock + d, lap |-> l, pit |-> p, ok |-> ok,
                   info |-> LapInfoOnChange => l # sentLap]
  <2>2. l \in Laps /\ l \in Nat /\ lap <= l
    BY <1>1, RecorderAssumption DEF NextLaps, TypeOK, ReaderTypeOK, Laps
  <2>3. f \in Frame /\ f.info /\ f.lap = l
    <3>1. clock + d \in Nat
      BY RecorderAssumption DEF TypeOK, ReaderTypeOK
    <3>2. ok \in BOOLEAN
      BY RecorderAssumption
    <3>3. QED
      BY <2>2, <3>1, <3>2 DEF Frame
  <2>4. OnFrame(f) /\ curLap' = curLap
    BY <2>1 DEF taskVars
  <2> HIDE DEF f
  <2>5. \/ queue' = queue \/ queue' = Append(queue, f)
        \/ queue # <<>> /\ queue' = Append(Tail(queue), f)
    <3>1. ~(Len(queue) < Cap) => queue # <<>>
      BY <1>1, LenZero, RecorderAssumption
    <3>2. QED
      BY <2>4, <3>1, Zenon DEF OnFrame
  <2>6. CASE queue' = queue
    <3>1. Rising(queue, curLap, l)
      BY <1>1, <2>2, Higher
    <3>2. QED
      BY <1>1, <2>1, <2>2, <2>4, <2>6, <3>1 DEF LapsGrow
  <2>7. CASE queue' = Append(queue, f)
    <3>1. Rising(Append(queue, f), curLap, l)
      BY <1>1, <2>2, <2>3, RisingAppend
    <3>2. QED
      BY <1>1, <2>1, <2>2, <2>4, <2>7, <3>1 DEF LapsGrow
  <2>8. CASE queue # <<>> /\ queue' = Append(Tail(queue), f)
    <3>1. PICK t \in Seq(Frame \cup {None}) : t = Tail(queue) /\ Rising(t, curLap, lap)
      BY <1>1, <2>8, TailFacts, RisingTail
    <3>2. f \in Frame \cup {None} /\ curLap <= l
      BY <1>1, <2>2, <2>3
    <3>3. Rising(Append(t, f), curLap, l)
      BY <1>1, <2>2, <2>3, <3>1, <3>2, RisingAppend, Zenon
    <3>4. QED
      BY <1>1, <2>1, <2>2, <2>4, <2>8, <3>1, <3>3 DEF LapsGrow
  <2>9. QED
    BY <2>5, <2>6, <2>7, <2>8
<1>6. CASE WriterFirst \/ WriterNext \/ WriterFinish
  <2>1. /\ queue # <<>> /\ queue' = Tail(queue) /\ lap' = lap
        /\ curLap' = curLap \/ (Head(queue) # None /\ curLap' = Head(queue).lap)
    BY <1>6 DEF WriterFirst, WriterNext, WriterFrame, WriterFinish, readerVars
  <2>2. /\ Rising(Tail(queue), curLap, lap)
        /\ Head(queue) # None =>
             Head(queue).lap <= lap /\ Rising(Tail(queue), Head(queue).lap, lap)
    BY <1>1, <2>1, RisingTail
  <2>3. QED
    BY <1>1, <2>1, <2>2, Zenon DEF LapsGrow
<1>7. QED
  BY <1>2, <1>3, <1>4, <1>5, <1>6 DEF Next

LEMMA CloseLastLap ==
  ASSUME TaskTypeOK, NEW e \in Nat \cup {Open}, markers # <<>>
  PROVE  CloseLast(e)[Len(markers)].lap = markers[Len(markers)].lap
<1> DEFINE n == Len(markers)
           m == [[markers[n] EXCEPT !.end = e] EXCEPT !.pitIn = inPits]
<1>1. n \in 1 .. Len(markers) /\ markers[n] \in LapMarker
  BY DEF TaskTypeOK
<1>2. m.lap = markers[n].lap
  BY <1>1 DEF TaskTypeOK, LapMarker
<1>3. CloseLast(e) = [markers EXCEPT ![n] = m]
  BY <1>1 DEF TaskTypeOK, CloseLast
<1> HIDE DEF m
<1>4. QED
  BY <1>1, <1>2, <1>3 DEF TaskTypeOK

LEMMA EmptySliced == Sliced(<<>>, <<>>)
<1>1. Len(<<>>) = 0
  OBVIOUS
<1>2. QED
  BY <1>1 DEF Sliced

(* Closing the last marker at the last frame slices what was written.      *)
LEMMA LastCloses ==
  ASSUME TypeOK, LapsContiguous, writer = "loop", markers # <<>>, Sliced(written, markers)
  PROVE  /\ FrameIndex - 1 \in Nat
         /\ CloseLast(FrameIndex - 1) \in Seq(LapMarker)
         /\ Len(CloseLast(FrameIndex - 1)) = Len(markers)
         /\ Sliced(written, CloseLast(FrameIndex - 1))
         /\ \A i \in 1 .. Len(markers) :
              /\ CloseLast(FrameIndex - 1)[i].end # Open
              /\ CloseLast(FrameIndex - 1)[i].lap = markers[i].lap
<1> DEFINE n == Len(markers)
           closed == CloseLast(FrameIndex - 1)
<1>1. /\ markers \in Seq(LapMarker) /\ n \in 1 .. n /\ n \in Nat
      /\ FrameIndex = Len(written) /\ FrameIndex \in Nat
  <2>1. markers \in Seq(LapMarker) /\ Len(written) \in Nat
    BY DEF TypeOK, TaskTypeOK
  <2>2. QED
    BY <2>1, TailFacts DEF FrameIndex
<1>2. /\ markers[n].end = Open /\ markers[n].start < FrameIndex /\ markers[n].start \in Nat
      /\ \A i \in 1 .. n - 1 : markers[i].start <= markers[i].end
  BY LapsInLoop
<1>3. \A i \in 1 .. n - 1 : markers[i].end # Open
  <2>1. \A i \in 1 .. n - 1 : markers[i] \in LapMarker
    BY <1>1
  <2>2. QED
    BY <1>2, <2>1, SliceTypes DEF Open
<1>4. FrameIndex - 1 \in Nat
  BY <1>1, <1>2
<1>5. /\ closed \in Seq(LapMarker) /\ Len(closed) = n
      /\ \A i \in 1 .. n - 1 : closed[i] = markers[i]
      /\ closed[n].start = markers[n].start /\ closed[n].end = FrameIndex - 1
      /\ closed[n].lap = markers[n].lap
  BY <1>4, CloseLastType, CloseLastLap DEF TypeOK
<1> HIDE DEF closed
<1>6. ASSUME NEW i \in 1 .. n
      PROVE  /\ closed[i].end # Open
             /\ closed[i].lap = markers[i].lap /\ closed[i].start = markers[i].start
             /\ Reach(written, closed[i]) = Reach(written, markers[i])
  <2>1. CASE i \in 1 .. n - 1
    BY <1>3, <1>5, <2>1
  <2>2. CASE i = n
    <3>1. closed[i].end # Open
      BY <1>4, <1>5, <2>2 DEF Open
    <3>2. Reach(written, markers[i]) = FrameIndex - 1
      BY <1>1, <1>2, <2>2 DEF Reach
    <3>3. QED
      BY <1>5, <2>2, <3>1, <3>2 DEF Reach
  <2>3. QED
    BY <1>1, <2>1, <2>2
<1>7. Sliced(written, closed)
  BY <1>5, <1>6, SliceCloses
<1>8. QED
  BY <1>4, <1>5, <1>6, <1>7 DEF closed

LEMMA SliceFirst ==
  ASSUME TypeOK, Lifecycle, LapsGrow, SliceInv, WriterFirst PROVE SliceInv'
<1>1. writer = "first" /\ markers = <<>> /\ written = <<>> /\ file' = file
  BY DEF WriterFirst, Lifecycle
<1>2. CASE Head(queue) = None \/ ~Head(queue).ok
  <2>1. writer' \in {"done", "failed"}
    BY <1>2 DEF WriterFirst
  <2>2. QED
    BY <1>1, <2>1 DEF SliceInv
<1>3. CASE Head(queue) # None /\ Head(queue).ok
  <2> DEFINE f == Head(queue)
  <2>1. f \in Frame /\ f.info
    <3>1. queue # <<>> /\ queue \in Seq(Frame \cup {None}) /\ Rising(queue, curLap, lap)
      BY DEF WriterFirst, TypeOK, RingTypeOK, LapsGrow
    <3>2. 1 \in DOMAIN queue /\ Head(queue) = queue[1] /\ Head(queue) \in Frame \cup {None}
      BY <3>1
    <3>3. QED
      BY <1>3, <3>1, <3>2 DEF Rising
  <2>2. /\ written' = <<f>> /\ curLap' = f.lap /\ markers' = Append(<<>>, OpenLap(f))
    BY <1>1, <1>3, <2>1 DEF WriterFirst
  <2> DEFINE m == OpenLap(f)
  <2>3. m \in LapMarker
    BY <2>1, OpenLapType DEF TypeOK
  <2>4. m.lap = f.lap /\ m.start = Len(<<>>) /\ m.end = Open
    BY <1>1 DEF OpenLap, FrameIndex
  <2> HIDE DEF f, m
  <2>5. Sliced(Append(<<>>, f), Append(<<>>, m))
    <3>1. \A i \in 1 .. Len(<<>>) : FALSE
      OBVIOUS
    <3>2. <<>> \in Seq(Frame) /\ <<>> \in Seq(LapMarker)
      BY EmptyTypes
    <3>3. QED
      BY <2>1, <2>3, <2>4, <3>1, <3>2, EmptySliced, SliceOpens
  <2>6. Append(<<>>, f) = <<f>> /\ Append(<<>>, m) = <<m>> /\ Len(<<m>>) = 1 /\ <<m>>[1] = m
        /\ <<m>> # <<>>
    OBVIOUS
  <2>7. markers' = <<m>>
    BY <2>2, <2>6 DEF m
  <2>8. Sliced(written', markers') /\ markers' # <<>> /\ markers'[Len(markers')].lap = curLap'
    BY <2>2, <2>4, <2>5, <2>6, <2>7
  <2>9. QED
    BY <1>1, <2>8 DEF SliceInv
<1>4. QED
  BY <1>2, <1>3

LEMMA SliceNext ==
  ASSUME TypeOK, LapsContiguous, LapsGrow, SliceInv, WriterNext PROVE SliceInv'
<1> DEFINE f == Head(queue)
           n == Len(markers)
<1>1. /\ writer = "loop" /\ file' = file /\ queue # <<>> /\ f # None
      /\ markers # <<>> /\ markers[n].lap = curLap /\ Sliced(written, markers)
  BY DEF WriterNext, SliceInv
<1>2. f \in Frame /\ f.info /\ curLap <= f.lap /\ curLap \in Nat /\ f.lap \in Nat
  <2>1. queue \in Seq(Frame \cup {None}) /\ Rising(queue, curLap, lap) /\ curLap \in Nat
    BY RecorderAssumption DEF TypeOK, RingTypeOK, TaskTypeOK, LapsGrow, Laps, NoLap
  <2>2. 1 \in DOMAIN queue /\ Head(queue) = queue[1] /\ Head(queue) \in Frame \cup {None}
    BY <1>1, <2>1
  <2>3. QED
    BY <1>1, <2>1, <2>2, SliceTypes DEF Rising
<1>3. CASE f.ts - lastTs < MinGap
  BY <1>1, <1>3 DEF WriterNext, SliceInv
<1>4. CASE ~(f.ts - lastTs < MinGap) /\ ~f.ok
  BY <1>1, <1>4 DEF WriterNext, WriterFrame, SliceInv
<1>5. CASE ~(f.ts - lastTs < MinGap) /\ f.ok
  <2>1. /\ written' = Append(written, f)
        /\ f.lap = curLap => markers' = markers /\ curLap' = curLap
        /\ f.lap # curLap => /\ markers' = Append(CloseLast(FrameIndex - 1), OpenLap(f))
                             /\ curLap' = f.lap
    BY <1>2, <1>5 DEF WriterNext, WriterFrame
  <2>2. written \in Seq(Frame) /\ markers \in Seq(LapMarker) /\ n \in 1 .. n /\ n \in Nat
    <3>1. written \in Seq(Frame) /\ markers \in Seq(LapMarker)
      BY DEF TypeOK, TaskTypeOK
    <3>2. QED
      BY <1>1, <3>1, TailFacts
  <2>3. OpenLap(f) \in LapMarker
    BY <1>2, OpenLapType DEF TypeOK
  <2>4. OpenLap(f).lap = f.lap /\ OpenLap(f).start = Len(written) /\ OpenLap(f).end = Open
    BY DEF OpenLap, FrameIndex
  <2> HIDE DEF f
  <2>5. CASE f.lap = curLap
    <3>1. /\ markers[n].end = Open
          /\ \A i \in 1 .. n - 1 : markers[i].start <= markers[i].end
      BY <1>1, LapsInLoop
    <3>2. \A i \in 1 .. n - 1 : markers[i].end # Open
      <4>1. \A i \in 1 .. n - 1 : markers[i] \in LapMarker
        BY <2>2
      <4>2. QED
        BY <3>1, <4>1, SliceTypes DEF Open
    <3>3. Sliced(Append(written, f), markers)
      BY <1>1, <1>2, <2>2, <2>5, <3>1, <3>2, SliceGrows
    <3>4. QED
      BY <1>1, <2>1, <2>5, <3>3 DEF SliceInv
  <2>6. CASE f.lap # curLap
    <3>1. PICK closed \in Seq(LapMarker) :
            /\ closed = CloseLast(FrameIndex - 1) /\ Len(closed) = n
            /\ Sliced(written, closed)
            /\ \A i \in 1 .. n : closed[i].end # Open /\ closed[i].lap = markers[i].lap
      BY <1>1, LastCloses
    <3>2. PICK m \in LapMarker : /\ m = OpenLap(f) /\ m.lap = f.lap
                                 /\ m.start = Len(written) /\ m.end = Open
      BY <2>3, <2>4
    <3>3. \A i \in 1 .. n : closed[i].lap < f.lap
      <4>1. \A i \in 1 .. n : i = n \/ markers[i].lap < markers[n].lap
        BY <1>1, <2>2 DEF Sliced
      <4>2. \A i \in 1 .. n : markers[i] \in LapMarker
        BY <2>2
      <4>3. \A i \in 1 .. n : markers[i].lap \in Nat
        BY <4>2, SliceTypes
      <4>4. curLap < f.lap
        BY <1>2, <2>6
      <4>5. QED
        BY <1>1, <1>2, <3>1, <4>1, <4>3, <4>4
    <3>4. Sliced(Append(written, f), Append(closed, m))
      BY <1>2, <2>2, <3>1, <3>2, <3>3, SliceOpens
    <3>5. markers' = Append(closed, m) /\ curLap' = f.lap
      BY <2>1, <2>6, <3>1, <3>2
    <3>6. markers' # <<>> /\ markers'[Len(markers')] = m
      BY <3>1, <3>2, <3>5, AppendFacts
    <3>7. QED
      BY <1>1, <2>1, <3>2, <3>4, <3>5, <3>6 DEF SliceInv
  <2>7. QED
    BY <2>5, <2>6
<1>6. QED
  BY <1>3, <1>4, <1>5

LEMMA SliceFinish ==
  ASSUME TypeOK, LapsContiguous, SliceInv, WriterFinish PROVE SliceInv'
<1>1. /\ writer = "loop" /\ markers # <<>> /\ Sliced(written, markers)
      /\ Sliced(file.frames, file.laps)
      /\ writer' \in {"done", "failed"}
      /\ file' = file \/ file' = [frames |-> written, laps |-> markers']
  BY DEF WriterFinish, SliceInv
<1>2. markers[Len(markers)].end = Open
  BY <1>1, LapsInLoop
<1>3. FrameIndex - 1 \in Nat /\ Sliced(written, CloseLast(FrameIndex - 1))
  BY <1>1, LastCloses
<1>4. markers' = CloseLast(FrameIndex - 1)
  <2>1. FrameIndex \in Nat
    BY DEF TypeOK, TaskTypeOK, FrameIndex
  <2>2. (IF FrameIndex = 0 THEN 0 ELSE FrameIndex - 1) = FrameIndex - 1
    BY <1>3, <2>1
  <2>3. QED
    BY <1>1, <1>2, <2>2, Zenon DEF WriterFinish, Last
<1>5. Sliced(file'.frames, file'.laps)
  BY <1>1, <1>3, <1>4
<1>6. QED
  BY <1>1, <1>5 DEF SliceInv

LEMMA SliceStep ==
  ASSUME TypeOK, Lifecycle, LapsContiguous, LapsGrow, SliceInv, [Next]_vars
  PROVE  SliceInv'
<1>1. CASE Start
  BY <1>1, EmptySliced DEF Start, SliceInv, NoFile
<1>2. CASE PauseOrResume \/ Poll \/ Stop \/ StopPuts \/ StopReturns \/ UNCHANGED vars
  <2>1. UNCHANGED <<writer, markers, written, curLap, file>>
    BY <1>2 DEF PauseOrResume, Poll, Stop, StopPuts, StopReturns, vars, taskVars
  <2>2. QED
    BY <2>1 DEF SliceInv
<1>3. QED
  BY <1>1, <1>2, SliceFirst, SliceNext, SliceFinish DEF Next

(* With a reader that names the lap in every frame, and a game that does   *)
(* not start again, every lap can be got back out of the file whole,       *)
(* whatever was dropped, thinned out or failed: extract_lap_frames returns *)
(* all frames of the lap that were written and no other.                   *)
THEOREM LapsCanBeExtracted ==
  ASSUME ~LapInfoOnChange, ~GameRestarts
  PROVE  Spec => []LapsExtractable
<1> DEFINE IInv == TypeOK /\ SentinelLast /\ Lifecycle /\ LapsContiguous /\ LapsGrow /\ SliceInv
<1>1. Init => IInv
  <2>1. Init => LapsGrow
    BY DEF Init, LapsGrow, Rising, NoLap
  <2>2. Init => SliceInv
    BY EmptySliced DEF Init, SliceInv, NoFile
  <2>3. QED
    BY <2>1, <2>2, InitInv
<1>2. IInv /\ [Next]_vars => IInv'
  BY TypeStep, SentinelStep, LifecycleStep, LapsStep, GrowStep, SliceStep
<1>3. IInv => LapsExtractable
  <2>1. SUFFICES ASSUME IInv, NEW l \in Laps
                 PROVE  ExtractLapFrames(file, l)
                          = Keep(file.frames, {f \in ToSet(file.frames) : f.lap = l})
    BY DEF LapsExtractable
  <2>2. file.frames \in Seq(Frame) /\ file.laps \in Seq(LapMarker)
    BY <2>1 DEF TypeOK, TaskTypeOK
  <2>3. QED
    BY <2>1, <2>2, SlicedExtracts DEF SliceInv
<1>4. QED
  BY <1>1, <1>2, <1>3, PTL DEF Spec

-----------------------------------------------------------------------------
(* The frames on their way: none is lost without being counted, and the    *)
(* recorder implements LossyTape.                                          *)

(* The frames of a ring q, without the sentinel.                           *)
Unsealed(q) == IF q # <<>> /\ Last(q) = None THEN Front(q) ELSE q

(* A ring with at most one sentinel, which is its last entry.              *)
Ring(q) ==
    /\ q \in Seq(Frame \cup {None})
    /\ \A i \in DOMAIN q : q[i] = None => i = Len(q)

(* q is the end of the sequence c.                                         *)
IsEnd(q, c) ==
    /\ Len(q) <= Len(c)
    /\ \A i \in 1 .. Len(q) : q[i] = c[Len(c) - Len(q) + i]

(* What is inductive of EveryFrameAccounted.                               *)
Accounted ==
    /\ Len(queue) <= Cap
    /\ IsEnd(QueuedFrames, captured)
    /\ Len(captured) = Len(written) + skips + drops + Len(QueuedFrames) + Untraced

(* While stop() joins a writer that is at work, the sentinel is on its way. *)
SentinelThere ==
    stopPc = "joining" /\ writer \in {"first", "loop"} =>
        queue # <<>> /\ queue[Len(queue)] = None

-----------------------------------------------------------------------------
(* Rings.                                                                  *)

LEMMA RingOfQueue == TypeOK /\ SentinelLast => Ring(queue) /\ QueuedFrames = Unsealed(queue)
BY DEF TypeOK, RingTypeOK, SentinelLast, Ring, QueuedFrames, Unsealed

(* The frames of a ring are frames, and there are no more than entries.    *)
LEMMA UnsealedType ==
  ASSUME NEW q, Ring(q)
  PROVE  Unsealed(q) \in Seq(Frame) /\ Len(Unsealed(q)) <= Len(q)
<1> q \in Seq(Frame \cup {None})
  BY DEF Ring
<1>1. CASE q # <<>> /\ Last(q) = None
  <2>1. Len(q) \in Nat \ {0} /\ \A i \in 1 .. Len(q) - 1 : q[i] \in Frame
    BY <1>1, LenZero DEF Ring
  <2>2. Front(q) \in Seq(Frame) /\ Len(Front(q)) = Len(q) - 1
    BY <1>1, <2>1, FrontFacts, Zenon
  <2>3. QED
    BY <1>1, <2>1, <2>2 DEF Unsealed
<1>2. CASE ~(q # <<>> /\ Last(q) = None)
  <2>1. \A i \in 1 .. Len(q) : q[i] \in Frame
    BY <1>2 DEF Ring, Last
  <2>2. q \in Seq(Frame)
    BY <2>1
  <2>3. QED
    BY <1>2, <2>2 DEF Unsealed
<1>3. QED
  BY <1>1, <1>2

LEMMA UnsealedOpen ==
  ASSUME NEW q \in Seq(Frame) PROVE Ring(q) /\ Unsealed(q) = q
<1>1. \A i \in DOMAIN q : q[i] # None
  BY NoneAssumption
<1>2. q \in Seq(Frame \cup {None})
  OBVIOUS
<1>3. q # <<>> => Last(q) # None
  BY <1>1 DEF Last
<1>4. QED
  BY <1>1, <1>2, <1>3 DEF Ring, Unsealed

LEMMA UnsealedSealed ==
  ASSUME NEW q \in Seq(Frame)
  PROVE  Ring(Append(q, None)) /\ Unsealed(Append(q, None)) = q
<1> DEFINE r == Append(q, None)
<1>1. q \in Seq(Frame \cup {None}) /\ Len(q) \in Nat
  OBVIOUS
<1>2. /\ r \in Seq(Frame \cup {None}) /\ Len(r) = Len(q) + 1
      /\ \A i \in 1 .. Len(q) : r[i] = q[i]
      /\ r # <<>> /\ Last(r) = None /\ Front(r) = q
  BY <1>1, AppendFacts
<1> HIDE DEF r
<1>3. \A i \in DOMAIN r : r[i] = None => i = Len(r)
  <2>1. ASSUME NEW i \in DOMAIN r, r[i] = None, i # Len(r) PROVE FALSE
    <3>1. i \in 1 .. Len(q)
      BY <1>1, <1>2, <2>1
    <3>2. q[i] \in Frame
      BY <3>1
    <3>3. QED
      BY <1>2, <2>1, <3>1, <3>2, NoneAssumption
  <2>2. QED
    BY <2>1
<1>4. QED
  BY <1>2, <1>3 DEF Ring, Unsealed, r

(* Taking a frame off a ring takes it off its frames.                      *)
LEMMA UnsealedTail ==
  ASSUME NEW q, Ring(q), q # <<>>
  PROVE  /\ Ring(Tail(q))
         /\ Head(q) = None => Unsealed(q) = <<>> /\ Tail(q) = <<>> /\ Unsealed(Tail(q)) = <<>>
         /\ Head(q) # None =>
              /\ Unsealed(q) # <<>> /\ Head(Unsealed(q)) = Head(q)
              /\ Unsealed(Tail(q)) = Tail(Unsealed(q))
<1> q \in Seq(Frame \cup {None})
  BY DEF Ring
<1>1. /\ Len(q) \in Nat \ {0} /\ Head(q) = q[1]
      /\ Tail(q) \in Seq(Frame \cup {None}) /\ Len(Tail(q)) = Len(q) - 1
      /\ \A i \in 1 .. Len(q) - 1 : Tail(q)[i] = q[i + 1]
      /\ Tail(q) = <<>> <=> Len(q) = 1
  BY TailFacts
<1>2. Ring(Tail(q))
  BY <1>1 DEF Ring
<1>3. ASSUME Head(q) = None
      PROVE  Unsealed(q) = <<>> /\ Tail(q) = <<>> /\ Unsealed(Tail(q)) = <<>>
  <2>1. Len(q) = 1
    BY <1>1, <1>3 DEF Ring
  <2>2. Last(q) = None /\ Front(q) = <<>>
    BY <1>1, <1>3, <2>1 DEF Last, Front
  <2>3. QED
    BY <1>1, <2>1, <2>2 DEF Unsealed
<1>4. ASSUME Head(q) # None
      PROVE  /\ Unsealed(q) # <<>> /\ Head(Unsealed(q)) = Head(q)
             /\ Unsealed(Tail(q)) = Tail(Unsealed(q))
  <2>1. CASE Last(q) = None
    <3>1. Len(q) > 1 /\ Tail(q) # <<>>
      BY <1>1, <1>4, <2>1 DEF Last
    <3>2. Last(Tail(q)) = None
      BY <1>1, <2>1, <3>1 DEF Last
    <3> DEFINE T == Frame \cup {None}
    <3>0. q \in Seq(T) /\ Tail(q) \in Seq(T) /\ \A i \in 1 .. Len(q) - 1 : q[i] \in T
      BY <1>1
    <3> HIDE DEF T
    <3>3. /\ Front(q) \in Seq(T) /\ Len(Front(q)) = Len(q) - 1
          /\ \A i \in 1 .. Len(q) - 1 : Front(q)[i] = q[i]
      BY <3>0, FrontFacts
    <3>4. /\ Front(Tail(q)) \in Seq(T) /\ Len(Front(Tail(q))) = Len(q) - 2
          /\ \A i \in 1 .. Len(q) - 2 : Front(Tail(q))[i] = q[i + 1]
      <4>1. \A i \in 1 .. Len(Tail(q)) - 1 : Tail(q)[i] \in T
        BY <1>1, <3>0
      <4>2. /\ Front(Tail(q)) \in Seq(T) /\ Len(Front(Tail(q))) = Len(Tail(q)) - 1
            /\ \A i \in 1 .. Len(Tail(q)) - 1 : Front(Tail(q))[i] = Tail(q)[i]
        BY <3>0, <3>1, <4>1, FrontFacts, Zenon
      <4>3. Len(Tail(q)) - 1 = Len(q) - 2
        BY <1>1
      <4>4. \A i \in 1 .. Len(q) - 2 : Tail(q)[i] = q[i + 1]
        BY <1>1
      <4>5. QED
        BY <4>2, <4>3, <4>4
    <3>5. Front(q) # <<>> /\ Head(Front(q)) = q[1]
      BY <3>1, <3>3, TailFacts, LenZero
    <3>6. /\ Tail(Front(q)) \in Seq(T) /\ Len(Tail(Front(q))) = Len(q) - 2
          /\ \A i \in 1 .. Len(q) - 2 : Tail(Front(q))[i] = q[i + 1]
      <4>1. /\ Tail(Front(q)) \in Seq(T) /\ Len(Tail(Front(q))) = Len(Front(q)) - 1
            /\ \A i \in 1 .. Len(Front(q)) - 1 : Tail(Front(q))[i] = Front(q)[i + 1]
        BY <3>3, <3>5, TailFacts
      <4>2. Len(Front(q)) - 1 = Len(q) - 2 /\ \A i \in 1 .. Len(q) - 2 : Front(q)[i + 1] = q[i + 1]
        BY <1>1, <3>3
      <4>3. QED
        BY <4>1, <4>2
    <3>7. Front(Tail(q)) = Tail(Front(q))
      BY <1>1, <3>4, <3>6, SeqEqual
    <3>8. QED
      BY <1>1, <2>1, <3>1, <3>2, <3>5, <3>7 DEF Unsealed
  <2>2. CASE Last(q) # None
    <3>1. Tail(q) = <<>> \/ Last(Tail(q)) # None
      BY <1>1, <2>2 DEF Last
    <3>2. QED
      BY <2>2, <3>1 DEF Unsealed
  <2>3. QED
    BY <2>1, <2>2
<1>5. QED
  BY <1>2, <1>3, <1>4
(* The end of a sequence moves with it.                                    *)
LEMMA EndFacts ==
  ASSUME NEW q \in Seq(Frame), NEW c \in Seq(Frame), IsEnd(q, c)
  PROVE  /\ q = SubSeq(c, Len(c) - Len(q) + 1, Len(c))
         /\ \A f \in Frame : IsEnd(Append(q, f), Append(c, f))
         /\ q # <<>> => IsEnd(Tail(q), c)
<1> Len(q) \in Nat /\ Len(c) \in Nat /\ Len(q) <= Len(c)
  BY DEF IsEnd
<1>1. q = SubSeq(c, Len(c) - Len(q) + 1, Len(c))
  <2>0. Len(c) - Len(q) \in Nat
    OBVIOUS
  <2>1. PICK k \in Nat : k = Len(c) - Len(q)
    BY <2>0, Zenon
  <2>2. \A i \in 1 .. Len(q) : q[i] = c[k + i]
    BY <2>1 DEF IsEnd
  <2>3. SubSeq(c, k + 1, Len(c)) = [i \in 1 .. Len(q) |-> c[k + i]]
    BY <2>1
  <2>4. q = [i \in 1 .. Len(q) |-> c[k + i]]
    BY <2>2
  <2>5. QED
    BY <2>1, <2>3, <2>4
<1>2. ASSUME NEW f \in Frame PROVE IsEnd(Append(q, f), Append(c, f))
  <2>1. /\ Len(Append(q, f)) = Len(q) + 1 /\ Len(Append(c, f)) = Len(c) + 1
        /\ \A i \in 1 .. Len(q) : Append(q, f)[i] = q[i]
        /\ \A i \in 1 .. Len(c) : Append(c, f)[i] = c[i]
        /\ Append(q, f)[Len(q) + 1] = f /\ Append(c, f)[Len(c) + 1] = f
    BY AppendFacts
  <2>2. ASSUME NEW i \in 1 .. Len(q) + 1
        PROVE  Append(q, f)[i] = Append(c, f)[Len(c) - Len(q) + i]
    <3>1. CASE i <= Len(q)
      BY <2>1, <3>1 DEF IsEnd
    <3>2. CASE i = Len(q) + 1
      BY <2>1, <3>2
    <3>3. QED
      BY <3>1, <3>2
  <2>3. /\ Len(Append(q, f)) <= Len(Append(c, f))
        /\ Len(Append(c, f)) - Len(Append(q, f)) = Len(c) - Len(q)
    BY <2>1
  <2>4. QED
    BY <2>1, <2>2, <2>3, Zenon DEF IsEnd
<1>3. ASSUME q # <<>> PROVE IsEnd(Tail(q), c)
  <2>1. /\ Len(q) \in Nat \ {0} /\ Len(Tail(q)) = Len(q) - 1
        /\ \A i \in 1 .. Len(q) - 1 : Tail(q)[i] = q[i + 1]
    BY <1>3, TailFacts
  <2>2. \A i \in 1 .. Len(q) - 1 : Tail(q)[i] = c[Len(c) - (Len(q) - 1) + i]
    BY <2>1 DEF IsEnd
  <2>3. QED
    BY <2>1, <2>2 DEF IsEnd
<1>4. QED
  BY <1>1, <1>2, <1>3

-----------------------------------------------------------------------------
(* What the steps do to the ring.                                          *)

LEMMA PollOffers ==
  ASSUME TypeOK, Poll
  PROVE  /\ UNCHANGED <<recording, paused, stopPc, taskVars>>
         /\ \E f \in Frame : (~Faulty => f.ok) /\ OnFrame(f)
<1>1. PICK d \in Gaps, l \in NextLaps, p \in BOOLEAN, ok \in {TRUE, ~Faulty} :
        /\ OnFrame([ts |-> clock + d, lap |-> l, pit |-> p, ok |-> ok,
                    info |-> LapInfoOnChange => l # sentLap])
        /\ UNCHANGED <<recording, paused, stopPc, taskVars>>
  BY Zenon DEF Poll
<1> DEFINE f == [ts |-> clock + d, lap |-> l, pit |-> p, ok |-> ok,
                 info |-> LapInfoOnChange => l # sentLap]
<1>2. l \in Laps /\ clock + d \in Nat
  BY RecorderAssumption DEF NextLaps, Laps, ReaderTypeOK, TypeOK
<1>3. (LapInfoOnChange => l # sentLap) \in BOOLEAN /\ ok \in BOOLEAN
  BY RecorderAssumption, Zenon
<1>4. f \in Frame /\ OnFrame(f)
  BY <1>1, <1>2, <1>3, Zenon DEF Frame
<1>5. ~Faulty => f.ok
  BY <1>1
<1> HIDE DEF f
<1>6. QED
  BY <1>1, <1>4, <1>5, Zenon

(* While the recording is on the ring holds frames only.                   *)
LEMMA OpenRing ==
  ASSUME TypeOK, SentinelLast, recording \/ stopPc = "putting" \/ writer \in {"none", "done"}
  PROVE  queue \in Seq(Frame) /\ QueuedFrames = queue
<1>1. \A i \in DOMAIN queue : queue[i] # None
  BY DEF SentinelLast
<1>2. queue \in Seq(Frame \cup {None})
  BY DEF TypeOK, RingTypeOK
<1>3. queue \in Seq(Frame)
  BY <1>1, <1>2
<1>4. QED
  BY <1>3, UnsealedOpen DEF Unsealed, QueuedFrames

LEMMA Offered ==
  ASSUME TypeOK, SentinelLast, Poll
  PROVE  \/ UNCHANGED <<queue, drops, captured>>
         \/ \E f \in Frame :
              /\ ~Faulty => f.ok
              /\ recording /\ captured' = Append(captured, f)
              /\ queue \in Seq(Frame) /\ QueuedFrames = queue
              /\ queue' \in Seq(Frame) /\ QueuedFrames' = queue'
              /\ \/ Len(queue) < Cap /\ queue' = Append(queue, f) /\ drops' = drops
                 \/ /\ Len(queue) >= Cap /\ queue # <<>>
                    /\ queue' = Append(Tail(queue), f) /\ drops' = drops + 1
<1>1. PICK f \in Frame : (~Faulty => f.ok) /\ OnFrame(f)
  BY PollOffers
<1>2. CASE ~recording \/ paused
  BY <1>1, <1>2 DEF OnFrame
<1>3. CASE recording /\ ~paused
  <2>1. queue \in Seq(Frame) /\ QueuedFrames = queue
    BY <1>3, OpenRing
  <2>2. Len(queue) >= Cap => queue # <<>>
    BY <2>1, LenZero, RecorderAssumption
  <2>3. /\ captured' = Append(captured, f)
        /\ \/ Len(queue) < Cap /\ queue' = Append(queue, f) /\ drops' = drops
           \/ /\ Len(queue) >= Cap /\ queue # <<>>
              /\ queue' = Append(Tail(queue), f) /\ drops' = drops + 1
    <3>1. Len(queue) < Cap \/ Len(queue) >= Cap
      BY <2>1, RecorderAssumption
    <3>2. QED
      BY <1>1, <1>3, <2>2, <3>1 DEF OnFrame
  <2>4. queue' \in Seq(Frame)
    <3>1. CASE queue' = Append(queue, f)
      BY <2>1, <3>1, AppendFacts, Zenon
    <3>2. CASE queue' = Append(Tail(queue), f) /\ queue # <<>>
      <4>1. Tail(queue) \in Seq(Frame)
        BY <2>1, <3>2, TailFacts, Zenon
      <4>2. QED
        BY <3>2, <4>1, AppendFacts, Zenon
    <3>3. QED
      BY <2>3, <3>1, <3>2
  <2>5. QueuedFrames' = queue'
    <3>1. Unsealed(queue') = queue'
      BY <2>4, UnsealedOpen
    <3>2. QED
      BY <3>1 DEF Unsealed, QueuedFrames
  <2>6. QED
    BY <1>1, <1>3, <2>1, <2>3, <2>4, <2>5
<1>4. QED
  BY <1>2, <1>3 DEF TypeOK, RingTypeOK

LEMMA Sealed ==
  ASSUME TypeOK, SentinelLast, Stop \/ StopPuts
  PROVE  /\ QueuedFrames' = QueuedFrames
         /\ queue' = queue \/ (Len(queue) < Cap /\ queue' = Append(queue, None))
<1>1. queue \in Seq(Frame) /\ QueuedFrames = queue
  BY OpenRing DEF Stop, StopPuts
<1>2. queue' = queue \/ (Len(queue) < Cap /\ queue' = Append(queue, None))
  BY DEF Stop, StopPuts
<1>3. Unsealed(queue') = queue
  BY <1>1, <1>2, UnsealedOpen, UnsealedSealed
<1>4. QED
  BY <1>1, <1>2, <1>3 DEF Unsealed, QueuedFrames

LEMMA Taken ==
  ASSUME TypeOK, SentinelLast, WriterFirst \/ WriterNext \/ WriterFinish
  PROVE  /\ queue # <<>> /\ queue' = Tail(queue)
         /\ Len(queue) \in Nat /\ Len(queue') = Len(queue) - 1
         /\ Head(queue) = None => QueuedFrames = <<>> /\ QueuedFrames' = <<>>
         /\ Head(queue) # None =>
              /\ Head(queue) \in Frame
              /\ QueuedFrames # <<>> /\ Head(QueuedFrames) = Head(queue)
              /\ QueuedFrames' = Tail(QueuedFrames)
<1>1. queue # <<>> /\ queue' = Tail(queue)
  BY DEF WriterFirst, WriterNext, WriterFinish
<1>2. queue \in Seq(Frame \cup {None})
  BY DEF TypeOK, RingTypeOK
<1>3. Len(queue) \in Nat /\ Len(queue') = Len(queue) - 1 /\ Head(queue) \in Frame \cup {None}
  BY <1>1, <1>2, TailFacts
<1>4. Ring(queue) /\ QueuedFrames = Unsealed(queue)
  BY RingOfQueue
<1>5. QueuedFrames' = Unsealed(Tail(queue))
  BY <1>1 DEF Unsealed, QueuedFrames
<1>6. QED
  BY <1>1, <1>3, <1>4, <1>5, UnsealedTail
-----------------------------------------------------------------------------
(* No frame is lost without being counted.                                 *)

LEMMA AccountedInit == Init => Accounted
<1> SUFFICES ASSUME Init PROVE Accounted
  OBVIOUS
<1>1. queue = <<>> /\ captured = <<>> /\ QueuedFrames = <<>>
  BY DEF Init, QueuedFrames
<1>2. Len(<<>>) = 0 /\ Cap \in Nat
  BY RecorderAssumption
<1>3. QED
  BY <1>1, <1>2 DEF Init, Accounted, IsEnd, Untraced

LEMMA SentinelThereStep ==
  ASSUME TypeOK, SentinelThere, Lifecycle, [Next]_vars PROVE SentinelThere'
<1>1. queue \in Seq(Frame \cup {None})
  BY DEF TypeOK, RingTypeOK
<1>2. CASE Start \/ PauseOrResume \/ StopReturns \/ UNCHANGED vars
  BY <1>2 DEF Start, PauseOrResume, StopReturns, vars, taskVars, SentinelThere
<1>3. CASE Poll
  <2>1. CASE recording
    BY <1>3, <2>1, PollOffers DEF Lifecycle, SentinelThere
  <2>2. CASE ~recording
    <3>1. UNCHANGED <<queue, stopPc, writer>>
      BY <1>3, <2>2 DEF Poll, OnFrame, taskVars
    <3>2. QED
      BY <3>1 DEF SentinelThere
  <2>3. QED
    BY <2>1, <2>2
<1>4. CASE Stop \/ StopPuts
  <2>1. CASE queue' = Append(queue, None)
    <3>1. queue' # <<>> /\ queue'[Len(queue')] = None
      BY <1>1, <2>1
    <3>2. QED
      BY <3>1 DEF SentinelThere
  <2>2. CASE stopPc' = "putting"
    BY <2>2 DEF SentinelThere
  <2>3. QED
    BY <1>4, <2>1, <2>2 DEF Stop, StopPuts
<1>5. CASE WriterFirst \/ WriterNext \/ WriterFinish
  <2>1. /\ queue # <<>> /\ queue' = Tail(queue) /\ stopPc' = stopPc
        /\ writer \in {"first", "loop"}
    BY <1>5 DEF WriterFirst, WriterNext, WriterFinish
  <2>2. ASSUME stopPc' = "joining", writer' \in {"first", "loop"}
        PROVE  queue' # <<>> /\ queue'[Len(queue')] = None
    <3>1. Head(queue) # None
      BY <1>5, <2>2 DEF WriterFirst, WriterNext, WriterFinish
    <3>2. queue[Len(queue)] = None
      BY <2>1, <2>2 DEF SentinelThere
    <3>3. Len(queue) > 1 /\ Len(queue) \in Nat
      BY <1>1, <2>1, <3>1, <3>2
    <3>4. Len(queue') = Len(queue) - 1
      BY <1>1, <2>1, TailFacts
    <3>5. queue'[Len(queue) - 1] = queue[Len(queue)]
      BY <1>1, <2>1, <3>3
    <3>6. Len(<<>>) = 0
      OBVIOUS
    <3>7. QED
      BY <3>2, <3>3, <3>4, <3>5, <3>6
  <2>3. QED
    BY <2>2 DEF SentinelThere
<1>6. QED
  BY <1>2, <1>3, <1>4, <1>5 DEF Next

LEMMA AccountedStep ==
  ASSUME TypeOK, SentinelLast, SentinelThere, Lifecycle, Accounted, [Next]_vars
  PROVE  Accounted'
<1> DEFINE q == QueuedFrames
<1>0. Untraced \in {0, 1}
  BY DEF Untraced
<1>1. /\ q \in Seq(Frame) /\ Len(q) \in Nat /\ captured \in Seq(Frame) /\ Len(captured) \in Nat
      /\ queue \in Seq(Frame \cup {None}) /\ Len(queue) \in Nat /\ Cap \in Nat \ {0}
      /\ written \in Seq(Frame) /\ Len(written) \in Nat /\ skips \in Nat /\ drops \in Nat
  BY RingOfQueue, UnsealedType, RecorderAssumption DEF TypeOK, RingTypeOK, TaskTypeOK
<1> HIDE DEF q
<1>2. CASE Start
  <2>1. queue' = <<>> /\ captured' = <<>> /\ QueuedFrames' = <<>>
    BY <1>2 DEF Start, QueuedFrames
  <2>2. Len(<<>>) = 0
    OBVIOUS
  <2>3. QED
    BY <1>1, <1>2, <2>1, <2>2 DEF Start, Accounted, IsEnd, Untraced
<1>3. CASE PauseOrResume \/ StopReturns \/ UNCHANGED vars
  <2>1. UNCHANGED <<queue, captured, writer, written, skips, drops, recording>>
    BY <1>3 DEF PauseOrResume, StopReturns, vars, taskVars
  <2>2. Untraced' = Untraced
    BY <1>3, <2>1 DEF Untraced, PauseOrResume, StopReturns, vars
  <2>3. QED
    BY <2>1, <2>2 DEF Accounted, IsEnd, QueuedFrames
<1>4. CASE Poll
  <2>1. CASE UNCHANGED <<queue, drops, captured>>
    <3>1. UNCHANGED <<writer, written, skips, recording, stopPc>>
      BY <1>4, PollOffers DEF taskVars
    <3>2. Untraced' = Untraced
      BY <2>1, <3>1 DEF Untraced
    <3>3. QED
      BY <2>1, <3>1, <3>2 DEF Accounted, IsEnd, QueuedFrames
  <2>2. CASE ~UNCHANGED <<queue, drops, captured>>
    <3>1. PICK f \in Frame :
            /\ recording /\ captured' = Append(captured, f)
            /\ queue \in Seq(Frame) /\ QueuedFrames = queue
            /\ queue' \in Seq(Frame) /\ QueuedFrames' = queue'
            /\ \/ Len(queue) < Cap /\ queue' = Append(queue, f) /\ drops' = drops
               \/ /\ Len(queue) >= Cap /\ queue # <<>>
                  /\ queue' = Append(Tail(queue), f) /\ drops' = drops + 1
      BY <1>4, <2>2, Offered
    <3>2. UNCHANGED <<writer, written, skips, recording>>
      BY <1>4, PollOffers DEF taskVars
    <3>8. Untraced' = Untraced
      BY <3>1, <3>2 DEF Untraced
    <3>3. Len(captured') = Len(captured) + 1
      BY <1>1, <3>1, AppendFacts
    <3>4. IsEnd(queue, captured)
      BY <3>1 DEF Accounted
    <3>5. CASE Len(queue) < Cap /\ queue' = Append(queue, f) /\ drops' = drops
      <4>1. Len(queue') = Len(queue) + 1
        BY <3>1, <3>5, AppendFacts
      <4>2. IsEnd(queue', captured')
        BY <1>1, <3>1, <3>4, <3>5, EndFacts
      <4>3. QED
        BY <1>0, <1>1, <3>1, <3>2, <3>3, <3>5, <3>8, <4>1, <4>2 DEF Accounted
    <3>6. CASE /\ Len(queue) >= Cap /\ queue # <<>>
               /\ queue' = Append(Tail(queue), f) /\ drops' = drops + 1
      <4>1. Tail(queue) \in Seq(Frame) /\ Len(Tail(queue)) = Len(queue) - 1
        BY <3>1, <3>6, TailFacts
      <4>2. Len(queue') = Len(queue)
        BY <1>1, <3>6, <4>1, AppendFacts
      <4>3. IsEnd(Tail(queue), captured)
        BY <1>1, <3>1, <3>4, <3>6, EndFacts
      <4>4. IsEnd(queue', captured')
        BY <1>1, <3>1, <3>6, <4>1, <4>3, EndFacts
      <4>5. Len(queue') <= Cap
        BY <4>2 DEF Accounted
      <4>6. Len(captured') = Len(written') + skips' + drops' + Len(queue') + Untraced'
        <5>1. Len(captured) = Len(written) + skips + drops + Len(queue) + Untraced
          BY <3>1 DEF Accounted
        <5>2. Len(captured') = Len(written) + skips + (drops + 1) + Len(queue) + Untraced
          BY <1>0, <1>1, <3>3, <5>1
        <5>3. QED
          BY <3>2, <3>6, <3>8, <4>2, <5>2, Zenon
      <4>7. QED
        BY <3>1, <4>4, <4>5, <4>6, Zenon DEF Accounted
    <3>7. QED
      BY <3>1, <3>5, <3>6
  <2>3. QED
    BY <2>1, <2>2
<1>5. CASE Stop \/ StopPuts
  <2>1. UNCHANGED <<captured, writer, written, skips, drops>>
    BY <1>5 DEF Stop, StopPuts, taskVars
  <2>2. QueuedFrames' = QueuedFrames
    BY <1>5, Sealed
  <2>3. Len(queue') <= Cap
    <3>1. CASE queue' = queue
      BY <3>1 DEF Accounted
    <3>2. CASE Len(queue) < Cap /\ queue' = Append(queue, None)
      <4>1. Len(queue') = Len(queue) + 1
        BY <1>1, <3>2, AppendFacts
      <4>2. QED
        BY <1>1, <3>2, <4>1
    <3>3. QED
      BY <1>5, <3>1, <3>2, Sealed
  <2>4. Untraced' = Untraced
    <3>1. recording \/ stopPc = "putting"
      BY <1>5 DEF Stop, StopPuts
    <3>2. recording' \/ stopPc' = "putting" \/ queue' # <<>>
      BY <1>1, <1>5 DEF Stop, StopPuts
    <3>3. QED
      BY <2>1, <3>1, <3>2 DEF Untraced
  <2>5. QED
    BY <2>1, <2>2, <2>3, <2>4 DEF Accounted, IsEnd
<1>6. CASE WriterFirst \/ WriterNext \/ WriterFinish
  <2>1. /\ Len(queue') = Len(queue) - 1
        /\ Head(queue) = None => q = <<>> /\ QueuedFrames' = <<>>
        /\ Head(queue) # None =>
             /\ Head(queue) \in Frame /\ q # <<>> /\ QueuedFrames' = Tail(q)
    BY <1>6, Taken DEF q
  <2>2. UNCHANGED <<captured, drops, recording, stopPc>> /\ writer \in {"first", "loop"}
    BY <1>6 DEF WriterFirst, WriterNext, WriterFinish
  <2>7. Untraced = 0
    BY <2>2 DEF Untraced
  <2>3. Len(queue') <= Cap
    BY <1>1, <2>1 DEF Accounted
  <2>4. CASE Head(queue) = None
    <3>1. written' = written /\ skips' = skips
      BY <1>6, <2>4 DEF WriterFirst, WriterNext, WriterFinish
    <3>2. queue # <<>> /\ queue' = Tail(queue)
      BY <1>6 DEF WriterFirst, WriterNext, WriterFinish
    <3>3. Len(queue) = 1 /\ ~recording /\ stopPc # "putting"
      <4>1. 1 \in DOMAIN queue /\ queue[1] = None
        BY <1>1, <2>4, <3>2
      <4>2. QED
        BY <4>1 DEF SentinelLast
    <3>4. Untraced' = 0
      BY <1>1, <2>2, <3>2, <3>3 DEF Untraced
    <3>5. QED
      BY <2>1, <2>2, <2>3, <2>4, <2>7, <3>1, <3>4 DEF Accounted, IsEnd, q
  <2>5. CASE Head(queue) # None
    <3>1. IsEnd(Tail(q), captured) /\ Len(Tail(q)) = Len(q) - 1
      BY <1>1, <2>1, <2>5, EndFacts, TailFacts DEF Accounted, q
    <3>2. /\ writer' # "failed" => Len(written') + skips' = Len(written) + skips + 1
          /\ writer' = "failed" => Len(written') + skips' = Len(written) + skips
      <4>1. CASE WriterFirst
        <5>1. writer = "first" /\ written = <<>> /\ skips' = skips
          BY <4>1 DEF WriterFirst, Lifecycle
        <5>2. /\ writer' # "failed" => written' = <<Head(queue)>>
              /\ writer' = "failed" => written' = written
          BY <2>5, <4>1 DEF WriterFirst
        <5>3. Len(<<Head(queue)>>) = 1 /\ Len(<<>>) = 0
          OBVIOUS
        <5>4. 1 + skips = 0 + skips + 1
          BY <1>1
        <5>5. QED
          BY <5>1, <5>2, <5>3, <5>4, Zenon
      <4>2. CASE WriterNext
        <5>1. CASE Head(queue).ts - lastTs < MinGap
          BY <1>1, <4>2, <5>1 DEF WriterNext
        <5>2. CASE ~(Head(queue).ts - lastTs < MinGap)
          <6>1. /\ writer = "loop" /\ skips' = skips
                /\ writer' # "failed" => written' = Append(written, Head(queue))
                /\ writer' = "failed" => written' = written
            BY <4>2, <5>2 DEF WriterNext, WriterFrame
          <6>2. Len(Append(written, Head(queue))) = Len(written) + 1
            BY <1>1, <2>1, <2>5, AppendFacts
          <6>3. (Len(written) + 1) + skips = Len(written) + skips + 1
            BY <1>1
          <6>4. QED
            BY <6>1, <6>2, <6>3, Zenon
        <5>3. QED
          BY <5>1, <5>2
      <4>3. QED
        BY <1>6, <2>5, <4>1, <4>2 DEF WriterFinish
    <3>3. Untraced' = IF writer' = "failed" THEN 1 ELSE 0
      <4>1. ASSUME writer' = "failed", ~recording, stopPc # "putting"
            PROVE  queue' # <<>>
        <5>1. queue # <<>> /\ queue' = Tail(queue)
          BY <1>6 DEF WriterFirst, WriterNext, WriterFinish
        <5>2. stopPc = "joining"
          BY <2>2, <4>1 DEF Lifecycle, TypeOK, RingTypeOK
        <5>3. queue[Len(queue)] = None
          BY <2>2, <5>2 DEF SentinelThere
        <5>4. Len(queue) > 1
          BY <1>1, <2>5, <5>1, <5>3
        <5>5. Len(queue') > 0
          BY <1>1, <2>1, <5>4
        <5>6. Len(<<>>) = 0
          OBVIOUS
        <5>7. QED
          BY <5>5, <5>6
      <4>2. QED
        BY <2>2, <4>1 DEF Untraced
    <3>4. Len(captured) = Len(written') + skips' + drops + Len(Tail(q)) + Untraced'
      <4>1. Len(captured) = Len(written) + skips + drops + Len(q)
        <5>1. Len(captured) = Len(written) + skips + drops + Len(q) + 0
          BY <2>7 DEF Accounted, q
        <5>2. QED
          BY <1>1, <5>1
      <4>2. written' \in Seq(Frame) /\ skips' \in Nat
        BY TypeStep DEF TypeOK, TaskTypeOK
      <4>3. Len(written') \in Nat
        BY <4>2
      <4>4. Len(written') + skips' + Untraced' = Len(written) + skips + 1
        BY <1>1, <3>2, <3>3, <4>2, <4>3
      <4>5. Len(Tail(q)) = Len(q) - 1
        BY <3>1
      <4>6. Untraced' \in Nat
        BY <3>3
      <4>7. /\ Len(captured) \in Nat /\ Len(written) \in Nat /\ skips \in Nat
            /\ drops \in Nat /\ Len(q) \in Nat
        BY <1>1
      <4>8. Len(captured) = Len(written') + skips' + drops + (Len(q) - 1) + Untraced'
        <5>1. PICK c \in Nat, w \in Nat, s \in Nat, d \in Nat, n \in Nat,
                   x \in Nat, y \in Nat, u \in Nat :
                /\ c = Len(captured) /\ w = Len(written) /\ s = skips /\ d = drops
                /\ n = Len(q) /\ x = Len(written') /\ y = skips' /\ u = Untraced'
          BY <4>2, <4>3, <4>6, <4>7, Zenon
        <5>2. c = w + s + d + n /\ x + y + u = w + s + 1
          BY <4>1, <4>4, <5>1, Zenon
        <5>3. c = x + y + d + (n - 1) + u
          BY <5>2
        <5>4. QED
          BY <5>1, <5>3, Zenon
      <4>9. QED
        BY <4>5, <4>8, Zenon
    <3>5. QED
      BY <2>1, <2>2, <2>3, <2>5, <3>1, <3>4 DEF Accounted
  <2>6. QED
    BY <2>4, <2>5
<1>7. QED
  BY <1>2, <1>3, <1>4, <1>5, <1>6 DEF Next

(* The ring holds the newest frames captured, in order, and every older    *)
(* frame was written, thinned out or counted as dropped, whatever the      *)
(* interleaving of the reader's callback, the writer task and stop(), but  *)
(* for the one frame that a writer has died of.                            *)
THEOREM FramesAccounted == Spec => []EveryFrameAccounted
<1> DEFINE IInv == TypeOK /\ SentinelLast /\ SentinelThere /\ Lifecycle /\ Accounted
<1>1. Init => IInv
  <2>1. Init => SentinelThere
    BY DEF Init, SentinelThere
  <2>2. QED
    BY <2>1, InitInv, AccountedInit
<1>2. IInv /\ [Next]_vars => IInv'
  BY TypeStep, SentinelStep, SentinelThereStep, LifecycleStep, AccountedStep
<1>3. IInv => EveryFrameAccounted
  <2> SUFFICES ASSUME IInv PROVE EveryFrameAccounted
    OBVIOUS
  <2>1. QueuedFrames \in Seq(Frame) /\ captured \in Seq(Frame)
    BY RingOfQueue, UnsealedType DEF TypeOK, RingTypeOK
  <2>2. QED
    BY <2>1, EndFacts DEF Accounted, EveryFrameAccounted
<1>4. QED
  BY <1>1, <1>2, <1>3, PTL DEF Spec

-----------------------------------------------------------------------------
(* The recorder implements LossyTape when no frame fails to pack and the   *)
(* disk takes the file.  (A failed writer ends a recording that publishes  *)
(* nothing.)                                                               *)

GoodFrame == {f \in Frame : f.ok}

(* The writer cannot fail: every frame of the ring packs.                  *)
Reliable == writer # "failed" /\ queue \in Seq(GoodFrame \cup {None})

tape == written \o QueuedFrames

LEMMA ReliableStep ==
  ASSUME ~Faulty, TypeOK, SentinelLast, Lifecycle, Reliable, [Next]_vars PROVE Reliable'
<1> DEFINE G == GoodFrame \cup {None}
<1>1. /\ queue \in Seq(G) /\ None \in G /\ writer # "failed"
      /\ <<>> \in Seq(G)
  <2>1. \A S : <<>> \in Seq(S)
    OBVIOUS
  <2>2. QED
    BY <2>1 DEF Reliable
<1> HIDE DEF G
<1>2. CASE Start
  BY <1>1, <1>2 DEF Start, Reliable, G
<1>3. CASE PauseOrResume \/ StopReturns \/ UNCHANGED vars
  BY <1>3 DEF PauseOrResume, StopReturns, vars, taskVars, Reliable
<1>4. CASE Poll
  <2>1. writer' = writer
    BY <1>4, PollOffers DEF taskVars
  <2>2. CASE UNCHANGED <<queue, drops, captured>>
    BY <2>1, <2>2 DEF Reliable
  <2>3. CASE ~UNCHANGED <<queue, drops, captured>>
    <3>1. PICK f \in Frame :
            /\ f.ok
            /\ \/ queue' = Append(queue, f)
               \/ queue # <<>> /\ queue' = Append(Tail(queue), f)
      BY <1>4, <2>3, Offered
    <3>2. f \in G
      BY <3>1 DEF G, GoodFrame
    <3>3. queue # <<>> => Tail(queue) \in Seq(G)
      BY <1>1, TailFacts, Zenon
    <3>4. queue' \in Seq(G)
      BY <1>1, <3>1, <3>2, <3>3, AppendFacts, Zenon
    <3>5. QED
      BY <1>1, <2>1, <3>4 DEF Reliable, G
  <2>4. QED
    BY <2>2, <2>3
<1>5. CASE Stop \/ StopPuts
  <2>1. writer' = writer /\ (queue' = queue \/ queue' = Append(queue, None))
    BY <1>5, Sealed DEF Stop, StopPuts, taskVars
  <2>2. queue' \in Seq(G)
    <3>1. Append(queue, None) \in Seq(G)
      BY <1>1, AppendFacts, Zenon
    <3>2. QED
      BY <1>1, <2>1, <3>1, Zenon
  <2>3. QED
    BY <1>1, <2>1, <2>2 DEF Reliable, G
<1>6. CASE WriterFirst \/ WriterNext \/ WriterFinish
  <2>1. queue # <<>> /\ queue' = Tail(queue)
    BY <1>6, Taken
  <2>2. Head(queue) \in G /\ queue' \in Seq(G)
    BY <1>1, <2>1, TailFacts, Zenon
  <2>3. Head(queue) # None => Head(queue).ok
    BY <2>2 DEF G, GoodFrame
  <2>4. writer' # "failed"
    BY <1>1, <1>6, <2>3 DEF WriterFirst, WriterNext, WriterFrame, WriterFinish
  <2>5. QED
    BY <2>2, <2>4 DEF Reliable, G
<1>7. QED
  BY <1>2, <1>3, <1>4, <1>5, <1>6 DEF Next

(* The operators of LossyTape are those of this module.                    *)
LEMMA TapeOperators ==
  /\ \A q : Tape!Front(q) = Front(q) /\ Tape!Last(q) = Last(q)
  /\ \A q, i : Tape!RemoveAt(q, i) = RemoveAt(q, i)
BY DEF Tape!Front, Tape!Last, Tape!RemoveAt, Front, Last, RemoveAt

LEMMA TapeInit == Init => Tape!Init
<1> SUFFICES ASSUME Init PROVE Tape!Init
  OBVIOUS
<1>1. TapePhase = "idle"
  BY DEF Init, TapePhase
<1>2. written = <<>> /\ QueuedFrames = <<>> /\ file.frames = <<>>
  BY DEF Init, QueuedFrames, NoFile
<1>3. <<>> \o <<>> = <<>>
  BY ConcatEmptySeq
<1>4. QED
  BY <1>1, <1>2, <1>3, Zenon DEF Tape!Init

LEMMA TapeTypes ==
  ASSUME TypeOK, SentinelLast
  PROVE  written \in Seq(Frame) /\ QueuedFrames \in Seq(Frame) /\ tape \in Seq(Frame)
BY RingOfQueue, UnsealedType, ConcatFacts DEF TypeOK, TaskTypeOK, tape

(* A frame captured while the ring has room is offered; one that pushes    *)
(* the oldest out is offered while that one is lost.                       *)
LEMMA PollRefines ==
  ASSUME TypeOK, SentinelLast, Poll PROVE [Tape!Next]_Tape!tapeVars
<1>1. UNCHANGED <<recording, stopPc, written, file>>
  BY PollOffers DEF taskVars
<1>2. TapePhase' = TapePhase /\ file.frames' = file.frames
  BY <1>1 DEF TapePhase
<1>3. CASE UNCHANGED <<queue, drops, captured>>
  <2>1. tape' = tape
    BY <1>1, <1>3 DEF tape, QueuedFrames
  <2>2. QED
    BY <1>2, <2>1 DEF Tape!tapeVars, tape
<1>4. CASE ~UNCHANGED <<queue, drops, captured>>
  <2>1. PICK f \in Frame :
          /\ recording
          /\ queue \in Seq(Frame) /\ QueuedFrames = queue /\ QueuedFrames' = queue'
          /\ \/ queue' = Append(queue, f)
             \/ queue # <<>> /\ queue' = Append(Tail(queue), f)
    BY <1>4, Offered
  <2>2. written \in Seq(Frame) /\ tape = written \o queue /\ tape' = written \o queue'
    BY <1>1, <2>1, TapeTypes DEF tape
  <2>3. TapePhase = "recording"
    BY <2>1 DEF TapePhase
  <2>4. CASE queue' = Append(queue, f)
    <3>1. tape' = Append(tape, f) /\ tape \in Seq(Frame)
      <4>1. written \o Append(queue, f) = Append(written \o queue, f)
        BY <2>1, <2>2, ConcatFacts
      <4>2. QED
        BY <2>2, <2>4, <4>1, TapeTypes
    <3>2. tape' # <<>> /\ Last(tape') = f /\ Front(tape') = tape
      BY <3>1, AppendFacts, Zenon
    <3>3. Tape!Offer
      BY <1>2, <2>1, <2>3, <3>2, TapeOperators, Zenon DEF Tape!Offer, tape
    <3>4. QED
      BY <3>3 DEF Tape!Next
  <2>5. CASE queue # <<>> /\ queue' = Append(Tail(queue), f)
    <3>1. Tail(queue) \in Seq(Frame)
      BY <2>1, <2>5, TailFacts, Zenon
    <3>2. tape' = Append(written \o Tail(queue), f) /\ written \o Tail(queue) \in Seq(Frame)
      <4>1. /\ written \o Append(Tail(queue), f) = Append(written \o Tail(queue), f)
            /\ written \o Tail(queue) \in Seq(Frame)
        BY <2>2, <3>1, ConcatFacts
      <4>2. QED
        BY <2>2, <2>5, <4>1
    <3>3. tape' # <<>> /\ Last(tape') = f /\ Front(tape') = written \o Tail(queue)
      <4>1. PICK t \in Seq(Frame) : t = written \o Tail(queue)
        BY <3>2
      <4>2. Append(t, f) # <<>> /\ Last(Append(t, f)) = f /\ Front(Append(t, f)) = t
        BY AppendFacts
      <4>3. QED
        BY <3>2, <4>1, <4>2
    <3>4. /\ Len(written) + 1 \in DOMAIN tape
          /\ RemoveAt(tape, Len(written) + 1) = written \o Tail(queue)
      BY <2>1, <2>2, <2>5, RemoveFacts, Zenon
    <3>5. Tape!Offer
      BY <1>2, <2>1, <2>3, <3>3, <3>4, TapeOperators, Zenon DEF Tape!Offer, tape
    <3>6. QED
      BY <3>5 DEF Tape!Next
  <2>6. QED
    BY <2>1, <2>4, <2>5
<1>5. QED
  BY <1>3, <1>4

(* Taking a frame off the ring to write it leaves the tape as it is, a     *)
(* frame the rate control skips is lost, and the sentinel publishes.       *)
LEMMA WriterRefines ==
  ASSUME TypeOK, SentinelLast, Lifecycle, Reliable, Reliable',
         WriterFirst \/ WriterNext \/ WriterFinish
  PROVE  [Tape!Next]_Tape!tapeVars
<1> DEFINE q == QueuedFrames
<1>1. UNCHANGED <<recording, stopPc>> /\ TapePhase' = TapePhase
  BY DEF WriterFirst, WriterNext, WriterFinish, TapePhase
<1>2. written \in Seq(Frame) /\ q \in Seq(Frame) /\ tape = written \o q
  BY TapeTypes DEF tape
<1>3. /\ Head(queue) = None => q = <<>> /\ QueuedFrames' = <<>>
      /\ Head(queue) # None =>
           q # <<>> /\ Head(q) = Head(queue) /\ QueuedFrames' = Tail(q)
  BY Taken
<1>4. writer # "failed" /\ writer' # "failed"
  BY DEF Reliable
<1> HIDE DEF q
<1>5. CASE WriterFinish
  <2>1. Head(queue) = None /\ written' = written /\ file'.frames = written
    BY <1>4, <1>5 DEF WriterFinish
  <2>2. written \o <<>> = written
    BY <1>2, ConcatEmptySeq
  <2>3. tape = written /\ tape' = tape
    BY <1>2, <1>3, <2>1, <2>2 DEF tape
  <2>4. TapePhase = "ending"
    <3>1. writer = "loop" /\ queue # <<>>
      BY <1>5 DEF WriterFinish
    <3>2. queue[1] = None /\ 1 \in DOMAIN queue
      BY <2>1, <3>1 DEF TypeOK, RingTypeOK
    <3>3. ~recording
      BY <3>2 DEF SentinelLast
    <3>4. stopPc # "idle"
      BY <3>1, <3>3 DEF Lifecycle
    <3>5. QED
      BY <3>3, <3>4 DEF TapePhase
  <2>5. Tape!Publish
    BY <1>1, <2>1, <2>3, <2>4, Zenon DEF Tape!Publish, tape
  <2>6. QED
    BY <2>5 DEF Tape!Next
<1>6. CASE ~WriterFinish
  <2>1. file' = file
    BY <1>6 DEF WriterFirst, WriterNext
  <2>2. CASE written' = written /\ QueuedFrames' = q
    BY <1>1, <2>1, <2>2 DEF Tape!tapeVars, q
  <2>3. CASE Head(queue) # None /\ written' = Append(written, Head(queue))
    <3>1. Append(written, Head(q)) \o Tail(q) = written \o q
      BY <1>2, <1>3, <2>3, ConcatFacts, Zenon
    <3>2. tape' = tape
      BY <1>2, <1>3, <2>3, <3>1, Zenon DEF tape
    <3>3. QED
      BY <1>1, <2>1, <3>2 DEF Tape!tapeVars, tape
  <2>4. CASE WriterNext /\ Head(queue) # None /\ written' = written
    <3>1. /\ Len(written) + 1 \in DOMAIN tape
          /\ RemoveAt(tape, Len(written) + 1) = written \o Tail(q)
      BY <1>2, <1>3, <2>4, RemoveFacts, Zenon
    <3>2. tape' = RemoveAt(tape, Len(written) + 1)
      BY <1>3, <2>4, <3>1, Zenon DEF tape
    <3>3. TapePhase # "idle"
      <4>1. recording \/ stopPc # "idle"
        BY <2>4 DEF WriterNext, Lifecycle
      <4>2. QED
        BY <4>1 DEF TapePhase
    <3>4. Tape!Lose
      BY <1>1, <2>1, <3>1, <3>2, <3>3, TapeOperators, Zenon DEF Tape!Lose, tape
    <3>5. QED
      BY <3>4 DEF Tape!Next
  <2>5. CASE WriterFirst
    <3>1. CASE Head(queue) = None
      <4>1. written' = written
        BY <2>5, <3>1 DEF WriterFirst
      <4>2. QED
        BY <1>3, <2>2, <3>1, <4>1
    <3>2. CASE Head(queue) # None
      <4>1. written = <<>> /\ written' = <<Head(queue)>>
        BY <1>4, <2>5, <3>2 DEF WriterFirst, Lifecycle
      <4>2. Append(<<>>, Head(queue)) = <<Head(queue)>>
        OBVIOUS
      <4>3. QED
        BY <2>3, <3>2, <4>1, <4>2
    <3>3. QED
      BY <3>1, <3>2
  <2>6. CASE WriterNext
    <3>1. Head(queue) # None /\ written' \in {written, Append(written, Head(queue))}
      BY <1>4, <2>6 DEF WriterNext, WriterFrame
    <3>2. QED
      BY <2>3, <2>4, <2>6, <3>1
  <2>7. QED
    BY <1>6, <2>5, <2>6
<1>7. QED
  BY <1>5, <1>6

LEMMA TapeStep ==
  ASSUME TypeOK, SentinelLast, Lifecycle, Reliable, Reliable', [Next]_vars
  PROVE  [Tape!Next]_Tape!tapeVars
<1>1. CASE Start
  <2>1. TapePhase = "idle" /\ TapePhase' = "recording"
    BY <1>1 DEF Start, TapePhase
  <2>2. written' = <<>> /\ QueuedFrames' = <<>> /\ file'.frames = <<>>
    BY <1>1 DEF Start, QueuedFrames, NoFile
  <2>3. <<>> \o <<>> = <<>>
    BY ConcatEmptySeq
  <2>4. Tape!Begin
    BY <2>1, <2>2, <2>3, Zenon DEF Tape!Begin
  <2>5. QED
    BY <2>4 DEF Tape!Next
<1>2. CASE PauseOrResume \/ UNCHANGED vars
  <2>1. UNCHANGED <<recording, stopPc, queue, written, file>>
    BY <1>2 DEF PauseOrResume, vars, taskVars
  <2>2. QED
    BY <2>1 DEF Tape!tapeVars, TapePhase, QueuedFrames
<1>3. CASE Stop \/ StopPuts
  <2>1. UNCHANGED <<written, file>> /\ QueuedFrames' = QueuedFrames
    BY <1>3, Sealed DEF Stop, StopPuts, taskVars
  <2>2. CASE Stop
    <3>1. TapePhase = "recording" /\ TapePhase' = "ending"
      BY <2>2 DEF Stop, TapePhase
    <3>2. Tape!End
      BY <2>1, <3>1, Zenon DEF Tape!End
    <3>3. QED
      BY <3>2 DEF Tape!Next
  <2>3. CASE StopPuts
    <3>1. TapePhase' = TapePhase
      BY <2>3 DEF StopPuts, TapePhase
    <3>2. QED
      BY <2>1, <3>1 DEF Tape!tapeVars
  <2>4. QED
    BY <1>3, <2>2, <2>3
<1>4. CASE StopReturns
  <2>1. ~recording /\ writer = "done" /\ queue = <<>> /\ file.frames = written
    BY <1>4 DEF StopReturns, Lifecycle, Reliable
  <2>2. TapePhase = "ending" /\ TapePhase' = "idle"
    BY <1>4, <2>1 DEF StopReturns, TapePhase
  <2>3. UNCHANGED <<queue, written, file>>
    BY <1>4 DEF StopReturns, taskVars
  <2>4. QueuedFrames = <<>> /\ QueuedFrames' = <<>>
    BY <2>1, <2>3 DEF QueuedFrames
  <2>5. written \o <<>> = written
    BY TapeTypes, ConcatEmptySeq
  <2>6. Tape!Ended
    BY <2>1, <2>2, <2>3, <2>4, <2>5, Zenon DEF Tape!Ended
  <2>7. QED
    BY <2>6 DEF Tape!Next
<1>5. QED
  BY <1>1, <1>2, <1>3, <1>4, PollRefines, WriterRefines DEF Next

(* A recorder whose writer cannot fail keeps the promise of LossyTape for  *)
(* every ring size, sample rate and reader: frames may be lost, but none   *)
(* is repeated, none overtakes another, none is added after stop(), and    *)
(* the file is the whole tape when stop() returns.                         *)
THEOREM RecorderIsLossyTape == ASSUME ~Faulty PROVE Spec => ImplementsTape
<1> DEFINE IInv == TypeOK /\ SentinelLast /\ Lifecycle /\ Reliable
<1>1. Init => IInv
  <2>1. \A S : <<>> \in Seq(S)
    OBVIOUS
  <2>2. Init => Reliable
    BY <2>1 DEF Init, Reliable
  <2>3. QED
    BY <2>2, InitInv
<1>2. IInv /\ [Next]_vars => IInv'
  BY TypeStep, SentinelStep, LifecycleStep, ReliableStep
<1>3. IInv /\ IInv' /\ [Next]_vars => [Tape!Next]_Tape!tapeVars
  BY TapeStep
<1>4. QED
  BY <1>1, <1>2, <1>3, TapeInit, PTL DEF Spec, ImplementsTape, Tape!Spec
=============================================================================
