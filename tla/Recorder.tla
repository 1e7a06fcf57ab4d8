------------------------------ MODULE Recorder ------------------------------
(***************************************************************************)
(* TelemetryRecorder (backend/telemu/recording/recorder.py): the reader's  *)
(* callback puts frames on a bounded ring queue, an asyncio writer task    *)
(* takes them off, thins them to the sample rate, cuts them into laps and  *)
(* compresses them into memory; stop() sends a sentinel through the queue, *)
(* and the writer answers it by writing the whole file.                    *)
(*                                                                         *)
(* A frame is a record of what the recorder looks at.  Channel values are  *)
(* abstracted to whether _pack_frame accepts them (ok).  Frame numbers are *)
(* those of the file, from 0.  Callers are serial: start() is not called   *)
(* while a stop() is still suspended.                                      *)
(***************************************************************************)
EXTENDS Integers, Sequences, SequencesExt, Selection

CONSTANTS
    None,            \* the sentinel stop() puts on the queue
    Cap,             \* ring_buffer_size
    MinGap,          \* interval * 0.9 of the sample rate control, in clock ticks
    Gaps,            \* ticks the reader may let pass between two polls
    MaxTs,           \* bound: the last clock tick a frame is captured at
    MaxLap,          \* bound: laps driven
    LapInfoOnChange, \* TRUE: TelemetryReader, FALSE: DemoReader
    GameRestarts,    \* the game session may restart, with the lap count back at 1
    Faulty           \* frames may fail to pack and the disk may refuse the file

ASSUME RecorderAssumption ==
    /\ Cap \in Nat \ {0}
    /\ MinGap \in Nat
    /\ Gaps \subseteq Nat \ {0}
    /\ MaxTs \in Nat
    /\ MaxLap \in Nat \ {0}
    /\ {LapInfoOnChange, GameRestarts, Faulty} \subseteq BOOLEAN

Laps == 1..MaxLap

Frame == [ts: Nat, lap: Laps, info: BOOLEAN, pit: BOOLEAN, ok: BOOLEAN]

ASSUME NoneAssumption == None \notin Frame

Open == -1  \* end_frame is None: the lap is not over
NoLap == 0  \* current_lap_num = -1: no lap seen in this recording

LapMarker == [lap: Laps, start: Nat, end: Nat \cup {Open},
              pitIn: BOOLEAN, pitOut: BOOLEAN]

NoFile == [frames |-> <<>>, laps |-> <<>>]

VARIABLES
    recording, paused,  \* the two flags of the object
    queue,              \* the ring: frames, and the sentinel behind them
    drops,              \* stats.drop_count
    stopPc,             \* where stop() is: not running, or at one of its awaits
    writer,             \* where the writer task is
    lastTs, written, curLap, inPits, \* the writer's locals
    markers,            \* self._lap_markers
    file,               \* what is on disk under current_file
    captured, skips,    \* history: frames accepted, frames the rate control skipped
    clock, lap, sentLap \* the reader: time, the car's lap, the reader's _last_lap

taskVars == <<writer, lastTs, written, curLap, inPits, markers, file, skips>>
readerVars == <<clock, lap, sentLap>>
vars == <<recording, paused, queue, drops, stopPc, captured, taskVars, readerVars>>

Init ==
    /\ recording = FALSE /\ paused = FALSE /\ stopPc = "idle"
    /\ queue = <<>> /\ drops = 0
    /\ writer = "none" /\ lastTs = 0 /\ written = <<>>
    /\ curLap = NoLap /\ inPits = FALSE /\ markers = <<>> /\ file = NoFile
    /\ captured = <<>> /\ skips = 0
    /\ clock = 0 /\ lap = 1 /\ sentLap = NoLap

-----------------------------------------------------------------------------
(* The control API.                                                        *)

Start_KeepsMarkers ==  \* mutant: the previous recording's lap markers survive
    /\ ~recording /\ stopPc = "idle"
    /\ recording' = TRUE /\ paused' = FALSE
    /\ queue' = <<>> /\ drops' = 0
    /\ writer' = "first" /\ lastTs' = 0 /\ written' = <<>>
    /\ curLap' = NoLap /\ inPits' = FALSE /\ file' = NoFile
    /\ captured' = <<>> /\ skips' = 0
    /\ UNCHANGED <<stopPc, markers, readerVars>>

Start ==
    /\ ~recording /\ stopPc = "idle"
    /\ recording' = TRUE /\ paused' = FALSE
    /\ queue' = <<>> /\ drops' = 0
    /\ writer' = "first" /\ lastTs' = 0 /\ written' = <<>>
    /\ curLap' = NoLap /\ inPits' = FALSE /\ markers' = <<>> /\ file' = NoFile
    /\ captured' = <<>> /\ skips' = 0
    /\ UNCHANGED <<stopPc, readerVars>>

(* pause() and resume() set the flag whatever the recorder is doing.       *)
PauseOrResume ==
    /\ paused' = ~paused
    /\ UNCHANGED <<recording, queue, drops, stopPc, captured, taskVars, readerVars>>

Stop_DropsSentinel ==  \* mutant: put_nowait(None), its QueueFull swallowed
    /\ recording
    /\ recording' = FALSE /\ paused' = FALSE
    /\ queue' = IF Len(queue) < Cap THEN Append(queue, None) ELSE queue
    /\ stopPc' = "joining"
    /\ UNCHANGED <<drops, captured, taskVars, readerVars>>

(* stop() up to its first suspension: put(None) suspends on a full queue,  *)
(* and otherwise returns at once and stop() suspends joining the writer.   *)
Stop ==
    /\ recording
    /\ recording' = FALSE /\ paused' = FALSE
    /\ IF Len(queue) < Cap
       THEN queue' = Append(queue, None) /\ stopPc' = "joining"
       ELSE queue' = queue /\ stopPc' = "putting"
    /\ UNCHANGED <<drops, captured, taskVars, readerVars>>

StopPuts ==
    /\ stopPc = "putting" /\ Len(queue) < Cap
    /\ queue' = Append(queue, None)
    /\ stopPc' = "joining"
    /\ UNCHANGED <<recording, paused, drops, captured, taskVars, readerVars>>

StopReturns_NoJoin ==  \* mutant: stop() does not await the writer task
    /\ stopPc = "joining"
    /\ stopPc' = "idle"
    /\ UNCHANGED <<recording, paused, queue, drops, captured, taskVars, readerVars>>

StopReturns ==
    /\ stopPc = "joining" /\ writer \in {"done", "failed"}
    /\ stopPc' = "idle"
    /\ UNCHANGED <<recording, paused, queue, drops, captured, taskVars, readerVars>>

-----------------------------------------------------------------------------
(* The reader's callback.                                                  *)

OnFrame_DropNewest(f) ==  \* mutant: a full ring refuses the new frame
    IF ~recording \/ paused
    THEN UNCHANGED <<queue, drops, captured>>
    ELSE /\ captured' = Append(captured, f)
         /\ IF Len(queue) < Cap
            THEN queue' = Append(queue, f) /\ drops' = drops
            ELSE queue' = queue /\ drops' = drops + 1

OnFrame_IgnoresStop(f) ==  \* mutant: the flags are not looked at
    /\ writer \in {"first", "loop"}
    /\ captured' = Append(captured, f)
    /\ IF Len(queue) < Cap
       THEN queue' = Append(queue, f) /\ drops' = drops
       ELSE queue' = Append(Tail(queue), f) /\ drops' = drops + 1

OnFrame(f) ==
    IF ~recording \/ paused
    THEN UNCHANGED <<queue, drops, captured>>
    ELSE /\ captured' = Append(captured, f)
         /\ IF Len(queue) < Cap
            THEN queue' = Append(queue, f) /\ drops' = drops
            ELSE queue' = Append(Tail(queue), f) /\ drops' = drops + 1

NextLaps ==
    {l \in {lap, lap + 1} : l <= MaxLap} \cup (IF GameRestarts THEN {1} ELSE {})

(* One poll: the reader builds a frame and calls back.  TelemetryReader    *)
(* puts lap_info only in the first frame of a lap, DemoReader in each.     *)
Poll ==
    \E d \in Gaps, l \in NextLaps, p \in BOOLEAN, ok \in {TRUE, ~Faulty} :
        /\ clock + d <= MaxTs
        /\ clock' = clock + d /\ lap' = l /\ sentLap' = l
        /\ OnFrame([ts |-> clock + d, lap |-> l, pit |-> p, ok |-> ok,
                    info |-> LapInfoOnChange => l # sentLap])
        /\ UNCHANGED <<recording, paused, stopPc, taskVars>>

-----------------------------------------------------------------------------
(* The writer task: one action per queue.get().  Its five-second timeout   *)
(* only emits statistics and waits again.                                  *)

FrameIndex == Len(written)

OpenLap_OffByOne(f) ==  \* mutant: the lap starts at the frame before
    [lap |-> f.lap, start |-> FrameIndex - 1, end |-> Open,
     pitIn |-> FALSE, pitOut |-> f.pit]

OpenLap(f) == [lap |-> f.lap, start |-> FrameIndex, end |-> Open,
               pitIn |-> FALSE, pitOut |-> f.pit]

CloseLast_AtIndex(end) ==  \* mutant: the boundary frame belongs to both laps
    IF markers = <<>> THEN <<>>
    ELSE [markers EXCEPT ![Len(markers)].end = end + 1,
                         ![Len(markers)].pitIn = inPits]

CloseLast_First(end) ==  \* mutant: closes self._lap_markers[0]
    IF markers = <<>> THEN <<>>
    ELSE [markers EXCEPT ![1].end = end, ![1].pitIn = inPits]

(* markers with the last one closed at frame end *)
CloseLast(end) ==
    IF markers = <<>> THEN <<>>
    ELSE [markers EXCEPT ![Len(markers)].end = end,
                         ![Len(markers)].pitIn = inPits]

(* The first get(): the channel list is fixed by this frame, and a lap is  *)
(* opened if it names one.                                                 *)
WriterFirst ==
    /\ writer = "first" /\ queue # <<>>
    /\ queue' = Tail(queue)
    /\ LET f == Head(queue) IN
        IF f = None
        THEN /\ writer' = "done"
             /\ UNCHANGED <<lastTs, written, curLap, inPits, markers>>
        ELSE IF ~f.ok
        THEN /\ writer' = "failed"
             /\ UNCHANGED <<lastTs, written, curLap, inPits, markers>>
        ELSE /\ writer' = "loop"
             /\ written' = <<f>> /\ lastTs' = f.ts
             /\ curLap' = IF f.info THEN f.lap ELSE curLap
             /\ markers' = IF f.info THEN Append(markers, OpenLap(f)) ELSE markers
             /\ inPits' = f.pit
    /\ UNCHANGED <<recording, paused, drops, stopPc, file, captured, skips, readerVars>>

WriterFrame_PitLeaks(f) ==  \* mutant: the pit flag outlives the lap
    LET boundary == f.info /\ f.lap # curLap IN
    /\ curLap' = IF boundary THEN f.lap ELSE curLap
    /\ markers' = IF boundary THEN Append(CloseLast(FrameIndex - 1), OpenLap(f)) ELSE markers
    /\ inPits' = (inPits \/ f.pit)
    /\ IF f.ok
       THEN written' = Append(written, f) /\ lastTs' = f.ts /\ UNCHANGED writer
       ELSE writer' = "failed" /\ UNCHANGED <<written, lastTs>>

(* A frame the rate control lets through: lap boundary, pit tracking, pack *)
(* and write.                                                              *)
WriterFrame(f) ==
    LET boundary == f.info /\ f.lap # curLap IN
    /\ curLap' = IF boundary THEN f.lap ELSE curLap
    /\ markers' = IF boundary THEN Append(CloseLast(FrameIndex - 1), OpenLap(f)) ELSE markers
    /\ inPits' = ((inPits /\ ~boundary) \/ f.pit)
    /\ IF f.ok
       THEN written' = Append(written, f) /\ lastTs' = f.ts /\ UNCHANGED writer
       ELSE writer' = "failed" /\ UNCHANGED <<written, lastTs>>

WriterNext ==
    /\ writer = "loop" /\ queue # <<>> /\ Head(queue) # None
    /\ queue' = Tail(queue)
    /\ IF Head(queue).ts - lastTs < MinGap
       THEN /\ skips' = skips + 1
            /\ UNCHANGED <<writer, lastTs, written, curLap, inPits, markers>>
       ELSE /\ WriterFrame(Head(queue))
            /\ skips' = skips
    /\ UNCHANGED <<recording, paused, drops, stopPc, file, captured, readerVars>>

(* The sentinel: close the last lap, finalise the compressor, write the    *)
(* file.  When the disk refuses, on_error is fired and nothing is there.   *)
WriterFinish ==
    /\ writer = "loop" /\ queue # <<>> /\ Head(queue) = None
    /\ queue' = Tail(queue)
    /\ markers' = IF markers # <<>> /\ Last(markers).end = Open
                  THEN CloseLast(IF FrameIndex = 0 THEN 0 ELSE FrameIndex - 1)
                  ELSE markers
    /\ \/ /\ writer' = "done" /\ file' = [frames |-> written, laps |-> markers']
       \/ /\ Faulty /\ writer' = "failed" /\ file' = file
    /\ UNCHANGED <<recording, paused, drops, stopPc, captured, lastTs, written,
                   curLap, inPits, skips, readerVars>>

Writer == WriterFirst \/ WriterNext \/ WriterFinish

Next ==
    \/ Start \/ PauseOrResume \/ Poll
    \/ Stop \/ StopPuts \/ StopReturns
    \/ WriterFirst \/ WriterNext \/ WriterFinish

Spec == Init /\ [][Next]_vars

(* The event loop runs every task that is ready; nothing makes a caller    *)
(* start, pause or stop, or a game produce frames.                         *)
FairSpec ==
    Spec /\ WF_vars(Writer) /\ WF_vars(StopPuts) /\ WF_vars(StopReturns)

-----------------------------------------------------------------------------
(* extract_lap_frames: the slice of the first marker of that lap.          *)
Slice(frames, m) ==
    SubSeq(frames, m.start + 1, IF m.end = Open THEN Len(frames) ELSE m.end + 1)

ExtractLapFrames(f, l) ==
    LET found == Keep(f.laps, {m \in ToSet(f.laps) : m.lap = l})
    IN  IF found = <<>> THEN <<>> ELSE Slice(f.frames, found[1])

-----------------------------------------------------------------------------
(* Properties.                                                             *)

RingTypeOK ==
    /\ recording \in BOOLEAN /\ paused \in BOOLEAN
    /\ queue \in Seq(Frame \cup {None}) /\ captured \in Seq(Frame)
    /\ drops \in Nat
    /\ stopPc \in {"idle", "putting", "joining"}

TaskTypeOK ==
    /\ writer \in {"none", "first", "loop", "done", "failed"}
    /\ written \in Seq(Frame) /\ lastTs \in Nat /\ skips \in Nat
    /\ curLap \in Laps \cup {NoLap} /\ inPits \in BOOLEAN
    /\ markers \in Seq(LapMarker)
    /\ file \in [frames: Seq(Frame), laps: Seq(LapMarker)]

ReaderTypeOK ==
    /\ clock \in Nat /\ lap \in Laps /\ sentLap \in Laps \cup {NoLap}

TypeOK == RingTypeOK /\ TaskTypeOK /\ ReaderTypeOK

(* The frames of the ring: the sentinel, when there, is behind them all.   *)
QueuedFrames ==
    IF queue # <<>> /\ Last(queue) = None THEN Front(queue) ELSE queue

(* The frame the writer died of, if it did.  When it was the disk that     *)
(* failed it had taken the sentinel, which is otherwise still to come or   *)
(* on the ring.                                                            *)
Untraced ==
    IF writer = "failed" /\ (recording \/ stopPc = "putting" \/ queue # <<>>)
    THEN 1 ELSE 0

(* The ring holds the newest frames captured, in order, and every older    *)
(* one was written, thinned out or counted in drop_count, whatever the     *)
(* interleaving of callback, writer and stop.  One frame at most is lost   *)
(* without a trace: the one the writer died of.  Behind a dead writer the  *)
(* ring goes on taking frames and counting those it drops.                 *)
EveryFrameAccounted ==
    LET n == Len(QueuedFrames) IN
    /\ Len(queue) <= Cap
    /\ QueuedFrames = SubSeq(captured, Len(captured) - n + 1, Len(captured))
    /\ Len(captured) = Len(written) + skips + drops + n + Untraced

(* Lap markers cut the recording into consecutive, non-empty ranges, of    *)
(* which only the last may be open, and none once the writer has finished. *)
LapsContiguous ==
    writer # "failed" =>
        \A i \in DOMAIN markers :
            LET m == markers[i] IN
            IF i < Len(markers)
            THEN m.start <= m.end /\ m.end = markers[i + 1].start - 1
            ELSE IF writer = "done"
                 THEN m.start <= m.end /\ m.end = FrameIndex - 1
                 ELSE m.end = Open /\ m.start < FrameIndex

(* is_pit_in_lap says whether a frame of that lap was driven in the pits.  *)
PitInLapsTrue ==
    \A i \in DOMAIN file.laps :
        LET m == file.laps[i] IN
        m.pitIn <=> \E k \in m.start .. m.end : file.frames[k + 1].pit

(* A lap can be got back out of the file whole: extract_lap_frames returns *)
(* every recorded frame of the lap and none of another.                    *)
LapsExtractable ==
    \A l \in Laps :
        ExtractLapFrames(file, l) = Keep(file.frames, {f \in ToSet(file.frames) : f.lap = l})

(* Every frame in the range of a lap's marker was driven on that lap.      *)
MarkedFramesBelong ==
    \A i \in DOMAIN file.laps :
        LET m == file.laps[i] IN
        \A k \in m.start .. m.end : file.frames[k + 1].lap = m.lap

(* When stop() has returned, the writer has ended; unless it failed, the   *)
(* ring is drained and the file holds everything that was written.         *)
StopMeansSaved ==
    ~recording /\ stopPc = "idle" /\ writer # "none" =>
        /\ writer \in {"done", "failed"}
        /\ writer = "done" => queue = <<>> /\ file.frames = written

(* During a recording the markers of finished laps never change, and what  *)
(* was written stays written.                                              *)
PastIsFixed ==
    [][ (writer' = "first" /\ recording' # recording)
        \/ /\ IsPrefix(written, written')
           /\ \A i \in DOMAIN markers :
                markers[i].end # Open => i \in DOMAIN markers' /\ markers'[i] = markers[i] ]_vars

(* A stop() returns, whether the writer goes on, dies on the way or has    *)
(* died before: all but one that finds the ring full behind a dead writer. *)
StopTerminates ==
    stopPc # "idle" /\ ~(stopPc = "putting" /\ Len(queue) = Cap /\ writer = "failed")
        ~> stopPc = "idle"

(* Every stop() returns: not so, see above (Recorder_WriterFailure.cfg).   *)
EveryStopReturns == stopPc # "idle" ~> stopPc = "idle"

(* The recorder implements the lossy tape.                                 *)
TapePhase ==
    CASE recording -> "recording"
      [] ~recording /\ stopPc # "idle" -> "ending"
      [] OTHER -> "idle"

Tape == INSTANCE LossyTape WITH
    Frames <- Frame, Empty <- <<>>,
    phase <- TapePhase, tape <- written \o QueuedFrames, published <- file.frames

ImplementsTape == Tape!Spec
=============================================================================
