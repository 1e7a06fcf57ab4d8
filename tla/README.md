# A TLA+ model of TeleMU

TeleMU reads telemetry out of a racing game's shared memory, shows it on a
dashboard, records it to `.tmu` files and streams it over the LAN from a
driver's machine to race engineers. This directory holds TLA+ models of the
parts of its Python backend (`src/backend/telemu`) in which tasks, threads,
queues and connections meet, the TLC configurations that check them on small
instances, and TLAPS proofs for every value of the constants.

Run from this directory:

    tlc -workers 2 -config Recorder.cfg Recorder     # any run listed below
    tlapm RecorderProofs.tla                         # any module of section 5

## 1. Inventory

The backend is one asyncio process. `reader.py` polls the shared memory and
calls its subscribers with a frame (`TelemetryFrame`); everything else hangs
off those callbacks, off the REST API and off WebSocket and TCP connections.

| Component (backend/telemu) | State | Operations | Hard behaviour | What makes it correct |
|---|---|---|---|---|
| `reader.py` TelemetryReader, DemoReader | poll task, callback list, last lap | start, stop, subscribe, `_poll_once` | ends by itself when the game is not there; names a lap only once | every new lap is announced, callbacks see frames in order |
| `recording/recorder.py` TelemetryRecorder | ring queue, writer task, lap markers, current file, statistics | start, stop, pause, resume, frame callback, writer loop, `extract_lap_frames` | callback against writer against stop(), full ring, failing frame or disk | no silent loss, laps cut exactly, stop() returns and means saved |
| `recording/live_recorder.py` LiveRecorder | frame list, lap markers, lock | start, stop, `on_frame`, save in a thread | frames arrive through suspended tasks, the save runs outside the lock | what is saved is what was recorded, in one recording only |
| `ws/manager.py`, `ws/router.py`, `main.py` | dict of clients, tasks of frames | connect, disconnect, broadcast, subscribe | the dict changes under a suspended iteration | a healthy client stays, every frame task ends |
| `streaming/server.py` TelemetryStreamer | running flag, TCP server, tasks, socket, registry by IP, sequence number | start, stop, handshake, keep-alive, `on_frame` | start against stop, late handshakes, frame tasks against each other | the status is true, who is served is registered, silence after stop() |
| `streaming/client.py` StreamingClient | reconnect task, state, loss counters, jitter buffer | start, stop, session, packet, flush | cancellation at any await, lost packets, wrap of the numbers | always reconnects, counts losses exactly, keeps order |
| `streaming/streamer.py` TelemetryStreamer (threads), `streaming/client.py` StreamClient (threads) | client table under a lock, a thread per connection, keep-alive thread | start, stop, update_session, push_frame, eviction, connect, disconnect | the threads of a driver write to one socket, evict and register the same client; silent peers | handshakes are undisturbed, only and all silent clients are evicted, stop() ends all |
| `streaming/protocol.py`, and builders in `server.py` | bytes on a stream | pack, parse, read a message with a time-out | a stream that stalls within a message; two drivers and two clients written apart | messages are acted upon in order, who accepts the other agrees with it |
| `compression/delta.py` | last value per channel at both ends | encode, decode, reset | thresholds, resets at different times | what is decoded is near the original |
| `recording/compressor.py` | current chunk, index | write_frame, finalize, read_index | empty and short last chunk, offsets, trailer | every frame is in one chunk of the index |
| `recording/tmu_format.py`, `tmu_file.py`, `tmu_ndjson.py`, `verify.py` | files of four layouts | write, read, verify, repair, update_metadata | a file cut by a crash or changed on the disk, rewriting in place | what is read is what was written, what can be recovered is |
| `recording/converter.py`, `api/convert.py` | files | convert, batch | channels that appear late | every value is in the column of its channel |
| `sharedmem/*` | memory map | copy of the buffer | torn reads | owned by the game |
| `db/*`, `api/{sessions,tables,query,export}.py` | DuckDB connection | SQL | replaced connection | owned by DuckDB |
| `api/*`, `config.py`, `models.py`, `lovense/*` | none of their own | one request each | - | - |
| frontend stores (`alertStore`, `layoutStore`, ...), `ws.ts`, `useTelemetry.ts` | zustand stores, one socket | evaluate alerts, snooze, profiles, reconnect | cool-down against snooze, reconnect timers | an alert fires once per cool-down |
| `src-tauri/src/lib.rs` | the backend process | spawn, wait for the port | a child that is never stopped | - |

How they interact: the reader calls `_schedule_broadcast` (a task per frame:
WebSocket broadcasts, then the live recorder) and `TelemetryStreamer.on_frame`
(a task per frame: UDP packets to each engineer). TelemetryRecorder subscribes
to the reader directly. On the engineer's side StreamingClient takes the place
of the reader: its jitter buffer feeds the same WebSocket manager. The REST API
starts and stops the recorder, the server and the client.

`PROJECT.json` lists the components with their files and, under `hazards`, what
is hard to test, each at its line with the properties that cover it.

## 2. Modules

### Recorder, LossyTape, Selection, RecorderProofs

`Recorder` is `recorder.py`. Its state is the object's flags, the ring
(`queue`: frames and, behind them, the sentinel `None` that stop() sends), the
place stop() waits at (`stopPc`), the writer task (`writer` and its locals) and
the file. One action is what the event loop runs between two suspensions:
`OnFrame` is the callback (drop the oldest when full), `WriterFirst`,
`WriterNext`/`WriterFrame` and `WriterFinish` are the writer loop, `Stop`,
`StopPuts` and `StopReturns` are stop() up to, at and after its awaits. On
Python 3.13 `wait_for(queue.get())` does not suspend while the queue is not
empty; the model lets the callback run between any two gets, which is more.
The reader is part of the model: `LapInfoOnChange` tells TelemetryReader (a lap
is named in its first frame) from DemoReader (in every frame). `Faulty` allows
frames that cannot be packed and a disk that refuses the file. A failure ends the
writer task only: the callback goes on filling the ring, and `Untraced` is the one
frame the writer had taken and nothing counts.

`LossyTape` is the abstract recorder: frames go onto a tape in order, each may
be lost but never repeated or moved, and what is published is the whole tape.
`Recorder` implements it with the tape `written \o QueuedFrames`.

`Selection` has one operator, `Keep`: the elements of a sequence that are in a
set. It stands for the list comprehension of `extract_lap_frames`, and for what
`pop` and `discard` leave of a dict whose order of insertion matters
(`LivePipeline!Without`, `StreamServer!WithoutHost`), and for the channels of a
frame that an engineer has subscribed to (`Exchange!Subset`). It is a recursive function
over the indices and not SelectSeq, whose definition the provers cannot open.

### LivePipeline, LivePipelineProofs

`main.py`, `ws/manager.py` and `live_recorder.py` composed. The event loop is
explicit: `running` is the task that has it, `ready` the tasks that can go on.
A frame's task broadcasts two or three messages (three when the frame has
lap_info) and then calls the recorder. `Visit` is one iteration of the loop over
the dict of clients: nothing to send, a failed send or a suspension. `table` is
the dict as Python keeps it, entries in order of insertion with gaps (`Gone`)
where one was taken out, and `IterationBroken` is the RuntimeError of an iterator
that finds the dict changed in size, or an entry beyond the number it expected
(one client left and another came during an await). The task then ends before
the recorder has seen its frame.
`Save` is the worker thread of stop(), outside the lock. Which client is due a
message is nondeterministic (subscriptions and rate limit).

### StreamServer, StreamServerProofs

`streaming/server.py` with the checks of `api/streaming.py`. Calls of start()
and stop() are numbered and make resources with their number: server, socket,
two background tasks. `BeginStart`, `Bind`, `EndStart` and `BeginStop`,
`StopWaited`, `Cancel`, `Join`, `EndStop` are the pieces between suspensions.
`Bind` fails when the port is taken, by whomever, and start() then leaves the
running flag and the socket behind. A connection goes through `hello`,
`subscribe`, `serving`, `over`; `HandlerEnds` is every way out of the handler with
its finally clause (`Finally`). `HalfMessage` is a peer that has sent a header and
not its payload, for which the handler waits without a time-out.
`BeginFrame`, `Transmit` (worker thread) and `NextClient` are the task of a frame.

The registry is keyed by IP address and any number of connections may come from
one. What that breaks is kept in `orphans`: a connection in service whose address
another one's end (or stop()) has taken out of the registry. It is alive and sent
nothing. `ServedAreRegistered` says that nobody else is in that position.
`OverlappingCalls` opens the one freedom that breaks properties.

### StreamClient, StreamClientProofs

`StreamingClient` of `streaming/client.py`. `pc` is where the reconnect task
waits; `cancelled` is a cancel() not yet delivered and `leaving` the
CancelledError on its way through the finally clause. `Packet` is the loss
counter with sequence numbers modulo `Width`; `Flush` is the jitter buffer. The
driver goes up and down (`Flip`); a session may end at any time.

### Delta, DeltaMC, DeltaProofs

`compression/delta.py`: `Frame` is what encode() makes of a frame, `Decode` what
decode() makes of it, with frames on their way in between and resets of both
ends. Values are integers (units of resolution). `DeltaMC` gives one channel a
threshold and one none.

### Bytes, TmuFormat, Recordings, Archive

`Bytes` says what a byte string is here: a sequence of cells. Numbers and
padding are bytes with their values, so a wrong offset or width is wrong in the
model too; a text, a float, a JSON or a compressed block is opaque and can be
read back only whole. `TmuFormat` is `tmu_format.py` (header, channel table,
frames, index, footer with CRC; verify_tmu and repair_tmu), `Recordings` the
other three layouts (the NDJSON of LiveRecorder and `tmu_ndjson.py`, the chunked
file of TelemetryRecorder with `compressor.py`, the metadata header of
`tmu_file.py`) and the converter. `Archive` is a file's life: one of the writers
makes it (`SaveLive`, `SaveNamed`, `SaveChunked`, `SaveBinary`, `SaveMetadata`),
`Edit` rewrites it in place, `Crash` leaves any prefix, `Flip` changes one byte,
and a tool reports (`Read`, `ConvertFile`, `VerifyFile`, `RepairFile`).

### Wire, Exchange, ExchangeMC, ExchangeProofs

`Wire` holds the codecs of `protocol.py` and, as `Build...`, those `server.py`
has of its own. `Exchange` puts one driver and one engineer at the ends of a
stream of those cells: either driver (streamer.py, server.py) with either client
(StreamClient, StreamingClient); server.py reads a bit mask where the others have
ids (`Mask`, `MaskIn`, `Bits`). `Framing` and the operators after it are how a
side cuts messages out of the stream; `Stall` is a time-out within a message
(which makes `_recvall` drop what it has) and `Broken` a read that gave None. A
side that has said DISCONNECT, or read one, is not silent at once: it is
`leaving` or `over`, in which its other threads still write, until `Closes`.
`PushFrame` adds to the set of `datagrams`, from which `Receive` takes any one, so
they are lost, repeated, reordered and late; `Selected` leaves the channels of the
subscription, or all of them when it is empty. `Discover` is one discovery packet,
seen or not.

What a deployment chooses is constant: the lists of channels a driver of
streamer.py may have (server.py's is in the code), the ids a StreamClient asks
for, its port. The assumptions on them are those of the fields: numbers fit two
bytes and names theirs (a longer name is cut, which is not modelled), and the
WELCOME and the SUBSCRIBE fit the length in their header. A list may be empty. The
frame that is pushed (`FrameNow`) has values for up to two channels and for one
that no list has. `ExchangeMC` has the channels of the runs.

### Streamer, ThreadedLink, ThreadedLinkProofs

`Streamer` is the driver of `streamer.py` with its threads: `Accept` to
`Register` is the handshake in `_handle_client`, `Dispatch` and `LoopEnds` its
loop, `Finish` its `_remove_client`; `Wake`, `PingOne`, `Evict` and `RoundOver`
are the keep-alive thread, with the snapshot it works on; `StopSet`, `StopSay`,
`StopClose` are stop() and `UpdateSession` is a caller's. What happens under the
lock is one action. Time is counted in rounds of 5 s. `ThreadedLink` adds the
engineers (`Connect` to `TakeSubscribed`, `TakeControl`, `Leave`, `Close`), who
may also fall silent for good.

### SeqFacts

Lemmas about sequences and the operators of the models: Head, Tail, Front, Last,
Append, concatenation, prefixes, RemoveAt, Contains, ToSet and `Keep`. Every
module of proofs but `DeltaProofs` EXTENDS it.

How the modules fit: `Recorder` INSTANCEs `LossyTape`; `Archive` EXTENDS
`Recordings`, `TmuFormat`, `Bytes`; `Exchange` EXTENDS `Wire`, `Bytes`, `Selection`;
`ThreadedLink` EXTENDS `Streamer`; `Recorder`, `LivePipeline` and `StreamServer`
EXTEND `Selection`, and `Recorder`, `LivePipeline`, `StreamServer` and
`StreamClient` each compose their component with what surrounds it. A module
`XProofs` EXTENDS `X`.

## 3. Runs

| Run | Question | Bounds and why they are enough |
|---|---|---|
| `recorder` | laps out of the file, implements LossyTape | ring of 2, rate limit that skips every other frame, 6 ticks, 3 laps: overflow, thinning, two boundaries and a second recording all happen |
| `recorder_faults` | accounting, lap ranges, pit flags, what stop() promises, that it returns | as above with faults and a lap named once; 5 ticks, 2 laps, so that the writer can fail with room in the ring and without, and another recording follow. `StopTerminates` leaves out the one stop() that cannot return: it finds the ring full behind a dead writer |
| `live_recording` | lap ranges, saved contents, two recordings kept apart | 3 frames (a lap of one and a lap of two), 2 recordings, 1 client, enough for any task to be overtaken |
| `live_clients` | healthy clients stay; tasks end, before the recorder only if clients came or went meanwhile | 2 clients, so that one leaves while the other comes and the size stays the same; 2 tasks |
| `stream_server` | status, registry, silence, end of calls | 4 calls (a start() that cannot bind, stop() and start() again), 2 connections of two hosts or of one, 1 frame. Two connections are all that an address needs to be fought over |
| `stream_server_sequence` | *finding*: one number for two frames | 2 hosts, 2 frames |
| `stream_client` | losses, order, state, reconnection | numbers modulo 8 from every start, bursts of 2, 5 frames: every wrap; 3 calls, the driver changes 3 times |
| `delta` | decoded near original | 2 channels, values 0, 1, 2, 4, 2 frames on their way |
| `archive` | what was written is read, verified, repaired, converted | 3 frames in chunks of 2 (empty, short and full last chunk), cut at every byte, any one byte changed; 2 edits, one longer and one shorter |
| `exchange` | messages in order, who agrees after the handshake and who does not, frames | all four pairs; 2 messages a side after the handshake (a DISCONNECT and one behind it), one stall anywhere, 2 frames; no channels, and two, with ids that are counted from 0 or not; two ports. The constraint `FewAtOnce` lets one message be said after the handshake once frames are about: the two share nothing but the ends of a connection. The properties are proved for any number of messages, frames and channels without it; two stalls are another matter, see below |
| `exchange_frames` | *finding*: frames of server.py are not understood | 1 datagram |
| `threaded_link` | handshakes, evictions, end of stop() | 1 connection, eviction after 3 rounds, 2 updates. Connections meet only in the registry and in the snapshot of the keep-alive thread, which treats each by itself; with two the state space squares. The safety properties are proved for any number |

Every property of a passing run is broken by a mutant of a definition (the
operators marked `mutant` in the modules).

The kinds of state that would be unbounded (frames, laps, calls, connections,
messages, time-outs) are cut by guards on the constants named `Max...`.

### Findings

Both are in `PROJECT.json` with the lines they contradict.

* `stream_server_sequence`: the sequence number is read again after an await.
* `exchange_frames`: the telemetry header of `server.py` is a byte shorter than
  the one both clients decode, so the server that `main.py` starts streams
  frames no client of the program understands.

### Further configurations

These check one property that TLC refutes, of behaviour the code has and its
authors may or may not want. They are kept for whoever changes that code.

| Configuration | Property | What happens |
|---|---|---|
| `Recorder_LapSentOnce.cfg` (Recorder) | `MarkedFramesBelong` | the rate control thins out the only frame that names a new lap, and the boundary with it |
| `Recorder_WriterFailure.cfg` (Recorder) | `EveryStopReturns` | the writer has died, the ring is full, and stop() waits for room for ever |
| `LivePipeline_Order.cfg` (LivePipeline) | `RecorderSeesReader` | a frame whose broadcast is suspended is recorded after a later one, or never |
| `StreamServer_Restart.cfg` (StreamServer) | `StatusTrue` | start() during the wait in stop(): what it made is then closed, the status says running |
| `ExchangeMC_Stalls.cfg` (ExchangeMC) | `MessagesInOrder` | a DISCONNECT, 8 bytes, comes in pieces with two time-outs between them: `_recvall` throws each piece away as a header cut short, and the PING that another thread has sent behind it is answered as if nobody had left |
| `Archive_Verify.cfg` (Archive) | `RecordingsVerify` | `telemu-verify` refuses every file the program's own recorders write |

### Known deviations

Met while modelling; each is visible in a definition of the models.

* The pair that `main.py` runs, server.py and StreamingClient, completes the
  handshake and never understands each other. server.py reads a SUBSCRIBE as a
  bit mask (the UDP port 9100 in it selects channels 2, 3, 7, 8, 9 and 13), ignores
  the port it is told and sends to 19741 while StreamingClient binds 9100; its SUBSCRIBED
  carries a mask that makes StreamClient.connect() raise; it has protocol
  version 1 where `protocol.py` has 2, and other codes for the reasons of a
  DISCONNECT; it never sends PING, so that every session of a client ends after
  15 s without a control message.
* StreamingClient subscribes the ids 0 to n-1 whatever ids the driver announced,
  and always names port 9100.
* A version mismatch is answered by closing, not with DISCONNECT.
* start() of server.py on a port that is taken raises with the running flag set
  (`server.py:281`): the status says running and only stop() clears it.
* Its registry is keyed by IP address: when one of two connections of an address
  ends, the other one is alive and sent nothing.
* It awaits payloads without a time-out (`server.py:402`), so a peer that stalls
  within a message keeps stop() waiting.
* A damaged LZ4 block raises RuntimeError, which StreamClient's telemetry thread
  does not catch: it ends.
* A UDP packet that is late or repeated is counted as a loss of -1 or moves the
  last sequence number back, so that the next one is counted twice.
* The back-off of StreamingClient is never reset (`client.py:241`): the flusher has
  no end, so a session ends only by an exception.
* `on_client_disconnected` is called twice for an evicted client and once for a
  client whose handshake failed. A registration after stop() has cleared the
  registry stays until its thread looks at the stop event. The keep-alive thread
  may do one more round after stop(), behind its DISCONNECT.
* StreamClient.connect() that times out fails with TypeError and leaves its
  sockets open; disconnect() from `on_disconnected` would join its own thread.
* repair_tmu makes up the two example frames when it recovers none. The CRC does
  not cover the footer, so a damaged frame count passes verify_tmu. verify_tmu
  raises when the channel table is cut. iter_tmu takes a file that ends after
  its header for an empty recording. repair_tmu goes round as often as the footer
  says (`tmu_format.py:479`), which a damaged file may put beyond any number it could
  reach (`Never`).
* A file of the metadata layout that a crash in update_metadata cuts within its
  frames is read as if nothing were missing (`CutBehindMetadata`).

## 4. Fairness

`Recorder`: weak fairness of the writer task and of a suspended stop(): the event
loop runs what is ready. A stop() that waits for room in the ring is not ready,
and behind a dead writer there will never be any: `StopTerminates` excludes it. None for callers and the reader. `LivePipeline`: of
resuming ready tasks, of the steps of the running task, of the end of a send
(a socket write completes or fails) and of the worker thread. `StreamServer`: of
the calls, the background tasks and of handlers that are *due*: in a handshake
(10 s time-outs), closed by stop(), or serving a server that no longer runs (30 s
time-out). Only headers are awaited with a time-out, so a handler within a message
(`half`) is not due, nothing makes a peer send the rest, and `CallsEnd` supposes
that no peer stalls within a message for ever. `StreamClient`: of the reconnect task, of a joined
call, of the end of a session whose driver is down, and of the flusher. Nothing
makes a client, driver or caller do anything. `ThreadedLink`: of each thread (the
connection's, the engineer's reader, the keep-alive thread), of the clock, and of
a stop() that has been called; nobody has to connect, leave or call. `Archive`,
`Exchange` and `Delta` state safety only.

## 5. Proofs

There are 31 theorems in seven modules and the lemmas of `SeqFacts`. They
hold for every value of the constants that the named ASSUMEs allow, and, where the
table names one, under a hypothesis. Every property the table names
is also checked by a run of section 3.

| Theorem (module) | Property | Hypothesis |
|---|---|---|
| `TypeCorrect` (RecorderProofs) | `TypeOK` | |
| `LapsCorrect` | `LapsContiguous` | |
| `StopCorrect` | `StopMeansSaved` | |
| `PitCorrect` | `PitInLapsTrue` | |
| `PastCorrect` | `PastIsFixed`, an action property | |
| `LapsCanBeExtracted` | `LapsExtractable` | `~LapInfoOnChange`, `~GameRestarts` |
| `FramesAccounted` | `EveryFrameAccounted` | |
| `RecorderIsLossyTape` | `ImplementsTape`, the refinement | `~Faulty` |
| `PipelineTyped` (LivePipelineProofs) | `TypeOK` | |
| `SavesWhatWasStopped` | `SavedAsStopped` | |
| `SavesContiguousLaps` | `SavedLapsContiguous` | |
| `ClientsKept` | `HealthyClientsStay`, an action property | |
| `ServerTyped` (StreamServerProofs) | `TypeOK` | |
| `SubscribersRegistered` | `ServedAreRegistered` | |
| `StatusReported` | `StatusTrue` | `~OverlappingCalls` |
| `NothingSentWhenStopped` | `SilentWhenStopped`, an action property | `~OverlappingCalls` |
| `LossesCounted` (StreamClientProofs) | `LossesExact` | |
| `BroadcastsInOrder` | `BroadcastAsReceived` | |
| `StateReported` | `StateHonest` | |
| `NoHandshakeDisturbed` (ThreadedLinkProofs) | `HandshakeUndisturbed` | |
| `RegistryHasThreads` | `NoGhosts` | |
| `HealthyNotEvicted` | `OnlySilentEvicted`, an action property | |
| `BacklogBounded` | `TypeOK` | |
| `DeltaTypeCorrect`, `DeltaFaithful`, `DeltaInStep` (DeltaProofs) | `TypeOK`, `Faithful`, `InStep` | |
| `Safety`, `TypeCorrect` (ExchangeProofs) | the inductive invariant, its types | |
| `InOrder` | `MessagesInOrder` | `MaxStalls <= 1` |
| `Handshake` | `HandshakeAgreed` | |
| `Frames` | `FramesTrue` | |

None of the hypotheses is there for the prover's sake. Each excludes behaviour
in which the code breaks the property:

* `LapInfoOnChange` is TelemetryReader, whose only frame with a lap's name may be
  thinned out (`Recorder_LapSentOnce.cfg`); a game that starts again uses a lap
  number twice (laps 1, 2, 1), and `extract_lap_frames` returns the first.
* After a fault the writer fails and what it had written is never published,
  which LossyTape does not allow.
* `OverlappingCalls`: see `StreamServer_Restart.cfg`.
* A time-out within a header takes away up to six bytes, so two take a whole
  DISCONNECT of eight without a trace, and what is said behind it is acted upon
  (`ExchangeMC_Stalls.cfg`); one cannot. The other theorems of ExchangeProofs hold
  for any number.

### Recorder

The invariant under everything is `TypeOK`, `SentinelLast` (the sentinel is only
ever the last entry, and only while stop() is in progress) and `Lifecycle`
(which writer states go with which stage of stop()). None of the properties is
inductive without it: that nothing is in the ring when the writer ends, for one,
holds because the writer ends only at the sentinel and the sentinel is last.

* `LapsContiguous` is inductive with it. Only the writer touches markers.
* `PitInv` says for the writer's loop what `PitInLapsTrue` says for the file: the
  flags of the closed laps are right, and `inPits` is the flag of the open one
  up to the last frame.
* `LapsExtractable` needs that laps only go up on their way from the car through
  the ring to the writer (`LapsGrow`: a frame overtakes none, so dropping and
  thinning cannot put one back) and that the markers cut what has been written
  into its laps (`Sliced`: a marker bounds exactly the frames of its lap, and no
  lap has two). `KeepStretch` then says that a stretch and a selection by lap are
  the same sequence.
* `Accounted`: the ring is the *end* of what was captured (`IsEnd`), and the
  captured frames are the written, the skipped, the dropped and the queued and,
  once a writer has failed, the one it failed on (`Untraced`). A writer cannot fail
  on the last frame of a recording that is being stopped and leave an empty ring
  behind, because the sentinel is in it (`SentinelThere`).
* The refinement takes every step of `Recorder` to one of `LossyTape` or to a
  stutter: a tick adds to the end of the tape and may lose the first of the ring,
  which is in the *middle* of `written \o QueuedFrames`; the writer moves the
  boundary between the two or loses the frame at it; stop() publishes when the
  ring is empty. `Reliable` says that no frame in the ring fails to pack.

### LivePipeline

`TaskInv` is the types with `Sends` (a task within a broadcast has a message left
and drops only clients whose send failed). `RecordingInv` relates the recorder
to the thread that saves: a recording that was stopped has the frames it had
then, whoever is still suspended, because a late task finds `active` false or a
newer recording (`Stopped`); the laps of a running recording cut its frames
but for the last lap, which is open and has a frame (`Growing`); those of a
stopped one cut them all (`Cut`), in the hands of the thread as on the disk.

### StreamServer

`TypeInv` adds to the types what they need: connections have a host and the
server that took them (`Made`), a frame being sent has somebody to be sent to
(`Sending`), numbers were used by frames (`Numbered`).

`ServedInv`: who is registered is served, with one connection per address
(`OnePerHost`); a connection that is served and not orphaned has its address in the
registry, be it for another connection's sake (`Reached`); and only served ones are
closed by stop() (`ShutLate`). It needs no hypothesis on calls or hosts. `LifeInv`
says call by call what start() and stop() have done at each of their suspensions
(`Starting`, `Stopping`), that only one of them is on its way, and that otherwise
the server is wholly up (`IsUp`), wholly down (`IsDown`) or what a start() that could
not bind leaves behind (`IsUnbound`). `SilentWhenStopped` follows because the socket
is gone.

### StreamClient

`DataInv` has the counters (`Counted`: received plus lost spans the driver's
frames of the session, and the expected number is that of the last frame modulo
`Width`) and the jitter buffer (`Buffered`: received is broadcast, then buffered).
`Width` is a constant and no number, so that SMT has nothing to say about `%` by
it; `MultipleAbove` to `LossesOfAGap` derive what is needed from the definition of
division. `TaskInv` relates the state shown to where the task is and who waits
for it.

### ThreadedLink

`IInv` says of each connection how far the two ends of the handshake are and what
lies between them (`Talk`), that the registry and the keep-alive thread know it
only after the handshake (`Entry`), and that an engineer who answers is at most
one round old, with its PING or PONG under way (`Kept`). The steps of one
connection leave the others alone (`OthersSame`), so that the proof looks at one.
It holds for any set of connections and so lifts the one connection of the run.

`TypeOK` bounds the messages that pile up in front of a silent engineer. It needs
the invariant `MailInv`: what lies in both directions is at most what the rounds
since the last PONG, the updates and the farewell account for (`Room`).

### Delta

`DeltaFaithful` and `DeltaInStep` are not inductive alone. `Chain` says that
every frame on its way is genuine, that each starts from what the one before
left the encoder with (or from nothing, after a reset), that the last left it
where it is, and that the decoder agrees with the start of the first.
`DecodesToAfter` is the heart: a decoder in step decodes to what the encoder
tracks, so errors cannot add up.

### Exchange

What is proved here is about bytes, so the first half of the module is about what
the codecs write and read. `Part(data, off, x)` says that `x` lies in `data` at
`off`; `Joined`, `PartRead` and `PartOfPart` follow a field from the `\o` that
wrote it to the `At` that reads it, and `ReadBack`, `ScalarBack` and `WholeOpaque`
say that a number, a float or a block comes back as what it was, if it fits its
field. On them rest one lemma per message (`HelloSayable`,
`WelcomeFacts`, `SubscribeFacts`, `SubscribedFacts`, `Discovered`, `FrameBack`), and
`NoFrame`: a frame of server.py is refused because its last channel is one byte
short behind the longer header.

`Flow` says of one direction what is on its way. In the handshake it is exactly
the bytes of the messages that are said and not yet read (`Carries`), and what is
read followed by these is what is said (`Aligned`). After it, it may instead be
the rest of a message that a time-out has beheaded (`Astray`): then its first cell
is not the `T` of the magic. For after the handshake a side says nothing but what is
`Plain` (`Courteous`): PING, PONG, SESSION_UPDATE and DISCONNECT, which have that
byte at the beginning and nowhere else, and are longer than the six bytes that a
time-out takes at most. So a read finds a header that is none, and the connection
ends. How much is said behind a DISCONNECT makes no difference to this; it would
with a second time-out, which can take what the first has left of one.

`IInv` is that for both directions, with what each state of a side says about what
has been said and read (`Stages`), what the second message of the engineer and the
first of the driver were (`WishSaid`, `WelcomeSaid`), what follows of it for
`learned` and `client` (`Learned`, `Agreed`; `Granted` and `Answered` are the two
drivers' replies to a SUBSCRIBE), and that server.py connects to StreamingClient
only (`Met`). `HandshakeAgreed` and, up to one time-out, `MessagesInOrder` are
consequences. `Pushed` adds what every datagram there is decodes to; it uses that
the subscription does not change once frames are pushed.

### Data

The induction theorems of the library take an operator as a parameter and cannot
be used here. What a recursive function computes for every input is proved by
its least counterexample instead: `LeastNat` (from NatLessThanWellFounded) gives
the least element of a set of numbers, `Climb` turns that into a step from n to
n + 1 over a set, `Unfold` shows in this way that the recursive definition has a
function, and `KeepUnfolds` opens `Keep`.

### Only model-checked

* Liveness: `StopTerminates`, `TasksEnd`, `CallsEnd`, `Reconnects`,
  `SilentEvicted`, `StopEnds`. TLAPS has no rules for fairness and ENABLED.
* Archive: `ReadsTrue`, `VerifiedIsTrue`, `RepairSaves`, `ConvertedWhole`. They
  compare byte strings that are put together by flattening sequences of records
  of different lengths, cut or damaged anywhere, and parsed again; a proof would
  be an induction over the records for each layout.

## 6. Plan

The models are done: Recorder with LossyTape, LivePipeline, StreamServer,
StreamClient, Delta, Archive (with TmuFormat and Recordings), Exchange (with Wire)
and ThreadedLink (with Streamer). So are the proofs of every safety property of
all of them but Archive. What is left is Archive: that the index `Recordings`
builds has every frame in one chunk, for any chunk size, and from it that what
was written is read. The lemmas of `ExchangeProofs` about parts of byte strings
and about tables of fields (`FlattenBlocks`) are those it needs first; its records
differ in length, which they do not cover.

## 7. Not modelled

Rendering, REST plumbing, SQL, the game's structures (and torn reads of them) and
the Lovense device have no state of their own worth a model; the tables of
`recording/channels.py` and the struct layout of `serializer.py` have none at
all. `alertStore` (cool-down, snooze, history) and the other dashboard stores
handle one event at a time; `ws.ts` opens a second socket when connect() is called
before the first one is open, which needs no interleaving to see.

Left out of the modelled parts:

* overlapping start and stop of the recorder and of the streaming client
  (`client.py:211`), and the reader's own start, stop and failures;
* shutdown (`main.py:104` stops the reader but neither recorder nor streamer);
* a broadcast that fails in the flusher (`client.py:437`), a
  connect() that times out (`client.py:562`), disconnect() after a connect() that
  failed, sockets that disconnect() takes away from under its threads
  (`client.py:689`);
* server.py taking a message with a wrong magic for a SUBSCRIBE of all channels
  (`server.py:421`): no engineer of the program sends one;
* telemetry that is delayed past a new connection;
* frames above the UDP payload of 1400 bytes (`protocol.py:524`);
* reordered or repeated packets in the counters of StreamingClient; a lost frame of the delta
  stream, rounding and NaN;
* reuse of Python object ids; discovery on the network beyond its packets; rate
  statistics; several files in one conversion and its output paths.
