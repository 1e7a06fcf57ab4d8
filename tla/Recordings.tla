----------------------------- MODULE Recordings -----------------------------
(***************************************************************************)
(* The other layouts of .tmu files in recording/, as they are written and  *)
(* read: the NDJSON file of LiveRecorder and of tmu_ndjson.py, which the   *)
(* converter to DuckDB reads; the chunked file of TelemetryRecorder        *)
(* (compressor.py within recorder.py); and the header with session         *)
(* metadata of tmu_file.py, behind the /recordings endpoints.              *)
(*                                                                         *)
(* JSON texts are opaque blocks with a record in them, lz4 and zstandard   *)
(* blocks opaque blocks with what was compressed; either can be read back  *)
(* only whole.                                                             *)
(***************************************************************************)
EXTENDS TmuFormat

(* A reader's file object: read(n) gives less only at the end.             *)
Framed(data, magic) ==
    LET n == Len(magic)
        size == Number(At(data, n, 4))
    IN  IF At(data, 0, n) # magic \/ Len(data) < n + 4 + size THEN Raises
        ELSE Gives([header |-> At(data, n + 4, size), rest |-> From(data, n + 4 + size)])

-----------------------------------------------------------------------------
(* tmu_ndjson.py and live_recorder._write_tmu.                             *)

HeaderJson(header) == Json(header, 150)

NdjsonFile(header, lines) ==
    Magic \o U(150, 4) \o HeaderJson(header) \o Compressed("zstd", lines)

(* A sample as a line of JSON: a lap marker is left out when there is none. *)
Line(frame) ==
    IF frame.marker = <<>> THEN [ts |-> frame.ts, channels |-> frame.channels]
    ELSE [ts |-> frame.ts, channels |-> frame.channels, lap_marker |-> frame.marker[1]]

Lines(frames) == [i \in DOMAIN frames |-> Line(frames[i])]

(* The recorder's own header has no list of channels.                      *)
LiveFile(track, car, frames, markers) ==
    NdjsonFile([track |-> track, car |-> car, channels |-> <<>>, lap_markers |-> markers],
               Lines(frames))

WriteTmu(header, frames) == NdjsonFile(header, Lines(frames))

OfLine(line) == [ts |-> line.ts, channels |-> line.channels,
                 marker |-> IF "lap_marker" \in DOMAIN line THEN Gives(line.lap_marker)
                            ELSE <<>>]

IterTmu_SkipsTorn(data) ==  \* mutant: a block that does not decompress is no frames
    LET parts == Framed(data, Magic) IN
    IF parts = Raises \/ Whole("json", parts[1].header) = Raises THEN Raises
    ELSE LET lines == Whole("zstd", parts[1].rest) IN
         Gives([header |-> Whole("json", parts[1].header)[1],
                frames |-> IF lines = Raises THEN <<>>
                           ELSE [i \in DOMAIN lines[1] |-> OfLine(lines[1][i])]])

(* iter_tmu: a file that ends with its header is a recording without       *)
(* frames.                                                                 *)
IterTmu(data) ==
    LET parts == Framed(data, Magic) IN
    IF parts = Raises \/ Whole("json", parts[1].header) = Raises THEN Raises
    ELSE LET header == Whole("json", parts[1].header)[1]
             lines == Whole("zstd", parts[1].rest)
         IN  IF parts[1].rest = <<>> THEN Gives([header |-> header, frames |-> <<>>])
             ELSE IF lines = Raises THEN Raises
             ELSE Gives([header |-> header,
                         frames |-> [i \in DOMAIN lines[1] |-> OfLine(lines[1][i])]])

-----------------------------------------------------------------------------
(* converter.py: the columns are those the header names and then the       *)
(* others in the order in which frames bring them; a channel a frame does  *)
(* not have is NULL.  The channels of a frame are pairs of a name and a    *)
(* value, in the order of the dict.                                        *)

Null == "NULL"
KnownFields == {"track", "session_type", "driver", "vehicle", "date", "channels"}

Distinct(s) ==
    LET first == SetToSortSeq({i \in DOMAIN s : \A j \in 1..(i - 1) : s[j] # s[i]}, <)
    IN  [k \in DOMAIN first |-> s[first[k]]]

ChannelNames(frame) == [k \in DOMAIN frame.channels |-> frame.channels[k][1]]

Columns_HeaderOnly(header, frames) ==  \* mutant: frames are not searched for channels
    Distinct(header.channels)

Columns(header, frames) ==
    Distinct(header.channels
             \o FlattenSeq([i \in DOMAIN frames |-> ChannelNames(frames[i])]))

Cell(frame, name) ==
    LET found == SelectSeq(frame.channels, LAMBDA c : c[1] = name)
    IN  IF found = <<>> THEN Null ELSE found[1][2]

Database(header, frames) ==
    LET columns == Columns(header, frames)
        marked == SelectSeq(frames, LAMBDA f : f.marker # <<>>)
    IN  [columns |-> columns,
         channels |-> [i \in DOMAIN frames |->
                        <<frames[i].ts>>
                        \o [k \in DOMAIN columns |-> Cell(frames[i], columns[k])]],
         lap_markers |-> [i \in DOMAIN marked |-> <<marked[i].ts, marked[i].marker[1]>>],
         metadata |-> (KnownFields \cup DOMAIN header) \ {"channels"}]

(* The database of a file, or nothing when the file cannot be read.        *)
Convert(data) ==
    LET read == IterTmu(data) IN
    IF read = Raises THEN Raises ELSE Gives(Database(read[1].header, read[1].frames))

-----------------------------------------------------------------------------
(* compressor.py and the file of TelemetryRecorder around it.              *)

RecorderMagic == <<Byte(84), Byte(77), Byte(85), Byte(86),
                   Byte(50), Byte(82), Byte(69), Byte(67)>>  \* "TMUV2REC"
TrailerSize == 12

(* The chunks of a list of packed frames: the last one may be short.       *)
Chunk(frames, size, i) == SubSeq(frames, size * (i - 1) + 1, Min({size * i, Len(frames)}))

(* StreamCompressor: the chunks, the index and the trailer.                *)
Chunked(frames, size) ==
    LET n == (Len(frames) + size - 1) \div size
        blocks == [i \in 1..n |-> Compressed("lz4", FlattenSeq(Chunk(frames, size, i)))]
        index == [i \in 1..n |-> [offset |-> Total(blocks, i - 1), size |-> Len(blocks[i])]]
    IN  FlattenSeq(blocks) \o Json(index, 20) \o U(Total(blocks, n), 8) \o Magic

ReadIndex(data) ==
    LET trailer == Tailing(data, TrailerSize)
        start == Number(At(trailer, 0, 8))
    IN  IF Len(data) < TrailerSize \/ At(trailer, 8, 4) # Magic THEN Raises
        ELSE Whole("json", At(data, start, Len(data) - TrailerSize - start))

DecompressChunk(data, entry) == Whole("lz4", At(data, entry.offset, entry.size))

(* frames are sequences of values, the timestamp first.                    *)
PackValues(frame) == FlattenSeq([i \in DOMAIN frame |-> Scalar(frame[i], 8)])

RecorderFile(header, frames, size) ==
    RecorderMagic \o U(150, 4) \o HeaderJson(header)
    \o Chunked([i \in DOMAIN frames |-> PackValues(frames[i])], size)

(* The frames of a chunk, of frame_size bytes each.                        *)
FramesOf(raw, size) ==
    [k \in 1..(Len(raw) \div size) |->
        [i \in 1..(size \div 8) |-> AsScalar(At(raw, size * (k - 1) + 8 * (i - 1), 8))]]

ReadRecorderFile(data) ==
    LET parts == Framed(data, RecorderMagic)
        header == IF parts = Raises THEN Raises ELSE Whole("json", parts[1].header)
        index == IF header = Raises THEN Raises ELSE ReadIndex(parts[1].rest)
        chunk(i) == DecompressChunk(parts[1].rest, index[1][i])
    IN  IF index = Raises \/ \E i \in DOMAIN index[1] : chunk(i) = Raises THEN Raises
        ELSE Gives([header |-> header[1],
                    frames |-> FlattenSeq([i \in DOMAIN index[1] |->
                                   FramesOf(chunk(i)[1], header[1].frame_size)])])

-----------------------------------------------------------------------------
(* tmu_file.py: a header and the metadata, before whatever follows them.   *)

MetadataAt == 147

WriteHeader(track, car, session, metadata, w) ==
    Magic \o U(1, 2) \o Scalar("now", 8) \o Str(track, 64) \o Str(car, 64)
    \o U(session, 1) \o U(w, 4) \o Json(metadata, w)

MetadataSize(data) == Number(At(data, MetadataAt - 4, 4))

ReadHeader(data) ==
    IF Len(data) < MetadataAt + MetadataSize(data) \/ At(data, 0, 4) # Magic THEN Raises
    ELSE Whole("json", At(data, MetadataAt, MetadataSize(data)))

(* update_metadata with new notes, which make the metadata w bytes long:   *)
(* what is written in place of the file.                                   *)
UpdateMetadata(data, notes, w) ==
    LET old == Whole("json", At(data, MetadataAt, MetadataSize(data))) IN
    IF At(data, 0, 4) # Magic \/ Len(data) < MetadataAt \/ old = Raises THEN Raises
    ELSE Gives(Upto(data, MetadataAt - 4) \o U(w, 4)
               \o Json([old[1] EXCEPT !.notes = notes], w)
               \o From(data, MetadataAt + MetadataSize(data)))
=============================================================================
