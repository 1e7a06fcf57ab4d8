----------------------------- MODULE TmuFormat -----------------------------
(***************************************************************************)
(* recording/tmu_format.py: the binary .tmu layout.  A file is a header    *)
(* with a JSON block, a table of channel definitions, frames of fixed      *)
(* size, an index with the offset of each frame, and a footer with the     *)
(* number of frames, the offset of the index and a CRC-32 of everything    *)
(* before it.  verify_tmu checks a file and repair_tmu rebuilds one from   *)
(* the frames it can still find.                                           *)
(*                                                                         *)
(* A text is its bytes (Bytes.tla); the CRC is taken to be free of         *)
(* collisions, and a damaged JSON block not to parse.                      *)
(***************************************************************************)
EXTENDS Bytes

Magic == <<Byte(84), Byte(77), Byte(85), Byte(1)>>  \* "TMU" and the version
HeaderFixedSize == 183
ChannelDefSize == 51
FooterSize == 20

TypeSize == <<8, 4, 4, 2, 1>>          \* by type tag: FLOAT64 .. BOOL
SizeOf(channel) == TypeSize[channel.type + 1]

-----------------------------------------------------------------------------
(* Channel definitions, header and footer.                                 *)

PackChannel(ch) == Str(ch.name, 32) \o U(ch.type, 1) \o Str(ch.unit, 16) \o U(ch.offset, 2)

UnpackChannel(cells) ==
    IF Len(cells) # ChannelDefSize \/ ~IsUtf8(At(cells, 0, 32)) \/ ~IsUtf8(At(cells, 33, 16))
       \/ Number(At(cells, 32, 1)) \notin 0..4
    THEN Raises
    ELSE Gives([name |-> Stripped(At(cells, 0, 32)), type |-> Number(At(cells, 32, 1)),
                unit |-> Stripped(At(cells, 33, 16)), offset |-> Number(At(cells, 49, 2))])

PackHeader(h) ==
    Magic \o U(h.version, 2) \o Scalar(h.created, 8)
    \o Str(h.track, 64) \o Str(h.vehicle, 64) \o Str(h.driver, 32)
    \o U(h.session, 1) \o U(h.rate, 2) \o U(h.count, 2) \o U(Len(h.meta), 4) \o h.meta

MetaEnd(data) == HeaderFixedSize + Number(At(data, 179, 4))

UnpackHeader(data) ==
    IF Len(data) < HeaderFixedSize \/ At(data, 0, 4) # Magic \/ Len(data) < MetaEnd(data)
       \/ ~IsUtf8(At(data, 14, 160))
    THEN Raises
    ELSE Gives([version |-> Number(At(data, 4, 2)), created |-> AsScalar(At(data, 6, 8)),
                track |-> Stripped(At(data, 14, 64)), vehicle |-> Stripped(At(data, 78, 64)),
                driver |-> Stripped(At(data, 142, 32)),
                session |-> Number(At(data, 174, 1)), rate |-> Number(At(data, 175, 2)),
                count |-> Number(At(data, 177, 2)),
                meta |-> At(data, HeaderFixedSize, Number(At(data, 179, 4)))])

PackFooter(f) == U(f.frames, 8) \o U(f.index, 8) \o f.checksum

(* The footer is taken from the last 20 bytes, whatever they are.          *)
FooterOf(data) ==
    LET cells == Tailing(data, FooterSize) IN
    [frames |-> Number(At(cells, 0, 8)), index |-> Number(At(cells, 8, 8)),
     checksum |-> At(cells, 16, 4)]

-----------------------------------------------------------------------------
(* Frames: a timestamp and one value for each channel.                     *)

SizeBefore(channels, i) == MapThenSumSet(LAMBDA j : SizeOf(channels[j]), 1..(i - 1))

ComputeOffsets(channels) ==
    [i \in DOMAIN channels |-> [channels[i] EXCEPT !.offset = SizeBefore(channels, i)]]

FrameSize(channels) == 8 + SizeBefore(channels, Len(channels) + 1)

(* vals are pairs of a type tag and a value.                               *)
PackFrame(frame) ==
    Scalar(frame.ts, 8)
    \o FlattenSeq([i \in DOMAIN frame.vals |->
                     Scalar(frame.vals[i][2], TypeSize[frame.vals[i][1] + 1])])

UnpackFrame(cells, channels) ==
    LET field(ch) == At(cells, 8 + ch.offset, SizeOf(ch)) IN
    IF \E i \in DOMAIN channels : Len(field(channels[i])) # SizeOf(channels[i])
    THEN Raises
    ELSE Gives([ts |-> AsScalar(At(cells, 0, 8)),
                vals |-> [i \in DOMAIN channels |->
                            <<channels[i].type, AsScalar(field(channels[i]))>>]])

-----------------------------------------------------------------------------
(* build_minimal_tmu: a whole file.  Without frames, not even an empty     *)
(* list of them, it gets the two of the format's example.                  *)

ExampleFrames ==
    <<[ts |-> "0.0", vals |-> <<<<0, "0.0">>, <<0, "800.0">>, <<2, "0">>>>],
      [ts |-> "0.016", vals |-> <<<<0, "42.5">>, <<0, "3500.0">>, <<2, "1">>>>]>>

Total(parts, n) == MapThenSumSet(LAMBDA j : Len(parts[j]), 1..n)

BuildMinimal_RelativeIndex(names, channels, given, meta) ==  \* mutant: offsets from the first frame
    LET frames == IF given = Raises THEN ExampleFrames ELSE given[1]
        head == PackHeader([track |-> names.track, vehicle |-> names.vehicle,
                            driver |-> names.driver, version |-> 1, created |-> "now",
                            session |-> 0, rate |-> 60, count |-> Len(channels),
                            meta |-> Json(meta, 2)])
                \o FlattenSeq([i \in DOMAIN channels |-> PackChannel(channels[i])])
        blobs == [i \in DOMAIN frames |-> PackFrame(frames[i])]
        index == [i \in DOMAIN frames |-> U(Total(blobs, i - 1), 8)]
        body == head \o FlattenSeq(blobs) \o FlattenSeq(index)
    IN body \o PackFooter([frames |-> Len(frames), checksum |-> Crc32(body),
                           index |-> Len(head) + Total(blobs, Len(blobs))])

BuildMinimal(names, channels, given, meta) ==
    LET frames == IF given = Raises THEN ExampleFrames ELSE given[1]
        head == PackHeader([track |-> names.track, vehicle |-> names.vehicle,
                            driver |-> names.driver, version |-> 1, created |-> "now",
                            session |-> 0, rate |-> 60, count |-> Len(channels),
                            meta |-> Json(meta, 2)])
                \o FlattenSeq([i \in DOMAIN channels |-> PackChannel(channels[i])])
        blobs == [i \in DOMAIN frames |-> PackFrame(frames[i])]
        index == [i \in DOMAIN frames |-> U(Len(head) + Total(blobs, i - 1), 8)]
        body == head \o FlattenSeq(blobs) \o FlattenSeq(index)
    IN body \o PackFooter([frames |-> Len(frames), checksum |-> Crc32(body),
                           index |-> Len(head) + Total(blobs, Len(blobs))])

-----------------------------------------------------------------------------
(* What verify_tmu and repair_tmu read.                                    *)

ChannelAt(data, i) == UnpackChannel(At(data, MetaEnd(data) + i * ChannelDefSize, ChannelDefSize))
IndexEntry(data, f, i) == Number(At(data, f.index + 8 * i, 8))

(* The entries of the index that can lie within a file of this size.       *)
Entries(data, f) == 0..(Min({f.frames, Len(data)}) - 1)

Refused == [ok |-> FALSE, raised |-> FALSE, frames |-> 0]

Verify_NoCrc(data) ==  \* mutant: the checksum is not compared
    IF Len(data) < HeaderFixedSize + FooterSize \/ UnpackHeader(data) = Raises
    THEN Refused
    ELSE LET f == FooterOf(data)
             n == UnpackHeader(data)[1].count
             body == Len(data) - FooterSize
             table == [i \in 1..n |-> ChannelAt(data, i - 1)]
             sound == \A i \in 1..n : table[i] # Raises
             size == FrameSize([i \in 1..n |-> table[i][1]])
             placed(i) == /\ f.index + 8 * (i + 1) <= body
                          /\ n > 0 => IndexEntry(data, f, i) + size <= f.index
         IN  [raised |-> ~sound, frames |-> f.frames,
              ok |-> /\ sound
                     /\ f.frames = Cardinality(Entries(data, f))
                     /\ \A i \in Entries(data, f) : placed(i)]

(* verify_tmu: an unreadable channel definition is not reported but        *)
(* raises.                                                                 *)
Verify(data) ==
    IF Len(data) < HeaderFixedSize + FooterSize \/ UnpackHeader(data) = Raises
    THEN Refused
    ELSE LET f == FooterOf(data)
             n == UnpackHeader(data)[1].count
             body == Len(data) - FooterSize
             table == [i \in 1..n |-> ChannelAt(data, i - 1)]
             sound == \A i \in 1..n : table[i] # Raises
             size == FrameSize([i \in 1..n |-> table[i][1]])
             placed(i) == /\ f.index + 8 * (i + 1) <= body
                          /\ n > 0 => IndexEntry(data, f, i) + size <= f.index
         IN  [raised |-> ~sound, frames |-> f.frames,
              ok |-> /\ sound /\ f.checksum = Crc32(Upto(data, body))
                     /\ f.frames = Cardinality(Entries(data, f))
                     /\ \A i \in Entries(data, f) : placed(i)]

(* The channel table up to the first definition that cannot be read.       *)
ReadableChannels(data) ==
    LET n == UnpackHeader(data)[1].count
        good(i) == ChannelAt(data, i - 1) # Raises
        upto == Max({k \in 0..n : \A i \in 1..k : good(i)})
    IN  [i \in 1..upto |-> ChannelAt(data, i - 1)[1]]

FrameAt(data, offset, channels) ==
    IF offset + FrameSize(channels) > Len(data) THEN Raises
    ELSE UnpackFrame(At(data, offset, FrameSize(channels)), channels)

(* The frames the index leads to, as far as they lie within the file.      *)
ValidFrames(data, channels) ==
    LET f == FooterOf(data)
        tried == [i \in 1..Cardinality(Entries(data, f)) |->
                    IF f.index + 8 * i > Len(data) THEN Raises
                    ELSE FrameAt(data, IndexEntry(data, f, i - 1), channels)]
        found == SelectSeq(tried, LAMBDA t : t # Raises)
    IN  [i \in DOMAIN found |-> found[i][1]]

(* repair_tmu, without overrides.  Only the names of the header are kept,  *)
(* and of the channel table what can be read.  Its loop goes round as many *)
(* times as the eight bytes that are taken for the frame count say; 2^24   *)
(* times and more are taken for ever.                                      *)
Never == <<0, 0>>

Repair(data) ==
    IF Len(data) < HeaderFixedSize + FooterSize \/ UnpackHeader(data) = Raises THEN Raises
    ELSE LET h == UnpackHeader(data)[1]
             channels == ReadableChannels(data)
             frames == ValidFrames(data, channels)
         IN  IF channels = <<>> THEN Raises
             ELSE IF FooterOf(data).frames = Huge THEN Never
             ELSE IF h.meta # <<>> /\ Whole("json", h.meta) = Raises THEN Raises
             ELSE Gives([recovered |-> Len(frames),
                         skipped |-> FooterOf(data).frames - Len(frames),
                         data |-> BuildMinimal(h, channels,
                                      IF frames = <<>> THEN Raises ELSE Gives(frames),
                                      IF h.meta = <<>> THEN "none"
                                      ELSE Whole("json", h.meta)[1])])
=============================================================================
