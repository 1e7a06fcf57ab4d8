------------------------------ MODULE Archive ------------------------------
(***************************************************************************)
(* A .tmu file and the tools that are let loose on it: it is written in    *)
(* one of the four layouts the program has, cut short by a crash while it  *)
(* is written or edited, or changed in one byte by the disk; then it is    *)
(* read, converted, verified, repaired or its metadata are edited.         *)
(*                                                                         *)
(* The layouts and the tools are those of TmuFormat and Recordings.  A     *)
(* changed byte is looked for only in the layout that has a checksum.      *)
(***************************************************************************)
EXTENDS Recordings

CONSTANTS
    MaxFrames,    \* bound: frames of a recording
    ChunkFrames,  \* chunk_frames of StreamCompressor
    MaxEdits      \* bound: edits of the metadata

ASSUME ArchiveAssumption ==
    /\ MaxFrames \in 1..3 /\ MaxEdits \in Nat /\ ChunkFrames \in Nat \ {0}

VARIABLES
    layout,   \* who wrote the file: "none", "live", "chunked", "binary", "metadata"
    content,  \* what was to be written
    file,     \* the bytes on disk
    damage,   \* "none", "cut" or "flipped"
    edits,    \* number of edits
    report    \* what the last tool said: <<tool, result>>, or <<>>

vars == <<layout, content, file, damage, edits, report>>

Init ==
    /\ layout = "none" /\ content = <<>> /\ file = <<>>
    /\ damage = "none" /\ edits = 0 /\ report = <<>>

-----------------------------------------------------------------------------
(* What there is to record.                                                *)

Lists(S) == UNION {[1..n -> S] : n \in 0..MaxFrames}

(* A frame of LiveRecorder: without the second channel or with it, without *)
(* a lap marker or with one.                                               *)
Samples ==
    [ts : {"t"}, marker : {<<>>, <<"lap">>},
     channels : {<< <<"speed", "v">> >>, << <<"rpm", "w">>, <<"speed", "u">> >>}]

Names == [track |-> Text("track", 5), vehicle |-> Text("vehicle", 64),
          driver |-> Text("driver", 40)]

(* Channels of one byte and of eight, and frames with values for them.     *)
Tables == {ComputeOffsets(<<[name |-> Text("in_pits", 7), type |-> 4, unit |-> <<>>, offset |-> 0],
                            [name |-> Text("speed", 5), type |-> 0, unit |-> Text("km/h", 4),
                             offset |-> 0]>>),
           ComputeOffsets(<<[name |-> Text("gear", 4), type |-> 2, unit |-> <<>>,
                             offset |-> 0]>>)}

(* Frames for a table; frames of one file differ in every value.           *)
FramesFor(table) ==
    {[i \in 1..n |->
        [ts |-> <<"t1", "t2", "t3">>[i],
         vals |-> [k \in DOMAIN table |-> <<table[k].type, <<"u", "v", "w">>[i]>>]]] :
     n \in 1..MaxFrames}

-----------------------------------------------------------------------------
(* The writers.                                                            *)

Written(who, what, bytes) ==
    /\ layout = "none"
    /\ layout' = who /\ content' = what /\ file' = bytes
    /\ UNCHANGED <<damage, edits, report>>

SaveLive ==
    \E frames \in Lists(Samples) :
        Written("live", frames, LiveFile("track", "car", frames, <<>>))

(* write_tmu, whose callers may name channels in the header.               *)
SaveNamed ==
    \E frames \in Lists(Samples) :
        /\ Len(frames) < MaxFrames
        /\ Written("live", frames,
                   WriteTmu([track |-> "track", channels |-> <<"rpm">>], frames))

SaveChunked ==
    \E frames \in Lists({<<"t", "u">>, <<"t", "v">>}) :
        Written("chunked", frames,
                RecorderFile([frame_size |-> 16, lap_markers |-> <<>>], frames, ChunkFrames))

SaveBinary ==
    \E table \in Tables : \E frames \in FramesFor(table) :
        Written("binary", [table |-> table, frames |-> frames],
                BuildMinimal(Names, table, Gives(frames), "meta"))

Rest == Text("frames", 9)

SaveMetadata ==
    Written("metadata", [notes |-> 0],
            WriteHeader(Text("track", 5), Text("car", 3), 1, [notes |-> 0], 8) \o Rest)

(* update_metadata: the metadata change their length with each edit.       *)
Edit ==
    /\ layout = "metadata" /\ damage = "none" /\ edits < MaxEdits
    /\ LET new == UpdateMetadata(file, edits + 1, 8 + 3 * ((edits + 1) % 2)) IN
       /\ new # Raises
       /\ file' = new[1] /\ content' = [notes |-> edits + 1]
    /\ edits' = edits + 1 /\ report' = <<>>
    /\ UNCHANGED <<layout, damage>>

-----------------------------------------------------------------------------
(* Damage.                                                                 *)

(* A crash while the file is written, or written again by an edit.         *)
Crash ==
    /\ layout # "none" /\ damage = "none" /\ report = <<>>
    /\ \E n \in 0..(Len(file) - 1) : file' = Upto(file, n)
    /\ damage' = "cut"
    /\ UNCHANGED <<layout, content, edits, report>>

Flips(cell) ==
    ({Byte(0), Byte(255)} \cup (IF cell[1] = "byte" /\ cell[2] > 0 THEN {Byte(cell[2] - 1)}
                                ELSE {})) \ {cell}

Flip ==
    /\ layout = "binary" /\ damage = "none" /\ report = <<>>
    /\ \E k \in DOMAIN file : \E c \in Flips(file[k]) : file' = [file EXCEPT ![k] = c]
    /\ damage' = "flipped"
    /\ UNCHANGED <<layout, content, edits, report>>

-----------------------------------------------------------------------------
(* The tools.                                                              *)

Reports(tool, result) ==
    /\ layout # "none" /\ report = <<>>
    /\ report' = <<tool, result>>
    /\ UNCHANGED <<layout, content, file, damage, edits>>

Read ==
    \/ layout = "live" /\ Reports("read", IterTmu(file))
    \/ layout = "chunked" /\ Reports("read", ReadRecorderFile(file))
    \/ layout = "metadata" /\ Reports("read", ReadHeader(file))

ConvertFile == layout = "live" /\ Reports("convert", Convert(file))

(* telemu-verify, which may be given any .tmu file.                        *)
VerifyFile == Reports("verify", Verify(file))

RepairFile == layout = "binary" /\ Reports("repair", Repair(file))

Next ==
    \/ SaveLive \/ SaveNamed \/ SaveChunked \/ SaveBinary \/ SaveMetadata
    \/ Edit \/ Crash \/ Flip
    \/ Read \/ ConvertFile \/ VerifyFile \/ RepairFile

Spec == Init /\ [][Next]_vars

-----------------------------------------------------------------------------
(* Properties.                                                             *)

Said(tool) == report # <<>> /\ report[1] = tool
Result == report[2]

(* A result's frames are those that were recorded, all of them in order.   *)
AllFrames ==
    IF layout = "metadata" THEN Result[1] = content /\ Tailing(file, Len(Rest)) = Rest
    ELSE Result[1].frames = content

EndsWithHeader ==
    layout = "live" /\ Framed(file, Magic)[1].rest = <<>> /\ Result[1].frames = <<>>

(* Of what follows the metadata in a file of tmu_file.py the header says   *)
(* neither that it is there nor how long it is.                            *)
CutBehindMetadata ==
    layout = "metadata" /\ Result[1] = content
    /\ Len(file) >= MetadataAt + MetadataSize(file)

(* What was recorded is read back, whatever layout it is in: all frames    *)
(* with their values and lap markers, and the metadata as last edited,     *)
(* before what followed them when they were written.  And a file that a    *)
(* crash has cut is never taken for a shorter recording: it is refused, or *)
(* everything is still in it.  Two layouts cannot tell: a file of          *)
(* LiveRecorder that ends right after its header has no frame, and a file  *)
(* of tmu_file.py cut behind its metadata is read for what these say.      *)
ReadsTrue ==
    Said("read") =>
        CASE damage = "none" -> Result # Raises /\ AllFrames
          [] damage = "cut" -> \/ Result = Raises \/ AllFrames
                              \/ EndsWithHeader \/ CutBehindMetadata

Intact == BuildMinimal(Names, content.table, Gives(content.frames), "meta")

(* A file verify_tmu accepts is not cut, and up to its footer it is as it  *)
(* was written.  No checksum covers the numbers in the footer: where the   *)
(* offset of the index is still right, the file leads to the first frames  *)
(* that were recorded, as many as the footer says.                         *)
VerifiedIsTrue ==
    Said("verify") /\ Result.ok =>
        /\ layout = "binary" /\ damage # "cut"
        /\ Upto(file, Len(file) - FooterSize) = Upto(Intact, Len(Intact) - FooterSize)
        /\ FooterOf(file).index = FooterOf(Intact).index =>
            ValidFrames(file, content.table) = SubSeq(content.frames, 1, Result.frames)

(* The frames, without index and footer.                                   *)
FrameArea ==
    LET end == FooterOf(Intact).index
    IN  (end - Len(content.frames) * FrameSize(content.table) + 1) .. end

FlippedAt == {k \in DOMAIN file : file[k] # Intact[k]}

FrameCount == (Len(file) - FooterSize + 1) .. (Len(file) - FooterSize + 8)

(* As long as header, channel table, index and footer are whole, a repair  *)
(* finds every frame and changes no value that was not hit; and a repaired *)
(* file that has frames of the old one passes verify_tmu.  A repair goes   *)
(* on for ever only if it takes other bytes for the frame count: that of   *)
(* the footer was hit, or the footer is cut off.                           *)
RepairSaves ==
    Said("repair") =>
        /\ damage = "none" \/ (damage = "flipped" /\ FlippedAt \subseteq FrameArea) =>
            LET n == Len(content.frames)
                got == ValidFrames(Result[1].data, content.table)
            IN  /\ Result # Raises /\ Result # Never
                /\ Result[1].recovered = n /\ Result[1].skipped = 0
                /\ \A i \in 1..n : \A k \in DOMAIN content.table :
                    got[i].vals[k] # content.frames[i].vals[k] =>
                        damage = "flipped" /\ got[i].vals[k][2] = Other
        /\ Result # Raises /\ Result # Never /\ Result[1].recovered > 0 =>
            Verify(Result[1].data).ok
            /\ Verify(Result[1].data).frames = Result[1].recovered
        /\ Result = Never => damage = "cut" \/ FlippedAt \cap FrameCount # {}

(* The database has a row for each frame in order, every value of the      *)
(* frame in the one column of its channel and NULL in the others, and a    *)
(* row for each lap marker.                                                *)
ConvertedWhole ==
    Said("convert") /\ damage = "none" =>
        LET db == Result[1] IN
        /\ Result # Raises /\ Len(db.channels) = Len(content)
        /\ IsInjective(db.columns)
        /\ \A i \in DOMAIN content :
            /\ \A k \in DOMAIN db.columns :
                db.channels[i][k + 1] = Cell(content[i], db.columns[k])
            /\ \A c \in ToSet(content[i].channels) : c[1] \in ToSet(db.columns)
        /\ Len(db.lap_markers) = Cardinality({i \in DOMAIN content : content[i].marker # <<>>})

(* telemu-verify, which is there to "Verify or repair .tmu recording       *)
(* files", passes a recording that nothing has happened to.                *)
RecordingsVerify == Said("verify") /\ damage = "none" => Result.ok
=============================================================================
