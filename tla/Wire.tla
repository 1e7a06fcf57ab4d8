-------------------------------- MODULE Wire --------------------------------
(***************************************************************************)
(* The bytes of the streaming protocol: the codecs of                      *)
(* streaming/protocol.py, and the builders of their own in                 *)
(* streaming/server.py (the operators whose names begin with Build).       *)
(*                                                                         *)
(* A channel is a record [id, name, unit, type, min, max]; the channels of *)
(* a frame are a sequence of pairs of an id and a value, in the order of   *)
(* the dict.  Decoding raises or gives a value (Bytes.tla).                *)
(***************************************************************************)
EXTENDS Bytes, Selection

StreamMagic == <<Byte(84), Byte(77), Byte(85), Byte(2)>>  \* "TMU" and the version
ProtocolVersion == 2
MaxUdpPayload == 1400

Announce == 1
Hello == 16
Welcome == 17
Subscribe == 18
Subscribed == 19
SessionUpdate == 20
Ping == 21
Pong == 22
Disconnect == 31
MsgTypes == {Announce, Hello, Welcome, Subscribe, Subscribed, SessionUpdate,
             Ping, Pong, Disconnect}

DiscoverySize == 176
CtrlHdrSize == 7
HelloSize == 34
WelcomeHdrSize == 6
ChannelEntrySize == 67
SessionUpdateSize == 129
TelemHdrSize == 23
TelemChannelSize == 10

-----------------------------------------------------------------------------
(* Discovery.                                                              *)

EncodeDiscovery(d) ==
    StreamMagic \o U(ProtocolVersion, 2) \o U(Announce, 1)
    \o Str(d.driver, 32) \o Str(d.track, 64) \o Str(d.vehicle, 64)
    \o U(d.kind, 1) \o U(d.tcp, 2) \o U(d.udp, 2) \o U(d.session, 4)

(* server.py announces version 1 and cuts numbers to the width of a field. *)
BuildDiscovery(d) ==
    StreamMagic \o U(1, 2) \o U(Announce, 1)
    \o Str(d.driver, 32) \o Str(d.track, 64) \o Str(d.vehicle, 64)
    \o U(d.kind % 256, 1) \o U(d.tcp % 65536, 2) \o U(d.udp % 65536, 2) \o U(d.session, 4)

DecodeDiscovery(data) ==
    IF Len(data) < DiscoverySize \/ At(data, 0, 4) # StreamMagic
       \/ Number(At(data, 6, 1)) # Announce
    THEN Raises
    ELSE Gives([driver |-> Stripped(At(data, 7, 32)), track |-> Stripped(At(data, 39, 64)),
                vehicle |-> Stripped(At(data, 103, 64)), kind |-> Number(At(data, 167, 1)),
                tcp |-> Number(At(data, 168, 2)), udp |-> Number(At(data, 170, 2)),
                session |-> Number(At(data, 172, 4))])

-----------------------------------------------------------------------------
(* Control messages.                                                       *)

EncodeCtrl(type, payload) ==
    StreamMagic \o U(Len(payload), 2) \o U(type, 1) \o payload

(* The fields of a header that has been read.                              *)
CtrlHeader(header) ==
    [magic |-> At(header, 0, 4), length |-> Number(At(header, 4, 2)),
     type |-> Number(At(header, 6, 1))]

EncodeHello(name) == EncodeCtrl(Hello, Str(name, 32) \o U(ProtocolVersion, 2))

DecodeHello(payload) ==
    IF Len(payload) < HelloSize THEN Raises
    ELSE Gives([name |-> Stripped(At(payload, 0, 32)), version |-> Number(At(payload, 32, 2))])

ChannelEntry(ch) ==
    U(ch.id, 2) \o Str(ch.name, 32) \o Str(ch.unit, 16) \o U(ch.type, 1)
    \o Scalar(ch.min, 8) \o Scalar(ch.max, 8)

EntryAt(payload, offset) ==
    LET field(o, n) == At(payload, offset + o, n) IN
    [id |-> Number(field(0, 2)), name |-> Stripped(field(2, 32)),
     unit |-> Stripped(field(34, 16)), type |-> Number(field(50, 1)),
     min |-> AsScalar(field(51, 8)), max |-> AsScalar(field(59, 8))]

EncodeWelcome(session, channels) ==
    EncodeCtrl(Welcome, U(session, 4) \o U(Len(channels), 2)
                        \o FlattenSeq([i \in DOMAIN channels |-> ChannelEntry(channels[i])]))

DecodeWelcome(payload) ==
    LET n == Number(At(payload, 4, 2)) IN
    IF Len(payload) < WelcomeHdrSize \/ Len(payload) < WelcomeHdrSize + n * ChannelEntrySize
    THEN Raises
    ELSE Gives([session |-> Number(At(payload, 0, 4)),
                channels |-> [i \in 1..n |->
                    EntryAt(payload, WelcomeHdrSize + (i - 1) * ChannelEntrySize)]])

Ids(channels) == FlattenSeq([i \in DOMAIN channels |-> U(channels[i], 2)])
IdsAt(payload, offset, n) == [i \in 1..n |-> Number(At(payload, offset + 2 * (i - 1), 2))]

EncodeSubscribe(ids, port) == EncodeCtrl(Subscribe, U(port, 2) \o U(Len(ids), 2) \o Ids(ids))

DecodeSubscribe(payload) ==
    LET n == Number(At(payload, 2, 2)) IN
    IF Len(payload) < 4 + 2 * n THEN Raises
    ELSE Gives([port |-> Number(At(payload, 0, 2)), ids |-> IdsAt(payload, 4, n)])

EncodeSubscribed(ids) == EncodeCtrl(Subscribed, U(Len(ids), 2) \o Ids(ids))

DecodeSubscribed(payload) ==
    LET n == Number(At(payload, 0, 2)) IN
    IF Len(payload) < 2 + 2 * n THEN Raises ELSE Gives(IdsAt(payload, 2, n))

EncodeSessionUpdate(track, vehicle, kind) ==
    EncodeCtrl(SessionUpdate, Str(track, 64) \o Str(vehicle, 64) \o U(kind, 1))

DecodeSessionUpdate(payload) ==
    IF Len(payload) < SessionUpdateSize THEN Raises
    ELSE Gives([track |-> Stripped(At(payload, 0, 64)), vehicle |-> Stripped(At(payload, 64, 64)),
                kind |-> Number(At(payload, 128, 1))])

EncodePing(ts) == EncodeCtrl(Ping, Scalar(ts, 8))
EncodePong(ts) == EncodeCtrl(Pong, Scalar(ts, 8))
DecodePingPong(payload) ==
    IF Len(payload) < 8 THEN Raises ELSE Gives(AsScalar(At(payload, 0, 8)))

EncodeDisconnect(reason) == EncodeCtrl(Disconnect, U(reason, 1))

-----------------------------------------------------------------------------
(* The control messages of server.py that differ: its SUBSCRIBED holds a   *)
(* bit mask, and so it takes what it finds in a SUBSCRIBE.  The bits above *)
(* the first sixteen are cut off by its mask of all channels.              *)

ServerChannels ==
    LET names == <<"speed", "rpm", "throttle", "brake", "gear", "steering", "fuel",
                   "fuel_capacity", "rpm_max", "tyre_fl", "tyre_fr", "tyre_rl", "tyre_rr",
                   "brake_temp">>
    IN  [i \in 1..14 |-> [id |-> i - 1, name |-> Text(names[i], 10), unit |-> <<>>,
                          type |-> 0, min |-> "min", max |-> "max"]]

AllOfServer == 0..13

AllChannelsMask == 2^14 - 1
Bits(mask) == {i \in AllOfServer : (mask \div 2^i) % 2 = 1}

(* The mask 0 is taken for all channels.                                   *)
Mask(number) == IF number % 2^14 = 0 THEN AllChannelsMask ELSE number % 2^14

(* channel_mask of a SUBSCRIBE                                             *)
MaskIn(payload) == Mask(Number(At(payload, 0, 2)))

BuildSubscribed(mask) == EncodeCtrl(Subscribed, U(mask, 2))

-----------------------------------------------------------------------------
(* Telemetry frames.                                                       *)

Values(channels) ==
    FlattenSeq([i \in DOMAIN channels |-> U(channels[i][1], 2) \o Scalar(channels[i][2], 8)])

EncodeTelemetryFrame(f, compress) ==
    LET raw == Values(f.channels)
        packed == compress /\ raw # <<>>
        packet == StreamMagic \o U(f.session, 4) \o U(f.seq, 4) \o Scalar(f.ts, 8)
                  \o U(Len(f.channels), 2) \o U(IF packed THEN 1 ELSE 0, 1)
                  \o (IF packed THEN Compressed("lz4", raw) ELSE raw)
    IN  IF Len(packet) > MaxUdpPayload THEN Raises ELSE Gives(packet)

(* build_telemetry_frame: no flag for compression, and the channels of the *)
(* registry, in its order, that the mask and the frame have.               *)
BuildTelemetryFrame(f, mask) ==
    LET ids == Keep([i \in DOMAIN ServerChannels |-> ServerChannels[i].id],
                    {id \in mask : \E c \in ToSet(f.channels) : c[1] = id})
        value(id) == (CHOOSE c \in ToSet(f.channels) : c[1] = id)[2]
        subset == [i \in DOMAIN ids |-> <<ids[i], value(ids[i])>>]
    IN  StreamMagic \o U(f.session, 4) \o U(f.seq, 4) \o Scalar(f.ts, 8)
        \o U(Len(subset), 2) \o Values(subset)

DecodeTelemetryFrame_ShortHeader(data) ==  \* mutant: the header is read without its flag
    LET n == Number(At(data, 20, 2))
        payload == From(data, TelemHdrSize - 1)
    IN  IF Len(data) < TelemHdrSize - 1 \/ At(data, 0, 4) # StreamMagic
           \/ Len(payload) < n * TelemChannelSize
        THEN Raises
        ELSE Gives([session |-> Number(At(data, 4, 4)), seq |-> Number(At(data, 8, 4)),
                    ts |-> AsScalar(At(data, 12, 8)),
                    channels |-> [i \in 1..n |->
                        <<Number(At(payload, TelemChannelSize * (i - 1), 2)),
                          AsScalar(At(payload, TelemChannelSize * (i - 1) + 2, 8))>>]])

(* lz4 raises RuntimeError for what it cannot decompress: no ValueError,   *)
(* but no frame either.                                                    *)
DecodeTelemetryFrame(data) ==
    LET n == Number(At(data, 20, 2))
        rest == From(data, TelemHdrSize)
        payload == IF Number(At(data, 22, 1)) = 0 THEN Gives(rest) ELSE Whole("lz4", rest)
    IN  IF Len(data) < TelemHdrSize \/ At(data, 0, 4) # StreamMagic
           \/ payload = Raises \/ Len(payload[1]) < n * TelemChannelSize
        THEN Raises
        ELSE Gives([session |-> Number(At(data, 4, 4)), seq |-> Number(At(data, 8, 4)),
                    ts |-> AsScalar(At(data, 12, 8)),
                    channels |-> [i \in 1..n |->
                        <<Number(At(payload[1], TelemChannelSize * (i - 1), 2)),
                          AsScalar(At(payload[1], TelemChannelSize * (i - 1) + 2, 8))>>]])
=============================================================================
