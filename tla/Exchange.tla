------------------------------ MODULE Exchange ------------------------------
(***************************************************************************)
(* One driver and one engineer over a control stream and telemetry         *)
(* datagrams, byte by byte.  The program has two implementations of either *)
(* side, written for one protocol: streamer.py (threads) and server.py     *)
(* (asyncio) for the driver, StreamClient (threads) and StreamingClient    *)
(* (asyncio) in client.py for the engineer; main.py starts server.py and   *)
(* StreamingClient.  Any driver may meet any engineer.                     *)
(*                                                                         *)
(* TCP delivers the bytes in order but may stop anywhere in a message.     *)
(* asyncio's readexactly() then waits and loses nothing; the _recvall() of *)
(* the threads forgets the bytes it has when its time-out comes.  UDP may  *)
(* lose, repeat and reorder.  A side that says DISCONNECT, or reads it, is *)
(* not silent at once: other threads may be about to send, and its reader  *)
(* about to answer.  Threads, keep-alive and registry are in Streamer and  *)
(* ThreadedLink, the asyncio sides in StreamServer and StreamClient.       *)
(***************************************************************************)
EXTENDS Wire

CONSTANTS
    Words,          \* what names and bounds of channels are written in
    ChannelLists,   \* the lists of channels a driver of streamer.py may have
    WantedLists,    \* the lists of ids a StreamClient may subscribe to
    Ports,          \* the UDP ports an engineer may listen on
    MaxSaid,    \* bound: messages of a side after the handshake
    MaxFrames,  \* bound: frames pushed
    MaxStalls   \* bound: time-outs within a message

(* A channel whose numbers and names fit the fields of a WELCOME.          *)
Names(w) == {name \in Seq({"text"} \X Words \X Nat \X Nat) : Len(name) <= w}
ChannelInfo ==
    [id : Uint16, name : Names(32), unit : Names(16), type : 0..255,
     min : Words, max : Words]

ASSUME BoundsAssumption ==
    MaxSaid \in Nat /\ MaxStalls \in Nat /\ MaxFrames \in Nat /\ MaxFrames < Huge

(* The length of a WELCOME and of a SUBSCRIBE fits its header, too.        *)
ASSUME PartiesAssumption ==
    /\ \A list \in ChannelLists :
         /\ list \in Seq(ChannelInfo)
         /\ WelcomeHdrSize + Len(list) * ChannelEntrySize \in Uint16
    /\ \A ids \in WantedLists : ids \in Seq(Uint16) /\ 4 + 2 * Len(ids) \in Uint16
    /\ Ports \subseteq Uint16

Session == 7
TelemetryPort == 19741      \* server.py's, of the configuration
DefaultUdpPort == 9100

VARIABLES
    driver, engineer,       \* the implementations
    channels,               \* the channels of the driver
    wanted, port,           \* the engineer's: subscribe and UDP port
    dstate, estate,         \* how far each side is
    toDriver, toEngineer,   \* the bytes on the control stream
    client,                 \* the driver's view of the engineer: [ids, port]
    learned,                \* the engineer's view of the driver
    sent, read,             \* history, by side: the messages
    stalls, seq,
    datagrams,              \* what UDP may deliver: a set of [port, bytes, frame]
    frame                   \* the last one received: <<decoded, frame>>, or <<>>

parties == <<driver, engineer, channels, wanted, port>>
control == <<dstate, estate, toDriver, toEngineer, client, learned, sent, read, stalls>>
telemetry == <<seq, datagrams, frame>>
vars == <<parties, control, telemetry>>

Init ==
    /\ driver \in {"streamer", "server"} /\ engineer \in {"StreamClient", "StreamingClient"}
    /\ channels \in (IF driver = "server" THEN {ServerChannels} ELSE ChannelLists)
    /\ wanted \in (IF engineer = "StreamClient" THEN WantedLists ELSE {<<>>})
    /\ port \in Ports
    /\ dstate = "hello" /\ estate = "new"
    /\ toDriver = <<>> /\ toEngineer = <<>>
    /\ client = <<>> /\ learned = <<>>
    /\ sent = [driver |-> <<>>, engineer |-> <<>>]
    /\ read = [driver |-> <<>>, engineer |-> <<>>]
    /\ stalls = 0 /\ seq = 0 /\ datagrams = {} /\ frame = <<>>

(* The states of a side that is connected: "leaving" has said DISCONNECT,   *)
(* "over" reads no more; in both the socket is still open.                 *)
Driving == {"loop", "leaving", "over"}
Engaged == {"up", "leaving", "over"}

Threads(side) == (side = "driver" /\ driver = "streamer")
                 \/ (side = "engineer" /\ engineer = "StreamClient")

-----------------------------------------------------------------------------
(* Reading and writing the stream.                                         *)

Message(bytes) == [type |-> Number(At(bytes, 6, 1)), payload |-> From(bytes, CtrlHdrSize)]

(* What the head of a stream is to a reader: a message, none yet, or       *)
(* something that ends the connection.                                     *)
Framing_Unchecked(side, stream) ==  \* mutant: a header is taken as it comes
    LET h == CtrlHeader(Upto(stream, Min({CtrlHdrSize, Len(stream)}))) IN
    IF Len(stream) < CtrlHdrSize \/ Len(stream) < CtrlHdrSize + h.length THEN "none"
    ELSE "message"

Framing(side, stream) ==
    LET h == CtrlHeader(Upto(stream, Min({CtrlHdrSize, Len(stream)}))) IN
    IF Len(stream) < CtrlHdrSize THEN "none"
    ELSE IF h.magic # StreamMagic THEN "broken"
    ELSE IF Len(stream) < CtrlHdrSize + h.length THEN "none"
    ELSE IF Threads(side) /\ h.type \notin MsgTypes THEN "broken"
    ELSE "message"

FirstOf(stream) == Message(Upto(stream, CtrlHdrSize + CtrlHeader(Upto(stream, CtrlHdrSize)).length))
AfterFirst(stream) == From(stream, CtrlHdrSize + CtrlHeader(Upto(stream, CtrlHdrSize)).length)

DriverTakes(messages) ==
    /\ toDriver' = AfterFirst(toDriver)
    /\ toEngineer' = toEngineer \o FlattenSeq(messages)
    /\ read' = [read EXCEPT !.driver = Append(@, FirstOf(toDriver))]
    /\ sent' = [sent EXCEPT !.driver = @ \o [i \in DOMAIN messages |-> Message(messages[i])]]

EngineerTakes(messages) ==
    /\ toEngineer' = AfterFirst(toEngineer)
    /\ toDriver' = toDriver \o FlattenSeq(messages)
    /\ read' = [read EXCEPT !.engineer = Append(@, FirstOf(toEngineer))]
    /\ sent' = [sent EXCEPT !.engineer = @ \o [i \in DOMAIN messages |-> Message(messages[i])]]

-----------------------------------------------------------------------------
(* Discovery and the handshake.                                            *)

Announcement == [driver |-> Text("driver", 40), track |-> <<>>, vehicle |-> Text("car", 3),
                 kind |-> 3, tcp |-> 19742, udp |-> TelemetryPort, session |-> Session]

(* StreamClient may look for drivers before it connects.                   *)
Discover ==
    /\ engineer = "StreamClient" /\ estate = "new" /\ learned = <<>>
    /\ LET found == DecodeDiscovery(IF driver = "streamer" THEN EncodeDiscovery(Announcement)
                                    ELSE BuildDiscovery(Announcement))
       IN  learned' = IF found = Raises THEN learned ELSE found[1]
    /\ UNCHANGED <<parties, telemetry, dstate, estate, toDriver, toEngineer, client,
                   sent, read, stalls>>

EngineerConnects ==
    /\ estate = "new" /\ dstate = "hello"
    /\ estate' = "welcome"
    /\ toDriver' = EncodeHello(Text("engineer", 8))
    /\ sent' = [sent EXCEPT !.engineer = <<Message(toDriver')>>]
    /\ UNCHANGED <<parties, telemetry, dstate, toEngineer, client, learned, read, stalls>>

Arrived(side) ==
    Framing(side, IF side = "driver" THEN toDriver ELSE toEngineer) = "message"

(* A HELLO that does not decode ends the connection in streamer.py; the    *)
(* other driver only logs what it holds.                                   *)
DriverGreets ==
    /\ dstate = "hello" /\ Arrived("driver")
    /\ LET m == FirstOf(toDriver)
           ok == m.type = Hello /\ (driver = "streamer" => DecodeHello(m.payload) # Raises)
       IN  /\ dstate' = IF ok THEN "subscribe" ELSE "closed"
           /\ DriverTakes(IF ok THEN <<EncodeWelcome(Session, channels)>> ELSE <<>>)
    /\ UNCHANGED <<parties, telemetry, estate, client, learned, stalls>>

(* StreamingClient asks for as many channels as there are, counted from 0, *)
(* and never tells the port it will listen on.                             *)
Wish(count) ==
    IF engineer = "StreamClient" THEN EncodeSubscribe(wanted, port)
    ELSE EncodeSubscribe([i \in 1..count |-> i - 1], DefaultUdpPort)

EngineerSubscribes ==
    /\ estate = "welcome" /\ Arrived("engineer")
    /\ LET m == FirstOf(toEngineer)
           w == DecodeWelcome(m.payload)
           ok == m.type = Welcome /\ w # Raises
       IN  /\ estate' = IF ok THEN "subscribed" ELSE "failed"
           /\ learned' = IF ok THEN w[1] ELSE learned
           /\ EngineerTakes(IF ok THEN <<Wish(Len(w[1].channels))>> ELSE <<>>)
    /\ UNCHANGED <<parties, telemetry, dstate, client, stalls>>

AllIds == {channels[i].id : i \in DOMAIN channels}

Subscription_EmptyIsNone(ids) == ids  \* mutant: no channel asked for is no channel

(* No channel asked for is all channels.                                   *)
Subscription(ids) == IF ids = {} THEN AllIds ELSE ids

(* (server.py would take a message without the magic for a SUBSCRIBE, too; *)
(* no engineer here sends one.)                                            *)
DriverSubscribes ==
    /\ dstate = "subscribe" /\ Arrived("driver")
    /\ LET m == FirstOf(toDriver)
           wish == DecodeSubscribe(m.payload)
           fails == driver = "streamer" /\ (m.type # Subscribe \/ wish = Raises)
           mask == IF m.type = Subscribe /\ m.payload # <<>> THEN MaskIn(m.payload)
                   ELSE AllChannelsMask
           ids == IF driver = "streamer" THEN Subscription(ToSet(wish[1].ids))
                  ELSE Bits(mask)
       IN  IF fails THEN dstate' = "closed" /\ DriverTakes(<<>>) /\ UNCHANGED client
           ELSE /\ dstate' = "loop"
                /\ client' = [ids |-> ids, port |-> IF driver = "streamer" THEN wish[1].port
                                                    ELSE TelemetryPort]
                /\ DriverTakes(<<IF driver = "streamer"
                                 THEN EncodeSubscribed(SetToSeq(ids))
                                 ELSE BuildSubscribed(mask)>>)
    /\ UNCHANGED <<parties, telemetry, estate, learned, stalls>>

EngineerSubscribed ==
    /\ estate = "subscribed" /\ Arrived("engineer")
    /\ LET m == FirstOf(toEngineer)
           ok == m.type = Subscribed
                 /\ (engineer = "StreamClient" => DecodeSubscribed(m.payload) # Raises)
       IN  estate' = IF ok THEN "up" ELSE "failed"
    /\ EngineerTakes(<<>>)
    /\ UNCHANGED <<parties, telemetry, dstate, client, learned, stalls>>

-----------------------------------------------------------------------------
(* After the handshake.                                                    *)

Leaves(m, state) ==
    IF m.type = Disconnect /\ state \in {"loop", "up"} THEN "leaving" ELSE state

(* The threads of streamer.py: the keep-alive thread sends one more round  *)
(* behind the DISCONNECT of stop(), update_session() has the clients of a  *)
(* moment ago, and stop() may find one whose DISCONNECT is being read.     *)
DriverSays ==
    /\ dstate \in (IF driver = "streamer" THEN Driving ELSE {"loop"})
    /\ Len(sent.driver) < 2 + MaxSaid
    /\ \E m \in (IF driver = "streamer"
                 THEN {EncodePing("ping"), EncodeSessionUpdate(<<>>, <<>>, 0),
                       EncodeDisconnect(3)}
                 ELSE {EncodeDisconnect(2)}) :
        /\ toEngineer' = toEngineer \o m
        /\ sent' = [sent EXCEPT !.driver = Append(@, Message(m))]
        /\ dstate' = Leaves(Message(m), dstate)
    /\ UNCHANGED <<parties, telemetry, estate, toDriver, client, learned, read, stalls>>

(* The keep-alive thread and disconnect(), which is called after the end   *)
(* of a session as well.  StreamingClient sends nothing of its own.        *)
EngineerSays ==
    /\ engineer = "StreamClient" /\ estate \in Engaged /\ Len(sent.engineer) < 2 + MaxSaid
    /\ \E m \in {EncodePing("probe"), EncodeDisconnect(4)} :
        /\ toDriver' = toDriver \o m
        /\ sent' = [sent EXCEPT !.engineer = Append(@, Message(m))]
        /\ estate' = Leaves(Message(m), estate)
    /\ UNCHANGED <<parties, telemetry, dstate, toEngineer, client, learned, read, stalls>>

(* A PING is echoed; one that does not decode ends the threads' reading.   *)
(* What is not known is ignored.                                           *)
Reply(m, threads) ==
    IF m.type # Ping THEN <<>>
    ELSE IF DecodePingPong(m.payload) # Raises THEN <<EncodePong(DecodePingPong(m.payload)[1])>>
    ELSE IF threads THEN <<>> ELSE <<EncodePong("zero")>>

Ends(m, threads) ==
    \/ m.type = Disconnect
    \/ m.type = Ping /\ threads /\ DecodePingPong(m.payload) = Raises

(* A reader that is told to stop may be waiting for a message, and takes   *)
(* that one.                                                               *)
DriverReads ==
    /\ dstate \in {"loop", "leaving"} /\ Arrived("driver")
    /\ LET m == FirstOf(toDriver) IN
       /\ DriverTakes(Reply(m, driver = "streamer"))
       /\ dstate' = IF dstate = "leaving" \/ Ends(m, driver = "streamer") THEN "over" ELSE dstate
    /\ UNCHANGED <<parties, telemetry, estate, client, learned, stalls>>

EngineerReads ==
    /\ estate \in {"up", "leaving"} /\ Arrived("engineer")
    /\ LET m == FirstOf(toEngineer)
           threads == engineer = "StreamClient"
           bad == threads /\ m.type = SessionUpdate /\ DecodeSessionUpdate(m.payload) = Raises
       IN  /\ EngineerTakes(Reply(m, threads))
           /\ estate' = IF estate = "leaving" \/ Ends(m, threads) \/ bad THEN "over" ELSE estate
    /\ UNCHANGED <<parties, telemetry, dstate, client, learned, stalls>>

Closes(side) ==
    /\ IF side = "driver"
       THEN dstate \in {"leaving", "over"} /\ dstate' = "closed" /\ UNCHANGED estate
       ELSE estate \in {"leaving", "over"} /\ estate' = "closed" /\ UNCHANGED dstate
    /\ UNCHANGED <<parties, telemetry, toDriver, toEngineer, client, learned, sent, read, stalls>>

-----------------------------------------------------------------------------
(* What goes wrong on the stream.                                          *)

Waiting(side) == IF side = "driver" THEN dstate \in {"hello", "subscribe", "loop", "leaving"}
                 ELSE estate \in {"welcome", "subscribed", "up", "leaving"}

StreamTo(side) == IF side = "driver" THEN toDriver ELSE toEngineer

Drop(side, k) ==
    IF side = "driver" THEN toDriver' = From(toDriver, k) /\ UNCHANGED toEngineer
    ELSE toEngineer' = From(toEngineer, k) /\ UNCHANGED toDriver

GivesUp(side) ==
    IF side = "driver"
    THEN dstate' = (IF dstate \in Driving THEN "over" ELSE "closed") /\ UNCHANGED estate
    ELSE estate' = (IF estate \in Engaged THEN "over" ELSE "failed") /\ UNCHANGED dstate

(* A time-out of the threads' _recvall() after k bytes: in a header the    *)
(* bytes are gone and the next read begins with the ones that follow; in   *)
(* the handshake, or in a payload, it ends the connection.                 *)
Stall(side) ==
    /\ Threads(side) /\ Waiting(side) /\ stalls < MaxStalls
    /\ stalls' = stalls + 1
    /\ \E k \in 1..(Min({Len(StreamTo(side)), CtrlHdrSize + 1})) :
        /\ k # CtrlHdrSize /\ Drop(side, k)
        /\ IF k < CtrlHdrSize /\ (IF side = "driver" THEN dstate = "loop" ELSE estate = "up")
           THEN UNCHANGED <<dstate, estate>>
           ELSE GivesUp(side)
    /\ UNCHANGED <<parties, telemetry, client, learned, sent, read>>

(* A message that is none, or the end of the stream.                       *)
Broken(side) ==
    /\ Waiting(side)
    /\ \/ Framing(side, StreamTo(side)) = "broken"
       \/ (IF side = "driver" THEN estate ELSE dstate) = "closed"
    /\ GivesUp(side)
    /\ UNCHANGED <<parties, telemetry, toDriver, toEngineer, client, learned, sent, read, stalls>>

-----------------------------------------------------------------------------
(* Telemetry.                                                              *)

Subset(f, ids) ==
    [f EXCEPT !.channels = Keep(f.channels, {c \in ToSet(f.channels) : c[1] \in ids})]

(* Without a subscription all is sent, which is so when there are no       *)
(* channels and none was asked for.                                        *)
Selected(f, ids) == IF ids = {} THEN f ELSE Subset(f, ids)

(* The frame: one value no channel is for, and some for the channels there *)
(* are, in an order of their own.                                          *)
FrameNow ==
    LET n == Min({2, Len(channels)}) IN
    [session |-> Session, seq |-> seq, ts |-> <<"t0", "t1">>[(seq % 2) + 1],
     channels |-> <<<<900, "x">>>>
                  \o [i \in 1..n |-> <<channels[n + 1 - i].id, <<"u", "v">>[i]>>]]

PushFrame ==
    /\ dstate \in Driving /\ seq < MaxFrames
    /\ seq' = seq + 1
    /\ LET f == FrameNow
           part == Selected(f, client.ids)
       IN  IF driver = "server"
           THEN datagrams' = datagrams \cup
                    {[port |-> client.port, frame |-> f, bytes |-> BuildTelemetryFrame(f, client.ids)]}
           ELSE \E compress \in BOOLEAN :
                  LET packet == EncodeTelemetryFrame(part, compress) IN
                  IF part.channels = <<>> \/ packet = Raises THEN UNCHANGED datagrams
                  ELSE datagrams' = datagrams \cup
                           {[port |-> client.port, frame |-> f, bytes |-> packet[1]]}
    /\ UNCHANGED <<parties, control, frame>>

(* Any datagram so far, in any order and as often as UDP likes.            *)
Receive ==
    /\ estate \in Engaged
    /\ \E d \in datagrams :
        /\ d.port = port
        /\ frame' = <<DecodeTelemetryFrame(d.bytes), d.frame>>
    /\ UNCHANGED <<parties, control, seq, datagrams>>

Next ==
    \/ Discover \/ EngineerConnects \/ DriverGreets \/ EngineerSubscribes
    \/ DriverSubscribes \/ EngineerSubscribed
    \/ DriverSays \/ EngineerSays \/ DriverReads \/ EngineerReads
    \/ \E side \in {"driver", "engineer"} : Stall(side) \/ Broken(side) \/ Closes(side)
    \/ PushFrame \/ Receive

Spec == Init /\ [][Next]_vars

-----------------------------------------------------------------------------
(* Properties.                                                             *)

(* Whatever the implementations and wherever the stream stops, each side   *)
(* acts upon the messages of the other in order and without a gap, and on  *)
(* nothing else: a header that lost its beginning is never taken for one.  *)
(* (Two time-outs in one DISCONNECT throw all of it away, and the PING     *)
(* behind it is answered: ExchangeMC_Stalls.cfg.  One does not.)           *)
MessagesInOrder ==
    /\ IsPrefix(read.driver, sent.engineer)
    /\ IsPrefix(read.engineer, sent.driver)

(* The driver sends what the engineer wants to where the engineer listens. *)
Understood ==
    /\ client.port = port
    /\ client.ids = (IF wanted = <<>> THEN AllIds ELSE ToSet(wanted))

(* Who discovers a driver of either kind finds what it announced, with     *)
(* names cut to their fields, and who is connected knows its session and   *)
(* its channels.  They understand each other in these cases only: the      *)
(* driver is streamer.py, and the engineer is StreamClient, or listens on  *)
(* the default port and the channels are counted from 0.  server.py        *)
(* connects to nobody but StreamingClient (main.py runs the two) and never *)
(* understands it: it reads a mask of channels out of the number of the    *)
(* port, and sends to a port of its own.                                   *)
HandshakeAgreed ==
    /\ estate = "new" /\ learned # <<>> =>
        learned = [Announcement EXCEPT !.driver = Upto(@, 32)]
    /\ estate = "up" =>
        /\ learned = [session |-> Session, channels |-> channels]
        /\ Understood <=>
             /\ driver = "streamer"
             /\ engineer = "StreamingClient" =>
                  port = DefaultUdpPort /\ AllIds = 0..(Len(channels) - 1)
        /\ driver = "server" =>
             /\ engineer = "StreamingClient"
             /\ client = [ids |-> Bits(Mask(DefaultUdpPort)), port |-> TelemetryPort]

(* A datagram an engineer takes for a frame is one frame that was pushed,  *)
(* late or repeated as it may be, with the values of the channels it has   *)
(* subscribed to and no others.  No engineer ever takes one of server.py,  *)
(* whose header is a byte shorter, for another frame.                      *)
FramesTrue ==
    frame # <<>> /\ frame[1] # Raises =>
        frame[1][1] = Selected(frame[2], client.ids)

(* An engineer understands the frames sent to it (protocol.md describes    *)
(* one header, with the flag lz4_compressed).                              *)
FramesUnderstood == frame # <<>> => frame[1] # Raises
=============================================================================
