----------------------------- MODULE ExchangeMC -----------------------------
(***************************************************************************)
(* Exchange with two channels, counted from 0 or not, or none at all.      *)
(***************************************************************************)
EXTENDS Exchange

Channel(id, name, unit) ==
    [id |-> id, name |-> Text(name, 9), unit |-> unit, type |-> 0, min |-> "a", max |-> "b"]

SomeLists ==
    {<<>>,
     <<Channel(0, "speed", Text("km/h", 4)), Channel(1, "rpm", <<>>)>>,
     <<Channel(1, "rpm", <<>>), Channel(300, "fuel", Text("L", 1))>>}

SomeWords == {"speed", "km/h", "rpm", "fuel", "L", "a", "b"}
(* What server.py makes of the port in the SUBSCRIBE of StreamingClient:   *)
(* six of the fourteen channels.                                           *)
ASSUME ServerSendsSix == Bits(Mask(DefaultUdpPort)) = {2, 3, 7, 8, 9, 13}

(* Bound: with frames about, one message after the handshake.  Frames and   *)
(* messages share no state but the ends of a connection.                   *)
FewAtOnce == seq > 0 => Len(sent.driver) + Len(sent.engineer) <= 5

AllOrOne == {<<>>, <<1>>}
TwoPorts == {DefaultUdpPort, TelemetryPort}
=============================================================================
