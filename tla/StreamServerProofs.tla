-------------------------- MODULE StreamServerProofs --------------------------
(***************************************************************************)
(* Proofs about the driver's streaming server, for any number of engineers, *)
(* control connections, calls and frames.                                  *)
(***************************************************************************)
EXTENDS StreamServer, SeqFacts, FiniteSetTheorems

CallRecord == [pc : {"none", "binding", "bound", "raised", "waiting",
                     "cancelling", "joining", "returned"},
               closing : Calls \cup {None}, task : BackgroundTasks \cup {None}]
ConnRecord == [pc : {"none", "hello", "subscribe", "serving", "over"},
               host : Hosts \cup {None}, by : Calls \cup {None},
               closed : BOOLEAN, gone : BOOLEAN, half : BOOLEAN]
FrameRecord == [pc : {"none", "created", "sending", "sent", "done"},
                todo : Seq(Conns), seq : 0..MaxFrames]

(* A connection that was made has a host and a server.                     *)
Made == \A c \in Conns : conn[c].pc # "none" => conn[c].host \in Hosts /\ conn[c].by \in Calls

(* A frame that is being sent has somebody left to be sent to.             *)
Sending ==
    \A f \in Frames : frame[f].pc \in {"sending", "sent"} =>
        /\ frame[f].todo # <<>>
        /\ \A c \in ToSet(frame[f].todo) : conn[c].pc # "none"

(* Every number of _sequence went with the first packet of a frame.        *)
Begun == {f \in Frames : frame[f].pc \notin {"none", "created"}}
Numbered == sequence <= Cardinality(Begun)

Registry == \A c \in ToSet(clients) : conn[c].pc # "none"

TypeInv == TypeOK /\ Made /\ Sending /\ Numbered /\ Registry

(* The registered are being served, one per address, and who is served is  *)
(* registered or an orphan.                                                *)
NoneWhenDown == ~running => clients = <<>>
OnePerHost == \A c, d \in ToSet(clients) : conn[c].host = conn[d].host => c = d
ShutLate == \A c \in Conns : conn[c].closed => conn[c].pc \in {"serving", "over"}
Reached == \A c \in Served \ orphans : ToSet(clients) \cap SameHost(c) # {}
ServedInv == ShutLate /\ ToSet(clients) \subseteq Served /\ OnePerHost /\ Reached

(* What start() and stop() have done so far, call by call.                 *)
Active(k) == call[k].pc \notin {"none", "returned", "raised"}
AllOver == \A c \in Conns : Over(c)
Quiet == server = None /\ listening = {} /\ AllOver
OnlyOf(g) == \A c \in Conns : Over(c) \/ conn[c].by = g
Starting(k) ==
    /\ call[k].pc = "binding" =>
         running /\ Quiet /\ alive = {} /\ tasks = <<>> /\ sock # None
    /\ call[k].pc = "bound" =>
         running /\ listening = {k} /\ OnlyOf(k) /\ alive = {} /\ sock # None
Stopping(k) ==
    /\ call[k].pc = "waiting" =>
         /\ ~running /\ server # None /\ call[k].closing = server /\ listening = {}
         /\ OnlyOf(server) /\ alive \subseteq ToSet(tasks)
    /\ call[k].pc = "cancelling" => ~running /\ Quiet /\ alive \subseteq ToSet(tasks)
    /\ call[k].pc = "joining" =>
         ~running /\ Quiet /\ alive \subseteq ToSet(tasks) \cup {call[k].task}
IsUp ==
    /\ server # None /\ listening = {server} /\ sock # None
    /\ ToSet(Background(server)) \subseteq alive /\ alive \subseteq ToSet(tasks)
    /\ OnlyOf(server)
IsEmpty == Quiet /\ alive = {} /\ tasks = <<>>
IsDown == IsEmpty /\ sock = None
IsUnbound == IsEmpty /\ sock # None

(* The calls are made in order.                                            *)
Later(k) == \A j \in Calls : j > k => call[j] = NoCall
InOrder ==
    \A k \in Calls : /\ call[k].pc = "none" => call[k] = NoCall /\ Later(k)
                     /\ Active(k) => Later(k)

LifeInv ==
    /\ NoneWhenDown /\ InOrder
    /\ \A j, k \in Calls : Active(j) /\ Active(k) => j = k
    /\ \A k \in Calls : Starting(k) /\ Stopping(k)
    /\ ~Calling => IF ~running THEN IsDown ELSE IF Unbound THEN IsUnbound ELSE IsUp

-----------------------------------------------------------------------------
(* Types.                                                                  *)

LEMMA BackgroundFacts ==
  ASSUME NEW k \in Calls
  PROVE  /\ Background(k) \in Seq(BackgroundTasks)
         /\ ToSet(Background(k)) = {[kind |-> "serve", by |-> k], [kind |-> "discovery", by |-> k]}
         /\ ToSet(Background(k)) \subseteq BackgroundTasks
<1> DEFINE a == [kind |-> "serve", by |-> k]
           b == [kind |-> "discovery", by |-> k]
<1>1. Background(k) = <<a, b>>
  BY DEF Background
<1> HIDE DEF a, b
<1>2. <<a, b>>[1] = a /\ <<a, b>>[2] = b /\ DOMAIN <<a, b>> = {1, 2}
  OBVIOUS
<1>3. ToSet(Background(k)) = {a, b}
  BY <1>1, <1>2 DEF ToSet
<1>4. a \in BackgroundTasks /\ b \in BackgroundTasks
  BY <1>1, <1>2 DEF BackgroundTasks
<1>5. <<a, b>> \in Seq(BackgroundTasks)
  BY <1>4
<1>6. QED
  BY <1>1, <1>3, <1>4, <1>5 DEF a, b

LEMMA TaskNotNone == None \notin Calls /\ Calls \subseteq Nat
BY ServerAssumption DEF Calls

(* The calls and the background tasks leave the rest alone.                *)
LEMMA CallTypes ==
  ASSUME TypeInv, NEW k \in Calls,
         BeginStart(k) \/ CallStep(k) \/ (\E t \in alive : BackgroundEnds(t))
  PROVE  /\ UNCHANGED <<connVars, frame, wire>>
         /\ running' \in BOOLEAN
         /\ server' \in Calls \cup {None} /\ sock' \in Calls \cup {None}
         /\ tasks' \in Seq(BackgroundTasks) /\ alive' \subseteq BackgroundTasks
         /\ listening' \subseteq Calls /\ call' \in [Calls -> CallRecord]
         /\ sequence' \in 0 .. sequence
<1>1. /\ running \in BOOLEAN
      /\ server \in Calls \cup {None} /\ sock \in Calls \cup {None}
      /\ tasks \in Seq(BackgroundTasks) /\ alive \subseteq BackgroundTasks
      /\ listening \subseteq Calls /\ call \in [Calls -> CallRecord]
      /\ sequence \in 0 .. MaxFrames
  BY DEF TypeInv, TypeOK, CallRecord
<1>2. 0 \in 0 .. sequence /\ sequence \in 0 .. sequence
  BY <1>1, ServerAssumption
<1>3. CASE BeginStart(k)
  BY <1>1, <1>2, <1>3 DEF BeginStart, CallRecord
<1>4. CASE Bind(k)
  BY <1>1, <1>2, <1>4 DEF Bind, CallRecord, frameVars
<1>5. CASE EndStart(k)
  <2>1. tasks \o Background(k) \in Seq(BackgroundTasks)
    BY <1>1, BackgroundFacts, JoinedElements
  <2>2. ToSet(Background(k)) \subseteq BackgroundTasks
    BY BackgroundFacts
  <2>3. call' \in [Calls -> CallRecord]
    BY <1>1, <1>5 DEF EndStart, CallRecord
  <2>4. QED
    BY <1>1, <1>2, <1>5, <2>1, <2>2, <2>3 DEF EndStart, frameVars
<1>6. CASE StopWaited(k)
  BY <1>1, <1>2, <1>6 DEF StopWaited, CallRecord, frameVars
<1>7. CASE Cancel(k)
  <2> DEFINE t == Head(tasks)
  <2>1. t \in BackgroundTasks /\ Tail(tasks) \in Seq(BackgroundTasks)
    BY <1>1, <1>7, TailFacts DEF Cancel
  <2>2. /\ listening' \subseteq listening /\ alive' \subseteq alive
        /\ call' = [call EXCEPT ![k].pc = "joining", ![k].task = t]
        /\ tasks' = Tail(tasks)
        /\ UNCHANGED <<running, server, sock, connVars, frameVars>>
    BY <1>7 DEF Cancel
  <2> HIDE DEF t
  <2>3. call' \in [Calls -> CallRecord]
    BY <1>1, <2>1, <2>2 DEF CallRecord
  <2>4. QED
    BY <1>1, <1>2, <2>1, <2>2, <2>3 DEF frameVars
<1>8. CASE Join(k)
  BY <1>1, <1>2, <1>8 DEF Join, CallRecord, frameVars
<1>9. CASE EndStop(k)
  BY <1>1, <1>2, <1>9 DEF EndStop, CallRecord, frameVars
<1>10. CASE \E t \in alive : BackgroundEnds(t)
  BY <1>1, <1>2, <1>10 DEF BackgroundEnds, frameVars
<1>11. QED
  BY <1>3, <1>4, <1>5, <1>6, <1>7, <1>8, <1>9, <1>10 DEF CallStep

(* A step that leaves the frames alone keeps what is said of them, if no   *)
(* connection is unmade.                                                   *)
LEMMA ConnectionKept ==
  ASSUME TypeInv, UNCHANGED <<frame, wire>>, sequence' \in 0 .. sequence,
         running' \in BOOLEAN,
         server' \in Calls \cup {None}, sock' \in Calls \cup {None},
         tasks' \in Seq(BackgroundTasks), alive' \subseteq BackgroundTasks,
         listening' \subseteq Calls, call' \in [Calls -> CallRecord],
         conn' \in [Conns -> ConnRecord], Made', clients' \in Seq(Conns), Registry',
         orphans' \subseteq Conns,
         \A c \in Conns : conn[c].pc # "none" => conn'[c].pc # "none"
  PROVE  TypeInv'
<1>1. /\ frame \in [Frames -> FrameRecord] /\ sequence \in 0 .. MaxFrames /\ Sending
      /\ Numbered /\ wire \in [Hosts -> Seq([frame : Frames, seq : 0..MaxFrames])]
  BY DEF TypeInv, TypeOK, FrameRecord
<1>2. TypeOK'
  <2>1. sequence' \in 0 .. MaxFrames
    BY <1>1, ServerAssumption
  <2>2. QED
    BY <1>1, <2>1 DEF TypeOK, CallRecord, ConnRecord, FrameRecord
<1>3. Sending'
  <2>1. \A f \in Frames : ToSet(frame[f].todo) \subseteq Conns
    BY <1>1, ElementFacts DEF FrameRecord
  <2>2. QED
    BY <1>1, <2>1 DEF Sending
<1>4. Numbered'
  <2>1. Begun' = Begun
    BY DEF Begun
  <2>2. Begun \subseteq 1 .. MaxFrames
    BY DEF Begun, Frames
  <2>3. IsFiniteSet(Begun)
    <3>1. IsFiniteSet(1 .. MaxFrames)
      BY FS_Interval, ServerAssumption
    <3>2. QED
      BY <2>2, <3>1, FS_Subset
  <2>4. Cardinality(Begun) \in Nat
    BY <2>3, FS_CardinalityType
  <2>5. sequence' <= Cardinality(Begun)
    BY <1>1, <2>4, ServerAssumption DEF Numbered
  <2>6. QED
    BY <2>1, <2>5 DEF Numbered
<1>5. QED
  BY <1>2, <1>3, <1>4 DEF TypeInv

LEMMA StopTypes ==
  ASSUME TypeInv, NEW k \in Calls, BeginStop(k)
  PROVE  TypeInv'
<1>1. /\ running \in BOOLEAN /\ Made /\ sequence \in 0 .. MaxFrames
      /\ server \in Calls \cup {None} /\ sock \in Calls \cup {None}
      /\ tasks \in Seq(BackgroundTasks) /\ alive \subseteq BackgroundTasks
      /\ listening \subseteq Calls /\ call \in [Calls -> CallRecord]
      /\ clients \in Seq(Conns) /\ conn \in [Conns -> ConnRecord]
  BY DEF TypeInv, TypeOK, CallRecord, ConnRecord
<1>2. /\ running' = FALSE /\ clients' = <<>> /\ listening' \subseteq listening
      /\ UNCHANGED <<server, tasks, sock, alive, frame, wire, sequence>>
      /\ conn' = [c \in Conns |-> [conn[c] EXCEPT !.closed = @ \/ c \in ToSet(clients)]]
      /\ call' = [call EXCEPT ![k].pc = IF server = None THEN "cancelling" ELSE "waiting",
                              ![k].closing = server]
  BY DEF BeginStop, frameVars
<1>3. call' \in [Calls -> CallRecord]
  <2> DEFINE on == IF server = None THEN "cancelling" ELSE "waiting"
             r == [[call[k] EXCEPT !.pc = on] EXCEPT !.closing = server]
  <2>1. on \in {"cancelling", "waiting"}
    OBVIOUS
  <2>2. r \in CallRecord
    <3> HIDE DEF on
    <3>1. QED
      BY <1>1, <2>1 DEF CallRecord
  <2>3. call' = [call EXCEPT ![k] = r]
    BY <1>1, <1>2
  <2> HIDE DEF on, r
  <2>4. QED
    BY <1>1, <2>2, <2>3
<1>4. \A c \in Conns :
         /\ conn'[c] \in ConnRecord
         /\ conn'[c].pc = conn[c].pc /\ conn'[c].host = conn[c].host
         /\ conn'[c].by = conn[c].by
  <2> SUFFICES ASSUME NEW c \in Conns
               PROVE  /\ conn'[c] \in ConnRecord
                      /\ conn'[c].pc = conn[c].pc /\ conn'[c].host = conn[c].host
                      /\ conn'[c].by = conn[c].by
    OBVIOUS
  <2> DEFINE shut == conn[c].closed \/ c \in ToSet(clients)
  <2>1. shut \in BOOLEAN /\ conn'[c] = [conn[c] EXCEPT !.closed = shut]
    BY <1>1, <1>2 DEF ConnRecord
  <2> HIDE DEF shut
  <2>2. QED
    BY <1>1, <2>1 DEF ConnRecord
<1>5. conn' \in [Conns -> ConnRecord] /\ Made'
  BY <1>1, <1>2, <1>4 DEF Made
<1>6. clients' \in Seq(Conns) /\ Registry'
  <2>1. <<>> \in Seq(Conns) /\ ToSet(<<>>) = {}
    BY DEF ToSet
  <2>2. QED
    BY <1>2, <2>1 DEF Registry
<1>7. sequence' \in 0 .. sequence /\ orphans' \subseteq Conns
  BY <1>1, <1>2, ServerAssumption DEF BeginStop, Served
<1>8. QED
  BY <1>1, <1>2, <1>3, <1>4, <1>5, <1>6, <1>7, ConnectionKept

LEMMA ConnFacts ==
  ASSUME TypeInv, NEW c \in Conns
  PROVE  /\ conn \in [Conns -> ConnRecord] /\ conn[c] \in ConnRecord
         /\ clients \in Seq(Conns) /\ ToSet(clients) \subseteq Conns
         /\ ~Over(c) => conn[c].host \in Hosts /\ conn[c].by \in Calls
<1>1. conn \in [Conns -> ConnRecord] /\ clients \in Seq(Conns) /\ Made
  BY DEF TypeInv, TypeOK, ConnRecord
<1>2. ToSet(clients) \subseteq Conns
  BY <1>1, ElementFacts
<1>3. QED
  BY <1>1, <1>2 DEF Made, Over

LEMMA WithoutHostFacts ==
  ASSUME TypeInv, NEW h
  PROVE  /\ WithoutHost(h) \in Seq(Conns)
         /\ \A c : c \in ToSet(WithoutHost(h)) <=> c \in ToSet(clients) /\ conn[c].host # h
<1>1. clients \in Seq(Conns)
  BY DEF TypeInv, TypeOK
<1>2. ToSet(clients) \subseteq Conns
  BY <1>1, ElementFacts
<1> DEFINE S == {c \in Conns : conn[c].host # h}
<1>3. \A c \in Conns : c \in S <=> conn[c].host # h
  OBVIOUS
<1> HIDE DEF S
<1>4. /\ Keep(clients, S) \in Seq(Conns)
      /\ \A c : c \in ToSet(Keep(clients, S)) <=> c \in ToSet(clients) /\ c \in S
  BY <1>1, KeepFacts
<1>5. WithoutHost(h) = Keep(clients, S)
  BY Zenon DEF WithoutHost, S
<1>6. QED
  BY <1>2, <1>3, <1>4, <1>5, Zenon

LEMMA RegisteredFacts ==
  ASSUME TypeInv, NEW c \in Conns
  PROVE  /\ Registered(c) \in Seq(Conns)
         /\ \A d : d \in ToSet(Registered(c)) <=>
                     d = c \/ (d \in ToSet(clients) /\ conn[d].host # conn[c].host)
<1>1. clients \in Seq(Conns) /\ Len(clients) \in Nat /\ DOMAIN clients = 1 .. Len(clients)
      /\ \A i \in DOMAIN clients : clients[i] \in Conns
  BY DEF TypeInv, TypeOK
<1> DEFINE known == \E d \in ToSet(clients) : conn[d].host = conn[c].host
           r == [i \in DOMAIN clients |->
                     IF conn[clients[i]].host = conn[c].host THEN c ELSE clients[i]]
<1>2. CASE known
  <2>1. Registered(c) = r
    BY <1>2 DEF Registered
  <2>2. r \in [1 .. Len(clients) -> Conns]
    BY <1>1
  <2>3. r \in Seq(Conns) /\ DOMAIN r = DOMAIN clients
    BY <1>1, <2>2
  <2>4. \A i \in DOMAIN clients :
           r[i] = IF conn[clients[i]].host = conn[c].host THEN c ELSE clients[i]
    OBVIOUS
  <2>5. \E i \in DOMAIN clients : conn[clients[i]].host = conn[c].host
    BY <1>2 DEF ToSet
  <2> HIDE DEF r
  <2>6. ASSUME NEW d
        PROVE  d \in ToSet(r) <=>
                 d = c \/ (d \in ToSet(clients) /\ conn[d].host # conn[c].host)
    BY <2>3, <2>4, <2>5 DEF ToSet
  <2>7. QED
    BY <2>1, <2>3, <2>6
<1>3. CASE ~known
  <2>1. Registered(c) = Append(clients, c)
    BY <1>3 DEF Registered
  <2>2. ToSet(Append(clients, c)) = ToSet(clients) \cup {c}
    BY <1>1, ElementFacts
  <2>3. Append(clients, c) \in Seq(Conns)
    BY <1>1
  <2>4. QED
    BY <1>3, <2>1, <2>2, <2>3
<1>4. QED
  BY <1>2, <1>3

(* A step of connection c changes its record alone.                        *)
LEMMA OneConnection ==
  ASSUME TypeInv, NEW c \in Conns, NEW new \in ConnRecord,
         conn' = [conn EXCEPT ![c] = new], new.pc # "none",
         new.host \in Hosts, new.by \in Calls,
         UNCHANGED <<lifeVars, frameVars>>, orphans' \subseteq Conns,
         clients' \in Seq(Conns), ToSet(clients') \subseteq ToSet(clients) \cup {c}
  PROVE  TypeInv'
<1>1. /\ conn \in [Conns -> ConnRecord] /\ Made /\ Registry /\ running \in BOOLEAN
      /\ server \in Calls \cup {None} /\ sock \in Calls \cup {None}
      /\ tasks \in Seq(BackgroundTasks) /\ alive \subseteq BackgroundTasks
      /\ listening \subseteq Calls /\ call \in [Calls -> CallRecord]
      /\ sequence \in 0 .. MaxFrames
  BY DEF TypeInv, TypeOK, CallRecord, ConnRecord
<1>2. ToSet(clients) \subseteq Conns
  BY ConnFacts
<1>3. /\ conn' \in [Conns -> ConnRecord] /\ conn'[c] = new
      /\ \A d \in Conns : d # c => conn'[d] = conn[d]
  BY <1>1
<1>4. Made' /\ \A d \in Conns : conn[d].pc # "none" => conn'[d].pc # "none"
  BY <1>1, <1>3 DEF Made
<1>5. Registry'
  BY <1>1, <1>2, <1>3 DEF Registry
<1>6. UNCHANGED <<frame, wire, running, server, sock, tasks, alive, listening, call, sequence>>
  BY DEF lifeVars, frameVars
<1>7. sequence' \in 0 .. sequence
  BY <1>1, <1>6, ServerAssumption
<1>8. QED
  BY <1>1, <1>3, <1>4, <1>5, <1>6, <1>7, ConnectionKept

(* What a step does to its connection.                                     *)
Moved(c, new) == conn' = [conn EXCEPT ![c] = new] /\ UNCHANGED <<lifeVars, frameVars>>

LEMMA ConnectMoves ==
  ASSUME TypeInv, NEW c \in Conns, NEW h \in Hosts, Connect(c, h)
  PROVE  \E g \in listening, new \in ConnRecord :
           /\ Moved(c, new) /\ UNCHANGED <<clients, orphans>>
           /\ new.pc = "hello" /\ new.host = h /\ new.by = g /\ ~new.closed
<1>1. PICK g \in listening :
        conn' = [conn EXCEPT ![c] = [NoConn EXCEPT !.pc = "hello", !.host = h, !.by = g]]
  BY DEF Connect
<1> DEFINE new == [NoConn EXCEPT !.pc = "hello", !.host = h, !.by = g]
<1>2. g \in Calls
  BY DEF TypeInv, TypeOK
<1>3. /\ new \in ConnRecord /\ new.pc = "hello" /\ new.host = h /\ new.by = g
      /\ ~new.closed
  BY <1>2 DEF ConnRecord, NoConn
<1>4. conn' = [conn EXCEPT ![c] = new] /\ UNCHANGED <<lifeVars, clients, orphans, frameVars>>
  BY <1>1 DEF Connect
<1> HIDE DEF new
<1>5. QED
  BY <1>3, <1>4 DEF Moved

Handles(c) ==
    Leave(c) \/ HalfMessage(c) \/ Hello(c) \/ Subscribe(c) \/ Payload(c) \/ HandlerEnds(c)

LEMMA HandlerMoves ==
  ASSUME TypeInv, NEW c \in Conns, Handles(c)
  PROVE  /\ ~Over(c)
         /\ \E new \in ConnRecord :
              /\ Moved(c, new) /\ new.host = conn[c].host /\ new.by = conn[c].by
              /\ new.closed = conn[c].closed
              /\ \/ /\ UNCHANGED <<clients, orphans>> /\ new.pc \notin {"none", "over"}
                    /\ new.pc = conn[c].pc \/ (new.pc = "subscribe" /\ conn[c].pc = "hello")
                 \/ /\ clients' = Registered(c) /\ new.pc = "serving"
                    /\ conn[c].pc = "subscribe" /\ running
                    /\ orphans' = orphans \ SameHost(c)
                 \/ /\ clients' = WithoutHost(conn[c].host) /\ new.pc = "over"
                    /\ orphans' = (orphans \cup (Served \cap SameHost(c))) \ {c}
<1> DEFINE left == [conn[c] EXCEPT !.gone = TRUE]
           half(b) == [conn[c] EXCEPT !.half = b]
           in(pc) == [[conn[c] EXCEPT !.pc = pc] EXCEPT !.half = FALSE]
           ConnPcs == {"subscribe", "serving", "over"}
<1>1. conn \in [Conns -> ConnRecord] /\ conn[c] \in ConnRecord
  BY ConnFacts
<1>2. /\ left \in ConnRecord /\ left.host = conn[c].host /\ left.by = conn[c].by
      /\ left.pc = conn[c].pc /\ left.closed = conn[c].closed
  BY <1>1 DEF ConnRecord
<1>3. \A pc \in ConnPcs :
         /\ in(pc) \in ConnRecord /\ in(pc).host = conn[c].host /\ in(pc).by = conn[c].by
         /\ in(pc).pc = pc /\ in(pc).closed = conn[c].closed
  BY <1>1 DEF ConnRecord
<1>4. \A b \in BOOLEAN :
         /\ half(b) \in ConnRecord /\ half(b).host = conn[c].host
         /\ half(b).by = conn[c].by /\ half(b).pc = conn[c].pc
         /\ half(b).closed = conn[c].closed
  BY <1>1 DEF ConnRecord
<1>5. ~Over(c)
  BY DEF Handles, Leave, HalfMessage, Hello, Subscribe, Payload, HandlerEnds, Over, Due
<1> DEFINE ends == /\ Moved(c, in("over")) /\ clients' = WithoutHost(conn[c].host)
                   /\ orphans' = (orphans \cup (Served \cap SameHost(c))) \ {c}
<1>6. Finally(c) /\ UNCHANGED <<lifeVars, frameVars>> => ends
  BY <1>1 DEF Finally, Moved
<1>7. \/ Moved(c, left) /\ UNCHANGED <<clients, orphans>>
      \/ \E b \in BOOLEAN : Moved(c, half(b)) /\ UNCHANGED <<clients, orphans>>
      \/ Moved(c, in("subscribe")) /\ UNCHANGED <<clients, orphans>> /\ conn[c].pc = "hello"
      \/ /\ Moved(c, in("serving")) /\ clients' = Registered(c)
         /\ conn[c].pc = "subscribe" /\ running /\ orphans' = orphans \ SameHost(c)
      \/ ends
  <2>1. CASE Leave(c)
    BY <2>1, <1>1 DEF Leave, Moved
  <2>2. CASE HalfMessage(c)
    BY <2>2, <1>1 DEF HalfMessage, Moved
  <2>3. CASE Hello(c)
    BY <2>3, <1>1 DEF Hello, Moved
  <2>4. CASE Subscribe(c)
    <3>1. CASE running
      BY <2>4, <3>1, <1>1 DEF Subscribe, Moved
    <3>2. CASE ~running
      BY <2>4, <3>2, <1>6 DEF Subscribe
    <3>3. QED
      BY <3>1, <3>2
  <2>5. CASE Payload(c)
    <3>1. CASE running
      BY <2>5, <3>1, <1>1 DEF Payload, Moved
    <3>2. CASE ~running
      BY <2>5, <3>2, <1>6 DEF Payload
    <3>3. QED
      BY <3>1, <3>2
  <2>6. CASE HandlerEnds(c)
    BY <2>6, <1>6 DEF HandlerEnds
  <2>7. QED
    BY <2>1, <2>2, <2>3, <2>4, <2>5, <2>6 DEF Handles
<1> HIDE DEF left, half, in
<1>8. conn[c].pc \notin {"none", "over"}
  BY <1>5 DEF Over
<1>9. CASE Moved(c, left) /\ UNCHANGED <<clients, orphans>>
  BY <1>2, <1>5, <1>8, <1>9
<1>10. CASE \E b \in BOOLEAN : Moved(c, half(b)) /\ UNCHANGED <<clients, orphans>>
  BY <1>4, <1>5, <1>8, <1>10
<1>11. QED
  BY <1>3, <1>5, <1>7, <1>8, <1>9, <1>10

LEMMA ConnTypes ==
  ASSUME TypeInv, NEW c \in Conns, (\E h \in Hosts : Connect(c, h)) \/ Handles(c)
  PROVE  TypeInv'
<1>1. /\ clients \in Seq(Conns) /\ ToSet(clients) \subseteq Conns
      /\ listening \subseteq Calls /\ orphans \subseteq Conns
  BY ConnFacts DEF TypeInv, TypeOK
<1>2. CASE \E h \in Hosts : Connect(c, h)
  <2>1. PICK h \in Hosts, g \in listening, new \in ConnRecord :
          /\ Moved(c, new) /\ UNCHANGED <<clients, orphans>>
          /\ new.pc = "hello" /\ new.host = h /\ new.by = g
    BY <1>2, ConnectMoves
  <2>2. QED
    BY <1>1, <2>1, OneConnection DEF Moved
<1>3. CASE Handles(c)
  <2>1. conn[c].host \in Hosts /\ conn[c].by \in Calls /\ conn[c].pc # "none"
    BY <1>3, HandlerMoves, ConnFacts DEF Over
  <2>2. PICK new \in ConnRecord :
          /\ Moved(c, new) /\ new.host = conn[c].host /\ new.by = conn[c].by
          /\ new.pc # "none"
          /\ clients' \in {clients, Registered(c), WithoutHost(conn[c].host)}
          /\ orphans' \subseteq orphans \cup Served
    BY <1>3, <2>1, HandlerMoves
  <2>3. clients' \in Seq(Conns) /\ ToSet(clients') \subseteq ToSet(clients) \cup {c}
    <3>1. /\ Registered(c) \in Seq(Conns)
          /\ ToSet(Registered(c)) \subseteq ToSet(clients) \cup {c}
      BY RegisteredFacts
    <3>2. /\ WithoutHost(conn[c].host) \in Seq(Conns)
          /\ ToSet(WithoutHost(conn[c].host)) \subseteq ToSet(clients)
      BY WithoutHostFacts
    <3>3. QED
      BY <1>1, <2>2, <3>1, <3>2
  <2>4. orphans' \subseteq Conns
    BY <1>1, <2>2 DEF Served
  <2>5. QED
    BY <2>1, <2>2, <2>3, <2>4, OneConnection DEF Moved
<1>4. QED
  BY <1>2, <1>3

(* A step of frame f changes its record alone, and takes a number only as  *)
(* it begins.                                                              *)
LEMMA OneFrame ==
  ASSUME TypeInv, NEW f \in Frames, NEW new \in FrameRecord,
         frame' = [frame EXCEPT ![f] = new], UNCHANGED <<lifeVars, connVars>>,
         wire' \in [Hosts -> Seq([frame : Frames, seq : 0..MaxFrames])],
         new.pc \in {"sending", "sent"} =>
            new.todo # <<>> /\ \A c \in ToSet(new.todo) : conn[c].pc # "none",
         frame[f].pc \notin {"none", "created"} => new.pc \notin {"none", "created"},
         \/ sequence' = sequence
         \/ sequence' = sequence + 1 /\ frame[f].pc = "created" /\ new.pc = "sending"
  PROVE  TypeInv' /\ sequence' \in 0 .. MaxFrames
<1>1. /\ frame \in [Frames -> FrameRecord] /\ sequence \in 0 .. MaxFrames
      /\ Sending /\ Numbered
  BY DEF TypeInv, TypeOK, FrameRecord
<1>2. /\ frame' \in [Frames -> FrameRecord] /\ frame'[f] = new
      /\ \A g \in Frames : g # f => frame'[g] = frame[g]
  BY <1>1
<1>3. UNCHANGED <<running, server, sock, tasks, alive, listening, call, clients, conn,
                  orphans>>
  BY DEF lifeVars, connVars
<1>4. Sending'
  BY <1>1, <1>2, <1>3 DEF Sending
<1>5. Made' /\ Registry'
  BY <1>3 DEF TypeInv, Made, Registry, ToSet
<1>6. sequence' <= Cardinality(Begun') /\ sequence' \in 0 .. MaxFrames
  <2>1. Begun' \subseteq 1 .. MaxFrames
    BY DEF Begun, Frames
  <2>2. Begun \subseteq Begun' /\ (sequence' # sequence => f \in Begun' /\ f \notin Begun)
    BY <1>1, <1>2 DEF Begun
  <2>3. IsFiniteSet(1 .. MaxFrames) /\ Cardinality(1 .. MaxFrames) = MaxFrames
    <3>1. MaxFrames \in Nat /\ MaxFrames \in Int /\ 1 \in Int
      BY ServerAssumption
    <3>2. /\ IsFiniteSet(1 .. MaxFrames)
          /\ Cardinality(1 .. MaxFrames) = IF 1 > MaxFrames THEN 0 ELSE MaxFrames - 1 + 1
      BY <3>1, FS_Interval
    <3>3. QED
      BY <3>1, <3>2
  <2>4. IsFiniteSet(Begun') /\ Cardinality(Begun') <= MaxFrames
    BY <2>1, <2>3, FS_Subset
  <2>5. IsFiniteSet(Begun) /\ Cardinality(Begun) <= Cardinality(Begun')
    BY <2>2, <2>4, FS_Subset
  <2>6. Cardinality(Begun) \in Nat /\ Cardinality(Begun') \in Nat
    BY <2>4, <2>5, FS_CardinalityType
  <2>7. sequence <= Cardinality(Begun)
    BY <1>1 DEF Numbered
  <2>8. CASE sequence' = sequence
    BY <1>1, <2>5, <2>6, <2>7, <2>8, ServerAssumption
  <2>9. CASE sequence' = sequence + 1 /\ sequence' # sequence
    <3>1. Cardinality(Begun \cup {f}) = Cardinality(Begun) + 1
      BY <2>2, <2>5, <2>9, FS_AddElement
    <3>2. Begun \cup {f} \subseteq Begun'
      BY <2>2, <2>9
    <3>3. Cardinality(Begun \cup {f}) <= Cardinality(Begun')
      BY <2>4, <3>2, FS_Subset
    <3>4. Cardinality(Begun) + 1 <= Cardinality(Begun')
      BY <3>1, <3>3
    <3>5. QED
      BY <1>1, <2>4, <2>6, <2>7, <2>9, <3>4, ServerAssumption
  <2>10. QED
    BY <2>8, <2>9
<1>7. TypeOK'
  BY <1>2, <1>3, <1>6 DEF TypeInv, TypeOK, FrameRecord
<1>8. QED
  BY <1>4, <1>5, <1>6, <1>7 DEF TypeInv, Numbered

LEMMA FrameTypes ==
  ASSUME TypeInv, NEW f \in Frames,
         OnFrame(f) \/ BeginFrame(f) \/ Transmit(f) \/ NextClient(f)
  PROVE  TypeInv' /\ UNCHANGED <<lifeVars, connVars>>
<1>1. /\ frame \in [Frames -> FrameRecord] /\ frame[f] \in FrameRecord
      /\ sequence \in 0 .. MaxFrames
      /\ wire \in [Hosts -> Seq([frame : Frames, seq : 0..MaxFrames])]
      /\ clients \in Seq(Conns) /\ Made /\ Registry
      /\ frame[f].pc \in {"sending", "sent"} =>
            /\ frame[f].todo # <<>> /\ frame[f].todo \in Seq(Conns)
            /\ \A c \in ToSet(frame[f].todo) : conn[c].pc # "none"
  BY DEF TypeInv, TypeOK, FrameRecord, Sending
<1> DEFINE in(pc) == [frame[f] EXCEPT !.pc = pc]
<1>2. \A pc \in {"created", "done", "sent"} :
         /\ in(pc) \in FrameRecord /\ in(pc).pc = pc
         /\ in(pc).todo = frame[f].todo
  BY <1>1 DEF FrameRecord
<1>3. CASE OnFrame(f)
  <2>1. \E pc \in {"created", "done"} : frame' = [frame EXCEPT ![f] = in(pc)]
    BY <1>1, <1>3 DEF OnFrame
  <2>2. UNCHANGED <<lifeVars, connVars, sequence, wire>> /\ frame[f].pc = "none"
    BY <1>3 DEF OnFrame, IsNext
  <2> HIDE DEF in
  <2>3. PICK pc \in {"created", "done"} : frame' = [frame EXCEPT ![f] = in(pc)]
    BY <2>1
  <2>4. in(pc) \in FrameRecord /\ in(pc).pc = pc
    BY <1>2
  <2>5. QED
    BY <1>1, <2>2, <2>3, <2>4, OneFrame
<1>4. CASE BeginFrame(f)
  <2> DEFINE new == [pc |-> "sending", todo |-> clients, seq |-> sequence + 1]
  <2>1. UNCHANGED <<lifeVars, connVars, wire>> /\ frame[f].pc = "created"
    BY <1>4 DEF BeginFrame
  <2>2. CASE frame' = [frame EXCEPT ![f] = in("done")] /\ sequence' = sequence
    <3>1. in("done") \in FrameRecord /\ in("done").pc = "done"
      BY <1>2
    <3> HIDE DEF in
    <3>2. QED
      BY <1>1, <2>1, <2>2, <3>1, OneFrame
  <2>3. CASE /\ clients # <<>> /\ sequence' = sequence + 1
             /\ frame' = [frame EXCEPT ![f] = new]
    <3>1. sequence + 1 \in 0 .. MaxFrames
      <4>1. Begun \subseteq 1 .. MaxFrames \ {f} /\ f \in 1 .. MaxFrames
        BY <2>1 DEF Begun, Frames
      <4>2. MaxFrames \in Nat /\ MaxFrames \in Int /\ 1 \in Int
        BY ServerAssumption
      <4>3. /\ IsFiniteSet(1 .. MaxFrames)
            /\ Cardinality(1 .. MaxFrames) = IF 1 > MaxFrames THEN 0 ELSE MaxFrames - 1 + 1
        BY <4>2, FS_Interval
      <4>4. Cardinality(1 .. MaxFrames) = MaxFrames
        BY <4>2, <4>3
      <4>5. Begun \cup {f} \subseteq 1 .. MaxFrames /\ f \notin Begun /\ Begun \subseteq 1 .. MaxFrames
        BY <4>1
      <4>6. IsFiniteSet(Begun)
        BY <4>3, <4>5, FS_Subset
      <4>7. Cardinality(Begun \cup {f}) = Cardinality(Begun) + 1 /\ Cardinality(Begun) \in Nat
        BY <4>5, <4>6, FS_AddElement, FS_CardinalityType
      <4>8. Cardinality(Begun \cup {f}) <= MaxFrames
        BY <4>3, <4>4, <4>5, FS_Subset
      <4>9. sequence <= Cardinality(Begun)
        BY DEF TypeInv, Numbered
      <4>10. QED
        BY <1>1, <4>2, <4>7, <4>8, <4>9
    <3>2. new \in FrameRecord /\ new.pc = "sending" /\ new.todo = clients
      BY <1>1, <3>1 DEF FrameRecord
    <3>3. \A c \in ToSet(new.todo) : conn[c].pc # "none"
      BY <1>1, <3>2 DEF Registry
    <3> HIDE DEF new
    <3>4. QED
      BY <1>1, <2>1, <2>3, <3>2, <3>3, OneFrame
  <2>4. QED
    BY <1>1, <1>4, <2>2, <2>3 DEF BeginFrame
<1>5. CASE Transmit(f)
  <2>1. /\ frame[f].pc = "sending" /\ UNCHANGED <<lifeVars, connVars, sequence>>
        /\ frame' = [frame EXCEPT ![f] = in("sent")]
    BY <1>1, <1>5 DEF Transmit
  <2>2. in("sent") \in FrameRecord /\ in("sent").pc = "sent" /\ in("sent").todo = frame[f].todo
    BY <1>2
  <2>3. wire' \in [Hosts -> Seq([frame : Frames, seq : 0..MaxFrames])]
    <3> DEFINE packet == [frame |-> f, seq |-> frame[f].seq]
    <3>1. packet \in [frame : Frames, seq : 0..MaxFrames]
      BY <1>1 DEF FrameRecord
    <3>2. Dest(f) \in Hosts
      <4>1. Head(frame[f].todo) \in Conns /\ conn[Head(frame[f].todo)].pc # "none"
        BY <1>1, <2>1, ElementFacts, TailFacts
      <4>2. QED
        BY <1>1, <4>1 DEF Made, Dest
    <3> DEFINE Packets == [frame : Frames, seq : 0..MaxFrames]
               longer == Append(wire[Dest(f)], packet)
    <3>3. wire' = wire \/ wire' = [wire EXCEPT ![Dest(f)] = longer]
      BY <1>1, <3>2, <1>5 DEF Transmit
    <3>4. wire \in [Hosts -> Seq(Packets)] /\ packet \in Packets
      BY <1>1, <3>1
    <3> HIDE DEF packet, Packets
    <3>5. longer \in Seq(Packets)
      BY <3>2, <3>4, AppendFacts
    <3> HIDE DEF longer
    <3>6. wire' \in [Hosts -> Seq(Packets)]
      BY <3>2, <3>3, <3>4, <3>5
    <3>7. QED
      BY <3>6 DEF Packets
  <2> HIDE DEF in
  <2>4. QED
    BY <1>1, <2>1, <2>2, <2>3, OneFrame
<1>6. CASE NextClient(f)
  <2> DEFINE ended == [NoFrame EXCEPT !.pc = "done"]
             rest == Tail(frame[f].todo)
             new == [pc |-> "sending", todo |-> rest, seq |-> sequence]
  <2>1. /\ frame[f].pc = "sent" /\ UNCHANGED <<lifeVars, connVars, sequence, wire>>
        /\ frame' = [frame EXCEPT ![f] = IF Len(frame[f].todo) = 1 THEN ended ELSE new]
    BY <1>1, <1>6 DEF NextClient
  <2>2. /\ rest \in Seq(Conns) /\ (Len(frame[f].todo) # 1 => rest # <<>>)
        /\ ToSet(rest) \subseteq ToSet(frame[f].todo)
    <3>1. frame[f].todo \in Seq(Conns) /\ frame[f].todo # <<>>
      BY <1>1, <2>1
    <3>2. rest \in Seq(Conns) /\ (rest = <<>> <=> Len(frame[f].todo) = 1)
      BY <3>1, TailFacts
    <3>3. ToSet(frame[f].todo) = {Head(frame[f].todo)} \cup ToSet(rest)
      BY <3>1, ElementFacts
    <3> HIDE DEF rest
    <3>4. QED
      BY <3>2, <3>3
  <2> HIDE DEF rest
  <2>3. ended \in FrameRecord /\ ended.pc = "done"
    <3>1. 0 \in 0 .. MaxFrames /\ <<>> \in Seq(Conns)
      BY ServerAssumption
    <3>2. QED
      BY <3>1 DEF FrameRecord, NoFrame
  <2>4. new \in FrameRecord /\ new.pc = "sending" /\ new.todo = rest
    BY <1>1, <2>2 DEF FrameRecord
  <2> HIDE DEF ended, new
  <2>5. CASE frame' = [frame EXCEPT ![f] = ended]
    BY <1>1, <2>1, <2>3, <2>5, OneFrame
  <2>6. CASE frame' = [frame EXCEPT ![f] = new] /\ Len(frame[f].todo) # 1
    <3>1. new.todo # <<>> /\ \A c \in ToSet(new.todo) : conn[c].pc # "none"
      BY <1>1, <2>1, <2>2, <2>4, <2>6
    <3>2. QED
      BY <1>1, <2>1, <2>4, <2>6, <3>1, OneFrame
  <2>7. QED
    BY <2>1, <2>5, <2>6
<1>7. QED
  BY <1>3, <1>4, <1>5, <1>6 DEF OnFrame, BeginFrame, Transmit, NextClient

LEMMA TypeInvInit == Init => TypeInv
<1> SUFFICES ASSUME Init PROVE TypeInv
  OBVIOUS
<1>1. /\ call = [k \in Calls |-> NoCall] /\ conn = [c \in Conns |-> NoConn]
      /\ frame = [f \in Frames |-> NoFrame] /\ sequence = 0 /\ clients = <<>>
  BY DEF Init
<1>2. NoCall \in CallRecord
  BY DEF NoCall, CallRecord
<1>3. NoConn \in ConnRecord
  BY DEF NoConn, ConnRecord
<1>4. NoFrame \in FrameRecord /\ 0 \in 0 .. MaxFrames
  BY ServerAssumption DEF NoFrame, FrameRecord
<1>5. TypeOK
  <2>1. /\ call \in [Calls -> CallRecord] /\ conn \in [Conns -> ConnRecord]
        /\ frame \in [Frames -> FrameRecord]
    BY <1>1, <1>2, <1>3, <1>4
  <2>2. /\ tasks \in Seq(BackgroundTasks) /\ clients \in Seq(Conns)
        /\ wire \in [Hosts -> Seq([frame : Frames, seq : 0..MaxFrames])]
    BY DEF Init
  <2>3. sequence \in 0 .. MaxFrames
    BY <1>1, <1>4
  <2>4. QED
    BY <2>1, <2>2, <2>3 DEF Init, TypeOK, CallRecord, ConnRecord, FrameRecord
<1>6. Made /\ Sending
  BY <1>1 DEF Made, Sending, NoConn, NoFrame
<1>7. Registry
  BY <1>1 DEF Registry, ToSet
<1>8. Begun = {}
  BY <1>1 DEF Begun, NoFrame
<1>9. Numbered
  BY <1>1, <1>8, FS_EmptySet DEF Numbered
<1>10. QED
  BY <1>5, <1>6, <1>7, <1>9 DEF TypeInv

LEMMA TypeInvNext == TypeInv /\ [Next]_vars => TypeInv'
<1> SUFFICES ASSUME TypeInv, [Next]_vars PROVE TypeInv'
  OBVIOUS
<1>1. ASSUME NEW k \in Calls,
             BeginStart(k) \/ CallStep(k) \/ (\E t \in alive : BackgroundEnds(t))
      PROVE  TypeInv'
  <2>1. /\ UNCHANGED <<conn, clients, orphans, frame, wire>>
        /\ running' \in BOOLEAN
        /\ server' \in Calls \cup {None} /\ sock' \in Calls \cup {None}
        /\ tasks' \in Seq(BackgroundTasks) /\ alive' \subseteq BackgroundTasks
        /\ listening' \subseteq Calls /\ call' \in [Calls -> CallRecord]
        /\ sequence' \in 0 .. sequence
    BY <1>1, CallTypes DEF connVars
  <2>2. conn \in [Conns -> ConnRecord] /\ clients \in Seq(Conns) /\ orphans \subseteq Conns
    BY DEF TypeInv, TypeOK, ConnRecord
  <2>3. Made' /\ Registry'
    BY <2>1 DEF TypeInv, Made, Registry, ToSet
  <2>4. QED
    BY <2>1, <2>2, <2>3, ConnectionKept
<1>2. CASE \E t \in alive : BackgroundEnds(t)
  <2>1. PICK t \in alive : BackgroundEnds(t)
    BY <1>2
  <2>2. t \in BackgroundTasks
    BY <2>1 DEF TypeInv, TypeOK
  <2>3. Calls # {}
    BY <2>2 DEF BackgroundTasks
  <2>4. QED
    BY <1>1, <1>2, <2>3
<1>3. CASE \E k \in Calls : BeginStop(k)
  BY <1>3, StopTypes
<1>4. CASE \E c \in Conns :
             (\E h \in Hosts : Connect(c, h)) \/ Handles(c)
  BY <1>4, ConnTypes
<1>5. CASE \E f \in Frames : OnFrame(f) \/ BeginFrame(f) \/ Transmit(f) \/ NextClient(f)
  BY <1>5, FrameTypes
<1>6. CASE UNCHANGED vars
  <2>1. UNCHANGED <<running, server, tasks, sock, listening, alive, call, clients, conn,
                    orphans, sequence, frame, wire>>
    BY <1>6 DEF vars, lifeVars, connVars, frameVars
  <2>2. TypeOK' /\ Made' /\ Sending' /\ Registry'
    <3>1. TypeOK'
      BY <2>1 DEF TypeInv, TypeOK
    <3>2. Made' /\ Registry'
      BY <2>1 DEF TypeInv, Made, Registry
    <3>3. Sending'
      BY <2>1 DEF TypeInv, Sending
    <3>4. QED
      BY <3>1, <3>2, <3>3
  <2>3. Begun' = Begun
    BY <2>1 DEF Begun
  <2>4. Numbered'
    BY <2>1, <2>3 DEF TypeInv, Numbered
  <2>5. QED
    BY <2>2, <2>4 DEF TypeInv
<1>7. QED
  BY <1>1, <1>2, <1>3, <1>4, <1>5, <1>6 DEF Next, CallStep, Handles

(* The server's variables keep their types, and _sequence counts no more   *)
(* than the frames that were begun since start(), whatever calls overlap   *)
(* and however engineers reconnect (server.py).                            *)
THEOREM ServerTyped == Spec => []TypeOK
<1>1. TypeInv => TypeOK
  BY DEF TypeInv
<1>2. QED
  BY <1>1, TypeInvInit, TypeInvNext, PTL DEF Spec

-----------------------------------------------------------------------------
(* The registry.                                                           *)

LEMMA DownNext ==
  ASSUME TypeInv, NoneWhenDown, [Next]_vars
  PROVE  NoneWhenDown'
<1>1. clients = <<>> => \A h : WithoutHost(h) = <<>>
  <2> SUFFICES ASSUME clients = <<>>, NEW h PROVE WithoutHost(h) = <<>>
    OBVIOUS
  <2> DEFINE w == WithoutHost(h)
  <2>1. w \in Seq(Conns) /\ \A c : c \in ToSet(w) => c \in ToSet(clients)
    BY WithoutHostFacts
  <2>2. ToSet(clients) = {}
    BY DEF ToSet
  <2> HIDE DEF w
  <2>3. w # <<>> => Head(w) \in ToSet(w)
    BY <2>1, ElementFacts
  <2>4. w = <<>>
    BY <2>1, <2>2, <2>3
  <2>5. QED
    BY <2>4 DEF w
<1>2. ASSUME NEW k \in Calls, BeginStart(k) \/ CallStep(k)
      PROVE  NoneWhenDown'
  <2>1. clients' = clients /\ (running' = running \/ running' = TRUE)
    BY <1>2 DEF BeginStart, CallStep, Bind, EndStart, StopWaited, Cancel, Join, EndStop, connVars
  <2>2. QED
    BY <2>1 DEF NoneWhenDown
<1>3. ASSUME NEW k \in Calls, BeginStop(k) PROVE NoneWhenDown'
  BY <1>3 DEF BeginStop, NoneWhenDown
<1>4. ASSUME NEW t \in alive, BackgroundEnds(t) PROVE NoneWhenDown'
  BY <1>4 DEF BackgroundEnds, NoneWhenDown, connVars
<1>5. ASSUME NEW c \in Conns, NEW h \in Hosts, Connect(c, h) PROVE NoneWhenDown'
  BY <1>5 DEF Connect, NoneWhenDown, lifeVars
<1>6. ASSUME NEW c \in Conns, Handles(c) PROVE NoneWhenDown'
  <2>1. PICK new \in ConnRecord :
          /\ Moved(c, new)
          /\ running \/ clients' = clients \/ clients' = WithoutHost(conn[c].host)
    BY <1>6, HandlerMoves
  <2>2. running' = running
    BY <2>1 DEF Moved, lifeVars
  <2>3. QED
    BY <1>1, <2>1, <2>2 DEF NoneWhenDown
<1>7. ASSUME NEW f \in Frames, OnFrame(f) \/ BeginFrame(f) \/ Transmit(f) \/ NextClient(f)
      PROVE  NoneWhenDown'
  BY <1>7, FrameTypes DEF NoneWhenDown, lifeVars, connVars
<1>8. CASE UNCHANGED vars
  BY <1>8 DEF NoneWhenDown, vars, lifeVars, connVars
<1>9. QED
  BY <1>2, <1>3, <1>4, <1>5, <1>6, <1>7, <1>8 DEF Next, CallStep, Handles

LEMMA MovedFacts ==
  ASSUME TypeInv, NEW c \in Conns, NEW new \in ConnRecord, Moved(c, new)
  PROVE  /\ conn'[c] = new /\ \A d \in Conns : d # c => conn'[d] = conn[d]
         /\ UNCHANGED <<running, server, tasks, sock, listening, alive, call>>
BY ConnFacts DEF Moved, lifeVars

LEMMA ServedNext ==
  ASSUME TypeInv, ServedInv, [Next]_vars
  PROVE  ServedInv'
<1>1. /\ ToSet(clients) \subseteq Served /\ OnePerHost /\ ShutLate /\ Reached
      /\ Served \subseteq Conns
  BY DEF ServedInv, Served
<1>2. CASE UNCHANGED connVars
  BY <1>1, <1>2 DEF connVars, ServedInv, Served, OnePerHost, ShutLate, Reached, SameHost
<1>3. ASSUME NEW k \in Calls, BeginStop(k) PROVE ServedInv'
  <2>1. /\ clients' = <<>> /\ orphans' = Served \ ToSet(clients)
        /\ conn' = [c \in Conns |-> [conn[c] EXCEPT !.closed = @ \/ c \in ToSet(clients)]]
        /\ conn \in [Conns -> ConnRecord]
    BY <1>3 DEF BeginStop, TypeInv, TypeOK, ConnRecord
  <2>2. \A c \in Conns :
          /\ conn'[c].pc = conn[c].pc
          /\ conn'[c].closed = (conn[c].closed \/ c \in ToSet(clients))
    BY <2>1 DEF ConnRecord
  <2>3. Served' = Served \ ToSet(clients)
    BY <2>2 DEF Served
  <2>4. ToSet(clients') = {}
    BY <2>1 DEF ToSet
  <2>5. ShutLate'
    BY <1>1, <2>2 DEF ShutLate, Served
  <2>6. QED
    BY <2>1, <2>3, <2>4, <2>5 DEF ServedInv, OnePerHost, Reached
<1>4. ASSUME NEW c \in Conns, NEW h \in Hosts, Connect(c, h) PROVE ServedInv'
  <2>1. PICK g \in listening, new \in ConnRecord :
          /\ Moved(c, new) /\ UNCHANGED <<clients, orphans>> /\ new.pc = "hello"
          /\ ~new.closed
    BY <1>4, ConnectMoves
  <2>2. /\ conn'[c].pc = "hello" /\ ~conn'[c].closed
        /\ \A d \in Conns : d # c => conn'[d] = conn[d]
    BY <2>1, MovedFacts
  <2>3. conn[c].pc = "none"
    BY <1>4 DEF Connect, IsNext
  <2>4. Served' = Served /\ c \notin Served
    BY <2>2, <2>3 DEF Served
  <2>5. \A d \in Served : conn'[d].host = conn[d].host
    BY <1>1, <2>2, <2>4
  <2>6. OnePerHost' /\ ShutLate'
    BY <1>1, <2>1, <2>2, <2>5 DEF OnePerHost, ShutLate
  <2>7. Reached'
    BY <1>1, <2>1, <2>4, <2>5 DEF Reached, SameHost
  <2>8. QED
    BY <1>1, <2>1, <2>4, <2>6, <2>7 DEF ServedInv
<1>5. ASSUME NEW c \in Conns, Handles(c) PROVE ServedInv'
  <2>1. PICK new \in ConnRecord :
          /\ Moved(c, new) /\ new.host = conn[c].host /\ new.closed = conn[c].closed
          /\ \/ /\ UNCHANGED <<clients, orphans>> /\ new.pc \notin {"none", "over"}
                /\ new.pc = conn[c].pc \/ (new.pc = "subscribe" /\ conn[c].pc = "hello")
             \/ /\ clients' = Registered(c) /\ new.pc = "serving"
                /\ conn[c].pc = "subscribe" /\ running
                /\ orphans' = orphans \ SameHost(c)
             \/ /\ clients' = WithoutHost(conn[c].host) /\ new.pc = "over"
                /\ orphans' = (orphans \cup (Served \cap SameHost(c))) \ {c}
    BY <1>5, HandlerMoves
  <2>2. conn'[c] = new /\ \A d \in Conns : d # c => conn'[d] = conn[d]
    BY <2>1, MovedFacts
  <2>3. \A d \in Conns : conn'[d].host = conn[d].host /\ SameHost(d)' = SameHost(d)
    BY <2>1, <2>2 DEF SameHost
  <2>4. ~Over(c)
    BY <1>5, HandlerMoves
  <2>5. ShutLate'
    BY <1>1, <2>1, <2>2, <2>4 DEF ShutLate, Over
  <2>6. CASE /\ UNCHANGED <<clients, orphans>>
             /\ new.pc = conn[c].pc \/ (new.pc = "subscribe" /\ conn[c].pc = "hello")
    <3>1. Served' = Served
      BY <2>1, <2>2, <2>6 DEF Served
    <3>2. OnePerHost' /\ Reached'
      BY <1>1, <2>3, <2>6, <3>1 DEF OnePerHost, Reached
    <3>3. QED
      BY <1>1, <2>5, <2>6, <3>1, <3>2 DEF ServedInv
  <2>7. CASE /\ clients' = Registered(c) /\ new.pc = "serving" /\ conn[c].pc = "subscribe"
             /\ orphans' = orphans \ SameHost(c)
    <3>1. \A d : d \in ToSet(clients') <=>
                   d = c \/ (d \in ToSet(clients) /\ conn[d].host # conn[c].host)
      BY <2>7, RegisteredFacts
    <3>2. Served' = Served \cup {c}
      BY <1>1, <2>1, <2>2, <2>7 DEF Served, ShutLate
    <3>3. ToSet(clients') \subseteq Served'
      BY <1>1, <3>1, <3>2
    <3>4. OnePerHost'
      BY <1>1, <2>3, <3>1 DEF OnePerHost
    <3>5. ASSUME NEW d \in Served' \ orphans'
          PROVE  ToSet(clients') \cap SameHost(d) # {}
      <4>1. CASE conn[d].host = conn[c].host
        BY <3>1, <4>1 DEF SameHost
      <4>2. CASE conn[d].host # conn[c].host
        <5>1. d \in Served \ orphans
          BY <2>7, <3>2, <4>2 DEF SameHost
        <5>2. PICK e \in ToSet(clients) : e \in SameHost(d)
          BY <1>1, <5>1 DEF Reached
        <5>3. e \in ToSet(clients')
          BY <3>1, <4>2, <5>2 DEF SameHost
        <5>4. QED
          BY <5>2, <5>3
      <4>3. QED
        BY <4>1, <4>2
    <3>6. Reached'
      BY <1>1, <2>3, <3>2, <3>5 DEF Reached
    <3>7. QED
      BY <2>5, <3>3, <3>4, <3>6 DEF ServedInv
  <2>8. CASE /\ clients' = WithoutHost(conn[c].host) /\ new.pc = "over"
             /\ orphans' = (orphans \cup (Served \cap SameHost(c))) \ {c}
    <3>1. \A d : d \in ToSet(clients') <=> d \in ToSet(clients) /\ conn[d].host # conn[c].host
      BY <2>8, WithoutHostFacts
    <3>2. Served' = Served \ {c}
      BY <2>2, <2>8 DEF Served
    <3>3. ToSet(clients') \subseteq Served'
      BY <1>1, <3>1, <3>2
    <3>4. OnePerHost'
      BY <1>1, <2>3, <3>1, <3>3, <3>2 DEF OnePerHost
    <3>5. ASSUME NEW d \in Served' \ orphans'
          PROVE  ToSet(clients') \cap SameHost(d) # {}
      <4>1. d \in Served \ orphans /\ conn[d].host # conn[c].host
        BY <1>1, <2>8, <3>2 DEF SameHost
      <4>2. PICK e \in ToSet(clients) : e \in SameHost(d)
        BY <1>1, <4>1 DEF Reached
      <4>3. e \in ToSet(clients')
        BY <3>1, <4>1, <4>2 DEF SameHost
      <4>4. QED
        BY <4>2, <4>3
    <3>6. Reached'
      BY <1>1, <2>3, <3>2, <3>5 DEF Reached
    <3>7. QED
      BY <2>5, <3>3, <3>4, <3>6 DEF ServedInv
  <2>9. QED
    BY <2>1, <2>6, <2>7, <2>8
<1>6. CASE \E k \in Calls : BeginStart(k) \/ CallStep(k)
  BY <1>2, <1>6 DEF BeginStart, CallStep, Bind, EndStart, StopWaited, Cancel, Join, EndStop
<1>7. CASE \E t \in alive : BackgroundEnds(t)
  BY <1>2, <1>7 DEF BackgroundEnds
<1>8. CASE \E f \in Frames : OnFrame(f) \/ BeginFrame(f) \/ Transmit(f) \/ NextClient(f)
  BY <1>2, <1>8, FrameTypes
<1>9. CASE UNCHANGED vars
  BY <1>2, <1>9 DEF vars
<1>10. QED
  BY <1>3, <1>4, <1>5, <1>6, <1>7, <1>8, <1>9 DEF Next, CallStep, Handles

LEMMA ServedInit == Init => ServedInv
<1> SUFFICES ASSUME Init PROVE ServedInv
  OBVIOUS
<1>1. clients = <<>> /\ \A c \in Conns : conn[c].pc = "none" /\ ~conn[c].closed
  BY DEF Init, NoConn
<1>2. ToSet(clients) = {} /\ Served = {}
  BY <1>1 DEF ToSet, Served
<1>3. QED
  BY <1>1, <1>2 DEF ServedInv, OnePerHost, ShutLate, Reached

(* The engineers frames are sent to are engineers that are served, one per *)
(* address, and an engineer that is served is reached under its address    *)
(* until the handler of another connection of that address ends or the     *)
(* server is stopped: for any number of connections, several of one        *)
(* address included, through stop() and a new start(), overlapping or not, *)
(* and whichever of the loop, the time-outs and the finally clause comes   *)
(* first (server.py, _handle_tcp_client, stop).                            *)
THEOREM SubscribersRegistered == Spec => []ServedAreRegistered
<1>1. ServedInv => ServedAreRegistered
  BY DEF ServedInv, OnePerHost, Reached, ServedAreRegistered
<1>2. QED
  BY <1>1, ServedInit, ServedNext, TypeInvInit, TypeInvNext, PTL DEF Spec

-----------------------------------------------------------------------------
(* start() and stop().                                                     *)

(* What the calls say of themselves.                                       *)
LEMMA CallsKept ==
  ASSUME InOrder, UNCHANGED call
  PROVE  /\ InOrder' /\ Calling' = Calling /\ Unbound' = Unbound
         /\ \A k \in Calls : Active(k)' = Active(k)
BY DEF InOrder, Later, Calling, Unbound, Active

LEMMA LifeKept ==
  ASSUME LifeInv,
         UNCHANGED <<running, server, tasks, sock, listening, alive, call, clients, conn>>
  PROVE  LifeInv'
<1>1. UNCHANGED <<IsUp, IsDown, IsUnbound, Quiet, NoneWhenDown>>
  BY DEF IsUp, IsDown, IsUnbound, IsEmpty, Quiet, AllOver, OnlyOf, Over, NoneWhenDown
<1>2. \A k \in Calls : UNCHANGED <<Active(k), Starting(k), Stopping(k)>>
  BY DEF Active, Starting, Stopping, Quiet, AllOver, OnlyOf, Over
<1>3. NoneWhenDown' /\ \A k \in Calls : Starting(k)' /\ Stopping(k)'
  BY <1>1, <1>2 DEF LifeInv
<1>4. \A j, k \in Calls : Active(j)' /\ Active(k)' => j = k
  BY <1>2 DEF LifeInv
<1>5. InOrder' /\ Calling' = Calling /\ Unbound' = Unbound
  BY CallsKept DEF LifeInv
<1>6. ~Calling' => IF ~running' THEN IsDown' ELSE IF Unbound' THEN IsUnbound' ELSE IsUp'
  BY <1>1, <1>5 DEF LifeInv
<1>7. QED
  BY <1>3, <1>4, <1>5, <1>6 DEF LifeInv

(* A call moves: no other one is under way, and none has been made after   *)
(* it.                                                                     *)
LEMMA OnlyCall ==
  ASSUME LifeInv, NEW k \in Calls, DOMAIN call = Calls, NoneWhenDown',
         Active(k) \/ (~Calling /\ IsNext(k, call)),
         \A j \in Calls : j # k => call'[j] = call[j],
         call'[k].pc # "none",
         Active(k)' => Starting(k)' /\ Stopping(k)',
         call'[k].pc = "raised" => running' /\ IsUnbound',
         call'[k].pc = "returned" => IF running' THEN IsUp' ELSE IsDown'
  PROVE  LifeInv'
<1>1. \A j \in Calls : j # k => ~Active(j)
  BY DEF LifeInv, Calling, Active
<1>2. \A j \in Calls : j # k => call'[j].pc \in {"none", "returned", "raised"}
  BY <1>1 DEF Active
<1>3. \A j \in Calls : j # k => ~Active(j)' /\ Starting(j)' /\ Stopping(j)'
  BY <1>2 DEF Active, Starting, Stopping
<1>4. \A j, i \in Calls : Active(j)' /\ Active(i)' => j = i
  BY <1>3
<1>5. ~Active(k)' => call'[k].pc \in {"returned", "raised"}
  BY DEF Active
<1>6. ~Active(k)' => Starting(k)' /\ Stopping(k)'
  BY <1>5 DEF Starting, Stopping
<1>7. Active(k)' => Calling'
  BY DEF Active, Calling
<1>8. \A j \in Calls : Starting(j)' /\ Stopping(j)'
  BY <1>3, <1>6
<1>9. IsNext(k, call) => \A j \in Calls : j < k => call[j].pc # "none"
  BY DEF IsNext
<1>10. NoCall.pc = "none" /\ \A j \in Calls : j \in Int
  BY ServerAssumption DEF NoCall, Calls
<1>11. Later(k)
  BY DEF LifeInv, InOrder, IsNext
<1>12. \A j \in Calls : j < k => call[j].pc # "none"
  <2>1. CASE Active(k)
    BY <1>10, <2>1 DEF LifeInv, InOrder, Later, Active
  <2>2. CASE IsNext(k, call)
    BY <1>9, <2>2
  <2>3. QED
    BY <2>1, <2>2
<1>13. Later(k)'
  BY <1>10, <1>11 DEF Later
<1>14. ASSUME NEW j \in Calls, call'[j].pc = "none" PROVE call'[j] = NoCall /\ Later(j)'
  <2>1. j # k /\ call'[j] = call[j] /\ call[j] = NoCall /\ Later(j)
    BY <1>14 DEF LifeInv, InOrder
  <2>2. k < j
    BY <1>10, <1>12, <2>1
  <2>3. QED
    BY <1>10, <2>1, <2>2 DEF Later
<1>15. InOrder'
  BY <1>3, <1>13, <1>14 DEF InOrder
<1>16. call'[k].pc = "raised" => Unbound'
  BY <1>13 DEF Later, Unbound
<1>17. call'[k].pc = "returned" => ~Unbound'
  <2>1. SUFFICES ASSUME call'[k].pc = "returned", NEW j \in Calls, call'[j].pc = "raised",
                        \A i \in Calls : i > j => call'[i] = NoCall
                 PROVE  FALSE
    BY DEF Unbound
  <2>2. j # k
    BY <2>1
  <2>3. CASE j > k
    BY <1>10, <1>13, <2>1, <2>3 DEF Later
  <2>4. CASE k > j
    BY <1>10, <2>1, <2>4
  <2>5. QED
    BY <1>10, <2>2, <2>3, <2>4
<1>18. ~Active(k)' => IF ~running' THEN IsDown' ELSE IF Unbound' THEN IsUnbound' ELSE IsUp'
  BY <1>5, <1>16, <1>17
<1>19. QED
  BY <1>4, <1>7, <1>8, <1>15, <1>18 DEF LifeInv

(* What a step does to the call it belongs to.                             *)
LEMMA CallMoves ==
  ASSUME TypeInv, NEW k \in Calls, BeginStart(k) \/ BeginStop(k) \/ CallStep(k)
  PROVE  /\ \A j \in Calls : j # k => call'[j] = call[j]
         /\ BeginStart(k) => call'[k].pc = "binding"
         /\ Bind(k) => \/ listening' = {k} /\ call'[k].pc = "bound"
                       \/ listening' = listening /\ call'[k].pc = "raised"
         /\ EndStart(k) => call'[k].pc = "returned"
         /\ BeginStop(k) =>
              /\ call'[k].pc = IF server = None THEN "cancelling" ELSE "waiting"
              /\ call'[k].closing = server
         /\ StopWaited(k) => call'[k].pc = "cancelling"
         /\ Cancel(k) => call'[k].pc = "joining" /\ call'[k].task = Head(tasks)
         /\ Join(k) => call'[k].pc = "cancelling"
         /\ EndStop(k) => call'[k].pc = "returned"
<1>1. call \in [Calls -> CallRecord] /\ call[k] \in CallRecord
  BY DEF TypeInv, TypeOK, CallRecord
<1>2. \A j \in Calls : j # k => call'[j] = call[j]
  BY <1>1 DEF BeginStart, BeginStop, CallStep, Bind, EndStart, StopWaited, Cancel, Join, EndStop
<1>3. /\ BeginStart(k) => call'[k].pc = "binding"
      /\ Bind(k) => \/ listening' = {k} /\ call'[k].pc = "bound"
                    \/ listening' = listening /\ call'[k].pc = "raised"
      /\ EndStart(k) => call'[k].pc = "returned"
  BY <1>1 DEF BeginStart, Bind, EndStart, CallRecord
<1>4. BeginStop(k) =>
         /\ call'[k].pc = IF server = None THEN "cancelling" ELSE "waiting"
         /\ call'[k].closing = server
  BY <1>1 DEF BeginStop, CallRecord
<1>5. /\ StopWaited(k) => call'[k].pc = "cancelling"
      /\ Join(k) => call'[k].pc = "cancelling"
      /\ EndStop(k) => call'[k].pc = "returned"
  BY <1>1 DEF StopWaited, Join, EndStop, CallRecord
<1>6. Cancel(k) => call'[k].pc = "joining" /\ call'[k].task = Head(tasks)
  BY <1>1 DEF Cancel, CallRecord
<1>7. QED
  BY <1>2, <1>3, <1>4, <1>5, <1>6

(* The connections are left alone by all steps of calls but BeginStop.     *)
LEMMA StartNext ==
  ASSUME ~OverlappingCalls, TypeInv, LifeInv, NoneWhenDown', NEW k \in Calls,
         BeginStart(k) \/ Bind(k) \/ EndStart(k)
  PROVE  LifeInv'
<1>1. /\ Starting(k) /\ k # None /\ \A j \in Calls : j # k => call'[j] = call[j]
      /\ tasks \in Seq(BackgroundTasks) /\ DOMAIN call = Calls
  BY CallMoves, TaskNotNone DEF LifeInv, CallStep, TypeInv, TypeOK
<1>2. UNCHANGED <<conn, clients>>
  BY DEF BeginStart, Bind, EndStart, connVars
<1>3. UNCHANGED AllOver /\ \A g : UNCHANGED OnlyOf(g)
  BY <1>2 DEF AllOver, OnlyOf, Over
<1>4. CASE BeginStart(k)
  <2>1. ~Calling /\ IsNext(k, call) /\ IsDown /\ call'[k].pc = "binding"
    BY <1>4, CallMoves DEF LifeInv, BeginStart, MayCall
  <2>2. Quiet' /\ alive' = {} /\ tasks' = <<>> /\ running' /\ sock' # None
    BY <1>1, <1>3, <1>4, <2>1 DEF BeginStart, IsDown, IsEmpty, Quiet
  <2>3. Active(k)' /\ Starting(k)' /\ Stopping(k)'
    BY <2>1, <2>2 DEF Active, Starting, Stopping
  <2>4. QED
    BY <1>1, <2>1, <2>3, OnlyCall
<1>5. CASE Bind(k)
  <2>1. /\ Active(k) /\ running /\ Quiet /\ alive = {} /\ tasks = <<>> /\ sock # None
    BY <1>1, <1>5 DEF Bind, Active, Starting
  <2>2. UNCHANGED <<running, server, tasks, alive, sock>>
    BY <1>5 DEF Bind
  <2>3. CASE listening' = {k} /\ call'[k].pc = "bound"
    <3>1. OnlyOf(k)'
      BY <1>3, <2>1 DEF Quiet, AllOver, OnlyOf
    <3>2. Active(k)' /\ Starting(k)' /\ Stopping(k)'
      BY <2>1, <2>2, <2>3, <3>1 DEF Active, Starting, Stopping
    <3>3. QED
      BY <1>1, <2>1, <2>3, <3>2, OnlyCall
  <2>4. CASE listening' = listening /\ call'[k].pc = "raised"
    <3>1. IsUnbound' /\ running'
      BY <1>3, <2>1, <2>2, <2>4 DEF IsUnbound, IsEmpty, Quiet
    <3>2. ~Active(k)'
      BY <2>4 DEF Active
    <3>3. QED
      BY <1>1, <2>1, <2>4, <3>1, <3>2, OnlyCall
  <2>5. QED
    BY <1>5, <2>3, <2>4, CallMoves DEF CallStep
<1>6. CASE EndStart(k)
  <2>1. Active(k) /\ running /\ listening = {k} /\ OnlyOf(k) /\ alive = {} /\ sock # None
    BY <1>1, <1>6 DEF EndStart, Active, Starting
  <2>2. /\ UNCHANGED <<running, listening, sock>> /\ server' = k
        /\ tasks' = tasks \o Background(k) /\ alive' = ToSet(Background(k))
        /\ call'[k].pc = "returned"
    BY <1>6, <2>1, CallMoves DEF EndStart, CallStep
  <2>3. alive' \subseteq ToSet(tasks')
    BY <1>1, <2>2, BackgroundFacts, JoinedElements
  <2>4. IsUp'
    BY <1>1, <1>3, <2>1, <2>2, <2>3 DEF IsUp
  <2>5. ~Active(k)' /\ running'
    BY <2>1, <2>2 DEF Active
  <2>6. QED
    BY <1>1, <2>1, <2>2, <2>4, <2>5, OnlyCall
<1>7. QED
  BY <1>4, <1>5, <1>6

LEMMA StopNext ==
  ASSUME ~OverlappingCalls, TypeInv, LifeInv, NoneWhenDown', NEW k \in Calls,
         BeginStop(k) \/ StopWaited(k) \/ Cancel(k) \/ Join(k) \/ EndStop(k)
  PROVE  LifeInv'
<1>1. /\ Stopping(k) /\ k # None /\ \A j \in Calls : j # k => call'[j] = call[j]
      /\ tasks \in Seq(BackgroundTasks) /\ DOMAIN call = Calls
  BY CallMoves, TaskNotNone DEF LifeInv, CallStep, TypeInv, TypeOK
<1>2. ~BeginStop(k) => UNCHANGED AllOver
  BY DEF StopWaited, Cancel, Join, EndStop, connVars, AllOver, Over
<1>3. CASE BeginStop(k)
  <2>1. ~Calling /\ IsNext(k, call) /\ running /\ (IsUp \/ IsUnbound)
    BY <1>3 DEF LifeInv, BeginStop, MayCall
  <2>2. /\ ~running' /\ listening' = listening \ {server}
        /\ UNCHANGED <<server, tasks, sock, alive>>
        /\ call'[k].pc = IF server = None THEN "cancelling" ELSE "waiting"
        /\ call'[k].closing = server
    BY <1>3, CallMoves DEF BeginStop
  <2>3. \A c \in Conns : conn'[c].pc = conn[c].pc /\ conn'[c].by = conn[c].by
    BY <1>3 DEF BeginStop, TypeInv, TypeOK
  <2>4. CASE IsUp
    <3>1. listening' = {} /\ server # None /\ OnlyOf(server)'
      BY <2>2, <2>3, <2>4 DEF IsUp, OnlyOf, Over
    <3>2. Active(k)' /\ Starting(k)' /\ Stopping(k)'
      BY <2>2, <2>4, <3>1 DEF Active, Starting, Stopping, IsUp
    <3>3. QED
      BY <1>1, <2>1, <2>2, <3>1, <3>2, OnlyCall
  <2>5. CASE IsUnbound
    <3>1. server = None /\ Quiet' /\ alive' \subseteq ToSet(tasks')
      BY <2>2, <2>3, <2>5 DEF IsUnbound, IsEmpty, Quiet, AllOver, Over
    <3>2. Active(k)' /\ Starting(k)' /\ Stopping(k)'
      BY <2>2, <3>1 DEF Active, Starting, Stopping
    <3>3. QED
      BY <1>1, <2>1, <2>2, <3>1, <3>2, OnlyCall
  <2>6. QED
    BY <2>1, <2>4, <2>5
<1>4. CASE StopWaited(k)
  <2>1. /\ Active(k) /\ ~running /\ listening = {} /\ call[k].closing = server
        /\ OnlyOf(server) /\ alive \subseteq ToSet(tasks)
    BY <1>1, <1>4 DEF StopWaited, Active, Stopping
  <2>2. AllOver
    BY <1>4, <2>1 DEF StopWaited, ConnectionsOver, OnlyOf, AllOver
  <2>3. /\ server' = None /\ UNCHANGED <<running, tasks, listening, alive, conn>>
        /\ call'[k].pc = "cancelling"
    BY <1>4, CallMoves DEF StopWaited, connVars, CallStep
  <2>4. Quiet' /\ alive' \subseteq ToSet(tasks') /\ ~running'
    BY <2>1, <2>2, <2>3 DEF Quiet, AllOver, Over
  <2>5. Active(k)' /\ Starting(k)' /\ Stopping(k)'
    BY <2>3, <2>4 DEF Active, Starting, Stopping
  <2>6. QED
    BY <1>1, <2>1, <2>3, <2>5, OnlyCall
<1>5. CASE Cancel(k)
  <2>1. Active(k) /\ ~running /\ Quiet /\ alive \subseteq ToSet(tasks) /\ tasks # <<>>
    BY <1>1, <1>5 DEF Cancel, Active, Stopping
  <2>2. /\ listening' \subseteq listening /\ alive' \subseteq alive /\ tasks' = Tail(tasks)
        /\ UNCHANGED <<running, server>>
        /\ call'[k].pc = "joining" /\ call'[k].task = Head(tasks)
    BY <1>5, CallMoves DEF Cancel, CallStep
  <2>3. ToSet(tasks) = {Head(tasks)} \cup ToSet(Tail(tasks))
    BY <1>1, <2>1, ElementFacts
  <2>4. AllOver'
    BY <1>2, <1>5, <2>1 DEF Quiet, Cancel, BeginStop
  <2>5. Quiet' /\ ~running' /\ alive' \subseteq ToSet(tasks') \cup {call'[k].task}
    BY <2>1, <2>2, <2>3, <2>4 DEF Quiet
  <2>6. Active(k)' /\ Starting(k)' /\ Stopping(k)'
    BY <2>2, <2>5 DEF Active, Starting, Stopping
  <2>7. QED
    BY <1>1, <2>1, <2>2, <2>6, OnlyCall
<1>6. CASE Join(k)
  <2>1. /\ Active(k) /\ ~running /\ Quiet /\ call[k].task \notin alive
        /\ alive \subseteq ToSet(tasks) \cup {call[k].task}
    BY <1>1, <1>6 DEF Join, Active, Stopping
  <2>2. /\ UNCHANGED <<running, server, listening, alive, tasks>>
        /\ call'[k].pc = "cancelling"
    BY <1>6, CallMoves DEF Join, CallStep
  <2>3. AllOver'
    BY <1>2, <1>6, <2>1 DEF Quiet, Join, BeginStop
  <2>4. Quiet' /\ ~running' /\ alive' \subseteq ToSet(tasks')
    BY <2>1, <2>2, <2>3 DEF Quiet
  <2>5. Active(k)' /\ Starting(k)' /\ Stopping(k)'
    BY <2>2, <2>4 DEF Active, Starting, Stopping
  <2>6. QED
    BY <1>1, <2>1, <2>2, <2>5, OnlyCall
<1>7. CASE EndStop(k)
  <2>1. Active(k) /\ ~running /\ Quiet /\ alive \subseteq ToSet(tasks) /\ tasks = <<>>
    BY <1>1, <1>7 DEF EndStop, Active, Stopping
  <2>2. /\ UNCHANGED <<running, server, listening, alive, tasks>> /\ sock' = None
        /\ call'[k].pc = "returned"
    BY <1>7, CallMoves DEF EndStop, CallStep
  <2>3. AllOver'
    BY <1>2, <1>7, <2>1 DEF Quiet, EndStop, BeginStop
  <2>4. ToSet(tasks) = {}
    BY <2>1 DEF ToSet
  <2>5. IsDown' /\ ~running' /\ ~Active(k)'
    BY <2>1, <2>2, <2>3, <2>4 DEF IsDown, IsEmpty, Quiet, Active
  <2>6. QED
    BY <1>1, <2>1, <2>2, <2>5, OnlyCall
<1>8. QED
  BY <1>3, <1>4, <1>5, <1>6, <1>7

LEMMA EndsNext ==
  ASSUME TypeInv, LifeInv, NEW t \in alive, BackgroundEnds(t)
  PROVE  LifeInv'
<1>1. /\ alive' = alive \ {t}
      /\ UNCHANGED <<running, server, tasks, sock, listening, call, clients, conn>>
      /\ server \in Calls \cup {None}
  BY DEF BackgroundEnds, connVars, TypeInv, TypeOK
<1>2. NoneWhenDown' /\ Quiet' = Quiet /\ \A g : OnlyOf(g)' = OnlyOf(g)
  BY <1>1 DEF LifeInv, NoneWhenDown, Quiet, AllOver, OnlyOf, Over
<1>3. /\ InOrder' /\ Calling' = Calling /\ Unbound' = Unbound
      /\ \A k \in Calls : Active(k)' = Active(k)
  BY <1>1, CallsKept DEF LifeInv
<1>4. ASSUME NEW k \in Calls PROVE Starting(k)' /\ Stopping(k)'
  BY <1>1, <1>2 DEF LifeInv, Starting, Stopping
<1>5. ASSUME running, IsUp PROVE IsUp'
  <2>1. t \notin ToSet(Background(server))
    <3>1. CASE t.kind = "discovery"
      BY <1>5, <3>1 DEF BackgroundEnds
    <3>2. CASE t.kind # "discovery"
      <4>1. t.by \notin listening /\ listening = {server} /\ server \in Calls
        BY <1>1, <1>5, <3>2 DEF BackgroundEnds, IsUp
      <4>2. QED
        BY <3>2, <4>1, BackgroundFacts
    <3>3. QED
      BY <3>1, <3>2
  <2>2. QED
    BY <1>1, <1>2, <1>5, <2>1 DEF IsUp
<1>6. (IsDown => IsDown') /\ (IsUnbound => IsUnbound')
  BY <1>1, <1>2 DEF IsDown, IsUnbound, IsEmpty
<1>7. ~Calling' => IF ~running' THEN IsDown' ELSE IF Unbound' THEN IsUnbound' ELSE IsUp'
  BY <1>1, <1>3, <1>5, <1>6 DEF LifeInv
<1>8. QED
  BY <1>2, <1>3, <1>4, <1>7 DEF LifeInv

LEMMA ConnNext ==
  ASSUME TypeInv, LifeInv, NoneWhenDown', NEW c \in Conns,
         (\E h \in Hosts : Connect(c, h)) \/ Handles(c)
  PROVE  LifeInv'
<1>1. PICK new \in ConnRecord :
        Moved(c, new) /\ (new.by \in listening \/ (~Over(c) /\ new.by = conn[c].by))
  <2>1. CASE \E h \in Hosts : Connect(c, h)
    <3>1. PICK h \in Hosts, g \in listening, new \in ConnRecord : Moved(c, new) /\ new.by = g
      BY <2>1, ConnectMoves
    <3>2. QED
      BY <3>1
  <2>2. CASE Handles(c)
    <3>1. ~Over(c) /\ \E new \in ConnRecord : Moved(c, new) /\ new.by = conn[c].by
      BY <2>2, HandlerMoves
    <3>2. QED
      BY <3>1
  <2>3. QED
    BY <2>1, <2>2
<1>2. /\ conn'[c] = new /\ \A d \in Conns : d # c => conn'[d] = conn[d]
      /\ UNCHANGED <<running, server, tasks, sock, listening, alive, call>>
  BY <1>1, MovedFacts
<1>3. ~Quiet
  BY <1>1 DEF Quiet, AllOver
<1>4. \A g : OnlyOf(g) /\ listening \subseteq {g} => OnlyOf(g)'
  BY <1>1, <1>2 DEF OnlyOf, Over
<1>5. ASSUME NEW k \in Calls
      PROVE  Starting(k)' /\ Stopping(k)'
  <2>1. Starting(k) /\ Stopping(k)
    BY DEF LifeInv
  <2>2. Starting(k)'
    BY <1>2, <1>3, <1>4, <2>1 DEF Starting
  <2>3. call[k].pc = "waiting" => OnlyOf(server)'
    BY <1>2, <1>4, <2>1 DEF Stopping
  <2>4. Stopping(k)'
    BY <1>2, <1>3, <2>1, <2>3 DEF Stopping
  <2>5. QED
    BY <2>2, <2>4
<1>6. /\ InOrder' /\ Calling' = Calling /\ Unbound' = Unbound
      /\ \A k \in Calls : Active(k)' = Active(k)
  BY <1>2, CallsKept DEF LifeInv
<1>7. ~Calling => running /\ ~Unbound /\ IsUp
  BY <1>3 DEF LifeInv, IsDown, IsUnbound, IsEmpty
<1>8. IsUp => IsUp'
  <2>1. IsUp => OnlyOf(server)'
    BY <1>2, <1>4 DEF IsUp
  <2>2. QED
    BY <1>2, <2>1 DEF IsUp, OnlyOf
<1>9. QED
  BY <1>2, <1>5, <1>6, <1>7, <1>8 DEF LifeInv

LEMMA LifeNext ==
  ASSUME ~OverlappingCalls, TypeInv, LifeInv, [Next]_vars
  PROVE  LifeInv'
<1>1. NoneWhenDown'
  BY DownNext DEF LifeInv
<1>2. CASE \E f \in Frames : OnFrame(f) \/ BeginFrame(f) \/ Transmit(f) \/ NextClient(f)
  BY <1>2, FrameTypes, LifeKept DEF lifeVars, connVars
<1>3. CASE UNCHANGED vars
  BY <1>3, LifeKept DEF vars, lifeVars, connVars
<1>4. QED
  BY <1>1, <1>2, <1>3, StartNext, StopNext, EndsNext, ConnNext DEF Next, Handles

LEMMA LifeInit == Init => LifeInv
<1> SUFFICES ASSUME Init PROVE LifeInv
  OBVIOUS
<1>1. /\ \A k \in Calls : call[k] = NoCall /\ call[k].pc = "none"
      /\ \A c \in Conns : conn[c].pc = "none"
  BY DEF Init, NoCall, NoConn
<1>2. /\ NoneWhenDown /\ IsDown /\ ~running /\ InOrder
      /\ \A k \in Calls : ~Active(k)
  BY <1>1 DEF Init, NoneWhenDown, IsDown, IsEmpty, Quiet, AllOver, Over, Active, InOrder, Later
<1>3. \A k \in Calls : Starting(k) /\ Stopping(k)
  BY <1>1 DEF Starting, Stopping
<1>4. QED
  BY <1>2, <1>3 DEF LifeInv

(* Whatever the order in which stop() closes the clients and the server,   *)
(* cancels its tasks and joins them, and the handlers and the loops react, *)
(* what a call leaves when it is over is all or nothing: a running server  *)
(* listens, has its socket and both its tasks; of a stopped one nothing is *)
(* left; after a start() that could not bind there is a socket and nothing *)
(* else.  The hypothesis is that no call begins while another is           *)
(* suspended: without it start() in the middle of stop() breaks this.      *)
THEOREM StatusReported ==
  ASSUME ~OverlappingCalls
  PROVE  Spec => []StatusTrue
<1>1. TypeInv /\ LifeInv /\ [Next]_vars => LifeInv'
  BY LifeNext
<1>2. TypeInv /\ ServedInv /\ [Next]_vars => ServedInv'
  BY ServedNext
<1>3. TypeInv /\ ServedInv /\ LifeInv => StatusTrue
  <2>1. SUFFICES ASSUME TypeInv, ServedInv, LifeInv, ~Calling
                 PROVE  IF ~running THEN Empty /\ sock = None
                        ELSE IF Unbound THEN Empty /\ sock # None ELSE Up
    BY DEF StatusTrue
  <2>2. IsUp => Up
    BY DEF IsUp, Up
  <2>3. IsEmpty => Empty
    <3>1. SUFFICES ASSUME IsEmpty PROVE clients = <<>>
      BY DEF IsEmpty, Empty, Quiet, AllOver
    <3>2. Served = {} /\ ToSet(clients) \subseteq Served
      BY <2>1, <3>1 DEF ServedInv, IsEmpty, Quiet, AllOver, Over, Served
    <3>3. clients \in Seq(Conns)
      BY <2>1 DEF TypeInv, TypeOK
    <3>4. clients # <<>> => Head(clients) \in ToSet(clients)
      BY <3>3, ElementFacts
    <3>5. QED
      BY <3>2, <3>4
  <2>4. QED
    BY <2>1, <2>2, <2>3 DEF LifeInv, IsDown, IsUnbound
<1>4. QED
  BY <1>1, <1>2, <1>3, LifeInit, ServedInit, TypeInvInit, TypeInvNext, PTL DEF Spec

(* No packet leaves once stop() has returned, though tasks of frames are   *)
(* suspended between two clients when it does: the socket they would use   *)
(* is gone.                                                                *)
THEOREM NothingSentWhenStopped ==
  ASSUME ~OverlappingCalls
  PROVE  Spec => SilentWhenStopped
<1>1. TypeInv /\ LifeInv /\ [Next]_vars => LifeInv'
  BY LifeNext
<1>2. LifeInv /\ [Next]_vars => [wire' # wire => running \/ Calling]_vars
  <2> SUFFICES ASSUME LifeInv, Next, wire' # wire, ~running, ~Calling PROVE FALSE
    OBVIOUS
  <2>1. \E f \in Frames : Transmit(f)
    BY DEF Next, BeginStart, Bind, EndStart, BeginStop, StopWaited, Cancel, Join, EndStop,
           BackgroundEnds, Connect, Leave, HalfMessage, Hello, Subscribe, Payload, HandlerEnds,
           OnFrame, BeginFrame, NextClient, frameVars
  <2>2. sock = None
    BY DEF LifeInv, IsDown
  <2>3. QED
    BY <2>1, <2>2 DEF Transmit
<1>3. QED
  BY <1>1, <1>2, LifeInit, TypeInvInit, TypeInvNext, PTL DEF Spec, SilentWhenStopped
=============================================================================
