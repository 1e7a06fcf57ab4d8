---------------------------- MODULE StreamServer ----------------------------
(***************************************************************************)
(* The driver's TelemetryStreamer (streaming/server.py): an asyncio TCP     *)
(* server with one handler task per control connection, a registry of      *)
(* subscribed engineers keyed by IP address, frames sent to them by one    *)
(* task per frame, and start() and stop() called through the API.          *)
(*                                                                         *)
(* A step is what a task does between two awaits that can suspend it.      *)
(* drain() is taken not to suspend (control messages are a few bytes).  A  *)
(* start() call gives its number to the server, socket and tasks it makes. *)
(* Sequence numbers do not wrap within MaxFrames; channel masks and byte   *)
(* counts are left out.                                                    *)
(***************************************************************************)
EXTENDS Integers, Sequences, SequencesExt, Selection

CONSTANTS
    Hosts,            \* IP addresses of engineers
    None,             \* Python's None
    MaxConns,         \* bound: control connections made
    MaxCalls,         \* bound: calls of start() and stop() that do something
    MaxFrames,        \* bound: frames the reader delivers
    OverlappingCalls  \* may a call begin while another one is suspended?

ASSUME ServerAssumption ==
    /\ MaxConns \in Nat /\ MaxCalls \in Nat /\ MaxFrames \in Nat
    /\ OverlappingCalls \in BOOLEAN
    /\ None \notin Hosts \cup Nat

Conns == 1..MaxConns
Calls == 1..MaxCalls
Frames == 1..MaxFrames

VARIABLES
    running, server, tasks, sock, \* _running, _tcp_server, _tasks, _udp_sock
    listening,  \* the servers (numbers) whose TCP socket listens
    alive,      \* the background tasks that have not ended
    call,       \* the start() and stop() calls
    clients,    \* _clients in insertion order: connections, one per host
    conn,       \* the control connections and their handler tasks
    orphans,    \* history: the connections in service whose address has been
                \* taken out of the registry for another one's sake, or by stop()
    sequence,   \* _sequence
    frame,      \* the _broadcast_frame tasks
    wire        \* history: the packets sent to each host

lifeVars == <<running, server, tasks, sock, listening, alive, call>>
connVars == <<clients, conn, orphans>>
frameVars == <<sequence, frame, wire>>
vars == <<lifeVars, connVars, frameVars>>

NoCall == [pc |-> "none", closing |-> None, task |-> None]
NoConn == [pc |-> "none", host |-> None, by |-> None, closed |-> FALSE, gone |-> FALSE,
           half |-> FALSE]
NoFrame == [pc |-> "none", todo |-> <<>>, seq |-> 0]

Init ==
    /\ running = FALSE /\ server = None /\ tasks = <<>> /\ sock = None
    /\ listening = {} /\ alive = {}
    /\ call = [k \in Calls |-> NoCall]
    /\ clients = <<>> /\ conn = [c \in Conns |-> NoConn] /\ orphans = {}
    /\ sequence = 0 /\ frame = [f \in Frames |-> NoFrame]
    /\ wire = [h \in Hosts |-> <<>>]

-----------------------------------------------------------------------------
(* start().                                                                *)

Calling == \E k \in Calls : call[k].pc \notin {"none", "returned", "raised"}
IsNext(k, t) == t[k].pc = "none" /\ \A j \in DOMAIN t : j < k => t[j].pc # "none"
MayCall(k) == IsNext(k, call) /\ (OverlappingCalls \/ ~Calling)

BeginStart(k) ==
    /\ MayCall(k) /\ ~running
    /\ running' = TRUE /\ sequence' = 0 /\ sock' = k
    /\ call' = [call EXCEPT ![k].pc = "binding"]
    /\ UNCHANGED <<server, tasks, listening, alive, connVars, frame, wire>>

(* Within start_server: the port is free, or another server or another     *)
(* process has it; OSError leaves _running set.                            *)
Bind(k) ==
    /\ call[k].pc = "binding"
    /\ \/ listening = {} /\ listening' = {k} /\ call' = [call EXCEPT ![k].pc = "bound"]
       \/ listening' = listening /\ call' = [call EXCEPT ![k].pc = "raised"]
    /\ UNCHANGED <<running, server, tasks, sock, alive, connVars, frameVars>>

Background(k) == <<[kind |-> "serve", by |-> k], [kind |-> "discovery", by |-> k]>>

EndStart(k) ==
    /\ call[k].pc = "bound"
    /\ server' = k /\ tasks' = tasks \o Background(k)
    /\ alive' = alive \cup ToSet(Background(k))
    /\ call' = [call EXCEPT ![k].pc = "returned"]
    /\ UNCHANGED <<running, sock, listening, connVars, frameVars>>

-----------------------------------------------------------------------------
(* stop().                                                                 *)

Over(c) == conn[c].pc \in {"none", "over"}
Served == {c \in Conns : conn[c].pc = "serving" /\ ~conn[c].closed}
ConnectionsOver(g) == \A c \in Conns : conn[c].by = g => Over(c)

(* Every registered client is sent DISCONNECT and its writer closed, the   *)
(* server stops listening, and wait_closed() waits for its connections.    *)
BeginStop(k) ==
    /\ MayCall(k) /\ running
    /\ running' = FALSE /\ clients' = <<>>
    /\ conn' = [c \in Conns |-> [conn[c] EXCEPT !.closed = @ \/ c \in ToSet(clients)]]
    /\ orphans' = Served \ ToSet(clients)
    /\ listening' = listening \ {server}
    /\ call' = [call EXCEPT ![k].pc = IF server = None THEN "cancelling" ELSE "waiting",
                            ![k].closing = server]
    /\ UNCHANGED <<server, tasks, sock, alive, frameVars>>

StopWaited(k) ==
    /\ call[k].pc = "waiting" /\ ConnectionsOver(call[k].closing)
    /\ server' = None
    /\ call' = [call EXCEPT ![k].pc = "cancelling", ![k].closing = None]
    /\ UNCHANGED <<running, tasks, sock, listening, alive, connVars, frameVars>>

(* The tasks are cancelled and joined one by one: what is left of tasks is *)
(* what the loop has yet to visit.  A cancelled serve_forever() closes its *)
(* server and waits for its connections; the discovery loop just ends.     *)
Cancel(k) ==
    /\ call[k].pc = "cancelling" /\ tasks # <<>>
    /\ LET t == Head(tasks) IN
        /\ listening' = IF t.kind = "serve" THEN listening \ {t.by} ELSE listening
        /\ alive' = IF t.kind = "discovery" THEN alive \ {t} ELSE alive
        /\ call' = [call EXCEPT ![k].pc = "joining", ![k].task = t]
    /\ tasks' = Tail(tasks)
    /\ UNCHANGED <<running, server, sock, connVars, frameVars>>

Join(k) ==
    /\ call[k].pc = "joining" /\ call[k].task \notin alive
    /\ call' = [call EXCEPT ![k].pc = "cancelling", ![k].task = None]
    /\ UNCHANGED <<running, server, tasks, sock, listening, alive, connVars, frameVars>>

EndStop_KeepsSocket(k) ==  \* mutant: _udp_sock is not closed
    /\ call[k].pc = "cancelling" /\ tasks = <<>>
    /\ sock' = sock
    /\ call' = [call EXCEPT ![k].pc = "returned"]
    /\ UNCHANGED <<running, server, tasks, listening, alive, connVars, frameVars>>

EndStop(k) ==
    /\ call[k].pc = "cancelling" /\ tasks = <<>>
    /\ sock' = None
    /\ call' = [call EXCEPT ![k].pc = "returned"]
    /\ UNCHANGED <<running, server, tasks, listening, alive, connVars, frameVars>>

(* A background task ends by itself: the discovery loop when it finds      *)
(* _running cleared, serve_forever() when its server has been closed.      *)
BackgroundEnds(t) ==
    /\ t \in alive
    /\ IF t.kind = "discovery" THEN ~running
       ELSE t.by \notin listening /\ ConnectionsOver(t.by)
    /\ alive' = alive \ {t}
    /\ UNCHANGED <<running, server, tasks, sock, listening, call, connVars, frameVars>>

-----------------------------------------------------------------------------
(* Control connections: the client's moves and the handler task.  The      *)
(* header of a message and the payload it announces are read one after the *)
(* other: half is set while a handler awaits the second.                   *)

Connect(c, h) ==
    /\ IsNext(c, conn) /\ listening # {}
    /\ \E g \in listening :
        conn' = [conn EXCEPT ![c] = [NoConn EXCEPT !.pc = "hello", !.host = h, !.by = g]]
    /\ UNCHANGED <<lifeVars, clients, orphans, frameVars>>

(* The client leaves; the server learns of it when its handler next reads. *)
Leave(c) ==
    /\ ~Over(c) /\ ~conn[c].gone
    /\ conn' = [conn EXCEPT ![c].gone = TRUE]
    /\ UNCHANGED <<lifeVars, clients, orphans, frameVars>>

(* The header of a message has come, its payload has not.                  *)
HalfMessage(c) ==
    /\ ~Over(c) /\ ~conn[c].gone /\ ~conn[c].closed /\ ~conn[c].half
    /\ conn' = [conn EXCEPT ![c].half = TRUE]
    /\ UNCHANGED <<lifeVars, clients, orphans, frameVars>>

(* HELLO is there in full and is answered by WELCOME.                      *)
Hello(c) ==
    /\ conn[c].pc = "hello" /\ ~conn[c].gone
    /\ conn' = [conn EXCEPT ![c].pc = "subscribe", ![c].half = FALSE]
    /\ UNCHANGED <<lifeVars, clients, orphans, frameVars>>

WithoutHost(h) == Keep(clients, {c \in Conns : conn[c].host # h})

SameHost(c) == {d \in Conns : conn[d].host = conn[c].host}

(* _clients[client_ip] = client: an entry of the same address keeps its    *)
(* place in the dict and is replaced.                                      *)
Registered(c) ==
    IF \E d \in ToSet(clients) : conn[d].host = conn[c].host
    THEN [i \in DOMAIN clients |->
              IF conn[clients[i]].host = conn[c].host THEN c ELSE clients[i]]
    ELSE Append(clients, c)

(* The finally clause: whatever is registered under the address goes.      *)
Finally(c) ==
    /\ clients' = WithoutHost(conn[c].host)
    /\ conn' = [conn EXCEPT ![c].pc = "over", ![c].half = FALSE]
    /\ orphans' = (orphans \cup (Served \cap SameHost(c))) \ {c}

(* SUBSCRIBE, or whatever comes in its place, is answered by SUBSCRIBED and *)
(* the client registered; if the server has been stopped meanwhile the     *)
(* loop is not entered and the handler's finally takes it out again.       *)
Subscribe(c) ==
    /\ conn[c].pc = "subscribe" /\ ~conn[c].gone
    /\ IF running
       THEN /\ clients' = Registered(c)
            /\ conn' = [conn EXCEPT ![c].pc = "serving", ![c].half = FALSE]
            /\ orphans' = orphans \ SameHost(c)
       ELSE Finally(c)
    /\ UNCHANGED <<lifeVars, frameVars>>

(* In the loop a message is complete at last, and handled; then _running   *)
(* is looked at.                                                           *)
Payload(c) ==
    /\ conn[c].pc = "serving" /\ conn[c].half /\ ~conn[c].gone
    /\ IF running
       THEN conn' = [conn EXCEPT ![c].half = FALSE] /\ UNCHANGED <<clients, orphans>>
       ELSE Finally(c)
    /\ UNCHANGED <<lifeVars, frameVars>>

Due_NoTimeOut(c) ==  \* mutant: a handshake may take for ever
    conn[c].pc = "serving" /\ (conn[c].closed \/ (~running /\ ~conn[c].half))

(* The handler has to end: a time-out of the handshake, its writer closed  *)
(* by stop(), or _running found cleared after a time-out.  Only headers    *)
(* are awaited with a time-out.                                            *)
Due(c) ==
    \/ conn[c].pc \in {"hello", "subscribe"} /\ ~conn[c].half
    \/ conn[c].pc = "serving" /\ (conn[c].closed \/ (~running /\ ~conn[c].half))

HandlerEnds_StaysRegistered(c) ==  \* mutant: no pop in the finally clause
    /\ Due(c) \/ (~Over(c) /\ conn[c].gone)
    /\ conn' = [conn EXCEPT ![c].pc = "over", ![c].half = FALSE]
    /\ UNCHANGED <<lifeVars, clients, orphans, frameVars>>

HandlerEnds(c) ==
    /\ Due(c) \/ (~Over(c) /\ conn[c].gone)
    /\ Finally(c)
    /\ UNCHANGED <<lifeVars, frameVars>>

-----------------------------------------------------------------------------
(* Telemetry frames.                                                       *)

(* on_frame(), called by the reader.                                       *)
OnFrame(f) ==
    /\ IsNext(f, frame)
    /\ frame' = [frame EXCEPT ![f].pc =
                     IF running /\ clients # <<>> THEN "created" ELSE "done"]
    /\ UNCHANGED <<lifeVars, connVars, sequence, wire>>

(* _broadcast_frame() up to the first packet handed to a worker thread.    *)
BeginFrame(f) ==
    /\ frame[f].pc = "created"
    /\ IF clients = <<>> \/ sock = None
       THEN /\ frame' = [frame EXCEPT ![f].pc = "done"]
            /\ sequence' = sequence
       ELSE /\ sequence' = sequence + 1
            /\ frame' = [frame EXCEPT ![f] =
                             [pc |-> "sending", todo |-> clients, seq |-> sequence']]
    /\ UNCHANGED <<lifeVars, connVars, wire>>

Dest(f) == conn[Head(frame[f].todo)].host

(* The worker thread: sendto() on the socket there is by then, or an error *)
(* that is caught.                                                         *)
Transmit(f) ==
    /\ frame[f].pc = "sending"
    /\ wire' = IF sock = None THEN wire
               ELSE [wire EXCEPT ![Dest(f)] = Append(@, [frame |-> f, seq |-> frame[f].seq])]
    /\ frame' = [frame EXCEPT ![f].pc = "sent"]
    /\ UNCHANGED <<lifeVars, connVars, sequence>>

NextClient_Counts(f) ==  \* mutant: every packet takes a number of its own
    /\ frame[f].pc = "sent"
    /\ sequence' = sequence + 1
    /\ frame' = [frame EXCEPT ![f] =
                     IF Len(@.todo) = 1 THEN [NoFrame EXCEPT !.pc = "done"]
                     ELSE [pc |-> "sending", todo |-> Tail(@.todo), seq |-> sequence']]
    /\ UNCHANGED <<lifeVars, connVars, wire>>

(* Back in the loop: the packet of the next client carries the number      *)
(* _sequence has now.                                                      *)
NextClient(f) ==
    /\ frame[f].pc = "sent"
    /\ frame' = [frame EXCEPT ![f] =
                     IF Len(@.todo) = 1 THEN [NoFrame EXCEPT !.pc = "done"]
                     ELSE [pc |-> "sending", todo |-> Tail(@.todo), seq |-> sequence]]
    /\ UNCHANGED <<lifeVars, connVars, sequence, wire>>

-----------------------------------------------------------------------------
CallStep(k) ==
    \/ Bind(k) \/ EndStart(k)
    \/ StopWaited(k) \/ Cancel(k) \/ Join(k) \/ EndStop(k)

Next ==
    \/ \E k \in Calls :
        \/ BeginStart(k) \/ Bind(k) \/ EndStart(k)
        \/ BeginStop(k) \/ StopWaited(k) \/ Cancel(k) \/ Join(k) \/ EndStop(k)
    \/ \E t \in alive : BackgroundEnds(t)
    \/ \E c \in Conns :
        \/ \E h \in Hosts : Connect(c, h)
        \/ Leave(c) \/ HalfMessage(c)
        \/ Hello(c) \/ Subscribe(c) \/ Payload(c) \/ HandlerEnds(c)
    \/ \E f \in Frames : OnFrame(f) \/ BeginFrame(f) \/ Transmit(f) \/ NextClient(f)

BackgroundTasks == {Background(k)[i] : k \in Calls, i \in 1..2}

(* The loop resumes what can go on, and time-outs expire.  Nothing makes a *)
(* client say hello, complete a message or leave, or the server notice     *)
(* that it has left.                                                       *)
Spec ==
    /\ Init /\ [][Next]_vars
    /\ \A k \in Calls : WF_vars(CallStep(k))
    /\ \A t \in BackgroundTasks : WF_vars(BackgroundEnds(t))
    /\ \A c \in Conns : WF_vars(Due(c) /\ HandlerEnds(c))

-----------------------------------------------------------------------------
(* Properties.                                                             *)

(* The variables keep their types.                                         *)
TypeOK ==
    /\ running \in BOOLEAN
    /\ server \in Calls \cup {None} /\ sock \in Calls \cup {None}
    /\ tasks \in Seq(BackgroundTasks) /\ alive \subseteq BackgroundTasks
    /\ listening \subseteq Calls
    /\ call \in [Calls -> [pc : {"none", "binding", "bound", "raised", "waiting",
                                 "cancelling", "joining", "returned"},
                           closing : Calls \cup {None},
                           task : BackgroundTasks \cup {None}]]
    /\ clients \in Seq(Conns)
    /\ conn \in [Conns -> [pc : {"none", "hello", "subscribe", "serving", "over"},
                           host : Hosts \cup {None}, by : Calls \cup {None},
                           closed : BOOLEAN, gone : BOOLEAN, half : BOOLEAN]]
    /\ orphans \subseteq Conns
    /\ sequence \in 0..MaxFrames
    /\ frame \in [Frames -> [pc : {"none", "created", "sending", "sent", "done"},
                             todo : Seq(Conns), seq : 0..MaxFrames]]
    /\ wire \in [Hosts -> Seq([frame : Frames, seq : 0..MaxFrames])]

(* Between calls the status tells what there is: a running server listens, *)
(* has a socket and both its tasks; a stopped one has none of them, no     *)
(* client and no connection.  The exception is a start() that has raised   *)
(* since it could not bind: the server is said to run and has a socket,    *)
(* nothing else, until it is stopped.                                      *)
Up ==
    /\ server \in listening /\ sock # None
    /\ ToSet(Background(server)) \subseteq alive
Empty ==
    /\ server = None /\ listening = {} /\ alive = {} /\ tasks = <<>>
    /\ clients = <<>> /\ \A c \in Conns : Over(c)
Unbound == \E k \in Calls : call[k].pc = "raised" /\ \A j \in Calls : j > k => call[j] = NoCall
StatusTrue ==
    ~Calling => IF ~running THEN Empty /\ sock = None
                ELSE IF Unbound THEN Empty /\ sock # None ELSE Up

(* Who is registered is being served, one connection per address; and an   *)
(* engineer whose handshake is over is registered, under its address, so   *)
(* that it is sent frames, until the handler of another connection of that *)
(* address ends or the server is stopped.                                  *)
ServedAreRegistered ==
    /\ ToSet(clients) \subseteq Served
    /\ \A c, d \in ToSet(clients) : conn[c].host = conn[d].host => c = d
    /\ \A c \in Served \ orphans : ToSet(clients) \cap SameHost(c) # {}

(* After stop() has returned no packet leaves, though tasks of frames may  *)
(* be suspended in the middle of their clients.                            *)
SilentWhenStopped == [][wire' # wire => running \/ Calling]_vars

(* start() and stop() come to their end, if no peer stalls for ever in the *)
(* middle of a message: its handler, and stop() with it, would then wait   *)
(* for the rest of it.                                                     *)
CallsEnd ==
    (\A c \in Conns : []<>~conn[c].half) =>
        \A k \in Calls : call[k].pc # "none" ~> call[k].pc \in {"returned", "raised"}

(* Packets to a host with the same sequence number carry the same frame:   *)
(* what drop detection by sequence numbers needs.                          *)
SequencePerFrame ==
    \A h \in Hosts : \A i, j \in DOMAIN wire[h] :
        wire[h][i].seq = wire[h][j].seq => wire[h][i].frame = wire[h][j].frame
=============================================================================
