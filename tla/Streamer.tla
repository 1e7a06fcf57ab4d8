------------------------------ MODULE Streamer ------------------------------
(***************************************************************************)
(* The threads of the driver's TelemetryStreamer in streaming/streamer.py: *)
(* one for each accepted connection (handshake, then control messages),    *)
(* the keep-alive thread that pings all clients and evicts those that do   *)
(* not answer, and the threads that call update_session() and stop().      *)
(* Messages are their types; their bytes and the telemetry are in Wire and *)
(* Exchange.                                                               *)
(*                                                                         *)
(* A connection has an address of its own, and is named by it.  Time is    *)
(* counted in rounds of the keep-alive thread: HEARTBEAT_INTERVAL is 5 s,  *)
(* and so is the time-out of a read in the handshake.                      *)
(***************************************************************************)
EXTENDS Integers, Sequences, FiniteSets

CONSTANTS
    Conns,       \* connections there may be
    Patience,    \* HEARTBEAT_TIMEOUT / HEARTBEAT_INTERVAL
    MaxUpdates   \* bound: calls of update_session()

ASSUME StreamerAssumption ==
    /\ Patience \in Nat \ {0, 1} /\ MaxUpdates \in Nat

VARIABLES
    handler,     \* the thread of a connection
    registry,    \* _clients
    age,         \* rounds since last_pong, which the accept sets
    open,        \* connections whose socket is open at the driver
    gone,        \* connections whose socket the engineer has closed
    toDriver, toEngineer,  \* what is on its way
    keeper,      \* the keep-alive thread: [pc, todo, stale]
    stopping,    \* stop(): "no", "set", "said", "closed"
    updates      \* calls of update_session()

wires == <<gone, toDriver, toEngineer>>
streamerVars == <<handler, registry, age, open, wires, keeper, stopping, updates>>

StreamerInit ==
    /\ handler = [c \in Conns |-> "none"]
    /\ registry = {} /\ age = [c \in Conns |-> 0] /\ open = {} /\ gone = {}
    /\ toDriver = [c \in Conns |-> <<>>] /\ toEngineer = [c \in Conns |-> <<>>]
    /\ keeper = [pc |-> "wait", todo |-> {}, stale |-> {}]
    /\ stopping = "no" /\ updates = 0

(* What is sent to a socket that the other side has closed is lost.        *)
Send(cs, m) ==
    toEngineer' = [c \in Conns |-> IF c \in cs \ gone THEN Append(toEngineer[c], m)
                                   ELSE toEngineer[c]]

Received(c, m) == toDriver[c] # <<>> /\ Head(toDriver[c]) = m
Take(c) == toDriver' = [toDriver EXCEPT ![c] = Tail(@)]
Becomes(c, pc) == handler' = [handler EXCEPT ![c] = pc]

-----------------------------------------------------------------------------
(* The thread of a connection.                                             *)

(* The accept loop, with the HELLO the engineer sends.  The loop may still *)
(* be in its select() when stop() begins.                                  *)
Accept(c) ==
    /\ stopping # "closed" /\ handler[c] = "none"
    /\ Becomes(c, "hello")
    /\ open' = open \cup {c}
    /\ toDriver' = [toDriver EXCEPT ![c] = <<"HELLO">>]
    /\ UNCHANGED <<registry, age, gone, toEngineer, keeper, stopping, updates>>

Greet(c) ==
    /\ handler[c] = "hello" /\ Received(c, "HELLO")
    /\ Take(c) /\ Send({c}, "WELCOME") /\ Becomes(c, "subscribe")
    /\ UNCHANGED <<registry, age, open, gone, keeper, stopping, updates>>

TakeSubscribe_Registers(c) ==  \* mutant: the client is registered before SUBSCRIBED is sent
    /\ handler[c] = "subscribe" /\ Received(c, "SUBSCRIBE")
    /\ Take(c) /\ Becomes(c, "confirm")
    /\ registry' = registry \cup {c}
    /\ UNCHANGED <<age, open, gone, toEngineer, keeper, stopping, updates>>

TakeSubscribe(c) ==
    /\ handler[c] = "subscribe" /\ Received(c, "SUBSCRIBE")
    /\ Take(c) /\ Becomes(c, "confirm")
    /\ UNCHANGED <<registry, age, open, gone, toEngineer, keeper, stopping, updates>>

Confirm(c) ==
    /\ handler[c] = "confirm"
    /\ Send({c}, "SUBSCRIBED") /\ Becomes(c, "register")
    /\ UNCHANGED <<registry, age, open, gone, toDriver, keeper, stopping, updates>>

Register(c) ==
    /\ handler[c] = "register"
    /\ registry' = registry \cup {c} /\ Becomes(c, "loop")
    /\ UNCHANGED <<age, open, wires, keeper, stopping, updates>>

Finish_KeepsEntry(c) ==  \* mutant: the entry is left in the registry
    /\ open' = open \ {c} /\ Becomes(c, "done")
    /\ toDriver' = [toDriver EXCEPT ![c] = <<>>] /\ age' = [age EXCEPT ![c] = 0]
    /\ UNCHANGED <<registry, gone, toEngineer, keeper, stopping, updates>>

(* The finally clause: _remove_client.  What has not been read is lost.    *)
Finish(c) ==
    /\ registry' = registry \ {c} /\ open' = open \ {c} /\ Becomes(c, "done")
    /\ toDriver' = [toDriver EXCEPT ![c] = <<>>] /\ age' = [age EXCEPT ![c] = 0]
    /\ UNCHANGED <<gone, toEngineer, keeper, stopping, updates>>

(* A message that was not expected, the time-out, or the end of the        *)
(* stream.  A socket the engineer has closed may make any send fail.       *)
HandshakeFails(c) ==
    /\ \/ handler[c] = "hello" /\ ~Received(c, "HELLO")
       \/ handler[c] = "subscribe" /\ ~Received(c, "SUBSCRIBE")
       \/ handler[c] \in {"subscribe", "confirm"} /\ c \in gone
    /\ Finish(c)

LoopEnds_UnlessStopped(c) ==  \* mutant: the stop event does not end the loop
    /\ handler[c] = "loop"
    /\ c \notin open \/ c \in gone
    /\ Finish(c)

(* The loop of _handle_client.  The stop event is looked at before each    *)
(* read; a read fails on a socket that another thread, or the engineer,    *)
(* has closed.                                                             *)
LoopEnds(c) ==
    /\ handler[c] = "loop"
    /\ stopping # "no" \/ c \notin open \/ c \in gone
    /\ Finish(c)

Dispatch_ForgetsPong(c) ==  \* mutant: a PONG does not count
    /\ handler[c] = "loop" /\ toDriver[c] # <<>> /\ c \in open
    /\ \/ Received(c, "PING") /\ Take(c) /\ Send({c}, "PONG")
          /\ UNCHANGED <<handler, registry, age, open, gone, keeper, stopping, updates>>
       \/ Received(c, "PONG") /\ Take(c)
          /\ UNCHANGED <<handler, registry, age, open, gone, toEngineer, keeper, stopping, updates>>
       \/ Received(c, "DISCONNECT") /\ Finish(c)

Dispatch(c) ==
    /\ handler[c] = "loop" /\ toDriver[c] # <<>> /\ c \in open
    /\ \/ Received(c, "PING") /\ Take(c) /\ Send({c}, "PONG")
          /\ UNCHANGED <<handler, registry, age, open, gone, keeper, stopping, updates>>
       \/ Received(c, "PONG") /\ Take(c) /\ age' = [age EXCEPT ![c] = 0]
          /\ UNCHANGED <<handler, registry, open, gone, toEngineer, keeper, stopping, updates>>
       \/ Received(c, "DISCONNECT") /\ Finish(c)

-----------------------------------------------------------------------------
(* The keep-alive thread.                                                  *)

(* Time passes only when nothing is left to be done within it: a thread    *)
(* reads what has arrived, and a handshake does not outlast its time-outs. *)
InTime(c) ==
    /\ handler[c] \in {"hello", "subscribe", "loop"} => toDriver[c] = <<>> /\ c \notin gone
    /\ handler[c] \notin {"confirm", "register"}
    /\ handler[c] = "hello" => age[c] < 1
    /\ handler[c] = "subscribe" => age[c] < 2
    /\ handler[c] = "loop" => c \in open

(* Above Patience all ages are the same.                                   *)
Older ==
    [c \in Conns |-> IF handler[c] \in {"none", "done"} \/ age[c] > Patience THEN age[c]
                     ELSE age[c] + 1]

(* A round begins: after 5 s, or at once when stop() is called.            *)
Wake ==
    /\ keeper.pc = "wait"
    /\ IF stopping = "no" THEN age' = Older ELSE UNCHANGED age
    /\ keeper' = [pc |-> "round", todo |-> registry, stale |-> {}]
    /\ UNCHANGED <<handler, registry, open, gone, toEngineer, stopping, updates>>

Overdue_Never(c) == {FALSE}  \* mutant: no client is ever too old

(* At the limit the time a round takes decides.                            *)
Overdue(c) == IF age[c] > Patience THEN {TRUE}
              ELSE IF age[c] = Patience THEN BOOLEAN ELSE {FALSE}

(* A client of the snapshot is stale, or sent a PING; a send to a socket   *)
(* that is closed fails, to one the engineer has closed it may.            *)
PingOne(c) ==
    /\ keeper.pc = "round" /\ c \in keeper.todo
    /\ \E late \in Overdue(c), fails \in (IF c \notin open THEN {TRUE}
                                          ELSE IF c \in gone THEN BOOLEAN ELSE {FALSE}) :
        /\ keeper' = [keeper EXCEPT !.todo = @ \ {c},
                                    !.stale = IF late \/ fails THEN @ \cup {c} ELSE @]
        /\ IF late \/ fails THEN UNCHANGED toEngineer ELSE Send({c}, "PING")
    /\ UNCHANGED <<handler, registry, age, open, gone, toDriver, stopping, updates>>

Evict_LeavesSocket(c) ==  \* mutant: the socket is not closed
    /\ keeper.pc = "round" /\ keeper.todo = {} /\ c \in keeper.stale
    /\ keeper' = [keeper EXCEPT !.stale = @ \ {c}]
    /\ registry' = registry \ {c}
    /\ UNCHANGED <<handler, age, open, wires, stopping, updates>>

(* The socket is closed only if the client was still registered.           *)
Evict(c) ==
    /\ keeper.pc = "round" /\ keeper.todo = {} /\ c \in keeper.stale
    /\ keeper' = [keeper EXCEPT !.stale = @ \ {c}]
    /\ registry' = registry \ {c}
    /\ open' = IF c \in registry THEN open \ {c} ELSE open
    /\ UNCHANGED <<handler, age, wires, stopping, updates>>

RoundOver ==
    /\ keeper.pc = "round" /\ keeper.todo = {} /\ keeper.stale = {}
    /\ keeper' = [keeper EXCEPT !.pc = IF stopping = "no" THEN "wait" ELSE "done"]
    /\ UNCHANGED <<handler, registry, age, open, wires, stopping, updates>>

-----------------------------------------------------------------------------
(* The API.                                                                *)

Broadcast(m) == Send(registry \cap open, m)

UpdateSession ==
    /\ stopping = "no" /\ updates < MaxUpdates
    /\ updates' = updates + 1
    /\ Broadcast("SESSION_UPDATE")
    /\ UNCHANGED <<handler, registry, age, open, gone, toDriver, keeper, stopping>>

StopSet ==
    /\ stopping = "no" /\ stopping' = "set"
    /\ UNCHANGED <<handler, registry, age, open, wires, keeper, updates>>

StopSay ==
    /\ stopping = "set" /\ stopping' = "said"
    /\ Broadcast("DISCONNECT")
    /\ UNCHANGED <<handler, registry, age, open, gone, toDriver, keeper, updates>>

(* After the threads, or their time-outs, the sockets of the clients that  *)
(* are registered are closed.  A handshake may outlast that.               *)
StopClose ==
    /\ stopping = "said" /\ stopping' = "closed"
    /\ open' = open \ registry /\ registry' = {}
    /\ UNCHANGED <<handler, age, wires, keeper, updates>>
=============================================================================
