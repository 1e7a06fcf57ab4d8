---------------------------- MODULE ThreadedLink ----------------------------
(***************************************************************************)
(* TelemetryStreamer (streamer.py) with its StreamClients (client.py): the *)
(* connect() of an engineer, the thread that reads its control messages,   *)
(* its keep-alive thread and disconnect().  An engineer may also fall      *)
(* silent for good without closing anything: a machine that is suspended   *)
(* or loses its network.                                                   *)
(***************************************************************************)
EXTENDS Streamer

VARIABLES
    engineer,    \* how far the StreamClient of a connection is
    silent       \* engineers that no longer do anything

vars == <<streamerVars, engineer, silent>>

Init ==
    /\ StreamerInit
    /\ engineer = [c \in Conns |-> "idle"] /\ silent = {}

Goes(c, pc) == engineer' = [engineer EXCEPT ![c] = pc]
Told(c, m) == toEngineer[c] # <<>> /\ Head(toEngineer[c]) = m
Heard(c) == toEngineer' = [toEngineer EXCEPT ![c] = Tail(@)]
Say(c, m) == toDriver' = [toDriver EXCEPT ![c] = IF c \in open THEN Append(@, m) ELSE @]

driverOnly == <<handler, registry, age, open, gone, keeper, stopping, updates>>
engineerOnly == <<engineer, silent>>

-----------------------------------------------------------------------------
(* connect().                                                              *)

Connect(c) ==
    /\ engineer[c] = "idle"
    /\ Accept(c) /\ Goes(c, "welcome")
    /\ UNCHANGED silent

TakeWelcome(c) ==
    /\ engineer[c] = "welcome" /\ c \notin silent /\ Told(c, "WELCOME")
    /\ Heard(c) /\ Say(c, "SUBSCRIBE") /\ Goes(c, "subscribed")
    /\ UNCHANGED <<driverOnly, silent>>

TakeSubscribed(c) ==
    /\ engineer[c] = "subscribed" /\ c \notin silent /\ Told(c, "SUBSCRIBED")
    /\ Heard(c) /\ Goes(c, "up")
    /\ UNCHANGED <<driverOnly, toDriver, silent>>

(* Another message than the one expected raises ConnectionError; so does   *)
(* the end of the stream, and a time-out raises TypeError.  In no case is  *)
(* the socket closed.                                                      *)
ConnectFails(c) ==
    /\ engineer[c] \in {"welcome", "subscribed"} /\ c \notin silent
    /\ IF toEngineer[c] = <<>> THEN Goes(c, "failed")
       ELSE /\ Head(toEngineer[c]) # (IF engineer[c] = "welcome" THEN "WELCOME" ELSE "SUBSCRIBED")
            /\ Goes(c, "confused")
    /\ UNCHANGED <<streamerVars, silent>>

-----------------------------------------------------------------------------
(* _ctrl_loop, _keepalive_loop and disconnect().                           *)

(* "leaving": disconnect() has set the stop event, and the read that is    *)
(* under way is the last.                                                  *)
TakeControl(c) ==
    /\ engineer[c] \in {"up", "leaving"} /\ c \notin silent /\ toEngineer[c] # <<>>
    /\ Heard(c)
    /\ IF Told(c, "PING") THEN Say(c, "PONG") ELSE UNCHANGED toDriver
    /\ Goes(c, IF engineer[c] = "leaving" THEN "joined"
               ELSE IF Told(c, "DISCONNECT") THEN "ended" ELSE "up")
    /\ UNCHANGED <<driverOnly, silent>>

(* The end of the stream; what had not been read may be lost with it.      *)
Lost(c) ==
    /\ engineer[c] = "up" /\ c \notin silent /\ c \notin open
    /\ Goes(c, "ended")
    /\ UNCHANGED <<streamerVars, silent>>

Leave(c) ==
    /\ engineer[c] \in {"up", "ended", "failed", "confused"} /\ c \notin silent
    /\ Say(c, "DISCONNECT")
    /\ Goes(c, IF engineer[c] = "up" THEN "leaving" ELSE "joined")
    /\ UNCHANGED <<driverOnly, toEngineer, silent>>

Close(c) ==
    /\ engineer[c] \in {"leaving", "joined"} /\ c \notin silent
    /\ gone' = gone \cup {c} /\ Goes(c, "left")
    /\ toEngineer' = [toEngineer EXCEPT ![c] = <<>>]
    /\ UNCHANGED <<handler, registry, age, open, toDriver, keeper,
                   stopping, updates, silent>>

FallSilent(c) ==
    /\ engineer[c] \notin {"idle", "left"} /\ silent' = silent \cup {c}
    /\ UNCHANGED <<streamerVars, engineer>>

-----------------------------------------------------------------------------

(* Five seconds are enough for an engineer that is not silent to answer,   *)
(* or for its own time-outs.                                               *)
Prompt(c) ==
    /\ InTime(c)
    /\ c \in silent \/ engineer[c] \in {"idle", "up", "ended", "failed", "confused", "left"}
    /\ engineer[c] = "up" /\ c \notin silent => toEngineer[c] = <<>> /\ c \in open

(* The engineers' keep-alive threads have the same period as the driver's; *)
(* any of them sends its PING now.                                         *)
Tick ==
    /\ stopping = "no" => \A c \in Conns : Prompt(c)
    /\ Wake
    /\ \E S \in SUBSET {c \in open : engineer[c] = "up" /\ c \notin silent} :
        toDriver' = [c \in Conns |-> IF c \in S THEN Append(toDriver[c], "PING") ELSE toDriver[c]]
    /\ UNCHANGED engineerOnly

Driver(c) ==
    /\ \/ Greet(c) \/ TakeSubscribe(c) \/ Confirm(c) \/ Register(c)
       \/ HandshakeFails(c) \/ LoopEnds(c) \/ Dispatch(c)
    /\ UNCHANGED engineerOnly

Keeper ==
    /\ (\E c \in Conns : PingOne(c) \/ Evict(c)) \/ RoundOver
    /\ UNCHANGED engineerOnly

Stop == (StopSay \/ StopClose) /\ UNCHANGED engineerOnly
Call == (UpdateSession \/ StopSet) /\ UNCHANGED engineerOnly

Reader(c) ==
    TakeWelcome(c) \/ TakeSubscribed(c) \/ ConnectFails(c) \/ TakeControl(c) \/ Lost(c) \/ Close(c)

Next ==
    \/ \E c \in Conns : Connect(c) \/ Driver(c) \/ Reader(c) \/ Leave(c) \/ FallSilent(c)
    \/ Keeper \/ Tick \/ Stop \/ Call

(* Threads run and time passes; nobody has to connect, leave or call       *)
(* anything, but a stop() goes on.                                    *)
Fairness ==
    /\ \A c \in Conns : WF_vars(Driver(c)) /\ WF_vars(Reader(c))
    /\ WF_vars(Keeper) /\ WF_vars(Tick) /\ WF_vars(Stop)

Spec == Init /\ [][Next]_vars /\ Fairness

-----------------------------------------------------------------------------
(* Properties.                                                             *)

Handlers == {"none", "hello", "subscribe", "confirm", "register", "loop", "done"}

(* The variables have their types, and no more messages pile up for an     *)
(* engineer that does not read than the keep-alive thread's patience lets. *)
TypeOK ==
    /\ handler \in [Conns -> Handlers] /\ age \in [Conns -> 0..(Patience + 1)]
    /\ registry \in SUBSET Conns /\ open \in SUBSET Conns /\ gone \in SUBSET Conns
    /\ stopping \in {"no", "set", "said", "closed"}
    /\ keeper.pc \in {"wait", "round", "done"} /\ keeper.todo \in SUBSET Conns
    /\ keeper.stale \in SUBSET Conns /\ updates \in 0..MaxUpdates
    /\ silent \in SUBSET Conns
    /\ engineer \in [Conns -> {"idle", "welcome", "subscribed", "up", "ended", "failed",
                               "confused", "leaving", "joined", "left"}]
    /\ \A c \in Conns : Len(toEngineer[c]) <= Patience + MaxUpdates + 3

(* No thread of the driver sends an engineer anything before it has its    *)
(* SUBSCRIBED: connect() takes every other message for a failure.          *)
HandshakeUndisturbed == \A c \in Conns : engineer[c] # "confused"

(* The keep-alive thread gives up only engineers that no longer answer:    *)
(* silent ones, failed ones and those that have left or are leaving; and,  *)
(* while stop() runs, those whose socket it has closed.                    *)
OnlySilentEvicted ==
    [][\A c \in keeper.stale \ keeper'.stale :
        \/ c \in silent \/ engineer[c] \in {"ended", "failed", "joined", "leaving", "left"}
        \/ stopping # "no"]_vars

(* A registered connection has a thread that will remove it.               *)
NoGhosts == \A c \in registry : handler[c] = "loop"

(* An engineer that falls silent is given up: its entry, its socket and    *)
(* its thread are freed.                                                   *)
SilentEvicted ==
    \A c \in Conns : c \in silent /\ c \in registry
        ~> c \notin registry /\ c \notin open /\ handler[c] = "done"

(* stop() ends every connection, also one whose handshake it overtakes,    *)
(* and every engineer that is not silent learns of it.                     *)
StopEnds ==
    \A c \in Conns : stopping # "no" ~>
        /\ c \notin registry /\ handler[c] \in {"none", "done"}
        /\ c \in silent \/ engineer[c] # "up"
=============================================================================
