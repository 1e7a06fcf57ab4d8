---------------------------- MODULE StreamClient ----------------------------
(***************************************************************************)
(* The engineer's StreamingClient (streaming/client.py): start() and       *)
(* stop(), the task that connects, shakes hands, receives and reconnects,  *)
(* the loss counter and the jitter buffer that feeds the WebSocket         *)
(* clients.                                                                *)
(*                                                                         *)
(* The driver, the network and the clock are the environment: while the    *)
(* driver is up connecting and shaking hands succeed, while it is down     *)
(* they fail or time out.  UDP may lose packets, MaxBurst in a row, and is *)
(* taken to keep their order.  Calls of start() and stop() are taken not   *)
(* to overlap and the UDP port to be free.  A packet without channels is   *)
(* ignored by the client and counts here as lost.                          *)
(***************************************************************************)
EXTENDS Integers, Sequences, SequencesExt

CONSTANTS
    Width,     \* sequence numbers are taken modulo Width (2^32 in the code)
    MaxBurst,  \* bound: packets lost in a row
    MaxFrames, \* bound: frames the driver sends
    MaxCalls,  \* bound: calls of start() and stop()
    MaxFlips,  \* bound: times the driver goes down or comes up
    MaxDelay   \* RECONNECT_MAX_DELAY in units of RECONNECT_BASE_DELAY

ASSUME ClientAssumption ==
    /\ {MaxBurst, MaxFrames, MaxCalls, MaxFlips} \subseteq Nat
    /\ Width \in Nat /\ Width % 2 = 0 /\ MaxBurst + 1 < Width \div 2
    /\ MaxDelay \in Nat \ {0}

VARIABLES
    running, state,   \* _running, _state
    pc,               \* where the reconnect task is; "none" when _task is None
    cancelled,        \* cancel() has been called and is yet to be delivered
    leaving,          \* CancelledError is on its way out of the session
    delay,            \* the back-off delay
    lastSeq, rx, lost, buffer,  \* _last_seq, _rx_frames, _lost_packets, _buffer
    calling, calls,   \* the call in progress, and the number of calls made
    driver, flips,    \* is the driver up, and how often that has changed
    sent,             \* the number of frames the driver has sent
    base,             \* the sequence number of the driver's frame 0
    got, out          \* history: frames received and broadcast in this session

fields == <<lastSeq, rx, lost, buffer>>
callVars == <<calling, calls>>
env == <<driver, flips, sent, base>>
history == <<got, out>>
vars == <<running, state, pc, cancelled, leaving, delay, fields, callVars, env, history>>

NoSeq == -1
NoCall == "none"

Init ==
    /\ running = FALSE /\ state = "idle"
    /\ pc = "none" /\ cancelled = FALSE /\ leaving = FALSE /\ delay = 1
    /\ lastSeq = NoSeq /\ rx = 0 /\ lost = 0 /\ buffer = <<>>
    /\ calling = NoCall /\ calls = 0
    /\ driver = FALSE /\ flips = 0 /\ sent = 0 /\ base \in 0..(Width - 1)
    /\ got = <<>> /\ out = <<>>

-----------------------------------------------------------------------------
(* The environment.                                                        *)

Flip ==
    /\ flips < MaxFlips /\ flips' = flips + 1 /\ driver' = ~driver
    /\ UNCHANGED <<running, state, pc, cancelled, leaving, delay, fields, callVars,
                   sent, base, history>>

-----------------------------------------------------------------------------
(* start() and stop().                                                     *)

NewTask ==
    /\ running' = TRUE /\ pc' = "top" /\ cancelled' = FALSE /\ leaving' = FALSE
    /\ delay' = 1

(* start(): a client that has a task is stopped first.                     *)
Start ==
    /\ calling = NoCall /\ calls < MaxCalls /\ calls' = calls + 1
    /\ IF pc = "none"
       THEN NewTask /\ calling' = NoCall
       ELSE /\ running' = FALSE /\ cancelled' = TRUE /\ calling' = "start"
            /\ UNCHANGED <<pc, leaving, delay>>
    /\ UNCHANGED <<state, fields, env, history>>

Stop ==
    /\ calling = NoCall /\ calls < MaxCalls /\ calls' = calls + 1
    /\ running' = FALSE
    /\ IF pc = "none"
       THEN state' = "idle" /\ UNCHANGED <<cancelled, calling>>
       ELSE cancelled' = TRUE /\ calling' = "stop" /\ state' = state
    /\ UNCHANGED <<pc, leaving, delay, fields, env, history>>

Joined_StateKept ==  \* mutant: _state is not reset
    /\ calling # NoCall /\ pc = "over"
    /\ calling' = NoCall
    /\ IF calling = "start" THEN NewTask
       ELSE pc' = "none" /\ UNCHANGED <<running, cancelled, leaving, delay>>
    /\ UNCHANGED <<state, calls, fields, env, history>>

(* The cancelled task is over; stop() returns, and start() goes on.        *)
Joined ==
    /\ calling # NoCall /\ pc = "over"
    /\ calling' = NoCall /\ state' = "idle"
    /\ IF calling = "start" THEN NewTask
       ELSE pc' = "none" /\ UNCHANGED <<running, cancelled, leaving, delay>>
    /\ UNCHANGED <<calls, fields, env, history>>

-----------------------------------------------------------------------------
(* The reconnect task.                                                     *)

taskOnly == <<running, delay, fields, callVars, env, history>>
Go(here, there) == ~cancelled /\ pc = here /\ pc' = there

(* CancelledError is raised where the task waits: a session still has to   *)
(* be closed.                                                              *)
Cancelled_Swallowed ==  \* mutant: the loop takes it for a failed session
    /\ cancelled /\ cancelled' = FALSE
    /\ pc' = IF pc \in {"welcome", "subscribed", "binding", "connected"}
             THEN "closing" ELSE "sleeping"
    /\ leaving' = leaving
    /\ UNCHANGED <<state, taskOnly>>

Cancelled ==
    /\ cancelled /\ cancelled' = FALSE
    /\ pc' = IF pc \in {"welcome", "subscribed", "binding", "connected"}
             THEN "closing" ELSE "over"
    /\ leaving' = TRUE
    /\ UNCHANGED <<state, taskOnly>>

(* The head of the loop.                                                   *)
Top ==
    /\ Go("top", "opening")
    /\ state' = "connecting"
    /\ UNCHANGED <<cancelled, leaving, taskOnly>>

Open_Raises ==  \* mutant: a refused connection ends the task
    /\ IF driver THEN Go("opening", "welcome") ELSE Go("opening", "over")
    /\ UNCHANGED <<state, cancelled, leaving, taskOnly>>

(* open_connection(): a failure goes straight to the back-off.             *)
Open ==
    /\ IF driver THEN Go("opening", "welcome") /\ state' = state
                 ELSE Go("opening", "sleeping") /\ state' = "reconnecting"
    /\ UNCHANGED <<cancelled, leaving, taskOnly>>

(* HELLO has been sent: WELCOME comes and is answered by SUBSCRIBE.        *)
Welcome ==
    /\ Go("welcome", IF driver THEN "subscribed" ELSE "closing")
    /\ UNCHANGED <<state, cancelled, leaving, taskOnly>>

Subscribed ==
    /\ Go("subscribed", IF driver THEN "binding" ELSE "closing")
    /\ UNCHANGED <<state, cancelled, leaving, taskOnly>>

Connected_KeepsBuffer ==  \* mutant: _buffer is not cleared
    /\ Go("binding", "connected")
    /\ state' = "connected"
    /\ lastSeq' = NoSeq /\ rx' = 0 /\ lost' = 0 /\ buffer' = buffer
    /\ got' = <<>> /\ out' = <<>>
    /\ UNCHANGED <<running, cancelled, leaving, delay, callVars, env>>

(* The UDP socket is bound; counters and buffer start afresh.              *)
Connected ==
    /\ Go("binding", "connected")
    /\ state' = "connected"
    /\ lastSeq' = NoSeq /\ rx' = 0 /\ lost' = 0 /\ buffer' = <<>>
    /\ got' = <<>> /\ out' = <<>>
    /\ UNCHANGED <<running, cancelled, leaving, delay, callVars, env>>

(* DISCONNECT, the end of the stream, 15 s without a message, or a         *)
(* broadcast that raises in the flusher: the task group ends the session.  *)
SessionEnds ==
    /\ Go("connected", "closing")
    /\ UNCHANGED <<state, cancelled, leaving, taskOnly>>

(* The finally clause is over: the loop goes to its back-off, or the       *)
(* CancelledError ends the task.                                           *)
Closed ==
    /\ Go("closing", IF leaving THEN "over" ELSE "sleeping")
    /\ state' = IF leaving THEN "connecting" ELSE "reconnecting"
    /\ UNCHANGED <<cancelled, leaving, taskOnly>>

AtMost(a, b) == IF a <= b THEN a ELSE b

Wake ==
    /\ Go("sleeping", "opening")
    /\ delay' = AtMost(2 * delay, MaxDelay)
    /\ state' = "connecting"
    /\ UNCHANGED <<running, cancelled, leaving, fields, callVars, env, history>>

-----------------------------------------------------------------------------
(* Telemetry.                                                              *)

Number(n) == (base + n) % Width
Gap(seq) == (seq - lastSeq) % Width

Losses_Signed(seq) ==  \* mutant: the difference is not taken modulo the width
    IF lastSeq = NoSeq \/ seq = (lastSeq + 1) % Width THEN 0
    ELSE IF seq - lastSeq < Width \div 2 THEN seq - lastSeq - 1 ELSE 0

(* What a packet adds to _lost_packets.                                    *)
Losses(seq) ==
    IF lastSeq = NoSeq \/ seq = (lastSeq + 1) % Width THEN 0
    ELSE IF Gap(seq) < Width \div 2 THEN Gap(seq) - 1 ELSE 0

(* _on_udp_packet(): of the driver's next frames some are lost and one     *)
(* arrives.                                                                *)
Packet ==
    /\ pc = "connected" /\ driver
    /\ \E n \in (sent + 1)..AtMost(sent + 1 + MaxBurst, MaxFrames) :
        /\ sent' = n
        /\ lost' = lost + Losses(Number(n)) /\ lastSeq' = Number(n)
        /\ rx' = rx + 1 /\ buffer' = Append(buffer, n)
        /\ got' = Append(got, n)
    /\ UNCHANGED <<running, state, pc, cancelled, leaving, delay, callVars,
                   driver, flips, base, out>>

(* The flusher: the oldest frame has been in the buffer for BUFFER_MS.     *)
Flush ==
    /\ pc = "connected" /\ buffer # <<>>
    /\ buffer' = Tail(buffer) /\ out' = Append(out, Head(buffer))
    /\ UNCHANGED <<running, state, pc, cancelled, leaving, delay, lastSeq, rx, lost,
                   callVars, env, got>>

-----------------------------------------------------------------------------
TaskStep ==
    \/ Cancelled \/ Top \/ Open \/ Welcome \/ Subscribed \/ Connected
    \/ Closed \/ Wake

Next ==
    \/ Flip \/ Start \/ Stop \/ Joined
    \/ TaskStep \/ SessionEnds
    \/ Packet \/ Flush

(* The event loop resumes the task and the call, time-outs and sleeps end. *)
(* A session that a down driver cannot keep up ends by its time-out.       *)
Spec ==
    /\ Init /\ [][Next]_vars
    /\ WF_vars(TaskStep) /\ WF_vars(Joined)
    /\ WF_vars(~driver /\ SessionEnds) /\ WF_vars(Flush)

-----------------------------------------------------------------------------
(* Properties.                                                             *)

(* Received and lost packets add up to the stretch of the driver's frames  *)
(* from the first to the last one received in the session, also where the  *)
(* sequence numbers wrap.                                                  *)
LossesExact ==
    got # <<>> => rx + lost = Last(got) - Head(got) + 1

(* What goes to the WebSocket clients is what this session received, in    *)
(* order and once, and nothing a former session left in the buffer.        *)
BroadcastAsReceived == IsPrefix(out, got)

(* Between calls a client that is not running is idle and has no task;     *)
(* and "connected" is only reported by a task that has a session.          *)
StateHonest ==
    /\ calling = NoCall /\ ~running => state = "idle" /\ pc = "none"
    /\ state = "connected" => pc \in {"connected", "closing", "over"}

(* stop(), and the stop() in start(), come to an end.                      *)
CallsEnd == calling # NoCall ~> calling = NoCall

(* A running client whose driver stays up gets connected, however long the *)
(* driver has been away.                                                   *)
Reconnects ==
    running /\ driver ~> pc = "connected" \/ ~running \/ ~driver
=============================================================================
