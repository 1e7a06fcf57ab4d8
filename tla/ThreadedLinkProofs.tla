------------------------- MODULE ThreadedLinkProofs -------------------------
(***************************************************************************)
(* Proofs about TelemetryStreamer and its StreamClients, for any number of *)
(* connections, any patience of the keep-alive thread and any number of    *)
(* session updates.                                                        *)
(***************************************************************************)
EXTENDS ThreadedLink, SeqFacts

Message == {"HELLO", "WELCOME", "SUBSCRIBE", "SUBSCRIBED", "PING", "PONG",
            "DISCONNECT", "SESSION_UPDATE"}

Engineers == {"idle", "welcome", "subscribed", "up", "ended", "failed",
              "confused", "leaving", "joined", "left"}

(* The type of the state.                                                  *)
DriverTyped ==
    /\ handler \in [Conns -> Handlers] /\ age \in [Conns -> 0 .. Patience + 1]
    /\ registry \in SUBSET Conns /\ open \in SUBSET Conns /\ gone \in SUBSET Conns
    /\ stopping \in {"no", "set", "said", "closed"} /\ updates \in 0 .. MaxUpdates
    /\ keeper \in [pc: {"wait", "round", "done"}, todo: SUBSET Conns, stale: SUBSET Conns]

LinkTyped ==
    /\ toDriver \in [Conns -> Seq(Message)] /\ toEngineer \in [Conns -> Seq(Message)]
    /\ silent \in SUBSET Conns /\ engineer \in [Conns -> Engineers]

Typed == DriverTyped /\ LinkTyped

(* The handshake of a connection: how far the two ends of it are, and what *)
(* is under way between them.                                              *)
Talk(c) ==
    /\ handler[c] = "none" => engineer[c] = "idle" /\ toEngineer[c] = <<>> /\ age[c] = 0
    /\ engineer[c] = "idle" => handler[c] = "none"
    /\ c \in gone => engineer[c] = "left"
    /\ handler[c] \in {"hello", "subscribe", "confirm", "register"} => c \in open
    /\ handler[c] = "done" => c \notin open
    /\ engineer[c] = "welcome" =>
         \/ handler[c] = "hello" /\ toEngineer[c] = <<>> /\ toDriver[c] = <<"HELLO">>
         \/ handler[c] = "subscribe" /\ toEngineer[c] = <<"WELCOME">> /\ toDriver[c] = <<>>
         \/ handler[c] = "done" /\ toEngineer[c] \in {<<>>, <<"WELCOME">>}
    /\ engineer[c] = "subscribed" =>
         \/ handler[c] \in {"subscribe", "confirm"} /\ toEngineer[c] = <<>>
         \/ handler[c] \in {"register", "loop"} /\ Told(c, "SUBSCRIBED")
         \/ handler[c] = "done" /\ (toEngineer[c] = <<>> \/ Told(c, "SUBSCRIBED"))
    /\ engineer[c] \in {"welcome", "subscribed", "up"} => ~Contains(toDriver[c], "DISCONNECT")
    /\ engineer[c] # "confused"

(* The registry and the keep-alive thread know connections only after      *)
(* their handshake.                                                        *)
Entry(c) ==
    /\ c \in registry => handler[c] = "loop"
    /\ c \in keeper.todo \cup keeper.stale =>
         handler[c] \in {"loop", "done"} /\ engineer[c] \notin {"idle", "welcome"}
    /\ keeper.pc = "wait" => c \notin keeper.todo \cup keeper.stale

(* An engineer that answers, and that nobody is ending.                    *)
Healthy(c) ==
    c \notin silent /\ engineer[c] \in {"welcome", "subscribed", "up"} /\ stopping = "no"

(* At most one round old, and its PING or PONG is still under way.         *)
Answered(c) ==
    \/ age[c] = 0
    \/ /\ age[c] = 1
       /\ c \in keeper.todo \/ Contains(toEngineer[c], "PING") \/ Contains(toDriver[c], "PONG")

Kept(c) == Healthy(c) =>
    /\ c \notin keeper.stale
    /\ handler[c] = "loop" => c \in registry /\ c \in open
    /\ engineer[c] # "up" => age[c] = 0
    /\ engineer[c] = "up" => handler[c] \in {"register", "loop"} /\ Answered(c)
    /\ engineer[c] = "subscribed" /\ handler[c] = "done" => toEngineer[c] = <<>>
    /\ c \in keeper.todo => handler[c] = "loop"

Conn(c) == Talk(c) /\ Entry(c) /\ Kept(c)

IInv == Typed /\ \A c \in Conns : Conn(c)

-----------------------------------------------------------------------------
(* Types.                                                                  *)

LEMMA SendTyped ==
  ASSUME LinkTyped, NEW cs, NEW m \in Message, Send(cs, m)
  PROVE  toEngineer' \in [Conns -> Seq(Message)]
<1>1. \A c \in Conns : Append(toEngineer[c], m) \in Seq(Message)
  BY AppendFacts DEF LinkTyped
<1>2. QED
  BY <1>1 DEF Send, LinkTyped

LEMMA TakeTyped ==
  ASSUME LinkTyped, NEW c \in Conns, toDriver[c] # <<>>, Take(c)
  PROVE  toDriver' \in [Conns -> Seq(Message)]
<1>1. Tail(toDriver[c]) \in Seq(Message)
  BY TailFacts DEF LinkTyped
<1>2. QED
  BY <1>1 DEF Take, LinkTyped

LEMMA HeardTyped ==
  ASSUME LinkTyped, NEW c \in Conns, toEngineer[c] # <<>>, Heard(c)
  PROVE  toEngineer' \in [Conns -> Seq(Message)]
<1>1. Tail(toEngineer[c]) \in Seq(Message)
  BY TailFacts DEF LinkTyped
<1>2. QED
  BY <1>1 DEF Heard, LinkTyped

LEMMA SayTyped ==
  ASSUME LinkTyped, NEW c \in Conns, NEW m \in Message, Say(c, m)
  PROVE  toDriver' \in [Conns -> Seq(Message)]
<1>1. Append(toDriver[c], m) \in Seq(Message)
  BY AppendFacts DEF LinkTyped
<1>2. QED
  BY <1>1 DEF Say, LinkTyped

(* The steps of the driver keep the types of the driver.                   *)
LEMMA DriverTypes == ASSUME Typed, [Next]_vars PROVE DriverTyped'
<1> USE StreamerAssumption DEF Handlers
<1>1. CASE \E c \in Conns : Connect(c)
  BY <1>1 DEF Typed, DriverTyped, Connect, Accept, Becomes
<1>2. CASE \E c \in Conns : Greet(c) \/ TakeSubscribe(c) \/ Confirm(c) \/ Register(c)
  BY <1>2 DEF Typed, DriverTyped, Greet, TakeSubscribe, Confirm, Register, Becomes, wires
<1>3. CASE \E c \in Conns : HandshakeFails(c) \/ LoopEnds(c)
  <2>1. PICK c \in Conns : Finish(c)
    BY <1>3 DEF HandshakeFails, LoopEnds
  <2>2. QED
    BY <2>1 DEF Typed, DriverTyped, Finish, Becomes
<1>4. CASE \E c \in Conns : Dispatch(c)
  <2>1. PICK c \in Conns :
           \/ UNCHANGED <<handler, registry, age, open, gone, keeper, stopping, updates>>
           \/ /\ age' = [age EXCEPT ![c] = 0]
              /\ UNCHANGED <<handler, registry, open, gone, keeper, stopping, updates>>
           \/ Finish(c)
    BY <1>4 DEF Dispatch
  <2>2. CASE UNCHANGED <<handler, registry, age, open, gone, keeper, stopping, updates>>
    BY <2>2 DEF Typed, DriverTyped
  <2>3. CASE /\ age' = [age EXCEPT ![c] = 0]
             /\ UNCHANGED <<handler, registry, open, gone, keeper, stopping, updates>>
    BY <2>3 DEF Typed, DriverTyped
  <2>4. CASE Finish(c)
    BY <2>4 DEF Typed, DriverTyped, Finish, Becomes
  <2>5. QED
    BY <2>1, <2>2, <2>3, <2>4
<1>5. CASE \E c \in Conns : Reader(c) \/ Leave(c) \/ FallSilent(c)
  BY <1>5 DEF Typed, DriverTyped, Reader, TakeWelcome, TakeSubscribed, ConnectFails, TakeControl,
              Lost, Close, Leave, FallSilent, driverOnly, streamerVars, wires
<1>6. CASE Keeper
  <2>1. CASE \E c \in Conns : PingOne(c)
    <3>1. PICK c \in Conns : PingOne(c)
      BY <2>1
    <3>2. PICK stale \in {keeper.stale, keeper.stale \cup {c}} :
            keeper' = [keeper EXCEPT !.todo = @ \ {c}, !.stale = stale]
      BY <3>1 DEF PingOne
    <3>3. UNCHANGED <<handler, registry, age, open, gone, stopping, updates>>
      BY <3>1 DEF PingOne
    <3> DEFINE todo == keeper.todo \ {c}
    <3>4. keeper' = [keeper EXCEPT !.todo = todo, !.stale = stale]
      BY <3>2
    <3>5. todo \in SUBSET Conns /\ stale \in SUBSET Conns
      BY <3>1, <3>2 DEF Typed, DriverTyped
    <3> HIDE DEF todo
    <3>6. keeper' \in [pc: {"wait", "round", "done"}, todo: SUBSET Conns, stale: SUBSET Conns]
      BY <3>4, <3>5 DEF Typed, DriverTyped
    <3>7. QED
      BY <3>3, <3>6, Zenon DEF Typed, DriverTyped
  <2>2. CASE \E c \in Conns : Evict(c)
    BY <2>2 DEF Typed, DriverTyped, Evict, wires
  <2>3. CASE RoundOver
    BY <2>3 DEF Typed, DriverTyped, RoundOver, wires
  <2>4. QED
    BY <1>6, <2>1, <2>2, <2>3 DEF Keeper
<1>7. CASE Tick
  <2>1. Older \in [Conns -> 0 .. Patience + 1]
    BY DEF Older, Typed, DriverTyped
  <2>2. QED
    BY <1>7, <2>1 DEF Typed, DriverTyped, Tick, Wake
<1>8. CASE Stop \/ Call
  BY <1>8 DEF Typed, DriverTyped, Stop, Call, StopSay, StopClose, StopSet, UpdateSession, wires
<1>9. CASE UNCHANGED vars
  BY <1>9 DEF Typed, DriverTyped, vars, streamerVars, wires
<1>10. QED
  BY <1>1, <1>2, <1>3, <1>4, <1>5, <1>6, <1>7, <1>8, <1>9 DEF Next, Driver

LEMMA LinkTypes == ASSUME Typed, [Next]_vars PROVE LinkTyped'
<1> USE DEF Message
<1> \A m \in Message : <<m>> \in Seq(Message)
  OBVIOUS
<1> <<>> \in Seq(Message)
  OBVIOUS
<1>1. CASE \E c \in Conns : Connect(c)
  BY <1>1 DEF Typed, LinkTyped, Connect, Accept, Goes, Engineers
<1>2. CASE \E c \in Conns : Driver(c)
  <2>1. PICK c \in Conns : Driver(c)
    BY <1>2
  <2>2. UNCHANGED <<engineer, silent>>
    BY <2>1 DEF Driver, engineerOnly
  <2>3. CASE Greet(c)
    BY <2>2, <2>3, TakeTyped, SendTyped DEF Typed, LinkTyped, Greet, Received
  <2>4. CASE TakeSubscribe(c)
    BY <2>2, <2>4, TakeTyped DEF Typed, LinkTyped, TakeSubscribe, Received
  <2>5. CASE Confirm(c)
    BY <2>2, <2>5, SendTyped DEF Typed, LinkTyped, Confirm
  <2>6. CASE Register(c)
    BY <2>2, <2>6 DEF Typed, LinkTyped, Register, wires
  <2>7. CASE Finish(c)
    BY <2>2, <2>7 DEF Typed, LinkTyped, Finish
  <2>8. CASE Dispatch(c)
    <3>1. CASE Received(c, "PING") /\ Take(c) /\ Send({c}, "PONG")
      BY <2>2, <3>1, TakeTyped, SendTyped DEF Typed, LinkTyped, Received
    <3>2. CASE Received(c, "PONG") /\ Take(c) /\ UNCHANGED toEngineer
      BY <2>2, <3>2, TakeTyped DEF Typed, LinkTyped, Received
    <3>3. QED
      BY <2>7, <2>8, <3>1, <3>2 DEF Dispatch
  <2>9. QED
    BY <2>1, <2>3, <2>4, <2>5, <2>6, <2>7, <2>8 DEF Driver, HandshakeFails, LoopEnds
<1>3. CASE \E c \in Conns : Reader(c)
  <2>1. PICK c \in Conns : Reader(c)
    BY <1>3
  <2>2. silent' = silent /\ engineer' \in [Conns -> Engineers]
    BY <2>1 DEF Reader, TakeWelcome, TakeSubscribed, ConnectFails, TakeControl, Lost, Close,
                Goes, Typed, LinkTyped, Engineers
  <2>3. CASE TakeWelcome(c)
    BY <2>2, <2>3, HeardTyped, SayTyped DEF Typed, LinkTyped, TakeWelcome, Told
  <2>4. CASE TakeSubscribed(c)
    BY <2>2, <2>4, HeardTyped DEF Typed, LinkTyped, TakeSubscribed, Told
  <2>5. CASE TakeControl(c)
    BY <2>2, <2>5, HeardTyped, SayTyped DEF Typed, LinkTyped, TakeControl
  <2>6. CASE Close(c)
    BY <2>2, <2>6 DEF Typed, LinkTyped, Close
  <2>7. CASE ConnectFails(c) \/ Lost(c)
    BY <2>2, <2>7 DEF Typed, LinkTyped, ConnectFails, Lost, streamerVars, wires
  <2>8. QED
    BY <2>1, <2>3, <2>4, <2>5, <2>6, <2>7 DEF Reader
<1>4. CASE \E c \in Conns : Leave(c) \/ FallSilent(c)
  <2>1. PICK c \in Conns : Leave(c) \/ FallSilent(c)
    BY <1>4
  <2>2. CASE Leave(c)
    BY <2>2, SayTyped DEF Typed, LinkTyped, Leave, Goes, Engineers
  <2>3. CASE FallSilent(c)
    BY <2>3 DEF Typed, LinkTyped, FallSilent, streamerVars, wires
  <2>4. QED
    BY <2>1, <2>2, <2>3
<1>5. CASE Keeper
  <2>1. UNCHANGED <<engineer, silent, toDriver>>
    BY <1>5 DEF Keeper, PingOne, Evict, RoundOver, engineerOnly, wires
  <2>2. toEngineer' = toEngineer \/ \E c \in Conns : Send({c}, "PING")
    BY <1>5 DEF Keeper, PingOne, Evict, RoundOver, wires
  <2>3. QED
    BY <2>1, <2>2, SendTyped DEF Typed, LinkTyped
<1>6. CASE Tick
  <2>1. UNCHANGED <<engineer, silent, toEngineer>>
    BY <1>6 DEF Tick, Wake, engineerOnly
  <2>2. \A c \in Conns : Append(toDriver[c], "PING") \in Seq(Message)
    BY AppendFacts DEF Typed, LinkTyped
  <2>3. toDriver' \in [Conns -> Seq(Message)]
    BY <1>6, <2>2 DEF Tick, Typed, LinkTyped
  <2>4. QED
    BY <2>1, <2>3 DEF Typed, LinkTyped
<1>7. CASE Stop \/ Call
  <2>1. UNCHANGED <<engineer, silent, toDriver>>
    BY <1>7 DEF Stop, Call, StopSay, StopClose, StopSet, UpdateSession, engineerOnly, wires
  <2>2. \/ toEngineer' = toEngineer
        \/ \E m \in {"SESSION_UPDATE", "DISCONNECT"} : Send(registry \cap open, m)
    BY <1>7 DEF Stop, Call, StopSay, StopClose, StopSet, UpdateSession, Broadcast, wires
  <2>3. QED
    BY <2>1, <2>2, SendTyped DEF Typed, LinkTyped
<1>8. CASE UNCHANGED vars
  BY <1>8 DEF Typed, LinkTyped, vars, streamerVars, wires
<1>9. QED
  BY <1>1, <1>2, <1>3, <1>4, <1>5, <1>6, <1>7, <1>8 DEF Next

-----------------------------------------------------------------------------
(* A step of one connection leaves the others as they are.                 *)

Same(c) ==
    /\ handler'[c] = handler[c] /\ engineer'[c] = engineer[c] /\ age'[c] = age[c]
    /\ toDriver'[c] = toDriver[c] /\ toEngineer'[c] = toEngineer[c]
    /\ c \in registry' <=> c \in registry
    /\ c \in open' <=> c \in open
    /\ c \in gone' <=> c \in gone
    /\ c \in silent' <=> c \in silent
    /\ c \in keeper'.todo <=> c \in keeper.todo
    /\ c \in keeper'.stale <=> c \in keeper.stale
    /\ keeper'.pc = keeper.pc /\ stopping' = stopping

KeeperOf(c) == (PingOne(c) \/ Evict(c)) /\ UNCHANGED engineerOnly

StepOf(c) ==
    Connect(c) \/ Driver(c) \/ Reader(c) \/ Leave(c) \/ FallSilent(c) \/ KeeperOf(c)

LEMMA SameKeeps == ASSUME NEW c, Conn(c), Same(c) PROVE Conn(c)'
BY DEF Conn, Talk, Told, Entry, Kept, Healthy, Answered, Same

LEMMA OthersSame ==
  ASSUME Typed, NEW d \in Conns, StepOf(d), NEW c \in Conns, c # d
  PROVE  Same(c)
<1> USE DEF Same, Typed, DriverTyped, LinkTyped
<1>1. CASE Connect(d)
  BY <1>1 DEF Connect, Accept, Becomes, Goes
<1>2. CASE Driver(d)
  <2>1. UNCHANGED engineerOnly
    BY <1>2 DEF Driver
  <2>2. CASE Greet(d) \/ TakeSubscribe(d) \/ Confirm(d) \/ Register(d)
    BY <2>1, <2>2 DEF Greet, TakeSubscribe, Confirm, Register, Becomes, Take, Send, wires, engineerOnly
  <2>3. CASE Finish(d)
    BY <2>1, <2>3 DEF Finish, Becomes, engineerOnly
  <2>4. CASE Dispatch(d)
    BY <2>1, <2>3, <2>4 DEF Dispatch, Take, Send, engineerOnly
  <2>5. QED
    BY <1>2, <2>2, <2>3, <2>4 DEF Driver, HandshakeFails, LoopEnds
<1>3. CASE Reader(d)
  BY <1>3 DEF Reader, TakeWelcome, TakeSubscribed, ConnectFails, TakeControl, Lost, Close, Goes,
              Heard, Say, driverOnly, streamerVars, wires
<1>4. CASE Leave(d) \/ FallSilent(d)
  BY <1>4 DEF Leave, FallSilent, Goes, Say, driverOnly, streamerVars, wires
<1>5. CASE KeeperOf(d)
  <2>1. CASE PingOne(d)
    <3>1. PICK stale \in {keeper.stale, keeper.stale \cup {d}} :
            keeper' = [keeper EXCEPT !.todo = @ \ {d}, !.stale = stale]
      BY <2>1 DEF PingOne
    <3>2. /\ keeper'.pc = keeper.pc /\ keeper'.todo = keeper.todo \ {d}
          /\ keeper'.stale = stale
      BY <3>1
    <3>3. /\ UNCHANGED <<handler, registry, age, open, gone, toDriver, stopping, engineer, silent>>
          /\ toEngineer' = toEngineer \/ Send({d}, "PING")
      BY <1>5, <2>1 DEF KeeperOf, PingOne, engineerOnly
    <3>4. toEngineer'[c] = toEngineer[c]
      BY <3>3 DEF Send
    <3>5. QED
      BY <3>1, <3>2, <3>3, <3>4
  <2>2. CASE Evict(d)
    BY <1>5, <2>2 DEF KeeperOf, Evict, engineerOnly, wires
  <2>3. QED
    BY <1>5, <2>1, <2>2 DEF KeeperOf
<1>6. QED
  BY <1>1, <1>2, <1>3, <1>4, <1>5 DEF StepOf

-----------------------------------------------------------------------------
(* The steps of a connection keep its invariant.                           *)

(* What is under way after a message has been sent, heard or said.         *)
LEMMA SendFacts ==
  ASSUME Typed, NEW cs, NEW m \in Message, Send(cs, m), NEW c \in Conns
  PROVE  /\ c \in cs \ gone => toEngineer'[c] = Append(toEngineer[c], m)
         /\ c \notin cs \ gone => toEngineer'[c] = toEngineer[c]
         /\ toEngineer[c] # <<>> =>
              toEngineer'[c] # <<>> /\ Head(toEngineer'[c]) = Head(toEngineer[c])
         /\ Contains(toEngineer[c], "PING") => Contains(toEngineer'[c], "PING")
         /\ toEngineer[c] = <<>> /\ c \in cs \ gone => toEngineer'[c] = <<m>>
<1> DEFINE q == toEngineer[c]
<1>1. q \in Seq(Message) /\ "PING" \in Message
  BY DEF Typed, LinkTyped, Message
<1>2. /\ c \in cs \ gone => toEngineer'[c] = Append(q, m)
      /\ c \notin cs \ gone => toEngineer'[c] = q
  BY DEF Send
<1> HIDE DEF q
<1>3. /\ q # <<>> => Append(q, m) # <<>> /\ Head(Append(q, m)) = Head(q)
      /\ q = <<>> => Append(q, m) = <<m>>
  BY <1>1, HeadFacts
<1>4. Contains(q, "PING") => Contains(Append(q, m), "PING")
  BY <1>1, ContainsFacts
<1>5. QED
  BY <1>2, <1>3, <1>4 DEF q

LEMMA SingletonFacts ==
  \A m : /\ <<m>> # <<>> /\ Head(<<m>>) = m /\ Tail(<<m>>) = <<>>
         /\ \A x : Contains(<<m>>, x) <=> m = x
         /\ \A x : ~Contains(<<>>, x)
BY DEF Contains

LEMMA ConnectKeeps ==
  ASSUME Typed, NEW c \in Conns, Conn(c), Connect(c) PROVE Conn(c)'
<1>1. /\ handler'[c] = "hello" /\ engineer'[c] = "welcome" /\ toEngineer'[c] = toEngineer[c]
      /\ toDriver'[c] = <<"HELLO">> /\ c \in open'
      /\ UNCHANGED <<registry, age, gone, keeper, stopping, silent>>
      /\ handler[c] = "none" /\ engineer[c] = "idle"
  BY DEF Connect, Accept, Becomes, Goes, Typed, DriverTyped, LinkTyped
<1>2. toEngineer[c] = <<>> /\ age[c] = 0 /\ c \notin gone
  BY <1>1 DEF Conn, Talk
<1>3. Talk(c)'
  BY <1>1, <1>2, SingletonFacts DEF Talk
<1>4. Entry(c)'
  BY <1>1 DEF Conn, Entry
<1>5. Kept(c)'
  BY <1>1, <1>2 DEF Conn, Entry, Kept, Healthy, Answered
<1>6. QED
  BY <1>3, <1>4, <1>5 DEF Conn

LEMMA HandshakeKeeps ==
  ASSUME Typed, NEW c \in Conns, Conn(c), UNCHANGED engineerOnly,
         Greet(c) \/ TakeSubscribe(c) \/ Confirm(c) \/ Register(c)
  PROVE  Conn(c)'
<1>1. UNCHANGED <<engineer, silent, age, open, gone, keeper, stopping>>
  BY DEF Greet, TakeSubscribe, Confirm, Register, wires, engineerOnly
<1>2. CASE Greet(c)
  <2>1. /\ handler[c] = "hello" /\ handler'[c] = "subscribe" /\ registry' = registry
        /\ toDriver[c] # <<>> /\ toDriver'[c] = Tail(toDriver[c])
        /\ Send({c}, "WELCOME") /\ "WELCOME" \in Message
    BY <1>2 DEF Greet, Received, Becomes, Take, Typed, DriverTyped, LinkTyped, Message
  <2>2. /\ toEngineer[c] = <<>> /\ c \notin gone => toEngineer'[c] = <<"WELCOME">>
    BY <2>1, SendFacts
  <2>3. Contains(toDriver'[c], "DISCONNECT") => Contains(toDriver[c], "DISCONNECT")
    BY <2>1, ContainsFacts DEF Typed, LinkTyped
  <2>4. engineer[c] = "welcome" => toDriver'[c] = <<>>
    <3>1. engineer[c] = "welcome" => toDriver[c] = <<"HELLO">>
      BY <2>1 DEF Conn, Talk
    <3>2. Tail(<<"HELLO">>) = <<>>
      BY SingletonFacts
    <3>3. QED
      BY <2>1, <3>1, <3>2
  <2>5. Talk(c)'
    BY <1>1, <2>1, <2>2, <2>3, <2>4 DEF Conn, Talk
  <2>6. Entry(c)' /\ Kept(c)'
    BY <1>1, <2>1 DEF Conn, Entry, Kept, Healthy, Talk
  <2>7. QED
    BY <2>5, <2>6 DEF Conn
<1>3. CASE TakeSubscribe(c)
  <2>1. /\ handler[c] = "subscribe" /\ handler'[c] = "confirm" /\ registry' = registry
        /\ toDriver[c] # <<>> /\ toDriver'[c] = Tail(toDriver[c]) /\ toEngineer' = toEngineer
    BY <1>3 DEF TakeSubscribe, Received, Becomes, Take, Typed, DriverTyped, LinkTyped
  <2>2. Contains(toDriver'[c], "DISCONNECT") => Contains(toDriver[c], "DISCONNECT")
    BY <2>1, ContainsFacts DEF Typed, LinkTyped
  <2>3. Talk(c)'
    BY <1>1, <2>1, <2>2 DEF Conn, Talk
  <2>4. Entry(c)' /\ Kept(c)'
    BY <1>1, <2>1 DEF Conn, Entry, Kept, Healthy, Talk
  <2>5. QED
    BY <2>3, <2>4 DEF Conn
<1>4. CASE Confirm(c)
  <2>1. /\ handler[c] = "confirm" /\ handler'[c] = "register" /\ registry' = registry
        /\ toDriver' = toDriver /\ Send({c}, "SUBSCRIBED") /\ "SUBSCRIBED" \in Message
    BY <1>4 DEF Confirm, Becomes, Typed, DriverTyped, Message
  <2>2. toEngineer[c] = <<>> /\ c \notin gone => toEngineer'[c] = <<"SUBSCRIBED">>
    BY <2>1, SendFacts
  <2>3. Talk(c)'
    BY <1>1, <2>1, <2>2, SingletonFacts DEF Conn, Talk, Told
  <2>4. Entry(c)' /\ Kept(c)'
    BY <1>1, <2>1 DEF Conn, Entry, Kept, Healthy, Talk
  <2>5. QED
    BY <2>3, <2>4 DEF Conn
<1>5. CASE Register(c)
  <2>1. /\ handler[c] = "register" /\ handler'[c] = "loop" /\ c \in registry'
        /\ toDriver' = toDriver /\ toEngineer' = toEngineer
    BY <1>5 DEF Register, Becomes, Typed, DriverTyped, wires
  <2>2. Talk(c)' /\ Entry(c)' /\ Kept(c)'
    BY <1>1, <2>1 DEF Conn, Talk, Told, Entry, Kept, Healthy, Answered
  <2>3. QED
    BY <2>2 DEF Conn
<1>6. QED
  BY <1>2, <1>3, <1>4, <1>5

(* A thread ends only when its engineer is not, or no longer, healthy.     *)
LEMMA FinishKeeps ==
  ASSUME Typed, NEW c \in Conns, Conn(c), UNCHANGED engineerOnly, Finish(c),
         HandshakeFails(c) \/ LoopEnds(c) \/ (handler[c] = "loop" /\ Received(c, "DISCONNECT"))
  PROVE  Conn(c)'
<1>1. /\ UNCHANGED <<engineer, silent, gone, toEngineer, keeper, stopping>>
      /\ handler'[c] = "done" /\ toDriver'[c] = <<>> /\ age'[c] = 0
      /\ c \notin registry' /\ c \notin open'
  BY DEF Finish, Becomes, Typed, DriverTyped, LinkTyped, engineerOnly
<1>2. Received(c, "DISCONNECT") => Contains(toDriver[c], "DISCONNECT")
  BY ContainsFacts DEF Received, Typed, LinkTyped
<1>3. handler[c] \in {"hello", "subscribe", "confirm", "loop"}
  BY DEF HandshakeFails, LoopEnds
<1>4. Talk(c)'
  BY <1>1, <1>3, SingletonFacts DEF Conn, Talk, Told
<1>5. handler[c] # "loop" => c \notin keeper.todo \cup keeper.stale
  BY <1>3 DEF Conn, Entry
<1>6. Healthy(c) => handler[c] # "loop"
  BY <1>2, <1>3 DEF Conn, Talk, Kept, Healthy, HandshakeFails, LoopEnds
<1>7. Entry(c)'
  BY <1>1, <1>3, <1>5 DEF Conn, Entry
<1>8. Kept(c)'
  BY <1>1, <1>3, <1>5, <1>6 DEF Conn, Talk, Kept, Healthy
<1>9. QED
  BY <1>4, <1>7, <1>8 DEF Conn

LEMMA DispatchKeeps ==
  ASSUME Typed, NEW c \in Conns, Conn(c), UNCHANGED engineerOnly, Dispatch(c)
  PROVE  Conn(c)'
<1> DEFINE q == toDriver[c]
<1>1. handler[c] = "loop" /\ q # <<>> /\ c \in open /\ q \in Seq(Message)
  BY DEF Dispatch, Typed, LinkTyped
<1>2. \A x : Contains(q, x) <=> Head(q) = x \/ Contains(Tail(q), x)
  BY <1>1, ContainsFacts
<1>3. engineer[c] \notin {"idle", "welcome"}
  BY <1>1 DEF Conn, Talk
<1>4. CASE Received(c, "PING") /\ Take(c) /\ Send({c}, "PONG")
           /\ UNCHANGED <<handler, registry, age, open, gone, keeper, stopping, updates>>
  <2>1. UNCHANGED <<engineer, silent>> /\ toDriver'[c] = Tail(q) /\ "PONG" \in Message
    BY <1>4 DEF engineerOnly, Take, Typed, LinkTyped, Message
  <2>2. /\ toEngineer[c] # <<>> =>
             toEngineer'[c] # <<>> /\ Head(toEngineer'[c]) = Head(toEngineer[c])
        /\ Contains(toEngineer[c], "PING") => Contains(toEngineer'[c], "PING")
    BY <1>4, <2>1, SendFacts
  <2>3. Head(q) = "PING"
    BY <1>4 DEF Received
  <2>4. Talk(c)'
    BY <1>1, <1>2, <1>3, <1>4, <2>1, <2>2 DEF Conn, Talk, Told
  <2>5. Entry(c)'
    BY <1>1, <1>4, <2>1 DEF Conn, Entry
  <2>6. Kept(c)'
    BY <1>1, <1>2, <1>4, <2>1, <2>2, <2>3 DEF Conn, Kept, Healthy, Answered
  <2>7. QED
    BY <2>4, <2>5, <2>6 DEF Conn
<1>5. CASE Received(c, "PONG") /\ Take(c) /\ age' = [age EXCEPT ![c] = 0]
           /\ UNCHANGED <<handler, registry, open, gone, toEngineer, keeper, stopping, updates>>
  <2>1. UNCHANGED <<engineer, silent>> /\ toDriver'[c] = Tail(q) /\ age'[c] = 0
    BY <1>5 DEF engineerOnly, Take, Typed, DriverTyped, LinkTyped
  <2>2. Talk(c)'
    BY <1>1, <1>2, <1>3, <1>5, <2>1 DEF Conn, Talk, Told
  <2>3. Entry(c)'
    BY <1>1, <1>5, <2>1 DEF Conn, Entry
  <2>4. Kept(c)'
    BY <1>1, <1>5, <2>1 DEF Conn, Kept, Healthy, Answered
  <2>5. QED
    BY <2>2, <2>3, <2>4 DEF Conn
<1>6. CASE Received(c, "DISCONNECT") /\ Finish(c)
  BY <1>1, <1>6, FinishKeeps
<1>7. QED
  BY <1>4, <1>5, <1>6 DEF Dispatch

LEMMA ReaderKeeps ==
  ASSUME Typed, NEW c \in Conns, Conn(c), Reader(c) PROVE Conn(c)'
<1> DEFINE q == toEngineer[c]
<1>1. /\ q \in Seq(Message) /\ toDriver[c] \in Seq(Message)
      /\ "PONG" \in Message /\ "SUBSCRIBE" \in Message
  BY DEF Typed, LinkTyped, Message
<1>2. UNCHANGED <<handler, registry, age, open, keeper, stopping, silent>>
  BY DEF Reader, TakeWelcome, TakeSubscribed, ConnectFails, TakeControl, Lost, Close,
         driverOnly, streamerVars, wires
<1>3. c \notin silent /\ engineer'[c] \in Engineers
      /\ engineer[c] \notin {"idle", "left"} /\ engineer'[c] \notin {"idle", "welcome"}
  BY DEF Reader, TakeWelcome, TakeSubscribed, ConnectFails, TakeControl, Lost, Close,
         Goes, Typed, LinkTyped, Engineers
<1>4. Entry(c)'
  BY <1>2, <1>3 DEF Conn, Entry
<1>5. handler[c] # "none"
  BY <1>3 DEF Conn, Talk
<1>6. CASE TakeWelcome(c)
  <2>1. /\ engineer[c] = "welcome" /\ engineer'[c] = "subscribed" /\ gone' = gone
        /\ Told(c, "WELCOME") /\ toEngineer'[c] = Tail(q)
        /\ toDriver'[c] \in {toDriver[c], Append(toDriver[c], "SUBSCRIBE")}
    BY <1>6 DEF TakeWelcome, Goes, Heard, Say, driverOnly, Typed, LinkTyped
  <2>2. handler[c] \in {"subscribe", "done"} /\ q = <<"WELCOME">>
    BY <2>1, SingletonFacts DEF Conn, Talk, Told
  <2>3. toEngineer'[c] = <<>>
    BY <2>1, <2>2, SingletonFacts
  <2>4. Contains(toDriver'[c], "DISCONNECT") => Contains(toDriver[c], "DISCONNECT")
    <3>1. Contains(Append(toDriver[c], "SUBSCRIBE"), "DISCONNECT")
            <=> Contains(toDriver[c], "DISCONNECT") \/ "SUBSCRIBE" = "DISCONNECT"
      BY <1>1, ContainsFacts
    <3>2. QED
      BY <2>1, <3>1
  <2>5. Talk(c)'
    BY <1>2, <2>1, <2>2, <2>3, <2>4 DEF Conn, Talk
  <2>6. Kept(c)'
    BY <1>2, <2>1, <2>2, <2>3 DEF Conn, Entry, Kept, Healthy
  <2>7. QED
    BY <1>4, <2>5, <2>6 DEF Conn
<1>7. CASE TakeSubscribed(c)
  <2>1. /\ engineer[c] = "subscribed" /\ engineer'[c] = "up" /\ gone' = gone
        /\ Told(c, "SUBSCRIBED") /\ toDriver' = toDriver
    BY <1>7 DEF TakeSubscribed, Goes, driverOnly, Typed, LinkTyped
  <2>2. handler[c] \in {"register", "loop", "done"} /\ q # <<>>
    BY <2>1 DEF Conn, Talk, Told
  <2>3. Talk(c)'
    BY <1>2, <1>5, <2>1 DEF Conn, Talk
  <2>4. Kept(c)'
    BY <1>2, <2>1, <2>2 DEF Conn, Kept, Healthy, Answered
  <2>5. QED
    BY <1>4, <2>3, <2>4 DEF Conn
<1>8. CASE ConnectFails(c)
  <2>1. /\ engineer[c] \in {"welcome", "subscribed"} /\ gone' = gone
        /\ UNCHANGED <<toDriver, toEngineer>>
        /\ q = <<>> => engineer'[c] = "failed"
        /\ q # <<>> =>
             Head(q) # (IF engineer[c] = "welcome" THEN "WELCOME" ELSE "SUBSCRIBED")
    BY <1>8 DEF ConnectFails, Goes, streamerVars, wires, Typed, LinkTyped
  <2>2. q = <<>>
    BY <2>1, SingletonFacts DEF Conn, Talk, Told
  <2>3. engineer'[c] = "failed"
    BY <2>1, <2>2
  <2>4. Talk(c)' /\ Kept(c)'
    BY <1>2, <1>3, <1>5, <2>1, <2>3 DEF Conn, Talk, Kept, Healthy
  <2>5. QED
    BY <1>4, <2>4 DEF Conn
<1>9. CASE TakeControl(c)
  <2>1. /\ engineer[c] \in {"up", "leaving"} /\ engineer'[c] \in {"joined", "ended", "up"}
        /\ engineer'[c] = "up" => engineer[c] = "up"
        /\ gone' = gone /\ q # <<>> /\ toEngineer'[c] = Tail(q)
        /\ \/ Head(q) # "PING" /\ toDriver' = toDriver
           \/ /\ Head(q) = "PING"
              /\ toDriver'[c] = IF c \in open THEN Append(toDriver[c], "PONG") ELSE toDriver[c]
    BY <1>9 DEF TakeControl, Goes, Heard, Say, Told, driverOnly, Typed, LinkTyped
  <2>2. /\ Contains(toDriver'[c], "DISCONNECT") => Contains(toDriver[c], "DISCONNECT")
        /\ Contains(toDriver[c], "PONG") => Contains(toDriver'[c], "PONG")
        /\ Head(q) = "PING" /\ c \in open => Contains(toDriver'[c], "PONG")
    BY <1>1, <2>1, ContainsFacts
  <2>3. Contains(q, "PING") => Head(q) = "PING" \/ Contains(Tail(q), "PING")
    BY <1>1, <2>1, ContainsFacts
  <2>4. Talk(c)'
    BY <1>2, <1>3, <1>5, <2>1, <2>2 DEF Conn, Talk
  <2>5. Kept(c)'
    BY <1>2, <2>1, <2>2, <2>3 DEF Conn, Talk, Kept, Healthy, Answered
  <2>6. QED
    BY <1>4, <2>4, <2>5 DEF Conn
<1>10. CASE Lost(c) \/ Close(c)
  <2>1. /\ engineer'[c] \in {"ended", "left"}
        /\ engineer'[c] = "left" \/ gone' = gone
    BY <1>10 DEF Lost, Close, Goes, streamerVars, wires, Typed, LinkTyped
  <2>2. Talk(c)' /\ Kept(c)'
    BY <1>2, <1>3, <1>5, <2>1 DEF Conn, Talk, Kept, Healthy
  <2>3. QED
    BY <1>4, <2>2 DEF Conn
<1>11. QED
  BY <1>6, <1>7, <1>8, <1>9, <1>10 DEF Reader

LEMMA LeavingKeeps ==
  ASSUME Typed, NEW c \in Conns, Conn(c), Leave(c) \/ FallSilent(c) PROVE Conn(c)'
<1>1. /\ UNCHANGED <<handler, registry, age, open, gone, keeper, stopping, toEngineer>>
      /\ engineer[c] \notin {"idle", "left"}
  BY DEF Leave, FallSilent, driverOnly, streamerVars, wires
<1>2. CASE Leave(c)
  <2>1. engineer'[c] \in {"leaving", "joined"} /\ engineer[c] \notin {"idle", "left"}
    BY <1>2 DEF Leave, Goes, Typed, LinkTyped
  <2>2. Talk(c)' /\ Entry(c)' /\ Kept(c)'
    BY <1>1, <2>1 DEF Conn, Talk, Entry, Kept, Healthy
  <2>3. QED
    BY <2>2 DEF Conn
<1>3. CASE FallSilent(c)
  <2>1. UNCHANGED <<engineer, toDriver>> /\ c \in silent'
    BY <1>3 DEF FallSilent, streamerVars, wires
  <2>2. Talk(c)' /\ Entry(c)' /\ Kept(c)'
    BY <1>1, <2>1 DEF Conn, Talk, Told, Entry, Kept, Healthy
  <2>3. QED
    BY <2>2 DEF Conn
<1>4. QED
  BY <1>2, <1>3

(* A healthy connection is at most one round old, less than the patience   *)
(* of the keep-alive thread, and its socket takes the PING.                *)
LEMMA HealthyPinged ==
  ASSUME Typed, NEW c \in Conns, Conn(c), PingOne(c), Healthy(c)
  PROVE  /\ keeper' = [keeper EXCEPT !.todo = @ \ {c}]
         /\ Send({c}, "PING") /\ c \notin gone
<1>1. c \in keeper.todo /\ handler[c] = "loop" /\ engineer[c] # "welcome"
  BY DEF PingOne, Conn, Entry, Kept
<1>2. c \in open /\ c \notin gone
  BY <1>1 DEF Conn, Kept, Talk, Healthy
<1>3. age[c] \in {0, 1}
  BY <1>1 DEF Conn, Kept, Healthy, Answered
<1>4. Overdue(c) = {FALSE}
  <2>1. ~(age[c] > Patience) /\ age[c] # Patience
    BY <1>3, StreamerAssumption
  <2>2. QED
    BY <2>1, Zenon DEF Overdue
<1>5. QED
  BY <1>2, <1>4 DEF PingOne

LEMMA KeeperKeeps ==
  ASSUME Typed, NEW c \in Conns, Conn(c), KeeperOf(c) PROVE Conn(c)'
<1>1. UNCHANGED <<handler, age, gone, toDriver, stopping, engineer, silent>>
  BY DEF KeeperOf, PingOne, Evict, engineerOnly, wires
<1>2. CASE PingOne(c)
  <2>1. PICK stale \in {keeper.stale, keeper.stale \cup {c}} :
          keeper' = [keeper EXCEPT !.todo = @ \ {c}, !.stale = stale]
    BY <1>2 DEF PingOne
  <2>2. /\ keeper'.pc = "round" /\ keeper'.todo = keeper.todo \ {c}
        /\ keeper'.stale = stale
    BY <1>2, <2>1 DEF PingOne, Typed, DriverTyped
  <2>3. UNCHANGED <<registry, open>> /\ c \in keeper.todo
    BY <1>2 DEF PingOne
  <2>4. toEngineer' = toEngineer \/ (Send({c}, "PING") /\ c \in open)
    BY <1>2 DEF PingOne
  <2>5. "PING" \in Message
    BY DEF Message
  <2>6. /\ handler[c] \in {"loop", "done"} /\ engineer[c] \notin {"idle", "welcome"}
        /\ handler[c] = "done" => toEngineer' = toEngineer
    BY <2>3, <2>4 DEF Conn, Entry, Talk
  <2>7. /\ toEngineer[c] # <<>> =>
             toEngineer'[c] # <<>> /\ Head(toEngineer'[c]) = Head(toEngineer[c])
        /\ Contains(toEngineer[c], "PING") => Contains(toEngineer'[c], "PING")
    BY <2>4, <2>5, SendFacts
  <2>8. Talk(c)'
    BY <1>1, <2>3, <2>6, <2>7 DEF Conn, Talk, Told
  <2>9. Entry(c)'
    BY <1>1, <2>2, <2>3, <2>6 DEF Conn, Entry
  <2>10. ASSUME Healthy(c)
         PROVE  c \notin keeper'.stale /\ Contains(toEngineer'[c], "PING")
    <3>1. /\ keeper' = [keeper EXCEPT !.todo = @ \ {c}]
          /\ Send({c}, "PING") /\ c \notin gone
      BY <1>2, <2>10, HealthyPinged
    <3>2. keeper'.stale = keeper.stale
      BY <3>1 DEF Typed, DriverTyped
    <3>3. toEngineer'[c] = Append(toEngineer[c], "PING")
      BY <2>5, <3>1, SendFacts
    <3>4. Contains(toEngineer'[c], "PING")
      <4>1. toEngineer[c] \in Seq(Message)
        BY DEF Typed, LinkTyped
      <4>2. Contains(Append(toEngineer[c], "PING"), "PING")
        BY <2>5, <4>1, ContainsFacts
      <4>3. QED
        BY <3>3, <4>2
    <3>5. QED
      BY <2>10, <3>2, <3>4 DEF Conn, Kept
  <2>11. Kept(c)'
    BY <1>1, <2>2, <2>3, <2>6, <2>10 DEF Conn, Kept, Healthy, Answered
  <2>12. QED
    BY <2>8, <2>9, <2>11 DEF Conn
<1>3. CASE Evict(c)
  <2>1. /\ c \in keeper.stale /\ keeper.pc = "round"
        /\ keeper'.pc = "round" /\ keeper'.todo = keeper.todo
        /\ keeper'.stale = keeper.stale \ {c}
        /\ c \notin registry' /\ toEngineer' = toEngineer
        /\ c \in open' => c \in open
        /\ c \in open /\ c \notin open' => c \in registry
    BY <1>3 DEF Evict, wires, Typed, DriverTyped
  <2>2. Talk(c)'
    BY <1>1, <2>1 DEF Conn, Talk, Told, Entry
  <2>3. Entry(c)'
    BY <1>1, <2>1 DEF Conn, Entry
  <2>4. Kept(c)'
    BY <1>1, <2>1 DEF Conn, Kept, Healthy
  <2>5. QED
    BY <2>2, <2>3, <2>4 DEF Conn
<1>4. QED
  BY <1>2, <1>3 DEF KeeperOf

(* Messages to all registered connections disturb no handshake.            *)
LEMMA BroadcastKeeps ==
  ASSUME Typed, NEW c \in Conns, Conn(c), NEW m \in Message, Broadcast(m),
         UNCHANGED <<handler, registry, age, open, gone, keeper, toDriver>>,
         UNCHANGED engineerOnly, stopping' # "no" \/ stopping' = stopping
  PROVE  Conn(c)'
<1>1. UNCHANGED <<engineer, silent>>
  BY DEF engineerOnly
<1>2. c \in registry => handler[c] = "loop"
  BY DEF Conn, Entry
<1>3. /\ c \notin registry => toEngineer'[c] = toEngineer[c]
      /\ toEngineer[c] # <<>> =>
           toEngineer'[c] # <<>> /\ Head(toEngineer'[c]) = Head(toEngineer[c])
      /\ Contains(toEngineer[c], "PING") => Contains(toEngineer'[c], "PING")
  BY SendFacts DEF Broadcast
<1>4. Talk(c)'
  BY <1>1, <1>2, <1>3 DEF Conn, Talk, Told
<1>5. Entry(c)' /\ Kept(c)'
  BY <1>1, <1>2, <1>3 DEF Conn, Entry, Kept, Healthy, Answered
<1>6. QED
  BY <1>4, <1>5 DEF Conn

LEMMA ApiKeeps ==
  ASSUME Typed, NEW c \in Conns, Conn(c), Stop \/ Call PROVE Conn(c)'
<1>1. UNCHANGED engineerOnly /\ UNCHANGED <<handler, age, gone, keeper, toDriver>>
  BY DEF Stop, Call, StopSay, StopClose, UpdateSession, StopSet, wires
<1>2. "SESSION_UPDATE" \in Message /\ "DISCONNECT" \in Message
  BY DEF Message
<1>3. CASE UpdateSession
  BY <1>1, <1>2, <1>3, BroadcastKeeps DEF UpdateSession
<1>4. CASE StopSay
  BY <1>1, <1>2, <1>4, BroadcastKeeps DEF StopSay
<1>5. CASE StopSet \/ StopClose
  <2>1. /\ stopping' # "no" /\ toEngineer' = toEngineer
        /\ c \in registry' => c \in registry
        /\ c \in open' => c \in open
        /\ c \in open /\ c \notin open' => c \in registry
    BY <1>5 DEF StopSet, StopClose, wires
  <2>2. UNCHANGED <<engineer, silent>>
    BY <1>1 DEF engineerOnly
  <2>3. Talk(c)' /\ Entry(c)' /\ Kept(c)'
    BY <1>1, <2>1, <2>2 DEF Conn, Talk, Told, Entry, Kept, Healthy
  <2>4. QED
    BY <2>3 DEF Conn
<1>6. QED
  BY <1>3, <1>4, <1>5 DEF Stop, Call

LEMMA RoundOverKeeps ==
  ASSUME Typed, NEW c \in Conns, Conn(c), RoundOver, UNCHANGED engineerOnly PROVE Conn(c)'
<1>1. /\ UNCHANGED <<handler, registry, age, open, gone, toDriver, toEngineer, stopping,
                     engineer, silent>>
      /\ keeper'.todo = {} /\ keeper'.stale = {} /\ keeper.todo = {} /\ keeper.stale = {}
  BY DEF RoundOver, wires, engineerOnly, Typed, DriverTyped
<1>2. Talk(c)' /\ Entry(c)' /\ Kept(c)'
  BY <1>1 DEF Conn, Talk, Told, Entry, Kept, Healthy, Answered
<1>3. QED
  BY <1>2 DEF Conn

(* When a round begins every healthy engineer has answered the last one.   *)
LEMMA HealthyTicked ==
  ASSUME Typed, NEW c \in Conns, Conn(c), Tick, Healthy(c)
  PROVE  /\ engineer[c] = "up" /\ handler[c] = "loop" /\ c \in registry /\ c \in open
         /\ age'[c] = 1 /\ toEngineer[c] = <<>>
<1>1. Prompt(c) /\ age' = Older
  BY DEF Tick, Wake, Healthy
<1>2. engineer[c] = "up" /\ toEngineer[c] = <<>> /\ c \in open
  BY <1>1 DEF Prompt, Healthy
<1>3. handler[c] = "loop" /\ toDriver[c] = <<>>
  BY <1>1, <1>2 DEF Prompt, InTime, Conn, Kept
<1>4. c \in registry /\ Answered(c)
  BY <1>2, <1>3 DEF Conn, Kept
<1>5. c \notin keeper.todo
  BY DEF Conn, Entry, Tick, Wake
<1>6. age[c] = 0
  BY <1>2, <1>3, <1>4, <1>5, SingletonFacts DEF Answered
<1>7. age'[c] = 1
  BY <1>1, <1>3, <1>6, StreamerAssumption DEF Older
<1>8. QED
  BY <1>2, <1>3, <1>4, <1>7

LEMMA TickKeeps ==
  ASSUME Typed, NEW c \in Conns, Conn(c), Tick PROVE Conn(c)'
<1>1. /\ UNCHANGED <<handler, registry, open, gone, toEngineer, stopping, engineer, silent>>
      /\ keeper.pc = "wait" /\ keeper'.pc = "round"
      /\ keeper'.todo = registry /\ keeper'.stale = {}
  BY DEF Tick, Wake, engineerOnly
<1>2. \/ toDriver'[c] = toDriver[c]
      \/ engineer[c] = "up" /\ toDriver'[c] = Append(toDriver[c], "PING")
  BY DEF Tick
<1>3. Contains(toDriver'[c], "DISCONNECT") => Contains(toDriver[c], "DISCONNECT")
  <2>1. toDriver[c] \in Seq(Message) /\ "PING" \in Message
    BY DEF Typed, LinkTyped, Message
  <2>2. Contains(Append(toDriver[c], "PING"), "DISCONNECT")
          <=> Contains(toDriver[c], "DISCONNECT") \/ "PING" = "DISCONNECT"
    BY <2>1, ContainsFacts
  <2>3. QED
    BY <1>2, <2>2
<1>4. age'[c] = Older[c] \/ age'[c] = age[c]
  BY DEF Tick, Wake
<1>5. handler[c] = "none" => age'[c] = age[c]
  BY <1>4 DEF Older
<1>6. Talk(c)'
  BY <1>1, <1>2, <1>3, <1>5 DEF Conn, Talk, Told
<1>7. Entry(c)'
  BY <1>1 DEF Conn, Entry, Talk
<1>8. Healthy(c) => /\ engineer[c] = "up" /\ handler[c] = "loop"
                   /\ c \in registry /\ c \in open /\ age'[c] = 1
  BY HealthyTicked
<1>9. Kept(c)'
  BY <1>1, <1>8 DEF Kept, Healthy, Answered
<1>10. QED
  BY <1>6, <1>7, <1>9 DEF Conn

LEMMA IInvInit == Init => IInv
<1> SUFFICES ASSUME Init PROVE IInv
  OBVIOUS
<1>1. <<>> \in Seq(Message)
  OBVIOUS
<1>2. DriverTyped
  BY StreamerAssumption DEF Init, StreamerInit, DriverTyped, Handlers
<1>3. LinkTyped
  BY <1>1 DEF Init, StreamerInit, LinkTyped, Engineers
<1>4. \A c \in Conns : Conn(c)
  BY SingletonFacts DEF Init, StreamerInit, Conn, Talk, Entry, Kept, Healthy
<1>5. QED
  BY <1>2, <1>3, <1>4 DEF IInv, Typed

LEMMA IInvStep == ASSUME IInv, [Next]_vars PROVE IInv'
<1>1. Typed /\ \A c \in Conns : Conn(c)
  BY DEF IInv
<1>2. Typed'
  BY <1>1, DriverTypes, LinkTypes DEF Typed
<1>3. ASSUME NEW d \in Conns, StepOf(d), NEW c \in Conns PROVE Conn(c)'
  <2>1. CASE c # d
    <3>1. Same(c)
      BY <1>1, <1>3, <2>1, OthersSame
    <3>2. QED
      BY <1>1, <3>1, SameKeeps
  <2>2. CASE c = d
    <3>1. CASE Driver(c)
      BY <1>1, <3>1, HandshakeKeeps, FinishKeeps, DispatchKeeps DEF Driver, HandshakeFails, LoopEnds
    <3>2. QED
      BY <1>1, <1>3, <2>2, <3>1, ConnectKeeps, ReaderKeeps, LeavingKeeps, KeeperKeeps DEF StepOf
  <2>3. QED
    BY <2>1, <2>2
<1>4. ASSUME NEW c \in Conns, Tick \/ Stop \/ Call \/ (RoundOver /\ UNCHANGED engineerOnly)
      PROVE  Conn(c)'
  BY <1>1, <1>4, TickKeeps, ApiKeeps, RoundOverKeeps
<1>5. CASE UNCHANGED vars
  <2>1. \A c \in Conns : Same(c)
    BY <1>5 DEF vars, streamerVars, wires, Same
  <2>2. \A c \in Conns : Conn(c)'
    BY <1>1, <2>1, SameKeeps
  <2>3. QED
    BY <1>2, <2>2 DEF IInv
<1>6. \/ \E d \in Conns : StepOf(d)
      \/ Tick \/ Stop \/ Call \/ (RoundOver /\ UNCHANGED engineerOnly)
      \/ UNCHANGED vars
  BY DEF Next, StepOf, Keeper, KeeperOf
<1>7. QED
  BY <1>2, <1>3, <1>4, <1>5, <1>6 DEF IInv

-----------------------------------------------------------------------------
(* No connect() meets a message it does not expect: until an engineer has  *)
(* its SUBSCRIBED, no thread of the driver but its own sends it anything.  *)
THEOREM NoHandshakeDisturbed == Spec => []HandshakeUndisturbed
<1>1. IInv => HandshakeUndisturbed
  BY DEF IInv, Conn, Talk, HandshakeUndisturbed
<1>2. QED
  BY IInvInit, IInvStep, <1>1, PTL DEF Spec

(* Whatever the thread of a connection, the keep-alive thread and stop()   *)
(* do at the same time, no entry of the registry outlives its thread.      *)
THEOREM RegistryHasThreads == Spec => []NoGhosts
<1>1. IInv => NoGhosts
  BY DEF IInv, Typed, DriverTyped, Conn, Entry, NoGhosts
<1>2. QED
  BY IInvInit, IInvStep, <1>1, PTL DEF Spec

(* The keep-alive thread gives up no engineer that answers, however long   *)
(* its patience, whatever the engineer's own PINGs and the order in which  *)
(* the threads run within a round.                                         *)
THEOREM HealthyNotEvicted == Spec => OnlySilentEvicted
<1>1. ASSUME IInv, NEW c \in keeper.stale \ keeper'.stale
      PROVE  \/ c \in silent \/ engineer[c] \in {"ended", "failed", "joined", "leaving", "left"}
             \/ stopping # "no"
  <2>1. c \in Conns /\ engineer[c] \in Engineers
    BY <1>1 DEF IInv, Typed, DriverTyped, LinkTyped
  <2>2. ~Healthy(c) /\ engineer[c] \notin {"idle", "welcome", "confused"}
    BY <1>1, <2>1 DEF IInv, Conn, Talk, Entry, Kept
  <2>3. QED
    BY <2>1, <2>2 DEF Healthy, Engineers
<1>2. IInv /\ [Next]_vars =>
        [ \A c \in keeper.stale \ keeper'.stale :
            \/ c \in silent \/ engineer[c] \in {"ended", "failed", "joined", "leaving", "left"}
            \/ stopping # "no" ]_vars
  BY <1>1
<1>3. QED
  BY IInvInit, IInvStep, <1>2, PTL DEF Spec, OnlySilentEvicted

-----------------------------------------------------------------------------
(* How much piles up for an engineer.                                      *)

(* The messages that may still make the driver answer: all but the         *)
(* DISCONNECT, which ends the thread.                                      *)
Asks(q) == Len(q) - (IF Contains(q, "DISCONNECT") THEN 1 ELSE 0)

(* What lies there for the engineer, and what may yet be answered.         *)
Mail(c) == Len(toEngineer[c]) + Asks(toDriver[c])

Pending(c) == IF c \in keeper.todo /\ age[c] <= Patience THEN 1 ELSE 0
Farewell == IF stopping \in {"said", "closed"} THEN 1 ELSE 0
Rounds(c) == IF age[c] > Patience THEN Patience ELSE age[c]

(* What there may be: a PING for each round since the last PONG, or, once  *)
(* stop() has been called and the last round has begun, for all of them.   *)
Room(c) ==
    IF stopping = "no" \/ keeper.pc = "wait"
    THEN updates + Rounds(c) + 1 - Pending(c) + Farewell
    ELSE updates + Patience + 2 - Pending(c) + Farewell

MaxMail == MaxUpdates + Patience + 3

Boxes(c) ==
    /\ handler[c] \in {"hello", "subscribe"} => Mail(c) <= 1
    /\ handler[c] = "confirm" => Mail(c) <= 0
    /\ handler[c] \in {"register", "loop"} => Mail(c) <= Room(c)
    /\ handler[c] = "done" => Mail(c) <= MaxMail
    /\ handler[c] \in {"none", "done"} => toDriver[c] = <<>>

(* An engineer that answers is at most one round old, also during stop().  *)
Young(c) ==
    /\ c \notin silent /\ engineer[c] \in {"welcome", "subscribed", "up", "leaving"} => age[c] <= 1
    /\ Contains(toDriver[c], "PONG") => age[c] <= 1
    /\ engineer[c] \in {"ended", "failed"} => ~Contains(toDriver[c], "DISCONNECT")
    /\ engineer[c] = "up" => handler[c] \in {"register", "loop", "done"}

MailInv == \A c \in Conns : Boxes(c) /\ Young(c)

LEMMA AsksFacts ==
  ASSUME NEW q \in Seq(Message)
  PROVE  /\ Len(q) \in Nat /\ Asks(q) \in Nat
         /\ \A m \in Message : /\ Asks(Append(q, m)) \in Nat
                               /\ Asks(Append(q, m)) <= Asks(q) + 1
         /\ ~Contains(q, "DISCONNECT") => Asks(Append(q, "DISCONNECT")) = Asks(q)
         /\ q # <<>> /\ Head(q) # "DISCONNECT" => Asks(Tail(q)) = Asks(q) - 1
<1> DEFINE D == "DISCONNECT"
<1>1. Len(q) \in Nat /\ D \in Message /\ (Contains(q, D) => Len(q) > 0)
  BY DEF Contains, Message
<1>2. Asks(q) \in Nat
  BY <1>1 DEF Asks
<1>3. ASSUME NEW m \in Message
      PROVE  /\ Len(Append(q, m)) = Len(q) + 1
             /\ Contains(Append(q, m), D) <=> Contains(q, D) \/ m = D
  BY AppendFacts, ContainsFacts
<1>4. ASSUME NEW m \in Message
      PROVE  Asks(Append(q, m)) \in Nat /\ Asks(Append(q, m)) <= Asks(q) + 1
  BY <1>1, <1>3 DEF Asks
<1>5. ~Contains(q, D) => Asks(Append(q, D)) = Asks(q)
  BY <1>1, <1>3 DEF Asks
<1>6. ASSUME q # <<>>, Head(q) # D PROVE Asks(Tail(q)) = Asks(q) - 1
  <2>1. Len(Tail(q)) = Len(q) - 1 /\ (Contains(q, D) <=> Contains(Tail(q), D))
    BY <1>6, TailFacts, ContainsFacts
  <2>2. Asks(Tail(q)) = (Len(q) - 1) - (IF Contains(q, D) THEN 1 ELSE 0)
    BY <2>1, Zenon DEF Asks
  <2>3. Asks(q) = Len(q) - (IF Contains(q, D) THEN 1 ELSE 0)
    BY DEF Asks
  <2> HIDE DEF D
  <2>4. QED
    BY <1>1, <2>2, <2>3
<1>7. QED
  BY <1>1, <1>2, <1>4, <1>5, <1>6

LEMMA AsksOne == Asks(<<>>) = 0 /\ Asks(<<"HELLO">>) = 1
<1>1. Len(<<>>) = 0 /\ Len(<<"HELLO">>) = 1
  OBVIOUS
<1>2. QED
  BY <1>1, SingletonFacts DEF Asks

LEMMA MailTypes ==
  ASSUME Typed, NEW c \in Conns
  PROVE  /\ toDriver[c] \in Seq(Message) /\ toEngineer[c] \in Seq(Message)
         /\ Len(toEngineer[c]) \in Nat /\ Asks(toDriver[c]) \in Nat /\ Mail(c) \in Nat
         /\ Len(toEngineer[c]) <= Mail(c)
         /\ Room(c) \in Int /\ Room(c) <= MaxMail /\ Patience \in Nat \ {0, 1}
         /\ c \notin keeper.todo => Room(c) >= 1
         /\ age[c] \in Nat /\ updates \in Nat /\ MaxUpdates \in Nat /\ updates <= MaxUpdates
<1>1. toDriver[c] \in Seq(Message) /\ toEngineer[c] \in Seq(Message)
  BY DEF Typed, LinkTyped
<1>2. Len(toEngineer[c]) \in Nat /\ Asks(toDriver[c]) \in Nat
  BY <1>1, AsksFacts
<1>3. /\ age[c] \in Nat /\ updates \in Nat /\ MaxUpdates \in Nat /\ updates <= MaxUpdates
      /\ Patience \in Nat \ {0, 1}
  BY StreamerAssumption DEF Typed, DriverTyped
<1>4. /\ Pending(c) \in {0, 1} /\ Farewell \in {0, 1} /\ Rounds(c) \in 0 .. Patience
      /\ c \notin keeper.todo => Pending(c) = 0
  BY <1>3 DEF Pending, Farewell, Rounds
<1>5. Room(c) \in Int /\ Room(c) <= MaxMail /\ (c \notin keeper.todo => Room(c) >= 1)
  BY <1>3, <1>4 DEF Room, MaxMail
<1>6. QED
  BY <1>1, <1>2, <1>3, <1>5 DEF Mail

(* Room depends on nothing else.                                           *)
LEMMA SameRoom ==
  ASSUME NEW c, UNCHANGED <<stopping, updates>>, keeper'.pc = keeper.pc,
         age'[c] = age[c], c \in keeper'.todo <=> c \in keeper.todo
  PROVE  Room(c)' = Room(c)
BY DEF Room, Rounds, Pending, Farewell

LEMMA SameBoxes ==
  ASSUME NEW c, Boxes(c), Young(c), Same(c), updates' = updates
  PROVE  Boxes(c)' /\ Young(c)'
<1>1. Room(c)' = Room(c)
  BY SameRoom DEF Same
<1>2. Mail(c)' = Mail(c)
  BY DEF Same, Mail
<1>3. Boxes(c)'
  BY <1>1, <1>2 DEF Same, Boxes, MaxMail
<1>4. Young(c)'
  BY DEF Same, Young
<1>5. QED
  BY <1>3, <1>4

LEMMA ConnectBoxes ==
  ASSUME Typed, NEW c \in Conns, Conn(c), Boxes(c), Young(c), Connect(c)
  PROVE  Boxes(c)' /\ Young(c)'
<1>1. /\ handler'[c] = "hello" /\ engineer'[c] = "welcome" /\ toEngineer'[c] = <<>>
      /\ toDriver'[c] = <<"HELLO">> /\ age'[c] = 0
  BY DEF Connect, Accept, Becomes, Goes, Typed, DriverTyped, LinkTyped, Conn, Talk
<1>2. Mail(c)' = 0 + 1
  <2>1. Mail(c)' = Len(<<>>) + Asks(<<"HELLO">>)
    BY <1>1, Zenon DEF Mail
  <2>2. Len(<<>>) = 0
    OBVIOUS
  <2>3. QED
    BY <2>1, <2>2, AsksOne, Zenon
<1>3. Boxes(c)'
  BY <1>1, <1>2 DEF Boxes
<1>4. Young(c)'
  BY <1>1, SingletonFacts DEF Young
<1>5. QED
  BY <1>3, <1>4

(* A message that is sent adds at most one.                                *)
LEMMA SendAdds ==
  ASSUME Typed, NEW cs, NEW m \in Message, Send(cs, m), NEW c \in Conns
  PROVE  /\ Len(toEngineer'[c]) \in Nat
         /\ Len(toEngineer'[c]) <= Len(toEngineer[c]) + 1
         /\ c \notin cs => toEngineer'[c] = toEngineer[c]
<1>1. toEngineer[c] \in Seq(Message) /\ Len(toEngineer[c]) \in Nat
  BY MailTypes
<1>2. Len(Append(toEngineer[c], m)) = Len(toEngineer[c]) + 1
  BY <1>1, AppendFacts
<1>3. toEngineer'[c] \in {toEngineer[c], Append(toEngineer[c], m)}
      /\ (c \notin cs => toEngineer'[c] = toEngineer[c])
  BY SendFacts
<1>4. QED
  BY <1>1, <1>2, <1>3

(* Taking a message off takes an answer off, and what is said no longer.   *)
LEMMA TakeTakes ==
  ASSUME Typed, NEW c \in Conns, toDriver[c] # <<>>, Head(toDriver[c]) # "DISCONNECT", Take(c)
  PROVE  /\ Asks(toDriver'[c]) = Asks(toDriver[c]) - 1
         /\ \A x : Contains(toDriver'[c], x) => Contains(toDriver[c], x)
<1>1. toDriver'[c] = Tail(toDriver[c]) /\ toDriver[c] \in Seq(Message)
  BY DEF Take, Typed, LinkTyped
<1>2. Asks(Tail(toDriver[c])) = Asks(toDriver[c]) - 1
  BY <1>1, AsksFacts
<1>3. \A x : Contains(Tail(toDriver[c]), x) => Contains(toDriver[c], x)
  BY <1>1, ContainsFacts
<1>4. QED
  BY <1>1, <1>2, <1>3

LEMMA HandshakeBoxes ==
  ASSUME Typed, NEW c \in Conns, Conn(c), Boxes(c), Young(c), UNCHANGED engineerOnly,
         Greet(c) \/ TakeSubscribe(c) \/ Confirm(c) \/ Register(c)
  PROVE  Boxes(c)' /\ Young(c)'
<1>1. UNCHANGED <<engineer, silent, age, keeper, stopping, updates>>
  BY DEF Greet, TakeSubscribe, Confirm, Register, wires, engineerOnly
<1>2. Room(c)' = Room(c)
  BY <1>1, SameRoom
<1>3. /\ Len(toEngineer[c]) \in Nat /\ Asks(toDriver[c]) \in Nat
      /\ Mail(c) = Len(toEngineer[c]) + Asks(toDriver[c])
      /\ Room(c) \in Int /\ (c \notin keeper.todo => Room(c) >= 1)
  BY MailTypes DEF Mail
<1>4. CASE Greet(c)
  <2>1. /\ handler[c] = "hello" /\ handler'[c] = "subscribe"
        /\ toDriver[c] # <<>> /\ Head(toDriver[c]) = "HELLO" /\ Take(c)
        /\ Send({c}, "WELCOME") /\ "WELCOME" \in Message
    BY <1>4 DEF Greet, Received, Becomes, Typed, DriverTyped, Message
  <2>2. /\ Len(toEngineer'[c]) \in Nat /\ Len(toEngineer'[c]) <= Len(toEngineer[c]) + 1
        /\ Asks(toDriver'[c]) = Asks(toDriver[c]) - 1
        /\ \A x : Contains(toDriver'[c], x) => Contains(toDriver[c], x)
    BY <2>1, SendAdds, TakeTakes
  <2>3. Mail(c)' <= 1
    BY <1>3, <2>1, <2>2 DEF Boxes, Mail
  <2>4. QED
    BY <1>1, <2>1, <2>2, <2>3 DEF Boxes, Young
<1>5. CASE TakeSubscribe(c)
  <2>1. /\ handler[c] = "subscribe" /\ handler'[c] = "confirm" /\ toEngineer' = toEngineer
        /\ toDriver[c] # <<>> /\ Head(toDriver[c]) = "SUBSCRIBE" /\ Take(c)
    BY <1>5 DEF TakeSubscribe, Received, Becomes, Typed, DriverTyped
  <2>2. /\ Asks(toDriver'[c]) = Asks(toDriver[c]) - 1
        /\ \A x : Contains(toDriver'[c], x) => Contains(toDriver[c], x)
    BY <2>1, TakeTakes
  <2>3. Mail(c)' <= 0
    BY <1>3, <2>1, <2>2 DEF Boxes, Mail
  <2>4. QED
    BY <1>1, <2>1, <2>2, <2>3 DEF Boxes, Young
<1>6. CASE Confirm(c)
  <2>1. /\ handler[c] = "confirm" /\ handler'[c] = "register" /\ toDriver' = toDriver
        /\ Send({c}, "SUBSCRIBED") /\ "SUBSCRIBED" \in Message
    BY <1>6 DEF Confirm, Becomes, Typed, DriverTyped, Message
  <2>2. Len(toEngineer'[c]) \in Nat /\ Len(toEngineer'[c]) <= Len(toEngineer[c]) + 1
    BY <2>1, SendAdds
  <2>3. c \notin keeper.todo
    BY <2>1 DEF Conn, Entry
  <2>4. Mail(c)' <= Room(c)
    BY <1>3, <2>1, <2>2, <2>3 DEF Boxes, Mail
  <2>5. QED
    BY <1>1, <1>2, <2>1, <2>4 DEF Boxes, Young
<1>7. CASE Register(c)
  <2>1. /\ handler[c] = "register" /\ handler'[c] = "loop"
        /\ toDriver' = toDriver /\ toEngineer' = toEngineer
    BY <1>7 DEF Register, Becomes, Typed, DriverTyped, wires
  <2>2. Mail(c)' = Mail(c)
    BY <2>1 DEF Mail
  <2>3. QED
    BY <1>1, <1>2, <2>1, <2>2 DEF Boxes, Young
<1>8. QED
  BY <1>4, <1>5, <1>6, <1>7

LEMMA FinishBoxes ==
  ASSUME Typed, NEW c \in Conns, Boxes(c), Young(c), UNCHANGED engineerOnly, Finish(c),
         handler[c] \in {"hello", "subscribe", "confirm", "loop"}
  PROVE  Boxes(c)' /\ Young(c)'
<1>1. /\ UNCHANGED <<engineer, silent, toEngineer>>
      /\ handler'[c] = "done" /\ toDriver'[c] = <<>> /\ age'[c] = 0
  BY DEF Finish, Becomes, Typed, DriverTyped, LinkTyped, engineerOnly
<1>2. /\ Len(toEngineer[c]) \in Nat /\ Len(toEngineer[c]) <= Mail(c) /\ Mail(c) \in Nat
      /\ Room(c) \in Int /\ Room(c) <= MaxMail /\ 1 <= MaxMail /\ MaxMail \in Nat
  BY MailTypes DEF MaxMail
<1>3. Mail(c) <= MaxMail
  BY <1>2 DEF Boxes
<1>4. Mail(c)' = Len(toEngineer[c]) + 0
  BY <1>1, AsksOne, Zenon DEF Mail
<1>5. Mail(c)' <= MaxMail /\ MaxMail' = MaxMail
  BY <1>2, <1>3, <1>4 DEF MaxMail
<1>6. Boxes(c)'
  BY <1>1, <1>5 DEF Boxes
<1>7. (\A x : ~Contains(toDriver'[c], x)) /\ age'[c] <= 1
  <2>1. \A x : ~Contains(<<>>, x)
    BY SingletonFacts, Zenon
  <2>2. \A x : ~Contains(toDriver'[c], x)
    BY <1>1, <2>1, Zenon
  <2>3. QED
    BY <1>1, <2>2
<1>8. Young(c)'
  BY <1>1, <1>7 DEF Young
<1>9. QED
  BY <1>6, <1>8

LEMMA DispatchBoxes ==
  ASSUME Typed, NEW c \in Conns, Conn(c), Boxes(c), Young(c), UNCHANGED engineerOnly, Dispatch(c)
  PROVE  Boxes(c)' /\ Young(c)'
<1>1. handler[c] = "loop" /\ toDriver[c] # <<>>
  BY DEF Dispatch
<1>2. /\ Len(toEngineer[c]) \in Nat /\ Asks(toDriver[c]) \in Nat /\ Room(c) \in Int
      /\ Mail(c) = Len(toEngineer[c]) + Asks(toDriver[c]) /\ Mail(c) <= Room(c)
      /\ toDriver[c] \in Seq(Message) /\ Patience \in Nat \ {0, 1} /\ updates \in Nat
      /\ age[c] \in Nat
  BY <1>1, MailTypes DEF Mail, Boxes
<1>3. CASE Received(c, "PING") /\ Take(c) /\ Send({c}, "PONG")
           /\ UNCHANGED <<handler, registry, age, open, gone, keeper, stopping, updates>>
  <2>1. "PONG" \in Message /\ Head(toDriver[c]) = "PING" /\ UNCHANGED <<engineer, silent>>
    BY <1>3 DEF Message, Received, engineerOnly
  <2>2. /\ Len(toEngineer'[c]) \in Nat /\ Len(toEngineer'[c]) <= Len(toEngineer[c]) + 1
        /\ Asks(toDriver'[c]) = Asks(toDriver[c]) - 1
        /\ \A x : Contains(toDriver'[c], x) => Contains(toDriver[c], x)
    BY <1>1, <1>3, <2>1, SendAdds, TakeTakes
  <2>3. Room(c)' = Room(c)
    BY <1>3, SameRoom
  <2>4. Mail(c)' <= Room(c)
    BY <1>2, <2>2 DEF Mail
  <2>5. QED
    BY <1>1, <1>3, <2>1, <2>2, <2>3, <2>4 DEF Boxes, Young
<1>4. CASE Received(c, "PONG") /\ Take(c) /\ age' = [age EXCEPT ![c] = 0]
           /\ UNCHANGED <<handler, registry, open, gone, toEngineer, keeper, stopping, updates>>
  <2>1. Head(toDriver[c]) = "PONG" /\ age'[c] = 0 /\ UNCHANGED <<engineer, silent>>
    BY <1>4 DEF Received, engineerOnly, Typed, DriverTyped
  <2>2. /\ Asks(toDriver'[c]) = Asks(toDriver[c]) - 1
        /\ \A x : Contains(toDriver'[c], x) => Contains(toDriver[c], x)
    BY <1>1, <1>4, <2>1, TakeTakes
  <2>3. age[c] <= 1
    BY <1>1, <1>2, <2>1, ContainsFacts DEF Young
  <2>4. Pending(c)' = Pending(c) /\ Farewell' = Farewell /\ Pending(c) \in {0, 1}
    BY <1>2, <1>4, <2>1, <2>3 DEF Pending, Farewell
  <2>5. Rounds(c)' = 0 /\ Rounds(c) = age[c] /\ Farewell \in {0, 1}
    BY <1>2, <2>1, <2>3 DEF Rounds, Farewell
  <2>6. Room(c) <= Room(c)' + 1 /\ Room(c)' \in Int
    BY <1>2, <1>4, <2>3, <2>4, <2>5 DEF Room
  <2>7. Mail(c)' = Mail(c) - 1
    BY <1>2, <1>4, <2>2 DEF Mail
  <2>8. Mail(c)' <= Room(c)'
    BY <1>2, <2>6, <2>7
  <2>9. QED
    BY <1>1, <1>4, <2>1, <2>2, <2>8 DEF Boxes, Young
<1>5. CASE Received(c, "DISCONNECT") /\ Finish(c)
  BY <1>1, <1>5, FinishBoxes
<1>6. QED
  BY <1>3, <1>4, <1>5 DEF Dispatch

(* What the engineer reads it answers at most once.                        *)
LEMMA HeardTakes ==
  ASSUME Typed, NEW c \in Conns, toEngineer[c] # <<>>, Heard(c)
  PROVE  toEngineer'[c] = Tail(toEngineer[c]) /\ Len(toEngineer'[c]) = Len(toEngineer[c]) - 1
<1>1. toEngineer[c] \in Seq(Message) /\ toEngineer'[c] = Tail(toEngineer[c])
  BY DEF Heard, Typed, LinkTyped
<1>2. Len(Tail(toEngineer[c])) = Len(toEngineer[c]) - 1
  BY <1>1, TailFacts
<1>3. QED
  BY <1>1, <1>2

(* What is said reaches only a socket that is open; after its thread has   *)
(* ended there is none.                                                    *)
LEMMA SayAdds ==
  ASSUME Typed, NEW c \in Conns, Conn(c), NEW m \in Message, Say(c, m)
  PROVE  /\ Asks(toDriver'[c]) \in Nat
         /\ Asks(toDriver'[c]) <= Asks(toDriver[c]) + 1
         /\ m = "DISCONNECT" /\ ~Contains(toDriver[c], "DISCONNECT") =>
              Asks(toDriver'[c]) = Asks(toDriver[c])
         /\ handler[c] = "done" => toDriver'[c] = toDriver[c]
         /\ \A x : Contains(toDriver'[c], x) => Contains(toDriver[c], x) \/ x = m
<1> DEFINE q == toDriver[c]
<1>1. q \in Seq(Message) /\ Asks(q) \in Nat
  BY MailTypes
<1>2. /\ toDriver'[c] \in {q, Append(q, m)}
      /\ c \notin open => toDriver'[c] = q
  BY DEF Say, Typed, LinkTyped
<1>3. handler[c] = "done" => c \notin open
  BY DEF Conn, Talk
<1>4. /\ Asks(Append(q, m)) \in Nat /\ Asks(Append(q, m)) <= Asks(q) + 1
      /\ ~Contains(q, "DISCONNECT") => Asks(Append(q, "DISCONNECT")) = Asks(q)
  BY <1>1, AsksFacts
<1>5. \A x : Contains(Append(q, m), x) => Contains(q, x) \/ x = m
  BY <1>1, ContainsFacts
<1> HIDE DEF q
<1>6. Asks(toDriver'[c]) \in Nat /\ Asks(toDriver'[c]) <= Asks(q) + 1
  <2>1. Asks(q) \in Nat /\ Asks(q) <= Asks(q) + 1
    BY <1>1
  <2>2. QED
    BY <1>2, <1>4, <2>1, Zenon
<1>7. m = "DISCONNECT" /\ ~Contains(q, "DISCONNECT") => Asks(toDriver'[c]) = Asks(q)
  BY <1>2, <1>4, Zenon
<1>8. \A x : Contains(toDriver'[c], x) => Contains(q, x) \/ x = m
  BY <1>2, <1>5, Zenon
<1>9. QED
  BY <1>2, <1>3, <1>6, <1>7, <1>8 DEF q

(* A step of the engineer alone that leaves no more to be read.            *)
LEMMA NoMoreMail ==
  ASSUME Typed, NEW c \in Conns, Boxes(c),
         UNCHANGED <<handler, age, keeper, stopping, updates>>,
         Mail(c)' \in Int, Mail(c)' <= Mail(c),
         handler[c] \in {"none", "done"} => toDriver'[c] = toDriver[c]
  PROVE  Boxes(c)'
<1>1. Room(c)' = Room(c) /\ MaxMail' = MaxMail
  BY SameRoom DEF MaxMail
<1>2. Room(c) \in Int /\ MaxMail \in Int /\ Mail(c) \in Int
  BY MailTypes DEF MaxMail
<1> DEFINE new == Mail(c)'
           old == Mail(c)
           room == Room(c)
<1>3. new \in Int /\ old \in Int /\ room \in Int /\ new <= old
  BY <1>2
<1>4. /\ handler[c] \in {"hello", "subscribe"} => old <= 1
      /\ handler[c] = "confirm" => old <= 0
      /\ handler[c] \in {"register", "loop"} => old <= room
      /\ handler[c] = "done" => old <= MaxMail
      /\ handler[c] \in {"none", "done"} => toDriver[c] = <<>>
  BY DEF Boxes
<1> HIDE DEF new, old, room
<1>5. /\ handler[c] \in {"hello", "subscribe"} => new <= 1
      /\ handler[c] = "confirm" => new <= 0
      /\ handler[c] \in {"register", "loop"} => new <= room
      /\ handler[c] = "done" => new <= MaxMail
      /\ handler[c] \in {"none", "done"} => toDriver'[c] = <<>>
  BY <1>2, <1>3, <1>4
<1>6. QED
  BY <1>1, <1>5 DEF Boxes, new, room

LEMMA ReaderBoxes ==
  ASSUME Typed, NEW c \in Conns, Conn(c), Boxes(c), Young(c), Reader(c)
  PROVE  Boxes(c)' /\ Young(c)'
<1>1. UNCHANGED <<handler, age, keeper, stopping, updates, silent>>
  BY DEF Reader, TakeWelcome, TakeSubscribed, ConnectFails, TakeControl, Lost, Close,
         driverOnly, streamerVars, wires
<1>2. /\ Len(toEngineer[c]) \in Nat /\ Asks(toDriver[c]) \in Nat /\ Mail(c) \in Nat
      /\ Mail(c) = Len(toEngineer[c]) + Asks(toDriver[c])
      /\ "SUBSCRIBE" \in Message /\ "PONG" \in Message
  BY MailTypes DEF Mail, Message
<1>3. c \notin silent /\ engineer'[c] \in Engineers /\ engineer[c] \in Engineers
  BY DEF Reader, TakeWelcome, TakeSubscribed, ConnectFails, TakeControl, Lost, Close,
         Goes, Typed, LinkTyped, Engineers
<1>4. CASE TakeWelcome(c)
  <2>1. /\ engineer[c] = "welcome" /\ engineer'[c] = "subscribed"
        /\ toEngineer[c] # <<>> /\ Heard(c) /\ Say(c, "SUBSCRIBE")
    BY <1>4 DEF TakeWelcome, Told, Goes, Typed, LinkTyped
  <2>2. Len(toEngineer'[c]) = Len(toEngineer[c]) - 1
    BY <2>1, HeardTakes
  <2>3. /\ Asks(toDriver'[c]) \in Nat /\ Asks(toDriver'[c]) <= Asks(toDriver[c]) + 1
        /\ handler[c] = "done" => toDriver'[c] = toDriver[c]
        /\ \A x : Contains(toDriver'[c], x) => Contains(toDriver[c], x) \/ x = "SUBSCRIBE"
    BY <1>2, <2>1, SayAdds
  <2>4. Mail(c)' \in Int /\ Mail(c)' <= Mail(c)
    BY <1>2, <2>2, <2>3 DEF Mail
  <2>5. handler[c] # "none"
    BY <2>1 DEF Conn, Talk
  <2>6. Boxes(c)'
    BY <1>1, <2>3, <2>4, <2>5, NoMoreMail
  <2>7. Young(c)'
    BY <1>1, <1>3, <2>1, <2>3 DEF Young
  <2>8. QED
    BY <2>6, <2>7
<1>5. CASE TakeSubscribed(c)
  <2>1. /\ engineer[c] = "subscribed" /\ engineer'[c] = "up"
        /\ toEngineer[c] # <<>> /\ Heard(c) /\ toDriver' = toDriver
    BY <1>5 DEF TakeSubscribed, Told, Goes, driverOnly, Typed, LinkTyped
  <2>2. Len(toEngineer'[c]) = Len(toEngineer[c]) - 1
    BY <2>1, HeardTakes
  <2>3. Mail(c)' \in Int /\ Mail(c)' <= Mail(c)
    BY <1>2, <2>1, <2>2 DEF Mail
  <2>4. Boxes(c)'
    BY <1>1, <2>1, <2>3, NoMoreMail
  <2>5. handler[c] \in {"register", "loop", "done"}
    BY <2>1 DEF Conn, Talk
  <2>6. Young(c)'
    BY <1>1, <1>3, <2>1, <2>5 DEF Young
  <2>7. QED
    BY <2>4, <2>6
<1>6. CASE TakeControl(c)
  <2>1. /\ engineer[c] \in {"up", "leaving"} /\ engineer'[c] \in {"joined", "ended", "up"}
        /\ engineer'[c] \in {"up", "ended"} => engineer[c] = "up"
        /\ toEngineer[c] # <<>> /\ Heard(c)
        /\ toDriver' = toDriver \/ Say(c, "PONG")
    BY <1>6 DEF TakeControl, Told, Goes, driverOnly, Typed, LinkTyped
  <2>2. Len(toEngineer'[c]) = Len(toEngineer[c]) - 1
    BY <2>1, HeardTakes
  <2>3. /\ Asks(toDriver'[c]) \in Nat /\ Asks(toDriver'[c]) <= Asks(toDriver[c]) + 1
        /\ handler[c] = "done" => toDriver'[c] = toDriver[c]
        /\ \A x : Contains(toDriver'[c], x) => Contains(toDriver[c], x) \/ x = "PONG"
    <3>1. CASE toDriver' = toDriver
      BY <1>2, <3>1
    <3>2. CASE Say(c, "PONG")
      BY <1>2, <3>2, SayAdds
    <3>3. QED
      BY <2>1, <3>1, <3>2
  <2>4. Mail(c)' \in Int /\ Mail(c)' <= Mail(c)
    BY <1>2, <2>2, <2>3 DEF Mail
  <2>5. handler[c] # "none"
    BY <2>1 DEF Conn, Talk
  <2>6. Boxes(c)'
    BY <1>1, <2>3, <2>4, <2>5, NoMoreMail
  <2>7. age[c] <= 1
    BY <1>3, <2>1 DEF Young
  <2>8. engineer[c] = "up" => ~Contains(toDriver[c], "DISCONNECT")
    BY DEF Conn, Talk
  <2>9. Young(c)'
    BY <1>1, <2>1, <2>3, <2>7, <2>8 DEF Young
  <2>10. QED
    BY <2>6, <2>9
<1>7. CASE ConnectFails(c) \/ Lost(c)
  <2>1. /\ UNCHANGED <<toDriver, toEngineer>>
        /\ engineer[c] \in {"welcome", "subscribed", "up"}
        /\ engineer'[c] \in {"failed", "confused", "ended"}
    BY <1>7 DEF ConnectFails, Lost, Goes, streamerVars, wires, Typed, LinkTyped
  <2>2. Mail(c)' = Mail(c)
    BY <2>1 DEF Mail
  <2>3. Boxes(c)'
    BY <1>1, <1>2, <2>1, <2>2, NoMoreMail
  <2>4. ~Contains(toDriver[c], "DISCONNECT")
    BY <2>1 DEF Conn, Talk
  <2>5. Young(c)'
    BY <1>1, <2>1, <2>4 DEF Young
  <2>6. QED
    BY <2>3, <2>5
<1>8. CASE Close(c)
  <2>1. engineer'[c] = "left" /\ toDriver' = toDriver /\ toEngineer'[c] = <<>>
    BY <1>8 DEF Close, Goes, Typed, LinkTyped
  <2>2. Mail(c)' = Len(<<>>) + Asks(toDriver[c])
    BY <2>1, Zenon DEF Mail
  <2>3. Mail(c)' \in Int /\ Mail(c)' <= Mail(c)
    <3>1. Len(<<>>) = 0
      OBVIOUS
    <3>2. QED
      BY <1>2, <2>2, <3>1
  <2>4. Boxes(c)'
    BY <1>1, <2>1, <2>3, NoMoreMail
  <2>5. Young(c)'
    BY <1>1, <2>1 DEF Young
  <2>6. QED
    BY <2>4, <2>5
<1>9. QED
  BY <1>4, <1>5, <1>6, <1>7, <1>8 DEF Reader

LEMMA LeavingBoxes ==
  ASSUME Typed, NEW c \in Conns, Conn(c), Boxes(c), Young(c), Leave(c) \/ FallSilent(c)
  PROVE  Boxes(c)' /\ Young(c)'
<1>1. /\ UNCHANGED <<handler, age, keeper, stopping, updates, toEngineer>>
      /\ Mail(c) \in Nat /\ Len(toEngineer[c]) \in Nat /\ Asks(toDriver[c]) \in Nat
      /\ "DISCONNECT" \in Message
  BY MailTypes DEF Leave, FallSilent, driverOnly, streamerVars, wires, Message
<1>2. CASE Leave(c)
  <2>1. /\ engineer[c] \in {"up", "ended", "failed", "confused"}
        /\ engineer'[c] = (IF engineer[c] = "up" THEN "leaving" ELSE "joined")
        /\ silent' = silent /\ Say(c, "DISCONNECT")
    BY <1>2 DEF Leave, Goes, Typed, LinkTyped
  <2>2. ~Contains(toDriver[c], "DISCONNECT") /\ handler[c] # "none"
    BY <2>1 DEF Conn, Talk, Young
  <2>3. /\ Asks(toDriver'[c]) = Asks(toDriver[c])
        /\ handler[c] = "done" => toDriver'[c] = toDriver[c]
        /\ \A x : Contains(toDriver'[c], x) => Contains(toDriver[c], x) \/ x = "DISCONNECT"
    BY <1>1, <2>1, <2>2, SayAdds
  <2>4. Mail(c)' = Mail(c)
    BY <1>1, <2>3 DEF Mail
  <2>5. Boxes(c)'
    BY <1>1, <2>2, <2>3, <2>4, NoMoreMail
  <2>6. Young(c)'
    BY <1>1, <2>1, <2>3 DEF Young
  <2>7. QED
    BY <2>5, <2>6
<1>3. CASE FallSilent(c)
  <2>1. UNCHANGED <<engineer, toDriver>> /\ c \in silent'
    BY <1>3 DEF FallSilent, streamerVars, wires
  <2>2. Mail(c)' = Mail(c)
    BY <1>1, <2>1 DEF Mail
  <2>3. Boxes(c)'
    BY <1>1, <2>1, <2>2, NoMoreMail
  <2>4. Young(c)'
    BY <1>1, <2>1 DEF Young
  <2>5. QED
    BY <2>3, <2>4
<1>4. QED
  BY <1>2, <1>3

(* A step of another thread that leaves the handshakes alone.              *)
LEMMA BoxesKept ==
  ASSUME Typed, NEW c \in Conns, Boxes(c), handler' = handler,
         handler[c] \notin {"register", "loop"} =>
           toDriver'[c] = toDriver[c] /\ toEngineer'[c] = toEngineer[c],
         handler[c] \in {"register", "loop"} => Mail(c)' <= Room(c)'
  PROVE  Boxes(c)'
<1>1. handler[c] \notin {"register", "loop"} => Mail(c)' = Mail(c)
  BY DEF Mail
<1>2. MaxMail' = MaxMail
  BY DEF MaxMail
<1>3. QED
  BY <1>1, <1>2 DEF Boxes

(* What of a connection decides how much may lie there, by its name.       *)
LEMMA RoomParts ==
  ASSUME Typed, NEW c \in Conns
  PROVE  /\ Pending(c) \in {0, 1} /\ Farewell \in {0, 1} /\ Rounds(c) \in 0 .. Patience
         /\ Patience \in Nat \ {0, 1} /\ updates \in Nat /\ MaxUpdates \in Nat
         /\ age[c] <= 1 => Rounds(c) <= 1
         /\ c \notin keeper.todo => Pending(c) = 0
<1>1. age[c] \in Nat /\ updates \in Nat /\ MaxUpdates \in Nat /\ Patience \in Nat \ {0, 1}
  BY MailTypes
<1>2. QED
  BY <1>1 DEF Pending, Farewell, Rounds

LEMMA KeeperBoxes ==
  ASSUME Typed, NEW c \in Conns, Conn(c), Boxes(c), Young(c), KeeperOf(c)
  PROVE  Boxes(c)' /\ Young(c)'
<1>1. UNCHANGED <<handler, age, toDriver, stopping, updates, engineer, silent>>
  BY DEF KeeperOf, PingOne, Evict, engineerOnly, wires
<1>2. Young(c)'
  BY <1>1 DEF Young
<1>3. /\ Len(toEngineer[c]) \in Nat /\ Asks(toDriver[c]) \in Nat /\ Room(c) \in Int
      /\ Mail(c) = Len(toEngineer[c]) + Asks(toDriver[c])
  BY MailTypes DEF Mail
<1>4. CASE PingOne(c)
  <2>1. PICK stale \in {keeper.stale, keeper.stale \cup {c}} :
          keeper' = [keeper EXCEPT !.todo = @ \ {c}, !.stale = stale]
    BY <1>4 DEF PingOne
  <2>2. /\ keeper.pc = "round" /\ keeper'.pc = "round" /\ keeper'.todo = keeper.todo \ {c}
        /\ c \in keeper.todo
    BY <1>4, <2>1 DEF PingOne, Typed, DriverTyped
  <2>3. /\ toEngineer' = toEngineer \/ (Send({c}, "PING") /\ c \in open)
        /\ age[c] > Patience => toEngineer' = toEngineer
    BY <1>4 DEF PingOne, Overdue
  <2>4. handler[c] \in {"loop", "done"} /\ (handler[c] = "done" => toEngineer' = toEngineer)
    BY <2>2, <2>3 DEF Conn, Entry, Talk
  <2>5. /\ Len(toEngineer'[c]) \in Nat /\ Len(toEngineer'[c]) <= Len(toEngineer[c]) + 1
    <3>1. "PING" \in Message
      BY DEF Message
    <3>2. CASE toEngineer' = toEngineer
      BY <1>3, <3>2
    <3>3. CASE Send({c}, "PING")
      BY <3>1, <3>3, SendAdds
    <3>4. QED
      BY <2>3, <3>2, <3>3
  <2>6. /\ Pending(c)' = 0
        /\ age[c] > Patience => Pending(c) = 0
        /\ ~(age[c] > Patience) => Pending(c) = 1
    <3>1. age[c] \in Nat /\ Patience \in Nat
      BY MailTypes
    <3>2. QED
      BY <1>1, <2>2, <3>1 DEF Pending
  <2>7. Rounds(c)' = Rounds(c) /\ Farewell' = Farewell
    BY <1>1 DEF Rounds, Farewell
  <2>8. Room(c)' = Room(c) + Pending(c)
    <3>1. /\ Pending(c) \in {0, 1} /\ Farewell \in {0, 1} /\ Rounds(c) \in Nat
          /\ Patience \in Nat /\ updates \in Nat
      BY RoomParts
    <3>2. Room(c)' = IF stopping = "no" \/ keeper.pc = "wait"
                     THEN updates + Rounds(c) + 1 - 0 + Farewell
                     ELSE updates + Patience + 2 - 0 + Farewell
      BY <1>1, <2>2, <2>6, <2>7, Zenon DEF Room
    <3>3. QED
      BY <3>1, <3>2 DEF Room
  <2>9. handler[c] = "loop" => Mail(c)' <= Room(c)'
    <3>1. Mail(c)' = Len(toEngineer'[c]) + Asks(toDriver[c])
      BY <1>1, Zenon DEF Mail
    <3>2. handler[c] = "loop" => Mail(c) <= Room(c)
      BY DEF Boxes
    <3>3. CASE age[c] > Patience
      <4>1. Mail(c)' = Mail(c) /\ Room(c)' = Room(c)
        BY <1>3, <2>3, <2>6, <2>8, <3>1, <3>3
      <4>2. QED
        BY <3>2, <4>1
    <3>4. CASE ~(age[c] > Patience)
      BY <1>3, <2>5, <2>6, <2>8, <3>1, <3>2, <3>4
    <3>5. QED
      BY <3>3, <3>4
  <2>10. Boxes(c)'
    BY <1>1, <2>4, <2>9, BoxesKept
  <2>11. QED
    BY <1>2, <2>10
<1>5. CASE Evict(c)
  <2>1. toEngineer' = toEngineer /\ keeper'.pc = keeper.pc /\ keeper'.todo = keeper.todo
    BY <1>5 DEF Evict, wires, Typed, DriverTyped
  <2>2. Room(c)' = Room(c) /\ Mail(c)' = Mail(c)
    BY <1>1, <2>1, SameRoom DEF Mail
  <2>3. Boxes(c)'
    BY <1>1, <2>1, <2>2, BoxesKept DEF Boxes
  <2>4. QED
    BY <1>2, <2>3
<1>6. QED
  BY <1>4, <1>5 DEF KeeperOf

LEMMA RoundOverBoxes ==
  ASSUME Typed, NEW c \in Conns, Boxes(c), Young(c), RoundOver, UNCHANGED engineerOnly
  PROVE  Boxes(c)' /\ Young(c)'
<1>1. /\ UNCHANGED <<handler, age, toDriver, toEngineer, stopping, updates, engineer, silent>>
      /\ keeper'.todo = keeper.todo /\ keeper.pc = "round"
      /\ stopping # "no" => keeper'.pc # "wait"
  BY DEF RoundOver, wires, engineerOnly, Typed, DriverTyped
<1>2. Room(c)' = Room(c) /\ Mail(c)' = Mail(c)
  BY <1>1 DEF Room, Rounds, Pending, Farewell, Mail
<1>3. Boxes(c)'
  BY <1>1, <1>2, BoxesKept DEF Boxes
<1>4. Young(c)'
  BY <1>1 DEF Young
<1>5. QED
  BY <1>3, <1>4

LEMMA ApiBoxes ==
  ASSUME Typed, NEW c \in Conns, Conn(c), Boxes(c), Young(c), Stop \/ Call
  PROVE  Boxes(c)' /\ Young(c)'
<1>1. UNCHANGED <<handler, age, keeper, toDriver, engineer, silent>>
  BY DEF Stop, Call, StopSay, StopClose, UpdateSession, StopSet, wires, engineerOnly
<1>2. Young(c)'
  BY <1>1 DEF Young
<1>3. /\ Len(toEngineer[c]) \in Nat /\ Asks(toDriver[c]) \in Nat
      /\ Mail(c) = Len(toEngineer[c]) + Asks(toDriver[c])
      /\ Pending(c) \in {0, 1} /\ Rounds(c) \in 0 .. Patience
      /\ Patience \in Nat /\ updates \in Nat
  BY MailTypes, RoomParts DEF Mail
<1>4. Rounds(c)' = Rounds(c) /\ Pending(c)' = Pending(c)
  BY <1>1 DEF Rounds, Pending
<1>5. ASSUME NEW m \in Message, Broadcast(m)
      PROVE  /\ Mail(c)' \in Int /\ Mail(c)' <= Mail(c) + 1
             /\ handler[c] # "loop" => toEngineer'[c] = toEngineer[c]
  <2>1. c \in registry => handler[c] = "loop"
    BY DEF Conn, Entry
  <2>2. /\ Len(toEngineer'[c]) \in Nat /\ Len(toEngineer'[c]) <= Len(toEngineer[c]) + 1
        /\ c \notin registry => toEngineer'[c] = toEngineer[c]
    BY <1>5, SendAdds DEF Broadcast
  <2>3. QED
    BY <1>1, <1>3, <2>1, <2>2 DEF Mail
<1>6. handler[c] \in {"register", "loop"} => Mail(c) <= Room(c)
  BY DEF Boxes
<1>7. CASE UpdateSession
  <2>1. /\ "SESSION_UPDATE" \in Message /\ Broadcast("SESSION_UPDATE")
        /\ stopping = "no" /\ stopping' = "no" /\ updates' = updates + 1
    BY <1>7 DEF UpdateSession, Message
  <2>2. /\ Room(c)' = (updates + 1) + Rounds(c) + 1 - Pending(c) + 0
        /\ Room(c) = updates + Rounds(c) + 1 - Pending(c) + 0
    BY <1>4, <2>1 DEF Room, Farewell
  <2>3. handler[c] \in {"register", "loop"} => Mail(c)' <= Room(c)'
    BY <1>3, <1>5, <1>6, <2>1, <2>2
  <2>4. QED
    BY <1>1, <1>2, <1>5, <2>1, <2>3, BoxesKept
<1>8. CASE StopSay
  <2>1. /\ "DISCONNECT" \in Message /\ Broadcast("DISCONNECT")
        /\ stopping = "set" /\ stopping' = "said" /\ updates' = updates
    BY <1>8 DEF StopSay, Message
  <2>2. Farewell = 0 /\ Farewell' = 1
    BY <2>1 DEF Farewell
  <2>3. Room(c)' = Room(c) + 1
    BY <1>1, <1>3, <1>4, <2>1, <2>2 DEF Room
  <2>4. Room(c) \in Int
    BY MailTypes
  <2>5. handler[c] \in {"register", "loop"} => Mail(c)' <= Room(c)'
    BY <1>3, <1>5, <1>6, <2>1, <2>3, <2>4
  <2>6. QED
    BY <1>1, <1>2, <1>5, <2>1, <2>5, BoxesKept
<1>9. CASE StopSet
  <2>1. stopping = "no" /\ stopping' = "set" /\ updates' = updates /\ toEngineer' = toEngineer
    BY <1>9 DEF StopSet, wires
  <2>2. Farewell = 0 /\ Farewell' = 0
    BY <2>1 DEF Farewell
  <2>3. Room(c) <= Room(c)' /\ Room(c) \in Int /\ Room(c)' \in Int
    BY <1>1, <1>3, <1>4, <2>1, <2>2 DEF Room
  <2>4. Mail(c)' = Mail(c) /\ Mail(c) \in Int
    BY <1>1, <1>3, <2>1 DEF Mail
  <2>5. handler[c] \in {"register", "loop"} => Mail(c)' <= Room(c)'
    BY <1>6, <2>3, <2>4
  <2>6. QED
    BY <1>1, <1>2, <2>1, <2>5, BoxesKept
<1>10. CASE StopClose
  <2>1. /\ stopping = "said" /\ stopping' = "closed" /\ updates' = updates
        /\ toEngineer' = toEngineer
    BY <1>10 DEF StopClose, wires
  <2>2. Farewell' = Farewell
    BY <2>1 DEF Farewell
  <2>3. Room(c)' = Room(c) /\ Mail(c)' = Mail(c)
    BY <1>1, <1>4, <2>1, <2>2 DEF Room, Mail
  <2>4. QED
    BY <1>1, <1>2, <1>6, <2>1, <2>3, BoxesKept
<1>11. QED
  BY <1>7, <1>8, <1>9, <1>10 DEF Stop, Call

LEMMA TickBoxes ==
  ASSUME Typed, NEW c \in Conns, Conn(c), Boxes(c), Young(c), Tick
  PROVE  Boxes(c)' /\ Young(c)'
<1> DEFINE Pinging == toDriver'[c] # toDriver[c]
<1>1. /\ UNCHANGED <<handler, registry, open, toEngineer, stopping, updates, engineer, silent>>
      /\ keeper.pc = "wait" /\ keeper'.pc = "round" /\ keeper'.todo = registry
      /\ c \notin keeper.todo
  BY DEF Tick, Wake, engineerOnly, Conn, Entry
<1>2. Pinging => /\ engineer[c] = "up" /\ c \notin silent /\ c \in open
                 /\ toDriver'[c] = Append(toDriver[c], "PING")
  BY DEF Tick
<1>3. Pinging => handler[c] \in {"register", "loop"} /\ age[c] <= 1
  BY <1>2 DEF Young, Conn, Talk
<1>4. /\ Len(toEngineer[c]) \in Nat /\ Asks(toDriver[c]) \in Nat
      /\ Mail(c) = Len(toEngineer[c]) + Asks(toDriver[c])
      /\ age[c] \in Nat /\ "PING" \in Message /\ toDriver[c] \in Seq(Message)
  BY MailTypes DEF Mail, Message
<1>5. Asks(toDriver'[c]) \in Nat /\ Asks(toDriver'[c]) <= Asks(toDriver[c]) + 1
  <2>1. /\ Asks(Append(toDriver[c], "PING")) \in Nat
        /\ Asks(Append(toDriver[c], "PING")) <= Asks(toDriver[c]) + 1
    BY <1>4, AsksFacts
  <2>2. CASE Pinging
    <3>1. Asks(toDriver'[c]) = Asks(Append(toDriver[c], "PING"))
      BY <1>2, <2>2, Zenon
    <3>2. QED
      BY <2>1, <3>1, Zenon
  <2>3. CASE ~Pinging
    BY <1>4, <2>3
  <2>4. QED
    BY <2>2, <2>3
<1>6. Mail(c)' = Len(toEngineer[c]) + Asks(toDriver'[c])
  BY <1>1, Zenon DEF Mail
<1>7. /\ Pending(c) = 0 /\ Farewell \in {0, 1} /\ Rounds(c) \in 0 .. Patience
      /\ Patience \in Nat \ {0, 1} /\ updates \in Nat /\ (age[c] <= 1 => Rounds(c) <= 1)
  BY <1>1, RoomParts
<1>8. Farewell' = Farewell
  BY <1>1 DEF Farewell
<1>9. CASE stopping = "no"
  <2>1. Prompt(c) /\ age' = Older /\ stopping' = "no" /\ Farewell = 0
    BY <1>1, <1>9 DEF Tick, Wake, Farewell
  <2>2. handler[c] = "loop" => age'[c] = IF age[c] > Patience THEN age[c] ELSE age[c] + 1
    BY <2>1 DEF Older
  <2>3. handler[c] = "loop" => toDriver[c] = <<>>
    BY <2>1 DEF Prompt, InTime
  <2>4. handler[c] # "register"
    BY <2>1 DEF Prompt, InTime
  <2>5. Room(c) = updates + Rounds(c) + 1
    BY <1>7, <2>1, <1>9 DEF Room
  <2>6. handler[c] = "loop" => Room(c) <= Room(c)' /\ Room(c)' \in Int
    <3>1. Room(c)' = updates + Rounds(c)' + 1 - Pending(c)' + 0
      BY <1>1, <1>8, <2>1 DEF Room
    <3>2. SUFFICES ASSUME handler[c] = "loop" PROVE Room(c) <= Room(c)' /\ Room(c)' \in Int
      OBVIOUS
    <3>3. CASE age[c] < Patience
      <4>1. Rounds(c)' = Rounds(c) + 1 /\ Pending(c)' \in {0, 1}
        BY <1>4, <1>7, <2>2, <3>2, <3>3 DEF Rounds, Pending
      <4>2. QED
        BY <1>7, <2>5, <3>1, <4>1
    <3>4. CASE ~(age[c] < Patience)
      <4>1. Rounds(c)' = Rounds(c) /\ Pending(c)' = 0
        BY <1>4, <1>7, <2>2, <3>2, <3>4 DEF Rounds, Pending
      <4>2. QED
        BY <1>7, <2>5, <3>1, <4>1
    <3>5. QED
      BY <3>3, <3>4
  <2>7. handler[c] = "loop" => Mail(c)' <= Room(c)'
    <3>1. SUFFICES ASSUME handler[c] = "loop" PROVE Mail(c)' <= Room(c)'
      OBVIOUS
    <3>2. Mail(c) <= Room(c)
      BY <3>1 DEF Boxes
    <3>3. CASE Pinging
      <4>1. toEngineer[c] = <<>> /\ toDriver[c] = <<>>
        BY <1>2, <2>1, <2>3, <3>1, <3>3 DEF Prompt
      <4>2. Len(toEngineer[c]) = 0 /\ Asks(toDriver[c]) = 0
        BY <4>1, AsksOne
      <4>3. QED
        BY <1>5, <1>6, <1>7, <2>5, <2>6, <3>1, <4>2
    <3>4. CASE ~Pinging
      <4>1. Mail(c)' = Mail(c)
        BY <1>4, <1>6, <3>4
      <4>2. QED
        BY <1>4, <1>7, <2>5, <2>6, <3>1, <3>2, <4>1
    <3>5. QED
      BY <3>3, <3>4
  <2>8. Boxes(c)'
    <3>1. handler[c] # "loop" => ~Pinging
      BY <1>3, <2>4
    <3>2. QED
      BY <1>1, <2>4, <2>7, <3>1, BoxesKept
  <2>9. c \notin silent /\ engineer[c] \in {"welcome", "subscribed", "up", "leaving"} => age'[c] = 1
    <3>1. c \notin silent /\ engineer[c] \in {"welcome", "subscribed", "up", "leaving"} => Healthy(c)
      BY <1>9, <2>1 DEF Prompt, Healthy
    <3>2. QED
      BY <3>1, HealthyTicked
  <2>10. ~Contains(toDriver'[c], "PONG")
    <3>1. toDriver[c] = <<>>
      BY <2>1 DEF Prompt, InTime, Boxes, Typed, DriverTyped, Handlers
    <3>2. toDriver'[c] \in {<<>>, Append(<<>>, "PING")}
      BY <1>2, <3>1
    <3>3. toDriver'[c] \in {<<>>, <<"PING">>}
      BY <3>2
    <3>4. ~Contains(<<>>, "PONG") /\ ~Contains(<<"PING">>, "PONG")
      BY SingletonFacts
    <3>5. QED
      BY <3>3, <3>4
  <2>11. Young(c)'
    BY <1>1, <1>2, <2>9, <2>10 DEF Young
  <2>12. QED
    BY <2>8, <2>11
<1>10. CASE stopping # "no"
  <2>1. age' = age
    BY <1>10 DEF Tick, Wake
  <2>2. Rounds(c)' = Rounds(c) /\ Pending(c)' \in {0, 1}
    BY <2>1 DEF Rounds, Pending
  <2>3. Room(c) = updates + Rounds(c) + 1 - 0 + Farewell
    BY <1>1, <1>7 DEF Room
  <2>4. Room(c)' = updates + Patience + 2 - Pending(c)' + Farewell
    BY <1>1, <1>8, <1>10 DEF Room
  <2>5. handler[c] \in {"register", "loop"} => Mail(c)' <= Room(c)'
    <3>1. handler[c] \in {"register", "loop"} => Mail(c) <= Room(c)
      BY DEF Boxes
    <3>2. CASE Pinging
      <4>1. Rounds(c) <= 1
        BY <1>3, <1>7, <3>2
      <4>2. Mail(c) \in Nat /\ Mail(c)' \in Nat /\ Mail(c)' <= Mail(c) + 1
        BY <1>4, <1>5, <1>6
      <4>3. Room(c) \in Int /\ Room(c)' \in Int /\ Room(c) + 1 <= Room(c)'
        BY <1>7, <2>2, <2>3, <2>4, <4>1
      <4>4. QED
        BY <3>1, <4>2, <4>3
    <3>3. CASE ~Pinging
      <4>1. Mail(c)' = Mail(c)
        BY <1>4, <1>6, <3>3
      <4>2. QED
        BY <1>4, <1>7, <2>2, <2>3, <2>4, <3>1, <4>1
    <3>4. QED
      BY <3>2, <3>3
  <2>6. Boxes(c)'
    BY <1>1, <1>3, <2>5, BoxesKept
  <2>7. Contains(toDriver'[c], "PONG") => Contains(toDriver[c], "PONG")
    <3>1. Contains(Append(toDriver[c], "PING"), "PONG")
            <=> Contains(toDriver[c], "PONG") \/ "PING" = "PONG"
      BY <1>4, ContainsFacts
    <3>2. QED
      BY <1>2, <3>1
  <2>8. Young(c)'
    BY <1>1, <1>2, <2>1, <2>7 DEF Young
  <2>9. QED
    BY <2>6, <2>8
<1>11. QED
  BY <1>9, <1>10

LEMMA MailInit == Init => MailInv
<1> SUFFICES ASSUME Init, NEW c \in Conns PROVE Boxes(c) /\ Young(c)
  BY DEF MailInv
<1>1. /\ handler[c] = "none" /\ toDriver[c] = <<>> /\ age[c] = 0 /\ engineer[c] = "idle"
  BY DEF Init, StreamerInit
<1>2. Boxes(c)
  BY <1>1 DEF Boxes
<1>3. ~Contains(toDriver[c], "PONG")
  BY <1>1, SingletonFacts
<1>4. Young(c)
  BY <1>1, <1>3 DEF Young
<1>5. QED
  BY <1>2, <1>4

LEMMA MailStep == ASSUME IInv, MailInv, [Next]_vars PROVE MailInv'
<1>1. Typed /\ \A c \in Conns : Conn(c) /\ Boxes(c) /\ Young(c)
  BY DEF IInv, MailInv
<1>2. ASSUME NEW d \in Conns, StepOf(d), NEW c \in Conns PROVE Boxes(c)' /\ Young(c)'
  <2>1. CASE c # d
    <3>1. Same(c)
      BY <1>1, <1>2, <2>1, OthersSame
    <3>2. updates' = updates
      BY <1>2 DEF StepOf, Connect, Accept, Driver, Greet, TakeSubscribe, Confirm, Register,
                  HandshakeFails, LoopEnds, Dispatch, Finish, Reader, TakeWelcome, TakeSubscribed,
                  ConnectFails, TakeControl, Lost, Close, Leave, FallSilent, KeeperOf, PingOne,
                  Evict, driverOnly, streamerVars
    <3>3. QED
      BY <1>1, <3>1, <3>2, SameBoxes
  <2>2. CASE c = d
    <3>1. CASE Driver(c)
      <4>1. CASE HandshakeFails(c) \/ LoopEnds(c)
        BY <1>1, <3>1, <4>1, FinishBoxes DEF Driver, HandshakeFails, LoopEnds
      <4>2. QED
        BY <1>1, <3>1, <4>1, HandshakeBoxes, DispatchBoxes DEF Driver
    <3>2. QED
      BY <1>1, <1>2, <2>2, <3>1, ConnectBoxes, ReaderBoxes, LeavingBoxes, KeeperBoxes DEF StepOf
  <2>3. QED
    BY <2>1, <2>2
<1>3. ASSUME NEW c \in Conns, Tick \/ Stop \/ Call \/ (RoundOver /\ UNCHANGED engineerOnly)
      PROVE  Boxes(c)' /\ Young(c)'
  BY <1>1, <1>3, TickBoxes, ApiBoxes, RoundOverBoxes
<1>4. CASE UNCHANGED vars
  <2>1. updates' = updates /\ \A c \in Conns : Same(c)
    BY <1>4 DEF vars, streamerVars, wires, Same
  <2>2. \A c \in Conns : Boxes(c)' /\ Young(c)'
    BY <1>1, <2>1, SameBoxes
  <2>3. QED
    BY <2>2 DEF MailInv
<1>5. \/ \E d \in Conns : StepOf(d)
      \/ Tick \/ Stop \/ Call \/ (RoundOver /\ UNCHANGED engineerOnly)
      \/ UNCHANGED vars
  BY DEF Next, StepOf, Keeper, KeeperOf
<1>6. QED
  BY <1>2, <1>3, <1>4, <1>5 DEF MailInv

(* What lies there for an engineer that has stopped reading is bounded by  *)
(* the patience of the keep-alive thread and the session updates, however  *)
(* long it stays registered; and the variables have their types.           *)
THEOREM BacklogBounded == Spec => []TypeOK
<1>1. ASSUME IInv, MailInv PROVE TypeOK
  <2>1. Typed /\ \A c \in Conns : Conn(c) /\ Boxes(c)
    BY <1>1 DEF IInv, MailInv
  <2>2. ASSUME NEW c \in Conns PROVE Len(toEngineer[c]) <= Patience + MaxUpdates + 3
    <3>1. /\ Len(toEngineer[c]) \in Nat /\ Len(toEngineer[c]) <= Mail(c) /\ Mail(c) \in Nat
          /\ Room(c) \in Int /\ Room(c) <= MaxMail
          /\ Patience \in Nat /\ MaxUpdates \in Nat
      BY <2>1, MailTypes
    <3>2. MaxMail = Patience + MaxUpdates + 3
      BY <3>1 DEF MaxMail
    <3>3. CASE handler[c] = "none"
      <4>1. toEngineer[c] = <<>>
        BY <2>1, <3>3 DEF Conn, Talk
      <4>2. Len(toEngineer[c]) = 0
        BY <4>1
      <4>3. QED
        BY <3>1, <4>2
    <3>4. CASE handler[c] # "none"
      <4>1. Mail(c) <= 1 \/ Mail(c) <= 0 \/ Mail(c) <= Room(c) \/ Mail(c) <= MaxMail
        BY <2>1, <3>4 DEF Boxes, Typed, DriverTyped, Handlers
      <4>2. QED
        BY <3>1, <3>2, <4>1
    <3>5. QED
      BY <3>3, <3>4
  <2>3. QED
    BY <2>1, <2>2 DEF Typed, DriverTyped, LinkTyped, TypeOK, Engineers
<1>2. Init => IInv /\ MailInv
  BY IInvInit, MailInit
<1>3. IInv /\ MailInv /\ [Next]_vars => IInv' /\ MailInv'
  BY IInvStep, MailStep
<1>4. QED
  BY <1>1, <1>2, <1>3, PTL DEF Spec
=============================================================================
