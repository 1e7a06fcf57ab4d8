-------------------------- MODULE StreamClientProofs --------------------------
(***************************************************************************)
(* Proofs about the engineer's streaming client, for every width of the    *)
(* sequence numbers, any number of frames, calls and failures of the       *)
(* driver, and bursts of losses up to half the width.                      *)
(***************************************************************************)
EXTENDS StreamClient, SeqFacts

(* The sequence number expected next, and the counters, tell where in the  *)
(* driver's frames the session is.                                         *)
Counted ==
    IF got = <<>> THEN lastSeq = NoSeq /\ rx = 0 /\ lost = 0
    ELSE /\ Last(got) = sent /\ lastSeq = Number(sent)
         /\ rx + lost = sent - Head(got) + 1

DataTypes ==
    /\ base \in 0 .. Width - 1 /\ sent \in Nat /\ rx \in Nat /\ lost \in Nat
    /\ buffer \in Seq(Nat) /\ got \in Seq(Nat) /\ out \in Seq(Nat)

(* What was received is what was broadcast and what the buffer still holds. *)
Buffered == got = out \o buffer

DataInv == DataTypes /\ Counted /\ Buffered

(* A task ends only for a call that cancelled it and waits for it.         *)
Places == {"none", "top", "opening", "welcome", "subscribed", "binding", "connected",
           "closing", "sleeping", "over"}
TaskInv ==
    /\ pc \in Places /\ running \in BOOLEAN
    /\ cancelled \in BOOLEAN /\ leaving \in BOOLEAN
    /\ calling \in {"none", "start", "stop"}
    /\ calling = "none" =>
         /\ ~cancelled /\ (leaving => pc = "none")
         /\ pc # "over" /\ (running <=> pc # "none")
    /\ calling # "none" => ~running /\ pc # "none"
    /\ pc = "over" => ~cancelled
    /\ pc = "none" => state = "idle"
    /\ state = "connected" => pc \in {"connected", "closing", "over"}

-----------------------------------------------------------------------------
(* Remainders of a modulus that is a variable.                             *)

LEMMA MultipleAbove ==
  ASSUME NEW w \in Nat, w > 0, NEW k \in Int, k > 0
  PROVE  w * k >= w
OBVIOUS

LEMMA SmallMultiple ==
  ASSUME NEW w \in Nat, w > 0, NEW k \in Int, w * k < w, -w < w * k
  PROVE  k = 0
<1>1. ASSUME k > 0 PROVE FALSE
  <2>1. w * k >= w
    BY <1>1, MultipleAbove
  <2>2. QED
    BY <2>1
<1>2. ASSUME k < 0 PROVE FALSE
  <2>1. w * (-k) >= w
    BY <1>2, MultipleAbove
  <2>2. w * (-k) = -(w * k)
    OBVIOUS
  <2>3. QED
    BY <2>1, <2>2
<1>3. QED
  BY <1>1, <1>2

LEMMA Division ==
  ASSUME NEW w \in Nat, w > 0, NEW a \in Int
  PROVE  /\ a % w \in 0 .. w - 1 /\ a \div w \in Int
         /\ a = (w * (a \div w)) + (a % w)
OBVIOUS

(* A remainder is the only one there is.                                   *)
LEMMA Remainder ==
  ASSUME NEW w \in Nat, w > 0, NEW a \in Int, NEW q \in Int, NEW r \in 0 .. w - 1,
         a = w * q + r
  PROVE  a % w = r
<1> DEFINE p == a \div w
           s == a % w
           k == q - p
<1>1. p \in Int /\ s \in 0 .. w - 1 /\ a = w * p + s
  BY Division
<1> HIDE DEF p, s
<1>2. w * k = s - r
  <2>1. w * k = w * q - w * p
    BY <1>1
  <2>2. QED
    BY <1>1, <2>1
<1>3. k = 0
  <2>1. k \in Int
    BY <1>1
  <2> HIDE DEF k
  <2>2. QED
    BY <1>1, <1>2, <2>1, SmallMultiple
<1>4. s = r
  BY <1>1, <1>2, <1>3
<1>5. QED
  BY <1>4 DEF s

(* Numbers that are d apart give a gap of d, wherever they wrap, as long   *)
(* as d is below the width.                                                *)
LEMMA WrappedGap ==
  ASSUME NEW w \in Nat, w > 1, NEW a \in Nat, NEW d \in 1 .. w - 1
  PROVE  /\ (((a + d) % w) - (a % w)) % w = d
         /\ (a + d) % w = ((a % w) + 1) % w <=> d = 1
<1> DEFINE u == (a + d) % w
           v == a % w
           p == (a + d) \div w
           q == a \div w
<1>1. /\ u \in 0 .. w - 1 /\ p \in Int /\ a + d = w * p + u
      /\ v \in 0 .. w - 1 /\ q \in Int /\ a = w * q + v
  BY Division
<1> HIDE DEF u, v, p, q
<1>2. (u - v) % w = d
  <2> DEFINE k == q - p
  <2>1. w * k = w * q - w * p
    BY <1>1
  <2>2. k \in Int /\ u - v = w * k + d
    BY <1>1, <2>1
  <2> DEFINE e == u - v
  <2>3. w > 0 /\ e \in Int /\ k \in Int /\ d \in 0 .. w - 1 /\ e = w * k + d
    BY <1>1, <2>2
  <2> HIDE DEF k, e
  <2>4. e % w = d
    BY <2>3, Remainder, Zenon
  <2>5. QED
    BY <2>4 DEF e
<1>3. ASSUME d = 1 PROVE u = (v + 1) % w
  <2> DEFINE k == p - q
  <2>1. w * k = w * p - w * q
    BY <1>1
  <2>2. k \in Int /\ v + 1 = w * k + u
    BY <1>1, <1>3, <2>1
  <2> HIDE DEF k
  <2>3. v + 1 \in Int
    BY <1>1
  <2>4. QED
    BY <1>1, <2>2, <2>3, Remainder
<1>4. ASSUME u = (v + 1) % w PROVE d = 1
  <2> DEFINE m == (v + 1) \div w
             k == -m
  <2>1. m \in Int /\ v + 1 = w * m + u
    <3>1. v + 1 \in Int
      BY <1>1
    <3>2. QED
      BY <1>4, <3>1, Division
  <2> HIDE DEF m
  <2>2. w * k = -(w * m)
    BY <2>1
  <2>3. k \in Int /\ u - v = w * k + 1
    BY <1>1, <2>1, <2>2
  <2> DEFINE e == u - v
  <2>4. w > 0 /\ e \in Int /\ k \in Int /\ 1 \in 0 .. w - 1 /\ e = w * k + 1
    BY <1>1, <2>3
  <2> HIDE DEF k, e
  <2>5. e % w = 1
    BY <2>4, Remainder, Zenon
  <2>6. QED
    BY <1>2, <2>5 DEF e
<1>5. QED
  BY <1>2, <1>3, <1>4 DEF u, v

(* The counter takes exactly the frames that were skipped for lost.        *)
LEMMA LossesOfAGap ==
  ASSUME base \in 0 .. Width - 1, sent \in Nat, lastSeq = Number(sent),
         NEW n \in sent + 1 .. sent + 1 + MaxBurst
  PROVE  Losses(Number(n)) = n - sent - 1
<1> DEFINE a == base + sent
           d == n - sent
<1>1. /\ Width \in Nat /\ Width > 1 /\ MaxBurst \in Nat
      /\ MaxBurst + 1 < Width \div 2 /\ Width \div 2 <= Width
  <2>1. Width \in Nat /\ MaxBurst \in Nat /\ MaxBurst + 1 < Width \div 2
    BY ClientAssumption
  <2>2. QED
    BY <2>1
<1>2. a \in Nat /\ d \in 1 .. MaxBurst + 1 /\ base + n = a + d
  BY <1>1
<1>3. Number(n) = (a + d) % Width /\ lastSeq = a % Width
  BY <1>2 DEF Number
<1> HIDE DEF a, d
<1>4. d \in 1 .. Width - 1 /\ d < Width \div 2
  BY <1>1, <1>2
<1>5. /\ (((a + d) % Width) - (a % Width)) % Width = d
      /\ (a + d) % Width = ((a % Width) + 1) % Width <=> d = 1
  BY <1>1, <1>2, <1>4, WrappedGap
<1>6. lastSeq # NoSeq
  <2>1. a % Width \in 0 .. Width - 1
    BY <1>1, <1>2, Division
  <2>2. QED
    BY <1>3, <2>1 DEF NoSeq
<1>7. Gap(Number(n)) = d /\ (Number(n) = (lastSeq + 1) % Width <=> d = 1)
  BY <1>3, <1>5 DEF Gap
<1>8. Losses(Number(n)) = IF d = 1 THEN 0 ELSE d - 1
  BY <1>4, <1>6, <1>7 DEF Losses
<1>9. QED
  BY <1>2, <1>8 DEF d

-----------------------------------------------------------------------------
(* The session's data.                                                     *)

dataVars == <<fields, sent, base, history>>

LEMMA DataKept ==
  ASSUME DataInv, UNCHANGED dataVars
  PROVE  DataInv'
BY DEF DataInv, DataTypes, Counted, Buffered, Number, dataVars, fields, history

LEMMA DataInit == Init => DataInv
<1> SUFFICES ASSUME Init PROVE DataInv
  OBVIOUS
<1>1. <<>> \in Seq(Nat) /\ <<>> \o <<>> = <<>>
  OBVIOUS
<1>2. QED
  BY <1>1 DEF Init, DataInv, DataTypes, Counted, Buffered

LEMMA PacketKeeps == ASSUME DataInv, Packet PROVE DataInv'
<1>1. PICK n \in (sent + 1) .. AtMost(sent + 1 + MaxBurst, MaxFrames) :
        /\ sent' = n
        /\ lost' = lost + Losses(Number(n)) /\ lastSeq' = Number(n)
        /\ rx' = rx + 1 /\ buffer' = Append(buffer, n) /\ got' = Append(got, n)
        /\ UNCHANGED <<base, out>>
  BY DEF Packet
<1>2. /\ base \in 0 .. Width - 1 /\ sent \in Nat /\ rx \in Nat /\ lost \in Nat
      /\ buffer \in Seq(Nat) /\ got \in Seq(Nat) /\ out \in Seq(Nat)
      /\ got = out \o buffer /\ Counted
  BY DEF DataInv, DataTypes, Buffered
<1>3. /\ MaxBurst \in Nat /\ MaxFrames \in Nat
  BY ClientAssumption
<1>4. n \in sent + 1 .. sent + 1 + MaxBurst /\ n \in Nat
  BY <1>1, <1>2, <1>3 DEF AtMost
<1>5. /\ Append(got, n) \in Seq(Nat) /\ Append(got, n) # <<>>
      /\ Last(Append(got, n)) = n
      /\ got # <<>> => Head(Append(got, n)) = Head(got)
      /\ got = <<>> => Head(Append(got, n)) = n
  <2>1. /\ Append(got, n) \in Seq(Nat) /\ Append(got, n) # <<>>
        /\ Last(Append(got, n)) = n
    <3>1. got \in Seq(Nat) /\ n \in Nat
      BY <1>2, <1>4
    <3>2. QED
      BY <3>1, AppendFacts
  <2>2. got # <<>> => Head(Append(got, n)) = Head(got)
    BY <1>2, <1>4, HeadFacts
  <2>3. got = <<>> => Append(got, n) = <<n>>
    BY <1>2, <1>4, HeadFacts
  <2>4. Head(<<n>>) = n
    OBVIOUS
  <2>5. QED
    BY <2>1, <2>2, <2>3, <2>4
<1>6. Append(buffer, n) \in Seq(Nat) /\ got' = out \o Append(buffer, n) /\ rx + 1 \in Nat
  <2>1. buffer \in Seq(Nat) /\ out \in Seq(Nat) /\ n \in Nat /\ got' = Append(out \o buffer, n)
    BY <1>1, <1>2, <1>4
  <2>2. Append(buffer, n) \in Seq(Nat) /\ out \o Append(buffer, n) = Append(out \o buffer, n)
    BY <2>1, AppendFacts, ConcatFacts
  <2>3. QED
    BY <1>2, <2>1, <2>2
<1>7. CASE got = <<>>
  <2>1. Losses(Number(n)) = 0 /\ rx = 0 /\ lost = 0
    BY <1>2, <1>7 DEF Counted, Losses
  <2>2. rx' + lost' = 1 /\ lost' \in Nat /\ Head(got') = n
    BY <1>1, <1>5, <1>7, <2>1
  <2>3. rx' + lost' = sent' - Head(got') + 1 /\ lost' \in Nat
    BY <1>1, <1>4, <2>2
  <2>4. QED
    BY <1>1, <1>2, <1>4, <1>5, <1>6, <2>3
       DEF DataInv, DataTypes, Counted, Buffered, Number
<1>8. CASE got # <<>>
  <2>1. /\ Last(got) = sent /\ lastSeq = Number(sent)
        /\ rx + lost = sent - Head(got) + 1 /\ Head(got) \in Nat
    BY <1>2, <1>8, TailFacts DEF Counted
  <2>2. Losses(Number(n)) = n - sent - 1
    BY <1>2, <1>4, <2>1, LossesOfAGap
  <2>3. lost' \in Nat /\ rx' + lost' = n - Head(got) + 1
    <3>1. lost' = lost + (n - sent - 1) /\ rx' = rx + 1
      BY <1>1, <2>2
    <3>2. PICK h \in Nat : h = Head(got)
      BY <2>1
    <3>3. /\ rx \in Nat /\ lost \in Nat /\ sent \in Nat /\ n \in Nat /\ n > sent
          /\ rx + lost = sent - h + 1
      <4>1. rx \in Nat /\ lost \in Nat /\ sent \in Nat /\ MaxBurst \in Nat
        BY <1>2, <1>3
      <4>2. n > sent /\ n \in Nat
        BY <1>4, <4>1
      <4>3. rx + lost = sent - h + 1
        BY <2>1, <3>2
      <4>4. QED
        BY <4>1, <4>2, <4>3
    <3>4. lost' \in Nat /\ rx' + lost' = n - h + 1
      BY <3>1, <3>3
    <3>5. QED
      BY <3>2, <3>4
  <2>4. rx' + lost' = sent' - Head(got') + 1
    BY <1>1, <1>5, <1>8, <2>3
  <2>5. QED
    BY <1>1, <1>2, <1>4, <1>5, <1>6, <2>3, <2>4
       DEF DataInv, DataTypes, Counted, Buffered, Number
<1>9. QED
  BY <1>7, <1>8

LEMMA FlushKeeps == ASSUME DataInv, Flush PROVE DataInv'
<1>1. /\ buffer \in Seq(Nat) /\ out \in Seq(Nat) /\ buffer # <<>> /\ got = out \o buffer
      /\ buffer' = Tail(buffer) /\ out' = Append(out, Head(buffer))
      /\ UNCHANGED <<lastSeq, rx, lost, sent, base, got>>
  BY DEF DataInv, DataTypes, Buffered, Flush, env
<1>2. Head(buffer) \in Nat /\ Tail(buffer) \in Seq(Nat)
  BY <1>1, TailFacts
<1>3. Append(out, Head(buffer)) \in Seq(Nat)
  BY <1>1, <1>2, AppendFacts
<1>4. got' = out' \o buffer'
  BY <1>1, ConcatFacts
<1>5. DataTypes'
  BY <1>1, <1>2, <1>3 DEF DataInv, DataTypes
<1>6. Counted'
  BY <1>1 DEF DataInv, Counted, Number
<1>7. QED
  BY <1>4, <1>5, <1>6 DEF DataInv, Buffered

LEMMA ConnectedKeeps == ASSUME DataInv, Connected PROVE DataInv'
<1>1. /\ lastSeq' = NoSeq /\ rx' = 0 /\ lost' = 0 /\ buffer' = <<>>
      /\ got' = <<>> /\ out' = <<>> /\ UNCHANGED <<sent, base>>
  BY DEF Connected, env
<1>2. <<>> \in Seq(Nat) /\ <<>> \o <<>> = <<>>
  OBVIOUS
<1>3. DataTypes' /\ Counted' /\ Buffered'
  BY <1>1, <1>2 DEF DataInv, DataTypes, Counted, Buffered
<1>4. QED
  BY <1>3 DEF DataInv

LEMMA DataNext == DataInv /\ [Next]_vars => DataInv'
<1> SUFFICES ASSUME DataInv, [Next]_vars PROVE DataInv'
  OBVIOUS
<1>1. CASE Flip \/ Start \/ Stop \/ Joined
  BY <1>1, DataKept DEF Flip, Start, Stop, Joined, dataVars, env
<1>2. CASE Cancelled \/ Top \/ Open \/ Welcome \/ Subscribed \/ Closed \/ Wake \/ SessionEnds
  BY <1>2, DataKept DEF Cancelled, Top, Open, Welcome, Subscribed, Closed, Wake,
                        SessionEnds, taskOnly, dataVars, env
<1>3. CASE UNCHANGED vars
  BY <1>3, DataKept DEF vars, dataVars, env
<1>4. QED
  BY <1>1, <1>2, <1>3, PacketKeeps, FlushKeeps, ConnectedKeeps DEF Next, TaskStep

(* The packets counted as received and as lost (client.py, _on_udp_packet) *)
(* add up to the stretch of the driver's frames the session spans, for     *)
(* every width of the sequence numbers, wherever they wrap, and bursts of  *)
(* losses below half that width.                                           *)
THEOREM LossesCounted == Spec => []LossesExact
<1>1. DataInv => LossesExact
  BY DEF DataInv, Counted, LossesExact
<1>2. QED
  BY <1>1, DataInit, DataNext, PTL DEF Spec

(* What the flusher broadcasts (client.py, _buffer_flusher) is what this   *)
(* session received, in order, each frame once, and nothing of a session   *)
(* before it.                                                              *)
THEOREM BroadcastsInOrder == Spec => []BroadcastAsReceived
<1>1. DataInv => BroadcastAsReceived
  <2> SUFFICES ASSUME DataInv PROVE IsPrefix(out, got)
    BY DEF BroadcastAsReceived
  <2>1. out \in Seq(Nat) /\ buffer \in Seq(Nat) /\ got = out \o buffer
    BY DEF DataInv, DataTypes, Buffered
  <2>2. QED
    BY <2>1, PrefixOfJoined
<1>2. QED
  BY <1>1, DataInit, DataNext, PTL DEF Spec

-----------------------------------------------------------------------------
(* The task and the calls.                                                 *)

LEMMA TaskInit == Init => TaskInv
BY DEF Init, TaskInv, Places, NoCall

LEMMA TaskNext == TaskInv /\ [Next]_vars => TaskInv'
<1> SUFFICES ASSUME TaskInv, [Next]_vars PROVE TaskInv'
  OBVIOUS
<1> USE DEF Places, NoCall
<1>1. CASE Flip \/ Packet \/ Flush \/ UNCHANGED vars
  BY <1>1 DEF TaskInv, Flip, Packet, Flush, vars, callVars
<1>2. CASE Start
  BY <1>2 DEF TaskInv, Start, NewTask
<1>3. CASE Stop
  BY <1>3 DEF TaskInv, Stop
<1>4. CASE Joined
  <2>1. CASE calling = "start"
    BY <1>4, <2>1 DEF TaskInv, Joined, NewTask
  <2>2. CASE calling # "start"
    BY <1>4, <2>2 DEF TaskInv, Joined
  <2>3. QED
    BY <2>1, <2>2
<1>5. CASE Cancelled
  BY <1>5 DEF TaskInv, Cancelled, taskOnly, callVars
<1>6. CASE Top \/ Open
  BY <1>6 DEF TaskInv, Top, Open, Go, taskOnly, callVars
<1>7. CASE Welcome \/ Subscribed \/ Connected
  BY <1>7 DEF TaskInv, Welcome, Subscribed, Connected, Go, taskOnly, callVars
<1>8. CASE Closed
  BY <1>8 DEF TaskInv, Closed, Go, taskOnly, callVars
<1>9. CASE Wake \/ SessionEnds
  BY <1>9 DEF TaskInv, Wake, SessionEnds, Go, taskOnly, callVars
<1>10. QED
  BY <1>1, <1>2, <1>3, <1>4, <1>5, <1>6, <1>7, <1>8, <1>9 DEF Next, TaskStep

(* Between calls a client that does not run is idle and has no task, and   *)
(* it reports "connected" only while a session is there or being closed    *)
(* (client.py, start, stop, _run), at whichever wait a cancellation        *)
(* arrives and whatever the driver does.                                   *)
THEOREM StateReported == Spec => []StateHonest
<1>1. TaskInv => StateHonest
  BY DEF TaskInv, StateHonest, NoCall
<1>2. QED
  BY <1>1, TaskInit, TaskNext, PTL DEF Spec
=============================================================================
